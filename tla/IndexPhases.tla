----------------------------- MODULE IndexPhases -----------------------------
(***************************************************************************)
(* The requests that work on the files of a repository in the codesearch   *)
(* process: the index phases of the backend's pipelines, the purge of a    *)
(* deleted repository and the collection of its checkouts. A phase passes  *)
(* three gates: the admission of pipelines (a capacity, refused with 429), *)
(* the operation lock of its repository (phases share it, a purge has it   *)
(* alone) and, for an indexer, a slot for its child process. The process   *)
(* has one thread: a step is what runs between two awaits.                 *)
(*                                                                         *)
(* "clone" stands for clone-checkout and detect-languages. The SCIP phases *)
(* of a repository are of one language and checkout, so at most one is     *)
(* under way and the mutex of a checkout is never contended. A phase runs  *)
(* at most one child process. The legacy route POST /{repoId}/index does   *)
(* all phases in one request that takes the lock and slots but neither the *)
(* admission nor a SCIP key; nothing in the repository calls it, and it is *)
(* left out.                                                               *)
(***************************************************************************)
EXTENDS Naturals, Sequences, FiniteSets

CONSTANTS
  Calls,   \* HTTP requests, each used once
  Repos,   \* repositories of the instance
  Cap,     \* getIndexPipelineConcurrency()
  Slots    \* getIndexerProcessConcurrency()

ASSUME IndexPhasesAssumption ==
  /\ IsFiniteSet(Calls) /\ Repos # {}
  /\ Cap \in Nat \ {0}
  /\ Slots \in Nat \ {0}

VARIABLES
  call,      \* the requests
  op,        \* repositoryOperations
  pipe,      \* pipelines: a reservation for each repository in its domain
  slot,      \* activeIndexerProcesses
  slotQueue, \* indexerProcessWaiters
  scip,      \* repositories whose scipPhaseRuns entry is "running"
  cut        \* history: repositories whose reservation ended under a phase

phaseVars == <<call, op, pipe, slot, slotQueue, scip, cut>>

-----------------------------------------------------------------------------
(* Values *)

Phases == {"clone", "zoekt", "scip", "merge"}

Kinds == Phases \cup {"purge", "collect"}

Places == {"none", "resolving", "queued", "inside", "slotQueued", "indexing",
           "indexed", "done"}

Fields(k, r) == [at |-> "none", kind |-> k, repo |-> r]

\* A request that was not made; one that ended looks the same but for `at`.
Blank == Fields("clone", CHOOSE r \in Repos : TRUE)

Done == [Blank EXCEPT !.at = "done"]

PhaseInit ==
  /\ call = [c \in Calls |-> Blank]
  /\ op = [r \in Repos |-> [active |-> 0, purge |-> FALSE, queue |-> << >>]]
  /\ pipe = << >>
  /\ slot = 0
  /\ slotQueue = << >>
  /\ scip = {}
  /\ cut = {}

IsPhase(c) == call[c].kind \in Phases

Repo(c) == call[c].repo

Move(c, place) == call' = [call EXCEPT ![c].at = place]

-----------------------------------------------------------------------------
(* Admission of pipelines *)

\* Mutant: a reservation that idled out goes under a phase that has a reference.
Kept_Idle ==
  [r \in {q \in DOMAIN pipe : ~pipe[q].idle} |-> pipe[r]]

\* A reservation goes when no phase has a reference and it is idle too long.
Kept ==
  [r \in {q \in DOMAIN pipe : pipe[q].refs > 0 \/ ~pipe[q].idle} |-> pipe[r]]

Admissible(r) == r \in DOMAIN Kept \/ Cardinality(DOMAIN Kept) < Cap

Admitted(r) ==
  [q \in DOMAIN Kept \cup {r} |->
     IF q # r THEN Kept[q]
     ELSE [refs |-> IF r \in DOMAIN Kept THEN Kept[r].refs + 1 ELSE 1,
           idle |-> FALSE]]

Released(r) ==
  [q \in DOMAIN pipe |->
     IF q # r THEN pipe[q]
     ELSE [refs |-> IF pipe[r].refs = 0 THEN 0 ELSE pipe[r].refs - 1,
           idle |-> FALSE]]

Ended(r) == [q \in DOMAIN pipe \ {r} |-> pipe[q]]

\* The reference of a phase goes, and the reservation with it when the phase
\* is the last one or a first one failed.
ReleasePipe(c, ok) ==
  LET r == Repo(c)
      end == call[c].kind = "merge" \/ (call[c].kind = "clone" /\ ~ok)
      others == {d \in Calls \ {c} : IsPhase(d) /\ Repo(d) = r
                                     /\ call[d].at \notin {"none", "done"}}
  IN /\ pipe' = IF end THEN Ended(r) ELSE Released(r)
     /\ cut' = IF end /\ others # {} THEN cut \cup {r} ELSE cut

\* The idle time to live of a reservation runs out.
Idle(r) ==
  /\ r \in DOMAIN pipe /\ ~pipe[r].idle
  /\ pipe' = [pipe EXCEPT ![r].idle = TRUE]
  /\ UNCHANGED <<call, op, slot, slotQueue, scip, cut>>

-----------------------------------------------------------------------------
(* The operation lock of a repository *)

Waiting(r, phase) ==
  \E i \in DOMAIN op[r].queue : IsPhase(op[r].queue[i]) = phase

\* Mutant: a phase does not look at the purges that wait.
CanAcquire_Overtake(r, phase) ==
  IF phase THEN ~op[r].purge ELSE ~op[r].purge /\ op[r].active = 0

CanAcquire(r, phase) ==
  IF phase THEN ~op[r].purge /\ ~Waiting(r, FALSE)
  ELSE ~op[r].purge /\ op[r].active = 0

Taken(o, phase) ==
  IF phase THEN [o EXCEPT !.active = @ + 1] ELSE [o EXCEPT !.purge = TRUE]

\* Request c asks for the lock of r: it has it now, or it waits in line.
Enter(c, r, phase, fields) ==
  LET now == CanAcquire(r, phase)
  IN /\ call' = [call EXCEPT ![c] =
                  [fields EXCEPT !.at = IF now THEN "inside" ELSE "queued"]]
     /\ op' = [op EXCEPT ![r] =
                IF now THEN Taken(@, phase)
                ELSE [op[r] EXCEPT !.queue = Append(op[r].queue, c)]]

\* The places in line of the phases before the first purge.
Front(q) == {i \in DOMAIN q : \A j \in 1..i : IsPhase(q[j])}

\* Mutant: the purge at the head does not wait for the phases to leave.
Woken_Any(o) ==
  IF o.purge \/ o.queue = << >> THEN {}
  ELSE IF ~IsPhase(Head(o.queue)) THEN {Head(o.queue)}
  ELSE {o.queue[i] : i \in Front(o.queue)}

\* Mutant: a purge at the head of the line is never woken.
Woken_Phases(o) ==
  IF o.purge \/ o.queue = << >> \/ ~IsPhase(Head(o.queue)) THEN {}
  ELSE {o.queue[i] : i \in Front(o.queue)}

\* A released lock goes to the purge at the head of the line, or to all the
\* phases before the first purge.
Woken(o) ==
  IF o.purge \/ o.queue = << >> THEN {}
  ELSE IF o.active = 0 /\ ~IsPhase(Head(o.queue)) THEN {Head(o.queue)}
  ELSE {o.queue[i] : i \in Front(o.queue)}

Drained(o) ==
  LET n == Cardinality(Woken(o))
      rest == SubSeq(o.queue, n + 1, Len(o.queue))
  IN IF n = 0 THEN o
     ELSE IF IsPhase(Head(o.queue))
     THEN [o EXCEPT !.active = @ + n, !.queue = rest]
     ELSE [o EXCEPT !.purge = TRUE, !.queue = rest]

\* What the lock of r is when request c lets it go, before it is handed on.
Freed(c) ==
  IF IsPhase(c) THEN [op[Repo(c)] EXCEPT !.active = @ - 1]
                ELSE [op[Repo(c)] EXCEPT !.purge = FALSE]

-----------------------------------------------------------------------------
(* Requests *)

\* A clone, zoekt or merge phase: admission, then the lock, before any await.
AskPhase(c, k, r) ==
  /\ call[c].at = "none"
  /\ Admissible(r)
  /\ pipe' = Admitted(r)
  /\ Enter(c, r, TRUE, Fields(k, r))
  /\ UNCHANGED <<slot, slotQueue, scip, cut>>

\* 429. A phase that ends the reservation ends none: the repository has none.
AskRefused(c, k, r) ==
  /\ call[c].at = "none"
  /\ ~Admissible(r)
  /\ pipe' = Kept
  /\ call' = [call EXCEPT ![c] = Done]
  /\ UNCHANGED <<op, slot, slotQueue, scip, cut>>

\* Mutant: the key is not set before the row of the repository is read.
AskScip_Late(c, r) ==
  /\ call[c].at = "none"
  /\ r \notin scip
  /\ Admissible(r)
  /\ pipe' = Admitted(r)
  /\ call' = [call EXCEPT ![c] = [Fields("scip", r) EXCEPT !.at = "resolving"]]
  /\ UNCHANGED <<op, slot, slotQueue, scip, cut>>

\* A SCIP phase is answered at once and runs on. It takes its reference and
\* its key before the first await.
AskScip(c, r) ==
  /\ call[c].at = "none"
  /\ r \notin scip
  /\ Admissible(r)
  /\ pipe' = Admitted(r)
  /\ scip' = scip \cup {r}
  /\ call' = [call EXCEPT ![c] = [Fields("scip", r) EXCEPT !.at = "resolving"]]
  /\ UNCHANGED <<op, slot, slotQueue, cut>>

\* A second request for a SCIP phase that runs gets 202 too, and no more.
AskScipAgain(c, r) ==
  /\ call[c].at = "none"
  /\ r \in scip
  /\ call' = [call EXCEPT ![c] = Done]
  /\ UNCHANGED <<op, pipe, slot, slotQueue, scip, cut>>

\* The row of the repository was read: the phase starts, or it is gone.
Resolve(c) ==
  /\ call[c].at = "resolving"
  /\ Enter(c, Repo(c), TRUE, call[c])
  /\ UNCHANGED <<pipe, slot, slotQueue, scip, cut>>

ResolveFails(c) ==
  /\ call[c].at = "resolving"
  /\ call' = [call EXCEPT ![c] = Done]
  /\ scip' = scip \ {Repo(c)}
  /\ ReleasePipe(c, FALSE)
  /\ UNCHANGED <<op, slot, slotQueue>>

\* Any other error of the database: the request ends with a 500, and neither
\* the key nor the reference is given back.
ResolveThrows(c) ==
  /\ call[c].at = "resolving"
  /\ call' = [call EXCEPT ![c] = Done]
  /\ UNCHANGED <<op, pipe, slot, slotQueue, scip, cut>>

AskPurge(c, r) ==
  /\ call[c].at = "none"
  /\ Enter(c, r, FALSE, Fields("purge", r))
  /\ UNCHANGED <<pipe, slot, slotQueue, scip, cut>>

\* The collection of checkouts never waits: it gets the lock or a 409.
AskCollect(c, r) ==
  /\ call[c].at = "none"
  /\ LET now == CanAcquire(r, FALSE) /\ op[r].queue = << >>
     IN /\ call' = [call EXCEPT ![c] =
             IF now THEN [Fields("collect", r) EXCEPT !.at = "inside"]
                    ELSE Done]
        /\ op' = IF now THEN [op EXCEPT ![r] = Taken(@, FALSE)] ELSE op
  /\ UNCHANGED <<pipe, slot, slotQueue, scip, cut>>

\* The SCIP indexers of one checkout run one after the other. With one
\* language for each repository none ever waits here.
Turn(c) ==
  call[c].kind = "scip" =>
    \A d \in Calls : ~( call[d].kind = "scip" /\ Repo(d) = Repo(c)
                        /\ call[d].at \in {"slotQueued", "indexing"} )

\* An indexer asks for a slot.
AskSlot(c) ==
  /\ call[c].at = "inside"
  /\ call[c].kind \in {"zoekt", "scip"}
  /\ Turn(c)
  /\ IF slot < Slots
     THEN /\ slot' = slot + 1
          /\ Move(c, "indexing")
          /\ UNCHANGED slotQueue
     ELSE /\ slotQueue' = Append(slotQueue, c)
          /\ Move(c, "slotQueued")
          /\ UNCHANGED slot
  /\ UNCHANGED <<op, pipe, scip, cut>>

\* Mutant: the count goes down although the slot is handed on.
FreeSlot_Lost(c) ==
  /\ call[c].at = "indexing"
  /\ slot' = slot - 1
  /\ IF slotQueue = << >>
     THEN Move(c, "indexed") /\ UNCHANGED slotQueue
     ELSE /\ call' = [call EXCEPT ![c].at = "indexed",
                                  ![Head(slotQueue)].at = "indexing"]
          /\ slotQueue' = Tail(slotQueue)
  /\ UNCHANGED <<op, pipe, scip, cut>>

\* The child process ends. Its slot goes to the first that waits, in the same
\* synchronous call.
FreeSlot(c) ==
  /\ call[c].at = "indexing"
  /\ IF slotQueue = << >>
     THEN /\ slot' = slot - 1
          /\ Move(c, "indexed")
          /\ UNCHANGED slotQueue
     ELSE /\ call' = [call EXCEPT ![c].at = "indexed",
                                  ![Head(slotQueue)].at = "indexing"]
          /\ slotQueue' = Tail(slotQueue)
          /\ UNCHANGED slot
  /\ UNCHANGED <<op, pipe, scip, cut>>

\* The work inside the lock ends, well or with an error. The lock is handed
\* on, the SCIP phase settles, and the reference goes.
Leave(c, ok) ==
  /\ call[c].at = IF call[c].kind = "zoekt" /\ ok THEN "indexed" ELSE call[c].at
  /\ call[c].at \in {"inside", "indexed"}
  /\ LET freed == Freed(c) IN
       /\ op' = [op EXCEPT ![Repo(c)] = Drained(freed)]
       /\ call' = [d \in Calls |->
                     IF d = c THEN Done
                     ELSE IF d \in Woken(freed)
                     THEN [call[d] EXCEPT !.at = "inside"]
                     ELSE call[d]]
  /\ scip' = IF call[c].kind = "scip" THEN scip \ {Repo(c)} ELSE scip
  /\ IF IsPhase(c) THEN ReleasePipe(c, ok) ELSE UNCHANGED <<pipe, cut>>
  /\ UNCHANGED <<slot, slotQueue>>

-----------------------------------------------------------------------------

Ask ==
  \E c \in Calls, r \in Repos :
    \/ \E k \in {"clone", "zoekt", "merge"} : AskPhase(c, k, r)
    \/ \E k \in Phases : AskRefused(c, k, r)
    \/ AskScip(c, r)
    \/ AskScipAgain(c, r)
    \/ AskPurge(c, r)
    \/ AskCollect(c, r)

PhaseWork ==
  \E c \in Calls :
    \/ Resolve(c)
    \/ ResolveFails(c)
    \/ ResolveThrows(c)
    \/ AskSlot(c)
    \/ FreeSlot(c)
    \/ \E ok \in BOOLEAN : Leave(c, ok)

PhaseNext == Ask \/ PhaseWork \/ \E r \in Repos : Idle(r)

PhaseSpec == PhaseInit /\ [][PhaseNext]_phaseVars

\* The process is one event loop and every child process ends.
PhaseFairness == WF_phaseVars(PhaseWork)

-----------------------------------------------------------------------------
(* Properties *)

PhaseTypeOK ==
  /\ call \in [Calls -> [at : Places, kind : Kinds, repo : Repos]]
  /\ op \in [Repos -> [active : Nat, purge : BOOLEAN, queue : Seq(Calls)]]
  /\ DOMAIN pipe \subseteq Repos
  /\ \A r \in DOMAIN pipe : pipe[r] \in [refs : Nat, idle : BOOLEAN]
  /\ slot \in Nat
  /\ slotQueue \in Seq(Calls)
  /\ scip \subseteq Repos
  /\ cut \subseteq Repos

\* The calls that hold the operation lock of r.
Holders(r) ==
  {c \in Calls : /\ Repo(c) = r
                 /\ call[c].at \in {"inside", "slotQueued", "indexing",
                                   "indexed"}}

\* A purge or a collection never shares the files of a repository with an
\* index phase or with another purge.
PurgeIsAlone ==
  \A r \in Repos : \A c \in Holders(r) : ~IsPhase(c) => Holders(r) = {c}

\* The number of child processes never exceeds the slots, however the slots
\* are handed from one phase to the next.
SlotsAreBounded == Cardinality({c \in Calls : call[c].at = "indexing"}) <= Slots

\* Phases work on no more repositories than the capacity of pipelines, as long
\* as no phase ends the reservation under another one of its repository: a
\* reservation that idles out never has a phase under way.
CapHolds ==
  cut = {} =>
    Cardinality({Repo(c) : c \in {d \in Calls :
      IsPhase(d) /\ call[d].at \notin {"none", "done"}}}) <= Cap

\* Two requests for the SCIP phase of one language and checkout never run it at
\* once, so they do not write the same shard file.
ScipRunsOnce ==
  \A c, d \in Calls :
    ( /\ call[c].kind = "scip" /\ call[d].kind = "scip"
      /\ Repo(c) = Repo(d) ) => c = d

\* A phase never passes a purge that waited before it: new phases cannot hold
\* off the purge of a deleted repository.
PurgeIsNotOvertaken ==
  [][\A p \in Calls : ( /\ call[p].kind = "purge" /\ call[p].at = "queued"
                        /\ call'[p].at = "queued" ) =>
       \A c \in Calls : ( /\ call'[c].kind \in Phases
                          /\ call'[c].repo = Repo(p)
                          /\ call[c].at \in {"none", "resolving"} )
                        => call'[c].at # "inside"]_phaseVars

\* Every request that is made ends: the queues of the lock and of the slots
\* wake everyone, and nobody waits for a lock while holding the slot that its
\* holder needs.
EveryCallEnds == <>[](\A c \in Calls : call[c].at \in {"none", "done"})
=============================================================================
