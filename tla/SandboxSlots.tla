---------------------------- MODULE SandboxSlots ----------------------------
(***************************************************************************)
(* The sandboxes of an organization and the slots they run in. A turn of a *)
(* conversation, or a shard of an ingestion run, holds the lock of its     *)
(* thread, creates or resumes its sandbox and uses it. A start counts the  *)
(* live rows under one lock of the organization and reserves its row       *)
(* before the provider makes the sandbox. A sweep stops idle sandboxes and *)
(* deletes those that are due; each sweep schedules the next.              *)
(*                                                                         *)
(* A sandbox is named by the key of its row. The locks are those of        *)
(* SandboxLock and are taken whole here: who holds the lock of a thread is *)
(* the one turn that is not "idle". Workspace bases, job sandboxes and     *)
(* deletions of whole Workspaces are left out, and so is the push before a *)
(* delete, except that it may keep the sandbox for the next sweep.         *)
(***************************************************************************)
EXTENDS Naturals, FiniteSets

CONSTANTS
  Boxes,     \* sandbox keys
  Orgs,      \* organizations: their limits, ORG_RUNNING_SANDBOX_LIMIT (all) and
             \* ORG_INGEST_SANDBOX_LIMIT, and what each sandbox is for
  MaxFaults  \* bound: crashes and failed calls of the provider

ASSUME SlotAssumption ==
  /\ IsFiniteSet(Boxes)
  /\ Orgs \subseteq [all : Nat \ {0}, ingest : Nat \ {0},
                     kind : [Boxes -> {"chat", "ingest"}]]
  /\ MaxFaults \in Nat

VARIABLES
  org,       \* the organization
  instance,  \* workspaceSandboxInstances
  age,       \* last use: "fresh", "idle" (time to stop), "due" (time to delete)
  box,       \* the provider's sandbox
  turn,      \* what the holder of the thread's lock does
  plan,      \* what the sweep that runs found to do
  sweep,     \* "none", "scheduled", "running"
  next,      \* the sweep that runs schedules another one
  faults,    \* crashes and failures so far
  revived    \* history: a sandbox whose delete had failed was attached

slotVars ==
  <<org, instance, age, box, turn, plan, sweep, next, faults, revived>>

-----------------------------------------------------------------------------
(* Values *)

\* id: the row names the provider's sandbox. "failed": destroy_failed.
Absent == [state |-> "absent", id |-> FALSE]

Live(id) == [state |-> "live", id |-> id]

\* "create" and "resume": waits for the lock "org-sandbox-slots";
\* "reserveCreate" and "reserveResume": holds it and has counted; "creating"
\* and "attaching": waits for the provider.
Turns == {"idle", "create", "resume", "reserveCreate", "reserveResume",
          "creating", "attaching", "using"}

Reserving == {"reserveCreate", "reserveResume"}

Ingests(b) == org.kind[b] = "ingest"

SlotInit ==
  /\ org \in Orgs
  /\ instance = [b \in Boxes |-> Absent]
  /\ age = [b \in Boxes |-> "fresh"]
  /\ box = [b \in Boxes |-> "none"]
  /\ turn = [b \in Boxes |-> "idle"]
  /\ plan = [b \in Boxes |-> "none"]
  /\ sweep = "none" /\ next = FALSE
  /\ faults = 0
  /\ revived = FALSE

Step(b, stage) == turn' = [turn EXCEPT ![b] = stage]

Fault == faults < MaxFaults /\ faults' = faults + 1

\* A use writes lastHeartbeatAt: a delete that is planned finds b used. The
\* time of a shard runs from the creation of its row.
Used(b) ==
  /\ age' = [age EXCEPT ![b] = IF Ingests(b) /\ instance[b] # Absent THEN @
                               ELSE "fresh"]
  /\ plan' = [plan EXCEPT ![b] = IF @ = "delete" THEN "used" ELSE @]

-----------------------------------------------------------------------------
(* A turn, or a step of a shard *)

\* It takes the lock of its thread and reads its row. A row without the
\* provider's id is no record; only a stopped sandbox needs a slot to resume.
Begin(b) ==
  /\ turn[b] = "idle"
  /\ Ingests(b) => age[b] # "due"
  /\ Step(b, IF ~instance[b].id THEN "create"
             ELSE IF instance[b].state = "stopped" THEN "resume"
             ELSE "attaching")
  /\ UNCHANGED <<org, instance, age, box, plan, sweep, next, faults, revived>>

LockFree == \A b \in Boxes : turn[b] \notin Reserving

\* Mutant: reservations do not count.
Counted_Known(b) ==
  {c \in Boxes \ {b} : instance[c].state = "live" /\ instance[c].id}

\* countRunningSandboxes: reservations count, the sandbox itself does not.
Counted(b) == {c \in Boxes \ {b} : instance[c].state = "live"}

SlotFree(b) ==
  /\ Cardinality(Counted(b)) < org.all
  /\ Ingests(b) => Cardinality({c \in Counted(b) : Ingests(c)}) < org.ingest

\* The lock of the slots, and the count under it.
Count(b) ==
  /\ turn[b] \in {"create", "resume"} /\ LockFree /\ SlotFree(b)
  /\ Step(b, IF turn[b] = "create" THEN "reserveCreate" ELSE "reserveResume")
  /\ UNCHANGED <<org, instance, age, box, plan, sweep, next, faults, revived>>

\* At capacity a chat fails and a shard waits outside its locks.
AtCapacity(b) ==
  /\ turn[b] \in {"create", "resume"} /\ LockFree /\ ~SlotFree(b)
  /\ Step(b, "idle")
  /\ UNCHANGED <<org, instance, age, box, plan, sweep, next, faults, revived>>

Reserve(b) ==
  /\ turn[b] \in Reserving
  /\ instance' = [instance EXCEPT ![b] = Live(turn[b] = "reserveResume")]
  /\ Used(b)
  /\ Step(b, IF turn[b] = "reserveCreate" THEN "creating" ELSE "attaching")
  /\ UNCHANGED <<org, box, sweep, next, faults, revived>>

\* The provider made the sandbox, its setup passed, and the row has its id.
Create(b) ==
  /\ turn[b] = "creating"
  /\ box' = [box EXCEPT ![b] = "running"]
  /\ instance' = [instance EXCEPT ![b] = Live(TRUE)]
  /\ Used(b)
  /\ Step(b, "using")
  /\ UNCHANGED <<org, sweep, next, faults, revived>>

\* The create or the setup failed: the sandbox is destroyed and the
\* reservation dropped.
CreateFails(b) ==
  /\ turn[b] = "creating" /\ Fault
  /\ instance' = [instance EXCEPT ![b] = Absent]
  /\ box' = [box EXCEPT ![b] = "none"]
  /\ Step(b, "idle")
  /\ UNCHANGED <<org, age, plan, sweep, next, revived>>

\* provider.resume, then the upsert of the record.
Attach(b) ==
  /\ turn[b] = "attaching" /\ box[b] # "none"
  /\ box' = [box EXCEPT ![b] = "running"]
  /\ instance' = [instance EXCEPT ![b] = Live(TRUE)]
  /\ revived' = (revived \/ instance[b].state = "failed")
  /\ Used(b)
  /\ Step(b, "using")
  /\ UNCHANGED <<org, sweep, next, faults>>

\* The provider has it no more: a fresh one is created.
AttachGone(b) ==
  /\ turn[b] = "attaching"
  /\ IF box[b] = "none" THEN UNCHANGED faults ELSE Fault
  /\ box' = [box EXCEPT ![b] = "none"]
  /\ Step(b, "create")
  /\ UNCHANGED <<org, instance, age, plan, sweep, next, revived>>

AttachFails(b) ==
  /\ turn[b] = "attaching" /\ Fault
  /\ Step(b, "idle")
  /\ UNCHANGED <<org, instance, age, box, plan, sweep, next, revived>>

\* The end of a turn records the use and schedules the idle stop, or fails to.
\* A shard records no use there, and schedules its sweep a little earlier.
End(b) ==
  /\ turn[b] = "using"
  /\ Step(b, "idle")
  /\ IF Ingests(b) THEN UNCHANGED <<age, plan>> ELSE Used(b)
  /\ \/ sweep' = (IF sweep = "none" THEN "scheduled" ELSE sweep)
        /\ next' = (next \/ sweep = "running") /\ UNCHANGED faults
     \/ Fault /\ UNCHANGED <<sweep, next>>
  /\ UNCHANGED <<org, instance, box, revived>>

\* The process stops, at any point; its locks fall free. A create that was on
\* its way may leave a sandbox that no row names.
TurnCrash(b) ==
  /\ turn[b] # "idle" /\ Fault
  /\ Step(b, "idle")
  /\ \/ UNCHANGED box
     \/ turn[b] \in {"creating", "attaching"}
        /\ box' = [box EXCEPT ![b] = "running"]
  /\ UNCHANGED <<org, instance, age, plan, sweep, next, revived>>

-----------------------------------------------------------------------------
(* The sweep *)

\* Time passes after the last use of b; or its conversation or run is gone.
Age(b) ==
  /\ instance[b] # Absent /\ age[b] # "due"
  /\ age' = [age EXCEPT ![b] = IF @ = "fresh" THEN "idle" ELSE "due"]
  /\ UNCHANGED <<org, instance, box, turn, plan, sweep, next, faults, revived>>

\* The tip check and the start of a worker schedule one in any case.
Backstop ==
  /\ sweep = "none"
  /\ sweep' = "scheduled"
  /\ UNCHANGED <<org, instance, age, box, turn, plan, next, faults, revived>>

\* Mutant: the sweep skips rows without an id.
Due_Known(b) ==
  IF instance[b] = Absent \/ ~instance[b].id THEN "none"
  ELSE IF age[b] = "due" \/ instance[b].state = "failed" THEN "delete"
  ELSE IF ~Ingests(b) /\ instance[b].state = "live" /\ age[b] = "idle"
  THEN "stop" ELSE "none"

Due(b) ==
  IF instance[b] = Absent THEN "none"
  ELSE IF age[b] = "due" \/ instance[b].state = "failed" THEN "delete"
  ELSE IF ~Ingests(b) /\ instance[b].state = "live" /\ age[b] = "idle"
  THEN "stop" ELSE "none"

SweepStart ==
  /\ sweep = "scheduled"
  /\ sweep' = "running"
  /\ plan' = [b \in Boxes |-> Due(b)]
  /\ next' = (\E b \in Boxes : instance[b] # Absent /\ Due(b) = "none")
  /\ UNCHANGED <<org, instance, age, box, turn, faults, revived>>

\* Mutant: the sweep does not take the lock of the thread.
ThreadFree_Any(b) == TRUE

\* withSandboxLockIfFree: the lock of the thread of b is free.
ThreadFree(b) == turn[b] = "idle"

\* A turn holds it, or it was used since it was listed, or commits of it are
\* not pushed yet: look again soon.
SweepKeeps(b) ==
  /\ \/ plan[b] = "stop" /\ (~ThreadFree(b) \/ Due(b) # "stop")
        /\ UNCHANGED faults
     \/ plan[b] = "delete" /\ ~ThreadFree(b) /\ UNCHANGED faults
     \/ plan[b] = "used" /\ UNCHANGED faults
     \/ plan[b] = "delete" /\ ThreadFree(b) /\ Fault
  /\ plan' = [plan EXCEPT ![b] = "none"]
  /\ next' = TRUE
  /\ UNCHANGED <<org, instance, age, box, turn, sweep, revived>>

\* stopSandboxRow: a reservation that no create finished is removed.
Stopped(b) ==
  IF instance[b].id THEN [instance[b] EXCEPT !.state = "stopped"] ELSE Absent

Halted(b) == IF instance[b].id /\ box[b] = "running" THEN "stopped" ELSE box[b]

SweepStops(b) ==
  /\ plan[b] = "stop" /\ ThreadFree(b) /\ Due(b) = "stop"
  /\ instance' = [instance EXCEPT ![b] = Stopped(b)]
  /\ box' = [box EXCEPT ![b] = Halted(b)]
  /\ plan' = [plan EXCEPT ![b] = "none"]
  /\ next' = TRUE
  /\ UNCHANGED <<org, age, turn, sweep, faults, revived>>

\* destroyUnusedSandbox
SweepDeletes(b) ==
  /\ plan[b] = "delete" /\ ThreadFree(b)
  /\ plan' = [plan EXCEPT ![b] = "none"]
  /\ \/ /\ instance' = [instance EXCEPT ![b] = Absent]
        /\ box' = [box EXCEPT ![b] = IF instance[b].id THEN "none" ELSE @]
        /\ UNCHANGED <<next, faults>>
     \/ /\ instance[b].id /\ Fault
        /\ instance' = [instance EXCEPT ![b].state = "failed"]
        /\ next' = TRUE
        /\ UNCHANGED box
  /\ UNCHANGED <<org, age, turn, sweep, revived>>

SweepEnd ==
  /\ sweep = "running" /\ \A b \in Boxes : plan[b] = "none"
  /\ sweep' = IF next THEN "scheduled" ELSE "none"
  /\ next' = FALSE
  /\ UNCHANGED <<org, instance, age, box, turn, plan, faults, revived>>

\* The worker of the sweep stops, perhaps after it halted a sandbox and before
\* it wrote the row: the step runs again.
SweepCrash ==
  /\ sweep = "running" /\ Fault
  /\ sweep' = "scheduled" /\ next' = FALSE
  /\ plan' = [b \in Boxes |-> "none"]
  /\ \/ UNCHANGED box
     \/ \E b \in Boxes : /\ plan[b] = "stop" /\ ThreadFree(b)
                         /\ Due(b) = "stop"
                         /\ box' = [box EXCEPT ![b] = Halted(b)]
  /\ UNCHANGED <<org, instance, age, turn, revived>>

\* A run that nobody watches ends: its sandbox is stopped at once.
StopWhenDone(b) ==
  /\ ~Ingests(b) /\ ThreadFree(b) /\ instance[b].state = "live"
  /\ instance' = [instance EXCEPT ![b] = Stopped(b)]
  /\ box' = [box EXCEPT ![b] = Halted(b)]
  /\ UNCHANGED <<org, age, turn, plan, sweep, next, faults, revived>>

\* The last step of an ingestion run destroys the sandbox of a shard.
DestroyShard(b) ==
  /\ Ingests(b) /\ turn[b] = "idle" /\ instance[b].id
  /\ instance' = [instance EXCEPT ![b] = Absent]
  /\ box' = [box EXCEPT ![b] = "none"]
  /\ UNCHANGED <<org, age, turn, plan, sweep, next, faults, revived>>

-----------------------------------------------------------------------------

TurnStep(b) ==
  \/ Count(b) \/ AtCapacity(b) \/ Reserve(b) \/ Create(b)
  \/ CreateFails(b) \/ Attach(b) \/ AttachGone(b) \/ AttachFails(b) \/ End(b)

SweepStep ==
  \/ Backstop \/ SweepStart \/ SweepEnd
  \/ \E b \in Boxes : SweepKeeps(b) \/ SweepStops(b) \/ SweepDeletes(b)

SlotNext ==
  \/ SweepStep \/ SweepCrash
  \/ \E b \in Boxes : \/ Begin(b) \/ TurnStep(b) \/ TurnCrash(b) \/ Age(b)
                      \/ StopWhenDone(b) \/ DestroyShard(b)

SlotSpec == SlotInit /\ [][SlotNext]_slotVars

\* Turns end, sweeps run, and time goes on.
SlotFairness ==
  /\ WF_slotVars(SweepStep)
  /\ \A b \in Boxes : WF_slotVars(TurnStep(b)) /\ WF_slotVars(Age(b))

-----------------------------------------------------------------------------
(* Properties *)

SlotTypeOK ==
  /\ org \in Orgs
  /\ instance \in [Boxes -> [state : {"absent", "live", "stopped", "failed"},
                        id : BOOLEAN]]
  /\ age \in [Boxes -> {"fresh", "idle", "due"}]
  /\ box \in [Boxes -> {"none", "running", "stopped"}]
  /\ turn \in [Boxes -> Turns]
  /\ plan \in [Boxes -> {"none", "stop", "delete", "used"}]
  /\ sweep \in {"none", "scheduled", "running"}
  /\ next \in BOOLEAN /\ revived \in BOOLEAN
  /\ faults \in 0..MaxFaults

Running(b) == instance[b].state = "live" /\ box[b] = "running"

\* Never more sandboxes of live rows run than the limit, and never more of
\* ingestions than theirs, so chat keeps slots: whatever starts, crashes and
\* sweeps at once. A sandbox whose delete failed is resumed without a slot
\* when its conversation goes on: excluded.
RunningIsBounded ==
  ~revived =>
    /\ Cardinality({b \in Boxes : Running(b)}) <= org.all
    /\ Cardinality({b \in Boxes : Running(b) /\ Ingests(b)})
         <= org.ingest

\* A sandbox in use is never stopped or deleted under its turn.
UsedIsKept ==
  [][\A b \in Boxes : turn[b] = "using" /\ turn'[b] = "using"
       => box'[b] = box[b] /\ instance'[b] = instance[b]]_slotVars

\* A slot is given back: a live row that no turn holds, a reservation of a
\* start that crashed as well, is stopped or deleted some time, or used again.
SlotIsGivenBack ==
  \A b \in Boxes : []<>(instance[b].state # "live" \/ turn[b] # "idle")
=============================================================================
