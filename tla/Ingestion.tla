------------------------------ MODULE Ingestion ------------------------------
(***************************************************************************)
(* The ingestion of one repository: who may index it, and what its row     *)
(* says. Webhooks, people, connector syncs and finished ingestions all ask *)
(* for an ingestion. A request row names the one that counts, the workflow *)
(* run that owns it does the work through child runs, and every write of a *)
(* run to the repository is conditional on its request still counting.     *)
(*                                                                         *)
(* A sha is the position of a commit on the branch, 0 is null. A binding   *)
(* is a remote URL with a GitHub connection. The target branch of an       *)
(* ingestion is null or the default branch by its name: the same commits,  *)
(* but the code tells them apart.                                          *)
(* The run of a request is found by the id of the request, which is its    *)
(* idempotency key; a run with no request makes one with its own id        *)
(* ("legacy:<run>"). So requests and runs share their numbers. The step    *)
(* columns of the row (progress) and full re-ingestion are left out.       *)
(***************************************************************************)
EXTENDS Naturals, FiniteSets

CONSTANTS
  Producers,   \* callers of enqueueRepositoryIngestionWorkflow
  Connectors,  \* connector syncs that ingest through a child run, once each
  Bindings,    \* the bindings the repository can have
  HomeBinding, \* the one it is added with
  Upsets,      \* what may go wrong: "error", "crash", "loss"
  None,        \* "null"
  MaxAsk,      \* bound: no person asks when this many ids are used
  MaxId,       \* bound: requests and runs, follow-ups included
  MaxTip,      \* bound: commits of the branch
  MaxStir      \* bound: rebinds, connector syncs and deletions together

ASSUME IngestionAssumption ==
  /\ Producers \cap Connectors = {}
  /\ HomeBinding \in Bindings
  /\ Upsets \subseteq {"error", "crash", "loss"}
  /\ MaxAsk \in Nat
  /\ MaxId \in Nat \ {0}
  /\ MaxTip \in Nat \ {0}
  /\ MaxStir \in Nat

VARIABLES
  repo,   \* the row of the repository
  tip,    \* the head of its branch
  req,    \* its request row
  last,   \* the last id given to a request or a run
  target, \* targetBranch of the intent that each id was given for
  run,    \* the orchestrators, with the child runs they wait for
  prod,   \* producers in the middle of their call
  purge,  \* a repository-deletion run is under way
  rebinds \* how often the repository was rebound (the code does not count)

ids == <<last, target>>
vars == <<repo, tip, req, last, target, run, prod, purge, rebinds>>

-----------------------------------------------------------------------------
(* Values *)

Ids == 1..MaxId

\* indexing_status; "gone" is a deleted row.
Status == {"none", "queued", "running", "ready", "issues", "failed",
           "unindexing", "gone"}

\* published is last_ingested_hash, ready is index_ready.
Repos == [status : Status, ready : BOOLEAN, published : Nat, bind : Bindings]

Targets == {"null", "default"}

\* owned: workflow_run_id is set.
Requests == [id : Ids, bind : Bindings, target : Targets, owned : BOOLEAN]

ASSUME NoneAssumption == None \notin Requests

ChildPcs == {"capture", "mark", "resolve", "index", "wake", "publish", "follow",
             "admit", "ack", "collect"}

\* since is the number of rebinds when it looked at its request (for the
\* properties), next the request of its follow-up.
Runs == [st : {"none", "pending", "running", "completed", "failed"},
         pc : ChildPcs \cup {"activate", "fail", "end"},
         sha : Nat, out : {"none", "ready", "partial", "issues"}, since : Nat,
         next : Nat]

NoRun == [st |-> "none", pc |-> "activate", sha |-> 0, out |-> "none",
          since |-> 0, next |-> 0]

Idle == [pc |-> "idle", id |-> 0]

-----------------------------------------------------------------------------
(* repository-ingestion-requests.ts *)

Exists == repo.status # "gone"

\* nativeOwner, for a request of any state.
Active(n) == run[n].st \in {"pending", "running"}

\* prepareRepositoryIngestionRequest: the request at hand answers this one,
\* for target branch t. after is the request a follow-up comes after, 0 for
\* everyone else; a follow-up takes a request for any branch.
\* Mutant: a request answers only while its run has not started.
Answers_Pending(after, t) ==
  /\ req # None /\ req.bind = repo.bind
  /\ IF after # 0 THEN req.id # after
     ELSE req.target = t /\ run[req.id].st \in {"none", "pending"}
Answers(after, t) ==
  /\ req # None /\ req.bind = repo.bind
  /\ IF after # 0 THEN req.id # after
     ELSE req.target = t /\ (run[req.id].st = "none" \/ Active(req.id))

\* The id the caller goes on with. Its run is given the target branch of the
\* request that was returned, which is target[id].
Prepared(after, t) == IF Answers(after, t) THEN req.id ELSE last + 1

Prepare(after, t) ==
  /\ Exists
  /\ IF Answers(after, t)
       THEN UNCHANGED <<req, ids>>
       ELSE /\ last < MaxId
            /\ last' = last + 1
            /\ target' = [target EXCEPT ![last + 1] = t]
            /\ req' = [id |-> last + 1, bind |-> repo.bind, target |-> t,
                       owned |-> FALSE]

\* activateRepositoryIngestionRequest does not throw for run n.
Activatable(n) ==
  /\ Exists
  /\ run[n].st # "none"
  /\ req # None =>
       req.id = n /\ req.bind = repo.bind /\ req.target = target[n]

\* Its writes. The status of the row is not looked at.
Activate(n) ==
  /\ req' = [id |-> n, bind |-> repo.bind, target |-> target[n], owned |-> TRUE]
  /\ repo' = IF \/ run[n].st = "pending"
                \/ run[n].st = "running" /\ ~(req # None /\ req.owned)
               THEN [repo EXCEPT !.ready = repo.published # 0,
                       !.status = IF run[n].st = "pending" THEN "queued"
                                                            ELSE "running"]
               ELSE repo

\* assertRepositoryIngestionRequest, which captureRepositoryIngestionRequest
\* ends with.
Current(n) ==
  Exists /\ req # None /\ req.id = n /\ req.bind = repo.bind /\ Active(n)

\* repositoryIngestionWriteCondition and repositoryNotUnindexingCondition.
\* Mutant: a run writes whichever request counts.
Writable_Any(n) == req # None /\ req.owned /\ repo.status # "unindexing"
Writable(n) == Current(n) /\ req.owned /\ repo.status # "unindexing"

-----------------------------------------------------------------------------
(* Initial state: a repository that has just been added *)

Init ==
  /\ repo = [status |-> "none", ready |-> FALSE, published |-> 0,
             bind |-> HomeBinding]
  /\ tip = 1
  /\ req = None
  /\ last = 0
  /\ target = [n \in Ids |-> "null"]
  /\ run = [n \in Ids |-> NoRun]
  /\ prod = [p \in Producers \cup Connectors |-> Idle]
  /\ purge = FALSE
  /\ rebinds = 0

-----------------------------------------------------------------------------
(* enqueueRepositoryIngestionWorkflow, called by a webhook or a person *)

To(p, pc, id) == prod' = [prod EXCEPT ![p] = [pc |-> pc, id |-> id]]

\* runWorkflow with the id of the request as idempotency key.
\* Mutant: the status of the row is given to a run that is there.
Admitted_Queued(n) ==
  run' = [run EXCEPT ![n].st = IF @ = "none" THEN "pending" ELSE "queued"]
Admitted(n) ==
  run' = IF run[n].st = "none" THEN [run EXCEPT ![n].st = "pending"] ELSE run

\* A push to the branch, and its webhook.
Push(p) ==
  /\ p \in Producers /\ prod[p].pc = "idle" /\ tip < MaxTip
  /\ tip' = tip + 1
  /\ To(p, "prepare", 0)
  /\ UNCHANGED <<repo, req, ids, run, purge, rebinds>>

\* A person, or a Workspace that links the repository.
Ask(p) ==
  /\ p \in Producers /\ prod[p].pc = "idle" /\ last < MaxAsk
  /\ To(p, "prepare", 0)
  /\ UNCHANGED <<repo, tip, req, ids, run, purge, rebinds>>

ProducerPrepare(p) ==
  /\ prod[p].pc = "prepare"
  /\ \/ Prepare(0, "null") /\ To(p, "admit", Prepared(0, "null"))
     \/ ~Exists /\ To(p, "idle", 0) /\ UNCHANGED <<req, ids>>
  /\ UNCHANGED <<repo, tip, run, purge, rebinds>>

ProducerAdmit(p) ==
  /\ prod[p].pc = "admit"
  /\ Admitted(prod[p].id)
  /\ To(p, "ack", prod[p].id)
  /\ UNCHANGED <<repo, tip, req, ids, purge, rebinds>>

\* runWorkflow throws: findRepositoryIngestionOwner finds the run that was
\* made all the same, or the caller gets the error.
ProducerAdmitFails(p) ==
  /\ prod[p].pc = "admit" /\ "loss" \in Upsets
  /\ \/ Admitted(prod[p].id)
     \/ UNCHANGED run
  /\ IF run'[prod[p].id].st # "none" /\ req # None /\ req.id = prod[p].id
       THEN To(p, "ack", prod[p].id) ELSE To(p, "idle", 0)
  /\ UNCHANGED <<repo, tip, req, ids, purge, rebinds>>

ProducerAck(p) ==
  /\ prod[p].pc = "ack"
  /\ IF Activatable(prod[p].id)
       THEN Activate(prod[p].id) ELSE UNCHANGED <<repo, req>>
  /\ To(p, "idle", 0)
  /\ UNCHANGED <<tip, ids, run, purge, rebinds>>

\* The process that serves the call stops.
ProducerStops(p) ==
  /\ "crash" \in Upsets /\ prod[p].pc # "idle"
  /\ To(p, "idle", 0)
  /\ UNCHANGED <<repo, tip, req, ids, run, purge, rebinds>>

-----------------------------------------------------------------------------
(* runConnectorRepositoryIngestionWorkflow *)

\* How often a rebind, a connector or a deletion has come in between; the
\* last two count twice.
Stirs ==
  rebinds + 2 * Cardinality({c \in Connectors : prod[c].id # 0})
          + (IF purge \/ ~Exists THEN 2 ELSE 0)

\* The tip differs from what is published. The run it may start has an id,
\* within the bound.
ConnectorBegin(c) ==
  /\ c \in Connectors /\ prod[c] = Idle /\ Stirs + 2 <= MaxStir
  /\ Exists /\ tip # repo.published
  /\ last < MaxId
  /\ last' = last + 1
  /\ target' = [target EXCEPT ![last + 1] = "default"]
  /\ To(c, "claim", last')
  /\ UNCHANGED <<repo, tip, req, run, purge, rebinds>>

\* tryClaimRepositoryIndexingEnqueue
ConnectorClaim(c) ==
  /\ prod[c].pc = "claim"
  /\ IF repo.status \in {"queued", "running", "unindexing", "gone"}
       THEN To(c, "idle", prod[c].id) /\ UNCHANGED repo
       ELSE /\ To(c, "start", prod[c].id)
            /\ repo' = [repo EXCEPT !.status = "queued", !.ready = FALSE]
  /\ UNCHANGED <<tip, req, ids, run, purge, rebinds>>

\* step.runWorkflow with no request: the parent parks.
ConnectorStart(c) ==
  /\ prod[c].pc = "start"
  /\ Admitted(prod[c].id)
  /\ To(c, "idle", prod[c].id)
  /\ UNCHANGED <<repo, tip, req, ids, purge, rebinds>>

-----------------------------------------------------------------------------
(* repository-ingestion-orchestrator and its child repository-ingestion *)

At(n, pc) == run[n].st = "running" /\ run[n].pc = pc
Goto(n, pc) == run' = [run EXCEPT ![n].pc = pc]

\* What a run has learnt is forgotten, but for its follow-up, when it is of no
\* use any more.
Left(n, st, pc) ==
  [run EXCEPT ![n] =
     [NoRun EXCEPT !.st = st, !.pc = pc, !.next = run[n].next]]
Ended(n, st) == Left(n, st, "end")
GiveUp(n) == run' = Left(n, "running", "fail")

\* A worker claims the run.
Claim(n) ==
  /\ run[n].st = "pending"
  /\ run' = [run EXCEPT ![n].st = "running"]
  /\ UNCHANGED <<repo, tip, req, ids, prod, purge, rebinds>>

\* activate-ingestion-request is outside of the try block: when it throws to
\* the end of its attempts, the run fails and the row stays as it is.
StartRun(n) ==
  /\ At(n, "activate")
  /\ IF Activatable(n)
       THEN Activate(n) /\ Goto(n, "capture")
       ELSE /\ run' = Ended(n, "failed")
            /\ UNCHANGED <<repo, req>>
  /\ UNCHANGED <<tip, ids, prod, purge, rebinds>>

\* The child looks whether its request still counts, here and every time it
\* is resumed.
CaptureRequest(n) ==
  /\ At(n, "capture")
  /\ IF Current(n)
       THEN run' = [run EXCEPT ![n].pc = "mark", ![n].since = rebinds]
       ELSE GiveUp(n)
  /\ UNCHANGED <<repo, tip, req, ids, prod, purge, rebinds>>

\* markRepositoryIndexingRunning
MarkRunning(n) ==
  /\ At(n, "mark")
  /\ repo' = IF Writable(n)
               THEN [repo EXCEPT !.status = "running",
                                 !.ready = repo.published # 0]
               ELSE repo
  /\ Goto(n, "resolve")
  /\ UNCHANGED <<tip, req, ids, prod, purge, rebinds>>

\* get-repository, resolve-ref, and the look for a deletion: IngestionAborted
\* ends the child and the orchestrator without an error.
ResolveRef(n) ==
  /\ At(n, "resolve")
  /\ CASE repo.status = "gone" -> GiveUp(n)
       [] repo.status = "unindexing" -> run' = Ended(n, "completed")
       [] OTHER -> run' = [run EXCEPT ![n].pc = "index", ![n].sha = tip]
  /\ UNCHANGED <<repo, tip, req, ids, prod, purge, rebinds>>

\* What repository-index can come to (indexingOutcome). It does nothing for a
\* commit that is published already.
Outcomes(n) ==
  IF repo.status = "ready" /\ repo.published = run[n].sha
    THEN {"ready"} ELSE {"ready", "partial", "issues"}

\* The phases of repository-index, each of which looks at the request.
IndexRepository(n) ==
  /\ At(n, "index")
  /\ IF Current(n)
       THEN \E out \in Outcomes(n) :
              run' = [run EXCEPT ![n].pc = "wake", ![n].out = out]
       ELSE GiveUp(n)
  /\ UNCHANGED <<repo, tip, req, ids, prod, purge, rebinds>>

\* The child of the orchestrator resumes after its own child.
Wake(n) ==
  /\ At(n, "wake")
  /\ IF Current(n) THEN Goto(n, "publish") ELSE GiveUp(n)
  /\ UNCHANGED <<repo, tip, req, ids, prod, purge, rebinds>>

\* markRepositoryIndexingReady, ...ReadyWithIssues and ...Issues.
Succeed(n) ==
  repo' = CASE ~Writable(n) -> repo
            [] Writable(n) /\ run[n].out = "issues" ->
                 [repo EXCEPT !.status = "issues", !.ready = repo.published # 0]
            [] OTHER ->
                 [repo EXCEPT !.ready = TRUE, !.published = run[n].sha,
                   !.status = IF run[n].out = "ready" THEN "ready" ELSE "issues"]

\* mark-success
MarkSuccess(n) ==
  /\ At(n, "publish")
  /\ Succeed(n)
  /\ run' = [run EXCEPT ![n].pc = "follow", ![n].out = "none", ![n].since = 0]
  /\ UNCHANGED <<tip, req, ids, prod, purge, rebinds>>

\* The worker stops before the step is recorded: the child starts again.
MarkSuccessLost(n) ==
  /\ At(n, "publish") /\ "crash" \in Upsets
  /\ Succeed(n)
  /\ Goto(n, "wake")
  /\ UNCHANGED <<tip, req, ids, prod, purge, rebinds>>

\* enqueueFollowUpIfTipAhead: the head is read, and a request is prepared that
\* comes after this one.
FollowUp(n) ==
  /\ At(n, "follow")
  /\ IF tip = run[n].sha
       THEN run' = Left(n, "running", "collect") /\ UNCHANGED <<req, ids>>
       ELSE /\ Prepare(n, target[n])
            /\ run' = [run EXCEPT ![n].pc = "admit",
                                  ![n].next = Prepared(n, target[n])]
  /\ UNCHANGED <<repo, tip, prod, purge, rebinds>>

\* Mutant: the admission is not awaited, and its error is lost.
FollowUpAdmit_Lost(n) ==
  /\ At(n, "admit")
  /\ run' = Left(n, "running", "collect")
  /\ UNCHANGED <<repo, tip, req, ids, prod, purge, rebinds>>
FollowUpAdmit(n) ==
  /\ At(n, "admit")
  /\ LET m == run[n].next IN
     run' = [run EXCEPT ![n].pc = "ack",
                        ![m].st = IF run[m].st = "none" THEN "pending" ELSE @]
  /\ UNCHANGED <<repo, tip, req, ids, prod, purge, rebinds>>

FollowUpAck(n) ==
  /\ At(n, "ack")
  /\ IF Activatable(run[n].next)
       THEN Activate(run[n].next) /\ run' = Left(n, "running", "collect")
       ELSE GiveUp(n) /\ UNCHANGED <<repo, req>>
  /\ UNCHANGED <<tip, ids, prod, purge, rebinds>>

\* Collection of checkouts, start of ingestion v2, and the end of both runs.
Finish(n) ==
  /\ At(n, "collect")
  /\ run' = Ended(n, "completed")
  /\ UNCHANGED <<repo, tip, req, ids, prod, purge, rebinds>>

\* Where the child is when it has started again at its top: it looks at its
\* request first and repeats the step that was not recorded.
Resume(n) ==
  CASE run[n].pc # "capture" /\ ~Current(n) -> GiveUp(n)
    [] run[n].pc \in {"admit", "ack"} /\ Current(n) -> Goto(n, "follow")
    [] OTHER -> UNCHANGED run

\* A step throws, or the worker stops in it; after its last attempt the child
\* fails.
StepFails(n) ==
  /\ run[n].st = "running" /\ run[n].pc \in ChildPcs
  /\ \/ {"error", "crash"} \cap Upsets # {} /\ Resume(n)
     \/ "error" \in Upsets /\ GiveUp(n)
  /\ UNCHANGED <<repo, tip, req, ids, prod, purge, rebinds>>

\* mark-failed: markRepositoryIndexingFailed does not look at the request. For
\* a repository that is deleted the orchestrator ends without an error.
MarkFailed(n) ==
  /\ At(n, "fail")
  /\ IF repo.status \in {"unindexing", "gone"}
       THEN run' = Ended(n, "completed") /\ UNCHANGED repo
       ELSE /\ run' = Ended(n, "failed")
            /\ repo' = [repo EXCEPT !.status = "failed", !.ready = FALSE]
  /\ UNCHANGED <<tip, req, ids, prod, purge, rebinds>>

-----------------------------------------------------------------------------
(* Rebinds and deletion *)

\* setRepositoryGithubConnectionId: to another connection, an earlier one
\* perhaps.
Rebind ==
  /\ Exists /\ Stirs < MaxStir
  /\ \E b \in Bindings \ {repo.bind} : repo' = [repo EXCEPT !.bind = b]
  /\ rebinds' = rebinds + 1
  /\ UNCHANGED <<tip, req, ids, run, prod, purge>>

\* enqueueRepositoryDeletionWorkflow, which starts with
\* markRepositoryUnindexing.
Delete ==
  /\ Exists /\ (purge \/ Stirs + 2 <= MaxStir)
  /\ repo' = [repo EXCEPT !.status = "unindexing", !.ready = FALSE]
  /\ purge' = TRUE
  /\ UNCHANGED <<tip, req, ids, run, prod, rebinds>>

\* The deletion run deletes the row, and the request row with it.
DeleteRow ==
  /\ purge
  /\ repo' = [repo EXCEPT !.status = "gone", !.ready = FALSE]
  /\ req' = None
  /\ purge' = FALSE
  /\ UNCHANGED <<tip, ids, run, prod, rebinds>>

-----------------------------------------------------------------------------
(* What readers are shown: projectRepositoryIngestionOwners *)

\* Mutant: the status of the row is shown as it is.
Shown_Row == repo.status
Shown ==
  IF \/ repo.status \in {"unindexing", "gone"}
     \/ req = None \/ req.bind # repo.bind
     \/ run[req.id].st = "none"
    THEN repo.status
    ELSE CASE run[req.id].st = "pending" -> "queued"
           [] run[req.id].st = "running" -> "running"
           [] run[req.id].st = "failed" -> "failed"
           [] OTHER -> IF repo.status = "issues" THEN "issues" ELSE "ready"

-----------------------------------------------------------------------------
(* The system *)

Produce(p) ==
  ProducerPrepare(p) \/ ProducerAdmit(p) \/ ProducerAck(p)

Connect(c) == ConnectorClaim(c) \/ ConnectorStart(c)

Orchestrate(n) ==
  \/ Claim(n) \/ StartRun(n) \/ CaptureRequest(n) \/ MarkRunning(n)
  \/ ResolveRef(n) \/ IndexRepository(n) \/ Wake(n) \/ MarkSuccess(n)
  \/ FollowUp(n) \/ FollowUpAdmit(n) \/ FollowUpAck(n)
  \/ Finish(n) \/ MarkFailed(n)

Work ==
  \/ \E p \in Producers : Produce(p)
  \/ \E c \in Connectors : Connect(c)
  \/ \E n \in Ids : Orchestrate(n)
  \/ DeleteRow

Disturbance ==
  \/ \E p \in Producers :
       Push(p) \/ Ask(p) \/ ProducerAdmitFails(p) \/ ProducerStops(p)
  \/ \E c \in Connectors : ConnectorBegin(c)
  \/ \E n \in Ids : StepFails(n) \/ MarkSuccessLost(n)
  \/ Rebind \/ Delete

Next == Work \/ Disturbance

Spec == Init /\ [][Next]_vars

\* Callers go on, and workers claim and execute the runs: as long as there is
\* something to do, something is done.
Fairness == WF_vars(Work)

Calm == [][Work]_vars
CalmSpec == Spec /\ Fairness /\ <>Calm

-----------------------------------------------------------------------------
(* Properties *)

TypeOK ==
  /\ repo \in Repos
  /\ tip \in Nat
  /\ req \in Requests \cup {None}
  /\ last \in 0..MaxId
  /\ target \in [Ids -> Targets]
  /\ run \in [Ids -> Runs]
  /\ prod \in [Producers \cup Connectors ->
                [pc : {"idle", "prepare", "admit", "ack", "claim", "start"},
                 id : 0..MaxId]]
  /\ purge \in BOOLEAN
  /\ rebinds \in Nat

\* Two runs for the same target branch never index the repository at the same
\* time (docs/repository-ingestion-queue.md: "at most one active"), however
\* requests, follow-ups and connector syncs meet, unless the repository was
\* rebound after the first of them had begun.
IndexesAlone ==
  \A m, n \in Ids :
    At(m, "index") /\ At(n, "index") /\ target[m] = target[n]
      /\ run[m].since = run[n].since => m = n

\* A run that saw the head ahead of what it ingested and completed has left a
\* run for it, unless the repository is deleted.
CompletedIsFollowed ==
  \A n \in Ids :
    run[n].st = "completed" /\ run[n].next # 0 /\ Exists /\ ~purge
      => run[run[n].next].st # "none"

\* The published revision never goes back to an older commit, whichever runs
\* overlap or repeat their last step.
PublishedAdvances == [][repo'.published >= repo.published]_vars

\* A run whose request has been replaced leaves the row of the repository
\* alone, but for the failure it reports at its end.
SupersededLeavesRow ==
  [][\A n \in Ids :
       ~At(n, "fail") /\ run'[n] # run[n] /\ req # None /\ req.id # n
         => repo' = repo \/ run[n].next = req.id]_vars

\* Once people and failures leave it alone, the repository is not shown as
\* queued or running for ever, unless its request is for an earlier binding
\* or its caller never started the run.
Settles ==
  <>[](Shown \in {"queued", "running"} =>
         req # None /\ (req.bind # repo.bind \/ run[req.id].st = "none"))
=============================================================================
