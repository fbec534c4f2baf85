------------------------------ MODULE WriteLane ------------------------------
(***************************************************************************)
(* The write lane of one Workspace: how a write job travels from admission *)
(* through its durable OpenWorkflow run to at most one commit on the       *)
(* default branch of the Workspace repository.                             *)
(*                                                                         *)
(* Two typed workflows are modelled step by step: the file edit            *)
(* (workspace-file-edit.ts) and the semantic merge                         *)
(* (workspace-semantic-merge.ts), the latter both as a job of its own and  *)
(* as the child that a file edit hands its candidate to.                   *)
(*                                                                         *)
(* A branch without force pushes is a sequence of commits, so a sha is the *)
(* position of the commit, 0 is the null sha, and "contains" is a lookup.  *)
(* A remote is a URL together with its default branch.                     *)
(***************************************************************************)
EXTENDS Naturals, Sequences, FiniteSets

CONSTANTS
  Jobs,          \* write jobs
  Kinds,         \* kinds of job that are admitted
  Execs,         \* executors: worker slots that can run a workflow body
  Urls,          \* repositories the Workspace can be linked to
  HomeUrl,       \* the repository it is linked to at first
  Admitters,     \* who admits jobs: "api" requests, "tip" the resuming tip check
  None,          \* "null"
  StepAttempts,  \* attempts of a step before its run fails
  Rounds,        \* refreshAttempt bound of the workflow bodies
  Upsets,        \* what may go wrong: "access", "error", "crash", "stop"
  MaxGen,        \* bound: Workspace generations (relinks)
  MaxLog         \* bound: length of each branch at which people stop

ASSUME LaneAssumption ==
  /\ Kinds \subseteq {"ui_file_edit", "semantic_merge"}
  /\ HomeUrl \in Urls
  /\ Admitters \subseteq {"api", "tip"}
  /\ Upsets \subseteq {"access", "error", "crash", "stop"}
  /\ StepAttempts \in Nat \ {0}
  /\ Rounds \in Nat \ {0}
  /\ MaxGen \in Nat \ {0}
  /\ MaxLog \in [Urls -> Nat \ {0}]

VARIABLES
  ws,       \* the Workspace row: binding, desired sha, stored write access
  allowed,  \* does GitHub permit the app to push
  log,      \* the default branch of every repository
  row,      \* workspace_write_jobs
  run,      \* openworkflow.workflow_runs: durable state of every run
  exec,     \* the workflow body each executor is in the middle of
  adm,      \* the admissions in flight
  hyd       \* tip the hydrate run "<job>:hydrate" was queued with, 0 for none

vars == <<ws, allowed, log, row, run, exec, adm, hyd>>

-----------------------------------------------------------------------------
(* Values *)

Roles == {"root", "child"}
Runs == Jobs \X Roles

\* The identity of a prepared commit: commit subject and timestamp are durable
\* inputs, so the same run on the same base always makes the same sha.
Commits == [job : Jobs, role : Roles, base : Nat]

\* A commit of the branch, and the jobs whose change is present in its tree.
Entries == [commit : Commits \cup {None}, tree : SUBSET Jobs]

Revisions == [gen : Nat, url : Urls, sha : Nat]

Handoffs == [cand : Commits, rev : Revisions]

Statuses == {"none", "queued", "paused", "running", "completed", "failed"}

Rows == [status : Statuses, kind : Kinds \cup {None}, rev : Revisions \cup {None}, 
         owner : BOOLEAN, commit : Commits \cup {None},
         handoff : Handoffs \cup {None}]

Steps == {"claim", "acquire", "pause", "resume", "plan", "confirm", "noop",
          "noopHydrate", "commit", "push", "pausePush", "resumePush", "capture",
          "spawn", "child", "merged", "discard", "refresh", "publish", "hydrate",
          "complete"}

\* What the step history of a run holds: the next step, and what the earlier
\* steps returned.
Durable == [st : {"live", "completed", "failed"}, pc : Steps, rev : Revisions,
            handoff : Handoffs \cup {None}, cand : Commits \cup {None},
            pub : Nat, round : Nat, tries : Nat, res : Commits \cup {None}]

RunRecs == [d : Durable \cup {None}, lease : Execs \cup {None}]

Phases == {"idle", "enter", "do", "recheck", "send", "record"}

ExecRecs == [on : Runs \cup {None}, ph : Phases, d : Durable \cup {None}]

AdmRecs == [pc : {"idle", "start", "reconcile"}, job : Jobs \cup {None},
            todo : SUBSET Jobs]

NoRow == [status |-> "none", kind |-> None, rev |-> None, owner |-> FALSE,
          commit |-> None, handoff |-> None]

Idle == [on |-> None, ph |-> "idle", d |-> None]

ASSUME NoneAssumption ==
  /\ None \notin Durable /\ None \notin Handoffs /\ None \notin Execs
  /\ None \notin Commits

Fresh(pc, rev, handoff) ==
  [st |-> "live", pc |-> pc, rev |-> rev, handoff |-> handoff, cand |-> None,
   pub |-> 0, round |-> 0, tries |-> 0, res |-> None]

-----------------------------------------------------------------------------
(* Reading the state *)

Tip(u) == Len(log[u])

\* remoteContainsCommit: the candidate is an ancestor of the tip, or the tip.
\* Mutants: only the tip is compared; the branch merely moved off the base.
Contains_TipOnly(u, c) == log[u][Tip(u)].commit = c
Contains_BaseMoved(u, c) == Tip(u) > c.base
Contains(u, c) == \E p \in 1..Tip(u) : log[u][p].commit = c

Exists(r) == run[r].d # None
Ended(r, st) == Exists(r) /\ run[r].d.st = st

\* sameWriteBinding: the row still binds this generation and remote, and it
\* has a revision at all.
Bound(rev) == ws.gen = rev.gen /\ ws.url = rev.url /\ ws.desired # 0

\* The same without the demand of a captured revision.
SameBinding(rev) == ws.gen = rev.gen /\ ws.url = rev.url

IsMerge(r) == r[2] = "child" \/ row[r[1]].kind = "semantic_merge"

\* nativeWriteJobOwnerId is null: no run was ever queued for the job.
Orphan(j) == ~row[j].owner /\ ~Exists(<<j, "root">>)

\* failJobsWithEndedRun, for the rows in one of the statuses S. The run is
\* found by its key also when the row does not name it yet.
\* Mutant: only a run that the row names.
FailEnded_Owned(j, rw, S) ==
  IF rw.status \in S /\ rw.owner /\ Ended(<<j, "root">>, "failed")
    THEN [rw EXCEPT !.status = "failed"]
    ELSE rw
FailEnded(j, rw, S) ==
  IF rw.status \in S /\ Ended(<<j, "root">>, "failed")
    THEN [rw EXCEPT !.status = "failed", !.owner = TRUE]
    ELSE rw

-----------------------------------------------------------------------------
Init ==
  /\ ws = [gen |-> 1, url |-> HomeUrl, desired |-> 0, writable |-> FALSE]
  /\ allowed = TRUE
  /\ log = [u \in Urls |-> <<[commit |-> None, tree |-> {}]>>]
  /\ row = [j \in Jobs |-> NoRow]
  /\ run = [r \in Runs |-> [d |-> None, lease |-> None]]
  /\ exec = [e \in Execs |-> Idle]
  /\ adm = [a \in Admitters |-> [pc |-> "idle", job |-> None, todo |-> {}]]
  /\ hyd = [j \in Jobs |-> 0]

-----------------------------------------------------------------------------
(* People and GitHub *)

\* Somebody commits to a default branch. The new tree may revert the change
\* of a job or make it by hand.
HumanCommit ==
  \E u \in Urls, T \in SUBSET Jobs :
    /\ Tip(u) < MaxLog[u]
    /\ log' = [log EXCEPT ![u] = Append(@, [commit |-> None, tree |-> T])]
    /\ UNCHANGED <<ws, allowed, row, run, exec, adm, hyd>>

\* Branch protection or an installation change grants or revokes the push.
SetAccess ==
  /\ "access" \in Upsets
  /\ allowed' = ~allowed
  /\ UNCHANGED <<ws, log, row, run, exec, adm, hyd>>

\* A changed URL, connection or root folder starts a new generation.
Relink ==
  \E u \in Urls, w \in {allowed, FALSE} :
    /\ ws.gen < MaxGen
    /\ ws' = [gen |-> ws.gen + 1, url |-> u, desired |-> 0, writable |-> w]
    /\ UNCHANGED <<allowed, log, row, run, exec, adm, hyd>>

-----------------------------------------------------------------------------
(* Admission *)

\* enqueueWriteJob up to the stored row. The request of the API may name any
\* job; the resume of the tip check names the jobs it claimed.
AdmitBind(a, j, kind) ==
  /\ adm[a].pc = "idle"
  /\ a = "api" \/ j \in adm[a].todo
  /\ row[j].kind \in {None, kind}
  /\ LET sha == IF ws.desired = 0 THEN Tip(ws.url) ELSE ws.desired
         want == IF allowed THEN "queued" ELSE "paused"
         old == FailEnded(j, row[j], {"queued", "running", "paused"})
         new == IF old.status = "none"
                  THEN [NoRow EXCEPT !.status = want, !.kind = kind,
                                     !.rev = [gen |-> ws.gen, url |-> ws.url,
                                              sha |-> sha]]
                  ELSE IF /\ SameBinding(old.rev)
                          /\ ~old.owner
                          /\ old.status \in {"failed", "paused"}
                    THEN [old EXCEPT !.status = want]
                    ELSE old
     IN /\ ws' = [ws EXCEPT !.desired = sha, !.writable = allowed]
        /\ row' = [row EXCEPT ![j] = new]
        /\ adm' = [adm EXCEPT ![a] =
                     [pc |-> IF SameBinding(new.rev) THEN "start" ELSE "idle",
                      job |-> IF SameBinding(new.rev) THEN j ELSE None,
                      todo |-> @.todo \ {j}]]
  /\ UNCHANGED <<allowed, log, run, exec, hyd>>

\* runWorkflowWithWorkerWake with the job id as idempotency key: a second
\* call returns the run that is there.
QueueRoot(j) ==
  LET r == <<j, "root">>
  IN run' = IF Exists(r) THEN run
            ELSE [run EXCEPT ![r].d = Fresh("claim", row[j].rev, None)]

AdmitStart(a) ==
  /\ adm[a].pc = "start"
  /\ QueueRoot(adm[a].job)
  /\ adm' = [adm EXCEPT ![a].pc = "idle", ![a].job = None]
  /\ UNCHANGED <<ws, allowed, log, row, exec, hyd>>

\* The call throws: the run was not queued, or only the reply was lost.
AdmitError(a) ==
  /\ "error" \in Upsets
  /\ adm[a].pc = "start"
  /\ QueueRoot(adm[a].job) \/ UNCHANGED run
  /\ adm' = [adm EXCEPT ![a].pc = "reconcile"]
  /\ UNCHANGED <<ws, allowed, log, row, exec, hyd>>

\* reconcileWriteJobAdmission.
AdmitReconcile(a) ==
  /\ adm[a].pc = "reconcile"
  /\ LET j == adm[a].job
     IN row' = IF Exists(<<j, "root">>)
                 THEN [row EXCEPT ![j].owner = TRUE]
                 ELSE IF row[j].status \in {"queued", "paused"} /\ ~row[j].owner
                   THEN [row EXCEPT ![j].status = "failed"]
                   ELSE row
  /\ adm' = [adm EXCEPT ![a].pc = "idle", ![a].job = None]
  /\ UNCHANGED <<ws, allowed, log, run, exec, hyd>>

\* The process stops in the middle of an admission.
AdmitStop(a) ==
  /\ "stop" \in Upsets
  /\ adm[a].pc # "idle" \/ adm[a].todo # {}
  /\ adm' = [adm EXCEPT ![a] = [pc |-> "idle", job |-> None, todo |-> {}]]
  /\ UNCHANGED <<ws, allowed, log, row, run, exec, hyd>>

-----------------------------------------------------------------------------
(* Reconciliation *)

\* The first half of workspace-tip-check for this Workspace: probe the access,
\* then in one transaction reconcile the stale rows (reconcileStaleWriteJobs)
\* and claim the paused ones (resumePausedWriteJobs, claimPausedWriteJob).
\* old is the set of jobs whose row was not updated for an hour.
TipCheck(old) ==
  /\ "tip" \in Admitters
  /\ adm["tip"].pc = "idle" /\ adm["tip"].todo = {}
  /\ ws' = [ws EXCEPT !.writable = allowed]
  /\ IF ~allowed THEN UNCHANGED <<row, adm>>
     ELSE LET stale == [j \in Jobs |->
                IF j \in old THEN FailEnded(j, row[j], {"queued", "running"})
                             ELSE row[j]]
              lost == [j \in Jobs |->
                IF j \in old /\ stale[j].status = "queued" /\ Orphan(j)
                  THEN [stale[j] EXCEPT !.status =
                          IF SameBinding(stale[j].rev) THEN "paused" ELSE "failed"]
                  ELSE stale[j]]
              claimed == {j \in Jobs : /\ lost[j].status = "paused"
                                       /\ ~lost[j].owner
                                       /\ SameBinding(lost[j].rev)}
          IN /\ row' = [j \in Jobs |->
                          IF j \in claimed THEN [lost[j] EXCEPT !.status = "queued"]
                                           ELSE lost[j]]
             /\ adm' = [adm EXCEPT !["tip"].todo = claimed]
  /\ UNCHANGED <<allowed, log, run, exec, hyd>>

\* resolveWorkspaceReadRevision with refresh, by the second half of the tip
\* check or by a hydrate: read the tip, then compare and swap the desired sha.
CaptureTip ==
  /\ ws' = [ws EXCEPT !.desired = Tip(ws.url)]
  /\ UNCHANGED <<allowed, log, row, run, exec, adm, hyd>>

\* getWorkspaceFileJobStatus: a poll of the Files pane settles the row of a
\* run that ended without recording its result.
Poll(j) ==
  /\ row[j].kind = "ui_file_edit"
  /\ row' = [row EXCEPT ![j] = FailEnded(j, @, {"queued", "running", "paused"})]
  /\ UNCHANGED <<ws, allowed, log, run, exec, adm, hyd>>

-----------------------------------------------------------------------------
(* OpenWorkflow: who runs which run *)

\* An idle executor claims a live run. The holder of the lease may still be
\* in its body: a stalled worker loses the lease and is not stopped. A run
\* that awaits its child is claimed when the child has ended.
Claim(e, r) ==
  /\ exec[e] = Idle
  /\ Ended(r, "live")
  /\ run[r].d.pc = "child" =>
       \E st \in {"completed", "failed"} : Ended(<<r[1], "child">>, st)
  /\ run' = [run EXCEPT ![r].lease = e]
  /\ exec' = [exec EXCEPT ![e] = [on |-> r, ph |-> "enter", d |-> run[r].d]]
  /\ UNCHANGED <<ws, allowed, log, row, adm, hyd>>

\* What the step of e returned, or how the body ended: not yet durable.
Returns(e, d) == exec' = [exec EXCEPT ![e].ph = "record", ![e].d = d]

Goto(e, pc) == Returns(e, [exec[e].d EXCEPT !.pc = pc, !.tries = 0])

Completes(e, c) == Returns(e, [exec[e].d EXCEPT !.st = "completed", !.res = c])

Fails(e) == Returns(e, [exec[e].d EXCEPT !.st = "failed"])

\* A step that throws is tried again by a later execution of the run.
Throws(e) ==
  IF exec[e].d.tries + 1 < StepAttempts
    THEN Returns(e, [exec[e].d EXCEPT !.tries = @ + 1])
    ELSE Fails(e)

\* OpenWorkflow stores a result only for the executor that holds the lease.
\* The body goes on in the same execution unless it sleeps, waits for its
\* child, backs off, or is over.
Record(e) ==
  /\ exec[e].ph = "record"
  /\ LET r == exec[e].on
         d == exec[e].d
         parks == \/ d.st # "live" \/ d.tries > 0
                  \/ d.pc \in {"resume", "resumePush", "child"}
     IN IF run[r].lease # e
          THEN /\ exec' = [exec EXCEPT ![e] = Idle]
               /\ UNCHANGED run
          ELSE /\ run' = [run EXCEPT ![r] =
                            [d |-> d, lease |-> IF parks THEN None ELSE e]]
               /\ exec' = [exec EXCEPT ![e] =
                             IF parks THEN Idle ELSE [@ EXCEPT !.ph = "do"]]
  /\ UNCHANGED <<ws, allowed, log, row, adm, hyd>>

\* The worker process stops; its lease runs out later.
Crash(e) ==
  /\ "crash" \in Upsets
  /\ exec[e] # Idle
  /\ exec' = [exec EXCEPT ![e] = Idle]
  /\ UNCHANGED <<ws, allowed, log, row, run, adm, hyd>>

\* A step fails before it had an effect: the database or GitHub is away.
StepError(e) ==
  /\ "error" \in Upsets
  /\ exec[e].ph \in {"do", "recheck", "send"}
  /\ Throws(e)
  /\ UNCHANGED <<ws, allowed, log, row, run, adm, hyd>>

\* validateSemanticHandoff: the row still holds the handoff of the child.
Handed(r, w, d) == r[2] = "child" => w.handoff = d.handoff

\* Every execution starts the body from the top: completedWorkspaceWrite for a
\* job of its own, which first settles the row of a run that ended meanwhile,
\* and validateSemanticHandoff for a child.
Enter(e) ==
  /\ exec[e].ph = "enter"
  /\ LET r == exec[e].on
         w == IF r[2] = "root"
                THEN FailEnded(r[1], row[r[1]], {"queued", "running", "paused"})
                ELSE row[r[1]]
     IN /\ row' = [row EXCEPT ![r[1]] = w]
        /\ IF ~Handed(r, w, exec[e].d) THEN Fails(e)
           ELSE IF w.status = "completed" THEN Completes(e, w.commit)
           ELSE IF r[2] = "child" /\ w.status \notin {"running", "paused"}
             THEN Fails(e)
             ELSE exec' = [exec EXCEPT ![e].ph = "do"]
  /\ UNCHANGED <<ws, allowed, log, run, adm, hyd>>

-----------------------------------------------------------------------------
(* The steps of the workflow bodies *)

\* Executor e is about to run step pc.
At(e, pc) == exec[e].ph = "do" /\ exec[e].d.pc = pc

JobOf(e) == exec[e].on[1]

\* persistWriteJobStatus: a completed row keeps its status.
SetStatus(j, st) ==
  row' = IF row[j].status = "completed" THEN row ELSE [row EXCEPT ![j].status = st]

\* persistWriteJobCommitSha: the result of the job, recorded once.
\* Mutant: an empty result keeps the candidate.
SetResult_KeepCandidate(j, c) ==
  row' = IF row[j].status = "completed" THEN row
         ELSE [row EXCEPT ![j].status = "completed",
                          ![j].commit = IF c = None THEN @ ELSE c]
SetResult(j, c) ==
  row' = IF row[j].status = "completed" THEN row
         ELSE [row EXCEPT ![j].status = "completed", ![j].commit = c]

\* What the conditional update of persistBoundWriteJob asks of the row.
\* Mutant: the row may hold a commit.
Claimable_AnyCommit(w, rev) == w.rev = rev
Claimable(w, rev) == w.rev = rev /\ w.commit = None

\* persistBoundWriteJob by the run: take the row, whatever its status. The
\* payload is written anew, without the handoff. A child works under the claim
\* of its parent.
ClaimCommand(e) ==
  /\ At(e, "claim")
  /\ LET j == JobOf(e)
     IN IF Claimable(row[j], exec[e].d.rev)
          THEN /\ row' = [row EXCEPT ![j].status = "running", ![j].owner = TRUE,
                                     ![j].handoff = None]
               /\ Goto(e, "acquire")
          ELSE /\ UNCHANGED row
               /\ Throws(e)
  /\ UNCHANGED <<ws, allowed, log, run, adm, hyd>>

\* acquireWorkspaceWriteRevision.
Acquire(e) ==
  /\ At(e, "acquire")
  /\ IF ~Bound(exec[e].d.rev) THEN Throws(e)
     ELSE Goto(e, IF ws.writable THEN "plan" ELSE "pause")
  /\ UNCHANGED <<ws, allowed, log, row, run, adm, hyd>>

\* pause-command and pause-push; the body then sleeps.
Pause(e) ==
  /\ At(e, "pause") \/ At(e, "pausePush")
  /\ SetStatus(JobOf(e), "paused")
  /\ Goto(e, IF exec[e].d.pc = "pause" THEN "resume" ELSE "resumePush")
  /\ UNCHANGED <<ws, allowed, log, run, adm, hyd>>

\* resume-command and resume-push, after the sleep.
Resume(e) ==
  /\ At(e, "resume") \/ At(e, "resumePush")
  /\ SetStatus(JobOf(e), "running")
  /\ Goto(e, IF exec[e].d.pc = "resume" THEN "acquire" ELSE "push")
  /\ UNCHANGED <<ws, allowed, log, run, adm, hyd>>

\* Transform, stage and validate: does the job change anything on its
\* revision? A merge whose conflict the model settles for the branch does not.
Plan(e) ==
  /\ At(e, "plan")
  /\ LET j == JobOf(e)
         rev == exec[e].d.rev
         present == j \in log[rev.url][rev.sha].tree
     IN \/ /\ ~present
           /\ Goto(e, "commit")
        \/ /\ present \/ IsMerge(exec[e].on)
           /\ Goto(e, "confirm")
  /\ UNCHANGED <<ws, allowed, log, row, run, adm, hyd>>

\* The loop goes on with the refreshed revision, or gives up.
NextRound(e) ==
  LET d == exec[e].d
  IN IF d.round + 1 < Rounds
       THEN Returns(e, [d EXCEPT !.pc = "acquire", !.tries = 0, !.cand = None,
                                 !.round = @ + 1, !.rev.sha = Tip(d.rev.url)])
       ELSE Fails(e)

\* confirm-no-op: a job without a change is over only on the actual tip.
Confirm(e) ==
  /\ At(e, "confirm")
  /\ LET d == exec[e].d
     IN IF ~Bound(d.rev) THEN Throws(e) /\ UNCHANGED ws
        ELSE /\ ws' = [ws EXCEPT !.desired = Tip(ws.url)]
             /\ IF Tip(d.rev.url) # d.rev.sha THEN NextRound(e)
                ELSE Goto(e, IF IsMerge(exec[e].on) THEN "noopHydrate" ELSE "noop")
  /\ UNCHANGED <<allowed, log, row, run, adm, hyd>>

\* The hydrate run has the key "<job>:hydrate": the first request stays.
QueueHydrate(j, sha) == hyd' = IF hyd[j] = 0 THEN [hyd EXCEPT ![j] = sha] ELSE hyd

NoopHydrate(e) ==
  /\ At(e, "noopHydrate")
  /\ QueueHydrate(JobOf(e), exec[e].d.rev.sha)
  /\ IF exec[e].on[2] = "child" THEN Completes(e, None) ELSE Goto(e, "noop")
  /\ UNCHANGED <<ws, allowed, log, row, run, adm>>

\* complete-no-op sets the status; complete-resolved-no-op also the result.
Noop(e) ==
  /\ At(e, "noop")
  /\ \/ SetStatus(JobOf(e), "completed")
     \/ IsMerge(exec[e].on) /\ SetResult(JobOf(e), None)
  /\ Completes(e, None)
  /\ UNCHANGED <<ws, allowed, log, run, adm, hyd>>

\* The commit step makes the candidate and binds it to the row before any
\* remote write: persistWriteJobPreparedCommit, or for a child
\* validateSemanticHandoff with the prepared sha.
Commit(e) ==
  /\ At(e, "commit")
  /\ LET r == exec[e].on
         d == exec[e].d
         w == row[r[1]]
         c == [job |-> r[1], role |-> r[2], base |-> d.rev.sha]
         free == IF r[2] = "root"
                   THEN w.status # "completed" /\ w.commit \in {None, c}
                   ELSE /\ w.handoff = d.handoff
                        /\ w.status \in {"running", "paused"}
                        /\ w.commit \in {None, d.handoff.cand, c}
         ready == Returns(e, [d EXCEPT !.pc = "push", !.tries = 0, !.cand = c])
     IN \/ /\ free
           /\ row' = [row EXCEPT ![r[1]].commit = c]
           /\ ready
        \/ /\ ~free
           /\ UNCHANGED row
           /\ IF r[2] = "child" /\ w.handoff = d.handoff /\ w.status = "completed"
                THEN ready ELSE Throws(e)
  /\ UNCHANGED <<ws, allowed, log, run, adm, hyd>>

\* pushWorkspaceCommit, first reads: the row, then the tip of the remote. A
\* candidate that is already in the branch is a push that was done before.
TipAdvanced(e) ==
  Goto(e, IF IsMerge(exec[e].on) THEN "discard" ELSE "capture")

PushCheck(e) ==
  /\ At(e, "push")
  /\ LET d == exec[e].d
     IN IF ~Bound(d.rev) THEN Throws(e)
        ELSE IF Contains(d.rev.url, d.cand) THEN Goto(e, "publish")
        ELSE IF ~ws.writable THEN Goto(e, "pausePush")
        ELSE IF Tip(d.rev.url) # d.rev.sha \/ ws.desired # d.rev.sha
          THEN TipAdvanced(e)
        ELSE exec' = [exec EXCEPT ![e].ph = "recheck"]
  /\ UNCHANGED <<ws, allowed, log, row, run, adm, hyd>>

\* The tip of the remote is the candidate itself.
TipIs(u, c) == log[u][Tip(u)].commit = c

\* Second reads, after the credential was issued: tip, then row.
PushRecheck(e) ==
  /\ exec[e].ph = "recheck"
  /\ LET d == exec[e].d
     IN IF Tip(d.rev.url) # d.rev.sha /\ ~TipIs(d.rev.url, d.cand)
          THEN TipAdvanced(e)
        ELSE IF ~(Bound(d.rev) /\ ws.desired = d.rev.sha) THEN Throws(e)
        ELSE IF TipIs(d.rev.url, d.cand) THEN Goto(e, "publish")
        ELSE IF ~ws.writable THEN Goto(e, "pausePush")
        ELSE exec' = [exec EXCEPT ![e].ph = "send"]
  /\ UNCHANGED <<ws, allowed, log, row, run, adm, hyd>>

\* The token or the push is denied: store the access, unless the Workspace
\* moved on, and pause.
PushDenied(e) ==
  /\ exec[e].ph \in {"recheck", "send"}
  /\ ~allowed
  /\ LET rev == exec[e].d.rev
     IN ws' = IF SameBinding(rev) /\ ws.desired = rev.sha
                THEN [ws EXCEPT !.writable = FALSE] ELSE ws
  /\ Goto(e, "pausePush")
  /\ UNCHANGED <<allowed, log, row, run, adm, hyd>>

\* The repository that is pushed to is that of the revision the run works on.
\* Mutant: the one that the row names by now.
PushUrl_Live(rev) == ws.url
PushUrl(rev) == rev.url

\* git push without force: it extends the branch, finds the branch up to
\* date, or is rejected.
PushSend(e) ==
  /\ exec[e].ph = "send"
  /\ allowed
  /\ LET d == exec[e].d
         u == PushUrl(d.rev)
     IN IF Tip(u) = d.rev.sha
          THEN /\ log' = [log EXCEPT ![u] =
                    Append(@, [commit |-> d.cand,
                               tree |-> @[d.rev.sha].tree \cup {JobOf(e)}])]
               /\ Goto(e, "publish")
          ELSE /\ UNCHANGED log
               /\ IF TipIs(u, d.cand) THEN Goto(e, "publish") ELSE Throws(e)
  /\ UNCHANGED <<ws, allowed, row, run, adm, hyd>>

\* capture-semantic-handoff: refresh the revision, then bind the unpushed
\* delta to the row (persistSemanticHandoff). A handoff that is there already
\* for the same candidate is returned as it is.
Capture(e) ==
  /\ At(e, "capture")
  /\ LET j == JobOf(e)
         d == exec[e].d
         w == row[j]
         admitted == /\ w.status = "running" /\ w.owner
                     /\ w.rev = d.rev /\ w.commit = d.cand
         next == [cand |-> d.cand, rev |-> [d.rev EXCEPT !.sha = Tip(d.rev.url)]]
         with(h) == Returns(e, [d EXCEPT !.pc = "spawn", !.tries = 0, !.handoff = h])
     IN IF ~Bound(d.rev) THEN Throws(e) /\ UNCHANGED <<ws, row>>
        ELSE /\ ws' = [ws EXCEPT !.desired = Tip(ws.url)]
             /\ \/ /\ admitted /\ w.handoff = None
                   /\ row' = [row EXCEPT ![j].handoff = next]
                   /\ with(next)
                \/ /\ admitted /\ w.handoff # None
                   /\ UNCHANGED row
                   /\ IF w.handoff.cand = d.cand THEN with(w.handoff) ELSE Throws(e)
                \/ /\ ~admitted
                   /\ UNCHANGED row
                   /\ Throws(e)
  /\ UNCHANGED <<allowed, log, run, adm, hyd>>

\* step.runWorkflow: queue the child once, and wait for it.
Spawn(e) ==
  /\ At(e, "spawn")
  /\ LET c == <<JobOf(e), "child">>
         h == exec[e].d.handoff
     IN run' = IF Exists(c) THEN run
               ELSE [run EXCEPT ![c].d = Fresh("acquire", h.rev, h)]
  /\ Goto(e, "child")
  /\ UNCHANGED <<ws, allowed, log, row, adm, hyd>>

AwaitChild(e) ==
  /\ At(e, "child")
  /\ LET c == <<JobOf(e), "child">>
     IN \/ /\ Ended(c, "completed")
           /\ Returns(e, [exec[e].d EXCEPT !.pc = "merged", !.tries = 0,
                                           !.res = run[c].d.res])
        \/ /\ Ended(c, "failed")
           /\ Fails(e)
  /\ UNCHANGED <<ws, allowed, log, row, run, adm, hyd>>

\* complete-merged-result.
Merged(e) ==
  /\ At(e, "merged")
  /\ SetResult(JobOf(e), exec[e].d.res)
  /\ Completes(e, exec[e].d.res)
  /\ UNCHANGED <<ws, allowed, log, run, adm, hyd>>

\* discard-unpublished-candidate.
Discard(e) ==
  /\ At(e, "discard")
  /\ LET j == JobOf(e)
         w == row[j]
     IN IF w.status = "running" /\ w.commit \in {None, exec[e].d.cand}
          THEN /\ row' = [row EXCEPT ![j].commit = None]
               /\ Goto(e, "refresh")
          ELSE /\ UNCHANGED row
               /\ Throws(e)
  /\ UNCHANGED <<ws, allowed, log, run, adm, hyd>>

\* refresh-raced-revision.
Refresh(e) ==
  /\ At(e, "refresh")
  /\ IF ~Bound(exec[e].d.rev) THEN Throws(e) /\ UNCHANGED ws
     ELSE /\ ws' = [ws EXCEPT !.desired = Tip(ws.url)]
          /\ NextRound(e)
  /\ UNCHANGED <<allowed, log, row, run, adm, hyd>>

\* The revision to hydrate is the tip that publish-result resolved.
\* Mutants: the desired sha from before the push; no sha at all.
HydrateTip_Stale(rev) == ws.desired
HydrateTip_Unset(rev) == None
HydrateTip(rev) == Tip(rev.url)

\* publish-result: the actual tip, which must hold the commit, is the revision
\* to hydrate.
Publish(e) ==
  /\ At(e, "publish")
  /\ LET d == exec[e].d
     IN IF ~Bound(d.rev) THEN Throws(e) /\ UNCHANGED ws
        ELSE /\ ws' = [ws EXCEPT !.desired = Tip(ws.url)]
             /\ IF Contains(d.rev.url, d.cand)
                  THEN Returns(e, [d EXCEPT !.pc = "hydrate", !.tries = 0,
                                            !.pub = HydrateTip(d.rev)])
                  ELSE Throws(e)
  /\ UNCHANGED <<allowed, log, row, run, adm, hyd>>

\* enqueue-hydrate; a child returns its result to the parent, which records it.
Hydrate(e) ==
  /\ At(e, "hydrate")
  /\ QueueHydrate(JobOf(e), exec[e].d.pub)
  /\ IF exec[e].on[2] = "child" THEN Completes(e, exec[e].d.cand)
                                ELSE Goto(e, "complete")
  /\ UNCHANGED <<ws, allowed, log, row, run, adm>>

\* complete.
Complete(e) ==
  /\ At(e, "complete")
  /\ SetResult(JobOf(e), exec[e].d.cand)
  /\ Completes(e, exec[e].d.cand)
  /\ UNCHANGED <<ws, allowed, log, run, adm, hyd>>

-----------------------------------------------------------------------------
(* The system *)

Body(e) ==
  \/ Enter(e) \/ ClaimCommand(e) \/ Acquire(e) \/ Pause(e) \/ Resume(e)
  \/ Plan(e) \/ Confirm(e) \/ NoopHydrate(e) \/ Noop(e) \/ Commit(e)
  \/ PushCheck(e) \/ PushRecheck(e) \/ PushDenied(e) \/ PushSend(e)
  \/ Capture(e) \/ Spawn(e) \/ AwaitChild(e) \/ Merged(e)
  \/ Discard(e) \/ Refresh(e) \/ Publish(e) \/ Hydrate(e) \/ Complete(e)

Admit(a) ==
  \/ \E j \in Jobs, kind \in Kinds : AdmitBind(a, j, kind)
  \/ AdmitStart(a) \/ AdmitReconcile(a)

\* What nobody planned: errors, crashes, people.
Disturbance ==
  \/ HumanCommit \/ SetAccess \/ Relink
  \/ \E e \in Execs : Crash(e) \/ StepError(e)
  \/ \E a \in Admitters : AdmitError(a) \/ AdmitStop(a)

Work ==
  \/ \E a \in Admitters : Admit(a)
  \/ \E old \in SUBSET Jobs : TipCheck(old)
  \/ CaptureTip
  \/ \E j \in Jobs : Poll(j)
  \/ \E e \in Execs : (\E r \in Runs : Claim(e, r)) \/ Record(e) \/ Body(e)

Next == Work \/ Disturbance

Spec == Init /\ [][Next]_vars

\* OpenWorkflow keeps polling for runs, a step that started ends, an admission
\* that started ends, and the tip check runs every hour on rows that grow old.
Fairness ==
  /\ \A e \in Execs : /\ WF_vars(Record(e) \/ Body(e))
                       /\ WF_vars(\E r \in Runs : Claim(e, r))
  /\ \A a \in Admitters : WF_vars(AdmitStart(a) \/ AdmitReconcile(a))
  /\ WF_vars(\E j \in Jobs, kind \in Kinds : "tip" \in Admitters /\ AdmitBind("tip", j, kind))
  /\ WF_vars(TipCheck(Jobs))

\* From some point on nothing is upset and GitHub permits the push.
CalmSpec == Spec /\ Fairness /\ <>[][Work]_vars /\ <>[]allowed

-----------------------------------------------------------------------------
(* Properties *)

TypeOK ==
  /\ ws \in [gen : Nat, url : Urls, desired : Nat, writable : BOOLEAN]
  /\ allowed \in BOOLEAN
  /\ log \in [Urls -> Seq(Entries)]
  /\ row \in [Jobs -> Rows]
  /\ run \in [Runs -> RunRecs]
  /\ exec \in [Execs -> ExecRecs]
  /\ adm \in [Admitters -> AdmRecs]
  /\ hyd \in [Jobs -> Nat]

Published(u) == {log[u][p].commit : p \in DOMAIN log[u]}

\* The commits that job j put on any branch.
CommitsOf(j) ==
  UNION {{<<u, p>> : p \in {q \in 1..Tip(u) : /\ log[u][q].commit # None
                                             /\ log[u][q].commit.job = j}} :
         u \in Urls}

\* A job publishes at most one commit, whatever crashes, retries, relinks,
\* access changes and concurrent commits happen on the way (ADR-047: "publish
\* at most one commit per job").
AtMostOneCommitPerJob == \A j \in Jobs : Cardinality(CommitsOf(j)) <= 1

\* The commit that a completed job names is on the branch the job was bound to.
CompletedIsPublished ==
  \A j \in Jobs :
    row[j].status = "completed" /\ row[j].commit # None =>
      row[j].commit \in Published(row[j].rev.url)

\* The same for file edits, which holds even when several executors run the
\* same run at once: a stalled worker that lost its lease cannot make a file
\* edit name a commit that is not there.
FileEditIsPublished ==
  \A j \in Jobs :
    /\ row[j].kind = "ui_file_edit" /\ row[j].status = "completed"
    /\ row[j].commit # None
    => row[j].commit \in Published(row[j].rev.url)

\* A completed job that names no commit published none, by itself or by its
\* child: "no_changes" is the truth.
NoChangesIsTrue ==
  \A j \in Jobs :
    row[j].status = "completed" /\ row[j].commit = None => CommitsOf(j) = {}

\* A completed job that names a commit queued a hydrate of a tip that holds it,
\* so the change will be served.
CompletedIsServed ==
  \A j \in Jobs :
    row[j].status = "completed" /\ row[j].commit # None =>
      \E p \in 1..hyd[j] : log[row[j].rev.url][p].commit = row[j].commit

\* A run that returned its result has recorded the same result on its job.
RunAgreesWithRow ==
  \A j \in Jobs :
    Ended(<<j, "root">>, "completed") =>
      row[j].status = "completed" /\ row[j].commit = run[<<j, "root">>].d.res

\* What job j has on the branches, and how far it is.
Made(j) ==
  {[url |-> z[1], place |-> z[2], commit |-> log[z[1]][z[2]].commit] :
     z \in CommitsOf(j)}

Fate(j) ==
  CASE row[j].status = "none" -> "none"
    [] row[j].status = "failed" -> "failed"
    [] row[j].status = "completed" -> "done"
    [] OTHER -> "open"

\* The refinement mapping: the lane is a ledger of its jobs.
Ledger == INSTANCE JobLedger WITH
  fate <- [j \in Jobs |-> Fate(j)],
  home <- [j \in Jobs |-> IF Fate(j) = "none" THEN None ELSE row[j].rev.url],
  made <- [j \in Jobs |-> Made(j)],
  order <- hyd,
  result <- [j \in Jobs |-> IF Fate(j) = "done" THEN row[j].commit ELSE None]

\* The lane keeps the promise of JobLedger: one commit, on the repository that
\* the job was admitted for even when the Workspace is relinked between the
\* last look at its row and the push, then one hydrate that covers it, then one
\* result that is true and final.
KeepsLedger == Ledger!Spec

\* A published result is final: a late step of a stalled executor changes
\* nothing of a job that completed with a commit.
PublishedIsFinal ==
  [][\A j \in Jobs :
       row[j].status = "completed" /\ row[j].commit # None => row'[j] = row[j]]_vars

\* The job is over, or it waits under a binding that a relink replaced.
Settled(j) ==
  \/ row[j].status \in {"completed", "failed"}
  \/ row[j].status = "paused" /\ ~SameBinding(row[j].rev)

\* Once the upsets end, every admitted job settles: no lost admission, no
\* crashed or failed run and no pause leaves it queued, running or paused for
\* ever. The exception is a paused row whose run ended with an error: only a
\* poll of the Files pane looks at it.
JobSettles ==
  \A j \in Jobs :
    row[j].status # "none" ~>
      \/ Settled(j)
      \/ row[j].status = "paused" /\ Ended(<<j, "root">>, "failed")

\* A moved tip costs a file edit nothing but a merge: with its binding in
\* place its run does not fail while handing the delta over (ADR-047: "when the
\* default branch moved, the unpublished delta is replayed on the new tip").
MovedTipIsReplayed ==
  \A j \in Jobs :
    LET r == <<j, "root">>
    IN Ended(r, "failed") /\ SameBinding(run[r].d.rev) => run[r].d.pc # "capture"
=============================================================================
