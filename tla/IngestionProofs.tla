--------------------------- MODULE IngestionProofs ---------------------------
(***************************************************************************)
(* Theorems about Ingestion, for any number of callers, of connectors, of  *)
(* requests and runs, of commits, of bindings and of rebinds.              *)
(*                                                                         *)
(* The argument: as long as the repository has not been rebound since a    *)
(* run looked at its request, the run owns the request of the repository,  *)
(* or it works for the default branch by its name and the request is for   *)
(* no branch by name (WorkersOwn): nothing else replaces the request of a  *)
(* live run. So two runs for one branch are never at work together. And a  *)
(* request that was replaced never returns, so what a run publishes is     *)
(* compared with what it published itself (ShasAhead). What a step may do  *)
(* is said once, to one run (RunStep), to the row (RowStep) and to the     *)
(* request (ReqStep); each action is shown to be such a step, and such     *)
(* steps to keep the invariant.                                            *)
(***************************************************************************)
EXTENDS Ingestion, TLAPS

USE DEF ids

-----------------------------------------------------------------------------
(* The inductive invariant *)

\* A child run past the look at its request, which has not published yet.
Working == {"mark", "resolve", "index", "wake", "publish"}

\* It has resolved what it will publish.
Resolved == {"index", "wake", "publish"}

\* Every id in use has been given out, and a follow-up has one.
IdsGiven ==
  /\ req # None => req.id <= last /\ req.target = target[req.id]
  /\ \A p \in Producers \cup Connectors :
       prod[p].pc \in {"admit", "ack", "claim", "start"}
         => prod[p].id \in 1..last
  /\ \A n \in Ids :
       /\ run[n].st # "none" => n <= last
       /\ run[n].next <= last
       /\ run[n].pc \in {"admit", "ack"} => run[n].next # 0

\* Where a run can be and what it can know, whatever the others do.
RunsAreShaped ==
  \A n \in Ids :
    /\ run[n].pc \notin {"activate", "end"} => run[n].st = "running"
    /\ run[n].next # 0
         => run[n].pc \in {"admit", "ack", "collect", "fail", "end"}
    /\ run[n].next # 0 /\ run[n].pc \in {"ack", "collect"}
         => run[run[n].next].st # "none"
    /\ run[n].since <= rebinds
    /\ run[n].sha <= tip

RowIsShaped ==
  /\ repo.published <= tip
  /\ repo.status = "unindexing" => purge

\* A run at work owns the request of the repository, unless the repository was
\* rebound, or the run names its branch and the request does not.
WorkersOwn ==
  Exists =>
    \A n \in Ids :
      run[n].pc \in Working /\ run[n].since = rebinds
        => /\ req # None /\ req.bind = repo.bind
           /\ \/ req.id = n
              \/ target[n] = "default" /\ target[req.id] = "null"

\* A request stays, and is never again that of a run that has asked for a
\* follow-up.
RequestsKeep ==
  Exists =>
    \A n \in Ids :
      /\ run[n].pc \in ChildPcs \ {"capture"} => req # None
      /\ run[n].pc \in {"admit", "ack"} => req.id # n

WorksAlone ==
  \A m, n \in Ids :
    /\ run[m].pc \in Working /\ run[n].pc \in Working
    /\ run[m].since = run[n].since /\ target[m] = target[n]
    => m = n

\* What the owner of the request is about to publish is not older than what is
\* published.
ShasAhead ==
  Exists =>
    \A n \in Ids :
      run[n].pc \in Resolved /\ req # None /\ req.id = n
        => repo.published <= run[n].sha

IngestionInv ==
  /\ TypeOK /\ IdsGiven /\ RunsAreShaped /\ RowIsShaped
  /\ WorkersOwn /\ RequestsKeep /\ WorksAlone /\ ShasAhead
  /\ CompletedIsFollowed

-----------------------------------------------------------------------------
(* What a step may do *)

Keeps(n) ==
  run'[n].sha = run[n].sha /\ run'[n].since = run[n].since
    /\ run'[n].next = run[n].next

Forgets(n) ==
  run'[n].sha = 0 /\ run'[n].since = 0 /\ run'[n].next = run[n].next

Made(n) ==
  /\ run[n].st = "none" /\ run'[n].st = "pending"
  /\ run'[n].pc = run[n].pc /\ Keeps(n) /\ n <= last

Claimed(n) ==
  /\ run[n].st = "pending" /\ run'[n].st = "running"
  /\ run'[n].pc = run[n].pc /\ Keeps(n)

Started(n) ==
  At(n, "activate") /\ At(n, "capture")' /\ Keeps(n)

Captured(n) ==
  /\ At(n, "capture") /\ Current(n) /\ At(n, "mark")'
  /\ run'[n].since = rebinds /\ run'[n].sha = run[n].sha
  /\ run'[n].next = run[n].next

Worked(n) ==
  /\ run[n].st = "running" /\ run'[n].st = "running"
  /\ run[n].pc \in Working /\ run'[n].pc \in Working
  /\ run'[n].since = run[n].since /\ run'[n].next = run[n].next
  /\ run'[n].sha \in {run[n].sha, tip}
  /\ run'[n].pc \in Resolved
       => \/ run'[n].sha = tip
          \/ run[n].pc \in Resolved /\ run'[n].sha = run[n].sha

Published(n) ==
  /\ At(n, "publish") /\ At(n, "follow")'
  /\ run'[n].sha = run[n].sha /\ run'[n].since = 0
  /\ run'[n].next = run[n].next

Asked(n) ==
  /\ At(n, "follow") /\ At(n, "admit")'
  /\ Exists /\ req' # None /\ req'.id # n
  /\ run'[n].next = req'.id
  /\ run'[n].since = run[n].since /\ run'[n].sha = run[n].sha

Admits(n) ==
  /\ At(n, "admit") /\ At(n, "ack")' /\ Keeps(n)
  /\ run'[run[n].next].st # "none"

Collects(n) ==
  At(n, run[n].pc) /\ run[n].pc \in {"follow", "ack"} /\ At(n, "collect")'
    /\ Forgets(n)

Failed(n) ==
  run[n].pc \in ChildPcs /\ At(n, "fail")' /\ Forgets(n)

EndedNow(n) ==
  /\ run[n].st = "running" /\ run'[n].pc = "end"
  /\ run'[n].st \in {"completed", "failed"} /\ Forgets(n)
  /\ run'[n].st = "completed" => run[n].pc = "collect" \/ purge \/ ~Exists

RunStep(n) ==
  \/ run'[n] = run[n]
  \/ Made(n) \/ Claimed(n) \/ Started(n) \/ Captured(n) \/ Worked(n)
  \/ Published(n) \/ Asked(n) \/ Admits(n) \/ Collects(n) \/ Failed(n)
  \/ EndedNow(n)

RunSteps == \A n \in Ids : RunStep(n)

RowStep ==
  /\ tip <= tip'
  /\ rebinds <= rebinds'
  /\ rebinds' = rebinds => repo'.bind = repo.bind
  /\ Exists' => Exists
  /\ purge /\ ~purge' => ~Exists'
  /\ repo'.status = "unindexing" => repo.status = "unindexing" \/ purge'
  /\ \/ repo'.published = repo.published
     \/ \E n \in Ids : At(n, "publish") /\ Writable(n)
                         /\ repo'.published = run[n].sha

\* The request at hand may be replaced: it is for another binding, its run is
\* over, or is asked for no branch by name, or asks for its follow-up.
Replaceable(t) ==
  req # None /\ req.bind = repo.bind =>
    \/ t = "null" /\ (req.target = "default" \/ ~Active(req.id))
    \/ At(req.id, "follow") /\ t = target[req.id]

\* The request is left alone, deleted with the row, replaced when it may be, or
\* owned by the run that is activated.
ReqStep ==
  \/ req' = req
  \/ req' = None /\ ~Exists'
  \/ /\ last' = last + 1 /\ req' # None /\ req'.id = last + 1
     /\ req'.bind = repo.bind /\ req'.target = target'[last + 1]
     /\ Replaceable(target'[last + 1])
  \/ /\ req' # None /\ req'.bind = repo.bind /\ req'.id <= last
     /\ req'.target = target[req'.id]
     /\ req # None => req.id = req'.id /\ req.bind = repo.bind

IdsStep ==
  /\ last <= last'
  /\ \A n \in Ids : n <= last => target'[n] = target[n]
  /\ \A p \in Producers \cup Connectors :
       prod'[p].pc \in {"admit", "ack", "claim", "start"}
         => prod'[p].id \in 1..last'

Step == TypeOK' /\ IdsStep /\ RunSteps /\ RowStep /\ ReqStep

-----------------------------------------------------------------------------
(* Such steps keep the invariant *)

LEMMA StepKeepsIds ==
  ASSUME IngestionInv, Step
  PROVE  IdsGiven'
<1>1. /\ last \in Nat /\ last' \in Nat /\ last <= last'
      /\ \A n \in Ids : run[n].next \in Nat /\ n \in Nat
      /\ req # None => req.id \in Nat /\ req.id \in Ids
  BY IngestionAssumption, NoneAssumption
    DEF IngestionInv, TypeOK, Step, IdsStep, Runs, Ids, Requests
<1>2. req' # None => req'.id <= last' /\ req'.target = target'[req'.id]
  <2>1. req' # None => req'.id \in Ids
    BY DEF Step, TypeOK, Requests
  <2> QED
    BY <1>1, <2>1 DEF IngestionInv, IdsGiven, Step, ReqStep, IdsStep
<1>3. \A n \in Ids :
        /\ run'[n].st # "none" => n <= last'
        /\ run'[n].next <= last'
        /\ run'[n].pc \in {"admit", "ack"} => run'[n].next # 0
  <2> SUFFICES ASSUME NEW n \in Ids
               PROVE  /\ run'[n].st # "none" => n <= last'
                      /\ run'[n].next <= last'
                      /\ run'[n].pc \in {"admit", "ack"} => run'[n].next # 0
    OBVIOUS
  <2>1. req' # None => req'.id # 0
    BY NoneAssumption DEF Step, TypeOK, Requests, Ids
  <2>2. RunStep(n)
    BY DEF Step, RunSteps
  <2> QED
    BY <1>1, <1>2, <2>1, <2>2
      DEF IngestionInv, IdsGiven, RunsAreShaped, RunStep, Made, Claimed,
          Started, Captured, Worked, Published, Asked, Admits, Collects,
          Failed, EndedNow, Keeps, Forgets, At, Working, ChildPcs
<1> QED BY <1>2, <1>3 DEF Step, IdsStep, IdsGiven

LEMMA StepKeepsRuns ==
  ASSUME IngestionInv, Step
  PROVE  RunsAreShaped' /\ RowIsShaped'
<1>1. /\ tip \in Nat /\ tip' \in Nat /\ tip <= tip'
      /\ rebinds \in Nat /\ rebinds' \in Nat /\ rebinds <= rebinds'
      /\ repo'.published \in Nat
      /\ \A n \in Ids : run[n].sha \in Nat /\ run[n].since \in Nat
  BY DEF IngestionInv, TypeOK, Step, RowStep, Runs, Repos
<1>2. \A n \in Ids : run[n].next # 0 => run[n].next \in Ids
  BY IngestionAssumption DEF IngestionInv, TypeOK, IdsGiven, Runs, Ids
<1>3. \A n \in Ids : run[n].st # "none" => run'[n].st # "none"
  BY DEF Step, RunSteps, RunStep, Made, Claimed, Started, Captured, Worked,
         Published, Asked, Admits, Collects, Failed, EndedNow, At
<1>4. RunsAreShaped'
  <2> SUFFICES ASSUME NEW n \in Ids
               PROVE  /\ run'[n].pc \notin {"activate", "end"}
                           => run'[n].st = "running"
                      /\ run'[n].next # 0
                           => run'[n].pc \in {"admit", "ack", "collect",
                                              "fail", "end"}
                      /\ run'[n].next # 0 /\ run'[n].pc \in {"ack", "collect"}
                           => run'[run'[n].next].st # "none"
                      /\ run'[n].since <= rebinds'
                      /\ run'[n].sha <= tip'
    BY DEF RunsAreShaped
  <2>1. RunStep(n)
    BY DEF Step, RunSteps
  <2> QED
    BY <1>1, <1>2, <1>3, <2>1
      DEF IngestionInv, RunsAreShaped, RunStep, Made, Claimed, Started,
          Captured, Worked, Published, Asked, Admits, Collects, Failed,
          EndedNow, Keeps, Forgets, At, Working, ChildPcs
<1>5. RowIsShaped'
  BY <1>1 DEF IngestionInv, RunsAreShaped, RowIsShaped, Step, RowStep, Exists,
              TypeOK
<1> QED BY <1>4, <1>5

\* A run at work has worked before, or has just looked at its request.
LEMMA WorkingBefore ==
  ASSUME IngestionInv, Step, NEW n \in Ids, run'[n].pc \in Working
  PROVE  /\ \/ run[n].pc \in Working /\ run'[n].since = run[n].since
            \/ Captured(n)
         /\ run[n].st = "running" /\ n <= last /\ target'[n] = target[n]
<1>1. RunStep(n)
  BY DEF Step, RunSteps
<1>2. \/ run[n].pc \in Working /\ run'[n].since = run[n].since
      \/ Captured(n)
  BY <1>1
    DEF RunStep, Made, Claimed, Started, Worked, Published, Asked, Admits,
        Collects, Failed, EndedNow, Keeps, Forgets, At, Working
<1>3. run[n].st = "running"
  BY <1>2 DEF IngestionInv, RunsAreShaped, Captured, At, Working
<1> QED BY <1>2, <1>3 DEF IngestionInv, IdsGiven, Step, IdsStep

LEMMA StepKeepsWorkersOwn ==
  ASSUME IngestionInv, Step
  PROVE  WorkersOwn'
<1> SUFFICES ASSUME Exists', NEW n \in Ids, run'[n].pc \in Working,
                    run'[n].since = rebinds'
             PROVE  /\ req' # None /\ req'.bind = repo'.bind
                    /\ \/ req'.id = n
                       \/ target'[n] = "default" /\ target'[req'.id] = "null"
  BY DEF WorkersOwn
<1>1. /\ rebinds \in Nat /\ rebinds' \in Nat /\ rebinds <= rebinds'
      /\ run[n].since \in Nat /\ run[n].since <= rebinds /\ Exists
  BY DEF IngestionInv, TypeOK, RunsAreShaped, Step, RowStep, Runs
<1>2. /\ \/ run[n].pc \in Working /\ run'[n].since = run[n].since
         \/ Captured(n)
      /\ run[n].st = "running" /\ n <= last /\ target'[n] = target[n]
  BY WorkingBefore
<1>3. repo'.bind = repo.bind
  BY <1>1, <1>2 DEF Step, RowStep, Captured
<1>4. /\ req # None /\ req.bind = repo.bind
      /\ \/ req.id = n
         \/ target[n] = "default" /\ target[req.id] = "null"
  BY <1>1, <1>2 DEF IngestionInv, WorkersOwn, Captured, Current
<1>5. /\ req \in Requests /\ req.id \in Ids /\ req.id <= last
      /\ req.target = target[req.id] /\ target'[req.id] = target[req.id]
      /\ target[n] \in Targets /\ target[req.id] \in Targets
  BY <1>4 DEF IngestionInv, TypeOK, IdsGiven, Requests, Step, IdsStep
<1>6. CASE req' # None /\ req'.id = req.id /\ req'.bind = repo.bind
  BY <1>2, <1>3, <1>4, <1>5, <1>6
<1>7. CASE /\ req' # None /\ req'.id = last + 1 /\ req'.bind = repo.bind
           /\ Replaceable(target'[last + 1])
  <2>1. run[n].pc # "follow"
    BY <1>2 DEF Captured, At, Working
  <2>2. CASE req.id = n
    BY <1>2, <1>3, <1>4, <1>5, <1>7, <2>1, <2>2
      DEF Replaceable, Active, At, Targets
  <2>3. CASE target[n] = "default" /\ target[req.id] = "null"
    BY <1>2, <1>3, <1>4, <1>7, <2>3 DEF Replaceable
  <2> QED BY <1>4, <2>2, <2>3
<1> QED BY <1>3, <1>4, <1>6, <1>7 DEF Step, ReqStep

LEMMA StepKeepsRequests ==
  ASSUME IngestionInv, Step
  PROVE  RequestsKeep'
<1> SUFFICES ASSUME Exists', NEW n \in Ids
             PROVE  /\ run'[n].pc \in ChildPcs \ {"capture"} => req' # None
                    /\ run'[n].pc \in {"admit", "ack"} => req'.id # n
  BY DEF RequestsKeep
<1>1. Exists /\ RunStep(n)
  BY DEF Step, RunSteps, RowStep
<1>2. last \in Nat /\ n \in Nat /\ (run[n].st # "none" => n <= last)
  BY IngestionAssumption DEF IngestionInv, TypeOK, IdsGiven, Ids
<1>3. req # None => req' # None
  BY DEF Step, ReqStep
<1>4. run'[n].pc \in ChildPcs \ {"capture"} => req' # None
  BY <1>1, <1>3
    DEF IngestionInv, RequestsKeep, RunStep, Made, Claimed, Started, Captured,
        Worked, Published, Asked, Admits, Collects, Failed, EndedNow, Keeps,
        Forgets, At, Working, ChildPcs, Current
<1>6. ASSUME run'[n].pc \in {"admit", "ack"}
      PROVE  req'.id # n
  <2>1. run[n].pc \in {"admit", "ack"} \/ Asked(n)
    BY <1>1, <1>6
      DEF RunStep, Made, Claimed, Started, Captured, Worked, Published, Admits,
          Collects, Failed, EndedNow, Keeps, Forgets, At, Working
  <2>2. CASE Asked(n)
    BY <2>2 DEF Asked
  <2>3. CASE run[n].pc \in {"admit", "ack"}
    <3>1. req # None /\ req.id # n /\ n <= last
      BY <1>1, <1>2, <2>3
        DEF IngestionInv, RequestsKeep, RunsAreShaped, ChildPcs
    <3> QED BY <1>2, <3>1 DEF Step, ReqStep
  <2> QED BY <2>1, <2>2, <2>3
<1> QED BY <1>4, <1>6

\* Who starts to work owns the request, and everyone at work for his branch
\* since the last rebind does so too.
LEMMA StepKeepsWorksAlone ==
  ASSUME IngestionInv, Step
  PROVE  WorksAlone'
<1> SUFFICES ASSUME NEW m \in Ids, NEW n \in Ids,
                    run'[m].pc \in Working, run'[n].pc \in Working,
                    run'[m].since = run'[n].since, target'[m] = target'[n]
             PROVE  m = n
  BY DEF WorksAlone
<1>1. \A k \in {m, n} :
        /\ \/ run[k].pc \in Working /\ run'[k].since = run[k].since
           \/ Captured(k)
        /\ target'[k] = target[k]
  BY WorkingBefore
<1>2. ASSUME NEW i \in {m, n}, NEW j \in {m, n}, Captured(i)
      PROVE  i = j
  <2>1. Exists /\ req # None /\ req.id = i /\ run'[i].since = rebinds
    BY <1>2 DEF Captured, Current
  <2>2. CASE Captured(j)
    BY <2>1, <2>2 DEF Captured, Current
  <2>3. CASE run[j].pc \in Working /\ run'[j].since = run[j].since
    BY <1>1, <2>1, <2>3 DEF IngestionInv, WorkersOwn
  <2> QED BY <1>1, <2>2, <2>3
<1>3. CASE ~Captured(m) /\ ~Captured(n)
  BY <1>1, <1>3 DEF IngestionInv, WorksAlone
<1> QED BY <1>2, <1>3

\* Only the owner of the request publishes, and a request that was replaced
\* never returns.
LEMMA StepKeepsShas ==
  ASSUME IngestionInv, Step
  PROVE  ShasAhead'
<1> SUFFICES ASSUME Exists', NEW n \in Ids, run'[n].pc \in Resolved,
                    req' # None, req'.id = n
             PROVE  repo'.published <= run'[n].sha
  BY DEF ShasAhead
<1>1. /\ Exists /\ last \in Nat
      /\ tip \in Nat /\ repo.published \in Nat /\ repo.published <= tip
      /\ \A m \in Ids : run[m].sha \in Nat /\ run[m].sha <= tip
  BY DEF IngestionInv, TypeOK, RunsAreShaped, RowIsShaped, Step, RowStep, Runs,
         Repos
<1>2. RunStep(n) /\ n <= last
  BY WorkingBefore DEF Step, RunSteps, Working, Resolved
<1>3. \/ run'[n].sha = tip
      \/ run[n].pc \in Resolved /\ run'[n].sha = run[n].sha
  BY <1>2
    DEF RunStep, Made, Claimed, Started, Captured, Worked, Published, Asked,
        Admits, Collects, Failed, EndedNow, Keeps, At, Resolved
<1>4. CASE run'[n].sha = tip
  BY <1>1, <1>4 DEF Step, RowStep
<1>5. CASE run[n].pc \in Resolved /\ run'[n].sha = run[n].sha
  <2>1. req # None
    BY <1>1, <1>5 DEF IngestionInv, RequestsKeep, Resolved, ChildPcs
  <2>2. req.id = n
    BY <1>1, <1>2, <2>1 DEF Step, ReqStep
  <2>3. repo.published <= run[n].sha
    BY <1>1, <1>5, <2>1, <2>2 DEF IngestionInv, ShasAhead
  <2>4. \A m \in Ids : Writable(m) => m = n
    BY <2>2 DEF Writable, Current
  <2>5. \/ repo'.published = repo.published
        \/ repo'.published = run[n].sha
    BY <2>4 DEF Step, RowStep
  <2> QED BY <1>1, <1>5, <2>3, <2>5
<1> QED BY <1>3, <1>4, <1>5

LEMMA StepKeepsFollowed ==
  ASSUME IngestionInv, Step
  PROVE  CompletedIsFollowed'
<1> SUFFICES ASSUME NEW n \in Ids, run'[n].st = "completed",
                    run'[n].next # 0, Exists', ~purge'
             PROVE  run'[run'[n].next].st # "none"
  BY DEF CompletedIsFollowed
<1>1. \A m \in Ids : run[m].st # "none" => run'[m].st # "none"
  BY DEF Step, RunSteps, RunStep, Made, Claimed, Started, Captured, Worked,
         Published, Asked, Admits, Collects, Failed, EndedNow, At
<1>2. Exists /\ ~purge
  BY DEF Step, RowStep, TypeOK
<1>3. RunStep(n)
  BY DEF Step, RunSteps
<1>4. /\ run'[n].next = run[n].next
      /\ run[n].st = "completed" \/ run[n].pc = "collect"
  BY <1>2, <1>3
    DEF RunStep, Made, Claimed, Started, Captured, Worked, Published, Asked,
        Admits, Collects, Failed, EndedNow, Keeps, Forgets, At
<1>5. run[run[n].next].st # "none"
  BY <1>2, <1>4 DEF IngestionInv, CompletedIsFollowed, RunsAreShaped
<1>6. run[n].next \in Ids
  BY <1>4, IngestionAssumption
    DEF IngestionInv, IdsGiven, TypeOK, Runs, Ids
<1> QED BY <1>1, <1>4, <1>5, <1>6

LEMMA StepKeepsInv ==
  ASSUME IngestionInv, Step
  PROVE  IngestionInv'
<1>1. TypeOK'
  BY DEF Step
<1> QED
  BY <1>1, StepKeepsIds, StepKeepsRuns, StepKeepsWorkersOwn,
     StepKeepsRequests, StepKeepsWorksAlone, StepKeepsShas, StepKeepsFollowed
    DEF IngestionInv

-----------------------------------------------------------------------------
(* What the helpers do *)

LEMMA RowStays ==
  ASSUME IngestionInv, UNCHANGED <<repo, tip, purge, rebinds>>
  PROVE  RowStep
BY DEF RowStep, IngestionInv, TypeOK, Repos, Exists

\* A step of an orchestrator that moves one run only.
LEMMA OnlyTheRun ==
  ASSUME IngestionInv, NEW n \in Ids,
         UNCHANGED <<repo, tip, req, ids, prod, purge, rebinds>>,
         run' \in [Ids -> Runs], \A m \in Ids \ {n} : run'[m] = run[m],
         RunStep(n)
  PROVE  Step
<1>1. TypeOK'
  BY DEF IngestionInv, TypeOK
<1>2. IdsStep
  BY IngestionAssumption DEF IngestionInv, TypeOK, IdsGiven, IdsStep
<1>3. RunSteps
  BY DEF RunSteps, RunStep
<1> QED BY <1>1, <1>2, <1>3, RowStays DEF Step, ReqStep

\* The same, with the row written too.
LEMMA TheRunAndItsRow ==
  ASSUME IngestionInv, NEW n \in Ids,
         UNCHANGED <<tip, ids, prod, purge, rebinds>>,
         run' \in [Ids -> Runs], \A m \in Ids \ {n} : run'[m] = run[m],
         RunStep(n), repo' \in Repos, req' \in Requests \cup {None},
         RowStep, ReqStep
  PROVE  Step
<1>1. TypeOK'
  BY DEF IngestionInv, TypeOK
<1>2. IdsStep
  BY IngestionAssumption DEF IngestionInv, TypeOK, IdsGiven, IdsStep
<1>3. RunSteps
  BY DEF RunSteps, RunStep
<1> QED BY <1>1, <1>2, <1>3 DEF Step

\* A step of a caller that leaves the runs alone.
LEMMA OnlyTheCaller ==
  ASSUME IngestionInv, NEW p \in Producers \cup Connectors,
         NEW pc \in {"idle", "prepare", "admit", "ack", "claim", "start"},
         NEW id \in 0..MaxId, To(p, pc, id),
         pc \in {"admit", "ack", "claim", "start"} => id \in 1..last',
         run' = run, repo' \in Repos, tip' \in Nat, purge' \in BOOLEAN,
         rebinds' = rebinds, target' \in [Ids -> Targets],
         \A n \in Ids : n <= last => target'[n] = target[n],
         last' \in 0..MaxId, last <= last', req' \in Requests \cup {None},
         RowStep, ReqStep
  PROVE  Step
<1>1. /\ prod' \in [Producers \cup Connectors ->
                      [pc : {"idle", "prepare", "admit", "ack", "claim",
                             "start"}, id : 0..MaxId]]
      /\ prod'[p].pc = pc /\ prod'[p].id = id
      /\ \A q \in (Producers \cup Connectors) \ {p} : prod'[q] = prod[q]
  BY DEF To, IngestionInv, TypeOK
<1>2. TypeOK'
  BY <1>1 DEF IngestionInv, TypeOK
<1>3. IdsStep
  BY <1>1, IngestionAssumption DEF IngestionInv, TypeOK, IdsGiven, IdsStep
<1>4. RunSteps
  BY DEF RunSteps, RunStep
<1> QED BY <1>2, <1>3, <1>4 DEF Step

\* The row is written, and not by a deletion.
LEMMA RowWrites ==
  ASSUME IngestionInv, NEW st \in Status, NEW rd \in BOOLEAN,
         repo' = [repo EXCEPT !.status = st, !.ready = rd]
  PROVE  /\ repo' \in Repos /\ repo'.bind = repo.bind
         /\ repo'.published = repo.published /\ repo'.status = st
BY DEF IngestionInv, TypeOK, Repos

LEMMA RowMarked ==
  ASSUME IngestionInv, NEW st \in Status \ {"gone", "unindexing"},
         NEW rd \in BOOLEAN, Exists, UNCHANGED <<tip, purge, rebinds>>,
         repo' = [repo EXCEPT !.status = st, !.ready = rd]
  PROVE  repo' \in Repos /\ RowStep
<1>1. /\ repo' \in Repos /\ repo'.bind = repo.bind
      /\ repo'.published = repo.published /\ repo'.status = st
  BY RowWrites
<1> QED BY <1>1 DEF RowStep, Exists, IngestionInv, TypeOK, Repos

LEMMA Becomes ==
  ASSUME TypeOK, NEW n \in Ids, NEW r \in Runs,
         run' = [run EXCEPT ![n] = r]
  PROVE  /\ run' \in [Ids -> Runs] /\ run'[n] = r
         /\ \A m \in Ids \ {n} : run'[m] = run[m]
BY DEF TypeOK

LEMMA RunWith ==
  ASSUME NEW r \in Runs, NEW pc \in ChildPcs \cup {"activate", "fail", "end"},
         NEW sha \in Nat, NEW since \in Nat, NEW next \in Nat,
         NEW out \in {"ready", "partial", "issues"}
  PROVE  /\ [r EXCEPT !.pc = pc, !.sha = sha] \in Runs
         /\ [r EXCEPT !.pc = pc, !.since = since] \in Runs
         /\ [r EXCEPT !.pc = pc, !.next = next] \in Runs
         /\ [r EXCEPT !.pc = pc, !.out = out] \in Runs
<1>1. [r EXCEPT !.pc = pc, !.sha = sha] \in Runs
  BY DEF Runs
<1>2. [r EXCEPT !.pc = pc, !.since = since] \in Runs
  BY DEF Runs
<1>3. [r EXCEPT !.pc = pc, !.next = next] \in Runs
  BY DEF Runs
<1>4. [r EXCEPT !.pc = pc, !.out = out] \in Runs
  BY DEF Runs
<1> QED BY <1>1, <1>2, <1>3, <1>4

LEMMA Goes ==
  ASSUME TypeOK, NEW n \in Ids,
         NEW pc \in ChildPcs \cup {"activate", "fail", "end"}, Goto(n, pc)
  PROVE  /\ run' \in [Ids -> Runs]
         /\ \A m \in Ids \ {n} : run'[m] = run[m]
         /\ run'[n].pc = pc /\ run'[n].st = run[n].st /\ Keeps(n)
BY DEF Goto, TypeOK, Runs, Keeps

LEMMA Leaves ==
  ASSUME TypeOK, NEW n \in Ids, NEW st \in {"running", "completed", "failed"},
         NEW pc \in {"collect", "fail", "end"}, run' = Left(n, st, pc)
  PROVE  /\ run' \in [Ids -> Runs]
         /\ \A m \in Ids \ {n} : run'[m] = run[m]
         /\ run'[n].st = st /\ run'[n].pc = pc /\ Forgets(n)
BY DEF Left, NoRun, TypeOK, Runs, ChildPcs, Forgets

LEMMA Ends ==
  ASSUME TypeOK, NEW n \in Ids, NEW st \in {"completed", "failed"},
         run' = Ended(n, st)
  PROVE  /\ run' \in [Ids -> Runs]
         /\ \A m \in Ids \ {n} : run'[m] = run[m]
         /\ run'[n].st = st /\ run'[n].pc = "end" /\ Forgets(n)
BY Leaves DEF Ended

LEMMA GivesUp ==
  ASSUME TypeOK, NEW n \in Ids, run[n].st = "running",
         run[n].pc \in ChildPcs, GiveUp(n)
  PROVE  /\ run' \in [Ids -> Runs]
         /\ \A m \in Ids \ {n} : run'[m] = run[m]
         /\ RunStep(n)
<1>1. /\ run' \in [Ids -> Runs]
      /\ \A m \in Ids \ {n} : run'[m] = run[m]
      /\ run'[n].st = "running" /\ run'[n].pc = "fail" /\ Forgets(n)
  BY Leaves DEF GiveUp
<1> QED BY <1>1 DEF RunStep, Failed, At

LEMMA AdmittedRun ==
  ASSUME TypeOK, NEW n \in Ids, Admitted(n), n <= last
  PROVE  /\ run' \in [Ids -> Runs] /\ RunSteps /\ run'[n].st # "none"
         /\ \A m \in Ids \ {n} : run'[m] = run[m]
<1>1. CASE run[n].st = "none"
  <2>1. /\ run' \in [Ids -> Runs] /\ \A m \in Ids \ {n} : run'[m] = run[m]
        /\ run'[n].st = "pending" /\ run'[n].pc = run[n].pc /\ Keeps(n)
    BY <1>1 DEF Admitted, TypeOK, Runs, Keeps
  <2> QED BY <1>1, <2>1 DEF RunSteps, RunStep, Made
<1>2. CASE run[n].st # "none"
  BY <1>2 DEF Admitted, TypeOK, RunSteps, RunStep
<1> QED BY <1>1, <1>2

LEMMA Activates ==
  ASSUME IngestionInv, NEW n \in Ids, Activatable(n), Activate(n),
         UNCHANGED <<tip, purge, rebinds>>
  PROVE  repo' \in Repos /\ req' \in Requests \cup {None} /\ RowStep
           /\ (last' = last => ReqStep)
<1>1. /\ repo' \in Repos /\ repo'.bind = repo.bind
      /\ repo'.published = repo.published /\ repo'.status # "gone"
      /\ repo'.status = "unindexing" => repo.status = "unindexing"
  BY DEF Activatable, Activate, Exists, IngestionInv, TypeOK, Repos, Status
<1>2. RowStep
  BY <1>1 DEF RowStep, Activatable, Exists, IngestionInv, TypeOK, Repos
<1>3. /\ req' \in Requests /\ req'.id = n /\ req'.bind = repo.bind
      /\ req'.target = target[n]
  BY DEF Activate, Requests, IngestionInv, TypeOK, Repos
<1>4. n <= last
  BY DEF Activatable, IngestionInv, IdsGiven
<1> QED BY <1>1, <1>2, <1>3, <1>4, NoneAssumption DEF Activatable, ReqStep

\* after is 0 for a caller, who names no branch, or a run at its follow-up.
LEMMA Prepares ==
  ASSUME IngestionInv, NEW after \in Ids \cup {0}, NEW t \in Targets,
         Prepare(after, t), after = 0 => t = "null",
         after # 0 => At(after, "follow") /\ t = target[after]
  PROVE  /\ req' \in Requests /\ req' # None /\ req'.id = Prepared(after, t)
         /\ Prepared(after, t) \in 1..last' /\ last' \in 0..MaxId
         /\ last <= last' /\ target' \in [Ids -> Targets]
         /\ \A n \in Ids : n <= last => target'[n] = target[n]
         /\ after # 0 => req'.id # after
         /\ ReqStep
<1>1. /\ MaxId \in Nat /\ last \in 0..MaxId /\ target \in [Ids -> Targets]
      /\ req # None => req \in Requests /\ req.id \in 1..last
      /\ repo.bind \in Bindings
      /\ after # 0 => after \in 1..last
  BY IngestionAssumption
    DEF IngestionInv, TypeOK, IdsGiven, Requests, Ids, Repos, At
<1>2. CASE Answers(after, t)
  BY <1>1, <1>2 DEF Prepare, Prepared, Answers, ReqStep
<1>3. CASE ~Answers(after, t)
  <2>1. /\ last < MaxId /\ last' = last + 1
        /\ target' = [target EXCEPT ![last + 1] = t]
        /\ req' = [id |-> last + 1, bind |-> repo.bind, target |-> t,
                   owned |-> FALSE]
        /\ Prepared(after, t) = last + 1
    BY <1>3 DEF Prepare, Prepared
  <2>2. last + 1 \in Ids /\ last + 1 \in 0..MaxId
    BY <1>1, <2>1 DEF Ids
  <2>3. /\ req' \in Requests /\ req'.id = last + 1 /\ req'.bind = repo.bind
        /\ req'.target = t
    BY <1>1, <2>1, <2>2 DEF Requests
  <2>4. req' # None
    BY <2>3, NoneAssumption
  <2>5. /\ target' \in [Ids -> Targets] /\ target'[last + 1] = t
        /\ \A n \in Ids : n <= last => target'[n] = target[n]
    BY <1>1, <2>1, <2>2 DEF Ids
  <2>6. Replaceable(t)
    <3> SUFFICES ASSUME req # None, req.bind = repo.bind
                 PROVE  \/ /\ t = "null"
                           /\ req.target = "default" \/ ~Active(req.id)
                        \/ At(req.id, "follow") /\ t = target[req.id]
      BY DEF Replaceable
    <3>1. CASE after = 0
      <4>1. t = "null" /\ (req.target # t \/ ~Active(req.id))
        BY <1>3, <3>1 DEF Answers
      <4>2. req.target \in Targets
        BY <1>1 DEF Requests
      <4> QED BY <4>1, <4>2 DEF Targets
    <3>2. CASE after # 0
      BY <1>3, <3>2 DEF Answers
    <3> QED BY <3>1, <3>2
  <2>7. ReqStep
    BY <2>1, <2>3, <2>4, <2>5, <2>6 DEF ReqStep
  <2> QED BY <1>1, <2>1, <2>2, <2>3, <2>4, <2>5, <2>7
<1> QED BY <1>2, <1>3

-----------------------------------------------------------------------------
(* The callers *)

LEMMA PushSteps ==
  ASSUME IngestionInv, NEW p \in Producers, Push(p) \/ Ask(p)
  PROVE  Step
<1>1. /\ To(p, "prepare", 0) /\ UNCHANGED <<repo, req, ids, run, purge, rebinds>>
      /\ tip \in Nat /\ tip' \in Nat /\ tip <= tip'
  BY DEF Push, Ask, IngestionInv, TypeOK
<1>2. RowStep
  BY <1>1 DEF RowStep, IngestionInv, TypeOK, Repos, Exists
<1> QED
  BY <1>1, <1>2, OnlyTheCaller, IngestionAssumption
    DEF IngestionInv, TypeOK, ReqStep

LEMMA ProducerPrepareSteps ==
  ASSUME IngestionInv, NEW p \in Producers, ProducerPrepare(p)
  PROVE  Step
<1>1. UNCHANGED <<repo, tip, run, purge, rebinds>>
  BY DEF ProducerPrepare
<1>2. RowStep
  BY <1>1, RowStays
<1>3. CASE Prepare(0, "null") /\ To(p, "admit", Prepared(0, "null"))
  <2>1. /\ req' \in Requests /\ Prepared(0, "null") \in 1..last'
        /\ last' \in 0..MaxId /\ last <= last' /\ target' \in [Ids -> Targets]
        /\ \A n \in Ids : n <= last => target'[n] = target[n]
        /\ ReqStep
    BY <1>3, Prepares DEF Targets
  <2>2. Prepared(0, "null") \in 0..MaxId
    BY <2>1, IngestionAssumption
  <2> QED
    BY <1>1, <1>2, <1>3, <2>1, <2>2, OnlyTheCaller DEF IngestionInv, TypeOK
<1>4. CASE To(p, "idle", 0) /\ UNCHANGED <<req, ids>>
  BY <1>1, <1>2, <1>4, OnlyTheCaller, IngestionAssumption
    DEF IngestionInv, TypeOK, ReqStep
<1> QED BY <1>3, <1>4 DEF ProducerPrepare

\* A caller that admits its run, or goes on or gives up without.
LEMMA CallerAdmits ==
  ASSUME IngestionInv, NEW p \in Producers \cup Connectors,
         prod[p].pc \in {"admit", "start"}, NEW pc \in {"idle", "ack"},
         NEW id \in {0, prod[p].id}, pc = "ack" => id = prod[p].id,
         To(p, pc, id), Admitted(prod[p].id) \/ UNCHANGED run,
         UNCHANGED <<repo, tip, req, ids, purge, rebinds>>
  PROVE  Step
<1>1. prod[p].id \in 1..last /\ prod[p].id \in Ids /\ last \in 0..MaxId
  BY IngestionAssumption DEF IngestionInv, TypeOK, IdsGiven, Ids
<1>2. run' \in [Ids -> Runs] /\ RunSteps
  <2>1. CASE Admitted(prod[p].id)
    BY <1>1, <2>1, AdmittedRun, IngestionAssumption DEF IngestionInv
  <2>2. CASE UNCHANGED run
    BY <2>2 DEF IngestionInv, TypeOK, RunSteps, RunStep
  <2> QED BY <2>1, <2>2
<1>3. /\ prod' \in [Producers \cup Connectors ->
                      [pc : {"idle", "prepare", "admit", "ack", "claim",
                             "start"}, id : 0..MaxId]]
      /\ prod'[p].pc = pc /\ prod'[p].id = id
      /\ \A q \in (Producers \cup Connectors) \ {p} : prod'[q] = prod[q]
  BY <1>1, IngestionAssumption DEF To, IngestionInv, TypeOK
<1>4. TypeOK'
  BY <1>2, <1>3 DEF IngestionInv, TypeOK
<1>5. IdsStep
  BY <1>1, <1>3, IngestionAssumption
    DEF IngestionInv, TypeOK, IdsGiven, IdsStep
<1> QED BY <1>2, <1>4, <1>5, RowStays DEF Step, ReqStep

LEMMA ProducerAdmitSteps ==
  ASSUME IngestionInv, NEW p \in Producers,
         ProducerAdmit(p) \/ ProducerAdmitFails(p)
  PROVE  Step
<1>1. /\ prod[p].pc = "admit" /\ UNCHANGED <<repo, tip, req, ids, purge, rebinds>>
      /\ Admitted(prod[p].id) \/ UNCHANGED run
      /\ To(p, "ack", prod[p].id) \/ To(p, "idle", 0)
  BY DEF ProducerAdmit, ProducerAdmitFails
<1>2. CASE To(p, "ack", prod[p].id)
  BY <1>1, <1>2, CallerAdmits
<1>3. CASE To(p, "idle", 0)
  BY <1>1, <1>3, CallerAdmits
<1> QED BY <1>1, <1>2, <1>3

LEMMA ProducerAckSteps ==
  ASSUME IngestionInv, NEW p \in Producers, ProducerAck(p)
  PROVE  Step
<1>1. /\ UNCHANGED <<tip, ids, run, purge, rebinds>> /\ To(p, "idle", 0)
      /\ prod[p].id \in Ids
  BY IngestionAssumption
    DEF ProducerAck, IngestionInv, TypeOK, IdsGiven, Ids
<1>2. repo' \in Repos /\ req' \in Requests \cup {None} /\ RowStep /\ ReqStep
  <2>1. CASE Activatable(prod[p].id) /\ Activate(prod[p].id)
    BY <1>1, <2>1, Activates
  <2>2. CASE UNCHANGED <<repo, req>>
    BY <1>1, <2>2, RowStays DEF IngestionInv, TypeOK, ReqStep
  <2> QED BY <2>1, <2>2 DEF ProducerAck
<1> QED
  BY <1>1, <1>2, OnlyTheCaller, IngestionAssumption DEF IngestionInv, TypeOK

LEMMA ProducerStopsSteps ==
  ASSUME IngestionInv, NEW p \in Producers, ProducerStops(p)
  PROVE  Step
BY OnlyTheCaller, RowStays, IngestionAssumption
  DEF ProducerStops, IngestionInv, TypeOK, ReqStep

LEMMA ConnectorBeginSteps ==
  ASSUME IngestionInv, NEW c \in Connectors, ConnectorBegin(c)
  PROVE  Step
<1>1. /\ UNCHANGED <<repo, tip, req, run, purge, rebinds>>
      /\ To(c, "claim", last')
      /\ last' \in 0..MaxId /\ last' \in 1..last' /\ last <= last'
      /\ target' = [target EXCEPT ![last + 1] = "default"]
      /\ last \in Nat
  BY IngestionAssumption DEF ConnectorBegin, IngestionInv, TypeOK
<1>2. /\ target' \in [Ids -> Targets]
      /\ \A n \in Ids : n <= last => target'[n] = target[n]
  <2>1. target \in [Ids -> Targets]
    BY DEF IngestionInv, TypeOK
  <2>2. target' \in [Ids -> Targets]
    BY <1>1, <2>1 DEF Targets
  <2>3. \A n \in Ids : n <= last => n # last + 1
    BY <1>1, IngestionAssumption DEF Ids
  <2> QED BY <1>1, <2>1, <2>2, <2>3
<1>3. /\ RowStep /\ ReqStep /\ repo' \in Repos /\ tip' \in Nat
      /\ purge' \in BOOLEAN /\ req' \in Requests \cup {None}
  BY <1>1, RowStays DEF IngestionInv, TypeOK, ReqStep
<1> QED BY <1>1, <1>2, <1>3, OnlyTheCaller

LEMMA ConnectorClaimSteps ==
  ASSUME IngestionInv, NEW c \in Connectors, ConnectorClaim(c)
  PROVE  Step
<1>1. /\ UNCHANGED <<tip, req, ids, run, purge, rebinds>>
      /\ prod[c].id \in 0..MaxId /\ prod[c].id \in 1..last'
  BY DEF ConnectorClaim, IngestionInv, TypeOK, IdsGiven
<1>2. \/ repo' = repo
      \/ /\ repo.status # "gone"
         /\ repo' = [repo EXCEPT !.status = "queued", !.ready = FALSE]
  BY DEF ConnectorClaim
<1>3. repo' \in Repos /\ RowStep
  BY <1>1, <1>2, RowMarked, RowStays DEF IngestionInv, TypeOK, Status, Exists
<1>4. To(c, "idle", prod[c].id) \/ To(c, "start", prod[c].id)
  BY DEF ConnectorClaim
<1> QED
  BY <1>1, <1>3, <1>4, OnlyTheCaller, IngestionAssumption
    DEF IngestionInv, TypeOK, ReqStep

LEMMA ConnectorStartSteps ==
  ASSUME IngestionInv, NEW c \in Connectors, ConnectorStart(c)
  PROVE  Step
BY CallerAdmits DEF ConnectorStart

-----------------------------------------------------------------------------
(* The orchestrators and their children *)

LEMMA ClaimSteps ==
  ASSUME IngestionInv, NEW n \in Ids, Claim(n)
  PROVE  Step
<1>1. /\ run' \in [Ids -> Runs]
      /\ \A m \in Ids \ {n} : run'[m] = run[m]
      /\ run'[n].st = "running" /\ run'[n].pc = run[n].pc /\ Keeps(n)
  BY DEF Claim, IngestionInv, TypeOK, Runs, Keeps
<1> QED BY <1>1, OnlyTheRun DEF Claim, RunStep, Claimed

LEMMA StartRunSteps ==
  ASSUME IngestionInv, NEW n \in Ids, StartRun(n)
  PROVE  Step
<1>1. CASE Activatable(n) /\ Activate(n) /\ Goto(n, "capture")
  <2>1. /\ run' \in [Ids -> Runs]
        /\ \A m \in Ids \ {n} : run'[m] = run[m]
        /\ RunStep(n)
    BY <1>1, Goes DEF IngestionInv, StartRun, ChildPcs, RunStep, Started, At
  <2> QED BY <1>1, <2>1, Activates, TheRunAndItsRow DEF StartRun
<1>2. CASE run' = Ended(n, "failed") /\ UNCHANGED <<repo, req>>
  <2>1. /\ run' \in [Ids -> Runs]
        /\ \A m \in Ids \ {n} : run'[m] = run[m]
        /\ RunStep(n)
    BY <1>2, Ends DEF IngestionInv, StartRun, RunStep, EndedNow, At
  <2> QED BY <1>2, <2>1, OnlyTheRun DEF StartRun
<1> QED BY <1>1, <1>2 DEF StartRun

LEMMA CaptureRequestSteps ==
  ASSUME IngestionInv, NEW n \in Ids, CaptureRequest(n)
  PROVE  Step
<1>1. CASE Current(n)
  <2>1. /\ run' \in [Ids -> Runs]
        /\ \A m \in Ids \ {n} : run'[m] = run[m]
        /\ run'[n].pc = "mark"
        /\ run'[n].st = run[n].st /\ run'[n].sha = run[n].sha
        /\ run'[n].since = rebinds /\ run'[n].next = run[n].next
    <3> DEFINE r == [run[n] EXCEPT !.pc = "mark", !.since = rebinds]
    <3>1. run[n] \in Runs /\ rebinds \in Nat
      BY DEF IngestionInv, TypeOK
    <3>2. r \in Runs
      BY <3>1, RunWith DEF ChildPcs
    <3>3. /\ r.pc = "mark" /\ r.st = run[n].st /\ r.sha = run[n].sha
          /\ r.since = rebinds /\ r.next = run[n].next
      BY <3>1 DEF Runs
    <3>4. run' = [run EXCEPT ![n] = r]
      BY <1>1 DEF CaptureRequest, IngestionInv, TypeOK
    <3> HIDE DEF r
    <3> QED BY <3>2, <3>3, <3>4, Becomes DEF IngestionInv
  <2>2. RunStep(n)
    BY <1>1, <2>1 DEF CaptureRequest, At, RunStep, Captured
  <2> QED BY <2>1, <2>2, OnlyTheRun DEF CaptureRequest
<1>2. CASE ~Current(n)
  BY <1>2, GivesUp, OnlyTheRun
    DEF CaptureRequest, At, IngestionInv, ChildPcs
<1> QED BY <1>1, <1>2

LEMMA MarkRunningSteps ==
  ASSUME IngestionInv, NEW n \in Ids, MarkRunning(n)
  PROVE  Step
<1>1. /\ run' \in [Ids -> Runs]
      /\ \A m \in Ids \ {n} : run'[m] = run[m]
      /\ RunStep(n)
  BY Goes
    DEF IngestionInv, MarkRunning, ChildPcs, RunStep, Worked, At, Keeps,
        Working, Resolved
<1>2. repo' \in Repos /\ RowStep
  <2>1. CASE Writable(n) /\ repo' = [repo EXCEPT !.status = "running",
                                       !.ready = repo.published # 0]
    BY <2>1, RowMarked DEF MarkRunning, Writable, Current, Status
  <2>2. CASE repo' = repo
    BY <2>2, RowStays DEF MarkRunning, IngestionInv, TypeOK
  <2> QED BY <2>1, <2>2 DEF MarkRunning
<1> QED
  BY <1>1, <1>2, TheRunAndItsRow
    DEF MarkRunning, ReqStep, IngestionInv, TypeOK

LEMMA ResolveRefSteps ==
  ASSUME IngestionInv, NEW n \in Ids, ResolveRef(n)
  PROVE  Step
<1>1. CASE repo.status = "gone"
  <2>1. GiveUp(n)
    BY <1>1 DEF ResolveRef
  <2> QED
    BY <2>1, GivesUp, OnlyTheRun DEF ResolveRef, At, IngestionInv, ChildPcs
<1>2. CASE repo.status = "unindexing"
  <2>1. run' = Ended(n, "completed") /\ purge
    BY <1>2 DEF ResolveRef, IngestionInv, RowIsShaped
  <2> QED
    BY <2>1, Ends, OnlyTheRun
      DEF ResolveRef, IngestionInv, RunStep, EndedNow, At
<1>3. CASE repo.status \notin {"gone", "unindexing"}
  <2>1. /\ run' = [run EXCEPT ![n].pc = "index", ![n].sha = tip]
        /\ At(n, "resolve")
    BY <1>3 DEF ResolveRef
  <2>2. /\ run' \in [Ids -> Runs]
        /\ \A m \in Ids \ {n} : run'[m] = run[m]
        /\ run'[n].pc = "index" /\ run'[n].st = run[n].st
        /\ run'[n].sha = tip
        /\ run'[n].since = run[n].since /\ run'[n].next = run[n].next
    <3> DEFINE r == [run[n] EXCEPT !.pc = "index", !.sha = tip]
    <3>1. run[n] \in Runs /\ tip \in Nat
      BY DEF IngestionInv, TypeOK
    <3>2. r \in Runs
      BY <3>1, RunWith DEF ChildPcs
    <3>3. /\ r.pc = "index" /\ r.st = run[n].st /\ r.sha = tip
          /\ r.since = run[n].since /\ r.next = run[n].next
      BY <3>1 DEF Runs
    <3>4. run' = [run EXCEPT ![n] = r]
      BY <2>1 DEF IngestionInv, TypeOK
    <3> HIDE DEF r
    <3> QED BY <3>2, <3>3, <3>4, Becomes DEF IngestionInv
  <2>3. RunStep(n)
    BY <2>1, <2>2 DEF RunStep, Worked, At, Working, Resolved
  <2> QED BY <2>2, <2>3, OnlyTheRun DEF ResolveRef
<1> QED BY <1>1, <1>2, <1>3

LEMMA IndexRepositorySteps ==
  ASSUME IngestionInv, NEW n \in Ids, IndexRepository(n)
  PROVE  Step
<1>1. CASE Current(n)
  <2>1. PICK out \in {"ready", "partial", "issues"} :
          run' = [run EXCEPT ![n].pc = "wake", ![n].out = out]
    BY <1>1 DEF IndexRepository, Outcomes
  <2>2. /\ run' \in [Ids -> Runs]
        /\ \A m \in Ids \ {n} : run'[m] = run[m]
        /\ run'[n].pc = "wake" /\ run'[n].st = run[n].st /\ Keeps(n)
    <3> DEFINE r == [run[n] EXCEPT !.pc = "wake", !.out = out]
    <3>1. run[n] \in Runs
      BY DEF IngestionInv, TypeOK
    <3>2. r \in Runs
      BY <3>1, RunWith DEF ChildPcs
    <3>3. /\ r.pc = "wake" /\ r.st = run[n].st /\ r.sha = run[n].sha
          /\ r.since = run[n].since /\ r.next = run[n].next
      BY <3>1 DEF Runs
    <3>4. run' = [run EXCEPT ![n] = r]
      BY <2>1 DEF IngestionInv, TypeOK
    <3> HIDE DEF r
    <3> QED BY <3>2, <3>3, <3>4, Becomes DEF IngestionInv, Keeps
  <2>3. RunStep(n)
    BY <2>2
      DEF IndexRepository, At, RunStep, Worked, Keeps, Working, Resolved
  <2> QED BY <2>2, <2>3, OnlyTheRun DEF IndexRepository
<1>2. CASE ~Current(n)
  BY <1>2, GivesUp, OnlyTheRun
    DEF IndexRepository, At, IngestionInv, ChildPcs
<1> QED BY <1>1, <1>2

LEMMA WakeSteps ==
  ASSUME IngestionInv, NEW n \in Ids, Wake(n)
  PROVE  Step
<1>1. CASE Goto(n, "publish")
  BY <1>1, Goes, OnlyTheRun
    DEF Wake, IngestionInv, ChildPcs, RunStep, Worked, At, Keeps, Working,
        Resolved
<1>2. CASE GiveUp(n)
  BY <1>2, GivesUp, OnlyTheRun DEF Wake, At, IngestionInv, ChildPcs
<1> QED BY <1>1, <1>2 DEF Wake

LEMMA SucceedSteps ==
  ASSUME IngestionInv, NEW n \in Ids, At(n, "publish"), Succeed(n),
         UNCHANGED <<tip, purge, rebinds>>
  PROVE  repo' \in Repos /\ RowStep
<1>1. CASE repo' = repo
  BY <1>1, RowStays DEF IngestionInv, TypeOK
<1>2. CASE Writable(n) /\ run[n].out = "issues"
  BY <1>2, RowMarked DEF Succeed, Writable, Current, Status
<1>3. CASE Writable(n) /\ run[n].out # "issues"
  <2>1. /\ repo' \in Repos /\ repo'.bind = repo.bind
        /\ repo'.published = run[n].sha
        /\ repo'.status \in {"ready", "issues"}
    BY <1>3 DEF Succeed, IngestionInv, TypeOK, Repos, Status, Runs
  <2> QED
    BY <1>3, <2>1
      DEF Writable, Current, RowStep, Exists, IngestionInv, TypeOK, Repos
<1> QED BY <1>1, <1>2, <1>3 DEF Succeed

LEMMA MarkSuccessSteps ==
  ASSUME IngestionInv, NEW n \in Ids, MarkSuccess(n) \/ MarkSuccessLost(n)
  PROVE  Step
<1>1. /\ At(n, "publish") /\ Succeed(n)
      /\ UNCHANGED <<tip, req, ids, prod, purge, rebinds>>
  BY DEF MarkSuccess, MarkSuccessLost
<1>2. /\ run' \in [Ids -> Runs]
      /\ \A m \in Ids \ {n} : run'[m] = run[m]
      /\ RunStep(n)
  <2>1. CASE MarkSuccess(n)
    <3>1. /\ run' \in [Ids -> Runs]
          /\ \A m \in Ids \ {n} : run'[m] = run[m]
          /\ run'[n].pc = "follow" /\ run'[n].st = run[n].st
          /\ run'[n].since = 0 /\ run'[n].sha = run[n].sha
          /\ run'[n].next = run[n].next
      <4> DEFINE r == [run[n] EXCEPT !.pc = "follow", !.out = "none",
                                     !.since = 0]
      <4>1. run[n] \in Runs
        BY DEF IngestionInv, TypeOK
      <4>2. r \in Runs
        BY <4>1 DEF Runs, ChildPcs
      <4>3. /\ r.pc = "follow" /\ r.st = run[n].st /\ r.since = 0
            /\ r.sha = run[n].sha /\ r.next = run[n].next
        BY <4>1 DEF Runs
      <4>4. run' = [run EXCEPT ![n] = r]
        BY <2>1 DEF MarkSuccess, IngestionInv, TypeOK
      <4> HIDE DEF r
      <4> QED BY <4>2, <4>3, <4>4, Becomes DEF IngestionInv
    <3> QED BY <1>1, <3>1 DEF RunStep, Published, At
  <2>2. CASE MarkSuccessLost(n)
    BY <1>1, <2>2, Goes
      DEF MarkSuccessLost, IngestionInv, ChildPcs, RunStep, Worked, At, Keeps,
          Working, Resolved
  <2> QED BY <2>1, <2>2
<1> QED
  BY <1>1, <1>2, SucceedSteps, TheRunAndItsRow
    DEF ReqStep, IngestionInv, TypeOK

LEMMA FollowUpSteps ==
  ASSUME IngestionInv, NEW n \in Ids, FollowUp(n)
  PROVE  Step
<1>1. CASE tip = run[n].sha
  BY <1>1, Leaves, OnlyTheRun
    DEF FollowUp, IngestionInv, ChildPcs, RunStep, Collects, At
<1>2. CASE tip # run[n].sha
  <2> DEFINE id == Prepared(n, target[n])
  <2>1. /\ Prepare(n, target[n])
        /\ run' = [run EXCEPT ![n].pc = "admit", ![n].next = id]
        /\ At(n, "follow") /\ UNCHANGED <<repo, tip, prod, purge, rebinds>>
    BY <1>2 DEF FollowUp
  <2>2. target[n] \in Targets /\ n # 0
    BY IngestionAssumption DEF IngestionInv, TypeOK, Ids
  <2>3. /\ req' \in Requests /\ req' # None /\ req'.id = id
        /\ id \in 1..last' /\ last' \in 0..MaxId /\ last <= last'
        /\ target' \in [Ids -> Targets]
        /\ \A m \in Ids : m <= last => target'[m] = target[m]
        /\ req'.id # n /\ ReqStep
    BY <2>1, <2>2, Prepares
  <2> HIDE DEF id
  <2>4. /\ run' \in [Ids -> Runs]
        /\ \A m \in Ids \ {n} : run'[m] = run[m]
        /\ run'[n].pc = "admit" /\ run'[n].next = req'.id
        /\ run'[n].st = run[n].st /\ run'[n].sha = run[n].sha
        /\ run'[n].since = run[n].since
    <3> DEFINE r == [run[n] EXCEPT !.pc = "admit", !.next = id]
    <3>1. run[n] \in Runs /\ id \in Nat
      BY <2>3 DEF IngestionInv, TypeOK
    <3>2. r \in Runs
      BY <3>1, RunWith DEF ChildPcs
    <3>3. /\ r.pc = "admit" /\ r.next = id /\ r.st = run[n].st
          /\ r.sha = run[n].sha /\ r.since = run[n].since
      BY <3>1 DEF Runs
    <3>4. run' = [run EXCEPT ![n] = r]
      BY <2>1 DEF IngestionInv, TypeOK
    <3> HIDE DEF r
    <3> QED BY <2>3, <3>2, <3>3, <3>4, Becomes DEF IngestionInv
  <2>5. RunSteps
    BY <2>1, <2>3, <2>4 DEF RunSteps, RunStep, Asked, At, Prepare
  <2>6. TypeOK'
    BY <2>1, <2>3, <2>4 DEF IngestionInv, TypeOK
  <2>7. IdsStep
    BY <2>1, <2>3, IngestionAssumption
      DEF IngestionInv, TypeOK, IdsGiven, IdsStep
  <2> QED BY <2>1, <2>3, <2>5, <2>6, <2>7, RowStays DEF Step
<1> QED BY <1>1, <1>2

LEMMA FollowUpAdmitSteps ==
  ASSUME IngestionInv, NEW n \in Ids, FollowUpAdmit(n)
  PROVE  Step
<1>9. run[n].next \in Ids /\ run[n].next <= last
  BY IngestionAssumption
    DEF FollowUpAdmit, At, IngestionInv, TypeOK, IdsGiven, Runs, Ids
<1>1. PICK m \in Ids :
        /\ m = run[n].next /\ m <= last
        /\ run' = [run EXCEPT ![n].pc = "ack",
                     ![m].st = IF run[m].st = "none" THEN "pending" ELSE @]
  BY <1>9 DEF FollowUpAdmit
<1>2. At(n, "admit") /\ UNCHANGED <<repo, tip, req, ids, prod, purge, rebinds>>
  BY DEF FollowUpAdmit
<1>3. /\ run' \in [Ids -> Runs]
      /\ \A k \in Ids \ {m, n} : run'[k] = run[k]
      /\ run'[n].pc = "ack" /\ run'[n].st = run[n].st /\ Keeps(n)
      /\ run'[m].st # "none"
      /\ m # n => \/ run'[m] = run[m]
                  \/ /\ run[m].st = "none" /\ run'[m].st = "pending"
                     /\ run'[m].pc = run[m].pc /\ Keeps(m)
  BY <1>1, <1>2 DEF IngestionInv, TypeOK, Runs, ChildPcs, At, Keeps
<1>4. RunSteps
  BY <1>1, <1>2, <1>3 DEF RunSteps, RunStep, Admits, Made, At
<1>5. TypeOK'
  BY <1>2, <1>3 DEF IngestionInv, TypeOK
<1>6. IdsStep
  BY <1>2, IngestionAssumption DEF IngestionInv, TypeOK, IdsGiven, IdsStep
<1> QED BY <1>2, <1>4, <1>5, <1>6, RowStays DEF Step, ReqStep

LEMMA FollowUpAckSteps ==
  ASSUME IngestionInv, NEW n \in Ids, FollowUpAck(n)
  PROVE  Step
<1>1. At(n, "ack") /\ UNCHANGED <<tip, ids, prod, purge, rebinds>>
  BY DEF FollowUpAck
<1>2. CASE Activatable(run[n].next) /\ Activate(run[n].next)
             /\ run' = Left(n, "running", "collect")
  <2>1. run[n].next \in Ids
    BY <1>1, IngestionAssumption
      DEF At, IngestionInv, TypeOK, IdsGiven, Runs, Ids
  <2>2. /\ run' \in [Ids -> Runs]
        /\ \A m \in Ids \ {n} : run'[m] = run[m]
        /\ RunStep(n)
    BY <1>1, <1>2, Leaves DEF IngestionInv, RunStep, Collects, At
  <2> QED BY <1>1, <1>2, <2>1, <2>2, Activates, TheRunAndItsRow
<1>3. CASE GiveUp(n) /\ UNCHANGED <<repo, req>>
  BY <1>1, <1>3, GivesUp, OnlyTheRun DEF IngestionInv, ChildPcs, At
<1> QED BY <1>2, <1>3 DEF FollowUpAck

LEMMA FinishSteps ==
  ASSUME IngestionInv, NEW n \in Ids, Finish(n)
  PROVE  Step
BY Ends, OnlyTheRun DEF Finish, IngestionInv, RunStep, EndedNow, At

LEMMA StepFailsSteps ==
  ASSUME IngestionInv, NEW n \in Ids, StepFails(n)
  PROVE  Step
<1>1. /\ run[n].st = "running" /\ run[n].pc \in ChildPcs
      /\ UNCHANGED run \/ GiveUp(n)
  <2>1. ~(run[n].pc \in {"admit", "ack"} /\ Current(n))
    BY DEF IngestionInv, RequestsKeep, Current
  <2> QED BY <2>1 DEF StepFails, Resume
<1>2. CASE UNCHANGED run
  BY <1>2, OnlyTheRun DEF StepFails, IngestionInv, TypeOK, RunStep
<1>3. CASE GiveUp(n)
  BY <1>1, <1>3, GivesUp, OnlyTheRun DEF StepFails, IngestionInv
<1> QED BY <1>1, <1>2, <1>3

LEMMA MarkFailedSteps ==
  ASSUME IngestionInv, NEW n \in Ids, MarkFailed(n)
  PROVE  Step
<1>1. At(n, "fail") /\ UNCHANGED <<tip, req, ids, prod, purge, rebinds>>
  BY DEF MarkFailed
<1>2. CASE repo.status \in {"unindexing", "gone"}
  <2>1. run' = Ended(n, "completed") /\ repo' = repo /\ (purge \/ ~Exists)
    BY <1>2 DEF MarkFailed, IngestionInv, RowIsShaped, Exists
  <2> QED
    BY <1>1, <2>1, Ends, OnlyTheRun DEF IngestionInv, RunStep, EndedNow, At
<1>3. CASE repo.status \notin {"unindexing", "gone"}
  <2>1. /\ run' = Ended(n, "failed")
        /\ repo' = [repo EXCEPT !.status = "failed", !.ready = FALSE]
    BY <1>3 DEF MarkFailed
  <2>2. repo' \in Repos /\ RowStep
    BY <1>1, <1>3, <2>1, RowMarked DEF Exists, Status
  <2>3. /\ run' \in [Ids -> Runs]
        /\ \A m \in Ids \ {n} : run'[m] = run[m]
        /\ RunStep(n)
    BY <1>1, <2>1, Ends DEF IngestionInv, RunStep, EndedNow, At
  <2> QED
    BY <1>1, <2>2, <2>3, TheRunAndItsRow DEF ReqStep, IngestionInv, TypeOK
<1> QED BY <1>2, <1>3

-----------------------------------------------------------------------------
(* Rebinds and deletion, and all steps together *)

LEMMA RowOnlySteps ==
  ASSUME IngestionInv, Rebind \/ Delete \/ DeleteRow
  PROVE  Step
<1>1. /\ UNCHANGED <<tip, ids, run, prod>> /\ rebinds' \in Nat
      /\ repo' \in Repos /\ req' \in Requests \cup {None} /\ purge' \in BOOLEAN
      /\ RowStep /\ ReqStep
  <2>1. CASE Rebind
    BY <2>1
      DEF Rebind, RowStep, ReqStep, Exists, IngestionInv, TypeOK, Repos
  <2>2. CASE Delete
    <3>1. /\ repo' \in Repos /\ repo'.bind = repo.bind
          /\ repo'.published = repo.published /\ repo'.status = "unindexing"
      BY <2>2, RowWrites DEF Delete, Status
    <3> QED
      BY <2>2, <3>1
        DEF Delete, RowStep, ReqStep, Exists, IngestionInv, TypeOK, Repos
  <2>3. CASE DeleteRow
    <3>1. /\ repo' \in Repos /\ repo'.bind = repo.bind
          /\ repo'.published = repo.published /\ repo'.status = "gone"
      BY <2>3, RowWrites DEF DeleteRow, Status
    <3>2. RowStep
      BY <2>3, <3>1 DEF DeleteRow, RowStep, Exists, IngestionInv, TypeOK, Repos
    <3>3. ReqStep
      BY <2>3, <3>1 DEF DeleteRow, ReqStep, Exists
    <3> QED
      BY <2>3, <3>1, <3>2, <3>3 DEF DeleteRow, IngestionInv, TypeOK
  <2> QED BY <2>1, <2>2, <2>3
<1>2. TypeOK'
  BY <1>1 DEF IngestionInv, TypeOK
<1>3. IdsStep
  BY <1>1, IngestionAssumption DEF IngestionInv, TypeOK, IdsGiven, IdsStep
<1> QED BY <1>1, <1>2, <1>3 DEF Step, RunSteps, RunStep

LEMMA InitInv ==
  Init => IngestionInv
<1> SUFFICES ASSUME Init PROVE IngestionInv
  OBVIOUS
<1>1. TypeOK
  <2>1. repo \in Repos
    BY IngestionAssumption DEF Init, Repos, Status
  <2>2. run \in [Ids -> Runs]
    BY DEF Init, NoRun, Runs
  <2>3. prod \in [Producers \cup Connectors ->
                    [pc : {"idle", "prepare", "admit", "ack", "claim", "start"},
                     id : 0..MaxId]]
    <3>1. [pc |-> "idle", id |-> 0]
            \in [pc : {"idle", "prepare", "admit", "ack", "claim", "start"},
                id : 0..MaxId]
      BY IngestionAssumption
    <3> QED BY <3>1 DEF Init, Idle
  <2>4. /\ tip \in Nat /\ last \in 0..MaxId /\ rebinds \in Nat
        /\ target \in [Ids -> Targets]
    BY IngestionAssumption DEF Init, Targets
  <2>5. req = None /\ purge \in BOOLEAN
    BY DEF Init
  <2> QED BY <2>1, <2>2, <2>3, <2>4, <2>5 DEF TypeOK
<1> QED
  BY <1>1, IngestionAssumption
    DEF Init, IngestionInv, IdsGiven, RunsAreShaped, RowIsShaped, WorkersOwn,
        RequestsKeep, WorksAlone, ShasAhead, CompletedIsFollowed, NoRun, Idle,
        Working, Resolved, ChildPcs

LEMMA NextSteps ==
  ASSUME IngestionInv, Next
  PROVE  Step
<1>1. CASE Work
  <2>1. ASSUME NEW p \in Producers, Produce(p)
        PROVE  Step
    BY <2>1, ProducerPrepareSteps, ProducerAdmitSteps, ProducerAckSteps
      DEF Produce
  <2>2. ASSUME NEW c \in Connectors, Connect(c)
        PROVE  Step
    BY <2>2, ConnectorClaimSteps, ConnectorStartSteps DEF Connect
  <2>3. ASSUME NEW n \in Ids, Orchestrate(n)
        PROVE  Step
    BY <2>3, ClaimSteps, StartRunSteps, CaptureRequestSteps, MarkRunningSteps,
       ResolveRefSteps, IndexRepositorySteps, WakeSteps, MarkSuccessSteps,
       FollowUpSteps, FollowUpAdmitSteps, FollowUpAckSteps, FinishSteps,
       MarkFailedSteps
      DEF Orchestrate
  <2> QED BY <1>1, <2>1, <2>2, <2>3, RowOnlySteps DEF Work
<1>2. CASE Disturbance
  BY <1>2, PushSteps, ProducerAdmitSteps, ProducerStopsSteps,
     ConnectorBeginSteps, StepFailsSteps, MarkSuccessSteps, RowOnlySteps
    DEF Disturbance
<1> QED BY <1>1, <1>2 DEF Next

LEMMA NextInv ==
  IngestionInv /\ [Next]_vars => IngestionInv'
<1> SUFFICES ASSUME IngestionInv, [Next]_vars
             PROVE  IngestionInv'
  OBVIOUS
<1>1. CASE Next
  BY <1>1, NextSteps, StepKeepsInv
<1>2. CASE UNCHANGED vars
  BY <1>2
    DEF vars, IngestionInv, TypeOK, IdsGiven, RunsAreShaped, RowIsShaped,
        WorkersOwn, RequestsKeep, WorksAlone, ShasAhead, CompletedIsFollowed,
        Exists
<1> QED BY <1>1, <1>2

LEMMA AlwaysInv ==
  Spec => []IngestionInv
BY InitInv, NextInv, PTL DEF Spec

-----------------------------------------------------------------------------
(* Theorems *)

\* The row, the request, the runs and their callers keep to their types, and
\* no more requests and runs are numbered than there is room for.
THEOREM IngestionTypes ==
  Spec => []TypeOK
<1>1. IngestionInv => TypeOK
  BY DEF IngestionInv
<1> QED BY <1>1, AlwaysInv, PTL

\* However requests, follow-ups, connector syncs, rebinds and restarts meet,
\* no two runs for the same target branch index the repository at the same
\* time, unless it was rebound after the first of them had begun.
THEOREM IndexingIsAlone ==
  Spec => []IndexesAlone
<1>1. IngestionInv => IndexesAlone
  BY DEF IngestionInv, WorksAlone, IndexesAlone, Working, At
<1> QED BY <1>1, AlwaysInv, PTL

\* A run that completed after it saw a newer head has left a run for it.
THEOREM CompletedRunsAreFollowed ==
  Spec => []CompletedIsFollowed
<1>1. IngestionInv => CompletedIsFollowed
  BY DEF IngestionInv
<1> QED BY <1>1, AlwaysInv, PTL

\* What is published never goes back to an older commit: the run that writes
\* owns the request, which it has owned since it resolved what it publishes.
THEOREM PublishingAdvances ==
  Spec => PublishedAdvances
<1>1. ASSUME IngestionInv, Next
      PROVE  repo'.published >= repo.published
  <2>1. Step /\ repo.published \in Nat
    BY <1>1, NextSteps DEF IngestionInv, TypeOK, Repos
  <2>2. ASSUME NEW n \in Ids, At(n, "publish"), Writable(n)
        PROVE  repo.published <= run[n].sha
    <3>1. Exists /\ req # None /\ req.id = n
      BY <2>2 DEF Writable, Current
    <3> QED
      BY <1>1, <2>2, <3>1 DEF IngestionInv, ShasAhead, At, Resolved
  <2>3. \A n \in Ids : run[n].sha \in Nat
    BY <1>1 DEF IngestionInv, TypeOK, Runs
  <2> QED BY <2>1, <2>2, <2>3 DEF Step, RowStep
<1>2. IngestionInv /\ [Next]_vars => [repo'.published >= repo.published]_vars
  BY <1>1
<1> QED BY <1>2, AlwaysInv, PTL DEF Spec, PublishedAdvances

\* A run that is superseded writes nothing to the row but its own failure, or
\* what the run that superseded it is activated with.
THEOREM SupersededRunsLeaveTheRow ==
  Spec => SupersededLeavesRow
<1> DEFINE Superseded(n) ==
             ~At(n, "fail") /\ run'[n] # run[n] /\ req # None /\ req.id # n
<1>1. ASSUME IngestionInv, Next, NEW n \in Ids, Superseded(n)
      PROVE  repo' = repo \/ run[n].next = req.id
  <2> SUFFICES ASSUME repo' # repo
               PROVE  run[n].next = req.id
    OBVIOUS
  <2>1. ASSUME NEW m \in Ids, StartRun(m) \/ MarkRunning(m) \/ MarkSuccess(m)
                 \/ MarkSuccessLost(m) \/ FollowUpAck(m) \/ MarkFailed(m)
        PROVE  run[n].next = req.id
    <3>1. m = n
      BY <1>1, <2>1
        DEF StartRun, MarkRunning, MarkSuccess, MarkSuccessLost, FollowUpAck,
            MarkFailed, Goto, Ended, Left, GiveUp, IngestionInv, TypeOK
    <3>2. ~MarkFailed(n) /\ ~StartRun(n)
      BY <1>1 DEF MarkFailed, StartRun, Activatable
    <3>3. ~MarkRunning(n) /\ ~MarkSuccess(n) /\ ~MarkSuccessLost(n)
      BY <1>1
        DEF MarkRunning, MarkSuccess, MarkSuccessLost, Succeed, Writable,
            Current
    <3> QED BY <1>1, <2>1, <3>1, <3>2, <3>3 DEF FollowUpAck, Activatable
  <2>2. run' # run
    BY <1>1
  <2> QED
    BY <1>1, <2>1, <2>2
      DEF Next, Work, Disturbance, Produce, Connect, Orchestrate, Push, Ask,
          ProducerPrepare, ProducerAdmit, ProducerAdmitFails, ProducerAck,
          ProducerStops, ConnectorBegin, ConnectorClaim, ConnectorStart,
          Claim, CaptureRequest, ResolveRef, IndexRepository, Wake, FollowUp,
          FollowUpAdmit, Finish, StepFails, Rebind, Delete, DeleteRow
<1>2. IngestionInv /\ [Next]_vars
        => [\A n \in Ids :
              ~At(n, "fail") /\ run'[n] # run[n] /\ req # None /\ req.id # n
                => repo' = repo \/ run[n].next = req.id]_vars
  BY <1>1
<1> QED BY <1>2, AlwaysInv, PTL DEF Spec, SupersededLeavesRow

=============================================================================
