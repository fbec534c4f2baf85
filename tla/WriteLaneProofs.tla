-------------------------- MODULE WriteLaneProofs --------------------------
(***************************************************************************)
(* Proofs about the write lane, for any number of jobs, executors,         *)
(* repositories, admitters, attempts and rounds.                           *)
(*                                                                         *)
(* The inductive invariant Inv does not rely on leases being exclusive: an *)
(* executor that lost its lease may still run its next step.  What saves a *)
(* file edit is that its step history only ever leaves the fork after      *)
(* "plan" in one direction: once a candidate is made, or once the no-op is *)
(* confirmed on the tip, no later step leads to the other side.            *)
(*                                                                         *)
(* The last sections assume that leases are exclusive: no two executors    *)
(* are inside one run.  Then what a job published, its row and its hydrate *)
(* follow from the step history of the one run that does its work          *)
(* (LaneInv).  The steps that are not a workflow body's keep it here; the  *)
(* bodies, and the theorems, are in JobLedgerProofs.                       *)
(***************************************************************************)
EXTENDS WriteLane, TLAPS

-----------------------------------------------------------------------------
(* The inductive invariant *)

\* The steps of a file edit that follow the commit step, with it.
CommitSide == {"commit", "push", "pausePush", "resumePush", "capture", "spawn",
               "child", "merged", "publish", "hydrate", "complete"}

\* The steps that use the candidate, and those that follow its publication.
Prepared == {"push", "pausePush", "resumePush", "capture", "publish", "hydrate",
             "complete"}
Pushed == {"publish", "hydrate", "complete"}

FileEdit(w) == w.kind = "ui_file_edit"

PublishedIn(lg, u) == {lg[u][p].commit : p \in DOMAIN lg[u]}

\* The step history d of run r fits the row w of its job and the branches lg.
Sound(lg, r, d, w) ==
  /\ d \in Durable
  /\ w.rev \in Revisions /\ d.rev.url = w.rev.url
  /\ d.handoff # None => d.handoff.rev.url = w.rev.url
  /\ d.pc # "claim" => w.owner
  /\ d.pc = "spawn" => d.handoff \in Handoffs
  /\ d.pc \in Prepared => d.cand \in Commits
  /\ d.pc \in Pushed => d.cand \in PublishedIn(lg, d.rev.url)
  /\ r[2] = "child" => d.pc # "noop"
  /\ FileEdit(w) /\ (d.pc = "merged" \/ d.st = "completed") /\ d.res # None
       => d.res \in PublishedIn(lg, d.rev.url)

\* The root run of job j exists and went past the commit step.
Committing(j) ==
  run[<<j, "root">>].d # None /\ run[<<j, "root">>].d.pc \in CommitSide

\* Row w of job j.
RowOK(lg, j, w) ==
  /\ w.status = "none" => w = NoRow
  /\ w.status # "none" => w.rev \in Revisions
  /\ w.status = "completed" => w.owner
  /\ w.handoff # None => w.handoff.rev.url = w.rev.url
  /\ FileEdit(w) /\ w.commit # None =>
       /\ Committing(j)
       /\ w.status = "completed" => w.commit \in PublishedIn(lg, w.rev.url)

RunOK(r) ==
  run[r].d # None =>
    /\ row[r[1]].status # "none"
    /\ Sound(log, r, run[r].d, row[r[1]])
    /\ r[2] = "child" /\ FileEdit(row[r[1]]) => Committing(r[1])

\* A step of a file edit that follows one at pc stays on the side of pc.
SameSide(pc, next) ==
  /\ pc \in CommitSide => next \in CommitSide
  /\ pc = "noop" => next = "noop"

ExecOK(e) ==
  exec[e].ph # "idle" =>
    LET r == exec[e].on
    IN /\ r \in Runs
       /\ run[r].d # None
       /\ Sound(log, r, exec[e].d, row[r[1]])
       /\ exec[e].ph \in {"recheck", "send"} => exec[e].d.pc = "push"
       /\ r[2] = "root" /\ FileEdit(row[r[1]]) =>
            /\ exec[e].ph # "record" => SameSide(exec[e].d.pc, run[r].d.pc)
            /\ run[r].lease = e => SameSide(run[r].d.pc, exec[e].d.pc)

AdmOK(a) ==
  adm[a].pc # "idle" => adm[a].job \in Jobs /\ row[adm[a].job].status # "none"

LogOK == \A u \in Urls : Len(log[u]) > 0

Inv ==
  /\ TypeOK
  /\ LogOK
  /\ \A j \in Jobs : RowOK(log, j, row[j])
  /\ \A r \in Runs : RunOK(r)
  /\ \A e \in Execs : ExecOK(e)
  /\ \A a \in Admitters : AdmOK(a)

-----------------------------------------------------------------------------
(* Branches only grow *)

\* What one step does to a branch: nothing, or one more commit.
LEMMA AppendEntry ==
  ASSUME TypeOK, NEW u \in Urls, NEW x \in Entries,
         log' = [log EXCEPT ![u] = Append(@, x)]
  PROVE  /\ log' \in [Urls -> Seq(Entries)]
         /\ \A v \in Urls : Len(log'[v]) >= Len(log[v])
         /\ \A v \in Urls : PublishedIn(log, v) \subseteq PublishedIn(log', v)
         /\ x.commit \in PublishedIn(log', u)
  <1>1. /\ log[u] \in Seq(Entries)
        /\ log'[u] = Append(log[u], x)
        /\ \A v \in Urls : v # u => log'[v] = log[v]
    BY DEF TypeOK
  <1>2. /\ log'[u] \in Seq(Entries)
        /\ DOMAIN log[u] = 1..Len(log[u])
        /\ DOMAIN log'[u] = 1..(Len(log[u]) + 1)
        /\ Len(log'[u]) = Len(log[u]) + 1
        /\ \A p \in 1..Len(log[u]) : log'[u][p] = log[u][p]
        /\ log'[u][Len(log[u]) + 1] = x
        /\ Len(log[u]) \in Nat
    BY <1>1
  <1>3. log' \in [Urls -> Seq(Entries)]
    BY <1>2 DEF TypeOK
  <1>4. PublishedIn(log, u) \subseteq PublishedIn(log', u)
    BY <1>2 DEF PublishedIn
  <1>5. \A v \in Urls : /\ Len(log'[v]) >= Len(log[v])
                        /\ PublishedIn(log, v) \subseteq PublishedIn(log', v)
    <2> TAKE v \in Urls
    <2>1. Len(log[v]) \in Nat
      BY DEF TypeOK
    <2>2. CASE v = u
      <3>1. Len(log'[v]) >= Len(log[v])
        BY <2>2, <1>2
      <3>2. PublishedIn(log, v) \subseteq PublishedIn(log', v)
        BY <2>2, <1>4
      <3> QED BY <3>1, <3>2
    <2>3. CASE v # u
      BY <2>1, <2>3, <1>1 DEF PublishedIn
    <2> QED BY <2>2, <2>3
  <1>6. x.commit \in PublishedIn(log', u)
    BY <1>2 DEF PublishedIn
  <1> QED BY <1>3, <1>5, <1>6

\* How the branches may change under the invariant.
Grown ==
  /\ log' \in [Urls -> Seq(Entries)]
  /\ \A v \in Urls : Len(log'[v]) >= Len(log[v])
  /\ \A v \in Urls : PublishedIn(log, v) \subseteq PublishedIn(log', v)

\* What fits the branches still fits them when they have grown.
LEMMA SoundGrows ==
  ASSUME Grown, NEW r, NEW d, NEW w, Sound(log, r, d, w)
  PROVE  Sound(log', r, d, w)
  <1>1. d.rev.url \in Urls
    BY DEF Sound, Revisions
  <1> QED BY <1>1 DEF Grown, Sound

\* A tip and a containment lookup point into the branch.
LEMMA LookupPublished ==
  ASSUME TypeOK, LogOK, NEW u \in Urls, NEW c
  PROVE  /\ Contains(u, c) => c \in PublishedIn(log, u)
         /\ TipIs(u, c) => c \in PublishedIn(log, u)
         /\ Tip(u) \in Nat \ {0}
         /\ log[u][Tip(u)] \in Entries
  <1>1. /\ log[u] \in Seq(Entries) /\ Len(log[u]) \in Nat \ {0}
        /\ DOMAIN log[u] = 1..Len(log[u])
        /\ Len(log[u]) \in DOMAIN log[u]
    BY DEF TypeOK, LogOK
  <1>2. log[u][Len(log[u])] \in Entries
    BY <1>1
  <1> QED BY <1>1, <1>2 DEF Contains, TipIs, Tip, PublishedIn

-----------------------------------------------------------------------------
(* What a step that leaves a part alone does to the invariant of that part *)

\* A row that exists keeps its identity, and stays owned.
Kept ==
  \A j \in Jobs : row[j].status # "none" =>
    /\ row'[j].status # "none"
    /\ row'[j].kind = row[j].kind /\ row'[j].rev = row[j].rev
    /\ row[j].owner => row'[j].owner

\* The histories that exist stay, and no lease goes to one of the executors E.
Undisturbed(E) ==
  \A r \in Runs : run[r].d # None =>
    /\ run'[r].d = run[r].d
    /\ \A e \in E : run'[r].lease = e => run[r].lease = e

LEMMA SoundKept ==
  ASSUME NEW lg, NEW r, NEW d, NEW w, NEW x, Sound(lg, r, d, w),
         x.kind = w.kind, x.rev = w.rev, w.owner => x.owner
  PROVE  Sound(lg, r, d, x)
  BY DEF Sound, FileEdit

LEMMA CommittingKept ==
  ASSUME Undisturbed({}), NEW j \in Jobs, Committing(j)
  PROVE  Committing(j)'
  BY DEF Undisturbed, Committing, Runs, Roles

LEMMA RowKept ==
  ASSUME TypeOK, Grown, Undisturbed({}), NEW j \in Jobs, RowOK(log, j, row[j]),
         row'[j] = row[j]
  PROVE  RowOK(log, j, row[j])'
  <1>1. row[j].status = "completed" => row[j].rev.url \in Urls
    BY DEF RowOK, Revisions
  <1>2. Committing(j) => Committing(j)'
    BY CommittingKept
  <1> QED BY <1>1, <1>2 DEF RowOK, Grown, FileEdit

LEMMA RunKept ==
  ASSUME Inv, Grown, Kept, Undisturbed({}), NEW r \in Runs, run[r].d # None
  PROVE  RunOK(r)'
  <1>1. /\ RunOK(r) /\ r[1] \in Jobs
        /\ run'[r].d = run[r].d
    BY DEF Inv, Undisturbed, Runs
  <1>2. Sound(log', r, run[r].d, row[r[1]])
    BY <1>1, SoundGrows DEF RunOK
  <1>3. Sound(log', r, run[r].d, row'[r[1]])
    BY <1>1, <1>2, SoundKept DEF RunOK, Kept
  <1>4. Committing(r[1]) => Committing(r[1])'
    BY <1>1, CommittingKept
  <1> QED BY <1>1, <1>3, <1>4 DEF RunOK, Kept, FileEdit

LEMMA ExecKept ==
  ASSUME Inv, Grown, Kept, NEW e \in Execs, Undisturbed({e}), exec'[e] = exec[e]
  PROVE  ExecOK(e)'
  <1> SUFFICES ASSUME exec[e].ph # "idle"
               PROVE  ExecOK(e)'
    BY DEF ExecOK
  <1> DEFINE r == exec[e].on
  <1>1. /\ ExecOK(e) /\ RunOK(r) /\ r \in Runs /\ r[1] \in Jobs
        /\ run[r].d # None
        /\ run'[r].d = run[r].d
        /\ run'[r].lease = e => run[r].lease = e
    BY DEF Inv, ExecOK, Undisturbed, Runs
  <1>2. Sound(log', r, exec[e].d, row[r[1]])
    BY <1>1, SoundGrows DEF ExecOK
  <1>3. Sound(log', r, exec[e].d, row'[r[1]])
    BY <1>1, <1>2, SoundKept DEF RunOK, Kept
  <1> QED BY <1>1, <1>3 DEF ExecOK, RunOK, Kept, FileEdit

LEMMA AdmKept ==
  ASSUME Inv, Kept, NEW a \in Admitters, adm'[a] = adm[a]
  PROVE  AdmOK(a)'
  BY DEF Inv, AdmOK, Kept

-----------------------------------------------------------------------------
(* One step of a workflow body *)

\* The job, the run and the history that an executor is busy with.
LEMMA Busy ==
  ASSUME Inv, NEW e \in Execs, exec[e].ph # "idle"
  PROVE  /\ exec[e].on \in Runs /\ JobOf(e) \in Jobs
         /\ exec[e] \in ExecRecs /\ exec[e].d \in Durable
         /\ row[JobOf(e)] \in Rows /\ row[JobOf(e)].status # "none"
         /\ row[JobOf(e)].rev \in Revisions
         /\ RowOK(log, JobOf(e), row[JobOf(e)])
         /\ run[exec[e].on].d # None
         /\ RunOK(exec[e].on)
         /\ Sound(log, exec[e].on, exec[e].d, row[JobOf(e)])
         /\ exec[e].d.rev \in Revisions
         /\ exec[e].d.rev.url \in Urls
  <1>1. /\ ExecOK(e) /\ exec[e].on \in Runs /\ RunOK(exec[e].on)
        /\ exec[e] \in ExecRecs
    BY DEF Inv, TypeOK, ExecOK
  <1>2. JobOf(e) \in Jobs /\ row[JobOf(e)].status # "none"
    BY <1>1 DEF Runs, JobOf, RunOK, ExecOK
  <1>3. row[JobOf(e)] \in Rows /\ RowOK(log, JobOf(e), row[JobOf(e)])
    BY <1>2 DEF Inv, TypeOK
  <1>4. exec[e].d \in Durable /\ Sound(log, exec[e].on, exec[e].d, row[JobOf(e)])
    BY <1>1 DEF ExecOK, Sound, JobOf
  <1>5. exec[e].d.rev \in Revisions /\ exec[e].d.rev.url \in Urls
    BY <1>4 DEF Durable, Revisions
  <1> QED BY <1>1, <1>2, <1>3, <1>4, <1>5 DEF RowOK, ExecOK

\* A step of executor e that returns d and leaves w in the row of its job.
LEMMA BodyStep ==
  ASSUME Inv, NEW e \in Execs, exec[e].ph # "idle",
         NEW d, Returns(e, d),
         NEW w \in Rows, row' = [row EXCEPT ![JobOf(e)] = w],
         w.kind = row[JobOf(e)].kind, w.rev = row[JobOf(e)].rev,
         w.status # "none", row[JobOf(e)].owner => w.owner,
         RowOK(log', JobOf(e), w),
         Sound(log', exec[e].on, d, w),
         exec[e].on[2] = "root" /\ FileEdit(w) => SameSide(exec[e].d.pc, d.pc),
         Grown, UNCHANGED <<allowed, run, adm>>,
         ws' \in [gen : Nat, url : Urls, desired : Nat, writable : BOOLEAN],
         hyd' \in [Jobs -> Nat]
  PROVE  Inv'
  <1> DEFINE r == exec[e].on
             j == JobOf(e)
  <1>1. /\ r \in Runs /\ j \in Jobs /\ j = r[1]
        /\ exec[e] \in ExecRecs /\ TypeOK /\ ExecOK(e)
        /\ row[j] \in Rows /\ run[r].d # None
    BY Busy DEF Inv, JobOf
  <1>2. Kept /\ Undisturbed({}) /\ \A f \in Execs : Undisturbed({f})
    BY <1>1 DEF Kept, Undisturbed, TypeOK
  <1>3. /\ exec'[e].ph = "record" /\ exec'[e].d = d /\ exec'[e].on = r
        /\ exec'[e] \in ExecRecs
        /\ \A f \in Execs : f # e => exec'[f] = exec[f]
    BY <1>1 DEF Returns, TypeOK, ExecRecs, Sound, Phases
  <1>4. TypeOK'
    <2>1. exec' \in [Execs -> ExecRecs]
      BY <1>3 DEF TypeOK, Inv, Returns
    <2>2. row' \in [Jobs -> Rows]
      BY <1>1 DEF TypeOK
    <2> QED BY <1>1, <2>1, <2>2 DEF TypeOK, Grown
  <1>5. LogOK'
    <2> SUFFICES ASSUME NEW u \in Urls PROVE Len(log'[u]) > 0
      BY DEF LogOK
    <2>1. Len(log[u]) \in Nat /\ Len(log'[u]) \in Nat /\ Len(log[u]) > 0
      BY DEF Inv, TypeOK, LogOK, Grown
    <2> QED BY <2>1 DEF Grown
  <1>6. \A i \in Jobs : RowOK(log, i, row[i])'
    <2> TAKE i \in Jobs
    <2>1. CASE i = j
      <3>1. row'[i] = w
        BY <2>1, <1>1 DEF TypeOK
      <3>2. Committing(i) => Committing(i)'
        BY <1>2, CommittingKept
      <3>3. RowOK(log', i, w)
        BY <2>1
      <3> QED BY <3>1, <3>2, <3>3 DEF RowOK
    <2>2. CASE i # j
      <3>1. row'[i] = row[i]
        BY <2>2, <1>1 DEF TypeOK
      <3> QED BY <3>1, <1>2, RowKept DEF Inv
    <2> QED BY <2>1, <2>2
  <1>7. \A s \in Runs : RunOK(s)'
    <2> TAKE s \in Runs
    <2>1. CASE run[s].d = None
      BY <2>1 DEF RunOK
    <2>2. CASE run[s].d # None
      BY <2>2, <1>2, RunKept
    <2> QED BY <2>1, <2>2
  <1>8. \A f \in Execs : ExecOK(f)'
    <2> TAKE f \in Execs
    <2>1. CASE f = e
      <3>1. row'[j] = w
        BY <1>1 DEF TypeOK
      <3>2. r[2] = "root" /\ FileEdit(w) /\ run[r].lease = e
              => SameSide(run[r].d.pc, d.pc)
        BY <1>1 DEF ExecOK, SameSide, FileEdit
      <3> QED BY <2>1, <3>1, <3>2, <1>1, <1>3 DEF ExecOK
    <2>2. CASE f # e
      BY <2>2, <1>2, <1>3, ExecKept
    <2> QED BY <2>1, <2>2
  <1>9. \A a \in Admitters : AdmOK(a)'
    BY <1>2, AdmKept
  <1> QED BY <1>4, <1>5, <1>6, <1>7, <1>8, <1>9 DEF Inv

\* The same for a step that leaves the row alone.
LEMMA QuietStep ==
  ASSUME Inv, NEW e \in Execs, exec[e].ph # "idle",
         NEW d, Returns(e, d),
         Sound(log, exec[e].on, d, row[JobOf(e)]),
         exec[e].on[2] = "root" /\ FileEdit(row[JobOf(e)])
           => SameSide(exec[e].d.pc, d.pc),
         UNCHANGED <<allowed, log, row, run, adm>>,
         ws' \in [gen : Nat, url : Urls, desired : Nat, writable : BOOLEAN],
         hyd' \in [Jobs -> Nat]
  PROVE  Inv'
  <1> DEFINE w == row[JobOf(e)]
  <1>1. /\ w \in Rows /\ w.status # "none" /\ RowOK(log, JobOf(e), w)
        /\ JobOf(e) \in Jobs
    BY Busy
  <1>2. row' = [row EXCEPT ![JobOf(e)] = w]
    BY <1>1 DEF Inv, TypeOK
  <1>3. Grown
    BY <1>1 DEF Grown, Inv, TypeOK
  <1> HIDE DEF w
  <1>4. /\ RowOK(log', JobOf(e), w)
        /\ Sound(log', exec[e].on, d, w)
        /\ w.kind = row[JobOf(e)].kind /\ w.rev = row[JobOf(e)].rev
        /\ row[JobOf(e)].owner => w.owner
        /\ exec[e].on[2] = "root" /\ FileEdit(w) => SameSide(exec[e].d.pc, d.pc)
    BY <1>1 DEF w
  <1> QED BY <1>1, <1>2, <1>3, <1>4, BodyStep

\* The history that moves on to step pc.
LEMMA SoundGoto ==
  ASSUME NEW lg, NEW r, NEW d, NEW w, Sound(lg, r, d, w), NEW pc \in Steps,
         w.owner, pc \notin {"spawn", "merged"},
         pc \in Prepared => d.cand \in Commits,
         pc \in Pushed => d.cand \in PublishedIn(lg, d.rev.url),
         r[2] = "child" => pc # "noop"
  PROVE  Sound(lg, r, [d EXCEPT !.pc = pc, !.tries = 0], w)
  <1> DEFINE x == [d EXCEPT !.pc = pc, !.tries = 0]
  <1>1. /\ x \in Durable /\ x.pc = pc /\ x.st = d.st /\ x.rev = d.rev
        /\ x.handoff = d.handoff /\ x.cand = d.cand /\ x.res = d.res
    BY DEF Sound, Durable
  <1> HIDE DEF x
  <1>2. Sound(lg, r, x, w)
    BY <1>1 DEF Sound
  <1> QED BY <1>2 DEF x

\* The history of a step that throws, and of a run that fails or completes.
LEMMA SoundEnds ==
  ASSUME NEW lg, NEW r, NEW d, NEW w, Sound(lg, r, d, w)
  PROVE  /\ Sound(lg, r, [d EXCEPT !.tries = @ + 1], w)
         /\ Sound(lg, r, [d EXCEPT !.st = "failed"], w)
         /\ \A c \in Commits \cup {None} :
              (FileEdit(w) /\ c # None => c \in PublishedIn(lg, d.rev.url))
                => Sound(lg, r, [d EXCEPT !.st = "completed", !.res = c], w)
  <1>1. [d EXCEPT !.tries = @ + 1] \in Durable
    BY DEF Sound, Durable
  <1>2. [d EXCEPT !.st = "failed"] \in Durable
    BY DEF Sound, Durable
  <1>3. ASSUME NEW c \in Commits \cup {None}
        PROVE  [d EXCEPT !.st = "completed", !.res = c] \in Durable
    BY DEF Sound, Durable
  <1>4. Sound(lg, r, [d EXCEPT !.tries = @ + 1], w)
    BY <1>1 DEF Sound, Durable
  <1>5. Sound(lg, r, [d EXCEPT !.st = "failed"], w)
    BY <1>2 DEF Sound, Durable
  <1>6. ASSUME NEW c \in Commits \cup {None},
               FileEdit(w) /\ c # None => c \in PublishedIn(lg, d.rev.url)
        PROVE  Sound(lg, r, [d EXCEPT !.st = "completed", !.res = c], w)
    BY <1>3, <1>6 DEF Sound, Durable
  <1> QED BY <1>4, <1>5, <1>6

\* Quiet steps that throw, that give up, and that go to step pc.
LEMMA ThrowStep ==
  ASSUME Inv, NEW e \in Execs, exec[e].ph # "idle", Throws(e) \/ Fails(e),
         UNCHANGED <<allowed, log, row, run, adm>>,
         ws' \in [gen : Nat, url : Urls, desired : Nat, writable : BOOLEAN],
         hyd' \in [Jobs -> Nat]
  PROVE  Inv'
  <1> DEFINE d == exec[e].d
             x == [d EXCEPT !.tries = @ + 1]
             y == [d EXCEPT !.st = "failed"]
  <1>1. /\ Sound(log, exec[e].on, x, row[JobOf(e)])
        /\ Sound(log, exec[e].on, y, row[JobOf(e)])
        /\ d \in Durable
    BY Busy, SoundEnds
  <1>2. SameSide(d.pc, x.pc) /\ SameSide(d.pc, y.pc)
    BY <1>1 DEF SameSide, Durable
  <1>3. Returns(e, x) \/ Returns(e, y)
    BY DEF Throws, Fails
  <1> HIDE DEF x, y
  <1>4. ASSUME NEW z \in {x, y}, Returns(e, z)
        PROVE  Inv'
    <2>1. Sound(log, exec[e].on, z, row[JobOf(e)]) /\ SameSide(d.pc, z.pc)
      BY <1>1, <1>2
    <2> QED BY <2>1, <1>4, QuietStep
  <1> QED BY <1>3, <1>4

LEMMA GotoStep ==
  ASSUME Inv, NEW e \in Execs, exec[e].ph # "idle", NEW pc \in Steps, Goto(e, pc),
         exec[e].d.pc # "claim", pc \notin {"spawn", "merged"},
         pc \in Prepared => exec[e].d.cand \in Commits,
         pc \in Pushed => exec[e].d.cand \in PublishedIn(log, exec[e].d.rev.url),
         exec[e].on[2] = "child" => pc # "noop",
         exec[e].on[2] = "root" /\ FileEdit(row[JobOf(e)])
           => SameSide(exec[e].d.pc, pc),
         UNCHANGED <<allowed, log, row, run, adm>>,
         ws' \in [gen : Nat, url : Urls, desired : Nat, writable : BOOLEAN],
         hyd' \in [Jobs -> Nat]
  PROVE  Inv'
  <1> DEFINE x == [exec[e].d EXCEPT !.pc = pc, !.tries = 0]
  <1>1. /\ Sound(log, exec[e].on, exec[e].d, row[JobOf(e)])
        /\ row[JobOf(e)].owner /\ exec[e].d \in Durable
    BY Busy DEF Sound
  <1>2. Sound(log, exec[e].on, x, row[JobOf(e)])
    BY <1>1, SoundGoto
  <1>3. x.pc = pc
    BY <1>1 DEF Durable
  <1>4. Returns(e, x)
    BY DEF Goto
  <1> HIDE DEF x
  <1> QED BY <1>2, <1>3, <1>4, QuietStep

\* A step that goes on to its next read without a result.
LEMMA PhaseStep ==
  ASSUME Inv, NEW e \in Execs, exec[e].ph \in {"enter", "do", "recheck"},
         NEW ph \in {"do", "recheck", "send"}, exec' = [exec EXCEPT ![e].ph = ph],
         ph # "do" => exec[e].d.pc = "push",
         UNCHANGED <<ws, allowed, log, row, run, adm, hyd>>
  PROVE  Inv'
  <1>1. /\ exec' \in [Execs -> ExecRecs]
        /\ exec'[e].ph = ph /\ exec'[e].on = exec[e].on /\ exec'[e].d = exec[e].d
        /\ \A f \in Execs : f # e => exec'[f] = exec[f]
    BY DEF Inv, TypeOK, ExecRecs, Phases
  <1>2. Grown /\ Kept /\ Undisturbed({}) /\ \A f \in Execs : Undisturbed({f})
    BY DEF Grown, Kept, Undisturbed, Inv, TypeOK
  <1>3. TypeOK' /\ LogOK'
    BY <1>1 DEF Inv, TypeOK, LogOK
  <1>4. \A j \in Jobs : RowOK(log, j, row[j])'
    BY <1>2, RowKept DEF Inv
  <1>5. \A r \in Runs : RunOK(r)'
    BY <1>2, RunKept DEF RunOK
  <1>6. \A f \in Execs : ExecOK(f)'
    <2> TAKE f \in Execs
    <2>1. CASE f = e
      BY <2>1, <1>1 DEF Inv, ExecOK
    <2>2. CASE f # e
      BY <2>2, <1>1, <1>2, ExecKept
    <2> QED BY <2>1, <2>2
  <1>7. \A a \in Admitters : AdmOK(a)'
    BY <1>2, AdmKept
  <1> QED BY <1>3, <1>4, <1>5, <1>6, <1>7 DEF Inv

-----------------------------------------------------------------------------
(* The steps of the bodies, one by one *)

\* Revisions and tips have their types.
LEMMA Captured ==
  ASSUME Inv, NEW e \in Execs, exec[e].ph # "idle"
  PROVE  /\ [ws EXCEPT !.desired = Tip(ws.url)]
              \in [gen : Nat, url : Urls, desired : Nat, writable : BOOLEAN]
         /\ [ws EXCEPT !.writable = FALSE]
              \in [gen : Nat, url : Urls, desired : Nat, writable : BOOLEAN]
         /\ ws \in [gen : Nat, url : Urls, desired : Nat, writable : BOOLEAN]
         /\ hyd \in [Jobs -> Nat]
         /\ Tip(exec[e].d.rev.url) \in Nat
  <1>1. Tip(ws.url) \in Nat /\ Tip(exec[e].d.rev.url) \in Nat
    BY Busy, LookupPublished DEF Inv, TypeOK
  <1> QED BY <1>1 DEF Inv, TypeOK

LEMMA AcquireStep ==
  ASSUME Inv, NEW e \in Execs, Acquire(e)
  PROVE  Inv'
  <1>1. /\ exec[e].ph = "do" /\ exec[e].d.pc = "acquire"
        /\ UNCHANGED <<ws, allowed, log, row, run, adm, hyd>>
        /\ Throws(e) \/ \E pc \in {"plan", "pause"} : Goto(e, pc)
    BY DEF Acquire, At
  <1>2. CASE Throws(e)
    BY <1>1, <1>2, Captured, ThrowStep
  <1>3. ASSUME NEW pc \in {"plan", "pause"}, Goto(e, pc)
        PROVE  Inv'
    <2>1. /\ pc \in Steps /\ pc \notin {"spawn", "merged", "noop"} \cup Prepared
          /\ SameSide("acquire", pc)
      BY DEF Steps, Prepared, SameSide, CommitSide
    <2> QED BY <1>1, <1>3, <2>1, Captured, GotoStep DEF Prepared, Pushed
  <1> QED BY <1>1, <1>2, <1>3

LEMMA PlanStep ==
  ASSUME Inv, NEW e \in Execs, Plan(e)
  PROVE  Inv'
  <1>1. /\ exec[e].ph = "do" /\ exec[e].d.pc = "plan"
        /\ UNCHANGED <<ws, allowed, log, row, run, adm, hyd>>
        /\ \E pc \in {"commit", "confirm"} : Goto(e, pc)
    BY DEF Plan, At
  <1>2. ASSUME NEW pc \in {"commit", "confirm"}, Goto(e, pc)
        PROVE  Inv'
    <2>1. /\ pc \in Steps /\ pc \notin {"spawn", "merged", "noop"} \cup Prepared
          /\ SameSide("plan", pc)
      BY DEF Steps, Prepared, SameSide, CommitSide
    <2> QED BY <1>1, <1>2, <2>1, Captured, GotoStep DEF Prepared, Pushed
  <1> QED BY <1>1, <1>2

\* A history that starts over on the actual tip still fits its row.
LEMMA NextRoundStep ==
  ASSUME Inv, NEW e \in Execs, exec[e].ph # "idle", NextRound(e),
         exec[e].d.pc \in {"confirm", "refresh"},
         UNCHANGED <<allowed, log, row, run, adm, hyd>>,
         ws' \in [gen : Nat, url : Urls, desired : Nat, writable : BOOLEAN]
  PROVE  Inv'
  <1>1. hyd' \in [Jobs -> Nat]
    BY Captured
  <1>2. CASE Fails(e)
    BY <1>1, <1>2, ThrowStep
  <1>3. CASE ~Fails(e)
    <2> DEFINE d == exec[e].d
               rev == [d.rev EXCEPT !.sha = Tip(d.rev.url)]
               x == [d EXCEPT !.pc = "acquire", !.tries = 0, !.cand = None,
                              !.round = @ + 1, !.rev = rev]
    <2>1. /\ d \in Durable /\ d.rev \in Revisions /\ Tip(d.rev.url) \in Nat
          /\ Sound(log, exec[e].on, d, row[JobOf(e)])
      BY Busy, Captured
    <2>2. rev \in Revisions /\ rev.url = d.rev.url
      BY <2>1 DEF Revisions
    <2> HIDE DEF rev
    <2>3. /\ x \in Durable /\ x.pc = "acquire" /\ x.rev.url = d.rev.url
          /\ x.handoff = d.handoff /\ x.st = d.st /\ x.res = d.res
      <3>1. d.round + 1 \in Nat /\ "acquire" \in Steps /\ 0 \in Nat
        BY <2>1 DEF Durable, Steps
      <3>2. x \in Durable
        BY <2>1, <2>2, <3>1 DEF Durable
      <3>3. x.pc = "acquire" /\ x.rev = rev /\ x.handoff = d.handoff
        BY <2>1 DEF Durable
      <3>4. x.st = d.st /\ x.res = d.res
        BY <2>1 DEF Durable
      <3> QED BY <2>2, <3>2, <3>3, <3>4
    <2> USE DEF rev
    <2>4. Returns(e, x)
      BY <1>3 DEF NextRound
    <2> HIDE DEF x, rev
    <2>5. Sound(log, exec[e].on, x, row[JobOf(e)])
      BY <2>1, <2>3 DEF Sound, Prepared, Pushed
    <2>6. SameSide(d.pc, x.pc)
      BY <2>3 DEF SameSide, CommitSide
    <2> QED BY <1>1, <2>4, <2>5, <2>6, QuietStep
  <1> QED BY <1>2, <1>3

LEMMA ConfirmStep ==
  ASSUME Inv, NEW e \in Execs, Confirm(e)
  PROVE  Inv'
  <1>1. /\ exec[e].ph = "do" /\ exec[e].d.pc = "confirm"
        /\ UNCHANGED <<allowed, log, row, run, adm, hyd>>
        /\ ws' = ws \/ ws' = [ws EXCEPT !.desired = Tip(ws.url)]
        /\ \/ Throws(e) \/ NextRound(e)
           \/ Goto(e, IF IsMerge(exec[e].on) THEN "noopHydrate" ELSE "noop")
    BY DEF Confirm, At
  <1>2. /\ ws' \in [gen : Nat, url : Urls, desired : Nat, writable : BOOLEAN]
        /\ hyd' \in [Jobs -> Nat]
    BY <1>1, Captured
  <1>3. CASE Throws(e)
    BY <1>1, <1>2, <1>3, ThrowStep
  <1>4. CASE NextRound(e)
    BY <1>1, <1>2, <1>4, NextRoundStep
  <1>5. CASE Goto(e, "noopHydrate")
    BY <1>1, <1>2, <1>5, GotoStep
       DEF Steps, Prepared, Pushed, SameSide, CommitSide
  <1>6. CASE ~IsMerge(exec[e].on) /\ Goto(e, "noop")
    <2>1. exec[e].on[2] # "child"
      BY <1>6 DEF IsMerge
    <2> QED BY <1>1, <1>2, <1>6, <2>1, GotoStep
            DEF Steps, Prepared, Pushed, SameSide, CommitSide
  <1> QED BY <1>1, <1>3, <1>4, <1>5, <1>6

LEMMA RefreshStep ==
  ASSUME Inv, NEW e \in Execs, Refresh(e)
  PROVE  Inv'
  <1>1. /\ exec[e].ph = "do" /\ exec[e].d.pc = "refresh"
        /\ UNCHANGED <<allowed, log, row, run, adm, hyd>>
        /\ ws' = ws \/ ws' = [ws EXCEPT !.desired = Tip(ws.url)]
        /\ Throws(e) \/ NextRound(e)
    BY DEF Refresh, At
  <1>2. /\ ws' \in [gen : Nat, url : Urls, desired : Nat, writable : BOOLEAN]
        /\ hyd' \in [Jobs -> Nat]
    BY <1>1, Captured
  <1> QED BY <1>1, <1>2, ThrowStep, NextRoundStep

\* A run that completes with commit c.
LEMMA CompletesStep ==
  ASSUME Inv, NEW e \in Execs, exec[e].ph # "idle",
         NEW c \in Commits \cup {None}, Completes(e, c),
         FileEdit(row[JobOf(e)]) /\ c # None
           => c \in PublishedIn(log, exec[e].d.rev.url),
         UNCHANGED <<allowed, log, row, run, adm>>,
         ws' \in [gen : Nat, url : Urls, desired : Nat, writable : BOOLEAN],
         hyd' \in [Jobs -> Nat]
  PROVE  Inv'
  <1> DEFINE x == [exec[e].d EXCEPT !.st = "completed", !.res = c]
  <1>1. Sound(log, exec[e].on, x, row[JobOf(e)]) /\ exec[e].d \in Durable
    BY Busy, SoundEnds
  <1>2. SameSide(exec[e].d.pc, x.pc)
    BY <1>1 DEF SameSide, Durable
  <1>3. Returns(e, x)
    BY DEF Completes
  <1> HIDE DEF x
  <1> QED BY <1>1, <1>2, <1>3, QuietStep

LEMMA HydrateQueued ==
  ASSUME Inv, NEW j \in Jobs, NEW sha \in Nat, QueueHydrate(j, sha)
  PROVE  hyd' \in [Jobs -> Nat]
  BY DEF Inv, TypeOK, QueueHydrate

LEMMA NoopHydrateStep ==
  ASSUME Inv, NEW e \in Execs, NoopHydrate(e)
  PROVE  Inv'
  <1>1. /\ exec[e].ph = "do" /\ exec[e].d.pc = "noopHydrate"
        /\ UNCHANGED <<ws, allowed, log, row, run, adm>>
        /\ QueueHydrate(JobOf(e), exec[e].d.rev.sha)
    BY DEF NoopHydrate, At
  <1>2. hyd' \in [Jobs -> Nat]
    <2>1. exec[e].d.rev.sha \in Nat /\ JobOf(e) \in Jobs
      BY <1>1, Busy DEF Revisions
    <2> QED BY <1>1, <2>1, HydrateQueued
  <1>3. CASE Completes(e, None)
    BY <1>1, <1>2, <1>3, Captured, CompletesStep
  <1>4. CASE exec[e].on[2] # "child" /\ Goto(e, "noop")
    BY <1>1, <1>2, <1>4, Captured, GotoStep
       DEF Steps, Prepared, Pushed, SameSide, CommitSide
  <1> QED BY <1>3, <1>4 DEF NoopHydrate

\* Where the push goes on to when the tip moved, or the push is denied.
LEMMA PushLeaves ==
  ASSUME Inv, NEW e \in Execs, exec[e].ph # "idle", exec[e].d.pc = "push",
         TipAdvanced(e) \/ Goto(e, "pausePush"),
         UNCHANGED <<allowed, log, row, run, adm, hyd>>,
         ws' \in [gen : Nat, url : Urls, desired : Nat, writable : BOOLEAN]
  PROVE  Inv'
  <1>1. exec[e].d.cand \in Commits /\ hyd' \in [Jobs -> Nat]
    BY Busy, Captured DEF Sound, Prepared
  <1>2. CASE Goto(e, "pausePush") \/ Goto(e, "capture")
    BY <1>1, <1>2, GotoStep DEF Steps, Prepared, Pushed, SameSide, CommitSide
  <1>3. CASE Goto(e, "discard") /\ IsMerge(exec[e].on)
    <2>1. ~(exec[e].on[2] = "root" /\ FileEdit(row[JobOf(e)]))
      BY <1>3 DEF IsMerge, FileEdit, JobOf
    <2> QED BY <1>1, <1>3, <2>1, GotoStep DEF Steps, Prepared, Pushed
  <1> QED BY <1>2, <1>3 DEF TipAdvanced

LEMMA PushFound ==
  ASSUME Inv, NEW e \in Execs, exec[e].ph # "idle", exec[e].d.pc = "push",
         Goto(e, "publish"),
         exec[e].d.cand \in PublishedIn(log, exec[e].d.rev.url),
         UNCHANGED <<ws, allowed, log, row, run, adm, hyd>>
  PROVE  Inv'
  <1>1. exec[e].d.cand \in Commits
    BY Busy DEF Sound, Prepared
  <1> QED BY <1>1, Captured, GotoStep
          DEF Steps, Prepared, Pushed, SameSide, CommitSide

LEMMA PushCheckStep ==
  ASSUME Inv, NEW e \in Execs, PushCheck(e)
  PROVE  Inv'
  <1> DEFINE d == exec[e].d
  <1>1. /\ exec[e].ph = "do" /\ d.pc = "push"
        /\ UNCHANGED <<ws, allowed, log, row, run, adm, hyd>>
        /\ \/ Throws(e)
           \/ Contains(d.rev.url, d.cand) /\ Goto(e, "publish")
           \/ TipAdvanced(e) \/ Goto(e, "pausePush")
           \/ exec' = [exec EXCEPT ![e].ph = "recheck"]
    BY DEF PushCheck, At
  <1>2. CASE Throws(e)
    BY <1>1, <1>2, Captured, ThrowStep
  <1>3. CASE Contains(d.rev.url, d.cand) /\ Goto(e, "publish")
    <2>1. d.cand \in PublishedIn(log, d.rev.url)
      BY <1>1, <1>3, Busy, LookupPublished DEF Inv
    <2> QED BY <1>1, <1>3, <2>1, PushFound
  <1>4. CASE TipAdvanced(e) \/ Goto(e, "pausePush")
    BY <1>1, <1>4, Captured, PushLeaves
  <1>5. CASE exec' = [exec EXCEPT ![e].ph = "recheck"]
    BY <1>1, <1>5, PhaseStep
  <1> QED BY <1>1, <1>2, <1>3, <1>4, <1>5

LEMMA PushRecheckStep ==
  ASSUME Inv, NEW e \in Execs, PushRecheck(e)
  PROVE  Inv'
  <1> DEFINE d == exec[e].d
  <1>1. /\ exec[e].ph = "recheck"
        /\ UNCHANGED <<ws, allowed, log, row, run, adm, hyd>>
        /\ \/ Throws(e)
           \/ TipIs(d.rev.url, d.cand) /\ Goto(e, "publish")
           \/ TipAdvanced(e) \/ Goto(e, "pausePush")
           \/ exec' = [exec EXCEPT ![e].ph = "send"]
    BY DEF PushRecheck
  <1>2. d.pc = "push"
    BY <1>1 DEF Inv, ExecOK
  <1>3. CASE Throws(e)
    BY <1>1, <1>3, Captured, ThrowStep
  <1>4. CASE TipIs(d.rev.url, d.cand) /\ Goto(e, "publish")
    <2>1. d.cand \in PublishedIn(log, d.rev.url)
      BY <1>1, <1>4, Busy, LookupPublished DEF Inv
    <2> QED BY <1>1, <1>2, <1>4, <2>1, PushFound
  <1>5. CASE TipAdvanced(e) \/ Goto(e, "pausePush")
    BY <1>1, <1>2, <1>5, Captured, PushLeaves
  <1>6. CASE exec' = [exec EXCEPT ![e].ph = "send"]
    BY <1>1, <1>2, <1>6, PhaseStep
  <1> QED BY <1>1, <1>3, <1>4, <1>5, <1>6

LEMMA PushDeniedStep ==
  ASSUME Inv, NEW e \in Execs, PushDenied(e)
  PROVE  Inv'
  <1>1. /\ exec[e].ph \in {"recheck", "send"} /\ Goto(e, "pausePush")
        /\ UNCHANGED <<allowed, log, row, run, adm, hyd>>
        /\ ws' = ws \/ ws' = [ws EXCEPT !.writable = FALSE]
    BY DEF PushDenied
  <1>2. exec[e].d.pc = "push"
    BY <1>1 DEF Inv, ExecOK
  <1> QED BY <1>1, <1>2, Captured, PushLeaves

LEMMA PushSendStep ==
  ASSUME Inv, NEW e \in Execs, PushSend(e)
  PROVE  Inv'
  <1> DEFINE d == exec[e].d
             u == d.rev.url
             j == JobOf(e)
             w == row[j]
             x == [commit |-> d.cand, tree |-> log[u][d.rev.sha].tree \cup {j}]
             next == [d EXCEPT !.pc = "publish", !.tries = 0]
  <1>1. /\ exec[e].ph = "send" /\ d.pc = "push"
        /\ UNCHANGED <<ws, allowed, row, run, adm, hyd>>
    BY DEF PushSend, PushUrl, Inv, ExecOK
  <1>2. CASE UNCHANGED log /\ TipIs(u, d.cand) /\ Goto(e, "publish")
    <2>1. d.cand \in PublishedIn(log, u)
      BY <1>1, <1>2, Busy, LookupPublished DEF Inv
    <2> QED BY <1>1, <1>2, <2>1, PushFound
  <1>3. CASE UNCHANGED log /\ Throws(e)
    BY <1>1, <1>3, Captured, ThrowStep
  <1>4. CASE /\ Tip(u) = d.rev.sha
             /\ log' = [log EXCEPT ![u] = Append(@, x)]
             /\ Goto(e, "publish")
    <2>1. /\ u \in Urls /\ j \in Jobs /\ d \in Durable /\ d.cand \in Commits
          /\ w \in Rows /\ RowOK(log, j, w) /\ w.status # "none" /\ w.owner
          /\ Sound(log, exec[e].on, d, w)
      BY <1>1, Busy DEF Sound, Prepared
    <2>2. x \in Entries
      <3>1. log[u][d.rev.sha] \in Entries
        BY <1>4, <2>1, LookupPublished DEF Inv
      <3> QED BY <2>1, <3>1 DEF Entries
    <2> HIDE DEF x
    <2>3. Grown /\ x.commit \in PublishedIn(log', u)
      <3>1. log' = [log EXCEPT ![u] = Append(@, x)]
        BY <1>4
      <3> QED BY <2>1, <2>2, <3>1, AppendEntry DEF Inv, Grown
    <2>4. d.cand \in PublishedIn(log', u)
      BY <2>3 DEF x
    <2>5. Sound(log', exec[e].on, next, w)
      <3>1. Sound(log', exec[e].on, d, w)
        BY <2>1, <2>3, SoundGrows
      <3> QED BY <2>1, <2>4, <3>1, SoundGoto DEF Steps
    <2>6. SameSide(d.pc, next.pc)
      BY <1>1, <2>1 DEF SameSide, Durable, CommitSide
    <2>7. RowOK(log', j, w)
      <3>1. w.status = "completed" => w.rev.url \in Urls
        BY <2>1 DEF RowOK, Revisions
      <3> QED BY <2>1, <2>3, <3>1 DEF RowOK, Grown
    <2>8. Returns(e, next)
      BY <1>4 DEF Goto
    <2>9. row' = [row EXCEPT ![j] = w]
      BY <1>1, <2>1 DEF Inv, TypeOK
    <2> HIDE DEF next
    <2> QED BY <1>1, <2>1, <2>3, <2>5, <2>6, <2>7, <2>8, <2>9, Captured, BodyStep
  <1> QED BY <1>1, <1>2, <1>3, <1>4 DEF PushSend, PushUrl

LEMMA PublishStep ==
  ASSUME Inv, NEW e \in Execs, Publish(e)
  PROVE  Inv'
  <1> DEFINE d == exec[e].d
             x == [d EXCEPT !.pc = "hydrate", !.tries = 0, !.pub = HydrateTip(d.rev)]
  <1>1. /\ exec[e].ph = "do" /\ d.pc = "publish"
        /\ UNCHANGED <<allowed, log, row, run, adm, hyd>>
        /\ ws' = ws \/ ws' = [ws EXCEPT !.desired = Tip(ws.url)]
        /\ Throws(e) \/ (Returns(e, x) /\ Contains(d.rev.url, d.cand))
    BY DEF Publish, At
  <1>2. /\ ws' \in [gen : Nat, url : Urls, desired : Nat, writable : BOOLEAN]
        /\ hyd' \in [Jobs -> Nat]
    BY <1>1, Captured
  <1>3. CASE Throws(e)
    BY <1>1, <1>2, <1>3, ThrowStep
  <1>4. CASE Returns(e, x) /\ Contains(d.rev.url, d.cand)
    <2>1. /\ d \in Durable /\ HydrateTip(d.rev) \in Nat
          /\ Sound(log, exec[e].on, d, row[JobOf(e)])
      BY <1>1, Busy, Captured DEF HydrateTip
    <2>2. /\ x \in Durable /\ x.pc = "hydrate" /\ x.rev = d.rev /\ x.cand = d.cand
          /\ x.handoff = d.handoff /\ x.st = d.st /\ x.res = d.res
      BY <2>1 DEF Durable, Steps
    <2> HIDE DEF x
    <2>3. Sound(log, exec[e].on, x, row[JobOf(e)]) /\ SameSide(d.pc, x.pc)
      BY <1>1, <2>1, <2>2 DEF Sound, Prepared, Pushed, SameSide, CommitSide
    <2> QED BY <1>1, <1>2, <1>4, <2>3, QuietStep
  <1> QED BY <1>1, <1>3, <1>4

LEMMA HydrateStep ==
  ASSUME Inv, NEW e \in Execs, Hydrate(e)
  PROVE  Inv'
  <1> DEFINE d == exec[e].d
  <1>1. /\ exec[e].ph = "do" /\ d.pc = "hydrate"
        /\ UNCHANGED <<ws, allowed, log, row, run, adm>>
        /\ QueueHydrate(JobOf(e), d.pub)
        /\ Completes(e, d.cand) \/ Goto(e, "complete")
    BY DEF Hydrate, At
  <1>2. /\ d.pub \in Nat /\ JobOf(e) \in Jobs
        /\ d.cand \in Commits /\ d.cand \in PublishedIn(log, d.rev.url)
    BY <1>1, Busy DEF Sound, Durable, Prepared, Pushed
  <1>3. hyd' \in [Jobs -> Nat]
    BY <1>1, <1>2, HydrateQueued
  <1>4. CASE Completes(e, d.cand)
    BY <1>1, <1>2, <1>3, <1>4, Captured, CompletesStep
  <1>5. CASE Goto(e, "complete")
    BY <1>1, <1>2, <1>3, <1>5, Captured, GotoStep
       DEF Steps, Prepared, Pushed, SameSide, CommitSide
  <1> QED BY <1>1, <1>4, <1>5

LEMMA AwaitChildStep ==
  ASSUME Inv, NEW e \in Execs, AwaitChild(e)
  PROVE  Inv'
  <1> DEFINE d == exec[e].d
             c == <<JobOf(e), "child">>
             x == [d EXCEPT !.pc = "merged", !.tries = 0, !.res = run[c].d.res]
             w == row[JobOf(e)]
  <1>1. /\ exec[e].ph = "do" /\ d.pc = "child"
        /\ UNCHANGED <<ws, allowed, log, row, run, adm, hyd>>
        /\ Fails(e) \/ (Ended(c, "completed") /\ Returns(e, x))
    BY DEF AwaitChild, At
  <1>2. CASE Fails(e)
    BY <1>1, <1>2, Captured, ThrowStep
  <1>3. CASE Ended(c, "completed") /\ Returns(e, x)
    <2>1. d \in Durable /\ Sound(log, exec[e].on, d, w) /\ JobOf(e) \in Jobs
      BY <1>1, Busy
    <2>2. /\ run[c].d \in Durable /\ run[c].d.st = "completed"
          /\ Sound(log, c, run[c].d, w)
      <3>1. c \in Runs /\ c[1] = JobOf(e)
        BY <2>1 DEF Runs, Roles
      <3>2. run[c].d # None /\ run[c].d.st = "completed" /\ RunOK(c)
        BY <1>3, <3>1 DEF Ended, Exists, Inv
      <3> QED BY <3>1, <3>2 DEF RunOK, Sound
    <2>3. run[c].d.res \in Commits \cup {None} /\ "merged" \in Steps /\ 0 \in Nat
      BY <2>2 DEF Durable, Steps
    <2>4. /\ x \in Durable /\ x.pc = "merged" /\ x.rev = d.rev
          /\ x.handoff = d.handoff /\ x.st = d.st /\ x.res = run[c].d.res
      BY <2>1, <2>3 DEF Durable
    <2> HIDE DEF x
    <2>5. FileEdit(w) /\ x.res # None => x.res \in PublishedIn(log, x.rev.url)
      BY <2>1, <2>2, <2>4 DEF Sound
    <2>6. Sound(log, exec[e].on, x, w)
      BY <1>1, <2>1, <2>4, <2>5 DEF Sound, Prepared, Pushed
    <2>7. SameSide(d.pc, x.pc)
      BY <1>1, <2>4 DEF SameSide, CommitSide
    <2> QED BY <1>1, <1>3, <2>6, <2>7, Captured, QuietStep
  <1> QED BY <1>1, <1>2, <1>3

LEMMA StepErrorStep ==
  ASSUME Inv, NEW e \in Execs, StepError(e)
  PROVE  Inv'
  BY Captured, ThrowStep DEF StepError

\* A step that writes w into the row of its job, and returns d.
LEMMA RowStep ==
  ASSUME Inv, NEW e \in Execs, exec[e].ph # "idle",
         NEW d, Returns(e, d),
         NEW w \in Rows, row' = [row EXCEPT ![JobOf(e)] = w],
         w.kind = row[JobOf(e)].kind, w.rev = row[JobOf(e)].rev,
         w.status # "none", row[JobOf(e)].owner => w.owner,
         RowOK(log, JobOf(e), w),
         Sound(log, exec[e].on, d, w),
         exec[e].on[2] = "root" /\ FileEdit(w) => SameSide(exec[e].d.pc, d.pc),
         UNCHANGED <<allowed, log, run, adm, hyd>>,
         ws' \in [gen : Nat, url : Urls, desired : Nat, writable : BOOLEAN]
  PROVE  Inv'
  <1>1. Grown /\ hyd' \in [Jobs -> Nat]
    BY DEF Grown, Inv, TypeOK
  <1>2. RowOK(log', JobOf(e), w) /\ Sound(log', exec[e].on, d, w)
    OBVIOUS
  <1> QED BY <1>1, <1>2, BodyStep

\* Setting a status other than "completed", and going to step pc.
LEMMA StatusGotoStep ==
  ASSUME Inv, NEW e \in Execs, exec[e].ph # "idle",
         NEW st \in {"paused", "running"}, SetStatus(JobOf(e), st),
         NEW pc \in Steps, Goto(e, pc),
         exec[e].d.pc # "claim", pc \notin {"spawn", "merged", "noop"} \cup Pushed,
         pc \in Prepared => exec[e].d.cand \in Commits,
         SameSide(exec[e].d.pc, pc),
         UNCHANGED <<ws, allowed, log, run, adm, hyd>>
  PROVE  Inv'
  <1> DEFINE j == JobOf(e)
             w == [row[j] EXCEPT !.status = st]
             x == [exec[e].d EXCEPT !.pc = pc, !.tries = 0]
  <1>1. CASE row[j].status = "completed"
    BY <1>1, Captured, GotoStep DEF SetStatus
  <1>2. CASE row[j].status # "completed"
    <2>1. /\ j \in Jobs /\ row[j] \in Rows /\ RowOK(log, j, row[j])
          /\ row[j].owner /\ row[j].status # "none"
          /\ Sound(log, exec[e].on, exec[e].d, row[j]) /\ exec[e].d \in Durable
      BY Busy DEF Sound
    <2>2. /\ w \in Rows /\ w.kind = row[j].kind /\ w.rev = row[j].rev
          /\ w.owner = row[j].owner /\ w.status = st
          /\ w.handoff = row[j].handoff /\ w.commit = row[j].commit
      BY <2>1 DEF Rows, Statuses
    <2>3. row' = [row EXCEPT ![j] = w]
      BY <1>2, <2>1 DEF SetStatus, Inv, TypeOK
    <2> HIDE DEF w
    <2>4. RowOK(log, j, w)
      BY <2>1, <2>2 DEF RowOK, FileEdit
    <2>5. Sound(log, exec[e].on, x, w)
      <3>1. Sound(log, exec[e].on, exec[e].d, w)
        BY <2>1, <2>2, SoundKept
      <3> QED BY <2>1, <2>2, <3>1, SoundGoto
    <2>6. x.pc = pc
      BY <2>1 DEF Durable
    <2>7. Returns(e, x)
      BY DEF Goto
    <2> HIDE DEF x
    <2> QED BY <2>1, <2>2, <2>3, <2>4, <2>5, <2>6, <2>7, Captured, RowStep
  <1> QED BY <1>1, <1>2

LEMMA PauseStep ==
  ASSUME Inv, NEW e \in Execs, Pause(e)
  PROVE  Inv'
  <1>1. /\ exec[e].ph = "do" /\ SetStatus(JobOf(e), "paused")
        /\ UNCHANGED <<ws, allowed, log, run, adm, hyd>>
        /\ \/ exec[e].d.pc = "pause" /\ Goto(e, "resume")
           \/ exec[e].d.pc = "pausePush" /\ Goto(e, "resumePush")
    BY DEF Pause, At
  <1>2. CASE exec[e].d.pc = "pause" /\ Goto(e, "resume")
    BY <1>1, <1>2, StatusGotoStep
       DEF Steps, Prepared, Pushed, SameSide, CommitSide
  <1>3. CASE exec[e].d.pc = "pausePush" /\ Goto(e, "resumePush")
    <2>1. exec[e].d.cand \in Commits
      BY <1>1, <1>3, Busy DEF Sound, Prepared
    <2> QED BY <1>1, <1>3, <2>1, StatusGotoStep
            DEF Steps, Pushed, SameSide, CommitSide
  <1> QED BY <1>1, <1>2, <1>3

LEMMA ResumeStep ==
  ASSUME Inv, NEW e \in Execs, Resume(e)
  PROVE  Inv'
  <1>1. /\ exec[e].ph = "do" /\ SetStatus(JobOf(e), "running")
        /\ UNCHANGED <<ws, allowed, log, run, adm, hyd>>
        /\ \/ exec[e].d.pc = "resume" /\ Goto(e, "acquire")
           \/ exec[e].d.pc = "resumePush" /\ Goto(e, "push")
    BY DEF Resume, At
  <1>2. CASE exec[e].d.pc = "resume" /\ Goto(e, "acquire")
    BY <1>1, <1>2, StatusGotoStep
       DEF Steps, Prepared, Pushed, SameSide, CommitSide
  <1>3. CASE exec[e].d.pc = "resumePush" /\ Goto(e, "push")
    <2>1. exec[e].d.cand \in Commits
      BY <1>1, <1>3, Busy DEF Sound, Prepared
    <2> QED BY <1>1, <1>3, <2>1, StatusGotoStep
            DEF Steps, Pushed, SameSide, CommitSide
  <1> QED BY <1>1, <1>2, <1>3

\* Whoever is about to do a step of the commit side works for a root run whose
\* step history is on that side, even without the lease.
LEMMA BusyCommitting ==
  ASSUME Inv, NEW e \in Execs, exec[e].ph \notin {"idle", "record"},
         FileEdit(row[JobOf(e)]), exec[e].d.pc \in CommitSide
  PROVE  Committing(JobOf(e))
  <1> DEFINE r == exec[e].on
  <1>1. ExecOK(e) /\ r \in Runs /\ RunOK(r) /\ run[r].d # None /\ JobOf(e) = r[1]
    BY Busy DEF Inv, JobOf
  <1>2. CASE r[2] = "child"
    BY <1>1, <1>2 DEF RunOK
  <1>3. CASE r[2] = "root"
    <2>1. r = <<JobOf(e), "root">>
      BY <1>1, <1>3 DEF Runs
    <2>2. run[r].d.pc \in CommitSide
      BY <1>1, <1>3 DEF ExecOK, SameSide
    <2> QED BY <1>1, <2>1, <2>2 DEF Committing
  <1> QED BY <1>1, <1>2, <1>3 DEF Runs, Roles

\* Recording the result c of the job and completing with it.
LEMMA ResultStep ==
  ASSUME Inv, NEW e \in Execs, exec[e].ph # "idle",
         NEW c \in Commits \cup {None}, SetResult(JobOf(e), c), Completes(e, c),
         exec[e].d.pc # "claim",
         FileEdit(row[JobOf(e)]) /\ c # None =>
           /\ Committing(JobOf(e))
           /\ c \in PublishedIn(log, exec[e].d.rev.url),
         UNCHANGED <<ws, allowed, log, run, adm, hyd>>
  PROVE  Inv'
  <1> DEFINE j == JobOf(e)
             w == [row[j] EXCEPT !.status = "completed", !.commit = c]
             x == [exec[e].d EXCEPT !.st = "completed", !.res = c]
  <1>1. CASE row[j].status = "completed"
    BY <1>1, Captured, CompletesStep DEF SetResult
  <1>2. CASE row[j].status # "completed"
    <2>1. /\ j \in Jobs /\ row[j] \in Rows /\ RowOK(log, j, row[j])
          /\ row[j].owner /\ row[j].status # "none"
          /\ Sound(log, exec[e].on, exec[e].d, row[j]) /\ exec[e].d \in Durable
          /\ exec[e].d.rev.url = row[j].rev.url
      BY Busy DEF Sound
    <2>2. /\ w \in Rows /\ w.kind = row[j].kind /\ w.rev = row[j].rev
          /\ w.owner = row[j].owner /\ w.status = "completed"
          /\ w.handoff = row[j].handoff /\ w.commit = c
      BY <2>1 DEF Rows, Statuses
    <2>3. row' = [row EXCEPT ![j] = w]
      BY <1>2, <2>1 DEF SetResult, Inv, TypeOK
    <2> HIDE DEF w
    <2>4. RowOK(log, j, w)
      BY <2>1, <2>2 DEF RowOK, FileEdit
    <2>5. Sound(log, exec[e].on, x, w)
      <3>1. Sound(log, exec[e].on, exec[e].d, w)
        BY <2>1, <2>2, SoundKept
      <3>2. FileEdit(w) /\ c # None => c \in PublishedIn(log, exec[e].d.rev.url)
        BY <2>2 DEF FileEdit
      <3> QED BY <3>1, <3>2, SoundEnds
    <2>6. SameSide(exec[e].d.pc, x.pc)
      BY <2>1 DEF Durable, SameSide
    <2>7. Returns(e, x)
      BY DEF Completes
    <2> HIDE DEF x
    <2> QED BY <2>1, <2>2, <2>3, <2>4, <2>5, <2>6, <2>7, Captured, RowStep
  <1> QED BY <1>1, <1>2

LEMMA MergedStep ==
  ASSUME Inv, NEW e \in Execs, Merged(e)
  PROVE  Inv'
  <1> DEFINE d == exec[e].d
  <1>1. /\ exec[e].ph = "do" /\ d.pc = "merged"
        /\ SetResult(JobOf(e), d.res) /\ Completes(e, d.res)
        /\ UNCHANGED <<ws, allowed, log, run, adm, hyd>>
    BY DEF Merged, At
  <1>2. /\ d.res \in Commits \cup {None}
        /\ FileEdit(row[JobOf(e)]) /\ d.res # None
             => d.res \in PublishedIn(log, d.rev.url)
    BY <1>1, Busy DEF Sound, Durable
  <1>3. FileEdit(row[JobOf(e)]) => Committing(JobOf(e))
    BY <1>1, BusyCommitting DEF CommitSide
  <1> QED BY <1>1, <1>2, <1>3, ResultStep

LEMMA CompleteStep ==
  ASSUME Inv, NEW e \in Execs, Complete(e)
  PROVE  Inv'
  <1> DEFINE d == exec[e].d
  <1>1. /\ exec[e].ph = "do" /\ d.pc = "complete"
        /\ SetResult(JobOf(e), d.cand) /\ Completes(e, d.cand)
        /\ UNCHANGED <<ws, allowed, log, run, adm, hyd>>
    BY DEF Complete, At
  <1>2. d.cand \in Commits /\ d.cand \in PublishedIn(log, d.rev.url)
    BY <1>1, Busy DEF Sound, Prepared, Pushed
  <1>3. FileEdit(row[JobOf(e)]) => Committing(JobOf(e))
    BY <1>1, BusyCommitting DEF CommitSide
  <1> QED BY <1>1, <1>2, <1>3, ResultStep

\* The no-op of a file edit finds no commit in the row: its step history is at
\* "noop", so it never was on the commit side.
LEMMA NoopStep ==
  ASSUME Inv, NEW e \in Execs, Noop(e)
  PROVE  Inv'
  <1> DEFINE d == exec[e].d
             r == exec[e].on
             j == JobOf(e)
             w == [row[j] EXCEPT !.status = "completed"]
             x == [d EXCEPT !.st = "completed", !.res = None]
  <1>1. /\ exec[e].ph = "do" /\ d.pc = "noop" /\ Completes(e, None)
        /\ SetStatus(j, "completed") \/ SetResult(j, None)
        /\ UNCHANGED <<ws, allowed, log, run, adm, hyd>>
    BY DEF Noop, At
  <1>2. CASE SetResult(j, None)
    BY <1>1, <1>2, ResultStep
  <1>3. CASE row[j].status = "completed" /\ SetStatus(j, "completed")
    BY <1>1, <1>3, Captured, CompletesStep DEF SetStatus
  <1>4. CASE row[j].status # "completed" /\ SetStatus(j, "completed")
    <2>1. /\ j \in Jobs /\ row[j] \in Rows /\ RowOK(log, j, row[j])
          /\ row[j].owner /\ row[j].status # "none"
          /\ Sound(log, r, d, row[j]) /\ d \in Durable
      BY <1>1, Busy DEF Sound
    <2>2. FileEdit(row[j]) => ~Committing(j)
      <3>1. r = <<j, "root">>
        BY <1>1, Busy DEF Sound, Runs, Roles, JobOf
      <3>2. FileEdit(row[j]) => run[r].d.pc = "noop"
        BY <1>1, <3>1 DEF Inv, ExecOK, SameSide
      <3> QED BY <3>1, <3>2 DEF Committing, CommitSide
    <2>3. /\ w \in Rows /\ w.kind = row[j].kind /\ w.rev = row[j].rev
          /\ w.owner = row[j].owner /\ w.status = "completed"
          /\ w.handoff = row[j].handoff /\ w.commit = row[j].commit
      BY <2>1 DEF Rows, Statuses
    <2>4. row' = [row EXCEPT ![j] = w]
      BY <1>4, <2>1 DEF SetStatus, Inv, TypeOK
    <2> HIDE DEF w
    <2>5. RowOK(log, j, w)
      BY <2>1, <2>2, <2>3 DEF RowOK, FileEdit
    <2>6. Sound(log, r, x, w)
      <3>1. Sound(log, r, d, w)
        BY <2>1, <2>3, SoundKept
      <3> QED BY <3>1, SoundEnds
    <2>7. SameSide(d.pc, x.pc)
      BY <2>1 DEF Durable, SameSide
    <2>8. Returns(e, x)
      BY <1>1 DEF Completes
    <2> HIDE DEF x
    <2> QED BY <1>1, <2>1, <2>3, <2>4, <2>5, <2>6, <2>7, <2>8, Captured, RowStep
  <1> QED BY <1>1, <1>2, <1>3, <1>4

LEMMA ClaimCommandStep ==
  ASSUME Inv, NEW e \in Execs, ClaimCommand(e)
  PROVE  Inv'
  <1> DEFINE d == exec[e].d
             j == JobOf(e)
             w == [row[j] EXCEPT !.status = "running", !.owner = TRUE,
                                 !.handoff = None]
             x == [d EXCEPT !.pc = "acquire", !.tries = 0]
  <1>1. /\ exec[e].ph = "do" /\ d.pc = "claim"
        /\ UNCHANGED <<ws, allowed, log, run, adm, hyd>>
        /\ \/ UNCHANGED row /\ Throws(e)
           \/ /\ row[j].commit = None
              /\ row' = [row EXCEPT ![j].status = "running", ![j].owner = TRUE,
                                 ![j].handoff = None]
              /\ Goto(e, "acquire")
    BY DEF ClaimCommand, Claimable, At
  <1>2. CASE UNCHANGED row /\ Throws(e)
    BY <1>1, <1>2, Captured, ThrowStep
  <1>3. CASE /\ row[j].commit = None
             /\ row' = [row EXCEPT ![j].status = "running", ![j].owner = TRUE,
                                 ![j].handoff = None]
             /\ Goto(e, "acquire")
    <2>1. /\ j \in Jobs /\ row[j] \in Rows /\ RowOK(log, j, row[j])
          /\ row[j].status # "none"
          /\ Sound(log, exec[e].on, d, row[j]) /\ d \in Durable
      BY <1>1, Busy
    <2>2. /\ w \in Rows /\ w.kind = row[j].kind /\ w.rev = row[j].rev
          /\ w.owner /\ w.status = "running"
          /\ w.handoff = None /\ w.commit = None
      BY <1>3, <2>1 DEF Rows, Statuses
    <2>3. row' = [row EXCEPT ![j] = w]
      BY <1>3, <2>1 DEF Inv, TypeOK
    <2> HIDE DEF w
    <2>4. RowOK(log, j, w)
      BY <2>1, <2>2 DEF RowOK
    <2>5. Sound(log, exec[e].on, x, w)
      <3>1. Sound(log, exec[e].on, d, w)
        BY <2>1, <2>2, SoundKept
      <3> QED BY <2>2, <3>1, SoundGoto DEF Steps, Prepared, Pushed
    <2>6. SameSide(d.pc, x.pc)
      BY <1>1 DEF SameSide, CommitSide
    <2>7. Returns(e, x)
      BY <1>3 DEF Goto
    <2> HIDE DEF x
    <2> QED BY <1>1, <2>1, <2>2, <2>3, <2>4, <2>5, <2>6, <2>7, Captured, RowStep
  <1> QED BY <1>1, <1>2, <1>3

LEMMA DiscardStep ==
  ASSUME Inv, NEW e \in Execs, Discard(e)
  PROVE  Inv'
  <1> DEFINE d == exec[e].d
             j == JobOf(e)
             w == [row[j] EXCEPT !.commit = None]
             x == [d EXCEPT !.pc = "refresh", !.tries = 0]
  <1>1. /\ exec[e].ph = "do" /\ d.pc = "discard"
        /\ UNCHANGED <<ws, allowed, log, run, adm, hyd>>
        /\ \/ UNCHANGED row /\ Throws(e)
           \/ row' = [row EXCEPT ![j].commit = None] /\ Goto(e, "refresh")
    BY DEF Discard, At
  <1>2. CASE UNCHANGED row /\ Throws(e)
    BY <1>1, <1>2, Captured, ThrowStep
  <1>3. CASE row' = [row EXCEPT ![j].commit = None] /\ Goto(e, "refresh")
    <2>1. /\ j \in Jobs /\ row[j] \in Rows /\ RowOK(log, j, row[j])
          /\ row[j].status # "none" /\ row[j].owner
          /\ Sound(log, exec[e].on, d, row[j]) /\ d \in Durable
      BY <1>1, Busy DEF Sound
    <2>2. /\ w \in Rows /\ w.kind = row[j].kind /\ w.rev = row[j].rev
          /\ w.owner = row[j].owner /\ w.status = row[j].status
          /\ w.handoff = row[j].handoff /\ w.commit = None
      BY <2>1 DEF Rows
    <2>3. row' = [row EXCEPT ![j] = w]
      BY <1>3, <2>1 DEF Inv, TypeOK
    <2> HIDE DEF w
    <2>4. RowOK(log, j, w)
      BY <2>1, <2>2 DEF RowOK
    <2>5. Sound(log, exec[e].on, x, w)
      <3>1. Sound(log, exec[e].on, d, w)
        BY <2>1, <2>2, SoundKept
      <3> QED BY <2>1, <2>2, <3>1, SoundGoto DEF Steps, Prepared, Pushed
    <2>6. SameSide(d.pc, x.pc)
      BY <1>1 DEF SameSide, CommitSide
    <2>7. Returns(e, x)
      BY <1>3 DEF Goto
    <2> HIDE DEF x
    <2> QED BY <1>1, <2>1, <2>2, <2>3, <2>4, <2>5, <2>6, <2>7, Captured, RowStep
  <1> QED BY <1>1, <1>2, <1>3

LEMMA CommitStep ==
  ASSUME Inv, NEW e \in Execs, Commit(e)
  PROVE  Inv'
  <1> DEFINE d == exec[e].d
             r == exec[e].on
             j == JobOf(e)
             c == [job |-> r[1], role |-> r[2], base |-> d.rev.sha]
             w == [row[j] EXCEPT !.commit = c]
             x == [d EXCEPT !.pc = "push", !.tries = 0, !.cand = c]
  <1>1. /\ exec[e].ph = "do" /\ d.pc = "commit" /\ j = r[1]
        /\ UNCHANGED <<ws, allowed, log, run, adm, hyd>>
        /\ \/ UNCHANGED row /\ (Throws(e) \/ Returns(e, x))
           \/ /\ row[j].status # "completed"
              /\ row' = [row EXCEPT ![j].commit = c]
              /\ Returns(e, x)
    BY DEF Commit, At, JobOf
  <1>2. /\ j \in Jobs /\ row[j] \in Rows /\ RowOK(log, j, row[j])
        /\ row[j].status # "none" /\ row[j].owner
        /\ Sound(log, r, d, row[j]) /\ d \in Durable
    BY <1>1, Busy DEF Sound
  <1>3. c \in Commits
    BY <1>1, Busy DEF Commits, Runs, Revisions
  <1> HIDE DEF c
  <1>4. /\ x \in Durable /\ x.pc = "push" /\ x.rev = d.rev /\ x.cand = c
        /\ x.handoff = d.handoff /\ x.st = d.st /\ x.res = d.res
    BY <1>2, <1>3 DEF Durable, Steps
  <1> HIDE DEF x
  <1>5. Sound(log, r, x, row[j])
    BY <1>1, <1>2, <1>3, <1>4 DEF Sound, Pushed
  <1>6. SameSide(d.pc, x.pc)
    BY <1>1, <1>4 DEF SameSide, CommitSide
  <1>7. CASE UNCHANGED row /\ Throws(e)
    BY <1>1, <1>7, Captured, ThrowStep
  <1>8. CASE UNCHANGED row /\ Returns(e, x)
    BY <1>1, <1>5, <1>6, <1>8, Captured, QuietStep
  <1>9. CASE /\ row[j].status # "completed"
             /\ row' = [row EXCEPT ![j].commit = c]
             /\ Returns(e, x)
    <2>1. /\ w \in Rows /\ w.kind = row[j].kind /\ w.rev = row[j].rev
          /\ w.owner = row[j].owner /\ w.status = row[j].status
          /\ w.handoff = row[j].handoff /\ w.commit = c
      BY <1>2, <1>3 DEF Rows
    <2>2. row' = [row EXCEPT ![j] = w]
      BY <1>9, <1>2 DEF Inv, TypeOK
    <2> HIDE DEF w
    <2>3. RowOK(log, j, w)
      <3>1. FileEdit(w) => Committing(j)
        BY <1>1, <2>1, BusyCommitting DEF FileEdit, CommitSide
      <3> QED BY <1>2, <1>9, <2>1, <3>1 DEF RowOK
    <2>4. Sound(log, r, x, w)
      BY <1>5, <2>1, SoundKept
    <2> QED BY <1>1, <1>2, <1>6, <1>9, <2>1, <2>2, <2>3, <2>4, Captured, RowStep
  <1> QED BY <1>1, <1>7, <1>8, <1>9

LEMMA CaptureStep ==
  ASSUME Inv, NEW e \in Execs, Capture(e)
  PROVE  Inv'
  <1> DEFINE d == exec[e].d
             r == exec[e].on
             j == JobOf(e)
             next == [cand |-> d.cand, rev |-> [d.rev EXCEPT !.sha = Tip(d.rev.url)]]
             w(h) == [row[j] EXCEPT !.handoff = h]
             x(h) == [d EXCEPT !.pc = "spawn", !.tries = 0, !.handoff = h]
  <1>1. /\ exec[e].ph = "do" /\ d.pc = "capture"
        /\ UNCHANGED <<allowed, log, run, adm, hyd>>
        /\ ws' = ws \/ ws' = [ws EXCEPT !.desired = Tip(ws.url)]
        /\ \/ UNCHANGED row /\ Throws(e)
           \/ /\ UNCHANGED row /\ row[j].handoff # None
              /\ Returns(e, x(row[j].handoff))
           \/ row' = [row EXCEPT ![j].handoff = next] /\ Returns(e, x(next))
    BY DEF Capture, At
  <1>2. /\ j \in Jobs /\ row[j] \in Rows /\ RowOK(log, j, row[j])
        /\ row[j].status # "none" /\ row[j].owner
        /\ Sound(log, r, d, row[j]) /\ d \in Durable
        /\ d.rev \in Revisions /\ Tip(d.rev.url) \in Nat
    BY <1>1, Busy, Captured DEF Sound
  <1>3. /\ ws' \in [gen : Nat, url : Urls, desired : Nat, writable : BOOLEAN]
        /\ hyd' \in [Jobs -> Nat]
    BY <1>1, Captured
  <1>4. ASSUME NEW h \in Handoffs, h.rev.url = row[j].rev.url
        PROVE  Sound(log, r, x(h), row[j]) /\ SameSide(d.pc, x(h).pc)
    <2>1. /\ x(h) \in Durable /\ x(h).pc = "spawn" /\ x(h).rev = d.rev
          /\ x(h).handoff = h /\ x(h).st = d.st /\ x(h).res = d.res
      BY <1>2 DEF Durable, Steps
    <2> HIDE DEF x
    <2>2. SameSide(d.pc, x(h).pc)
      BY <1>1, <2>1 DEF SameSide, CommitSide
    <2> QED BY <1>1, <1>2, <1>4, <2>1, <2>2 DEF Sound, Prepared, Pushed
  <1> HIDE DEF x
  <1>5. CASE UNCHANGED row /\ Throws(e)
    BY <1>1, <1>3, <1>5, ThrowStep
  <1>6. CASE /\ UNCHANGED row /\ row[j].handoff # None
             /\ Returns(e, x(row[j].handoff))
    <2>1. row[j].handoff \in Handoffs /\ row[j].handoff.rev.url = row[j].rev.url
      BY <1>2, <1>6 DEF Rows, RowOK
    <2>2. /\ Sound(log, r, x(row[j].handoff), row[j])
          /\ SameSide(d.pc, x(row[j].handoff).pc)
      BY <1>4, <2>1
    <2> QED BY <1>1, <1>3, <1>6, <2>2, QuietStep
  <1>7. CASE row' = [row EXCEPT ![j].handoff = next] /\ Returns(e, x(next))
    <2>1. next \in Handoffs /\ next.rev.url = row[j].rev.url
      <3>1. d.cand \in Commits /\ d.rev.url = row[j].rev.url
        BY <1>1, <1>2 DEF Sound, Prepared
      <3>2. /\ [d.rev EXCEPT !.sha = Tip(d.rev.url)] \in Revisions
            /\ [d.rev EXCEPT !.sha = Tip(d.rev.url)].url = d.rev.url
        BY <1>2 DEF Revisions
      <3> QED BY <3>1, <3>2 DEF Handoffs
    <2> HIDE DEF next
    <2>2. Sound(log, r, x(next), row[j]) /\ SameSide(d.pc, x(next).pc)
      BY <1>4, <2>1
    <2>3. /\ w(next) \in Rows /\ w(next).kind = row[j].kind
          /\ w(next).rev = row[j].rev /\ w(next).owner = row[j].owner
          /\ w(next).status = row[j].status /\ w(next).handoff = next
          /\ w(next).commit = row[j].commit
      BY <1>2, <2>1 DEF Rows
    <2>4. row' = [row EXCEPT ![j] = w(next)]
      BY <1>7, <1>2 DEF Inv, TypeOK
    <2> HIDE DEF w
    <2>5. RowOK(log, j, w(next))
      BY <1>2, <2>1, <2>3 DEF RowOK, FileEdit
    <2>6. Sound(log, r, x(next), w(next))
      BY <2>2, <2>3, SoundKept
    <2> QED BY <1>1, <1>2, <1>3, <1>7, <2>2, <2>3, <2>4, <2>5, <2>6, RowStep
  <1> QED BY <1>1, <1>5, <1>6, <1>7

-----------------------------------------------------------------------------
(* Steps that create, claim and record runs *)

\* A run that is queued unless it exists.
LEMMA RunAdded ==
  ASSUME Inv, NEW c \in Runs, NEW d,
         run' = IF Exists(c) THEN run ELSE [run EXCEPT ![c].d = d],
         Sound(log, c, d, row[c[1]]), row[c[1]].status # "none",
         c[2] = "child" /\ FileEdit(row[c[1]]) => Committing(c[1]),
         UNCHANGED <<log, row>>
  PROVE  /\ run' \in [Runs -> RunRecs]
         /\ Undisturbed({}) /\ \A f \in Execs : Undisturbed({f})
         /\ Grown /\ Kept
         /\ \A r \in Runs : RunOK(r)'
  <1>1. run' \in [Runs -> RunRecs]
    BY DEF Inv, TypeOK, RunRecs, Sound
  <1>2. Undisturbed({}) /\ \A f \in Execs : Undisturbed({f})
    BY DEF Undisturbed, Exists, Inv, TypeOK
  <1>3. Grown /\ Kept
    BY DEF Grown, Kept, Inv, TypeOK
  <1>4. ASSUME NEW r \in Runs
        PROVE  RunOK(r)'
    <2>1. CASE run[r].d # None
      BY <2>1, <1>2, <1>3, RunKept
    <2>2. CASE run[r].d = None /\ r # c
      <3>1. run'[r] = run[r]
        BY <2>2 DEF Inv, TypeOK
      <3> QED BY <2>2, <3>1 DEF RunOK
    <2>3. CASE run[r].d = None /\ r = c
      <3>1. run'[r].d = d
        BY <2>3 DEF Inv, TypeOK, Exists, RunRecs
      <3>2. r[1] \in Jobs
        BY DEF Runs
      <3>3. Committing(r[1]) => Committing(r[1])'
        BY <1>2, <3>2, CommittingKept
      <3> QED BY <2>3, <3>1, <3>3 DEF RunOK
    <2> QED BY <2>1, <2>2, <2>3
  <1> QED BY <1>1, <1>2, <1>3, <1>4

LEMMA LogKept ==
  ASSUME Inv, Grown
  PROVE  LogOK'
  <1> SUFFICES ASSUME NEW u \in Urls PROVE Len(log'[u]) > 0
    BY DEF LogOK
  <1>1. Len(log[u]) \in Nat /\ Len(log'[u]) \in Nat /\ Len(log[u]) > 0
    BY DEF Inv, TypeOK, LogOK, Grown
  <1> QED BY <1>1 DEF Grown

LEMMA SpawnStep ==
  ASSUME Inv, NEW e \in Execs, Spawn(e)
  PROVE  Inv'
  <1> DEFINE d == exec[e].d
             r == exec[e].on
             j == JobOf(e)
             c == <<j, "child">>
             new == Fresh("acquire", d.handoff.rev, d.handoff)
             x == [d EXCEPT !.pc = "child", !.tries = 0]
  <1>1. /\ exec[e].ph = "do" /\ d.pc = "spawn" /\ Returns(e, x)
        /\ UNCHANGED <<ws, allowed, log, row, adm, hyd>>
        /\ run' = IF Exists(c) THEN run ELSE [run EXCEPT ![c].d = new]
    BY DEF Spawn, At, Goto
  <1>2. /\ r \in Runs /\ j \in Jobs /\ c \in Runs /\ c[1] = j /\ j = r[1]
        /\ row[j].owner /\ row[j].status # "none" /\ row[j].rev \in Revisions
        /\ Sound(log, r, d, row[j]) /\ d \in Durable /\ ExecOK(e)
        /\ exec[e] \in ExecRecs /\ run[r].d # None
    BY <1>1, Busy DEF Runs, Roles, JobOf, Sound, Inv
  <1>3. /\ new \in Durable /\ new.st = "live" /\ new.pc = "acquire"
        /\ new.rev = d.handoff.rev /\ new.handoff = d.handoff /\ new.res = None
    <2>1. d.handoff \in Handoffs /\ d.handoff.rev \in Revisions
      BY <1>1, <1>2 DEF Sound, Handoffs
    <2> QED BY <2>1 DEF Fresh, Durable, Steps
  <1> HIDE DEF new
  <1>4. Sound(log, c, new, row[j])
    <2>1. d.handoff # None
      BY <1>1, <1>2, NoneAssumption DEF Sound
    <2> QED BY <1>2, <1>3, <2>1 DEF Sound, Prepared, Pushed
  <1>5. FileEdit(row[j]) => Committing(j)
    BY <1>1, BusyCommitting DEF CommitSide
  <1>6. /\ run' \in [Runs -> RunRecs]
        /\ Undisturbed({}) /\ \A f \in Execs : Undisturbed({f})
        /\ Grown /\ Kept
        /\ \A s \in Runs : RunOK(s)'
    BY <1>1, <1>2, <1>4, <1>5, RunAdded
  <1>7. /\ exec' \in [Execs -> ExecRecs]
        /\ exec'[e].on = r /\ exec'[e].ph = "record" /\ exec'[e].d = x
        /\ \A f \in Execs : f # e => exec'[f] = exec[f]
        /\ x \in Durable /\ x.pc = "child"
    <2>1. x \in Durable /\ x.pc = "child"
      BY <1>2 DEF Durable, Steps
    <2> HIDE DEF x
    <2>2. [exec[e] EXCEPT !.ph = "record", !.d = x] \in ExecRecs
      BY <1>2, <2>1 DEF ExecRecs, Phases
    <2> QED BY <1>1, <1>2, <2>1, <2>2 DEF Returns, Inv, TypeOK, ExecRecs
  <1>8. TypeOK' /\ LogOK'
    BY <1>1, <1>6, <1>7, LogKept DEF Inv, TypeOK
  <1>9. \A i \in Jobs : RowOK(log, i, row[i])'
    BY <1>1, <1>6, RowKept DEF Inv
  <1>10. \A f \in Execs : ExecOK(f)'
    <2> TAKE f \in Execs
    <2>1. CASE f = e
      <3>1. Sound(log, r, x, row[j])
        BY <1>1, <1>2, SoundGoto DEF Steps, Prepared, Pushed
      <3>2. r[2] = "root" /\ FileEdit(row[j]) /\ run[r].lease = e
              => SameSide(run[r].d.pc, x.pc)
        BY <1>1, <1>2, <1>7 DEF ExecOK, SameSide, CommitSide
      <3>3. run'[r].d = run[r].d /\ (run'[r].lease = e => run[r].lease = e)
        BY <1>2, <1>6 DEF Undisturbed
      <3>4. row' = row /\ log' = log /\ r \in Runs /\ run[r].d # None /\ j = r[1]
        BY <1>1, <1>2
      <3> HIDE DEF x, r, j
      <3> QED BY <2>1, <3>1, <3>2, <3>3, <3>4, <1>7 DEF ExecOK
    <2>2. CASE f # e
      BY <2>2, <1>6, <1>7, ExecKept
    <2> QED BY <2>1, <2>2
  <1>11. \A a \in Admitters : AdmOK(a)'
    BY <1>1, <1>6, AdmKept
  <1> QED BY <1>6, <1>8, <1>9, <1>10, <1>11 DEF Inv

\* What the invariant needs of a step that changes the executors only.
LEMMA ExecutorsStep ==
  ASSUME Inv, exec' \in [Execs -> ExecRecs], \A f \in Execs : ExecOK(f)',
         UNCHANGED <<ws, allowed, log, row, run, adm, hyd>>
  PROVE  Inv'
  <1>1. Grown /\ Kept /\ Undisturbed({})
    BY DEF Grown, Kept, Undisturbed, Inv, TypeOK
  <1>2. TypeOK' /\ LogOK'
    BY <1>1, LogKept DEF Inv, TypeOK
  <1>3. \A i \in Jobs : RowOK(log, i, row[i])'
    BY <1>1, RowKept DEF Inv
  <1>4. \A r \in Runs : RunOK(r)'
    BY <1>1, RunKept DEF RunOK
  <1>5. \A a \in Admitters : AdmOK(a)'
    BY <1>1, AdmKept
  <1> QED BY <1>2, <1>3, <1>4, <1>5 DEF Inv

\* An executor that stops, or finds its lease gone.
LEMMA IdleStep ==
  ASSUME Inv, NEW e \in Execs, exec' = [exec EXCEPT ![e] = Idle],
         UNCHANGED <<ws, allowed, log, row, run, adm, hyd>>
  PROVE  Inv'
  <1>1. /\ exec' \in [Execs -> ExecRecs]
        /\ exec'[e].ph = "idle"
        /\ \A f \in Execs : f # e => exec'[f] = exec[f]
    BY DEF Inv, TypeOK, ExecRecs, Phases, Idle
  <1>2. Grown /\ Kept /\ \A f \in Execs : Undisturbed({f})
    BY DEF Grown, Kept, Undisturbed, Inv, TypeOK
  <1>3. \A f \in Execs : ExecOK(f)'
    <2> TAKE f \in Execs
    <2>1. CASE f = e
      BY <2>1, <1>1 DEF ExecOK
    <2>2. CASE f # e
      BY <2>2, <1>1, <1>2, ExecKept
    <2> QED BY <2>1, <2>2
  <1> QED BY <1>1, <1>3, ExecutorsStep

LEMMA ClaimStep ==
  ASSUME Inv, NEW e \in Execs, NEW r \in Runs, Claim(e, r)
  PROVE  Inv'
  <1>1. /\ run[r].d # None
        /\ run' = [run EXCEPT ![r].lease = e]
        /\ exec' = [exec EXCEPT ![e] = [on |-> r, ph |-> "enter", d |-> run[r].d]]
        /\ UNCHANGED <<ws, allowed, log, row, adm, hyd>>
    BY DEF Claim, Ended, Exists
  <1>2. /\ run' \in [Runs -> RunRecs]
        /\ \A s \in Runs : run'[s].d = run[s].d
        /\ \A s \in Runs, f \in Execs :
             f # e /\ run'[s].lease = f => run[s].lease = f
    BY <1>1 DEF Inv, TypeOK, RunRecs
  <1>3. /\ exec' \in [Execs -> ExecRecs]
        /\ exec'[e].on = r /\ exec'[e].ph = "enter" /\ exec'[e].d = run[r].d
        /\ \A f \in Execs : f # e => exec'[f] = exec[f]
    BY <1>1 DEF Inv, TypeOK, RunRecs, ExecRecs, Phases
  <1>4. /\ Grown /\ Kept /\ Undisturbed({})
        /\ \A f \in Execs : f # e => Undisturbed({f})
    BY <1>1, <1>2 DEF Grown, Kept, Undisturbed, Inv, TypeOK
  <1>5. TypeOK' /\ LogOK'
    BY <1>1, <1>2, <1>3, <1>4, LogKept DEF Inv, TypeOK
  <1>6. \A i \in Jobs : RowOK(log, i, row[i])'
    BY <1>1, <1>4, RowKept DEF Inv
  <1>7. \A s \in Runs : RunOK(s)'
    BY <1>2, <1>4, RunKept DEF RunOK
  <1>8. \A f \in Execs : ExecOK(f)'
    <2> TAKE f \in Execs
    <2>1. CASE f = e
      <3>1. Sound(log, r, run[r].d, row[r[1]])
        BY <1>1 DEF Inv, RunOK
      <3> QED BY <2>1, <3>1, <1>1, <1>2, <1>3 DEF ExecOK, SameSide
    <2>2. CASE f # e
      BY <2>2, <1>3, <1>4, ExecKept
    <2> QED BY <2>1, <2>2
  <1>9. \A a \in Admitters : AdmOK(a)'
    BY <1>1, <1>4, AdmKept
  <1> QED BY <1>5, <1>6, <1>7, <1>8, <1>9 DEF Inv

\* The result becomes durable: the history of the run takes a step that stays
\* on its side of the fork, so what other executors hold still fits it.
LEMMA RecordStep ==
  ASSUME Inv, NEW e \in Execs, Record(e)
  PROVE  Inv'
  <1>1. CASE exec' = [exec EXCEPT ![e] = Idle] /\ UNCHANGED run
    BY <1>1, IdleStep DEF Record
  <1>2. CASE ~(exec' = [exec EXCEPT ![e] = Idle] /\ UNCHANGED run)
    <2> SUFFICES ASSUME NEW r \in Runs, r = exec[e].on,
                        NEW l \in Execs \cup {None}, l # e => l = None,
                        NEW x, x \in {Idle, [exec[e] EXCEPT !.ph = "do"]},
                        exec' = [exec EXCEPT ![e] = x],
                        run' = [run EXCEPT ![r] = [d |-> exec[e].d, lease |-> l]],
                        run[r].lease = e, exec[e].ph = "record",
                        UNCHANGED <<ws, allowed, log, row, adm, hyd>>
                 PROVE  Inv'
      <3>1. exec[e].ph = "record" /\ exec[e].on \in Runs
        BY Busy DEF Record
      <3>2. [exec EXCEPT ![e] = [@ EXCEPT !.ph = "do"]]
              = [exec EXCEPT ![e] = [exec[e] EXCEPT !.ph = "do"]]
        BY DEF Inv, TypeOK
      <3> QED BY <1>2, <3>1, <3>2 DEF Record
    <2> DEFINE d == exec[e].d
    <2>1. /\ d \in Durable /\ d # None /\ exec[e] \in ExecRecs
          /\ Sound(log, r, d, row[r[1]]) /\ r[1] \in Jobs
          /\ row[r[1]].status # "none" /\ run[r].d # None
          /\ r[2] = "root" /\ FileEdit(row[r[1]]) => SameSide(run[r].d.pc, d.pc)
          /\ r[2] = "child" /\ FileEdit(row[r[1]]) => Committing(r[1])
      <3>1. ExecOK(e) /\ RunOK(r) /\ JobOf(e) = r[1]
        BY DEF Inv, JobOf
      <3> QED BY <3>1, Busy, NoneAssumption DEF ExecOK, RunOK
    <2> HIDE DEF d
    <2>2. /\ run' \in [Runs -> RunRecs]
          /\ run'[r].d = d /\ run'[r].lease = l
          /\ \A s \in Runs : s # r => run'[s] = run[s]
      BY <2>1 DEF Inv, TypeOK, RunRecs, d
    <2>3. /\ exec' \in [Execs -> ExecRecs]
          /\ exec'[e].ph = "idle" \/ (exec'[e].on = r /\ exec'[e].ph = "do" /\ exec'[e].d = d)
          /\ \A f \in Execs : f # e => exec'[f] = exec[f]
      <3>1. /\ x \in ExecRecs
            /\ x.ph = "idle" \/ (x.on = r /\ x.ph = "do" /\ x.d = d)
        BY <2>1 DEF ExecRecs, Phases, Idle, d
      <3> QED BY <3>1 DEF Inv, TypeOK
    <2>4. Grown /\ Kept
      BY DEF Grown, Kept, Inv, TypeOK
    <2>5. ASSUME NEW j \in Jobs, FileEdit(row[j]), Committing(j)
          PROVE  Committing(j)'
      <3>1. CASE r = <<j, "root">>
        <4>1. r[1] = j /\ r[2] = "root"
          BY <3>1
        <4>2. run[r].d.pc \in CommitSide
          BY <2>5, <3>1 DEF Committing
        <4>3. d.pc \in CommitSide
          BY <2>1, <2>5, <4>1, <4>2 DEF SameSide
        <4> QED BY <2>1, <2>2, <3>1, <4>3 DEF Committing
      <3>2. CASE r # <<j, "root">>
        BY <2>2, <2>5, <3>2 DEF Committing, Runs, Roles
      <3> QED BY <3>1, <3>2
    <2>6. TypeOK' /\ LogOK'
      BY <2>2, <2>3, <2>4, LogKept DEF Inv, TypeOK
    <2>7. \A j \in Jobs : RowOK(log, j, row[j])'
      <3> TAKE j \in Jobs
      <3>1. RowOK(log, j, row[j])
        BY DEF Inv
      <3>2. FileEdit(row[j]) /\ Committing(j) => Committing(j)'
        BY <2>5
      <3> QED BY <3>1, <3>2 DEF RowOK, FileEdit
    <2>8. \A s \in Runs : RunOK(s)'
      <3> TAKE s \in Runs
      <3>1. s[1] \in Jobs /\ RunOK(s)
        BY DEF Runs, Inv
      <3>2. FileEdit(row[s[1]]) /\ Committing(s[1]) => Committing(s[1])'
        BY <2>5, <3>1
      <3>3. CASE s = r
        BY <2>1, <2>2, <3>2, <3>3 DEF RunOK, FileEdit
      <3>4. CASE s # r
        BY <2>2, <3>1, <3>2, <3>4 DEF RunOK, FileEdit
      <3> QED BY <3>3, <3>4
    <2>9. \A f \in Execs : ExecOK(f)'
      <3> TAKE f \in Execs
      <3>1. CASE f = e
        <4>1. row' = row /\ log' = log
          OBVIOUS
        <4> QED BY <2>1, <2>2, <2>3, <3>1, <4>1 DEF ExecOK, SameSide
      <3>2. CASE f # e
        <4>1. ExecOK(f) /\ exec'[f] = exec[f] /\ l # f
          BY <2>3, <3>2, NoneAssumption DEF Inv
        <4>2. CASE exec[f].on = r
          BY <2>1, <2>2, <4>1, <4>2 DEF ExecOK, SameSide, FileEdit
        <4>3. CASE exec[f].on # r
          BY <2>2, <4>1, <4>3 DEF ExecOK, FileEdit
        <4> QED BY <4>2, <4>3
      <3> QED BY <3>1, <3>2
    <2>10. \A a \in Admitters : AdmOK(a)'
      BY <2>4, AdmKept
    <2> QED BY <2>6, <2>7, <2>8, <2>9, <2>10 DEF Inv
  <1> QED BY <1>1, <1>2

-----------------------------------------------------------------------------
(* Steps outside the workflow bodies *)

\* A step that leaves executors and runs alone.
LEMMA OutsideStep ==
  ASSUME Inv, TypeOK', Grown, Kept, UNCHANGED <<run, exec>>,
         \A j \in Jobs : RowOK(log', j, row'[j]),
         \A a \in Admitters : adm'[a] = adm[a] \/ AdmOK(a)'
  PROVE  Inv'
  <1>1. Undisturbed({}) /\ \A f \in Execs : Undisturbed({f})
    BY DEF Undisturbed
  <1>2. LogOK'
    BY LogKept
  <1>3. \A j \in Jobs : RowOK(log, j, row[j])'
    <2> TAKE j \in Jobs
    <2>1. Committing(j) => Committing(j)'
      BY <1>1, CommittingKept
    <2> QED BY <2>1 DEF RowOK
  <1>4. \A r \in Runs : RunOK(r)'
    BY <1>1, RunKept DEF RunOK
  <1>5. \A f \in Execs : ExecOK(f)'
    BY <1>1, ExecKept
  <1>6. \A a \in Admitters : AdmOK(a)'
    BY AdmKept
  <1> QED BY <1>2, <1>3, <1>4, <1>5, <1>6 DEF Inv

\* What happens to a row outside the bodies: it stays, or waits or fails.
Touched(w, x) ==
  \/ x = w
  \/ /\ w.status # "none" /\ x \in Rows
     /\ x.kind = w.kind /\ x.rev = w.rev /\ x.commit = w.commit
     /\ x.handoff = w.handoff /\ (w.owner => x.owner)
     /\ x.status \in {w.status, "queued", "paused", "failed"}

LEMMA TouchedTrans ==
  ASSUME NEW w, NEW x, NEW y, Touched(w, x), Touched(x, y)
  PROVE  Touched(w, y)
  BY DEF Touched

LEMMA TouchedOK ==
  ASSUME Grown, NEW j \in Jobs, NEW w \in Rows, NEW x, RowOK(log, j, w), Touched(w, x)
  PROVE  RowOK(log', j, x)
  <1>1. w.status # "none" => w.rev.url \in Urls
    BY DEF RowOK, Revisions
  <1>2. RowOK(log', j, w)
    BY <1>1 DEF RowOK, Grown
  <1> QED BY <1>2 DEF RowOK, Touched, FileEdit

LEMMA FailEndedTouches ==
  ASSUME NEW j \in Jobs, NEW w \in Rows, NEW S, "none" \notin S
  PROVE  Touched(w, FailEnded(j, w, S))
  BY DEF FailEnded, Touched, Rows, Statuses

LEMMA StatusTouches ==
  ASSUME NEW w \in Rows, w.status # "none", NEW st \in {"queued", "paused", "failed"}
  PROVE  Touched(w, [w EXCEPT !.status = st])
  BY DEF Touched, Rows, Statuses

\* The rows that a step touched.
LEMMA RowsTouched ==
  ASSUME Inv, Grown, row' = [j \in Jobs |-> row'[j]],
         \A j \in Jobs : Touched(row[j], row'[j])
  PROVE  /\ row' \in [Jobs -> Rows]
         /\ Kept
         /\ \A j \in Jobs : RowOK(log', j, row'[j])
  <1>1. \A j \in Jobs : row[j] \in Rows /\ RowOK(log, j, row[j])
    BY DEF Inv, TypeOK
  <1>2. \A j \in Jobs : row'[j] \in Rows
    BY <1>1 DEF Touched
  <1>3. row' \in [Jobs -> Rows]
    BY <1>2
  <1>4. Kept
    BY <1>1 DEF Kept, Touched
  <1>5. \A j \in Jobs : RowOK(log', j, row'[j])
    BY <1>1, TouchedOK
  <1> QED BY <1>3, <1>4, <1>5

LEMMA WsTyped ==
  ASSUME Inv
  PROVE  /\ ws.url \in Urls /\ ws.gen \in Nat /\ ws.desired \in Nat
         /\ Tip(ws.url) \in Nat /\ allowed \in BOOLEAN
         /\ \A sha \in Nat, w \in BOOLEAN :
              [ws EXCEPT !.desired = sha, !.writable = w]
                \in [gen : Nat, url : Urls, desired : Nat, writable : BOOLEAN]
         /\ \A w \in BOOLEAN :
              [ws EXCEPT !.writable = w]
                \in [gen : Nat, url : Urls, desired : Nat, writable : BOOLEAN]
         /\ [ws EXCEPT !.desired = Tip(ws.url)]
                \in [gen : Nat, url : Urls, desired : Nat, writable : BOOLEAN]
         /\ Grown \/ log' # log
  <1>1. ws.url \in Urls /\ ws.gen \in Nat /\ ws.desired \in Nat /\ allowed \in BOOLEAN
    BY DEF Inv, TypeOK
  <1>2. Tip(ws.url) \in Nat
    BY <1>1, LookupPublished DEF Inv
  <1>3. Grown \/ log' # log
    BY DEF Grown, Inv, TypeOK
  <1> QED BY <1>1, <1>2, <1>3 DEF Inv, TypeOK

LEMMA PeopleStep ==
  ASSUME Inv, HumanCommit \/ SetAccess \/ Relink \/ CaptureTip
  PROVE  Inv'
  <1>1. UNCHANGED <<row, run, exec, adm, hyd>>
    BY DEF HumanCommit, SetAccess, Relink, CaptureTip
  <1>2. Grown
    <2>1. CASE HumanCommit
      <3>1. PICK u \in Urls, T \in SUBSET Jobs :
              log' = [log EXCEPT ![u] = Append(@, [commit |-> None, tree |-> T])]
        BY <2>1 DEF HumanCommit
      <3>2. [commit |-> None, tree |-> T] \in Entries
        BY DEF Entries
      <3> HIDE DEF Entries
      <3> QED BY <3>1, <3>2, AppendEntry DEF Inv, Grown
    <2>2. CASE ~HumanCommit
      BY <2>2, WsTyped DEF SetAccess, Relink, CaptureTip
    <2> QED BY <2>1, <2>2
  <1>3. ws' \in [gen : Nat, url : Urls, desired : Nat, writable : BOOLEAN]
        /\ allowed' \in BOOLEAN
    <2>1. CASE HumanCommit \/ SetAccess
      BY <2>1, WsTyped DEF HumanCommit, SetAccess, Inv, TypeOK
    <2>2. CASE Relink
      <3>1. PICK u \in Urls, w \in {allowed, FALSE} :
              ws' = [gen |-> ws.gen + 1, url |-> u, desired |-> 0, writable |-> w]
        BY <2>2 DEF Relink
      <3>2. allowed \in BOOLEAN /\ ws.gen \in Nat
        BY WsTyped
      <3>3. w \in BOOLEAN
        BY <3>2, Zenon
      <3>4. ws.gen + 1 \in Nat
        BY <3>2
      <3> QED BY <2>2, <3>1, <3>2, <3>3, <3>4 DEF Relink
    <2>3. CASE CaptureTip
      BY <2>3, WsTyped DEF CaptureTip
    <2> QED BY <2>1, <2>2, <2>3
  <1>4. TypeOK'
    BY <1>1, <1>2, <1>3 DEF Inv, TypeOK, Grown
  <1>5. Kept /\ \A j \in Jobs : RowOK(log', j, row'[j])
    <2>1. row' = [j \in Jobs |-> row'[j]] /\ \A j \in Jobs : Touched(row[j], row'[j])
      BY <1>1 DEF Touched, Inv, TypeOK
    <2> QED BY <1>2, <2>1, RowsTouched
  <1> QED BY <1>1, <1>2, <1>4, <1>5, OutsideStep

LEMMA PollStep ==
  ASSUME Inv, NEW j \in Jobs, Poll(j)
  PROVE  Inv'
  <1> DEFINE w == FailEnded(j, row[j], {"queued", "running", "paused"})
  <1>1. row' = [row EXCEPT ![j] = w] /\ UNCHANGED <<ws, allowed, log, run, exec, adm, hyd>>
    BY DEF Poll
  <1>2. row[j] \in Rows
    BY DEF Inv, TypeOK
  <1>3. Touched(row[j], w)
    BY <1>2, FailEndedTouches
  <1> HIDE DEF w
  <1>4. /\ row' = [i \in Jobs |-> row'[i]]
        /\ \A i \in Jobs : Touched(row[i], row'[i])
    <2>1. \A i \in Jobs : row'[i] = IF i = j THEN w ELSE row[i]
      BY <1>1 DEF Inv, TypeOK
    <2>2. \A i \in Jobs : Touched(row[i], row[i])
      BY DEF Touched
    <2> QED BY <1>1, <1>3, <2>1, <2>2 DEF Inv, TypeOK
  <1>5. Grown
    BY <1>1, WsTyped
  <1>6. row' \in [Jobs -> Rows] /\ Kept /\ \A i \in Jobs : RowOK(log', i, row'[i])
    BY <1>4, <1>5, RowsTouched
  <1>7. TypeOK'
    BY <1>1, <1>6 DEF Inv, TypeOK
  <1> QED BY <1>1, <1>5, <1>6, <1>7, OutsideStep

\* A body that starts may settle the row of its job before its first step.
LEMMA EnterDoStep ==
  ASSUME Inv, NEW e \in Execs, exec[e].ph = "enter",
         NEW w, Touched(row[JobOf(e)], w), row' = [row EXCEPT ![JobOf(e)] = w],
         exec' = [exec EXCEPT ![e].ph = "do"],
         UNCHANGED <<ws, allowed, log, run, adm, hyd>>
  PROVE  Inv'
  <1> DEFINE r == exec[e].on
  <1>1. /\ JobOf(e) \in Jobs /\ JobOf(e) = r[1] /\ r \in Runs
        /\ run[r].d # None /\ ExecOK(e) /\ RunOK(r)
        /\ Sound(log, r, exec[e].d, row[r[1]])
    BY Busy DEF Inv, JobOf
  <1>2. /\ exec' \in [Execs -> ExecRecs]
        /\ exec'[e].ph = "do" /\ exec'[e].on = r /\ exec'[e].d = exec[e].d
        /\ \A f \in Execs : f # e => exec'[f] = exec[f]
    BY DEF Inv, TypeOK, ExecRecs, Phases
  <1>3. Grown /\ Undisturbed({}) /\ \A f \in Execs : Undisturbed({f})
    BY WsTyped DEF Undisturbed
  <1>4. /\ row' = [i \in Jobs |-> row'[i]]
        /\ \A i \in Jobs : Touched(row[i], row'[i])
    <2>1. \A i \in Jobs : row'[i] = IF i = JobOf(e) THEN w ELSE row[i]
      BY DEF Inv, TypeOK
    <2>2. \A i \in Jobs : Touched(row[i], row[i])
      BY DEF Touched
    <2> QED BY <2>1, <2>2 DEF Inv, TypeOK
  <1>5. row' \in [Jobs -> Rows] /\ Kept /\ \A i \in Jobs : RowOK(log', i, row'[i])
    BY <1>3, <1>4, RowsTouched
  <1>6. TypeOK' /\ LogOK'
    BY <1>2, <1>5 DEF Inv, TypeOK, LogOK
  <1>7. \A i \in Jobs : RowOK(log, i, row[i])'
    <2> TAKE i \in Jobs
    <2>1. Committing(i) => Committing(i)'
      BY <1>3, CommittingKept
    <2> QED BY <1>5, <2>1 DEF RowOK
  <1>8. \A s \in Runs : RunOK(s)'
    BY <1>3, <1>5, RunKept DEF RunOK
  <1>9. \A f \in Execs : ExecOK(f)'
    <2> TAKE f \in Execs
    <2>1. CASE f = e
      <3>1. Sound(log', r, exec[e].d, row'[r[1]])
        BY <1>1, <1>3, <1>5, SoundGrows, SoundKept DEF Kept, RunOK
      <3>2. FileEdit(row'[r[1]]) => FileEdit(row[r[1]])
        BY <1>1, <1>5 DEF Kept, RunOK, FileEdit
      <3> QED BY <2>1, <3>1, <3>2, <1>1, <1>2 DEF ExecOK
    <2>2. CASE f # e
      BY <2>2, <1>2, <1>3, <1>5, ExecKept
    <2> QED BY <2>1, <2>2
  <1>10. \A a \in Admitters : AdmOK(a)'
    BY <1>5, AdmKept
  <1> QED BY <1>6, <1>7, <1>8, <1>9, <1>10 DEF Inv

LEMMA EnterStep ==
  ASSUME Inv, NEW e \in Execs, Enter(e)
  PROVE  Inv'
  <1> DEFINE r == exec[e].on
             w == row[r[1]]
             x == IF r[2] = "root"
                    THEN FailEnded(r[1], w, {"queued", "running", "paused"})
                    ELSE w
  <1>0. /\ exec[e].ph = "enter" /\ JobOf(e) = r[1]
        /\ row' = [row EXCEPT ![r[1]] = x]
        /\ UNCHANGED <<ws, allowed, log, run, adm, hyd>>
    BY DEF Enter, JobOf
  <1>1. /\ w \in Rows /\ RowOK(log, r[1], w) /\ Sound(log, r, exec[e].d, w)
        /\ w.commit \in Commits \cup {None} /\ exec[e].d \in Durable
        /\ r[1] \in Jobs /\ r[2] \in Roles /\ row \in [Jobs -> Rows]
    BY <1>0, Busy DEF Rows, Runs, Inv, TypeOK
  <1>2. CASE exec' = [exec EXCEPT ![e].ph = "do"]
    <2> DEFINE S == {"queued", "running", "paused"}
    <2>1. Touched(w, w)
      BY DEF Touched
    <2>2. Touched(w, FailEnded(r[1], w, S))
      <3>1. "none" \notin S
        OBVIOUS
      <3> HIDE DEF r, w, x, S
      <3> QED BY <1>1, <3>1, FailEndedTouches
    <2>3. Touched(w, x)
      BY <2>1, <2>2
    <2> HIDE DEF x
    <2> QED BY <1>0, <1>2, <2>3, EnterDoStep
  <1>3. CASE x.status = "completed" /\ Completes(e, x.commit)
    <2> DEFINE y == [exec[e].d EXCEPT !.st = "completed", !.res = w.commit]
    <2>1. x = w /\ w.status = "completed" /\ UNCHANGED row
      BY <1>0, <1>1, <1>3 DEF FailEnded, Rows
    <2>2. FileEdit(w) /\ w.commit # None
            => w.commit \in PublishedIn(log, exec[e].d.rev.url)
      BY <1>1, <2>1 DEF RowOK, Sound
    <2>3. Sound(log, r, y, w)
      BY <1>1, <2>2, SoundEnds
    <2>4. SameSide(exec[e].d.pc, y.pc)
      BY <1>1 DEF SameSide, Durable
    <2>5. Returns(e, y)
      BY <1>3, <2>1 DEF Completes
    <2> HIDE DEF x, y
    <2> QED BY <1>0, <2>1, <2>3, <2>4, <2>5, Captured, QuietStep
  <1>4. CASE r[2] = "child" /\ Fails(e)
    <2>1. UNCHANGED row
      BY <1>0, <1>1, <1>4
    <2> QED BY <1>0, <1>4, <2>1, Captured, ThrowStep
  <1> QED BY <1>2, <1>3, <1>4 DEF Enter, Handed

LEMMA TipCheckStep ==
  ASSUME Inv, NEW old \in SUBSET Jobs, TipCheck(old)
  PROVE  Inv'
  <1> DEFINE stale == [j \in Jobs |->
               IF j \in old THEN FailEnded(j, row[j], {"queued", "running"})
                            ELSE row[j]]
             lost == [j \in Jobs |->
               IF j \in old /\ stale[j].status = "queued" /\ Orphan(j)
                 THEN [stale[j] EXCEPT !.status =
                         IF SameBinding(stale[j].rev) THEN "paused" ELSE "failed"]
                 ELSE stale[j]]
             claimed == {j \in Jobs : /\ lost[j].status = "paused"
                                      /\ ~lost[j].owner
                                      /\ SameBinding(lost[j].rev)}
             next == [j \in Jobs |->
               IF j \in claimed THEN [lost[j] EXCEPT !.status = "queued"] ELSE lost[j]]
  <1>1. /\ "tip" \in Admitters /\ adm["tip"].pc = "idle"
        /\ ws' = [ws EXCEPT !.writable = allowed]
        /\ UNCHANGED <<allowed, log, run, exec, hyd>>
        /\ \/ UNCHANGED <<row, adm>>
           \/ row' = next /\ adm' = [adm EXCEPT !["tip"].todo = claimed]
    BY DEF TipCheck
  <1>2. ws' \in [gen : Nat, url : Urls, desired : Nat, writable : BOOLEAN]
    BY <1>1, WsTyped
  <1>3. ASSUME NEW j \in Jobs
        PROVE  Touched(row[j], next[j])
    <2>1. row[j] \in Rows
      BY DEF Inv, TypeOK
    <2>2. Touched(row[j], stale[j]) /\ stale[j] \in Rows
      <3>1. Touched(row[j], stale[j])
        BY <2>1, FailEndedTouches DEF Touched
      <3> QED BY <2>1, <3>1 DEF Touched
    <2> HIDE DEF stale
    <2>3. Touched(stale[j], lost[j]) /\ lost[j] \in Rows
      <3>1. CASE lost[j] = stale[j]
        BY <2>2, <3>1 DEF Touched
      <3>2. CASE lost[j] # stale[j]
        <4>1. PICK st \in {"paused", "failed"} :
                lost[j] = [stale[j] EXCEPT !.status = st] /\ stale[j].status = "queued"
          BY <3>2
        <4>2. Touched(stale[j], lost[j])
          BY <2>2, <4>1, StatusTouches
        <4> QED BY <2>2, <4>2 DEF Touched
      <3> QED BY <3>1, <3>2
    <2> HIDE DEF lost
    <2>4. Touched(lost[j], next[j])
      <3>1. CASE next[j] = lost[j]
        BY <3>1 DEF Touched
      <3>2. CASE next[j] # lost[j]
        BY <2>3, <3>2, StatusTouches
      <3> QED BY <3>1, <3>2
    <2> HIDE DEF next
    <2> QED BY <2>2, <2>3, <2>4, TouchedTrans
  <1>4. claimed \in SUBSET Jobs
    OBVIOUS
  <1> HIDE DEF stale, lost, claimed
  <1>5. Grown
    BY <1>1, WsTyped
  <1>6. /\ row' = [j \in Jobs |-> row'[j]]
        /\ \A j \in Jobs : Touched(row[j], row'[j])
    <2>1. CASE UNCHANGED row
      BY <2>1 DEF Inv, TypeOK, Touched
    <2>2. CASE row' = next
      <3>1. next = [j \in Jobs |-> next[j]]
        OBVIOUS
      <3> HIDE DEF next
      <3> QED BY <2>2, <1>3, <3>1
    <2> QED BY <1>1, <2>1, <2>2
  <1>7. row' \in [Jobs -> Rows] /\ Kept /\ \A i \in Jobs : RowOK(log', i, row'[i])
    BY <1>5, <1>6, RowsTouched
  <1>8. /\ adm' \in [Admitters -> AdmRecs]
        /\ \A a \in Admitters : adm'[a].pc = adm[a].pc /\ adm'[a].job = adm[a].job
    <2>1. CASE UNCHANGED adm
      BY <2>1 DEF Inv, TypeOK
    <2>2. CASE adm' = [adm EXCEPT !["tip"].todo = claimed]
      <3> DEFINE x == [adm["tip"] EXCEPT !.todo = claimed]
      <3>1. adm["tip"] \in AdmRecs
        BY <1>1 DEF Inv, TypeOK
      <3>2. x \in AdmRecs /\ x.pc = adm["tip"].pc /\ x.job = adm["tip"].job
        BY <1>4, <3>1 DEF AdmRecs
      <3>3. adm' = [adm EXCEPT !["tip"] = x]
        BY <2>2
      <3> HIDE DEF x
      <3> QED BY <3>2, <3>3 DEF Inv, TypeOK
    <2> QED BY <1>1, <2>1, <2>2
  <1>9. \A a \in Admitters : AdmOK(a)'
    <2>1. \A a \in Admitters : AdmOK(a)
      BY DEF Inv
    <2> QED BY <1>7, <1>8, <2>1 DEF AdmOK, Kept
  <1>10. TypeOK'
    BY <1>1, <1>2, <1>7, <1>8 DEF Inv, TypeOK
  <1> QED BY <1>1, <1>5, <1>7, <1>9, <1>10, OutsideStep

LEMMA AdmitBindStep ==
  ASSUME Inv, NEW a \in Admitters, NEW j \in Jobs, NEW kind \in Kinds,
         AdmitBind(a, j, kind)
  PROVE  Inv'
  <1> DEFINE sha == IF ws.desired = 0 THEN Tip(ws.url) ELSE ws.desired
             want == IF allowed THEN "queued" ELSE "paused"
             old == FailEnded(j, row[j], {"queued", "running", "paused"})
             rev == [gen |-> ws.gen, url |-> ws.url, sha |-> sha]
             fresh == [NoRow EXCEPT !.status = want, !.kind = kind, !.rev = rev]
             new == IF old.status = "none" THEN fresh
                    ELSE IF /\ SameBinding(old.rev)
                            /\ ~old.owner
                            /\ old.status \in {"failed", "paused"}
                      THEN [old EXCEPT !.status = want]
                      ELSE old
             rec == [pc |-> IF SameBinding(new.rev) THEN "start" ELSE "idle",
                     job |-> IF SameBinding(new.rev) THEN j ELSE None,
                     todo |-> adm[a].todo \ {j}]
  <1>1. /\ ws' = [ws EXCEPT !.desired = sha, !.writable = allowed]
        /\ row' = [row EXCEPT ![j] = new]
        /\ adm' = [adm EXCEPT ![a] = rec]
        /\ UNCHANGED <<allowed, log, run, exec, hyd>>
    BY DEF AdmitBind, Inv, TypeOK
  <1>2. sha \in Nat /\ ws.url \in Urls /\ ws.gen \in Nat
    BY WsTyped
  <1> HIDE DEF sha
  <1>3. ws' \in [gen : Nat, url : Urls, desired : Nat, writable : BOOLEAN]
    BY <1>1, <1>2, WsTyped
  <1>4. row[j] \in Rows /\ RowOK(log, j, row[j])
    BY DEF Inv, TypeOK
  <1>5. Touched(row[j], old)
    BY <1>4, FailEndedTouches
  <1>6. old \in Rows /\ (old.status = "none" => old = NoRow /\ row[j] = NoRow)
    BY <1>4, <1>5 DEF Touched, RowOK
  <1> HIDE DEF old
  <1>7. /\ new \in Rows /\ new.status # "none" /\ RowOK(log, j, new)
        /\ row[j].status # "none" => /\ new.kind = row[j].kind
                                     /\ new.rev = row[j].rev
                                     /\ row[j].owner => new.owner
    <2>1. CASE old.status = "none"
      <3>1. new = fresh /\ row[j].status = "none"
        BY <1>6, <2>1 DEF NoRow
      <3>2. rev \in Revisions
        BY <1>2 DEF Revisions
      <3> HIDE DEF rev
      <3>3. /\ fresh \in Rows /\ fresh.status \in {"queued", "paused"}
            /\ fresh.rev = rev /\ fresh.commit = None /\ fresh.handoff = None
        BY <3>2 DEF NoRow, Rows, Statuses
      <3> HIDE DEF fresh, new
      <3> QED BY <3>1, <3>2, <3>3 DEF RowOK
    <2>2. CASE old.status # "none"
      <3>1. Touched(old, new)
        <4>1. CASE new = old
          BY <4>1 DEF Touched
        <4>2. CASE new # old
          BY <1>6, <2>2, <4>2, StatusTouches
        <4> QED BY <4>1, <4>2
      <3> HIDE DEF new
      <3>2. Touched(row[j], new)
        BY <1>5, <3>1, TouchedTrans
      <3>3. row[j].status # "none"
        BY <1>4, <1>5, <2>2 DEF Touched
      <3>4. RowOK(log, j, new)
        BY <1>4, <3>2 DEF RowOK, Touched, FileEdit
      <3> QED BY <1>4, <3>2, <3>3, <3>4 DEF Touched
    <2> QED BY <2>1, <2>2
  <1>8. rec \in AdmRecs /\ (rec.pc # "idle" => rec.job = j)
    <2>1. adm[a].todo \in SUBSET Jobs
      BY DEF Inv, TypeOK, AdmRecs
    <2>2. adm[a].todo \ {j} \in SUBSET Jobs
      BY <2>1
    <2> HIDE DEF new
    <2> QED BY <2>2 DEF AdmRecs
  <1> HIDE DEF new, rec
  <1>9. Grown
    BY <1>1, WsTyped
  <1>10. \A i \in Jobs : row'[i] = IF i = j THEN new ELSE row[i]
    BY <1>1 DEF Inv, TypeOK
  <1>11. Kept
    <2> SUFFICES ASSUME NEW i \in Jobs, row[i].status # "none"
                 PROVE  /\ row'[i].status # "none"
                        /\ row'[i].kind = row[i].kind /\ row'[i].rev = row[i].rev
                        /\ row[i].owner => row'[i].owner
      BY DEF Kept
    <2>1. CASE i = j
      <3>1. row'[i] = new
        BY <1>10, <2>1
      <3> QED BY <1>7, <2>1, <3>1
    <2>2. CASE i # j
      <3>1. row'[i] = row[i]
        BY <1>10, <2>2
      <3> QED BY <3>1
    <2> QED BY <2>1, <2>2
  <1>12. \A i \in Jobs : RowOK(log', i, row'[i])
    BY <1>1, <1>7, <1>10 DEF Inv
  <1>13. TypeOK'
    BY <1>1, <1>3, <1>7, <1>8 DEF Inv, TypeOK
  <1>14. \A b \in Admitters : adm'[b] = adm[b] \/ AdmOK(b)'
    <2> TAKE b \in Admitters
    <2>1. CASE b = a
      <3>1. adm'[b] = rec
        BY <1>1, <2>1 DEF Inv, TypeOK
      <3> QED BY <3>1, <1>7, <1>8, <1>10 DEF AdmOK
    <2>2. CASE b # a
      BY <1>1, <2>2 DEF Inv, TypeOK
    <2> QED BY <2>1, <2>2
  <1> QED BY <1>1, <1>9, <1>11, <1>12, <1>13, <1>14, OutsideStep

\* An admission that is over, or gave up, leaves the invariant of the others.
LEMMA AdmittersStep ==
  ASSUME Inv, NEW a \in Admitters, NEW x \in AdmRecs, adm' = [adm EXCEPT ![a] = x],
         x.pc # "idle" => x.job = adm[a].job /\ adm[a].pc # "idle",
         row' = [j \in Jobs |-> row'[j]], \A j \in Jobs : Touched(row[j], row'[j]),
         UNCHANGED <<ws, allowed, log, run, exec, hyd>>
  PROVE  Inv'
  <1>1. Grown
    BY WsTyped
  <1>2. row' \in [Jobs -> Rows] /\ Kept /\ \A i \in Jobs : RowOK(log', i, row'[i])
    BY <1>1, RowsTouched
  <1>3. TypeOK'
    BY <1>2 DEF Inv, TypeOK
  <1>4. \A b \in Admitters : adm'[b] = adm[b] \/ AdmOK(b)'
    <2> TAKE b \in Admitters
    <2>1. CASE b = a
      <3>1. adm'[b] = x /\ AdmOK(a)
        BY <2>1 DEF Inv, TypeOK
      <3> QED BY <2>1, <3>1, <1>2 DEF AdmOK, Kept
    <2>2. CASE b # a
      BY <2>2 DEF Inv, TypeOK
    <2> QED BY <2>1, <2>2
  <1> QED BY <1>1, <1>2, <1>3, <1>4, OutsideStep

LEMMA AdmitReconcileStep ==
  ASSUME Inv, NEW a \in Admitters, AdmitReconcile(a)
  PROVE  Inv'
  <1> DEFINE x == [adm[a] EXCEPT !.pc = "idle", !.job = None]
  <1>1. PICK j \in Jobs : j = adm[a].job /\ row[j].status # "none"
    BY DEF AdmitReconcile, Inv, AdmOK
  <1>2. /\ adm' = [adm EXCEPT ![a] = x]
        /\ UNCHANGED <<ws, allowed, log, run, exec, hyd>>
        /\ \/ row' = [row EXCEPT ![j] = [row[j] EXCEPT !.owner = TRUE]]
           \/ row' = [row EXCEPT ![j] = [row[j] EXCEPT !.status = "failed"]]
           \/ row' = [row EXCEPT ![j] = row[j]]
    BY <1>1 DEF AdmitReconcile, Inv, TypeOK
  <1>3. x \in AdmRecs /\ x.pc = "idle"
    BY DEF Inv, TypeOK, AdmRecs
  <1>4. row[j] \in Rows
    BY DEF Inv, TypeOK
  <1>5. ASSUME NEW w, Touched(row[j], w), row' = [row EXCEPT ![j] = w]
        PROVE  row' = [i \in Jobs |-> row'[i]] /\ \A i \in Jobs : Touched(row[i], row'[i])
    <2>1. \A i \in Jobs : row'[i] = IF i = j THEN w ELSE row[i]
      BY <1>5 DEF Inv, TypeOK
    <2>2. \A i \in Jobs : Touched(row[i], row[i])
      BY DEF Touched
    <2> QED BY <1>5, <2>1, <2>2 DEF Inv, TypeOK
  <1>6. /\ Touched(row[j], [row[j] EXCEPT !.owner = TRUE])
        /\ Touched(row[j], [row[j] EXCEPT !.status = "failed"])
        /\ Touched(row[j], row[j])
    BY <1>1, <1>4 DEF Touched, Rows, Statuses
  <1>7. row' = [i \in Jobs |-> row'[i]] /\ \A i \in Jobs : Touched(row[i], row'[i])
    BY <1>2, <1>5, <1>6
  <1> HIDE DEF x
  <1> QED BY <1>2, <1>3, <1>7, AdmittersStep

LEMMA AdmitStopStep ==
  ASSUME Inv, NEW a \in Admitters, AdmitStop(a)
  PROVE  Inv'
  <1> DEFINE x == [pc |-> "idle", job |-> None, todo |-> {}]
  <1>1. /\ adm' = [adm EXCEPT ![a] = x]
        /\ UNCHANGED <<ws, allowed, log, row, run, exec, hyd>>
    BY DEF AdmitStop
  <1>2. x \in AdmRecs /\ x.pc = "idle"
    BY DEF AdmRecs
  <1>3. row' = [i \in Jobs |-> row'[i]] /\ \A i \in Jobs : Touched(row[i], row'[i])
    BY <1>1 DEF Touched, Inv, TypeOK
  <1> HIDE DEF x
  <1> QED BY <1>1, <1>2, <1>3, AdmittersStep

\* The admission queues the run, unless the run exists.
LEMMA QueueStep ==
  ASSUME Inv, NEW a \in Admitters, adm[a].pc # "idle", QueueRoot(adm[a].job),
         NEW x \in AdmRecs, adm' = [adm EXCEPT ![a] = x],
         x.pc # "idle" => x.job = adm[a].job,
         UNCHANGED <<ws, allowed, log, row, exec, hyd>>
  PROVE  Inv'
  <1>1. PICK j \in Jobs : j = adm[a].job /\ row[j].status # "none"
    BY DEF Inv, AdmOK
  <1> DEFINE r == <<j, "root">>
             d == Fresh("claim", row[j].rev, None)
  <1>2. r \in Runs /\ r[1] = j /\ r[2] = "root"
    BY DEF Runs, Roles
  <1>3. /\ run' = IF Exists(r) THEN run ELSE [run EXCEPT ![r].d = d]
    BY <1>1 DEF QueueRoot
  <1>4. Sound(log, r, d, row[j])
    <2>1. row[j].rev \in Revisions
      BY <1>1 DEF Inv, RowOK
    <2>2. /\ d \in Durable /\ d.st = "live" /\ d.pc = "claim" /\ d.rev = row[j].rev
          /\ d.handoff = None /\ d.res = None
      BY <2>1 DEF Fresh, Durable, Steps
    <2> HIDE DEF d
    <2> QED BY <1>2, <2>1, <2>2 DEF Sound, Prepared, Pushed
  <1> HIDE DEF d
  <1>5. /\ run' \in [Runs -> RunRecs]
        /\ Undisturbed({}) /\ \A f \in Execs : Undisturbed({f})
        /\ Grown /\ Kept
        /\ \A s \in Runs : RunOK(s)'
    BY <1>1, <1>2, <1>3, <1>4, RunAdded
  <1>6. TypeOK' /\ LogOK'
    BY <1>5, LogKept DEF Inv, TypeOK
  <1>7. \A i \in Jobs : RowOK(log, i, row[i])'
    BY <1>5, RowKept DEF Inv
  <1>8. \A f \in Execs : ExecOK(f)'
    BY <1>5, ExecKept
  <1>9. \A b \in Admitters : AdmOK(b)'
    <2> TAKE b \in Admitters
    <2>1. CASE b = a
      <3>1. adm'[b] = x
        BY <2>1 DEF Inv, TypeOK
      <3> QED BY <1>1, <3>1 DEF AdmOK
    <2>2. CASE b # a
      <3>1. adm'[b] = adm[b]
        BY <2>2 DEF Inv, TypeOK
      <3> QED BY <1>5, <3>1, AdmKept
    <2> QED BY <2>1, <2>2
  <1> QED BY <1>5, <1>6, <1>7, <1>8, <1>9 DEF Inv

LEMMA AdmitStartStep ==
  ASSUME Inv, NEW a \in Admitters, AdmitStart(a)
  PROVE  Inv'
  <1> DEFINE x == [adm[a] EXCEPT !.pc = "idle", !.job = None]
  <1>1. /\ adm[a].pc # "idle" /\ QueueRoot(adm[a].job)
        /\ adm' = [adm EXCEPT ![a] = x]
        /\ UNCHANGED <<ws, allowed, log, row, exec, hyd>>
    BY DEF AdmitStart, Inv, TypeOK
  <1>2. x \in AdmRecs /\ x.pc = "idle"
    BY DEF Inv, TypeOK, AdmRecs
  <1> HIDE DEF x
  <1> QED BY <1>1, <1>2, QueueStep

LEMMA AdmitErrorStep ==
  ASSUME Inv, NEW a \in Admitters, AdmitError(a)
  PROVE  Inv'
  <1> DEFINE x == [adm[a] EXCEPT !.pc = "reconcile"]
  <1>1. /\ QueueRoot(adm[a].job) \/ UNCHANGED run
        /\ adm' = [adm EXCEPT ![a] = x]
        /\ UNCHANGED <<ws, allowed, log, row, exec, hyd>>
    BY DEF AdmitError, Inv, TypeOK
  <1>2. x \in AdmRecs /\ x.job = adm[a].job
    BY DEF Inv, TypeOK, AdmRecs
  <1>3. row' = [i \in Jobs |-> row'[i]] /\ \A i \in Jobs : Touched(row[i], row'[i])
    BY <1>1 DEF Touched, Inv, TypeOK
  <1>4. adm[a].pc # "idle"
    BY DEF AdmitError
  <1> HIDE DEF x
  <1>5. CASE QueueRoot(adm[a].job)
    BY <1>1, <1>2, <1>4, <1>5, QueueStep
  <1>6. CASE UNCHANGED run
    BY <1>1, <1>2, <1>3, <1>4, <1>6, AdmittersStep
  <1> QED BY <1>1, <1>5, <1>6

-----------------------------------------------------------------------------
(* The theorems *)

LEMMA Initially == Init => Inv
  <1> SUFFICES ASSUME Init PROVE Inv
    OBVIOUS
  <1> DEFINE first == <<[commit |-> None, tree |-> {}]>>
  <1>1. first \in Seq(Entries) /\ Len(first) = 1
    <2>1. [commit |-> None, tree |-> {}] \in Entries
      BY DEF Entries
    <2> QED BY <2>1
  <1>2. log = [u \in Urls |-> first]
    BY DEF Init
  <1> HIDE DEF first
  <1>3. log \in [Urls -> Seq(Entries)] /\ LogOK
    <2>1. log \in [Urls -> Seq(Entries)]
      BY <1>1, <1>2
    <2>2. ASSUME NEW u \in Urls PROVE Len(log[u]) > 0
      <3>1. log[u] = first
        BY <1>2
      <3> QED BY <1>1, <3>1
    <2> QED BY <2>1, <2>2 DEF LogOK
  <1>4. ws \in [gen : Nat, url : Urls, desired : Nat, writable : BOOLEAN]
    BY LaneAssumption DEF Init
  <1>5. row \in [Jobs -> Rows] /\ \A j \in Jobs : row[j] = NoRow
    BY DEF Init, NoRow, Rows, Statuses
  <1>6. run \in [Runs -> RunRecs] /\ \A r \in Runs : run[r].d = None
    BY DEF Init, RunRecs
  <1>7. exec \in [Execs -> ExecRecs] /\ \A e \in Execs : exec[e].ph = "idle"
    BY DEF Init, Idle, ExecRecs, Phases
  <1>8. adm \in [Admitters -> AdmRecs] /\ \A a \in Admitters : adm[a].pc = "idle"
    BY DEF Init, AdmRecs
  <1>9. TypeOK
    BY <1>3, <1>4, <1>5, <1>6, <1>7, <1>8 DEF Init, TypeOK
  <1>10. \A j \in Jobs : RowOK(log, j, row[j])
    BY <1>5 DEF RowOK, NoRow
  <1> QED BY <1>3, <1>6, <1>7, <1>8, <1>9, <1>10 DEF Inv, RunOK, ExecOK, AdmOK

LEMMA BodyPreserves ==
  ASSUME Inv, NEW e \in Execs, Body(e)
  PROVE  Inv'
  BY EnterStep, ClaimCommandStep, AcquireStep, PauseStep, ResumeStep, PlanStep,
     ConfirmStep, NoopHydrateStep, NoopStep, CommitStep, PushCheckStep,
     PushRecheckStep, PushDeniedStep, PushSendStep, CaptureStep, SpawnStep,
     AwaitChildStep, MergedStep, DiscardStep, RefreshStep, PublishStep,
     HydrateStep, CompleteStep
  DEF Body

LEMMA Stuttering == ASSUME Inv, UNCHANGED vars PROVE Inv'
  <1>1. exec' \in [Execs -> ExecRecs]
    BY DEF vars, Inv, TypeOK
  <1>2. \A f \in Execs : ExecOK(f)'
    <2> TAKE f \in Execs
    <2>1. ExecOK(f)
      BY DEF Inv
    <2> QED BY <2>1 DEF vars, ExecOK
  <1> QED BY <1>1, <1>2, ExecutorsStep DEF vars

LEMMA Preserved == Inv /\ [Next]_vars => Inv'
  <1> SUFFICES ASSUME Inv, [Next]_vars PROVE Inv'
    OBVIOUS
  <1>1. ASSUME NEW a \in Admitters, Admit(a) \/ AdmitError(a) \/ AdmitStop(a)
        PROVE  Inv'
    BY <1>1, AdmitBindStep, AdmitStartStep, AdmitReconcileStep, AdmitErrorStep,
       AdmitStopStep DEF Admit
  <1>2. ASSUME NEW old \in SUBSET Jobs, TipCheck(old)
        PROVE  Inv'
    BY <1>2, TipCheckStep
  <1>3. ASSUME NEW j \in Jobs, Poll(j)
        PROVE  Inv'
    BY <1>3, PollStep
  <1>4. ASSUME NEW e \in Execs,
               (\E r \in Runs : Claim(e, r)) \/ Record(e) \/ Body(e) \/ StepError(e)
        PROVE  Inv'
    BY <1>4, ClaimStep, RecordStep, BodyPreserves, StepErrorStep
  <1>5. ASSUME NEW e \in Execs, Crash(e)
        PROVE  Inv'
    BY <1>5, IdleStep DEF Crash
  <1>6. CASE HumanCommit \/ SetAccess \/ Relink \/ CaptureTip
    BY <1>6, PeopleStep
  <1>7. CASE UNCHANGED vars
    BY <1>7, Stuttering
  <1> QED BY <1>1, <1>2, <1>3, <1>4, <1>5, <1>6, <1>7 DEF Next, Work, Disturbance

\* The inductive invariant holds of the specification.
THEOREM Invariance == Spec => []Inv
  <1> QED BY Initially, Preserved, PTL DEF Spec

\* Type correctness: every row, run, executor and branch of the lane keeps its
\* shape, however many there are.
THEOREM TypeCorrect == Spec => []TypeOK
  <1>1. Inv => TypeOK
    BY DEF Inv
  <1> QED BY <1>1, Invariance, PTL

\* A completed file edit that names a commit names one that is on the branch
\* the job was bound to, for any number of executors inside the same run: a
\* stalled worker that lost its lease cannot break it.
THEOREM FileEditsArePublished == Spec => []FileEditIsPublished
  <1>1. Inv => FileEditIsPublished
    <2> SUFFICES ASSUME Inv, NEW j \in Jobs,
                        row[j].kind = "ui_file_edit", row[j].status = "completed",
                        row[j].commit # None
                 PROVE  row[j].commit \in Published(row[j].rev.url)
      BY DEF FileEditIsPublished
    <2>1. RowOK(log, j, row[j])
      BY DEF Inv
    <2> QED BY <2>1 DEF RowOK, FileEdit, Published, PublishedIn
  <1> QED BY <1>1, Invariance, PTL

\* What the steps may do to a row that is completed with a commit.
LEMMA FinalRow ==
  ASSUME Inv, [Next]_vars, NEW j \in Jobs,
         row[j].status = "completed", row[j].commit # None
  PROVE  row'[j] = row[j]
  <1> DEFINE w == row[j]
  <1>1. w \in Rows /\ w.owner /\ row \in [Jobs -> Rows]
    BY DEF Inv, TypeOK, RowOK
  <1>2. ASSUME NEW e \in Execs, Body(e)
        PROVE  row'[j] = w
    <2>1. CASE UNCHANGED row
      BY <2>1
    <2>2. CASE Enter(e)
      <3> DEFINE i == exec[e].on[1]
      <3>1. i = j => FailEnded(i, row[i], {"queued", "running", "paused"}) = w
        BY DEF FailEnded
      <3>2. row'[j] = w \/ i = j
        BY <1>1, <2>2 DEF Enter
      <3> QED BY <1>1, <2>2, <3>1, <3>2 DEF Enter
    <2>4. CASE ClaimCommand(e)
      BY <1>1, <2>4 DEF ClaimCommand, Claimable
    <2>5. CASE Commit(e)
      BY <1>1, <2>5 DEF Commit, JobOf
    <2>6. CASE Capture(e)
      BY <1>1, <2>6 DEF Capture
    <2>7. CASE Discard(e)
      BY <1>1, <2>7 DEF Discard
    <2>8. CASE Merged(e) \/ Complete(e)
      BY <1>1, <2>8 DEF Merged, Complete, SetResult
    <2>9. CASE Noop(e) \/ Pause(e) \/ Resume(e)
      BY <1>1, <2>9 DEF Noop, Pause, Resume, SetStatus, SetResult
    <2> QED BY <1>2, <2>1, <2>2, <2>4, <2>5, <2>6, <2>7, <2>8, <2>9
            DEF Body, Acquire, Plan, Confirm, NoopHydrate, PushCheck,
                PushRecheck, PushDenied, PushSend, Spawn, AwaitChild, Refresh,
                Publish, Hydrate
  <1>3. ASSUME NEW i \in Jobs, NEW S, "completed" \notin S, i = j
        PROVE  FailEnded(i, row[i], S) = w
    BY <1>3 DEF FailEnded
  <1>4. ASSUME NEW a \in Admitters, NEW i \in Jobs, NEW kind \in Kinds,
               AdmitBind(a, i, kind)
        PROVE  row'[j] = w
    <2>1. CASE i = j
      <3>1. FailEnded(i, row[i], {"queued", "running", "paused"}) = w
        BY <1>3, <2>1
      <3> QED BY <1>1, <1>4, <2>1, <3>1 DEF AdmitBind
    <2>2. CASE i # j
      BY <1>1, <1>4, <2>2 DEF AdmitBind
    <2> QED BY <2>1, <2>2
  <1>5. ASSUME NEW a \in Admitters, AdmitReconcile(a)
        PROVE  row'[j] = w
    <2>1. [w EXCEPT !.owner = TRUE] = w
      BY <1>1 DEF Rows
    <2> QED BY <1>1, <1>5, <2>1 DEF AdmitReconcile
  <1>6. ASSUME NEW old \in SUBSET Jobs, TipCheck(old)
        PROVE  row'[j] = w
    <2>1. FailEnded(j, row[j], {"queued", "running"}) = w
      BY <1>3
    <2> QED BY <1>1, <1>6, <2>1 DEF TipCheck
  <1>7. ASSUME NEW i \in Jobs, Poll(i)
        PROVE  row'[j] = w
    <2>1. i = j => FailEnded(i, row[i], {"queued", "running", "paused"}) = w
      BY <1>3
    <2> QED BY <1>1, <1>7, <2>1 DEF Poll
  <1>8. CASE UNCHANGED row
    BY <1>8
  <1> QED BY <1>2, <1>4, <1>5, <1>6, <1>7, <1>8
          DEF Next, Work, Disturbance, Admit, AdmitStart, AdmitError, AdmitStop,
              CaptureTip, HumanCommit, SetAccess, Relink, Crash, StepError,
              Claim, Record, vars

\* A result with a commit is final: no late step of any number of executors, no
\* admission and no reconciliation changes the row of such a job again.
THEOREM PublishedResultsAreFinal == Spec => PublishedIsFinal
  <1>1. Inv /\ [Next]_vars =>
          [\A j \in Jobs :
             row[j].status = "completed" /\ row[j].commit # None => row'[j] = row[j]]_vars
    BY FinalRow
  <1> QED BY <1>1, Invariance, PTL DEF Spec, PublishedIsFinal

-----------------------------------------------------------------------------
(* The invariant under exclusive leases *)

\* No two executors are inside the same run: a lease runs out only when the
\* worker that held it has stopped.
Exclusive ==
  \A e, f \in Execs :
    exec[e].ph # "idle" /\ exec[f].ph # "idle" /\ exec[e].on = exec[f].on
      => e = f

\* The steps before the push, and those that a job without a change ends with.
Clean == {"claim", "acquire", "pause", "resume", "plan", "confirm", "commit",
          "discard", "refresh", "capture", "spawn"}
Unchanging == {"noopHydrate", "noop"}
Pushing == {"push", "pausePush", "resumePush"}

\* The steps of a root run at which its row names no candidate.
Unprepared == {"claim", "acquire", "pause", "resume", "plan", "confirm",
               "noopHydrate", "noop", "refresh"}

\* A child run neither claims its row nor records a result on it.
ChildSteps == {"acquire", "pause", "resume", "plan", "confirm", "noopHydrate",
               "commit", "push", "pausePush", "resumePush", "discard",
               "refresh", "publish", "hydrate"}

\* A root run waits for its child, or took over the result of it.
Waiting == {"child", "merged"}

OfJob(x, j) == x.commit # None /\ x.commit.job = j

Unpublished(lg, j) ==
  \A u \in Urls : \A p \in DOMAIN lg[u] : ~OfJob(lg[u][p], j)

\* The one commit of j is c, on branch u.
Once(lg, j, u, c) ==
  \E p \in DOMAIN lg[u] :
    /\ lg[u][p].commit = c
    /\ \A v \in Urls : \A q \in DOMAIN lg[v] :
         OfJob(lg[v][q], j) => v = u /\ q = p

\* Revision n of branch u holds c.
Holds(lg, u, c, n) == \E p \in DOMAIN lg[u] : p <= n /\ lg[u][p].commit = c

\* What has been pushed to u and hydrated (h) fits the history d of the run
\* that does the work of job j.
Working(lg, u, h, j, d) ==
  /\ d.pc \in Clean => Unpublished(lg, j) /\ h = 0
  /\ d.pc \in Unchanging => Unpublished(lg, j)
  /\ d.pc \in Prepared => d.cand.job = j
  /\ d.pc \in Pushing => h = 0 /\ (Unpublished(lg, j) \/ Once(lg, j, u, d.cand))
  /\ d.pc = "publish" => h = 0 /\ Once(lg, j, u, d.cand)
  /\ d.pc = "hydrate" => /\ Once(lg, j, u, d.cand)
                         /\ Holds(lg, u, d.cand, d.pub)
                         /\ h = 0 \/ Holds(lg, u, d.cand, h)
  /\ d.pc = "complete" => Once(lg, j, u, d.cand) /\ Holds(lg, u, d.cand, h)

\* A root run with history d may have completed its row w.
Recorded(w, d) ==
  \/ d.pc = "noop" /\ w.commit = None
  \/ d.pc = "complete" /\ w.commit = d.cand
  \/ d.pc = "merged" /\ w.commit = d.res

\* The row w of a root run with history d.
RowFits(w, d) ==
  /\ d.pc \in Unprepared => w.commit = None
  /\ w.status = "completed" => Recorded(w, d)
  /\ d.st = "completed" => w.status = "completed" /\ w.commit = d.res

\* A root run works until it has spawned its child, which works from then on:
\* c is the history of the child, or None.
RootFits(lg, w, h, j, d, c) ==
  /\ RowFits(w, d)
  /\ c = None => d.pc \notin Waiting /\ Working(lg, w.rev.url, h, j, d)
  /\ c # None => /\ d.pc \in Waiting \cup {"spawn"}
                 /\ d.pc = "merged" => c.st = "completed" /\ d.res = c.res

ChildFits(lg, u, h, j, d) ==
  /\ d.pc \in ChildSteps /\ Working(lg, u, h, j, d)
  /\ d.st = "completed" =>
       \/ d.pc = "noopHydrate" /\ d.res = None
       \/ d.pc = "hydrate" /\ d.res = d.cand /\ Holds(lg, u, d.cand, h)

\* Job j with row w, root history d and child history c: without a run it has
\* nothing but its row.
JobFits(lg, w, h, j, d, c) ==
  /\ d = None => /\ c = None /\ w.status # "completed" /\ w.commit = None
                 /\ Unpublished(lg, j) /\ h = 0
  /\ d # None => RootFits(lg, w, h, j, d, c)
  /\ c # None => ChildFits(lg, w.rev.url, h, j, c)

RootOf(j) == run[<<j, "root">>].d
ChildOf(j) == run[<<j, "child">>].d

JobOK(j) == JobFits(log, row[j], hyd[j], j, RootOf(j), ChildOf(j))

\* The same when d is what run r goes on with.
JobWith(r, d) ==
  JobFits(log, row[r[1]], hyd[r[1]], r[1],
          IF r[2] = "root" THEN d ELSE RootOf(r[1]),
          IF r[2] = "child" THEN d ELSE ChildOf(r[1]))

\* An executor goes on from the history of its run, which it holds the lease
\* of, until it has a step to record.
Alone(e) ==
  exec[e].ph # "idle" =>
    LET r == exec[e].on
    IN /\ run[r].lease = e /\ run[r].d.st = "live"
       /\ exec[e].ph # "record" => exec[e].d = run[r].d
       /\ exec[e].ph = "record" => JobWith(r, exec[e].d)
       /\ exec[e].ph \in {"recheck", "send"} => Unpublished(log, r[1])

LaneInv ==
  /\ \A j \in Jobs : JobOK(j)
  /\ \A e \in Execs : Alone(e)

\* Branches grow, by commits of the jobs J and of people.
Appends(J) ==
  \A u \in Urls :
    /\ DOMAIN log[u] \subseteq DOMAIN log'[u]
    /\ \A p \in DOMAIN log[u] : log'[u][p] = log[u][p]
    /\ \A p \in DOMAIN log'[u] \ DOMAIN log[u] :
         \A i \in Jobs : OfJob(log'[u][p], i) => i \in J

\* Nothing is taken off a branch, so a revision keeps what it holds.
LEMMA HoldsKept ==
  ASSUME NEW J, Appends(J), NEW u \in Urls, NEW c, NEW n, Holds(log, u, c, n)
  PROVE  Holds(log', u, c, n)
  BY DEF Holds, Appends

\* Commits of others change nothing of what job i published.
LEMMA PublishedKept ==
  ASSUME NEW J, Appends(J), NEW i \in Jobs, i \notin J
  PROVE  /\ Unpublished(log, i) => Unpublished(log', i)
         /\ \A u \in Urls : \A c : Once(log, i, u, c) => Once(log', i, u, c)
  <1>1. Unpublished(log, i) => Unpublished(log', i)
    BY DEF Unpublished, Appends, OfJob
  <1>2. ASSUME NEW u \in Urls, NEW c, Once(log, i, u, c)
        PROVE  Once(log', i, u, c)
    <2>1. PICK p \in DOMAIN log[u] :
            /\ log[u][p].commit = c
            /\ \A v \in Urls : \A q \in DOMAIN log[v] :
                 OfJob(log[v][q], i) => v = u /\ q = p
      BY <1>2 DEF Once
    <2>2. p \in DOMAIN log'[u] /\ log'[u][p].commit = c
      BY <2>1 DEF Appends
    <2>3. ASSUME NEW v \in Urls, NEW q \in DOMAIN log'[v], OfJob(log'[v][q], i)
          PROVE  v = u /\ q = p
      <3>1. q \in DOMAIN log[v] /\ log'[v][q] = log[v][q]
        BY <2>3 DEF Appends
      <3> QED BY <2>1, <2>3, <3>1
    <2> QED BY <2>2, <2>3 DEF Once
  <1> QED BY <1>1, <1>2

LEMMA WorkingKept ==
  ASSUME NEW J, Appends(J), NEW i \in Jobs, i \notin J, NEW u \in Urls, NEW h, NEW d,
         Working(log, u, h, i, d)
  PROVE  Working(log', u, h, i, d)
  <1>1. /\ Unpublished(log, i) => Unpublished(log', i)
        /\ Once(log, i, u, d.cand) => Once(log', i, u, d.cand)
        /\ Holds(log, u, d.cand, h) => Holds(log', u, d.cand, h)
        /\ Holds(log, u, d.cand, d.pub) => Holds(log', u, d.cand, d.pub)
    BY PublishedKept, HoldsKept
  <1> QED BY <1>1 DEF Working

\* Nothing changes in row w that its runs look at.
Alike(w, x) ==
  /\ x.commit = w.commit
  /\ x.status = "completed" <=> w.status = "completed"

\* A job fits on, when others push and when its own row is queued, paused or
\* failed.
LEMMA JobFitsOn ==
  ASSUME NEW J, Appends(J), NEW i \in Jobs, i \notin J, NEW h, NEW w, NEW x, Alike(w, x),
         NEW d, NEW c, JobFits(log, w, h, i, d, c),
         d # None \/ c # None => x.rev = w.rev /\ w.rev.url \in Urls
  PROVE  JobFits(log', x, h, i, d, c)
  <1>1. CASE d = None
    <2>1. Unpublished(log, i) => Unpublished(log', i)
      BY PublishedKept
    <2> QED BY <1>1, <2>1 DEF JobFits, Alike
  <1>2. CASE d # None
    <2>1. RowFits(w, d) => RowFits(x, d)
      BY DEF RowFits, Recorded, Alike
    <2>2. \A y : Working(log, w.rev.url, h, i, y) => Working(log', x.rev.url, h, i, y)
      BY <1>2, WorkingKept
    <2>3. \A k : Holds(log, w.rev.url, k, h) => Holds(log', x.rev.url, k, h)
      BY <1>2, HoldsKept
    <2>4. RootFits(log', x, h, i, d, c)
      BY <1>2, <2>1, <2>2 DEF JobFits, RootFits
    <2>5. c # None => ChildFits(log', x.rev.url, h, i, c)
      BY <1>2, <2>2, <2>3 DEF JobFits, ChildFits
    <2> QED BY <1>2, <2>4, <2>5 DEF JobFits
  <1> QED BY <1>1, <1>2

\* The rows and runs of the lane, as Inv knows them.
LEMMA LaneRows ==
  ASSUME Inv, NEW j \in Jobs
  PROVE  /\ <<j, "root">> \in Runs /\ <<j, "child">> \in Runs
         /\ row[j] \in Rows /\ hyd[j] \in Nat
         /\ row[j].status = "none" => RootOf(j) = None /\ ChildOf(j) = None
         /\ RootOf(j) # None \/ ChildOf(j) # None =>
              row[j].rev \in Revisions /\ row[j].rev.url \in Urls
         /\ RootOf(j) # None => RootOf(j) \in Durable
         /\ ChildOf(j) # None => ChildOf(j) \in Durable
  <1>1. /\ <<j, "root">> \in Runs /\ <<j, "child">> \in Runs
        /\ <<j, "root">>[1] = j /\ <<j, "child">>[1] = j
    BY DEF Runs, Roles
  <1>2. row[j] \in Rows /\ hyd[j] \in Nat /\ RowOK(log, j, row[j])
    BY DEF Inv, TypeOK
  <1>3. RunOK(<<j, "root">>) /\ RunOK(<<j, "child">>)
    BY <1>1 DEF Inv
  <1>4. row[j].status # "none" => row[j].rev \in Revisions /\ row[j].rev.url \in Urls
    BY <1>2 DEF RowOK, Revisions
  <1>5. /\ RootOf(j) # None => row[j].status # "none" /\ RootOf(j) \in Durable
        /\ ChildOf(j) # None => row[j].status # "none" /\ ChildOf(j) \in Durable
    BY <1>1, <1>3 DEF RunOK, Sound, RootOf, ChildOf
  <1> QED BY <1>1, <1>2, <1>4, <1>5

\* The job and the runs of an executor that is busy.
LEMMA LaneExec ==
  ASSUME Inv, NEW e \in Execs, exec[e].ph # "idle"
  PROVE  LET r == exec[e].on
             j == r[1]
         IN /\ r \in Runs /\ j \in Jobs /\ r[2] \in Roles /\ r = <<j, r[2]>>
            /\ run[r].d # None /\ exec[e].d # None /\ exec[e].d \in Durable
            /\ r[2] = "root" => run[r].d = RootOf(j)
            /\ r[2] = "child" => run[r].d = ChildOf(j)
            /\ row[j].status # "none"
            /\ exec[e].d.rev.url = row[j].rev.url
            /\ row[j].rev.url \in Urls
            /\ exec[e] \in ExecRecs
  <1> DEFINE r == exec[e].on
  <1>1. r \in Runs /\ exec[e].d \in Durable /\ run[r].d # None
    BY Busy
  <1>2. r[1] \in Jobs /\ r[2] \in Roles /\ r = <<r[1], r[2]>>
    BY <1>1 DEF Runs
  <1>3. exec[e].d # None
    BY <1>1, NoneAssumption
  <1>4. /\ row[r[1]].status # "none" /\ exec[e].d.rev.url = row[r[1]].rev.url
        /\ row[r[1]].rev.url \in Urls /\ exec[e] \in ExecRecs
    BY Busy DEF Sound, JobOf
  <1> QED BY <1>1, <1>2, <1>3, <1>4 DEF RootOf, ChildOf

-----------------------------------------------------------------------------
(* Steps outside the bodies, under exclusive leases *)

\* A step that no run takes: people, admissions and reconciliations.
LEMMA OutsideLane ==
  ASSUME Inv, LaneInv, Appends({}), UNCHANGED <<run, hyd>>,
         \A e \in Execs : exec'[e] = exec[e] \/ exec'[e].ph = "idle",
         \A i \in Jobs : /\ Alike(row[i], row'[i])
                         /\ row[i].status # "none" => row'[i].rev = row[i].rev
  PROVE  LaneInv'
  <1>1. ASSUME NEW j \in Jobs, NEW d, NEW c, JobFits(log, row[j], hyd[j], j, d, c),
               row[j].status # "none" \/ (d = None /\ c = None)
        PROVE  JobFits(log', row'[j], hyd'[j], j, d, c)
    <2>1. row[j].status # "none" => row[j].rev.url \in Urls
      BY DEF Inv, RowOK, Revisions
    <2> QED BY <1>1, <2>1, JobFitsOn
  <1>2. ASSUME NEW j \in Jobs
        PROVE  JobOK(j)'
    <2>1. JobOK(j)
      BY DEF LaneInv
    <2>2. row[j].status # "none" \/ (RootOf(j) = None /\ ChildOf(j) = None)
      BY LaneRows
    <2>3. JobFits(log', row'[j], hyd'[j], j, RootOf(j), ChildOf(j))
      BY <1>1, <2>1, <2>2 DEF JobOK
    <2> QED BY <2>3 DEF JobOK, RootOf, ChildOf
  <1>3. ASSUME NEW e \in Execs
        PROVE  Alone(e)'
    <2>1. CASE exec'[e].ph = "idle"
      BY <2>1 DEF Alone
    <2>2. CASE exec'[e].ph # "idle"
      <3> DEFINE r == exec[e].on
                 j == r[1]
      <3>1. exec'[e] = exec[e] /\ exec[e].ph # "idle" /\ Alone(e)
        BY <2>2 DEF LaneInv
      <3>2. j \in Jobs /\ row[j].status # "none"
        BY <3>1, LaneExec
      <3>3. JobWith(r, exec[e].d) => JobWith(r, exec[e].d)'
        <4>1. JobWith(r, exec[e].d) =>
                JobFits(log', row'[j], hyd'[j], j,
                        IF r[2] = "root" THEN exec[e].d ELSE RootOf(j),
                        IF r[2] = "child" THEN exec[e].d ELSE ChildOf(j))
          BY <1>1, <3>2 DEF JobWith
        <4> QED BY <3>1, <4>1 DEF JobWith, RootOf, ChildOf
      <3>4. Unpublished(log, j) => Unpublished(log', j)
        BY <3>2, PublishedKept
      <3> QED BY <3>1, <3>3, <3>4 DEF Alone
    <2> QED BY <2>1, <2>2
  <1> QED BY <1>2, <1>3 DEF LaneInv

LEMMA NoAppend == ASSUME log' = log, NEW J PROVE Appends(J)
  BY DEF Appends

\* What is done to rows outside the bodies changes nothing that runs look at.
LEMMA TouchedAlike ==
  ASSUME NEW w, NEW x, Touched(w, x), w.status # "completed" \/ x = w
  PROVE  Alike(w, x) /\ x.rev = w.rev
  BY DEF Touched, Alike

LEMMA FailEndedAlike ==
  ASSUME NEW j \in Jobs, NEW w \in Rows, NEW S, "none" \notin S, "completed" \notin S
  PROVE  /\ Alike(w, FailEnded(j, w, S)) /\ FailEnded(j, w, S).rev = w.rev
         /\ FailEnded(j, w, S) \in Rows
         /\ w.status = "completed" => FailEnded(j, w, S) = w
  <1>1. Touched(w, FailEnded(j, w, S))
    BY FailEndedTouches
  <1>2. w.status = "completed" => FailEnded(j, w, S) = w
    BY DEF FailEnded
  <1>3. FailEnded(j, w, S) \in Rows
    BY DEF FailEnded, Rows, Statuses
  <1> QED BY <1>1, <1>2, <1>3, TouchedAlike

LEMMA PeopleAppends ==
  ASSUME Inv, HumanCommit \/ SetAccess \/ Relink \/ CaptureTip
  PROVE  Appends({})
  <1>1. CASE log' = log
    BY <1>1, NoAppend
  <1>2. CASE HumanCommit
    <2>1. PICK u \in Urls, T \in SUBSET Jobs :
            log' = [log EXCEPT ![u] = Append(@, [commit |-> None, tree |-> T])]
      BY <1>2 DEF HumanCommit
    <2> DEFINE x == [commit |-> None, tree |-> T]
    <2>2. x.commit = None
      OBVIOUS
    <2> HIDE DEF x
    <2>3. /\ DOMAIN log[u] = 1..Len(log[u]) /\ log'[u] = Append(log[u], x)
          /\ log[u] \in Seq(Entries) /\ Len(log[u]) \in Nat
          /\ \A v \in Urls : v # u => log'[v] = log[v]
      BY <2>1 DEF Inv, TypeOK, x
    <2>4. /\ DOMAIN log'[u] = 1..(Len(log[u]) + 1)
          /\ \A p \in 1..Len(log[u]) : log'[u][p] = log[u][p]
          /\ log'[u][Len(log[u]) + 1] = x
      BY <2>3
    <2>5. \A i \in Jobs : ~OfJob(x, i)
      BY <2>2 DEF OfJob
    <2> QED BY <2>3, <2>4, <2>5 DEF Appends
  <1> QED BY <1>1, <1>2 DEF SetAccess, Relink, CaptureTip

LEMMA PeopleLane ==
  ASSUME Inv, LaneInv, HumanCommit \/ SetAccess \/ Relink \/ CaptureTip
  PROVE  LaneInv'
  <1>1. UNCHANGED <<row, run, exec, hyd>>
    BY DEF HumanCommit, SetAccess, Relink, CaptureTip
  <1>2. Appends({})
    BY PeopleAppends
  <1> QED BY <1>1, <1>2, OutsideLane DEF Alike

LEMMA PollLane ==
  ASSUME Inv, LaneInv, NEW j \in Jobs, Poll(j)
  PROVE  LaneInv'
  <1> DEFINE w == FailEnded(j, row[j], {"queued", "running", "paused"})
  <1>1. row' = [row EXCEPT ![j] = w] /\ UNCHANGED <<log, run, exec, hyd>>
    BY DEF Poll
  <1>2. Alike(row[j], w) /\ w.rev = row[j].rev
    BY FailEndedAlike DEF Inv, TypeOK
  <1> HIDE DEF w
  <1>3. \A i \in Jobs : Alike(row[i], row'[i]) /\ row'[i].rev = row[i].rev
    BY <1>1, <1>2 DEF Alike, Inv, TypeOK
  <1> QED BY <1>1, <1>3, NoAppend, OutsideLane

LEMMA TipCheckLane ==
  ASSUME Inv, LaneInv, NEW old \in SUBSET Jobs, TipCheck(old)
  PROVE  LaneInv'
  <1> DEFINE stale == [j \in Jobs |->
               IF j \in old THEN FailEnded(j, row[j], {"queued", "running"})
                            ELSE row[j]]
             lost == [j \in Jobs |->
               IF j \in old /\ stale[j].status = "queued" /\ Orphan(j)
                 THEN [stale[j] EXCEPT !.status =
                         IF SameBinding(stale[j].rev) THEN "paused" ELSE "failed"]
                 ELSE stale[j]]
             claimed == {j \in Jobs : /\ lost[j].status = "paused"
                                      /\ ~lost[j].owner
                                      /\ SameBinding(lost[j].rev)}
             next == [j \in Jobs |->
               IF j \in claimed THEN [lost[j] EXCEPT !.status = "queued"] ELSE lost[j]]
  <1>1. /\ UNCHANGED <<log, run, exec, hyd>>
        /\ UNCHANGED row \/ row' = next
    BY DEF TipCheck
  <1>2. ASSUME NEW j \in Jobs
        PROVE  Alike(row[j], next[j]) /\ next[j].rev = row[j].rev
    <2>1. row[j] \in Rows
      BY DEF Inv, TypeOK
    <2>2. Alike(row[j], stale[j]) /\ stale[j].rev = row[j].rev /\ stale[j] \in Rows
      BY <2>1, FailEndedAlike DEF Alike
    <2> HIDE DEF stale
    <2>3. Alike(row[j], lost[j]) /\ lost[j].rev = row[j].rev /\ lost[j] \in Rows
      <3>1. CASE lost[j] = stale[j]
        BY <2>2, <3>1
      <3>2. CASE lost[j] # stale[j]
        <4>1. PICK st \in {"paused", "failed"} :
                lost[j] = [stale[j] EXCEPT !.status = st] /\ stale[j].status = "queued"
          BY <3>2
        <4> QED BY <2>2, <4>1 DEF Alike, Rows, Statuses
      <3> QED BY <3>1, <3>2
    <2>4. \/ next[j] = lost[j]
          \/ lost[j].status = "paused" /\ next[j] = [lost[j] EXCEPT !.status = "queued"]
      OBVIOUS
    <2> HIDE DEF lost, next
    <2> QED BY <2>3, <2>4 DEF Alike, Rows
  <1> HIDE DEF next
  <1>3. \A i \in Jobs : Alike(row[i], row'[i]) /\ row'[i].rev = row[i].rev
    BY <1>1, <1>2 DEF Alike
  <1> QED BY <1>1, <1>3, NoAppend, OutsideLane

LEMMA AdmitBindLane ==
  ASSUME Inv, LaneInv, NEW a \in Admitters, NEW j \in Jobs, NEW kind \in Kinds,
         AdmitBind(a, j, kind)
  PROVE  LaneInv'
  <1> DEFINE old == FailEnded(j, row[j], {"queued", "running", "paused"})
  <1> DEFINE want == IF allowed THEN "queued" ELSE "paused"
             rev == [gen |-> ws.gen, url |-> ws.url,
                     sha |-> IF ws.desired = 0 THEN Tip(ws.url) ELSE ws.desired]
             new == IF old.status = "none"
                      THEN [NoRow EXCEPT !.status = want, !.kind = kind, !.rev = rev]
                      ELSE IF /\ SameBinding(old.rev)
                              /\ ~old.owner
                              /\ old.status \in {"failed", "paused"}
                        THEN [old EXCEPT !.status = want]
                        ELSE old
  <1>1. UNCHANGED <<log, run, exec, hyd>> /\ row' = [row EXCEPT ![j] = new]
    BY DEF AdmitBind
  <1>2. /\ Alike(row[j], old) /\ old.rev = row[j].rev /\ old \in Rows
        /\ old.status = "none" => row[j].status = "none"
    <2>1. row[j] \in Rows
      BY DEF Inv, TypeOK
    <2>2. old.status = "none" => row[j].status = "none"
      BY <2>1 DEF FailEnded, Rows
    <2> QED BY <2>1, <2>2, FailEndedAlike
  <1>3. row[j].status = "none" => row[j].commit = None
    BY DEF Inv, RowOK, NoRow
  <1> HIDE DEF old, rev
  <1>4. want # "completed" /\ want # "none"
    OBVIOUS
  <1> HIDE DEF want
  <1>5. Alike(row[j], new) /\ (row[j].status # "none" => new.rev = row[j].rev)
    <2>1. CASE old.status = "none"
      <3>1. new.status = want /\ new.commit = None
        BY <2>1 DEF NoRow
      <3> QED BY <1>2, <1>3, <1>4, <2>1, <3>1 DEF Alike
    <2>2. CASE old.status # "none" /\ new = old
      BY <1>2, <2>2 DEF Alike
    <2>3. CASE new = [old EXCEPT !.status = want] /\ old.status \in {"failed", "paused"}
      BY <1>2, <1>4, <2>3 DEF Alike, Rows
    <2> QED BY <2>1, <2>2, <2>3
  <1> HIDE DEF new
  <1>6. \A i \in Jobs : /\ Alike(row[i], row'[i])
                        /\ row[i].status # "none" => row'[i].rev = row[i].rev
    BY <1>1, <1>5 DEF Alike, Inv, TypeOK
  <1> QED BY <1>1, <1>6, NoAppend, OutsideLane

LEMMA AdmitReconcileLane ==
  ASSUME Inv, LaneInv, NEW a \in Admitters, AdmitReconcile(a)
  PROVE  LaneInv'
  <1>1. PICK j \in Jobs : j = adm[a].job
    BY DEF AdmitReconcile, Inv, AdmOK
  <1>2. row[j] \in Rows
    BY DEF Inv, TypeOK
  <1>3. /\ UNCHANGED <<log, run, exec, hyd>>
        /\ \/ row' = [row EXCEPT ![j] = [row[j] EXCEPT !.owner = TRUE]]
           \/ /\ row[j].status \in {"queued", "paused"}
              /\ row' = [row EXCEPT ![j] = [row[j] EXCEPT !.status = "failed"]]
           \/ row' = row
    BY <1>1 DEF AdmitReconcile, Inv, TypeOK
  <1>4. /\ Alike(row[j], [row[j] EXCEPT !.owner = TRUE])
        /\ row[j].status # "completed" => Alike(row[j], [row[j] EXCEPT !.status = "failed"])
        /\ [row[j] EXCEPT !.owner = TRUE].rev = row[j].rev
        /\ [row[j] EXCEPT !.status = "failed"].rev = row[j].rev
    BY <1>2 DEF Alike, Rows
  <1>5. \A i \in Jobs : Alike(row[i], row'[i]) /\ row'[i].rev = row[i].rev
    <2>1. CASE row' = row
      BY <2>1 DEF Alike
    <2>2. CASE row' # row
      <3>1. PICK w : /\ row' = [row EXCEPT ![j] = w]
                     /\ Alike(row[j], w) /\ w.rev = row[j].rev
        BY <1>3, <1>4, <2>2
      <3> QED BY <3>1 DEF Alike, Inv, TypeOK
    <2> QED BY <2>1, <2>2
  <1> QED BY <1>3, <1>5, NoAppend, OutsideLane

\* A job whose run is queued had nothing but its row.
LEMMA QueueLane ==
  ASSUME Inv, LaneInv, NEW j \in Jobs, row[j].status # "none", QueueRoot(j),
         UNCHANGED <<log, row, exec, hyd>>
  PROVE  LaneInv'
  <1> DEFINE r == <<j, "root">>
             d == Fresh("claim", row[j].rev, None)
  <1>1. CASE run[r].d # None
    <2>1. UNCHANGED run
      BY <1>1 DEF QueueRoot, Exists
    <2> QED BY <2>1, NoAppend, OutsideLane DEF Alike
  <1>2. CASE run[r].d = None
    <2>1. run' = [run EXCEPT ![r].d = d] /\ r \in Runs
      BY <1>2 DEF QueueRoot, Exists, Runs, Roles
    <2>2. /\ run'[r].d = d
          /\ \A s \in Runs : s # r => run'[s] = run[s]
      BY <2>1 DEF Inv, TypeOK, RunRecs
    <2>3. d.pc = "claim" /\ d.st = "live" /\ d # None
      <3>1. row[j].rev \in Revisions
        BY DEF Inv, RowOK
      <3>2. d \in Durable
        BY <3>1 DEF Fresh, Durable, Steps
      <3> QED BY <3>2, NoneAssumption DEF Fresh
    <2> HIDE DEF d
    <2>4. ASSUME NEW i \in Jobs PROVE JobOK(i)'
      <3>1. JobOK(i)
        BY DEF LaneInv
      <3>2. CASE i = j
        <4>1. RootOf(j) = None /\ RootOf(j)' = d /\ ChildOf(j)' = ChildOf(j)
          <5>1. <<j, "child">> \in Runs /\ <<j, "child">> # r
            BY DEF Runs, Roles
          <5> QED BY <1>2, <2>2, <5>1 DEF RootOf, ChildOf
        <4>2. /\ ChildOf(j) = None /\ row[j].status # "completed" /\ row[j].commit = None
              /\ Unpublished(log, j) /\ hyd[j] = 0
          BY <3>1, <3>2, <4>1 DEF JobOK, JobFits
        <4>3. RootFits(log, row[j], hyd[j], j, d, None)
          BY <2>3, <4>2 DEF RootFits, RowFits, Working, Waiting, Clean, Unchanging,
                            Prepared, Pushing
        <4> QED BY <3>2, <4>1, <4>2, <4>3, <2>3 DEF JobOK, JobFits
      <3>3. CASE i # j
        <4>1. RootOf(i)' = RootOf(i) /\ ChildOf(i)' = ChildOf(i)
          BY <2>2, <3>3 DEF RootOf, ChildOf, Runs, Roles
        <4> QED BY <3>1, <4>1 DEF JobOK
      <3> QED BY <3>2, <3>3
    <2>5. ASSUME NEW e \in Execs, exec[e].ph # "idle" PROVE Alone(e)'
      <3> DEFINE s == exec[e].on
      <3>1. /\ Alone(e) /\ s \in Runs /\ s[1] \in Jobs /\ s[2] \in Roles
            /\ s = <<s[1], s[2]>> /\ run[s].d # None
        BY <2>5, LaneExec DEF LaneInv
      <3>2. s # r /\ s[1] # j
        <4>1. s # r
          BY <1>2, <3>1
        <4>2. ChildOf(j) = None
          BY <1>2 DEF LaneInv, JobOK, JobFits, RootOf
        <4>3. s[1] = j => s[2] = "root"
          BY <3>1, <4>2 DEF ChildOf, Roles
        <4> QED BY <3>1, <4>1, <4>3
      <3>3. run'[s] = run[s] /\ RootOf(s[1])' = RootOf(s[1]) /\ ChildOf(s[1])' = ChildOf(s[1])
        BY <2>2, <3>1, <3>2 DEF RootOf, ChildOf, Runs, Roles
      <3>4. JobWith(s, exec[e].d) => JobWith(s, exec[e].d)'
        BY <3>3 DEF JobWith
      <3> QED BY <3>1, <3>3, <3>4 DEF Alone
    <2>6. \A e \in Execs : exec[e].ph = "idle" => Alone(e)'
      BY DEF Alone
    <2> QED BY <2>4, <2>5, <2>6 DEF LaneInv
  <1> QED BY <1>1, <1>2

LEMMA AdmitLane ==
  ASSUME Inv, LaneInv, NEW a \in Admitters, Admit(a) \/ AdmitError(a) \/ AdmitStop(a)
  PROVE  LaneInv'
  <1>1. CASE AdmitStart(a) \/ AdmitError(a)
    <2>1. adm[a].job \in Jobs /\ row[adm[a].job].status # "none"
      BY <1>1 DEF AdmitStart, AdmitError, Inv, AdmOK
    <2>2. UNCHANGED <<log, row, exec, hyd>>
      BY <1>1 DEF AdmitStart, AdmitError
    <2>3. QueueRoot(adm[a].job) \/ UNCHANGED run
      BY <1>1 DEF AdmitStart, AdmitError
    <2>4. UNCHANGED run => LaneInv'
      BY <2>2, NoAppend, OutsideLane DEF Alike
    <2> QED BY <2>1, <2>2, <2>3, <2>4, QueueLane
  <1>2. CASE AdmitStop(a)
    BY <1>2, NoAppend, OutsideLane DEF AdmitStop, Alike
  <1> QED BY <1>1, <1>2, AdmitBindLane, AdmitReconcileLane DEF Admit

-----------------------------------------------------------------------------
(* Steps of executors, under exclusive leases *)

\* While its child lives, a root run is at the spawn or waits, and nothing that
\* the child does concerns it but the end of the job.
LEMMA ParentFits ==
  ASSUME NEW lg, NEW w, NEW h, NEW j, NEW d, NEW c,
         RootFits(lg, w, h, j, d, c), c # None, c.st = "live",
         NEW m, NEW x, NEW k, NEW n, n # None, x.status # "completed"
  PROVE  RootFits(m, x, k, j, d, n)
  BY DEF RootFits, RowFits, Recorded, Waiting, Unprepared

LEMMA ParentLives ==
  ASSUME NEW lg, NEW w, NEW h, NEW j, NEW d, NEW c,
         RootFits(lg, w, h, j, d, c), c # None, c.st = "live"
  PROVE  w.status # "completed"
  BY DEF RootFits, RowFits, Recorded, Waiting

\* An executor in the middle of a run: the other executors are elsewhere.
LEMMA CrashLane ==
  ASSUME Inv, LaneInv, NEW e \in Execs, Crash(e)
  PROVE  LaneInv'
  <1>1. UNCHANGED <<log, row, run, hyd>> /\ exec' = [exec EXCEPT ![e] = Idle]
    BY DEF Crash
  <1>2. \A f \in Execs : exec'[f] = exec[f] \/ exec'[f].ph = "idle"
    BY <1>1 DEF Inv, TypeOK, Idle
  <1> QED BY <1>1, <1>2, NoAppend, OutsideLane DEF Alike

\* The lease of r goes to e, which nobody else is inside of.
LEMMA ClaimLane ==
  ASSUME Inv, LaneInv, Exclusive', NEW e \in Execs, NEW r \in Runs, Claim(e, r)
  PROVE  LaneInv'
  <1>1. /\ run' = [run EXCEPT ![r].lease = e] /\ run[r].d.st = "live"
        /\ exec' = [exec EXCEPT ![e] = [on |-> r, ph |-> "enter", d |-> run[r].d]]
        /\ UNCHANGED <<log, row, hyd>>
    BY DEF Claim, Ended
  <1>2. /\ \A s \in Runs : run'[s].d = run[s].d /\ (s # r => run'[s] = run[s])
        /\ run'[r].lease = e
        /\ exec'[e].on = r /\ exec'[e].ph = "enter" /\ exec'[e].d = run[r].d
        /\ \A f \in Execs : f # e => exec'[f] = exec[f]
    BY <1>1 DEF Inv, TypeOK, RunRecs
  <1>3. \A j \in Jobs : RootOf(j)' = RootOf(j) /\ ChildOf(j)' = ChildOf(j)
    BY <1>2 DEF RootOf, ChildOf, Runs, Roles
  <1>4. \A j \in Jobs : JobOK(j)'
    BY <1>1, <1>3 DEF LaneInv, JobOK
  <1>5. ASSUME NEW f \in Execs PROVE Alone(f)'
    <2>1. CASE f = e
      BY <2>1, <1>1, <1>2 DEF Alone
    <2>2. CASE f # e /\ exec[f].ph # "idle"
      <3>1. exec[f].on # r
        BY <2>2, <1>2 DEF Exclusive
      <3>2. Alone(f) /\ exec[f].on \in Runs /\ exec[f].on[1] \in Jobs
        BY <2>2, LaneExec DEF LaneInv
      <3>3. JobWith(exec[f].on, exec[f].d) => JobWith(exec[f].on, exec[f].d)'
        BY <1>1, <1>2, <1>3, <2>2, <3>2 DEF JobWith
      <3> QED BY <1>1, <1>2, <2>2, <3>1, <3>2, <3>3 DEF Alone
    <2>3. CASE f # e /\ exec[f].ph = "idle"
      BY <2>3, <1>2 DEF Alone
    <2> QED BY <2>1, <2>2, <2>3
  <1> QED BY <1>4, <1>5 DEF LaneInv

\* The result becomes durable: it fitted the job already.
LEMMA RecordLane ==
  ASSUME Inv, LaneInv, Exclusive, NEW e \in Execs, Record(e),
         NEW r, r = exec[e].on, NEW j, j = r[1], NEW d, d = exec[e].d
  PROVE  LaneInv'
  <1>1. exec[e].ph = "record" /\ UNCHANGED <<log, row, hyd>>
    BY DEF Record
  <1>2. /\ run[r].lease = e /\ run[r].d.st = "live" /\ JobWith(r, d)
        /\ r \in Runs /\ j \in Jobs /\ r[2] \in Roles /\ r = <<j, r[2]>>
        /\ d # None /\ d \in Durable /\ exec[e] \in ExecRecs
    BY <1>1, LaneExec DEF LaneInv, Alone
  <1>3. PICK l \in {None, e} :
          /\ run' = [run EXCEPT ![r] = [d |-> d, lease |-> l]]
          /\ \/ exec' = [exec EXCEPT ![e] = Idle]
             \/ /\ exec' = [exec EXCEPT ![e] = [exec[e] EXCEPT !.ph = "do"]]
                /\ d.st = "live" /\ l = e
    <2>1. [exec EXCEPT ![e] = [@ EXCEPT !.ph = "do"]]
            = [exec EXCEPT ![e] = [exec[e] EXCEPT !.ph = "do"]]
      BY DEF Inv, TypeOK
    <2> QED BY <1>2, <2>1 DEF Record
  <1>4. /\ run'[r].d = d /\ run'[r].lease = l
        /\ \A s \in Runs : s # r => run'[s] = run[s]
        /\ \A f \in Execs : f # e => exec'[f] = exec[f]
        /\ \/ exec'[e].ph = "idle"
           \/ exec'[e].ph = "do" /\ exec'[e].on = r /\ exec'[e].d = d
                /\ d.st = "live" /\ l = e
    BY <1>2, <1>3 DEF Inv, TypeOK, Idle, ExecRecs
  <1>5. /\ RootOf(j)' = IF r[2] = "root" THEN d ELSE RootOf(j)
        /\ ChildOf(j)' = IF r[2] = "child" THEN d ELSE ChildOf(j)
        /\ \A i \in Jobs : i # j => RootOf(i)' = RootOf(i) /\ ChildOf(i)' = ChildOf(i)
    <2>1. <<j, "root">> \in Runs /\ <<j, "child">> \in Runs
      BY <1>2 DEF Runs, Roles
    <2>2. \A i \in Jobs : /\ <<i, "root">> \in Runs /\ <<i, "child">> \in Runs
                          /\ i # j => <<i, "root">> # r /\ <<i, "child">> # r
      BY <1>2 DEF Runs, Roles
    <2>3. \A i \in Jobs : i # j => RootOf(i)' = RootOf(i) /\ ChildOf(i)' = ChildOf(i)
      BY <1>4, <2>2 DEF RootOf, ChildOf
    <2>4. CASE r[2] = "root"
      BY <1>2, <1>4, <2>1, <2>3, <2>4 DEF RootOf, ChildOf
    <2>5. CASE r[2] = "child"
      BY <1>2, <1>4, <2>1, <2>3, <2>5 DEF RootOf, ChildOf
    <2> QED BY <1>2, <2>4, <2>5 DEF Roles
  <1>6. ASSUME NEW i \in Jobs PROVE JobOK(i)'
    <2>1. JobOK(i)
      BY DEF LaneInv
    <2>2. CASE i = j
      BY <1>1, <1>2, <1>5, <2>2 DEF JobOK, JobWith
    <2>3. CASE i # j
      BY <1>1, <1>5, <2>1, <2>3 DEF JobOK
    <2> QED BY <2>2, <2>3
  <1>7. ASSUME NEW f \in Execs, f # e, exec[f].ph # "idle"
        PROVE  Alone(f)'
    <2> DEFINE s == exec[f].on
               i == s[1]
               k == exec[f].d
    <2>1. /\ Alone(f) /\ s \in Runs /\ i \in Jobs /\ s[2] \in Roles /\ s = <<i, s[2]>>
          /\ s # r /\ run[s].d # None /\ k # None
          /\ s[2] = "root" => run[s].d = RootOf(i)
          /\ s[2] = "child" => run[s].d = ChildOf(i)
      BY <1>1, <1>7, LaneExec DEF LaneInv, Exclusive
    <2>2. exec'[f] = exec[f] /\ run'[s] = run[s]
      BY <1>4, <1>7, <2>1
    <2> HIDE DEF s, k
    <2>3. ASSUME JobWith(s, k) PROVE JobWith(s, k)'
      <3>1. CASE i # j
        BY <1>1, <1>5, <2>1, <2>2, <2>3, <3>1 DEF JobWith, s, k
      <3>2. CASE i = j /\ r[2] = "root" /\ s[2] = "child"
        <4>1. /\ JobFits(log, row[j], hyd[j], j, d, ChildOf(j))
              /\ JobFits(log, row[j], hyd[j], j, RootOf(j), k)
              /\ ChildOf(j) # None /\ ChildOf(j).st = "live"
          BY <1>2, <1>7, <2>1, <2>3, <3>2 DEF JobWith, Alone, s
        <4>2. RootFits(log, row[j], hyd[j], j, d, ChildOf(j))
          BY <1>2, <4>1 DEF JobFits
        <4>3. RootFits(log, row[j], hyd[j], j, d, k)
          BY <1>2, <2>1, <4>1, <4>2, ParentFits, ParentLives
        <4>4. JobFits(log, row[j], hyd[j], j, d, k)
          BY <1>2, <4>1, <4>3, <2>1 DEF JobFits
        <4> QED BY <1>1, <1>5, <2>2, <3>2, <4>4 DEF JobWith, s, k
      <3>3. CASE i = j /\ r[2] = "child" /\ s[2] = "root"
        <4>1. /\ JobFits(log, row[j], hyd[j], j, RootOf(j), d)
              /\ JobFits(log, row[j], hyd[j], j, k, ChildOf(j))
              /\ ChildOf(j) # None /\ ChildOf(j).st = "live"
          <5>1. run[r].d = ChildOf(j) /\ run[r].d # None
            BY <1>1, <3>3, LaneExec
          <5> QED BY <1>2, <2>1, <2>3, <3>3, <5>1 DEF JobWith
        <4>2. RootFits(log, row[j], hyd[j], j, k, ChildOf(j))
          BY <2>1, <4>1 DEF JobFits
        <4>3. RootFits(log, row[j], hyd[j], j, k, d)
          BY <1>2, <2>1, <4>1, <4>2, ParentFits, ParentLives
        <4>4. JobFits(log, row[j], hyd[j], j, k, d)
          BY <1>2, <4>1, <4>3, <2>1 DEF JobFits
        <4> QED BY <1>1, <1>5, <2>2, <3>3, <4>4 DEF JobWith, s, k
      <3> QED BY <1>2, <2>1, <3>1, <3>2, <3>3 DEF Roles
    <2> QED BY <1>1, <2>1, <2>2, <2>3 DEF Alone, s, k
  <1>8. Alone(e)'
    BY <1>4 DEF Alone
  <1>9. ASSUME NEW f \in Execs, f # e, exec[f].ph = "idle"
        PROVE  Alone(f)'
    BY <1>4, <1>9 DEF Alone
  <1> QED BY <1>6, <1>7, <1>8, <1>9 DEF LaneInv

\* History d fits the run of a job that does the work itself.
OwnFits(role, lg, w, h, j, d) ==
  /\ role = "root" => RootFits(lg, w, h, j, d, None)
  /\ role = "child" => ChildFits(lg, w.rev.url, h, j, d)

\* What executor e does to its own job, when its run does the work.
LEMMA WorkLane ==
  ASSUME Inv, LaneInv, Exclusive, NEW e \in Execs, exec[e].ph # "idle",
         NEW r, r = exec[e].on, NEW j \in Jobs, j = r[1],
         NEW x, x = exec'[e], x.on = r,
         \A f \in Execs : f # e => exec'[f] = exec[f],
         NEW w, w = row'[j], w.rev = row[j].rev, NEW h, h = hyd'[j],
         \A i \in Jobs : i # j => row'[i] = row[i] /\ hyd'[i] = hyd[i],
         run' = run, Appends({j}),
         r[2] = "root" => ChildOf(j) = None,
         r[2] = "child" => w.status # "completed",
         OwnFits(r[2], log', w, h, j, run[r].d),
         x.ph = "record" => x.d # None /\ OwnFits(r[2], log', w, h, j, x.d),
         x.ph # "record" => x.d = run[r].d,
         x.ph \in {"recheck", "send"} => Unpublished(log', j)
  PROVE  LaneInv'
  <1>1. /\ r \in Runs /\ r[2] \in Roles /\ r = <<j, r[2]>> /\ run[r].d # None
        /\ r[2] = "root" => run[r].d = RootOf(j)
        /\ r[2] = "child" => run[r].d = ChildOf(j)
        /\ run[r].lease = e /\ run[r].d.st = "live"
    <2>1. Alone(e)
      BY DEF LaneInv
    <2> QED BY <2>1, LaneExec DEF Alone
  <1>2. /\ row'[j] = w /\ hyd'[j] = h /\ exec'[e] = x
        /\ \A i \in Jobs : i # j => row'[i] = row[i] /\ hyd'[i] = hyd[i]
        /\ \A f \in Execs : f # e => exec'[f] = exec[f]
    OBVIOUS
  <1>3. \A i \in Jobs : RootOf(i)' = RootOf(i) /\ ChildOf(i)' = ChildOf(i)
    BY DEF RootOf, ChildOf
  <1>4. ASSUME NEW d, OwnFits(r[2], log', w, h, j, d), d # None
        PROVE  JobFits(log', w, h, j, IF r[2] = "root" THEN d ELSE RootOf(j),
                                      IF r[2] = "child" THEN d ELSE ChildOf(j))
    <2>1. CASE r[2] = "root"
      BY <1>4, <2>1 DEF OwnFits, JobFits
    <2>2. CASE r[2] = "child"
      <3>1. JobFits(log, row[j], hyd[j], j, RootOf(j), ChildOf(j))
        BY DEF LaneInv, JobOK
      <3>2. /\ ChildOf(j) # None /\ ChildOf(j).st = "live" /\ RootOf(j) # None
            /\ RootFits(log, row[j], hyd[j], j, RootOf(j), ChildOf(j))
        BY <1>1, <2>2, <3>1 DEF JobFits
      <3>3. RootFits(log', w, h, j, RootOf(j), d)
        BY <1>4, <2>2, <3>2, ParentFits
      <3> QED BY <1>4, <2>2, <3>2, <3>3 DEF OwnFits, JobFits
    <2> QED BY <1>1, <2>1, <2>2 DEF Roles
  <1>5. ASSUME NEW i \in Jobs, i # j, NEW d, NEW c,
               JobFits(log, row[i], hyd[i], i, d, c),
               row[i].status # "none" \/ (d = None /\ c = None)
        PROVE  JobFits(log', row'[i], hyd'[i], i, d, c)
    <2>1. row[i].status # "none" => row[i].rev.url \in Urls
      BY DEF Inv, RowOK, Revisions
    <2>2. row'[i] = row[i] /\ hyd'[i] = hyd[i] /\ Alike(row[i], row[i])
      BY <1>2, <1>5 DEF Alike
    <2> QED BY <1>5, <2>1, <2>2, JobFitsOn
  <1>6. ASSUME NEW i \in Jobs PROVE JobOK(i)'
    <2>1. CASE i = j
      <3>1. JobFits(log', w, h, j, RootOf(j), ChildOf(j))
        BY <1>1, <1>4 DEF Roles
      <3> QED BY <1>2, <1>3, <2>1, <3>1 DEF JobOK
    <2>2. CASE i # j
      <3>1. row[i].status # "none" \/ (RootOf(i) = None /\ ChildOf(i) = None)
        BY LaneRows
      <3>2. JobFits(log', row'[i], hyd'[i], i, RootOf(i), ChildOf(i))
        BY <1>5, <2>2, <3>1 DEF LaneInv, JobOK
      <3> QED BY <1>3, <3>2 DEF JobOK
    <2> QED BY <2>1, <2>2
  <1>7. Alone(e)'
    <2>1. x.ph = "record" => JobWith(r, x.d)'
      <3>1. x.ph = "record" =>
              JobFits(log', w, h, j, IF r[2] = "root" THEN x.d ELSE RootOf(j),
                                     IF r[2] = "child" THEN x.d ELSE ChildOf(j))
        BY <1>4
      <3> QED BY <1>2, <1>3, <3>1 DEF JobWith
    <2> QED BY <1>1, <1>2, <2>1 DEF Alone
  <1>8. ASSUME NEW f \in Execs, f # e, exec[f].ph # "idle"
        PROVE  Alone(f)'
    <2> DEFINE s == exec[f].on
               i == s[1]
               k == exec[f].d
    <2>1. /\ Alone(f) /\ s \in Runs /\ i \in Jobs /\ s[2] \in Roles /\ s = <<i, s[2]>>
          /\ s # r /\ run[s].d # None /\ k # None
          /\ s[2] = "root" => run[s].d = RootOf(i)
          /\ s[2] = "child" => run[s].d = ChildOf(i)
          /\ row[i].status # "none"
      BY <1>8, LaneExec DEF LaneInv, Exclusive
    <2>2. exec'[f] = exec[f] /\ run'[s] = run[s]
      BY <1>2, <1>8
    <2>3. exec[f].ph \in {"recheck", "send"} => k.pc = "push"
      BY <1>8 DEF Inv, ExecOK
    <2> HIDE DEF s, k
    <2>4. CASE i # j
      <3>1. JobWith(s, k) => JobWith(s, k)'
        <4>1. JobWith(s, k) =>
                JobFits(log', row'[i], hyd'[i], i,
                        IF s[2] = "root" THEN k ELSE RootOf(i),
                        IF s[2] = "child" THEN k ELSE ChildOf(i))
          BY <1>5, <2>1, <2>4 DEF JobWith
        <4> QED BY <1>3, <2>1, <2>2, <4>1 DEF JobWith, s, k
      <3>2. Unpublished(log, i) => Unpublished(log', i)
        BY <2>1, <2>4, PublishedKept
      <3> QED BY <2>1, <2>2, <3>1, <3>2 DEF Alone, s, k
    <2>5. CASE i = j /\ r[2] = "root"
      BY <1>1, <2>1, <2>5 DEF Roles
    <2>6. CASE i = j /\ r[2] = "child"
      <3>1. s[2] = "root" /\ run[s].d = RootOf(j)
        BY <1>1, <2>1, <2>6 DEF Roles
      <3>2. /\ ChildOf(j) # None /\ ChildOf(j).st = "live" /\ RootOf(j) # None
            /\ JobFits(log, row[j], hyd[j], j, RootOf(j), ChildOf(j))
        BY <1>1, <2>1, <2>6, <3>1 DEF LaneInv, JobOK
      <3>3. RootOf(j).pc # "push"
        BY <3>2 DEF JobFits, RootFits, Waiting
      <3>4. exec[f].ph \notin {"recheck", "send"}
        BY <2>1, <2>3, <3>1, <3>3 DEF Alone, s, k
      <3>5. ASSUME JobWith(s, k) PROVE JobWith(s, k)'
        <4>1. JobFits(log, row[j], hyd[j], j, k, ChildOf(j))
          BY <2>6, <3>1, <3>5 DEF JobWith
        <4>2. RootFits(log', w, h, j, k, ChildOf(j))
          BY <2>1, <2>6, <3>2, <4>1, ParentFits DEF JobFits
        <4>3. JobFits(log', w, h, j, k, ChildOf(j))
          BY <1>1, <2>1, <2>6, <4>2 DEF JobFits, OwnFits
        <4> QED BY <1>2, <1>3, <2>2, <2>6, <3>1, <4>3 DEF JobWith, s, k
      <3> QED BY <2>1, <2>2, <3>4, <3>5 DEF Alone, s, k
    <2> QED BY <1>1, <2>4, <2>5, <2>6 DEF Roles
  <1>9. ASSUME NEW f \in Execs, f # e, exec[f].ph = "idle"
        PROVE  Alone(f)'
    BY <1>2, <1>9 DEF Alone
  <1> QED BY <1>6, <1>7, <1>8, <1>9 DEF LaneInv
=============================================================================
