-------------------------- MODULE JobLedgerProofs --------------------------
(***************************************************************************)
(* Proofs about the write lane under exclusive leases, continued.  The     *)
(* steps of the bodies keep LaneInv, so a job of either kind publishes at  *)
(* most one commit and tells the truth of it; and the lane implements the  *)
(* ledger of JobLedger.                                                    *)
(***************************************************************************)
EXTENDS WriteLaneProofs, FiniteSetTheorems

-----------------------------------------------------------------------------
(* The steps of the bodies, under exclusive leases *)

\* What an executor that is about to take a step has before it.
LEMMA AtWork ==
  ASSUME Inv, LaneInv, NEW e \in Execs, exec[e].ph \notin {"idle", "record"},
         NEW r, r = exec[e].on, NEW j, j = r[1], NEW d, d = exec[e].d
  PROVE  /\ r \in Runs /\ j \in Jobs /\ r[2] \in Roles /\ r = <<j, r[2]>> /\ JobOf(e) = j
         /\ d = run[r].d /\ d # None /\ d \in Durable /\ d.st = "live"
         /\ d.rev.url = row[j].rev.url /\ d.rev.url \in Urls
         /\ row[j] \in Rows
         /\ r[2] = "root" => /\ RootFits(log, row[j], hyd[j], j, d, ChildOf(j))
                             /\ RootOf(j) = d
         /\ r[2] = "child" => /\ ChildFits(log, row[j].rev.url, hyd[j], j, d)
                              /\ row[j].status # "completed"
                              /\ ChildOf(j) = d
         /\ d.pc \notin {"spawn", "child", "merged"} =>
              /\ r[2] = "root" => ChildOf(j) = None
              /\ OwnFits(r[2], log, row[j], hyd[j], j, d)
  <1>1. /\ r \in Runs /\ j \in Jobs /\ r[2] \in Roles /\ r = <<j, r[2]>> /\ JobOf(e) = j
        /\ d = run[r].d /\ d # None /\ d \in Durable /\ d.st = "live"
        /\ d.rev.url = row[j].rev.url /\ d.rev.url \in Urls
        /\ row[j] \in Rows
        /\ r[2] = "root" => RootOf(j) = d
        /\ r[2] = "child" => ChildOf(j) = d
    BY LaneExec DEF LaneInv, Alone, Inv, TypeOK, JobOf
  <1>2. JobFits(log, row[j], hyd[j], j, RootOf(j), ChildOf(j))
    BY <1>1 DEF LaneInv, JobOK
  <1>3. r[2] = "root" => RootFits(log, row[j], hyd[j], j, d, ChildOf(j))
    BY <1>1, <1>2 DEF JobFits
  <1>4. r[2] = "child" => /\ ChildFits(log, row[j].rev.url, hyd[j], j, d)
                          /\ row[j].status # "completed"
    <2>1. r[2] = "child" => /\ ChildFits(log, row[j].rev.url, hyd[j], j, d)
                            /\ RootFits(log, row[j], hyd[j], j, RootOf(j), d)
      BY <1>1, <1>2 DEF JobFits
    <2> QED BY <1>1, <2>1, ParentLives
  <1>5. d.pc \notin {"spawn", "child", "merged"} =>
          /\ r[2] = "root" => ChildOf(j) = None
          /\ OwnFits(r[2], log, row[j], hyd[j], j, d)
    BY <1>1, <1>3, <1>4 DEF OwnFits, RootFits, Waiting
  <1> QED BY <1>1, <1>3, <1>4, <1>5

\* A step that leaves the row, the branches and the hydrate alone.
LEMMA QuietLane ==
  ASSUME Inv, LaneInv, Exclusive, NEW e \in Execs, exec[e].ph # "idle",
         NEW r, r = exec[e].on, UNCHANGED <<log, row, run, hyd>>,
         NEW x, x = exec'[e], x.on = r,
         \A f \in Execs : f # e => exec'[f] = exec[f],
         x.ph = "record" => JobWith(r, x.d),
         x.ph # "record" => x.d = run[r].d,
         x.ph \in {"recheck", "send"} => Unpublished(log, r[1])
  PROVE  LaneInv'
  <1>1. \A i \in Jobs : /\ RootOf(i)' = RootOf(i) /\ ChildOf(i)' = ChildOf(i)
                        /\ JobOK(i) => JobOK(i)'
    BY DEF RootOf, ChildOf, JobOK
  <1>2. /\ exec'[e] = x
        /\ \A f \in Execs : f # e => exec'[f] = exec[f]
    OBVIOUS
  <1>3. \A s \in Runs : \A k : JobWith(s, k) => JobWith(s, k)'
    BY <1>1 DEF JobWith, RootOf, ChildOf
  <1>4. Alone(e)'
    <2>1. r \in Runs /\ Alone(e)
      BY LaneExec DEF LaneInv
    <2>2. x.ph = "record" => JobWith(r, x.d)'
      BY <1>3, <2>1
    <2> QED BY <1>2, <2>1, <2>2 DEF Alone
  <1>5. ASSUME NEW f \in Execs, f # e PROVE Alone(f)'
    <2>1. Alone(f) /\ exec'[f] = exec[f]
      BY <1>2, <1>5 DEF LaneInv
    <2>2. CASE exec[f].ph = "idle"
      BY <2>1, <2>2 DEF Alone
    <2>3. CASE exec[f].ph # "idle"
      <3>1. exec[f].on \in Runs
        BY <2>3, LaneExec
      <3>2. JobWith(exec[f].on, exec[f].d) => JobWith(exec[f].on, exec[f].d)'
        BY <1>1, <2>1 DEF JobWith, RootOf, ChildOf
      <3> QED BY <2>1, <2>3, <3>1, <3>2 DEF Alone
    <2> QED BY <2>2, <2>3
  <1> QED BY <1>1, <1>4, <1>5 DEF LaneInv

\* The next phase of a step.
LEMMA PhaseLane ==
  ASSUME Inv, LaneInv, Exclusive, NEW e \in Execs, exec[e].ph \notin {"idle", "record"},
         exec' = [exec EXCEPT ![e].ph = exec'[e].ph], exec'[e].ph # "record",
         exec'[e].ph \in {"recheck", "send"} => Unpublished(log, JobOf(e)),
         UNCHANGED <<log, row, run, hyd>>
  PROVE  LaneInv'
  <1>1. exec[e] \in ExecRecs /\ exec[e].d = run[exec[e].on].d /\ JobOf(e) = exec[e].on[1]
    BY AtWork, LaneExec
  <1>2. /\ exec'[e].on = exec[e].on /\ exec'[e].d = exec[e].d
        /\ \A f \in Execs : f # e => exec'[f] = exec[f]
    BY <1>1 DEF ExecRecs, Inv, TypeOK
  <1>3. /\ exec'[e].ph # "record" /\ exec'[e].d = run[exec[e].on].d
        /\ exec'[e].ph \in {"recheck", "send"} => Unpublished(log, exec[e].on[1])
        /\ exec[e].ph # "idle"
    BY <1>1, <1>2
  <1> QED BY <1>2, <1>3, QuietLane

\* A history that is cut short fits as long as it fits the job.
LEMMA ReturnLane ==
  ASSUME Inv, LaneInv, Exclusive, NEW e \in Execs, exec[e].ph \notin {"idle", "record"},
         NEW y, Returns(e, y), JobWith(exec[e].on, y),
         UNCHANGED <<log, row, run, hyd>>
  PROVE  LaneInv'
  <1> DEFINE x == [exec[e] EXCEPT !.ph = "record", !.d = y]
  <1>1. exec[e] \in ExecRecs
    BY LaneExec
  <1>2. x.on = exec[e].on /\ x.ph = "record" /\ x.d = y /\ exec' = [exec EXCEPT ![e] = x]
    BY <1>1 DEF ExecRecs, Inv, TypeOK, Returns
  <1> HIDE DEF x
  <1>3. /\ exec'[e] = x
        /\ \A f \in Execs : f # e => exec'[f] = exec[f]
    BY <1>2 DEF Inv, TypeOK
  <1> QED BY <1>2, <1>3, QuietLane

\* What the history looks like that a step returns.
LEMMA GotoGives ==
  ASSUME NEW e \in Execs, NEW d \in Durable, d = exec[e].d, NEW pc \in Steps, Goto(e, pc)
  PROVE  \E y \in Durable :
           /\ Returns(e, y) /\ y.pc = pc /\ y.st = d.st
           /\ y.cand = d.cand /\ y.pub = d.pub
           /\ y.res = d.res
  <1> DEFINE y == [exec[e].d EXCEPT !.pc = pc, !.tries = 0]
  <1>1. /\ y \in Durable /\ y.pc = pc /\ y.st = exec[e].d.st
        /\ y.cand = exec[e].d.cand /\ y.pub = exec[e].d.pub
        /\ y.res = exec[e].d.res
    BY DEF Durable
  <1>2. Returns(e, y)
    BY DEF Goto
  <1> HIDE DEF y
  <1> QED BY <1>1, <1>2

LEMMA CompletesGives ==
  ASSUME NEW e \in Execs, NEW d \in Durable, d = exec[e].d, NEW c \in Commits \cup {None},
         Completes(e, c)
  PROVE  \E y \in Durable :
           /\ Returns(e, y) /\ y.pc = d.pc /\ y.st = "completed"
           /\ y.cand = d.cand /\ y.pub = d.pub
           /\ y.res = c
  <1> DEFINE y == [exec[e].d EXCEPT !.st = "completed", !.res = c]
  <1>1. /\ y \in Durable /\ y.pc = exec[e].d.pc /\ y.st = "completed"
        /\ y.cand = exec[e].d.cand /\ y.pub = exec[e].d.pub
        /\ y.res = c
    BY DEF Durable
  <1>2. Returns(e, y)
    BY DEF Completes
  <1> HIDE DEF y
  <1> QED BY <1>1, <1>2

LEMMA ThrowsGives ==
  ASSUME NEW e \in Execs, NEW d \in Durable, d = exec[e].d, Throws(e) \/ Fails(e)
  PROVE  \E y \in Durable :
           /\ Returns(e, y) /\ y.pc = d.pc /\ y.st \in {d.st, "failed"}
           /\ y.cand = d.cand /\ y.pub = d.pub
           /\ y.res = d.res
  <1>1. CASE Fails(e)
    <2> DEFINE y == [exec[e].d EXCEPT !.st = "failed"]
    <2>1. /\ y \in Durable /\ y.pc = exec[e].d.pc /\ y.st = "failed"
          /\ y.cand = exec[e].d.cand /\ y.pub = exec[e].d.pub
          /\ y.res = exec[e].d.res
      BY DEF Durable
    <2>2. Returns(e, y)
      BY <1>1 DEF Fails
    <2> HIDE DEF y
    <2> QED BY <2>1, <2>2
  <1>2. CASE ~Fails(e)
    <2> DEFINE y == [exec[e].d EXCEPT !.tries = @ + 1]
    <2>1. /\ y \in Durable /\ y.pc = exec[e].d.pc /\ y.st = exec[e].d.st
          /\ y.cand = exec[e].d.cand /\ y.pub = exec[e].d.pub
          /\ y.res = exec[e].d.res
      BY DEF Durable
    <2>2. Returns(e, y)
      BY <1>2 DEF Throws
    <2> HIDE DEF y
    <2> QED BY <2>1, <2>2
  <1> QED BY <1>1, <1>2

\* A step that throws leaves the run where it is.
LEMMA ThrowLane ==
  ASSUME Inv, LaneInv, Exclusive, NEW e \in Execs, exec[e].ph \notin {"idle", "record"},
         Throws(e) \/ Fails(e), UNCHANGED <<log, row, run, hyd>>,
         NEW r, r = exec[e].on, NEW j, j = r[1], NEW d, d = exec[e].d
  PROVE  LaneInv'
  <1>1. /\ j \in Jobs /\ r[2] \in Roles /\ d \in Durable /\ d.st = "live" /\ d # None
        /\ r[2] = "root" => /\ RootFits(log, row[j], hyd[j], j, d, ChildOf(j))
                            /\ RootOf(j) = d
        /\ r[2] = "child" => /\ ChildFits(log, row[j].rev.url, hyd[j], j, d)
                             /\ ChildOf(j) = d
    BY AtWork
  <1>2. PICK y \in Durable :
          /\ Returns(e, y) /\ y.pc = d.pc /\ y.st \in {d.st, "failed"}
          /\ y.cand = d.cand /\ y.pub = d.pub /\ y.res = d.res
    BY <1>1, ThrowsGives
  <1>3. JobFits(log, row[j], hyd[j], j, RootOf(j), ChildOf(j)) /\ y # None
    BY <1>1, NoneAssumption DEF LaneInv, JobOK
  <1>4. JobWith(r, y)
    <2>1. CASE r[2] = "root"
      <3>1. RowFits(row[j], y) /\ (\A u, h : Working(log, u, h, j, d) => Working(log, u, h, j, y))
        BY <1>1, <1>2, <2>1 DEF RootFits, RowFits, Recorded, Working
      <3>2. RootFits(log, row[j], hyd[j], j, y, ChildOf(j))
        BY <1>1, <1>2, <2>1, <3>1 DEF RootFits
      <3> QED BY <1>1, <1>3, <2>1, <3>2 DEF JobWith, JobFits
    <2>2. CASE r[2] = "child"
      <3>1. ChildFits(log, row[j].rev.url, hyd[j], j, y)
        BY <1>1, <1>2, <2>2 DEF ChildFits, Working
      <3>2. RootOf(j) # None
        BY <1>1, <1>3, <2>2 DEF JobFits
      <3>3. RootFits(log, row[j], hyd[j], j, RootOf(j), d)
        BY <1>1, <1>3, <2>2, <3>2 DEF JobFits
      <3>4. RootFits(log, row[j], hyd[j], j, RootOf(j), y)
        BY <1>1, <1>3, <3>3, ParentFits, ParentLives
      <3> QED BY <1>3, <2>2, <3>1, <3>2, <3>4 DEF JobWith, JobFits
    <2> QED BY <1>1, <2>1, <2>2 DEF Roles
  <1> QED BY <1>2, <1>4, ReturnLane

\* A step that does the work of the job, and returns.
LEMMA RowLane ==
  ASSUME Inv, LaneInv, Exclusive, NEW e \in Execs, exec[e].ph \notin {"idle", "record"},
         NEW r, r = exec[e].on, NEW j, j = r[1],
         exec[e].d.pc \notin {"spawn", "child", "merged"},
         NEW y \in Durable, Returns(e, y),
         NEW w, w = row'[j], w.rev = row[j].rev, NEW h, h = hyd'[j],
         \A i \in Jobs : i # j => row'[i] = row[i] /\ hyd'[i] = hyd[i],
         run' = run, Appends({j}),
         r[2] = "child" => w.status # "completed",
         OwnFits(r[2], log', w, h, j, exec[e].d),
         OwnFits(r[2], log', w, h, j, y)
  PROVE  LaneInv'
  <1> DEFINE x == [exec[e] EXCEPT !.ph = "record", !.d = y]
  <1>1. /\ exec[e] \in ExecRecs /\ j \in Jobs /\ exec[e].d = run[r].d /\ y # None
        /\ r[2] = "root" => ChildOf(j) = None
    <2>1. exec[e] \in ExecRecs
      BY LaneExec
    <2>2. y # None
      BY NoneAssumption
    <2>3. /\ j \in Jobs /\ exec[e].d = run[r].d
          /\ r[2] = "root" => ChildOf(j) = None
      BY AtWork
    <2> QED BY <2>1, <2>2, <2>3
  <1>2. x.on = exec[e].on /\ x.ph = "record" /\ x.d = y /\ exec' = [exec EXCEPT ![e] = x]
    BY <1>1 DEF ExecRecs, Inv, TypeOK, Returns
  <1> HIDE DEF x
  <1>3. /\ x.ph = "record" => x.d # None /\ OwnFits(r[2], log', w, h, j, x.d)
        /\ x.ph # "record" => x.d = run[r].d
        /\ x.ph \in {"recheck", "send"} => Unpublished(log', j)
        /\ OwnFits(r[2], log', w, h, j, run[r].d)
        /\ exec[e].ph # "idle" /\ x.on = r
    BY <1>1, <1>2
  <1>4. /\ exec'[e] = x
        /\ \A f \in Execs : f # e => exec'[f] = exec[f]
    BY <1>1, <1>2 DEF Inv, TypeOK
  <1> QED BY <1>1, <1>3, <1>4, WorkLane

\* The same with nothing written.
LEMMA PlainLane ==
  ASSUME Inv, LaneInv, Exclusive, NEW e \in Execs, exec[e].ph \notin {"idle", "record"},
         NEW r, r = exec[e].on, NEW j, j = r[1],
         exec[e].d.pc \notin {"spawn", "child", "merged"},
         NEW y \in Durable, Returns(e, y), UNCHANGED <<log, row, run, hyd>>,
         OwnFits(r[2], log, row[j], hyd[j], j, y)
  PROVE  LaneInv'
  <1>1. /\ j \in Jobs
        /\ r[2] = "child" => row[j].status # "completed"
        /\ OwnFits(r[2], log, row[j], hyd[j], j, exec[e].d)
    BY AtWork
  <1> QED BY <1>1, NoAppend, RowLane

LEMMA EnterLane ==
  ASSUME Inv, LaneInv, Exclusive, NEW e \in Execs, Enter(e),
         NEW r, r = exec[e].on, NEW j, j = r[1], NEW d, d = exec[e].d
  PROVE  LaneInv'
  <1> DEFINE w == IF r[2] = "root"
                    THEN FailEnded(j, row[j], {"queued", "running", "paused"})
                    ELSE row[j]
  <1>1. /\ exec[e].ph = "enter" /\ UNCHANGED <<log, run, hyd>>
        /\ row' = [row EXCEPT ![j] = w]
        /\ \/ w.status = "completed" /\ Completes(e, w.commit)
           \/ r[2] = "child" /\ Fails(e)
           \/ exec' = [exec EXCEPT ![e].ph = "do"]
    BY DEF Enter, Handed
  <1>2. /\ r \in Runs /\ j \in Jobs /\ r[2] \in Roles /\ r = <<j, r[2]>>
        /\ d = run[r].d /\ d # None /\ d \in Durable /\ d.st = "live"
        /\ row[j] \in Rows
        /\ r[2] = "root" => /\ RootFits(log, row[j], hyd[j], j, d, ChildOf(j))
                            /\ RootOf(j) = d
        /\ r[2] = "child" => row[j].status # "completed"
    BY <1>1, AtWork
  <1>3. w = row[j] /\ UNCHANGED row
    <2>1. r[2] = "root" => ~Ended(<<j, "root">>, "failed")
      BY <1>2 DEF Ended
    <2>2. w = row[j]
      BY <2>1 DEF FailEnded
    <2> QED BY <1>1, <2>2 DEF Inv, TypeOK
  <1>4. CASE exec' = [exec EXCEPT ![e].ph = "do"]
    <2>1. exec' = [exec EXCEPT ![e].ph = exec'[e].ph] /\ exec'[e].ph = "do"
      BY <1>4, LaneExec, <1>1 DEF Inv, TypeOK, ExecRecs
    <2> QED BY <1>1, <1>3, <2>1, PhaseLane
  <1>5. CASE r[2] = "child" /\ Fails(e)
    BY <1>1, <1>3, <1>5, ThrowLane
  <1>6. CASE w.status = "completed" /\ Completes(e, w.commit)
    <2>1. r[2] = "root" /\ row[j].commit \in Commits \cup {None}
      BY <1>2, <1>3, <1>6 DEF Roles, Rows
    <2> HIDE DEF w
    <2>0. Completes(e, row[j].commit) /\ exec[e].d \in Durable
      BY <1>2, <1>3, <1>6
    <2>2. PICK y \in Durable :
            /\ Returns(e, y) /\ y.pc = d.pc /\ y.st = "completed"
            /\ y.cand = d.cand /\ y.pub = d.pub /\ y.res = row[j].commit
      BY <2>0, <2>1, CompletesGives
    <2>3. RowFits(row[j], y) /\ (d.pc = "merged" => y.res = d.res)
      BY <1>2, <1>3, <1>6, <2>1, <2>2 DEF RootFits, RowFits, Recorded
    <2>4. Working(log, row[j].rev.url, hyd[j], j, d) => Working(log, row[j].rev.url, hyd[j], j, y)
      BY <2>2 DEF Working
    <2>5. RootFits(log, row[j], hyd[j], j, y, ChildOf(j))
      BY <1>2, <2>1, <2>2, <2>3, <2>4 DEF RootFits
    <2>6. y # None /\ JobFits(log, row[j], hyd[j], j, RootOf(j), ChildOf(j))
      BY <1>2, NoneAssumption DEF LaneInv, JobOK
    <2>7. JobWith(r, y)
      BY <1>2, <2>1, <2>5, <2>6 DEF JobWith, JobFits
    <2> QED BY <1>1, <1>3, <2>2, <2>7, ReturnLane
  <1> QED BY <1>1, <1>4, <1>5, <1>6

\* A history that stays among the steps before the push, and that takes up no
\* candidate that its row does not know of.
LEMMA CleanFits ==
  ASSUME NEW lg, NEW w, NEW h, NEW j, NEW role \in Roles, NEW d, NEW y,
         OwnFits(role, lg, w, h, j, d), d.pc \in Clean, w.status # "completed",
         y.pc \in Clean \cup {"noop", "noopHydrate"}, y.st = "live" \/ y.st = "failed",
         y.pc # "capture",
         role = "root" => (y.pc \in Unprepared => w.commit = None),
         role = "child" => y.pc \in ChildSteps
  PROVE  OwnFits(role, lg, w, h, j, y)
  <1>1. Unpublished(lg, j) /\ h = 0
    BY DEF OwnFits, RootFits, ChildFits, Working, Clean, Waiting, Roles
  <1>2. Working(lg, w.rev.url, h, j, y)
    <2>1. y.pc \notin Prepared
      BY DEF Clean, Prepared
    <2>2. y.pc \in Clean \cup Unchanging /\ y.pc \notin Pushing
          /\ y.pc \notin {"publish", "hydrate", "complete"}
      BY DEF Clean, Unchanging, Pushing
    <2> QED BY <1>1, <2>1, <2>2 DEF Working
  <1> QED BY <1>2 DEF OwnFits, RootFits, RowFits, ChildFits, Waiting, Clean

\* A step at one of the clean steps that goes on to another one.
LEMMA CleanLane ==
  ASSUME Inv, LaneInv, Exclusive, NEW e \in Execs, exec[e].ph \notin {"idle", "record"},
         NEW r, r = exec[e].on, NEW j, j = r[1], NEW d, d = exec[e].d,
         d.pc \in Clean \ {"spawn"},
         NEW y \in Durable, Returns(e, y), y.st = "live" \/ y.st = "failed",
         y.pc \in Clean \cup {"noop", "noopHydrate"}, y.pc # "capture",
         r[2] = "root" /\ y.pc \in Unprepared => row'[j].commit = None,
         r[2] = "child" => y.pc \in ChildSteps,
         row'[j].status # "completed" \/ UNCHANGED row, row'[j].rev = row[j].rev,
         d.pc \in Unprepared => row'[j].commit = row[j].commit,
         \A i \in Jobs : i # j => row'[i] = row[i],
         UNCHANGED <<log, run, hyd>>
  PROVE  LaneInv'
  <1>1. d.pc \notin {"spawn", "child", "merged"}
    BY DEF Clean
  <1>2. /\ j \in Jobs /\ r[2] \in Roles /\ d.st = "live"
        /\ r[2] = "child" => row[j].status # "completed"
        /\ OwnFits(r[2], log, row[j], hyd[j], j, d)
    BY <1>1, AtWork
  <1>3. row[j].status # "completed"
    BY <1>2 DEF OwnFits, RootFits, RowFits, Recorded, Clean, Roles
  <1>4. row'[j].status # "completed"
    BY <1>3
  <1>5. OwnFits(r[2], log, row'[j], hyd[j], j, d)
    BY <1>2, <1>4 DEF OwnFits, RootFits, RowFits
  <1>6. OwnFits(r[2], log, row'[j], hyd[j], j, y)
    BY <1>2, <1>4, <1>5, CleanFits
  <1>7. Appends({j}) /\ log' = log /\ hyd' = hyd
    BY NoAppend
  <1> QED BY <1>1, <1>2, <1>4, <1>5, <1>6, <1>7, RowLane

LEMMA ClaimCommandLane ==
  ASSUME Inv, LaneInv, Exclusive, NEW e \in Execs, ClaimCommand(e),
         NEW r, r = exec[e].on, NEW j, j = r[1], NEW d, d = exec[e].d
  PROVE  LaneInv'
  <1>1. /\ exec[e].ph = "do" /\ d.pc = "claim" /\ UNCHANGED <<log, run, hyd>>
        /\ \/ UNCHANGED row /\ Throws(e)
           \/ /\ row' = [row EXCEPT ![j].status = "running", ![j].owner = TRUE,
                                   ![j].handoff = None]
              /\ Goto(e, "acquire")
    BY DEF ClaimCommand, At, JobOf
  <1>2. CASE UNCHANGED row /\ Throws(e)
    BY <1>1, <1>2, ThrowLane
  <1>3. CASE /\ row' = [row EXCEPT ![j].status = "running", ![j].owner = TRUE,
                                  ![j].handoff = None]
             /\ Goto(e, "acquire")
    <2>1. d \in Durable /\ d.st = "live" /\ j \in Jobs /\ row[j] \in Rows /\ r[2] \in Roles
          /\ OwnFits(r[2], log, row[j], hyd[j], j, d)
      BY <1>1, AtWork
    <2>2. r[2] = "root"
      BY <1>1, <2>1 DEF OwnFits, ChildFits, ChildSteps, Roles
    <2>3. Goto(e, "acquire")
      BY <1>3
    <2>4. exec[e].ph = "do" /\ d.pc = "claim" /\ UNCHANGED <<log, run, hyd>>
      BY <1>1
    <2>5. PICK y \in Durable : Returns(e, y) /\ y.pc = "acquire" /\ y.st = "live"
      BY <2>1, <2>3, GotoGives DEF Steps
    <2>6. /\ row'[j].status = "running" /\ row'[j].rev = row[j].rev
          /\ row'[j].commit = row[j].commit
          /\ \A i \in Jobs : i # j => row'[i] = row[i]
      BY <1>3, <2>1 DEF Inv, TypeOK, Rows
    <2>7. row[j].commit = None
      BY <2>1, <2>2, <2>4 DEF OwnFits, RootFits, RowFits, Unprepared
    <2> QED BY <2>2, <2>5, <2>6, <2>7, <2>4, CleanLane DEF Clean, Unprepared
  <1> QED BY <1>1, <1>2, <1>3

LEMMA AcquireLane ==
  ASSUME Inv, LaneInv, Exclusive, NEW e \in Execs, Acquire(e),
         NEW r, r = exec[e].on, NEW j, j = r[1], NEW d, d = exec[e].d
  PROVE  LaneInv'
  <1>1. /\ exec[e].ph = "do" /\ d.pc = "acquire" /\ UNCHANGED <<log, row, run, hyd>>
        /\ Throws(e) \/ Goto(e, "plan") \/ Goto(e, "pause")
    BY DEF Acquire, At
  <1>2. CASE Throws(e)
    BY <1>1, <1>2, ThrowLane
  <1>3. CASE Goto(e, "plan") \/ Goto(e, "pause")
    <2>1. d \in Durable /\ d.st = "live" /\ r[2] \in Roles
          /\ OwnFits(r[2], log, row[j], hyd[j], j, d)
      BY <1>1, AtWork
    <2>2. r[2] = "root" => row[j].commit = None
      BY <1>1, <2>1 DEF OwnFits, RootFits, RowFits, Unprepared
    <2>3. PICK y \in Durable : /\ Returns(e, y) /\ y.pc \in {"plan", "pause"}
                               /\ y.st = "live"
      BY <1>3, <2>1, GotoGives DEF Steps
    <2> QED BY <1>1, <2>1, <2>2, <2>3, CleanLane DEF Clean, ChildSteps
  <1> QED BY <1>1, <1>2, <1>3

LEMMA PlanLane ==
  ASSUME Inv, LaneInv, Exclusive, NEW e \in Execs, Plan(e),
         NEW r, r = exec[e].on, NEW j, j = r[1], NEW d, d = exec[e].d
  PROVE  LaneInv'
  <1>1. /\ exec[e].ph = "do" /\ d.pc = "plan" /\ UNCHANGED <<log, row, run, hyd>>
        /\ Goto(e, "commit") \/ Goto(e, "confirm")
    BY DEF Plan, At
  <1>2. d \in Durable /\ d.st = "live" /\ r[2] \in Roles
        /\ OwnFits(r[2], log, row[j], hyd[j], j, d)
    BY <1>1, AtWork
  <1>3. r[2] = "root" => row[j].commit = None
    BY <1>1, <1>2 DEF OwnFits, RootFits, RowFits, Unprepared
  <1>4. PICK y \in Durable : /\ Returns(e, y) /\ y.pc \in {"commit", "confirm"}
                             /\ y.st = "live"
    BY <1>1, <1>2, GotoGives DEF Steps
  <1> QED BY <1>1, <1>2, <1>3, <1>4, CleanLane DEF Clean, ChildSteps

\* The next round starts over, and has no candidate.
LEMMA NextRoundLane ==
  ASSUME Inv, LaneInv, Exclusive, NEW e \in Execs, exec[e].ph = "do", NextRound(e),
         NEW r, r = exec[e].on, NEW j, j = r[1], NEW d, d = exec[e].d,
         d.pc \in {"confirm", "refresh"}, UNCHANGED <<log, row, run, hyd>>
  PROVE  LaneInv'
  <1>1. CASE Fails(e)
    BY <1>1, ThrowLane
  <1>2. CASE ~Fails(e)
    <2>1. /\ d \in Durable /\ d.rev \in Revisions /\ Tip(d.rev.url) \in Nat
          /\ d.st = "live" /\ r[2] \in Roles
          /\ OwnFits(r[2], log, row[j], hyd[j], j, d)
      <3>1. d.rev \in Revisions /\ Tip(d.rev.url) \in Nat
        BY Busy, Captured
      <3>2. d \in Durable /\ d.st = "live" /\ r[2] \in Roles
            /\ OwnFits(r[2], log, row[j], hyd[j], j, d)
        BY AtWork
      <3> QED BY <3>1, <3>2
    <2> DEFINE rev == [d.rev EXCEPT !.sha = Tip(d.rev.url)]
               x == [d EXCEPT !.pc = "acquire", !.tries = 0, !.cand = None,
                              !.round = @ + 1, !.rev = rev]
    <2>2. rev \in Revisions
      BY <2>1 DEF Revisions
    <2>3. Returns(e, x)
      BY <1>2 DEF NextRound
    <2> HIDE DEF rev
    <2>4. x \in Durable /\ x.pc = "acquire" /\ x.st = "live"
      <3>1. d.round + 1 \in Nat /\ "acquire" \in Steps /\ 0 \in Nat
        BY <2>1 DEF Durable, Steps
      <3> QED BY <2>1, <2>2, <3>1 DEF Durable
    <2> HIDE DEF x
    <2>5. r[2] = "root" => row[j].commit = None
      BY <2>1 DEF OwnFits, RootFits, RowFits, Unprepared
    <2>6. d.pc \in Clean \ {"spawn"} /\ "acquire" \in Clean /\ "acquire" \in ChildSteps
      BY DEF Clean, ChildSteps
    <2> QED BY <2>1, <2>3, <2>4, <2>5, <2>6, CleanLane
  <1> QED BY <1>1, <1>2

LEMMA ConfirmLane ==
  ASSUME Inv, LaneInv, Exclusive, NEW e \in Execs, Confirm(e),
         NEW r, r = exec[e].on, NEW j, j = r[1], NEW d, d = exec[e].d
  PROVE  LaneInv'
  <1>1. /\ exec[e].ph = "do" /\ d.pc = "confirm" /\ UNCHANGED <<log, row, run, hyd>>
        /\ \/ Throws(e) \/ NextRound(e) \/ Goto(e, "noopHydrate")
           \/ ~IsMerge(r) /\ Goto(e, "noop")
    BY DEF Confirm, At
  <1>2. CASE Throws(e)
    BY <1>1, <1>2, ThrowLane
  <1>3. CASE NextRound(e)
    BY <1>1, <1>3, NextRoundLane
  <1>4. CASE Goto(e, "noopHydrate") \/ (~IsMerge(r) /\ Goto(e, "noop"))
    <2>1. d \in Durable /\ d.st = "live" /\ r[2] \in Roles
          /\ OwnFits(r[2], log, row[j], hyd[j], j, d)
      BY <1>1, AtWork
    <2>2. r[2] = "root" => row[j].commit = None
      BY <1>1, <2>1 DEF OwnFits, RootFits, RowFits, Unprepared
    <2>3. PICK y \in Durable : /\ Returns(e, y) /\ y.pc \in {"noop", "noopHydrate"}
                               /\ y.st = "live" /\ (y.pc = "noop" => ~IsMerge(r))
      BY <1>4, <2>1, GotoGives DEF Steps
    <2>4. r[2] = "child" => y.pc \in ChildSteps
      BY <2>3 DEF IsMerge, ChildSteps
    <2> QED BY <1>1, <2>1, <2>2, <2>3, <2>4, CleanLane DEF Clean
  <1> QED BY <1>1, <1>2, <1>3, <1>4

LEMMA RefreshLane ==
  ASSUME Inv, LaneInv, Exclusive, NEW e \in Execs, Refresh(e)
  PROVE  LaneInv'
  <1>1. /\ exec[e].ph = "do" /\ exec[e].d.pc = "refresh" /\ UNCHANGED <<log, row, run, hyd>>
        /\ Throws(e) \/ NextRound(e)
    BY DEF Refresh, At
  <1>2. CASE Throws(e)
    BY <1>1, <1>2, ThrowLane
  <1>3. CASE NextRound(e)
    BY <1>1, <1>3, NextRoundLane
  <1> QED BY <1>1, <1>2, <1>3

\* The candidate of a merge is dropped before it was pushed.
LEMMA DiscardLane ==
  ASSUME Inv, LaneInv, Exclusive, NEW e \in Execs, Discard(e),
         NEW r, r = exec[e].on, NEW j, j = r[1], NEW d, d = exec[e].d
  PROVE  LaneInv'
  <1>1. /\ exec[e].ph = "do" /\ d.pc = "discard" /\ UNCHANGED <<log, run, hyd>>
        /\ \/ UNCHANGED row /\ Throws(e)
           \/ /\ row' = [row EXCEPT ![j].commit = None] /\ row[j].status = "running"
              /\ Goto(e, "refresh")
    BY DEF Discard, At, JobOf
  <1>2. CASE UNCHANGED row /\ Throws(e)
    BY <1>1, <1>2, ThrowLane
  <1>3. CASE /\ row' = [row EXCEPT ![j].commit = None] /\ row[j].status = "running"
             /\ Goto(e, "refresh")
    <2>1. d \in Durable /\ d.st = "live" /\ j \in Jobs /\ row[j] \in Rows /\ r[2] \in Roles
      BY <1>1, AtWork
    <2>2. PICK y \in Durable : Returns(e, y) /\ y.pc = "refresh" /\ y.st = "live"
      BY <1>3, <2>1, GotoGives DEF Steps
    <2>3. /\ row'[j].status = "running" /\ row'[j].rev = row[j].rev
          /\ row'[j].commit = None
          /\ \A i \in Jobs : i # j => row'[i] = row[i]
      BY <1>3, <2>1 DEF Inv, TypeOK, Rows
    <2> QED BY <1>1, <2>1, <2>2, <2>3, CleanLane DEF Clean, ChildSteps, Unprepared
  <1> QED BY <1>1, <1>2, <1>3

\* A step around the push that goes back to it, with the same candidate.
LEMMA PushingLane ==
  ASSUME Inv, LaneInv, Exclusive, NEW e \in Execs, exec[e].ph \notin {"idle", "record"},
         NEW r, r = exec[e].on, NEW j, j = r[1], NEW d, d = exec[e].d, d.pc \in Pushing,
         NEW y \in Durable, Returns(e, y), y.st = "live" \/ y.st = "failed",
         y.pc \in Pushing, y.cand = d.cand,
         row'[j].status # "completed" \/ UNCHANGED row, row'[j].rev = row[j].rev,
         \A i \in Jobs : i # j => row'[i] = row[i],
         UNCHANGED <<log, run, hyd>>
  PROVE  LaneInv'
  <1>1. /\ d.pc \notin {"spawn", "child", "merged"}
        /\ d.pc \notin {"noop", "complete", "merged"} /\ d.pc \notin Unprepared
        /\ y.pc \notin {"noop", "complete", "merged"} /\ y.pc \notin Unprepared
    BY DEF Pushing, Unprepared
  <1>2. /\ j \in Jobs /\ r[2] \in Roles /\ d.st = "live"
        /\ r[2] = "child" => row[j].status # "completed"
        /\ OwnFits(r[2], log, row[j], hyd[j], j, d)
    BY <1>1, AtWork
  <1>3. row'[j].status # "completed"
    BY <1>1, <1>2 DEF OwnFits, RootFits, RowFits, Recorded, Roles
  <1>4. OwnFits(r[2], log, row'[j], hyd[j], j, d)
    BY <1>1, <1>2, <1>3 DEF OwnFits, RootFits, RowFits
  <1>5. /\ Working(log, row[j].rev.url, hyd[j], j, d)
        /\ Working(log, row[j].rev.url, hyd[j], j, y)
    <2>1. Working(log, row[j].rev.url, hyd[j], j, d)
      BY <1>2 DEF OwnFits, RootFits, ChildFits, Roles
    <2>2. /\ d.pc \in Prepared /\ y.pc \notin Clean /\ y.pc \notin Unchanging
          /\ y.pc \notin {"publish", "hydrate", "complete"}
      BY DEF Pushing, Prepared, Clean, Unchanging
    <2> QED BY <2>1, <2>2 DEF Working
  <1>6. OwnFits(r[2], log, row'[j], hyd[j], j, y)
    <2>1. y.pc \in ChildSteps /\ y.pc \notin Waiting
      BY DEF Pushing, ChildSteps, Waiting
    <2> QED BY <1>1, <1>3, <1>5, <2>1 DEF OwnFits, RootFits, RowFits, ChildFits
  <1>7. Appends({j}) /\ log' = log /\ hyd' = hyd
    BY NoAppend
  <1> QED BY <1>1, <1>2, <1>3, <1>4, <1>6, <1>7, RowLane

\* SetStatus leaves a completed row alone.
LEMMA StatusSet ==
  ASSUME Inv, NEW j \in Jobs, NEW st \in Statuses \ {"completed"}, SetStatus(j, st)
  PROVE  /\ row'[j].status # "completed" \/ UNCHANGED row
         /\ row'[j].rev = row[j].rev /\ row'[j].commit = row[j].commit
         /\ \A i \in Jobs : i # j => row'[i] = row[i]
  BY DEF SetStatus, Inv, TypeOK, Rows

LEMMA PauseLane ==
  ASSUME Inv, LaneInv, Exclusive, NEW e \in Execs, Pause(e) \/ Resume(e),
         NEW r, r = exec[e].on, NEW j, j = r[1], NEW d, d = exec[e].d
  PROVE  LaneInv'
  <1>1. /\ exec[e].ph = "do" /\ UNCHANGED <<log, run, hyd>>
        /\ SetStatus(j, "paused") \/ SetStatus(j, "running")
        /\ \/ d.pc = "pause" /\ Goto(e, "resume")
           \/ d.pc = "pausePush" /\ Goto(e, "resumePush")
           \/ d.pc = "resume" /\ Goto(e, "acquire")
           \/ d.pc = "resumePush" /\ Goto(e, "push")
    BY DEF Pause, Resume, At, JobOf
  <1>2. d.pc \notin {"spawn", "child", "merged"}
    BY <1>1
  <1>3. d \in Durable /\ d.st = "live" /\ j \in Jobs /\ r[2] \in Roles
        /\ OwnFits(r[2], log, row[j], hyd[j], j, d)
    BY <1>1, <1>2, AtWork
  <1>4. /\ row'[j].status # "completed" \/ UNCHANGED row
        /\ row'[j].rev = row[j].rev /\ row'[j].commit = row[j].commit
        /\ \A i \in Jobs : i # j => row'[i] = row[i]
    <2>1. "paused" \in Statuses \ {"completed"} /\ "running" \in Statuses \ {"completed"}
      BY DEF Statuses
    <2> QED BY <1>1, <1>3, <2>1, StatusSet
  <1>5. CASE \/ d.pc = "pause" /\ Goto(e, "resume")
             \/ d.pc = "resume" /\ Goto(e, "acquire")
    <2>1. PICK y \in Durable : Returns(e, y) /\ y.pc \in {"resume", "acquire"} /\ y.st = "live"
      BY <1>3, <1>5, GotoGives DEF Steps
    <2>2. r[2] = "root" => row'[j].commit = None
      BY <1>3, <1>4, <1>5 DEF OwnFits, RootFits, RowFits, Unprepared
    <2>3. /\ d.pc \in Clean \ {"spawn"} /\ y.pc \in Clean /\ y.pc \in ChildSteps
          /\ y.pc # "capture"
      BY <1>5, <2>1 DEF Clean, ChildSteps
    <2> QED BY <1>1, <1>4, <2>1, <2>2, <2>3, CleanLane
  <1>6. CASE \/ d.pc = "pausePush" /\ Goto(e, "resumePush")
             \/ d.pc = "resumePush" /\ Goto(e, "push")
    <2>1. PICK y \in Durable : /\ Returns(e, y) /\ y.pc \in {"resumePush", "push"}
                               /\ y.st = "live" /\ y.cand = d.cand
      BY <1>3, <1>6, GotoGives DEF Steps
    <2>2. d.pc \in Pushing /\ y.pc \in Pushing
      BY <1>6, <2>1 DEF Pushing
    <2> QED BY <1>1, <1>4, <2>1, <2>2, PushingLane
  <1> QED BY <1>1, <1>5, <1>6

LEMMA NoopHydrateLane ==
  ASSUME Inv, LaneInv, Exclusive, NEW e \in Execs, NoopHydrate(e),
         NEW r, r = exec[e].on, NEW j, j = r[1], NEW d, d = exec[e].d
  PROVE  LaneInv'
  <1>1. /\ exec[e].ph = "do" /\ d.pc = "noopHydrate" /\ UNCHANGED <<log, row, run>>
        /\ QueueHydrate(j, d.rev.sha)
        /\ \/ r[2] = "child" /\ Completes(e, None)
           \/ r[2] # "child" /\ Goto(e, "noop")
    BY DEF NoopHydrate, At, JobOf
  <1>2. /\ d \in Durable /\ d.st = "live" /\ j \in Jobs /\ r[2] \in Roles
        /\ r[2] = "child" => row[j].status # "completed"
        /\ OwnFits(r[2], log, row[j], hyd[j], j, d)
    BY <1>1, AtWork
  <1>3. \A i \in Jobs : i # j => hyd'[i] = hyd[i]
    BY <1>1, <1>2 DEF QueueHydrate, Inv, TypeOK
  <1>4. PICK y \in Durable :
          /\ Returns(e, y)
          /\ \/ r[2] = "child" /\ y.pc = "noopHydrate" /\ y.st = "completed" /\ y.res = None
             \/ r[2] = "root" /\ y.pc = "noop" /\ y.st = "live"
    <2>1. CASE r[2] = "child" /\ Completes(e, None)
      BY <1>1, <1>2, <2>1, CompletesGives
    <2>2. CASE r[2] # "child" /\ Goto(e, "noop")
      BY <1>1, <1>2, <2>2, GotoGives DEF Steps, Roles
    <2> QED BY <1>1, <2>1, <2>2
  <1>5. Unpublished(log, j) /\ (r[2] = "root" => row[j].commit = None)
    BY <1>1, <1>2 DEF OwnFits, RootFits, ChildFits, RowFits, Working, Unchanging,
                      Unprepared, Waiting, Roles
  <1>6. ASSUME NEW z, z.pc \in {"noopHydrate", "noop"}
        PROVE  Working(log, row[j].rev.url, hyd'[j], j, z)
    BY <1>5, <1>6 DEF Working, Clean, Unchanging, Prepared, Pushing
  <1>7. OwnFits(r[2], log, row[j], hyd'[j], j, d)
    BY <1>1, <1>2, <1>5, <1>6 DEF OwnFits, RootFits, ChildFits
  <1>8. OwnFits(r[2], log, row[j], hyd'[j], j, y)
    <2>1. CASE r[2] = "child"
      BY <1>4, <1>6, <2>1 DEF OwnFits, ChildFits, ChildSteps
    <2>2. CASE r[2] = "root"
      BY <1>1, <1>2, <1>4, <1>5, <1>6, <2>2 DEF OwnFits, RootFits, RowFits, Recorded, Waiting
    <2> QED BY <1>2, <2>1, <2>2 DEF Roles
  <1>9. Appends({j}) /\ log' = log /\ row' = row /\ run' = run
    BY <1>1, NoAppend
  <1> QED BY <1>1, <1>2, <1>3, <1>4, <1>7, <1>8, <1>9, RowLane

\* A job without a change is over: its row names no commit.
LEMMA NoopLane ==
  ASSUME Inv, LaneInv, Exclusive, NEW e \in Execs, Noop(e),
         NEW r, r = exec[e].on, NEW j, j = r[1], NEW d, d = exec[e].d
  PROVE  LaneInv'
  <1>1. /\ exec[e].ph = "do" /\ d.pc = "noop" /\ UNCHANGED <<log, run, hyd>>
        /\ Completes(e, None)
        /\ SetStatus(j, "completed") \/ SetResult(j, None)
    BY DEF Noop, At, JobOf
  <1>2. /\ d \in Durable /\ d.st = "live" /\ j \in Jobs /\ r[2] \in Roles /\ row[j] \in Rows
        /\ OwnFits(r[2], log, row[j], hyd[j], j, d)
    BY <1>1, AtWork
  <1>3. r[2] = "root"
    BY <1>1, <1>2 DEF OwnFits, ChildFits, ChildSteps, Roles
  <1>4. row[j].commit = None /\ Unpublished(log, j)
    BY <1>1, <1>2, <1>3 DEF OwnFits, RootFits, RowFits, Unprepared, Working, Unchanging
  <1>5. /\ row'[j].status = "completed" /\ row'[j].rev = row[j].rev /\ row'[j].commit = None
        /\ \A i \in Jobs : i # j => row'[i] = row[i]
    BY <1>1, <1>2, <1>4 DEF SetStatus, SetResult, Inv, TypeOK, Rows
  <1>6. PICK y \in Durable :
          Returns(e, y) /\ y.pc = "noop" /\ y.st = "completed" /\ y.res = None
    BY <1>1, <1>2, CompletesGives
  <1>7. ASSUME NEW z, z.pc = "noop", z.st = "completed" => z.res = None
        PROVE  OwnFits("root", log, row'[j], hyd[j], j, z)
    <2>1. Working(log, row'[j].rev.url, hyd[j], j, z)
      BY <1>4, <1>7 DEF Working, Clean, Unchanging, Prepared, Pushing
    <2> QED BY <1>5, <1>7, <2>1 DEF OwnFits, RootFits, RowFits, Recorded, Waiting
  <1>8. /\ OwnFits(r[2], log, row'[j], hyd[j], j, d)
        /\ OwnFits(r[2], log, row'[j], hyd[j], j, y)
    BY <1>1, <1>2, <1>3, <1>6, <1>7
  <1>9. Appends({j}) /\ log' = log /\ hyd' = hyd /\ run' = run
    BY <1>1, NoAppend
  <1> QED BY <1>1, <1>2, <1>3, <1>5, <1>6, <1>8, <1>9, RowLane

\* The candidate is bound to the row before it is pushed.
LEMMA CommitLane ==
  ASSUME Inv, LaneInv, Exclusive, NEW e \in Execs, Commit(e),
         NEW r, r = exec[e].on, NEW j, j = r[1], NEW d, d = exec[e].d
  PROVE  LaneInv'
  <1> DEFINE c == [job |-> j, role |-> r[2], base |-> d.rev.sha]
             x == [d EXCEPT !.pc = "push", !.tries = 0, !.cand = c]
  <1>1. /\ exec[e].ph = "do" /\ d.pc = "commit" /\ UNCHANGED <<log, run, hyd>>
        /\ \/ row' = [row EXCEPT ![j].commit = c] /\ Returns(e, x)
           \/ /\ UNCHANGED row
              /\ Throws(e) \/ (r[2] = "child" /\ row[j].status = "completed")
    BY DEF Commit, At
  <1>2. /\ d \in Durable /\ d.st = "live" /\ j \in Jobs /\ r[2] \in Roles /\ row[j] \in Rows
        /\ r[2] = "child" => row[j].status # "completed"
        /\ OwnFits(r[2], log, row[j], hyd[j], j, d)
    BY <1>1, AtWork
  <1>3. CASE UNCHANGED row /\ Throws(e)
    BY <1>1, <1>3, ThrowLane
  <1>4. CASE row' = [row EXCEPT ![j].commit = c] /\ Returns(e, x)
    <2>1. c \in Commits /\ c.job = j
      BY <1>2 DEF Commits, Durable, Revisions
    <2> HIDE DEF c
    <2>2. x \in Durable /\ x.pc = "push" /\ x.st = "live" /\ x.cand = c
      BY <1>2, <2>1 DEF Durable, Steps
    <2> HIDE DEF x
    <2>3. /\ row'[j].status = row[j].status /\ row'[j].rev = row[j].rev
          /\ \A i \in Jobs : i # j => row'[i] = row[i]
      BY <1>2, <1>4 DEF Inv, TypeOK, Rows
    <2>4. row[j].status # "completed" /\ Unpublished(log, j) /\ hyd[j] = 0
      BY <1>1, <1>2 DEF OwnFits, RootFits, RowFits, Recorded, ChildFits, Working, Clean,
                        Waiting, Roles
    <2>5. /\ Working(log, row'[j].rev.url, hyd[j], j, d)
          /\ Working(log, row'[j].rev.url, hyd[j], j, x)
      BY <1>1, <2>1, <2>2, <2>4 DEF Working, Clean, Unchanging, Prepared, Pushing
    <2>6. /\ OwnFits(r[2], log, row'[j], hyd[j], j, d)
          /\ OwnFits(r[2], log, row'[j], hyd[j], j, x)
      BY <1>1, <1>2, <2>2, <2>3, <2>4, <2>5
      DEF OwnFits, RootFits, RowFits, ChildFits, Unprepared, ChildSteps, Waiting
    <2>7. Appends({j}) /\ log' = log /\ hyd' = hyd /\ run' = run
      BY <1>1, NoAppend
    <2>8. PICK y \in Durable : Returns(e, y) /\ OwnFits(r[2], log, row'[j], hyd[j], j, y)
      BY <1>4, <2>2, <2>6
    <2>9. r[2] = "child" => row'[j].status # "completed"
      BY <2>3, <2>4
    <2>10. exec[e].ph = "do" /\ exec[e].d.pc = "commit"
           /\ OwnFits(r[2], log, row'[j], hyd[j], j, exec[e].d)
      BY <1>1, <2>6
    <2> QED BY <2>3, <2>7, <2>8, <2>9, <2>10, RowLane
  <1> QED BY <1>1, <1>2, <1>3, <1>4

\* The hydrate is queued with a tip that holds the commit, unless it was queued
\* before.
LEMMA HydrateLane ==
  ASSUME Inv, LaneInv, Exclusive, NEW e \in Execs, Hydrate(e),
         NEW r, r = exec[e].on, NEW j, j = r[1], NEW d, d = exec[e].d
  PROVE  LaneInv'
  <1>1. /\ exec[e].ph = "do" /\ d.pc = "hydrate" /\ UNCHANGED <<log, row, run>>
        /\ QueueHydrate(j, d.pub)
        /\ \/ r[2] = "child" /\ Completes(e, d.cand)
           \/ r[2] # "child" /\ Goto(e, "complete")
    BY DEF Hydrate, At, JobOf
  <1>2. /\ d \in Durable /\ d.st = "live" /\ j \in Jobs /\ r[2] \in Roles
        /\ r[2] = "child" => row[j].status # "completed"
        /\ OwnFits(r[2], log, row[j], hyd[j], j, d)
    BY <1>1, AtWork
  <1>3. /\ \A i \in Jobs : i # j => hyd'[i] = hyd[i]
        /\ hyd'[j] = IF hyd[j] = 0 THEN d.pub ELSE hyd[j]
    BY <1>1, <1>2 DEF QueueHydrate, Inv, TypeOK
  <1> DEFINE u == row[j].rev.url
  <1>4. /\ Once(log, j, u, d.cand) /\ Holds(log, u, d.cand, d.pub)
        /\ hyd[j] = 0 \/ Holds(log, u, d.cand, hyd[j])
        /\ d.cand.job = j
    <2>1. Working(log, u, hyd[j], j, d)
      BY <1>1, <1>2 DEF OwnFits, RootFits, ChildFits, Roles
    <2> QED BY <1>1, <2>1 DEF Working, Prepared
  <1>5. Holds(log, u, d.cand, hyd'[j])
    BY <1>3, <1>4
  <1>6. PICK y \in Durable :
          /\ Returns(e, y) /\ y.cand = d.cand /\ y.pub = d.pub
          /\ \/ r[2] = "child" /\ y.pc = "hydrate" /\ y.st = "completed" /\ y.res = d.cand
             \/ r[2] = "root" /\ y.pc = "complete" /\ y.st = "live"
    <2>1. CASE r[2] = "child" /\ Completes(e, d.cand)
      <3>1. d.cand \in Commits \cup {None}
        BY <1>2 DEF Durable
      <3> QED BY <1>1, <1>2, <2>1, <3>1, CompletesGives
    <2>2. CASE r[2] # "child" /\ Goto(e, "complete")
      BY <1>1, <1>2, <2>2, GotoGives DEF Steps, Roles
    <2> QED BY <1>1, <2>1, <2>2
  <1>7. ASSUME NEW z, z.pc \in {"hydrate", "complete"}, z.cand = d.cand, z.pub = d.pub
        PROVE  Working(log, u, hyd'[j], j, z)
    BY <1>4, <1>5, <1>7 DEF Working, Clean, Unchanging, Pushing
  <1>8. OwnFits(r[2], log, row[j], hyd'[j], j, d)
    BY <1>1, <1>2, <1>7 DEF OwnFits, RootFits, ChildFits
  <1>9. OwnFits(r[2], log, row[j], hyd'[j], j, y)
    <2>1. CASE r[2] = "child"
      BY <1>5, <1>6, <1>7, <2>1 DEF OwnFits, ChildFits, ChildSteps
    <2>2. CASE r[2] = "root"
      BY <1>1, <1>2, <1>6, <1>7, <2>2
      DEF OwnFits, RootFits, RowFits, Recorded, Waiting, Unprepared
    <2> QED BY <1>2, <2>1, <2>2 DEF Roles
  <1>10. Appends({j}) /\ log' = log /\ row' = row /\ run' = run
    BY <1>1, NoAppend
  <1> QED BY <1>1, <1>2, <1>3, <1>6, <1>8, <1>9, <1>10, RowLane

\* A root run records what it published itself.
LEMMA CompleteLane ==
  ASSUME Inv, LaneInv, Exclusive, NEW e \in Execs, Complete(e),
         NEW r, r = exec[e].on, NEW j, j = r[1], NEW d, d = exec[e].d
  PROVE  LaneInv'
  <1>1. /\ exec[e].ph = "do" /\ d.pc = "complete" /\ UNCHANGED <<log, run, hyd>>
        /\ SetResult(j, d.cand) /\ Completes(e, d.cand)
    BY DEF Complete, At, JobOf
  <1>2. /\ d \in Durable /\ d.st = "live" /\ j \in Jobs /\ r[2] \in Roles /\ row[j] \in Rows
        /\ OwnFits(r[2], log, row[j], hyd[j], j, d)
    BY <1>1, AtWork
  <1>3. r[2] = "root"
    BY <1>1, <1>2 DEF OwnFits, ChildFits, ChildSteps, Roles
  <1>4. /\ Working(log, row[j].rev.url, hyd[j], j, d)
        /\ row[j].status = "completed" => row[j].commit = d.cand
    BY <1>1, <1>2, <1>3 DEF OwnFits, RootFits, RowFits, Recorded
  <1>5. /\ row'[j].status = "completed" /\ row'[j].rev = row[j].rev
        /\ row'[j].commit = d.cand
        /\ \A i \in Jobs : i # j => row'[i] = row[i]
    BY <1>1, <1>2, <1>4 DEF SetResult, Inv, TypeOK, Rows
  <1>6. PICK y \in Durable :
          /\ Returns(e, y) /\ y.pc = "complete" /\ y.st = "completed" /\ y.res = d.cand
          /\ y.cand = d.cand /\ y.pub = d.pub
    <2>1. d.cand \in Commits \cup {None}
      BY <1>2 DEF Durable
    <2> QED BY <1>1, <1>2, <2>1, CompletesGives
  <1>7. Working(log, row[j].rev.url, hyd[j], j, y)
    BY <1>1, <1>4, <1>6 DEF Working
  <1>8. /\ OwnFits(r[2], log, row'[j], hyd[j], j, d)
        /\ OwnFits(r[2], log, row'[j], hyd[j], j, y)
    BY <1>1, <1>2, <1>3, <1>4, <1>5, <1>6, <1>7
    DEF OwnFits, RootFits, RowFits, Recorded, Waiting, Unprepared
  <1>9. Appends({j}) /\ log' = log /\ hyd' = hyd /\ run' = run
    BY <1>1, NoAppend
  <1> QED BY <1>1, <1>2, <1>3, <1>5, <1>6, <1>8, <1>9, RowLane

\* What an executor that is about to push has before it: the candidate was
\* never pushed, or its push was done before.
LEMMA AtPush ==
  ASSUME Inv, LaneInv, NEW e \in Execs, exec[e].ph \in {"do", "recheck", "send"},
         NEW r, r = exec[e].on, NEW j, j = r[1], NEW d, d = exec[e].d,
         d.pc = "push"
  PROVE  /\ d.cand \in Commits /\ d.cand.job = j /\ hyd[j] = 0
         /\ Unpublished(log, j) \/ Once(log, j, d.rev.url, d.cand)
         /\ Unpublished(log, j) <=> ~Contains(d.rev.url, d.cand)
         /\ Unpublished(log, j) => ~TipIs(d.rev.url, d.cand)
         /\ Once(log, j, d.rev.url, d.cand) <=> Contains(d.rev.url, d.cand)
  <1>1. /\ d \in Durable /\ r[2] \in Roles /\ d.rev.url = row[j].rev.url /\ d.rev.url \in Urls
        /\ OwnFits(r[2], log, row[j], hyd[j], j, d)
    BY AtWork
  <1>2. Working(log, d.rev.url, hyd[j], j, d)
    BY <1>1 DEF OwnFits, RootFits, ChildFits, Roles
  <1>3. /\ d.cand.job = j /\ hyd[j] = 0
        /\ Unpublished(log, j) \/ Once(log, j, d.rev.url, d.cand)
    BY <1>2 DEF Working, Prepared, Pushing
  <1>4. d.cand \in Commits /\ d.cand # None
    BY Busy, NoneAssumption DEF Sound, Prepared
  <1>5. /\ Unpublished(log, j) => d.cand \notin PublishedIn(log, d.rev.url)
        /\ Once(log, j, d.rev.url, d.cand) => Contains(d.rev.url, d.cand)
    <2>1. DOMAIN log[d.rev.url] = 1..Tip(d.rev.url)
      BY <1>1 DEF Tip, Inv, TypeOK
    <2> QED BY <1>1, <1>3, <1>4, <2>1 DEF Unpublished, OfJob, PublishedIn, Once, Contains
  <1>6. /\ Contains(d.rev.url, d.cand) => d.cand \in PublishedIn(log, d.rev.url)
        /\ TipIs(d.rev.url, d.cand) => d.cand \in PublishedIn(log, d.rev.url)
    BY <1>1, LookupPublished DEF Inv
  <1> QED BY <1>3, <1>4, <1>5, <1>6

\* The push waits for the access, or finds the candidate on the branch.
LEMMA PushedLane ==
  ASSUME Inv, LaneInv, Exclusive, NEW e \in Execs, exec[e].ph \in {"do", "recheck", "send"},
         NEW r, r = exec[e].on, NEW j, j = r[1], NEW d, d = exec[e].d, d.pc = "push",
         \/ Goto(e, "pausePush")
         \/ Goto(e, "publish") /\ Once(log, j, d.rev.url, d.cand)
         \/ TipAdvanced(e) /\ Unpublished(log, j),
         UNCHANGED <<log, row, run, hyd>>
  PROVE  LaneInv'
  <1>1. /\ d \in Durable /\ d.st = "live" /\ j \in Jobs /\ r[2] \in Roles
        /\ d.rev.url = row[j].rev.url
        /\ r[2] = "child" => row[j].status # "completed"
        /\ OwnFits(r[2], log, row[j], hyd[j], j, d)
    BY AtWork
  <1>2. d.cand.job = j /\ hyd[j] = 0
        /\ (Unpublished(log, j) \/ Once(log, j, d.rev.url, d.cand))
    BY AtPush
  <1>3. PICK y \in Durable :
          /\ Returns(e, y) /\ y.cand = d.cand /\ y.st = "live"
          /\ \/ y.pc = "pausePush"
             \/ y.pc = "publish" /\ Once(log, j, d.rev.url, d.cand)
             \/ y.pc = "discard" /\ Unpublished(log, j)
             \/ y.pc = "capture" /\ Unpublished(log, j) /\ r[2] = "root"
    <2>1. ASSUME NEW pc \in Steps, Goto(e, pc)
          PROVE  \E y \in Durable :
                   Returns(e, y) /\ y.cand = d.cand /\ y.st = "live" /\ y.pc = pc
      <3>1. d \in Durable /\ d.st = "live"
        BY <1>1
      <3> QED BY <2>1, <3>1, GotoGives
    <2>2. {"pausePush", "publish", "discard", "capture"} \subseteq Steps
      BY DEF Steps
    <2>3. \E pc \in {"pausePush", "publish", "discard", "capture"} :
            /\ Goto(e, pc)
            /\ \/ pc = "pausePush"
               \/ pc = "publish" /\ Once(log, j, d.rev.url, d.cand)
               \/ pc = "discard" /\ Unpublished(log, j)
               \/ pc = "capture" /\ Unpublished(log, j) /\ r[2] = "root"
      <3>1. TipAdvanced(e) => Goto(e, "discard") \/ (Goto(e, "capture") /\ r[2] = "root")
        BY <1>1 DEF TipAdvanced, IsMerge, Roles
      <3> QED BY <3>1
    <2> QED BY <2>1, <2>2, <2>3
  <1>4. Working(log, row[j].rev.url, hyd[j], j, y)
    BY <1>1, <1>2, <1>3 DEF Working, Clean, Unchanging, Prepared, Pushing
  <1>5. r[2] = "root" => row[j].status # "completed"
    BY <1>1 DEF OwnFits, RootFits, RowFits, Recorded
  <1>6. OwnFits(r[2], log, row[j], hyd[j], j, y)
    BY <1>1, <1>3, <1>4, <1>5 DEF OwnFits, RootFits, RowFits, ChildFits, Unprepared,
                                  ChildSteps, Waiting
  <1> QED BY <1>1, <1>3, <1>6, PlainLane

LEMMA PushCheckLane ==
  ASSUME Inv, LaneInv, Exclusive, NEW e \in Execs, PushCheck(e),
         NEW r, r = exec[e].on, NEW j, j = r[1], NEW d, d = exec[e].d
  PROVE  LaneInv'
  <1>1. /\ exec[e].ph = "do" /\ d.pc = "push" /\ UNCHANGED <<log, row, run, hyd>>
        /\ \/ Throws(e)
           \/ Contains(d.rev.url, d.cand) /\ Goto(e, "publish")
           \/ Goto(e, "pausePush")
           \/ ~Contains(d.rev.url, d.cand) /\ TipAdvanced(e)
           \/ /\ ~Contains(d.rev.url, d.cand)
              /\ exec' = [exec EXCEPT ![e].ph = "recheck"]
    BY DEF PushCheck, At
  <1>2. CASE Throws(e)
    BY <1>1, <1>2, ThrowLane
  <1>3. /\ Unpublished(log, j) <=> ~Contains(d.rev.url, d.cand)
        /\ Once(log, j, d.rev.url, d.cand) <=> Contains(d.rev.url, d.cand)
    BY <1>1, AtPush
  <1>4. CASE \/ Contains(d.rev.url, d.cand) /\ Goto(e, "publish")
             \/ Goto(e, "pausePush")
             \/ ~Contains(d.rev.url, d.cand) /\ TipAdvanced(e)
    BY <1>1, <1>3, <1>4, PushedLane
  <1>5. CASE /\ ~Contains(d.rev.url, d.cand)
             /\ exec' = [exec EXCEPT ![e].ph = "recheck"]
    <2>1. exec' = [exec EXCEPT ![e].ph = exec'[e].ph] /\ exec'[e].ph = "recheck"
      BY <1>1, <1>5, LaneExec DEF Inv, TypeOK, ExecRecs
    <2>2. Unpublished(log, JobOf(e))
      BY <1>3, <1>5 DEF JobOf
    <2> QED BY <1>1, <2>1, <2>2, PhaseLane
  <1> QED BY <1>1, <1>2, <1>4, <1>5

LEMMA PushRecheckLane ==
  ASSUME Inv, LaneInv, Exclusive, NEW e \in Execs, PushRecheck(e),
         NEW r, r = exec[e].on, NEW j, j = r[1], NEW d, d = exec[e].d
  PROVE  LaneInv'
  <1>1. /\ exec[e].ph = "recheck" /\ d.pc = "push" /\ UNCHANGED <<log, row, run, hyd>>
        /\ \/ Throws(e)
           \/ TipIs(d.rev.url, d.cand) /\ Goto(e, "publish")
           \/ Goto(e, "pausePush")
           \/ TipAdvanced(e)
           \/ exec' = [exec EXCEPT ![e].ph = "send"]
    BY DEF PushRecheck, Inv, ExecOK
  <1>2. CASE Throws(e)
    BY <1>1, <1>2, ThrowLane
  <1>3. Unpublished(log, j) /\ ~TipIs(d.rev.url, d.cand)
    <2>1. Unpublished(log, j)
      BY <1>1 DEF LaneInv, Alone
    <2> QED BY <1>1, <2>1, AtPush
  <1>4. CASE Goto(e, "pausePush") \/ TipAdvanced(e)
    BY <1>1, <1>3, <1>4, PushedLane
  <1>5. CASE exec' = [exec EXCEPT ![e].ph = "send"]
    <2>1. exec' = [exec EXCEPT ![e].ph = exec'[e].ph] /\ exec'[e].ph = "send"
      BY <1>1, <1>5, LaneExec DEF Inv, TypeOK, ExecRecs
    <2>2. Unpublished(log, JobOf(e))
      BY <1>3 DEF JobOf
    <2> QED BY <1>1, <2>1, <2>2, PhaseLane
  <1> QED BY <1>1, <1>2, <1>3, <1>4, <1>5

LEMMA PushDeniedLane ==
  ASSUME Inv, LaneInv, Exclusive, NEW e \in Execs, PushDenied(e)
  PROVE  LaneInv'
  <1>1. /\ exec[e].ph \in {"recheck", "send"} /\ exec[e].d.pc = "push"
        /\ UNCHANGED <<log, row, run, hyd>> /\ Goto(e, "pausePush")
    BY DEF PushDenied, Inv, ExecOK
  <1> QED BY <1>1, PushedLane

\* One more commit on branch u, the first one of its job.
LEMMA FirstCommit ==
  ASSUME Inv, NEW u \in Urls, NEW x, log' = [log EXCEPT ![u] = Append(@, x)],
         NEW j \in Jobs, NEW c, x.commit = c, c.job = j, c # None, Unpublished(log, j)
  PROVE  Appends({j}) /\ Once(log', j, u, c)
  <1>1. /\ DOMAIN log[u] = 1..Len(log[u]) /\ log'[u] = Append(log[u], x)
        /\ log[u] \in Seq(Entries) /\ Len(log[u]) \in Nat
        /\ \A v \in Urls : v # u => log'[v] = log[v]
    <2>1. log \in [Urls -> Seq(Entries)]
      BY DEF Inv, TypeOK
    <2>2. log[u] \in Seq(Entries)
      BY <2>1
    <2>3. DOMAIN log[u] = 1..Len(log[u]) /\ Len(log[u]) \in Nat
      BY <2>2
    <2>4. log'[u] = Append(log[u], x) /\ \A v \in Urls : v # u => log'[v] = log[v]
      BY <2>1
    <2> QED BY <2>2, <2>3, <2>4
  <1>2. /\ DOMAIN log'[u] = 1..(Len(log[u]) + 1)
        /\ \A p \in 1..Len(log[u]) : log'[u][p] = log[u][p]
        /\ log'[u][Len(log[u]) + 1] = x
    BY <1>1
  <1>3. Appends({j})
    <2>1. \A i \in Jobs : OfJob(x, i) => i = j
      BY DEF OfJob
    <2> QED BY <1>1, <1>2, <2>1 DEF Appends
  <1>4. Once(log', j, u, c)
    <2> DEFINE p == Len(log[u]) + 1
    <2>1. p \in DOMAIN log'[u] /\ log'[u][p].commit = c
      BY <1>1, <1>2
    <2>2. ASSUME NEW v \in Urls, NEW q \in DOMAIN log'[v], OfJob(log'[v][q], j)
          PROVE  v = u /\ q = p
      <3>1. CASE v # u
        <4>1. log'[v] = log[v]
          BY <1>1, <3>1
        <4> QED BY <2>2, <4>1 DEF Unpublished
      <3>2. CASE v = u /\ q # p
        <4>1. q \in DOMAIN log[u] /\ log'[u][q] = log[u][q]
          BY <1>1, <1>2, <2>2, <3>2
        <4> QED BY <2>2, <3>2, <4>1 DEF Unpublished
      <3> QED BY <3>1, <3>2
    <2> HIDE DEF p
    <2> QED BY <2>1, <2>2 DEF Once
  <1> QED BY <1>3, <1>4

\* The push adds the one commit of the job, or nothing.
LEMMA PushSendLane ==
  ASSUME Inv, LaneInv, Exclusive, NEW e \in Execs, PushSend(e),
         NEW r, r = exec[e].on, NEW j, j = r[1], NEW d, d = exec[e].d
  PROVE  LaneInv'
  <1> DEFINE u == d.rev.url
             x == [commit |-> d.cand, tree |-> log[u][d.rev.sha].tree \cup {j}]
  <1>1. /\ exec[e].ph = "send" /\ d.pc = "push" /\ UNCHANGED <<row, run, hyd>>
        /\ \/ log' = [log EXCEPT ![u] = Append(@, x)] /\ Goto(e, "publish")
           \/ UNCHANGED log /\ TipIs(u, d.cand) /\ Goto(e, "publish")
           \/ UNCHANGED log /\ Throws(e)
    BY DEF PushSend, PushUrl, Inv, ExecOK, JobOf
  <1>2. /\ Unpublished(log, j) /\ ~TipIs(u, d.cand)
        /\ d.cand \in Commits /\ d.cand.job = j /\ hyd[j] = 0
    <2>1. exec[e].ph = "send" /\ d.pc = "push"
      BY <1>1
    <2>2. Unpublished(log, j)
      BY <2>1 DEF LaneInv, Alone
    <2> HIDE DEF x
    <2> QED BY <2>1, <2>2, AtPush
  <1>3. CASE UNCHANGED log /\ Throws(e)
    BY <1>1, <1>3, ThrowLane
  <1>4. CASE log' = [log EXCEPT ![u] = Append(@, x)] /\ Goto(e, "publish")
    <2> HIDE DEF x
    <2>0. /\ log' = [log EXCEPT ![u] = Append(@, x)] /\ Goto(e, "publish")
          /\ exec[e].ph = "send" /\ d.pc = "push"
      BY <1>1, <1>4
    <2>1. /\ d \in Durable /\ d.st = "live" /\ j \in Jobs /\ r[2] \in Roles
          /\ u = row[j].rev.url /\ u \in Urls
          /\ r[2] = "child" => row[j].status # "completed"
          /\ OwnFits(r[2], log, row[j], hyd[j], j, d)
      <3>1. exec[e].ph \notin {"idle", "record"} /\ d.pc \notin {"spawn", "child", "merged"}
        BY <2>0
      <3> QED BY <3>1, AtWork
    <2>2. x.commit = d.cand
      BY DEF x
    <2> HIDE DEF u
    <2>3. d.cand # None
      BY <1>2, NoneAssumption
    <2>4. Appends({j}) /\ Once(log', j, u, d.cand)
      BY <1>2, <2>0, <2>1, <2>2, <2>3, FirstCommit
    <2>5. PICK y \in Durable :
            Returns(e, y) /\ y.pc = "publish" /\ y.cand = d.cand /\ y.st = "live"
      <3>1. Goto(e, "publish") /\ d \in Durable /\ d.st = "live" /\ "publish" \in Steps
        BY <2>0, <2>1 DEF Steps
      <3> QED BY <3>1, GotoGives
    <2>6. /\ Working(log', u, hyd[j], j, d) /\ Working(log', u, hyd[j], j, y)
      BY <1>1, <1>2, <2>4, <2>5 DEF Working, Clean, Unchanging, Prepared, Pushing
    <2>7. r[2] = "root" => row[j].status # "completed"
      BY <1>1, <2>1 DEF OwnFits, RootFits, RowFits, Recorded
    <2>8. /\ OwnFits(r[2], log', row[j], hyd[j], j, d)
          /\ OwnFits(r[2], log', row[j], hyd[j], j, y)
      BY <1>1, <2>1, <2>5, <2>6, <2>7
      DEF OwnFits, RootFits, RowFits, ChildFits, Unprepared, ChildSteps, Waiting
    <2>9. row' = row /\ hyd' = hyd /\ run' = run
      BY <1>1
    <2> QED BY <1>1, <2>1, <2>4, <2>5, <2>8, <2>9, RowLane
  <1> QED BY <1>1, <1>2, <1>3, <1>4

\* The tip that publish-result resolves holds the commit.
LEMMA PublishLane ==
  ASSUME Inv, LaneInv, Exclusive, NEW e \in Execs, Publish(e),
         NEW r, r = exec[e].on, NEW j, j = r[1], NEW d, d = exec[e].d
  PROVE  LaneInv'
  <1> DEFINE u == d.rev.url
             x == [d EXCEPT !.pc = "hydrate", !.tries = 0, !.pub = Tip(u)]
  <1>1. /\ exec[e].ph = "do" /\ d.pc = "publish" /\ UNCHANGED <<log, row, run, hyd>>
        /\ Throws(e) \/ Returns(e, x)
    BY DEF Publish, At, HydrateTip
  <1>2. CASE Throws(e)
    BY <1>1, <1>2, ThrowLane
  <1>3. CASE Returns(e, x)
    <2>1. /\ d \in Durable /\ d.st = "live" /\ j \in Jobs /\ r[2] \in Roles
          /\ u = row[j].rev.url /\ u \in Urls
          /\ r[2] = "child" => row[j].status # "completed"
          /\ OwnFits(r[2], log, row[j], hyd[j], j, d)
      BY <1>1, AtWork
    <2> HIDE DEF u
    <2>2. DOMAIN log[u] = 1..Tip(u) /\ Tip(u) \in Nat
      <3>1. log[u] \in Seq(Entries)
        BY <2>1 DEF Inv, TypeOK
      <3> QED BY <3>1 DEF Tip
    <2>3. /\ x \in Durable /\ x.pc = "hydrate" /\ x.st = "live" /\ x.cand = d.cand
          /\ x.pub = Tip(u)
      BY <2>1, <2>2 DEF Durable, Steps
    <2> HIDE DEF x
    <2>4. Once(log, j, u, d.cand) /\ hyd[j] = 0 /\ d.cand.job = j
      <3>1. Working(log, u, hyd[j], j, d)
        BY <1>1, <2>1 DEF OwnFits, RootFits, ChildFits, Roles
      <3> QED BY <1>1, <3>1 DEF Working, Prepared
    <2>5. Holds(log, u, d.cand, Tip(u))
      BY <2>2, <2>4 DEF Once, Holds
    <2>6. Working(log, u, hyd[j], j, x)
      BY <2>3, <2>4, <2>5 DEF Working, Clean, Unchanging, Prepared, Pushing
    <2>7. r[2] = "root" => row[j].status # "completed"
      BY <1>1, <2>1 DEF OwnFits, RootFits, RowFits, Recorded
    <2>8. OwnFits(r[2], log, row[j], hyd[j], j, x)
      BY <2>1, <2>3, <2>6, <2>7
      DEF OwnFits, RootFits, RowFits, ChildFits, Unprepared, ChildSteps, Waiting
    <2>9. PICK y \in Durable : Returns(e, y) /\ OwnFits(r[2], log, row[j], hyd[j], j, y)
      BY <1>3, <2>3, <2>8
    <2> QED BY <1>1, <2>1, <2>9, PlainLane
  <1> QED BY <1>1, <1>2, <1>3

\* The handoff is written to the row, or found there.
LEMMA CaptureLane ==
  ASSUME Inv, LaneInv, Exclusive, NEW e \in Execs, Capture(e),
         NEW r, r = exec[e].on, NEW j, j = r[1], NEW d, d = exec[e].d
  PROVE  LaneInv'
  <1> DEFINE next == [cand |-> d.cand, rev |-> [d.rev EXCEPT !.sha = Tip(d.rev.url)]]
             x(h) == [d EXCEPT !.pc = "spawn", !.tries = 0, !.handoff = h]
  <1>1. /\ exec[e].ph = "do" /\ d.pc = "capture" /\ UNCHANGED <<log, run, hyd>>
        /\ \/ UNCHANGED row /\ Throws(e)
           \/ /\ row[j].status = "running"
              /\ row' = [row EXCEPT ![j].handoff = next] /\ Returns(e, x(next))
           \/ /\ row[j].status = "running" /\ row[j].handoff # None
              /\ UNCHANGED row /\ Returns(e, x(row[j].handoff))
    BY DEF Capture, At, JobOf
  <1>2. /\ d \in Durable /\ d.st = "live" /\ j \in Jobs /\ row[j] \in Rows /\ r[2] \in Roles
        /\ OwnFits(r[2], log, row[j], hyd[j], j, d)
    <2>1. exec[e].ph \notin {"idle", "record"} /\ d.pc \notin {"spawn", "child", "merged"}
      BY <1>1
    <2> QED BY <2>1, AtWork
  <1>3. r[2] = "root"
    BY <1>1, <1>2 DEF OwnFits, ChildFits, ChildSteps, Roles
  <1>4. next \in Handoffs
    <2>1. d.cand \in Commits /\ d.rev \in Revisions /\ Tip(d.rev.url) \in Nat
      <3>1. exec[e].ph # "idle" /\ d.pc \in Prepared
        BY <1>1 DEF Prepared
      <3>2. d.cand \in Commits
        BY <3>1, Busy DEF Sound
      <3>3. d.rev \in Revisions /\ Tip(d.rev.url) \in Nat
        BY <3>1, Busy, Captured
      <3> QED BY <3>2, <3>3
    <2> QED BY <2>1 DEF Handoffs, Revisions
  <1>5. CASE UNCHANGED row /\ Throws(e)
    BY <1>1, <1>5, ThrowLane
  <1>6. CASE ~(UNCHANGED row /\ Throws(e))
    <2> HIDE DEF next
    <2>1. PICK h \in Handoffs :
            /\ Returns(e, x(h)) /\ row[j].status = "running"
            /\ row' = [row EXCEPT ![j].handoff = h] \/ row' = row
      <3>1. row[j].handoff # None => row[j].handoff \in Handoffs
        BY <1>2 DEF Rows
      <3> QED BY <1>1, <1>4, <1>6, <3>1
    <2>2. x(h) \in Durable /\ x(h).pc = "spawn" /\ x(h).st = "live"
      <3>1. "spawn" \in Steps /\ 0 \in Nat
        BY DEF Steps
      <3> QED BY <1>2, <2>1, <3>1 DEF Durable
    <2>3. Returns(e, x(h))
      BY <2>1
    <2> HIDE DEF x
    <2>4. /\ row'[j].status = "running" /\ row'[j].rev = row[j].rev
          /\ \A i \in Jobs : i # j => row'[i] = row[i]
      BY <1>2, <2>1 DEF Inv, TypeOK, Rows
    <2>5. d.pc \in Clean \ {"spawn"} /\ d.pc \notin Unprepared
          /\ "spawn" \in Clean /\ "spawn" \notin Unprepared
      BY <1>1 DEF Clean, Unprepared
    <2>6. exec[e].ph \notin {"idle", "record"} /\ UNCHANGED <<log, run, hyd>>
      BY <1>1
    <2> QED BY <1>3, <2>2, <2>3, <2>4, <2>5, <2>6, CleanLane
  <1> QED BY <1>5, <1>6

\* An executor whose job nothing happens to.
LEMMA AwayLane ==
  ASSUME Inv, LaneInv, NEW j, NEW f \in Execs, exec'[f] = exec[f],
         exec[f].ph # "idle" => exec[f].on[1] # j,
         log' = log, hyd' = hyd,
         \A i \in Jobs : i # j => row'[i] = row[i],
         \A s \in Runs : s[1] # j => run'[s] = run[s]
  PROVE  Alone(f)'
  <1> DEFINE s == exec[f].on
             i == s[1]
  <1>1. CASE exec[f].ph = "idle"
    BY <1>1 DEF Alone
  <1>2. CASE exec[f].ph # "idle"
    <2>1. Alone(f) /\ s \in Runs /\ i \in Jobs /\ i # j
      BY <1>2, LaneExec DEF LaneInv
    <2>2. /\ <<i, "root">> \in Runs /\ <<i, "child">> \in Runs
          /\ <<i, "root">>[1] = i /\ <<i, "child">>[1] = i
      BY <2>1 DEF Runs, Roles
    <2>3. /\ run'[s] = run[s] /\ row'[i] = row[i] /\ hyd'[i] = hyd[i]
          /\ RootOf(i)' = RootOf(i) /\ ChildOf(i)' = ChildOf(i)
      BY <2>1, <2>2 DEF RootOf, ChildOf
    <2>4. JobWith(s, exec[f].d) => JobWith(s, exec[f].d)'
      BY <2>3 DEF JobWith, RootOf, ChildOf
    <2> QED BY <2>1, <2>3, <2>4 DEF Alone
  <1> QED BY <1>1, <1>2

\* The parent goes on to wait; its child starts from a clean slate.
LEMMA SpawnLane ==
  ASSUME Inv, LaneInv, Exclusive, NEW e \in Execs, Spawn(e),
         NEW r, r = exec[e].on, NEW j, j = r[1], NEW d, d = exec[e].d
  PROVE  LaneInv'
  <1> DEFINE c == <<j, "child">>
             n == Fresh("acquire", d.handoff.rev, d.handoff)
  <1>1. /\ exec[e].ph = "do" /\ d.pc = "spawn" /\ UNCHANGED <<log, row, hyd>>
        /\ run' = IF run[c].d # None THEN run ELSE [run EXCEPT ![c].d = n]
        /\ Goto(e, "child")
    BY DEF Spawn, At, JobOf, Exists
  <1>2. /\ r \in Runs /\ j \in Jobs /\ r[2] \in Roles /\ r = <<j, r[2]>>
        /\ d = run[r].d /\ d # None /\ d \in Durable /\ d.st = "live"
        /\ r[2] = "root" => /\ RootFits(log, row[j], hyd[j], j, d, ChildOf(j))
                            /\ RootOf(j) = d
        /\ r[2] = "child" => ChildFits(log, row[j].rev.url, hyd[j], j, d)
    <2>1. exec[e].ph \notin {"idle", "record"}
      BY <1>1
    <2> QED BY <2>1, AtWork
  <1>3. /\ r[2] = "root" /\ r = <<j, "root">> /\ c \in Runs /\ c # r
        /\ RootFits(log, row[j], hyd[j], j, d, ChildOf(j)) /\ RootOf(j) = d
    BY <1>1, <1>2 DEF ChildFits, ChildSteps, Roles, Runs
  <1>4. row[j].status # "completed"
    BY <1>1, <1>3 DEF RootFits, RowFits, Recorded
  <1>5. PICK y \in Durable : Returns(e, y) /\ y.pc = "child" /\ y.st = "live"
    <2>1. d \in Durable /\ d.st = "live" /\ "child" \in Steps /\ Goto(e, "child")
      BY <1>1, <1>2 DEF Steps
    <2> QED BY <2>1, GotoGives
  <1>6. y # None
    BY <1>5, NoneAssumption
  <1>7. ASSUME NEW k, k # None
        PROVE  RootFits(log, row[j], hyd[j], j, d, k) /\ RootFits(log, row[j], hyd[j], j, y, k)
    BY <1>1, <1>2, <1>3, <1>4, <1>5, <1>7 DEF RootFits, RowFits, Recorded, Waiting, Unprepared
  <1>8. CASE run[c].d # None
    <2>1. JobFits(log, row[j], hyd[j], j, d, ChildOf(j)) /\ ChildOf(j) # None
      BY <1>2, <1>3, <1>8 DEF LaneInv, JobOK, ChildOf
    <2>2. JobWith(r, y)
      BY <1>3, <1>6, <1>7, <2>1 DEF JobWith, JobFits
    <2>3. UNCHANGED <<log, row, run, hyd>> /\ exec[e].ph \notin {"idle", "record"}
      BY <1>1, <1>8
    <2> QED BY <1>5, <2>2, <2>3, ReturnLane
  <1>9. CASE run[c].d = None
    <2>1. ChildOf(j) = None
      BY <1>9 DEF ChildOf
    <2>2. Unpublished(log, j) /\ hyd[j] = 0
      BY <1>1, <1>3, <2>1 DEF RootFits, Working, Clean
    <2>3. n # None /\ n.pc = "acquire" /\ n.st = "live"
      <3>1. d.handoff \in Handoffs
        BY <1>1, Busy DEF Sound
      <3>2. n \in Durable
        BY <3>1 DEF Fresh, Durable, Steps, Handoffs
      <3> QED BY <3>2, NoneAssumption DEF Fresh
    <2>4. run' = [run EXCEPT ![c].d = n]
      BY <1>1, <1>9
    <2> HIDE DEF n
    <2>5. /\ run'[c].d = n
          /\ \A s \in Runs : s # c => run'[s] = run[s]
      BY <1>3, <2>4 DEF Inv, TypeOK, RunRecs
    <2>6. /\ exec'[e].on = r /\ exec'[e].ph = "record" /\ exec'[e].d = y
          /\ \A f \in Execs : f # e => exec'[f] = exec[f]
      <3>1. exec[e] \in ExecRecs
        BY <1>1, LaneExec
      <3> QED BY <1>5, <3>1 DEF Returns, Inv, TypeOK, ExecRecs
    <2>7. ChildFits(log, row[j].rev.url, hyd[j], j, n)
      BY <2>2, <2>3 DEF ChildFits, ChildSteps, Working, Clean, Unchanging, Prepared, Pushing
    <2>8. RootOf(j)' = d /\ ChildOf(j)' = n
      BY <1>2, <1>3, <2>5 DEF RootOf, ChildOf
    <2>9. /\ JobFits(log, row[j], hyd[j], j, d, n)
          /\ JobFits(log, row[j], hyd[j], j, y, n)
      BY <1>2, <1>6, <1>7, <2>3, <2>7 DEF JobFits
    <2>10. log' = log /\ row' = row /\ hyd' = hyd
      BY <1>1
    <2>11. ASSUME NEW i \in Jobs PROVE JobOK(i)'
      <3>1. CASE i = j
        BY <2>8, <2>9, <2>10, <3>1 DEF JobOK
      <3>2. CASE i # j
        <4>1. RootOf(i)' = RootOf(i) /\ ChildOf(i)' = ChildOf(i)
          BY <2>5, <3>2 DEF RootOf, ChildOf, Runs, Roles
        <4> QED BY <2>10, <4>1 DEF LaneInv, JobOK
      <3> QED BY <3>1, <3>2
    <2>12. Alone(e)'
      <3>1. run'[r] = run[r] /\ Alone(e)
        BY <1>2, <1>3, <2>5 DEF LaneInv
      <3>2. JobWith(r, y)'
        BY <1>3, <2>8, <2>9, <2>10 DEF JobWith
      <3> QED BY <1>1, <2>6, <3>1, <3>2 DEF Alone
    <2>13. ASSUME NEW f \in Execs, f # e PROVE Alone(f)'
      <3>1. ASSUME exec[f].ph # "idle" PROVE exec[f].on[1] # j
        <4> DEFINE s == exec[f].on
        <4>1. /\ s \in Runs /\ s[2] \in Roles /\ s = <<s[1], s[2]>> /\ run[s].d # None
              /\ s # r
          BY <1>1, <2>13, <3>1, LaneExec DEF Exclusive
        <4>2. s # c
          BY <1>9, <4>1
        <4> QED BY <1>3, <4>1, <4>2 DEF Roles
      <3>2. \A s \in Runs : s[1] # j => run'[s] = run[s]
        BY <2>5
      <3> QED BY <2>6, <2>10, <2>13, <3>1, <3>2, AwayLane
    <2> QED BY <2>11, <2>12, <2>13 DEF LaneInv
  <1> QED BY <1>8, <1>9

\* The root run goes on with the result of its child.
LEMMA AwaitChildLane ==
  ASSUME Inv, LaneInv, Exclusive, NEW e \in Execs, AwaitChild(e),
         NEW r, r = exec[e].on, NEW j, j = r[1], NEW d, d = exec[e].d
  PROVE  LaneInv'
  <1> DEFINE c == <<j, "child">>
             y == [d EXCEPT !.pc = "merged", !.tries = 0, !.res = run[c].d.res]
  <1>1. /\ exec[e].ph = "do" /\ d.pc = "child" /\ UNCHANGED <<log, row, run, hyd>>
        /\ \/ Ended(c, "completed") /\ Returns(e, y)
           \/ Fails(e)
    BY DEF AwaitChild, At, JobOf
  <1>2. CASE Fails(e)
    BY <1>1, <1>2, ThrowLane
  <1>3. CASE Ended(c, "completed") /\ Returns(e, y)
    <2>1. /\ j \in Jobs /\ r[2] \in Roles /\ d # None /\ d \in Durable /\ d.st = "live"
          /\ r[2] = "root" => /\ RootFits(log, row[j], hyd[j], j, d, ChildOf(j))
                              /\ RootOf(j) = d
          /\ r[2] = "child" => ChildFits(log, row[j].rev.url, hyd[j], j, d)
      <3>1. exec[e].ph \notin {"idle", "record"}
        BY <1>1
      <3> QED BY <3>1, AtWork
    <2>2. /\ r[2] = "root" /\ RootFits(log, row[j], hyd[j], j, d, ChildOf(j))
          /\ RootOf(j) = d
      BY <1>1, <2>1 DEF ChildFits, ChildSteps, Roles
    <2>3. run[c].d = ChildOf(j) /\ ChildOf(j) # None /\ ChildOf(j).st = "completed"
      BY <1>3 DEF Ended, Exists, ChildOf
    <2>4. /\ y \in Durable /\ y.pc = "merged" /\ y.st = "live" /\ y.res = ChildOf(j).res
      <3>1. ChildOf(j).res \in Commits \cup {None} /\ "merged" \in Steps /\ 0 \in Nat
        BY <2>1, <2>3, LaneRows DEF Durable, Steps
      <3> QED BY <2>1, <2>3, <3>1 DEF Durable
    <2>5. Returns(e, y)
      BY <1>3
    <2> HIDE DEF y
    <2>6. row[j].status # "completed"
      BY <1>1, <2>2 DEF RootFits, RowFits, Recorded
    <2>7. RootFits(log, row[j], hyd[j], j, y, ChildOf(j))
      BY <2>3, <2>4, <2>6 DEF RootFits, RowFits, Waiting, Unprepared
    <2>8. JobFits(log, row[j], hyd[j], j, d, ChildOf(j)) /\ y # None
      BY <2>1, <2>2, <2>4, NoneAssumption DEF LaneInv, JobOK
    <2>9. JobWith(r, y)
      BY <2>1, <2>2, <2>3, <2>7, <2>8 DEF JobWith, JobFits
    <2>10. UNCHANGED <<log, row, run, hyd>> /\ exec[e].ph \notin {"idle", "record"}
      BY <1>1
    <2> QED BY <2>5, <2>9, <2>10, ReturnLane
  <1> QED BY <1>1, <1>2, <1>3

\* The result of the child is the result of the job.
LEMMA MergedLane ==
  ASSUME Inv, LaneInv, Exclusive, NEW e \in Execs, Merged(e),
         NEW r, r = exec[e].on, NEW j, j = r[1], NEW d, d = exec[e].d
  PROVE  LaneInv'
  <1>1. /\ exec[e].ph = "do" /\ d.pc = "merged" /\ UNCHANGED <<log, run, hyd>>
        /\ SetResult(j, d.res) /\ Completes(e, d.res)
    BY DEF Merged, At, JobOf
  <1>2. /\ r \in Runs /\ j \in Jobs /\ r[2] \in Roles /\ r = <<j, r[2]>>
        /\ d = run[r].d /\ d # None /\ d \in Durable /\ d.st = "live" /\ row[j] \in Rows
        /\ r[2] = "root" => /\ RootFits(log, row[j], hyd[j], j, d, ChildOf(j))
                            /\ RootOf(j) = d
        /\ r[2] = "child" => ChildFits(log, row[j].rev.url, hyd[j], j, d)
    <2>1. exec[e].ph \notin {"idle", "record"}
      BY <1>1
    <2> QED BY <2>1, AtWork
  <1>3. /\ r[2] = "root" /\ r = <<j, "root">> /\ RootOf(j) = d
        /\ RootFits(log, row[j], hyd[j], j, d, ChildOf(j))
    BY <1>1, <1>2 DEF ChildFits, ChildSteps, Roles
  <1>4. /\ ChildOf(j) # None /\ ChildOf(j).st = "completed" /\ d.res = ChildOf(j).res
    BY <1>1, <1>3 DEF RootFits, Waiting
  <1>5. /\ row'[j].status = "completed" /\ row'[j].commit = d.res
        /\ row'[j].rev = row[j].rev
        /\ \A i \in Jobs : i # j => row'[i] = row[i]
    <2>1. CASE row[j].status = "completed"
      <3>1. row[j].commit = d.res
        BY <1>1, <1>3, <2>1 DEF RootFits, RowFits, Recorded
      <3> QED BY <1>1, <2>1, <3>1 DEF SetResult
    <2>2. CASE row[j].status # "completed"
      BY <1>1, <1>2, <2>2 DEF SetResult, Inv, TypeOK, Rows
    <2> QED BY <2>1, <2>2
  <1>6. PICK y \in Durable :
          Returns(e, y) /\ y.pc = "merged" /\ y.st = "completed" /\ y.res = d.res
    <2>1. d.res \in Commits \cup {None} /\ d \in Durable /\ Completes(e, d.res)
      BY <1>1, <1>2 DEF Durable
    <2> QED BY <1>1, <2>1, CompletesGives
  <1>7. log' = log /\ hyd' = hyd /\ run' = run
    BY <1>1
  <1>8. /\ RootFits(log, row'[j], hyd[j], j, d, ChildOf(j))
        /\ RootFits(log, row'[j], hyd[j], j, y, ChildOf(j))
    BY <1>1, <1>2, <1>4, <1>5, <1>6 DEF RootFits, RowFits, Recorded, Waiting, Unprepared
  <1>9. /\ JobFits(log, row'[j], hyd[j], j, d, ChildOf(j))
        /\ JobFits(log, row'[j], hyd[j], j, y, ChildOf(j))
    <2>1. JobFits(log, row[j], hyd[j], j, d, ChildOf(j)) /\ y # None
      BY <1>2, <1>3, <1>6, NoneAssumption DEF LaneInv, JobOK
    <2> QED BY <1>2, <1>4, <1>5, <1>8, <2>1 DEF JobFits
  <1>10. \A i \in Jobs : RootOf(i)' = RootOf(i) /\ ChildOf(i)' = ChildOf(i)
    BY <1>7 DEF RootOf, ChildOf
  <1>11. ASSUME NEW i \in Jobs PROVE JobOK(i)'
    <2>1. CASE i = j
      BY <1>3, <1>7, <1>9, <1>10, <2>1 DEF JobOK
    <2>2. CASE i # j
      BY <1>5, <1>7, <1>10, <2>2 DEF LaneInv, JobOK
    <2> QED BY <2>1, <2>2
  <1>12. /\ exec'[e].on = r /\ exec'[e].ph = "record" /\ exec'[e].d = y
         /\ \A f \in Execs : f # e => exec'[f] = exec[f]
    <2>1. exec[e] \in ExecRecs
      BY <1>1, LaneExec
    <2> QED BY <1>6, <2>1 DEF Returns, Inv, TypeOK, ExecRecs
  <1>13. Alone(e)'
    <2>1. Alone(e)
      BY DEF LaneInv
    <2>2. JobWith(r, y)'
      BY <1>3, <1>7, <1>9, <1>10, <1>2 DEF JobWith
    <2> QED BY <1>1, <1>7, <1>12, <2>1, <2>2 DEF Alone
  <1>14. ASSUME NEW f \in Execs, f # e PROVE Alone(f)'
    <2>1. ASSUME exec[f].ph # "idle" PROVE exec[f].on[1] # j
      <3> DEFINE s == exec[f].on
      <3>1. /\ s \in Runs /\ s[2] \in Roles /\ s = <<s[1], s[2]>> /\ s # r
            /\ run[s].d.st = "live" /\ (s[2] = "child" => run[s].d = ChildOf(s[1]))
        BY <1>1, <1>14, <2>1, LaneExec DEF Exclusive, LaneInv, Alone
      <3> QED BY <1>3, <1>4, <3>1 DEF Roles
    <2> QED BY <1>5, <1>7, <1>12, <1>14, <2>1, AwayLane
  <1> QED BY <1>11, <1>13, <1>14 DEF LaneInv

LEMMA StepErrorLane ==
  ASSUME Inv, LaneInv, Exclusive, NEW e \in Execs, StepError(e)
  PROVE  LaneInv'
  <1>1. /\ exec[e].ph \notin {"idle", "record"} /\ Throws(e)
        /\ UNCHANGED <<log, row, run, hyd>>
    BY DEF StepError
  <1> QED BY <1>1, ThrowLane

LEMMA BodyLane ==
  ASSUME Inv, LaneInv, Exclusive, NEW e \in Execs, Body(e)
  PROVE  LaneInv'
  BY EnterLane, ClaimCommandLane, AcquireLane, PauseLane, PlanLane, ConfirmLane,
     NoopHydrateLane, NoopLane, CommitLane, PushCheckLane, PushRecheckLane,
     PushDeniedLane, PushSendLane, CaptureLane, SpawnLane, AwaitChildLane, MergedLane,
     DiscardLane, RefreshLane, PublishLane, HydrateLane, CompleteLane DEF Body

LEMMA InitialLane == Init => LaneInv
  <1> SUFFICES ASSUME Init PROVE LaneInv
    OBVIOUS
  <1>1. ASSUME NEW j \in Jobs PROVE JobOK(j)
    <2>1. /\ RootOf(j) = None /\ ChildOf(j) = None
      BY DEF Init, RootOf, ChildOf, Runs, Roles
    <2>2. row[j].status # "completed" /\ row[j].commit = None /\ hyd[j] = 0
      BY DEF Init, NoRow
    <2>3. ASSUME NEW u \in Urls, NEW p \in DOMAIN log[u] PROVE log[u][p].commit = None
      BY <2>3 DEF Init
    <2>4. Unpublished(log, j)
      BY <2>3 DEF Unpublished, OfJob
    <2> QED BY <2>1, <2>2, <2>4 DEF JobOK, JobFits
  <1>2. \A e \in Execs : Alone(e)
    BY DEF Init, Idle, Alone
  <1> QED BY <1>1, <1>2 DEF LaneInv

LEMMA LanePreserved == Inv /\ LaneInv /\ Exclusive /\ Exclusive' /\ [Next]_vars => LaneInv'
  <1> SUFFICES ASSUME Inv, LaneInv, Exclusive, Exclusive', [Next]_vars
               PROVE  LaneInv'
    OBVIOUS
  <1>1. CASE UNCHANGED vars
    BY <1>1, NoAppend, OutsideLane DEF vars, Alike
  <1>2. ASSUME NEW a \in Admitters, Admit(a) \/ AdmitError(a) \/ AdmitStop(a)
        PROVE  LaneInv'
    BY <1>2, AdmitLane
  <1>3. ASSUME NEW old \in SUBSET Jobs, TipCheck(old) PROVE LaneInv'
    BY <1>3, TipCheckLane
  <1>4. ASSUME NEW j \in Jobs, Poll(j) PROVE LaneInv'
    BY <1>4, PollLane
  <1>5. CASE HumanCommit \/ SetAccess \/ Relink \/ CaptureTip
    BY <1>5, PeopleLane
  <1>6. ASSUME NEW e \in Execs, NEW r \in Runs, Claim(e, r) PROVE LaneInv'
    BY <1>6, ClaimLane
  <1>7. ASSUME NEW e \in Execs, Record(e) \/ Body(e) \/ Crash(e) \/ StepError(e)
        PROVE  LaneInv'
    BY <1>7, RecordLane, BodyLane, CrashLane, StepErrorLane
  <1> QED BY <1>1, <1>2, <1>3, <1>4, <1>5, <1>6, <1>7 DEF Next, Work, Disturbance

LEMMA LaneInvariance == Spec /\ []Exclusive => []LaneInv
  <1>1. Spec => []Inv
    BY Invariance
  <1> QED BY <1>1, InitialLane, LanePreserved, PTL DEF Spec

\* What LaneInv says of a job as a whole: it is unpublished or published once.
LEMMA PublishedOnce ==
  ASSUME Inv, LaneInv, NEW j \in Jobs
  PROVE  Unpublished(log, j) \/ \E u \in Urls, c \in Commits : Once(log, j, u, c)
  <1> DEFINE u == row[j].rev.url
  <1>1. JobFits(log, row[j], hyd[j], j, RootOf(j), ChildOf(j))
    BY DEF LaneInv, JobOK
  <1>2. RootOf(j) # None => u \in Urls
    BY LaneRows
  <1>3. /\ RootOf(j) # None => /\ RootOf(j) \in Durable
                               /\ RootOf(j).pc \in Prepared => RootOf(j).cand \in Commits
        /\ ChildOf(j) # None => /\ ChildOf(j) \in Durable
                                /\ ChildOf(j).pc \in Prepared => ChildOf(j).cand \in Commits
    <2>1. RunOK(<<j, "root">>) /\ RunOK(<<j, "child">>)
      BY DEF Inv, Runs, Roles
    <2> QED BY <2>1 DEF RunOK, Sound, RootOf, ChildOf
  <1> HIDE DEF u
  <1>4. ASSUME NEW d \in Durable, d.pc \notin Waiting, Working(log, u, hyd[j], j, d)
        PROVE  Unpublished(log, j) \/ (Once(log, j, u, d.cand) /\ d.pc \in Prepared)
    BY <1>4 DEF Durable, Steps, Waiting, Working, Clean, Unchanging, Pushing, Prepared
  <1>5. CASE RootOf(j) = None
    BY <1>1, <1>5 DEF JobFits
  <1>6. CASE RootOf(j) # None /\ ChildOf(j) = None
    <2>1. RootOf(j).pc \notin Waiting /\ Working(log, u, hyd[j], j, RootOf(j))
      BY <1>1, <1>6 DEF JobFits, RootFits, u
    <2> QED BY <1>2, <1>3, <1>4, <1>6, <2>1
  <1>7. CASE RootOf(j) # None /\ ChildOf(j) # None
    <2>1. ChildOf(j).pc \notin Waiting /\ Working(log, u, hyd[j], j, ChildOf(j))
      BY <1>1, <1>7 DEF JobFits, ChildFits, ChildSteps, Waiting, u
    <2> QED BY <1>2, <1>3, <1>4, <1>7, <2>1
  <1> QED BY <1>5, <1>6, <1>7

\* And of a row that is completed: its commit, one of the job, is on the branch of
\* the job by the revision that the hydrate was queued with, or nothing was
\* published.
LEMMA CompletedFits ==
  ASSUME Inv, LaneInv, NEW j \in Jobs, row[j].status = "completed"
  PROVE  /\ row[j].commit = None => Unpublished(log, j)
         /\ row[j].commit # None =>
              /\ row[j].rev.url \in Urls /\ row[j].commit.job = j
              /\ Holds(log, row[j].rev.url, row[j].commit, hyd[j])
  <1> DEFINE u == row[j].rev.url
             d == RootOf(j)
             c == ChildOf(j)
  <1>1. /\ d # None /\ RootFits(log, row[j], hyd[j], j, d, c)
        /\ c # None => ChildFits(log, u, hyd[j], j, c)
    BY DEF LaneInv, JobOK, JobFits
  <1>2. u \in Urls
    BY <1>1, LaneRows
  <1>3. /\ d.pc \in Prepared => d.cand # None
        /\ c # None => (c.pc \in Prepared => c.cand # None)
    <2>1. RunOK(<<j, "root">>) /\ RunOK(<<j, "child">>)
      BY DEF Inv, Runs, Roles
    <2> QED BY <1>1, <2>1, NoneAssumption DEF RunOK, Sound, RootOf, ChildOf
  <1> HIDE DEF u, d, c
  <1>4. Recorded(row[j], d)
    BY <1>1 DEF RootFits, RowFits
  <1>5. CASE d.pc = "noop" /\ row[j].commit = None
    <2>1. c = None /\ Working(log, u, hyd[j], j, d)
      BY <1>1, <1>5 DEF RootFits, Waiting, u
    <2> QED BY <1>5, <2>1 DEF Working, Unchanging
  <1>6. CASE d.pc = "complete" /\ row[j].commit = d.cand
    <2>1. c = None /\ Working(log, u, hyd[j], j, d)
      BY <1>1, <1>6 DEF RootFits, Waiting, u
    <2> QED BY <1>2, <1>3, <1>6, <2>1 DEF Working, Prepared, u
  <1>7. CASE d.pc = "merged" /\ row[j].commit = d.res
    <2>1. /\ c # None /\ c.st = "completed" /\ row[j].commit = c.res
          /\ Working(log, u, hyd[j], j, c)
          /\ \/ c.pc = "noopHydrate" /\ c.res = None
             \/ c.pc = "hydrate" /\ c.res = c.cand /\ Holds(log, u, c.cand, hyd[j])
      BY <1>1, <1>7 DEF RootFits, ChildFits, Waiting
    <2>2. CASE c.pc = "noopHydrate" /\ c.res = None
      BY <2>1, <2>2 DEF Working, Unchanging
    <2>3. CASE c.pc = "hydrate" /\ c.res = c.cand /\ Holds(log, u, c.cand, hyd[j])
      <3>1. c.pc \in Prepared /\ c.cand.job = j
        BY <2>1, <2>3 DEF Working, Prepared
      <3> QED BY <1>2, <1>3, <2>1, <2>3, <3>1 DEF u
    <2> QED BY <2>1, <2>2, <2>3
  <1> QED BY <1>4, <1>5, <1>6, <1>7 DEF Recorded

\* The commits of a job, as AtMostOneCommitPerJob counts them.
LEMMA CommitsOfJob ==
  ASSUME Inv, NEW j \in Jobs, NEW z \in CommitsOf(j)
  PROVE  \E u \in Urls : \E p \in DOMAIN log[u] : z = <<u, p>> /\ OfJob(log[u][p], j)
  <1> DEFINE Of(u) == {q \in 1..Tip(u) : log[u][q].commit # None /\ log[u][q].commit.job = j}
  <1>0. PICK u \in Urls : z \in {<<u, p>> : p \in Of(u)}
    BY DEF CommitsOf
  <1>1. PICK p \in 1..Tip(u) :
          /\ z = <<u, p>> /\ log[u][p].commit # None /\ log[u][p].commit.job = j
    BY <1>0
  <1>2. p \in DOMAIN log[u]
    BY DEF Tip, Inv, TypeOK
  <1> QED BY <1>1, <1>2 DEF OfJob

\* Under exclusive leases a job publishes at most one commit on all branches,
\* through whatever crashes, retries, relinks and concurrent commits.
THEOREM JobsPublishOnce == Spec /\ []Exclusive => []AtMostOneCommitPerJob
  <1>1. ASSUME Inv, LaneInv PROVE AtMostOneCommitPerJob
    <2> SUFFICES ASSUME NEW j \in Jobs PROVE Cardinality(CommitsOf(j)) <= 1
      BY DEF AtMostOneCommitPerJob
    <2>1. PICK x : CommitsOf(j) \subseteq {x}
      <3>1. CASE Unpublished(log, j)
        BY <1>1, <3>1, CommitsOfJob DEF Unpublished
      <3>2. CASE \E u \in Urls, c \in Commits : Once(log, j, u, c)
        <4>1. PICK u \in Urls : \E p \in DOMAIN log[u] :
                \A v \in Urls : \A q \in DOMAIN log[v] :
                  OfJob(log[v][q], j) => v = u /\ q = p
          BY <3>2 DEF Once
        <4>2. PICK p \in DOMAIN log[u] :
                \A v \in Urls : \A q \in DOMAIN log[v] :
                  OfJob(log[v][q], j) => v = u /\ q = p
          BY <4>1
        <4>3. \A z \in CommitsOf(j) : z = <<u, p>>
          BY <1>1, <4>2, CommitsOfJob
        <4> QED BY <4>3
      <3> QED BY <1>1, <3>1, <3>2, PublishedOnce
    <2>2. IsFiniteSet({x}) /\ Cardinality({x}) = 1
      BY FS_Singleton
    <2>3. IsFiniteSet(CommitsOf(j)) /\ Cardinality(CommitsOf(j)) <= Cardinality({x})
      BY <2>1, <2>2, FS_Subset
    <2> QED BY <2>2, <2>3
  <1> QED BY <1>1, Invariance, LaneInvariance, PTL

\* The commit of a completed job of either kind is on the branch it was bound to.
THEOREM JobsArePublished == Spec /\ []Exclusive => []CompletedIsPublished
  <1>1. ASSUME Inv, LaneInv PROVE CompletedIsPublished
    BY <1>1, CompletedFits DEF CompletedIsPublished, Published, Holds
  <1> QED BY <1>1, Invariance, LaneInvariance, PTL

\* A job that completed without a commit published none.
THEOREM EmptyResultsAreTrue == Spec /\ []Exclusive => []NoChangesIsTrue
  <1>1. ASSUME Inv, LaneInv PROVE NoChangesIsTrue
    <2>1. ASSUME NEW j \in Jobs, Unpublished(log, j) PROVE CommitsOf(j) = {}
      BY <1>1, <2>1, CommitsOfJob DEF Unpublished
    <2> QED BY <1>1, <2>1, CompletedFits DEF NoChangesIsTrue
  <1> QED BY <1>1, Invariance, LaneInvariance, PTL

\* The hydrate of a job that completed with a commit is of a tip that holds it.
THEOREM ResultsAreServed == Spec /\ []Exclusive => []CompletedIsServed
  <1>1. ASSUME Inv, LaneInv PROVE CompletedIsServed
    <2> SUFFICES ASSUME NEW j \in Jobs, row[j].status = "completed", row[j].commit # None
                 PROVE  \E p \in 1..hyd[j] : log[row[j].rev.url][p].commit = row[j].commit
      BY DEF CompletedIsServed
    <2>1. row[j].rev.url \in Urls /\ Holds(log, row[j].rev.url, row[j].commit, hyd[j])
      BY <1>1, CompletedFits
    <2>2. PICK p \in DOMAIN log[row[j].rev.url] :
            p <= hyd[j] /\ log[row[j].rev.url][p].commit = row[j].commit
      BY <2>1 DEF Holds
    <2>3. hyd[j] \in Nat /\ log[row[j].rev.url] \in Seq(Entries)
      BY <1>1, <2>1 DEF Inv, TypeOK
    <2>4. p \in 1..hyd[j]
      BY <2>2, <2>3
    <2> QED BY <2>2, <2>4
  <1> QED BY <1>1, Invariance, LaneInvariance, PTL

\* A run that returned its result has recorded the same on its job.
THEOREM RunsAgreeWithRows == Spec /\ []Exclusive => []RunAgreesWithRow
  <1>1. ASSUME Inv, LaneInv PROVE RunAgreesWithRow
    <2> SUFFICES ASSUME NEW j \in Jobs, RootOf(j) # None, RootOf(j).st = "completed"
                 PROVE  row[j].status = "completed" /\ row[j].commit = RootOf(j).res
      BY DEF RunAgreesWithRow, Ended, Exists, RootOf
    <2>1. RootFits(log, row[j], hyd[j], j, RootOf(j), ChildOf(j))
      BY <1>1 DEF LaneInv, JobOK, JobFits
    <2> QED BY <2>1 DEF RootFits, RowFits
  <1> QED BY <1>1, Invariance, LaneInvariance, PTL

-----------------------------------------------------------------------------
(* The ledger *)

\* What the ledger reads off the branches and the completed rows.
LedgerFacts ==
  /\ \A j \in Jobs : \A x :
       x \in Made(j) <=>
         \E u \in Urls : \E p \in DOMAIN log[u] :
           /\ OfJob(log[u][p], j)
           /\ x = [url |-> u, place |-> p, commit |-> log[u][p].commit]
  /\ \A j \in Jobs : row[j].status = "completed" =>
       /\ row[j].commit = None => Unpublished(log, j)
       /\ row[j].commit # None =>
            /\ row[j].rev.url \in Urls /\ row[j].commit.job = j
            /\ Holds(log, row[j].rev.url, row[j].commit, hyd[j])

\* A step that the ledger sees no more of than that a job fails or is taken up.
RowGoes(w, x) ==
  /\ x.status = "none" <=> w.status = "none"
  /\ x.status = "completed" <=> w.status = "completed"
  /\ w.status # "none" => x.rev = w.rev
  /\ w.status = "completed" => x.commit = w.commit

\* The job is admitted and not done yet.
Unfinished(w) == w.status \notin {"none", "completed"}

LEMMA MadeOf ==
  ASSUME Inv, NEW j \in Jobs, NEW x
  PROVE  x \in Made(j) <=>
           \E u \in Urls : \E p \in DOMAIN log[u] :
             /\ OfJob(log[u][p], j)
             /\ x = [url |-> u, place |-> p, commit |-> log[u][p].commit]
  <1>1. ASSUME x \in Made(j)
        PROVE  \E u \in Urls : \E p \in DOMAIN log[u] :
                 /\ OfJob(log[u][p], j)
                 /\ x = [url |-> u, place |-> p, commit |-> log[u][p].commit]
    <2>1. PICK z \in CommitsOf(j) :
            x = [url |-> z[1], place |-> z[2], commit |-> log[z[1]][z[2]].commit]
      BY <1>1 DEF Made
    <2>2. PICK u \in Urls : \E p \in DOMAIN log[u] : z = <<u, p>> /\ OfJob(log[u][p], j)
      BY <2>1, CommitsOfJob
    <2> QED BY <2>1, <2>2
  <1>2. ASSUME NEW u \in Urls, NEW p \in DOMAIN log[u], OfJob(log[u][p], j),
               x = [url |-> u, place |-> p, commit |-> log[u][p].commit]
        PROVE  x \in Made(j)
    <2>1. p \in 1..Tip(u)
      BY DEF Tip, Inv, TypeOK
    <2>2. p \in {q \in 1..Tip(u) : log[u][q].commit # None /\ log[u][q].commit.job = j}
      BY <1>2, <2>1 DEF OfJob
    <2>3. <<u, p>> \in CommitsOf(j)
      BY <2>2 DEF CommitsOf
    <2> QED BY <1>2, <2>3 DEF Made
  <1> QED BY <1>1, <1>2

LEMMA LedgerTruth == Inv /\ LaneInv => LedgerFacts
  BY MadeOf, CompletedFits DEF LedgerFacts

\* Commits of others change nothing of what job j made.
LEMMA MadeKept ==
  ASSUME LedgerFacts, LedgerFacts', NEW J, Appends(J), NEW j \in Jobs, j \notin J
  PROVE  Made(j)' = Made(j)
  <1>1. ASSUME NEW x \in Made(j) PROVE x \in Made(j)'
    <2>0. PICK u \in Urls : \E p \in DOMAIN log[u] :
            /\ OfJob(log[u][p], j)
            /\ x = [url |-> u, place |-> p, commit |-> log[u][p].commit]
      BY <1>1 DEF LedgerFacts
    <2>1. PICK p \in DOMAIN log[u] :
            /\ OfJob(log[u][p], j)
            /\ x = [url |-> u, place |-> p, commit |-> log[u][p].commit]
      BY <2>0
    <2>2. p \in DOMAIN log'[u] /\ log'[u][p] = log[u][p]
      BY <2>1 DEF Appends
    <2> QED BY <2>1, <2>2 DEF LedgerFacts
  <1>2. ASSUME NEW x \in Made(j)' PROVE x \in Made(j)
    <2>0. PICK u \in Urls : \E p \in DOMAIN log'[u] :
            /\ OfJob(log'[u][p], j)
            /\ x = [url |-> u, place |-> p, commit |-> log'[u][p].commit]
      BY <1>2 DEF LedgerFacts
    <2>1. PICK p \in DOMAIN log'[u] :
            /\ OfJob(log'[u][p], j)
            /\ x = [url |-> u, place |-> p, commit |-> log'[u][p].commit]
      BY <2>0
    <2>2. p \in DOMAIN log[u] /\ log'[u][p] = log[u][p]
      BY <2>1 DEF Appends
    <2> QED BY <2>1, <2>2 DEF LedgerFacts
  <1> QED BY <1>1, <1>2

\* A job that fails or is taken up, or that the ledger sees nothing of.
LEMMA TurnLedger ==
  ASSUME LedgerFacts, LedgerFacts', Appends({}), hyd' = hyd,
         \A j \in Jobs : RowGoes(row[j], row'[j])
  PROVE  Ledger!Next
  <1>1. \A j \in Jobs : Made(j)' = Made(j)
    BY MadeKept
  <1>2. \A j \in Jobs : /\ Fate(j)' # Fate(j) => {Fate(j), Fate(j)'} = {"open", "failed"}
                        /\ Fate(j)' = "none" <=> Fate(j) = "none"
                        /\ Fate(j)' = "done" <=> Fate(j) = "done"
                        /\ Fate(j) # "none" => row'[j].rev = row[j].rev
                        /\ Fate(j) = "done" => row'[j].commit = row[j].commit
    BY DEF RowGoes, Fate
  <1> DEFINE J == {j \in Jobs : Fate(j)' # Fate(j)}
  <1>3. /\ J \in SUBSET Jobs
        /\ \A j \in J : {Fate(j), Fate(j)'} = {"open", "failed"}
        /\ \A j \in Jobs \ J : Fate(j)' = Fate(j)
    BY <1>2
  <1> HIDE DEF J
  <1>4. Ledger!Turn
    BY <1>1, <1>2, <1>3 DEF Ledger!Turn
  <1> QED BY <1>4 DEF Ledger!Next

\* The one job that a step is about: the others do not move.
Others(j) == \A i \in Jobs \ {j} : row'[i] = row[i] /\ hyd'[i] = hyd[i]

LEMMA AdmitLedger ==
  ASSUME LedgerFacts, LedgerFacts', NEW j \in Jobs, Appends({}), hyd' = hyd, Others(j),
         row[j].status = "none", row'[j].status \in {"queued", "paused"}
  PROVE  Ledger!Next
  <1>1. \A i \in Jobs : Made(i)' = Made(i)
    BY MadeKept
  <1>2. /\ Fate(j) = "none" /\ Fate(j)' = "open"
        /\ \A i \in Jobs : i # j => Fate(i)' = Fate(i) /\ row'[i] = row[i]
    BY DEF Others, Fate
  <1>3. Ledger!Admit(j)
    BY <1>1, <1>2 DEF Ledger!Admit
  <1> QED BY <1>3 DEF Ledger!Next

LEMMA PublishLedger ==
  ASSUME LedgerFacts, LedgerFacts', NEW j \in Jobs, Appends({j}), UNCHANGED <<row, hyd>>,
         Unfinished(row[j]), Unpublished(log, j), hyd[j] = 0,
         NEW c, Once(log', j, row[j].rev.url, c), c # None, c.job = j, row[j].rev.url \in Urls
  PROVE  Ledger!Next
  <1>1. \A i \in Jobs : i # j => Made(i)' = Made(i)
    BY MadeKept
  <1>2. \A i \in Jobs : Fate(i)' = Fate(i)
    BY DEF Fate
  <1>3. Fate(j) \in {"open", "failed"}
    BY DEF Fate, Unfinished
  <1>4. Made(j) = {}
    BY DEF LedgerFacts, Unpublished
  <1>5. PICK x \in Made(j)' : x.url = row[j].rev.url /\ Made(j)' = {x}
    <2>1. PICK p \in DOMAIN log'[row[j].rev.url] :
            /\ log'[row[j].rev.url][p].commit = c
            /\ \A v \in Urls : \A q \in DOMAIN log'[v] :
                 OfJob(log'[v][q], j) => v = row[j].rev.url /\ q = p
      BY DEF Once
    <2> DEFINE x == [url |-> row[j].rev.url, place |-> p, commit |-> c]
    <2>2. x \in Made(j)'
      BY <2>1 DEF LedgerFacts, OfJob
    <2>3. ASSUME NEW y \in Made(j)' PROVE y = x
      BY <2>1, <2>3 DEF LedgerFacts
    <2> QED BY <2>2, <2>3
  <1>6. Ledger!Publish(j)
    BY <1>1, <1>2, <1>3, <1>4, <1>5 DEF Ledger!Publish, Ledger!Pending
  <1> QED BY <1>6 DEF Ledger!Next

LEMMA OrderLedger ==
  ASSUME LedgerFacts, LedgerFacts', NEW j \in Jobs, UNCHANGED <<row, log>>, Others(j),
         Unfinished(row[j]), hyd[j] = 0, hyd \in [Jobs -> Nat], hyd' \in [Jobs -> Nat],
         hyd'[j] > 0, \A x \in Made(j) : x.place <= hyd'[j]
  PROVE  Ledger!Next
  <1>0. Appends({})
    BY NoAppend
  <1>1. \A i \in Jobs : Made(i)' = Made(i)
    BY <1>0, MadeKept
  <1>2. \A i \in Jobs : Fate(i)' = Fate(i)
    BY DEF Fate
  <1>3. Fate(j) \in {"open", "failed"}
    BY DEF Fate, Unfinished
  <1>4. Ledger!Order(j)
    BY <1>1, <1>2, <1>3 DEF Ledger!Order, Ledger!Pending, Others
  <1> QED BY <1>4 DEF Ledger!Next

LEMMA FinishLedger ==
  ASSUME LedgerFacts, LedgerFacts', NEW j \in Jobs, UNCHANGED <<log, hyd>>, Others(j),
         Unfinished(row[j]), row[j].status # "failed",
         row'[j].status = "completed", row'[j].rev = row[j].rev
  PROVE  Ledger!Next
  <1>0. Appends({})
    BY NoAppend
  <1>1. \A i \in Jobs : Made(i)' = Made(i)
    BY <1>0, MadeKept
  <1>2. /\ Fate(j) = "open" /\ Fate(j)' = "done"
        /\ \A i \in Jobs : i # j => Fate(i)' = Fate(i) /\ row'[i] = row[i]
    BY DEF Others, Fate, Unfinished
  <1> DEFINE c == row'[j].commit
             u == row[j].rev.url
  <1>3. CASE c = None
    <2>1. Made(j) = {}
      BY <1>3 DEF LedgerFacts, Unpublished
    <2> HIDE DEF c
    <2>2. Ledger!Finish(j)
      BY <1>1, <1>2, <1>3, <2>1 DEF Ledger!Finish, c
    <2> QED BY <2>2 DEF Ledger!Next
  <1>4. CASE c # None
    <2>1. PICK x \in Made(j) : x.commit = c /\ x.place <= hyd[j]
      <3>1. u \in Urls /\ c.job = j /\ Holds(log, u, c, hyd[j])
        BY <1>4 DEF LedgerFacts
      <3>2. PICK p \in DOMAIN log[u] : p <= hyd[j] /\ log[u][p].commit = c
        BY <3>1 DEF Holds
      <3> DEFINE x == [url |-> u, place |-> p, commit |-> log[u][p].commit]
      <3>3. x \in Made(j)
        BY <1>4, <3>1, <3>2 DEF LedgerFacts, OfJob
      <3> QED BY <3>2, <3>3
    <2>2. Ledger!Finish(j)
      BY <1>1, <1>2, <1>4, <2>1 DEF Ledger!Finish
    <2> QED BY <2>2 DEF Ledger!Next
  <1> QED BY <1>3, <1>4

-----------------------------------------------------------------------------
(* Failed rows *)

\* A root run that has not claimed its row, or is over with an error.
Stale(d) == d.st = "failed" \/ d.pc = "claim"

\* A failed row is not worked on by a run of its own: only a new claim takes it
\* up again, so that no result is recorded on it before.
FailedOK ==
  \A j \in Jobs : row[j].status = "failed" =>
    /\ RootOf(j) # None => Stale(RootOf(j))
    /\ \A e \in Execs :
         exec[e].ph = "record" /\ exec[e].on = <<j, "root">> => Stale(exec[e].d)

\* A row that fails had no run, or a run that failed.
Moves(j, w, x) ==
  /\ RowGoes(w, x)
  /\ x.status = "failed" =>
       w.status = "failed" \/ RootOf(j) = None \/ RootOf(j).st = "failed"

LEMMA MovesTrans ==
  ASSUME NEW j, NEW w, NEW x, NEW y, Moves(j, w, x), Moves(j, x, y)
  PROVE  Moves(j, w, y)
  BY DEF Moves, RowGoes

LEMMA FailEndedMoves ==
  ASSUME NEW j \in Jobs, NEW w \in Rows, NEW S, "none" \notin S, "completed" \notin S
  PROVE  Moves(j, w, FailEnded(j, w, S)) /\ FailEnded(j, w, S) \in Rows
  <1>1. CASE FailEnded(j, w, S) = w
    BY <1>1 DEF Moves, RowGoes
  <1>2. CASE FailEnded(j, w, S) # w
    <2>1. /\ w.status \in S /\ RootOf(j) # None /\ RootOf(j).st = "failed"
          /\ FailEnded(j, w, S) = [w EXCEPT !.status = "failed", !.owner = TRUE]
      BY <1>2 DEF FailEnded, Ended, Exists, RootOf
    <2> QED BY <2>1 DEF Moves, RowGoes, Rows, Statuses
  <1> QED BY <1>1, <1>2

LEMMA StatusMoves ==
  ASSUME NEW j \in Jobs, NEW w \in Rows, w.status \notin {"none", "completed"},
         NEW st \in {"queued", "paused", "running", "failed"},
         st = "failed" => RootOf(j) = None
  PROVE  Moves(j, w, [w EXCEPT !.status = st]) /\ [w EXCEPT !.status = st] \in Rows
  BY DEF Moves, RowGoes, Rows, Statuses

\* Outside the bodies no run returns anything, and new runs start at the claim.
LEMMA FailedOutside ==
  ASSUME Inv, LaneInv, FailedOK,
         \A e \in Execs : exec'[e] = exec[e] \/ exec'[e].ph # "record",
         \A j \in Jobs : RootOf(j)' = RootOf(j) \/ RootOf(j)'.pc = "claim",
         \A j \in Jobs : row'[j].status = "failed" =>
           row[j].status = "failed" \/ RootOf(j) = None \/ RootOf(j).st = "failed"
  PROVE  FailedOK'
  <1> SUFFICES ASSUME NEW j \in Jobs, row'[j].status = "failed"
               PROVE  /\ RootOf(j)' # None => Stale(RootOf(j))'
                      /\ \A e \in Execs : exec'[e].ph = "record" /\ exec'[e].on = <<j, "root">>
                           => Stale(exec'[e].d)
    BY DEF FailedOK, Stale
  <1>1. RootOf(j) # None => Stale(RootOf(j))
    BY DEF FailedOK, Stale
  <1>2. RootOf(j)' # None => Stale(RootOf(j))'
    BY <1>1 DEF Stale
  <1>3. ASSUME NEW e \in Execs, exec'[e].ph = "record", exec'[e].on = <<j, "root">>
        PROVE  Stale(exec'[e].d)
    <2>1. exec'[e] = exec[e]
      BY <1>3
    <2>2. RootOf(j) # None /\ RootOf(j).st = "live"
      <3>1. run[exec[e].on].d # None
        BY <1>3, <2>1, LaneExec
      <3>2. run[exec[e].on].d.st = "live"
        BY <1>3, <2>1 DEF LaneInv, Alone
      <3> QED BY <1>3, <2>1, <3>1, <3>2 DEF RootOf
    <2> QED BY <1>3, <2>1, <2>2 DEF FailedOK
  <1> QED BY <1>2, <1>3

\* The ledger and the failed rows after a step outside the bodies.
LEMMA MovesLedger ==
  ASSUME Inv, LaneInv, FailedOK, LedgerFacts, LedgerFacts', Appends({}), hyd' = hyd,
         \A e \in Execs : exec'[e] = exec[e] \/ exec'[e].ph # "record",
         \A j \in Jobs : RootOf(j)' = RootOf(j) \/ RootOf(j)'.pc = "claim",
         \A j \in Jobs : Moves(j, row[j], row'[j])
  PROVE  Ledger!Next /\ FailedOK'
  <1>1. Ledger!Next
    BY TurnLedger DEF Moves
  <1>2. FailedOK'
    BY FailedOutside DEF Moves
  <1> QED BY <1>1, <1>2

LEMMA StayMoves == ASSUME NEW j, NEW w, NEW x, x = w PROVE Moves(j, w, x)
  BY DEF Moves, RowGoes

\* A step that touches neither runs nor executors.
LEMMA RowsMoveLedger ==
  ASSUME Inv, LaneInv, FailedOK, LedgerFacts, LedgerFacts',
         UNCHANGED <<log, run, exec, hyd>>, \A j \in Jobs : Moves(j, row[j], row'[j])
  PROVE  Ledger!Next /\ FailedOK'
  BY NoAppend, MovesLedger DEF RootOf

LEMMA PeopleLedger ==
  ASSUME Inv, LaneInv, FailedOK, LedgerFacts, LedgerFacts',
         HumanCommit \/ SetAccess \/ Relink \/ CaptureTip
  PROVE  Ledger!Next /\ FailedOK'
  <1>1. UNCHANGED <<row, run, exec, hyd>>
    BY DEF HumanCommit, SetAccess, Relink, CaptureTip
  <1> QED BY <1>1, PeopleAppends, StayMoves, MovesLedger DEF RootOf

LEMMA PollLedger ==
  ASSUME Inv, LaneInv, FailedOK, LedgerFacts, LedgerFacts', NEW j \in Jobs, Poll(j)
  PROVE  Ledger!Next /\ FailedOK'
  <1> DEFINE w == FailEnded(j, row[j], {"queued", "running", "paused"})
  <1>1. row' = [row EXCEPT ![j] = w] /\ UNCHANGED <<log, run, exec, hyd>>
    BY DEF Poll
  <1>2. Moves(j, row[j], w)
    BY FailEndedMoves DEF Inv, TypeOK
  <1> HIDE DEF w
  <1>3. \A i \in Jobs : row'[i] = IF i = j THEN w ELSE row[i]
    BY <1>1 DEF Inv, TypeOK
  <1>4. \A i \in Jobs : Moves(i, row[i], row'[i])
    BY <1>2, <1>3, StayMoves
  <1> QED BY <1>1, <1>4, RowsMoveLedger

LEMMA TipCheckLedger ==
  ASSUME Inv, LaneInv, FailedOK, LedgerFacts, LedgerFacts', NEW old \in SUBSET Jobs,
         TipCheck(old)
  PROVE  Ledger!Next /\ FailedOK'
  <1> DEFINE stale == [j \in Jobs |->
               IF j \in old THEN FailEnded(j, row[j], {"queued", "running"})
                            ELSE row[j]]
             lost == [j \in Jobs |->
               IF j \in old /\ stale[j].status = "queued" /\ Orphan(j)
                 THEN [stale[j] EXCEPT !.status =
                         IF SameBinding(stale[j].rev) THEN "paused" ELSE "failed"]
                 ELSE stale[j]]
             claimed == {j \in Jobs : /\ lost[j].status = "paused"
                                      /\ ~lost[j].owner
                                      /\ SameBinding(lost[j].rev)}
             next == [j \in Jobs |->
               IF j \in claimed THEN [lost[j] EXCEPT !.status = "queued"] ELSE lost[j]]
  <1>1. /\ UNCHANGED <<log, run, exec, hyd>>
        /\ UNCHANGED row \/ row' = next
    BY DEF TipCheck
  <1>2. ASSUME NEW j \in Jobs PROVE Moves(j, row[j], next[j])
    <2>1. row[j] \in Rows
      BY DEF Inv, TypeOK
    <2>2. Moves(j, row[j], stale[j]) /\ stale[j] \in Rows
      BY <2>1, FailEndedMoves, StayMoves
    <2> HIDE DEF stale
    <2>3. Moves(j, stale[j], lost[j]) /\ lost[j] \in Rows
      <3>1. CASE lost[j] = stale[j]
        BY <2>2, <3>1, StayMoves
      <3>2. CASE lost[j] # stale[j]
        <4>1. PICK st \in {"paused", "failed"} :
                /\ lost[j] = [stale[j] EXCEPT !.status = st]
                /\ stale[j].status = "queued" /\ Orphan(j)
          BY <3>2
        <4>2. RootOf(j) = None
          BY <4>1 DEF Orphan, Exists, RootOf
        <4> QED BY <2>2, <4>1, <4>2, StatusMoves
      <3> QED BY <3>1, <3>2
    <2>4. \/ next[j] = lost[j]
          \/ lost[j].status = "paused" /\ next[j] = [lost[j] EXCEPT !.status = "queued"]
      OBVIOUS
    <2> HIDE DEF lost, next
    <2>5. Moves(j, lost[j], next[j])
      BY <2>3, <2>4, StatusMoves, StayMoves
    <2> QED BY <2>2, <2>3, <2>5, MovesTrans
  <1> HIDE DEF next
  <1>3. \A j \in Jobs : Moves(j, row[j], row'[j])
    BY <1>1, <1>2, StayMoves
  <1> QED BY <1>1, <1>3, RowsMoveLedger

LEMMA AdmitReconcileLedger ==
  ASSUME Inv, LaneInv, FailedOK, LedgerFacts, LedgerFacts', NEW a \in Admitters,
         AdmitReconcile(a)
  PROVE  Ledger!Next /\ FailedOK'
  <1>1. PICK j \in Jobs : j = adm[a].job
    BY DEF AdmitReconcile, Inv, AdmOK
  <1>2. row[j] \in Rows
    BY DEF Inv, TypeOK
  <1>3. /\ UNCHANGED <<log, run, exec, hyd>>
        /\ \/ row' = [row EXCEPT ![j] = [row[j] EXCEPT !.owner = TRUE]]
           \/ /\ row[j].status \in {"queued", "paused"} /\ RootOf(j) = None
              /\ row' = [row EXCEPT ![j] = [row[j] EXCEPT !.status = "failed"]]
           \/ row' = row
    BY <1>1 DEF AdmitReconcile, Inv, TypeOK, Exists, RootOf
  <1>4. /\ Moves(j, row[j], [row[j] EXCEPT !.owner = TRUE])
        /\ row[j].status \in {"queued", "paused"} /\ RootOf(j) = None =>
             Moves(j, row[j], [row[j] EXCEPT !.status = "failed"])
    BY <1>2, StatusMoves DEF Moves, RowGoes, Rows
  <1>5. \A i \in Jobs : Moves(i, row[i], row'[i])
    <2>1. CASE row' = row
      BY <2>1, StayMoves
    <2>2. CASE row' # row
      <3>1. PICK w : row' = [row EXCEPT ![j] = w] /\ Moves(j, row[j], w)
        BY <1>3, <1>4, <2>2
      <3>2. \A i \in Jobs : row'[i] = IF i = j THEN w ELSE row[i]
        BY <3>1 DEF Inv, TypeOK
      <3> QED BY <3>1, <3>2, StayMoves
    <2> QED BY <2>1, <2>2
  <1> QED BY <1>3, <1>5, RowsMoveLedger

LEMMA AdmitBindLedger ==
  ASSUME Inv, LaneInv, FailedOK, LedgerFacts, LedgerFacts', NEW a \in Admitters,
         NEW j \in Jobs, NEW kind \in Kinds, AdmitBind(a, j, kind)
  PROVE  Ledger!Next /\ FailedOK'
  <1> DEFINE old == FailEnded(j, row[j], {"queued", "running", "paused"})
  <1> DEFINE want == IF allowed THEN "queued" ELSE "paused"
             rev == [gen |-> ws.gen, url |-> ws.url,
                     sha |-> IF ws.desired = 0 THEN Tip(ws.url) ELSE ws.desired]
             new == IF old.status = "none"
                      THEN [NoRow EXCEPT !.status = want, !.kind = kind, !.rev = rev]
                      ELSE IF /\ SameBinding(old.rev)
                              /\ ~old.owner
                              /\ old.status \in {"failed", "paused"}
                        THEN [old EXCEPT !.status = want]
                        ELSE old
  <1>1. UNCHANGED <<log, run, exec, hyd>> /\ row' = [row EXCEPT ![j] = new]
    BY DEF AdmitBind
  <1>2. Moves(j, row[j], old) /\ old \in Rows
    BY FailEndedMoves DEF Inv, TypeOK
  <1> HIDE DEF old, rev
  <1>3. want \in {"queued", "paused"}
    OBVIOUS
  <1> HIDE DEF want
  <1>4. CASE old.status = "none"
    <2>1. new.status = want /\ row[j].status = "none"
      BY <1>2, <1>4 DEF NoRow, Moves, RowGoes
    <2> HIDE DEF new
    <2>2. \A i \in Jobs : row'[i] = IF i = j THEN new ELSE row[i]
      BY <1>1 DEF Inv, TypeOK
    <2>3. Others(j) /\ row'[j].status \in {"queued", "paused"}
      BY <1>1, <1>3, <2>1, <2>2 DEF Others
    <2>4. Ledger!Next
      BY <1>1, <2>1, <2>3, NoAppend, AdmitLedger
    <2>5. FailedOK'
      BY <1>1, <2>3, FailedOutside DEF RootOf, Others
    <2> QED BY <2>4, <2>5
  <1>5. CASE old.status # "none"
    <2>1. Moves(j, old, new)
      <3>1. CASE new = old
        BY <3>1, StayMoves
      <3>2. CASE new = [old EXCEPT !.status = want] /\ old.status \in {"failed", "paused"}
        BY <1>2, <1>3, <3>2, StatusMoves
      <3> QED BY <1>5, <3>1, <3>2
    <2> HIDE DEF new
    <2>2. \A i \in Jobs : row'[i] = IF i = j THEN new ELSE row[i]
      BY <1>1 DEF Inv, TypeOK
    <2>3. \A i \in Jobs : Moves(i, row[i], row'[i])
      BY <1>2, <2>1, <2>2, StayMoves, MovesTrans
    <2> QED BY <1>1, <2>3, RowsMoveLedger
  <1> QED BY <1>4, <1>5

LEMMA AdmitLedgers ==
  ASSUME Inv, LaneInv, FailedOK, LedgerFacts, LedgerFacts', NEW a \in Admitters,
         Admit(a) \/ AdmitError(a) \/ AdmitStop(a)
  PROVE  Ledger!Next /\ FailedOK'
  <1>1. CASE AdmitStart(a) \/ AdmitError(a)
    <2>1. UNCHANGED <<log, row, exec, hyd>> /\ (QueueRoot(adm[a].job) \/ UNCHANGED run)
      BY <1>1 DEF AdmitStart, AdmitError
    <2>2. \A j \in Jobs : RootOf(j)' = RootOf(j) \/ RootOf(j)'.pc = "claim"
      <3>1. CASE UNCHANGED run
        BY <3>1 DEF RootOf
      <3>2. CASE run' # run
        <4> DEFINE r == <<adm[a].job, "root">>
                   d == Fresh("claim", row[adm[a].job].rev, None)
        <4>1. run' = [run EXCEPT ![r].d = d]
          BY <2>1, <3>2 DEF QueueRoot
        <4>2. d.pc = "claim"
          BY DEF Fresh
        <4> HIDE DEF r, d
        <4>3. \A j \in Jobs : /\ <<j, "root">> \in Runs
                              /\ run[<<j, "root">>] \in RunRecs
          BY DEF Inv, TypeOK, Runs, Roles
        <4>4. \A j \in Jobs : run'[<<j, "root">>].d \in {run[<<j, "root">>].d, d}
          BY <4>1, <4>3 DEF Inv, TypeOK, RunRecs
        <4> QED BY <4>2, <4>4 DEF RootOf
      <3> QED BY <3>1, <3>2
    <2>3. \A j \in Jobs : Moves(j, row[j], row'[j])
      BY <2>1, StayMoves
    <2> QED BY <2>1, <2>2, <2>3, NoAppend, MovesLedger
  <1>2. CASE AdmitStop(a)
    BY <1>2, StayMoves, RowsMoveLedger DEF AdmitStop
  <1> QED BY <1>1, <1>2, AdmitBindLedger, AdmitReconcileLedger DEF Admit

\* Executors come and go, and what they return becomes durable.
LEMMA ClaimLedger ==
  ASSUME Inv, LaneInv, FailedOK, LedgerFacts, LedgerFacts', NEW e \in Execs,
         (\E r \in Runs : Claim(e, r)) \/ Crash(e)
  PROVE  Ledger!Next /\ FailedOK'
  <1>1. UNCHANGED <<log, row, hyd>>
    BY DEF Claim, Crash
  <1>2. \A f \in Execs : exec'[f] = exec[f] \/ exec'[f].ph # "record"
    <2>1. PICK x : exec' = [exec EXCEPT ![e] = x] /\ x.ph # "record"
      <3>1. CASE Crash(e)
        <4>1. exec' = [exec EXCEPT ![e] = Idle] /\ Idle.ph # "record"
          BY <3>1 DEF Crash, Idle
        <4> QED BY <4>1
      <3>2. CASE \E r \in Runs : Claim(e, r)
        <4>1. PICK r \in Runs : Claim(e, r)
          BY <3>2
        <4> DEFINE x == [on |-> r, ph |-> "enter", d |-> run[r].d]
        <4>2. exec' = [exec EXCEPT ![e] = x] /\ x.ph # "record"
          BY <4>1 DEF Claim
        <4> HIDE DEF x
        <4> QED BY <4>2
      <3> QED BY <3>1, <3>2
    <2> QED BY <2>1 DEF Inv, TypeOK
  <1>3. \A j \in Jobs : RootOf(j)' = RootOf(j)
    <2>1. CASE Crash(e)
      BY <2>1 DEF Crash, RootOf
    <2>2. CASE \E r \in Runs : Claim(e, r)
      <3>1. PICK r \in Runs : run' = [run EXCEPT ![r].lease = e]
        BY <2>2 DEF Claim
      <3>2. \A s \in Runs : run'[s].d = run[s].d
        BY <3>1 DEF Inv, TypeOK, RunRecs
      <3> QED BY <3>2 DEF RootOf, Runs, Roles
    <2> QED BY <2>1, <2>2
  <1> QED BY <1>1, <1>2, <1>3, StayMoves, NoAppend, MovesLedger

LEMMA RecordLedger ==
  ASSUME Inv, LaneInv, FailedOK, LedgerFacts, LedgerFacts', NEW e \in Execs, Record(e)
  PROVE  Ledger!Next /\ FailedOK'
  <1> DEFINE r == exec[e].on
             d == exec[e].d
  <1>1. exec[e].ph = "record" /\ UNCHANGED <<log, row, hyd>>
    BY DEF Record
  <1>2. r \in Runs /\ exec[e] \in ExecRecs
    BY <1>1, LaneExec
  <1>3. /\ \A f \in Execs : exec'[f] = exec[f] \/ exec'[f].ph # "record"
        /\ \/ run' = run
           \/ \E l : run' = [run EXCEPT ![r] = [d |-> d, lease |-> l]]
    <2>1. \/ exec' = [exec EXCEPT ![e] = Idle]
          \/ exec' = [exec EXCEPT ![e] = [exec[e] EXCEPT !.ph = "do"]]
      BY DEF Record, Inv, TypeOK
    <2>2. \A f \in Execs : exec'[f] = exec[f] \/ exec'[f].ph # "record"
      BY <1>2, <2>1 DEF Inv, TypeOK, Idle, ExecRecs
    <2> QED BY <2>2 DEF Record
  <1>4. \A s \in Runs : run'[s].d = run[s].d \/ (s = r /\ run'[s].d = d)
    <2> HIDE DEF r, d
    <2>1. CASE run' = run
      BY <2>1
    <2>2. CASE run' # run
      <3>1. PICK l : run' = [run EXCEPT ![r] = [d |-> d, lease |-> l]]
        BY <1>3, <2>2
      <3>2. [d |-> d, lease |-> l].d = d
        OBVIOUS
      <3> QED BY <1>2, <3>1, <3>2 DEF Inv, TypeOK
    <2> QED BY <2>1, <2>2
  <1>5. Ledger!Next
    BY <1>1, StayMoves, NoAppend, TurnLedger DEF Moves
  <1>6. FailedOK'
    <2> SUFFICES ASSUME NEW j \in Jobs, row'[j].status = "failed"
                 PROVE  /\ RootOf(j)' # None => Stale(RootOf(j))'
                        /\ \A f \in Execs : exec'[f].ph = "record" /\ exec'[f].on = <<j, "root">>
                             => Stale(exec'[f].d)
      BY DEF FailedOK, Stale
    <2>1. /\ RootOf(j) # None => Stale(RootOf(j))
          /\ \A f \in Execs : exec[f].ph = "record" /\ exec[f].on = <<j, "root">>
                             => Stale(exec[f].d)
      BY <1>1 DEF FailedOK
    <2>2. \A f \in Execs : exec'[f].ph = "record" /\ exec'[f].on = <<j, "root">>
                             => Stale(exec'[f].d)
      BY <1>3, <2>1
    <2>3. <<j, "root">> \in Runs
      BY DEF Runs, Roles
    <2>4. RootOf(j)' = RootOf(j) \/ (<<j, "root">> = r /\ RootOf(j)' = d)
      BY <1>4, <2>3 DEF RootOf
    <2>5. RootOf(j)' # None => Stale(RootOf(j))'
      BY <1>1, <2>1, <2>4 DEF Stale
    <2> QED BY <2>2, <2>5
  <1> QED BY <1>5, <1>6

-----------------------------------------------------------------------------
(* The bodies and the ledger *)

\* A step of a body moves its executor on; the history of its run moves when the
\* result is recorded.
LEMMA BodyShape ==
  ASSUME Inv, NEW e \in Execs, Body(e) \/ StepError(e)
  PROVE  /\ exec[e].ph \notin {"idle", "record"}
         /\ \A f \in Execs : f # e => exec'[f] = exec[f]
         /\ exec'[e].on = exec[e].on
         /\ \A j \in Jobs : RootOf(j)' = RootOf(j)
  <1>1. exec[e].ph \in {"enter", "do", "recheck", "send"}
    BY DEF Body, StepError, Enter, ClaimCommand, Acquire, Pause, Resume, Plan, Confirm,
           NoopHydrate, Noop, Commit, PushCheck, PushRecheck, PushDenied, PushSend,
           Capture, Spawn, AwaitChild, Merged, Discard, Refresh, Publish, Hydrate,
           Complete, At
  <1>2. exec[e] \in ExecRecs
    BY <1>1, LaneExec
  <1> DEFINE Goes == /\ exec'[e].on = exec[e].on
                     /\ \A f \in Execs : f # e => exec'[f] = exec[f]
  <1>3. ASSUME NEW ph, exec' = [exec EXCEPT ![e].ph = ph] PROVE Goes
    BY <1>2, <1>3 DEF Inv, TypeOK, ExecRecs
  <1>4. ASSUME NEW y, Returns(e, y) PROVE Goes
    <2> DEFINE x == [exec[e] EXCEPT !.ph = "record", !.d = y]
    <2>1. x.on = exec[e].on /\ exec' = [exec EXCEPT ![e] = x]
      BY <1>2, <1>4 DEF ExecRecs, Inv, TypeOK, Returns
    <2> HIDE DEF x
    <2> QED BY <2>1 DEF Inv, TypeOK
  <1> HIDE DEF Goes
  <1>5. /\ \A pc : Goto(e, pc) => Goes
        /\ \A c : Completes(e, c) => Goes
        /\ Fails(e) => Goes
    BY <1>4 DEF Goto, Completes, Fails
  <1>6. /\ Throws(e) => Goes
        /\ NextRound(e) => Goes
        /\ TipAdvanced(e) => Goes
    BY <1>4, <1>5 DEF Throws, NextRound, TipAdvanced
  <1>7. Goes
    <2>1. CASE Enter(e) \/ ClaimCommand(e) \/ Acquire(e) \/ Pause(e) \/ Resume(e)
               \/ Plan(e) \/ NoopHydrate(e) \/ Noop(e) \/ Spawn(e) \/ Merged(e)
               \/ Discard(e) \/ Hydrate(e) \/ Complete(e)
      BY <1>3, <1>5, <1>6, <2>1
      DEF Enter, ClaimCommand, Acquire, Pause, Resume, Plan, NoopHydrate, Noop, Spawn,
          Merged, Discard, Hydrate, Complete
    <2>2. CASE Confirm(e) \/ Refresh(e) \/ PushCheck(e) \/ PushRecheck(e)
               \/ PushDenied(e) \/ PushSend(e) \/ StepError(e)
      BY <1>3, <1>5, <1>6, <2>2
      DEF Confirm, Refresh, PushCheck, PushRecheck, PushDenied, PushSend, StepError
    <2>3. CASE Commit(e) \/ Capture(e) \/ AwaitChild(e) \/ Publish(e)
      BY <1>4, <1>5, <1>6, <2>3 DEF Commit, Capture, AwaitChild, Publish
    <2> QED BY <2>1, <2>2, <2>3 DEF Body
  <1>8. \A j \in Jobs : RootOf(j)' = RootOf(j)
    <2>1. CASE Spawn(e)
      <3> DEFINE c == <<JobOf(e), "child">>
                 d == Fresh("acquire", exec[e].d.handoff.rev, exec[e].d.handoff)
      <3>1. run' = run \/ run' = [run EXCEPT ![c].d = d]
        BY <2>1 DEF Spawn
      <3>2. \A j \in Jobs : <<j, "root">> \in Runs /\ <<j, "root">> # c
        BY DEF Runs, Roles
      <3> HIDE DEF c, d
      <3> QED BY <3>1, <3>2 DEF RootOf, Inv, TypeOK
    <2>2. CASE ~Spawn(e)
      <3>1. run' = run
        BY <2>2 DEF Body, StepError, Enter, ClaimCommand, Acquire, Pause, Resume, Plan,
               Confirm, NoopHydrate, Noop, Commit, PushCheck, PushRecheck, PushDenied,
               PushSend, Capture, AwaitChild, Merged, Discard, Refresh, Publish,
               Hydrate, Complete
      <3> QED BY <3>1 DEF RootOf
    <2> QED BY <2>1, <2>2
  <1> QED BY <1>1, <1>7, <1>8 DEF Goes

\* A body that leaves a row failed found it failed, and goes no further than the
\* claim of it.
LEMMA BodyFailed ==
  ASSUME Inv, LaneInv, FailedOK, NEW e \in Execs, Body(e) \/ StepError(e),
         \A j \in Jobs : row'[j].status = "failed" => row[j].status = "failed"
  PROVE  FailedOK'
  <1> SUFFICES ASSUME NEW j \in Jobs, row'[j].status = "failed"
               PROVE  /\ RootOf(j)' # None => Stale(RootOf(j))'
                      /\ \A f \in Execs : exec'[f].ph = "record" /\ exec'[f].on = <<j, "root">>
                           => Stale(exec'[f].d)
    BY DEF FailedOK, Stale
  <1>1. /\ exec[e].ph \notin {"idle", "record"}
        /\ \A f \in Execs : f # e => exec'[f] = exec[f]
        /\ exec'[e].on = exec[e].on
        /\ RootOf(j)' = RootOf(j)
    BY BodyShape
  <1>2. /\ row[j].status = "failed" /\ (RootOf(j) # None => Stale(RootOf(j)))
        /\ \A f \in Execs : exec[f].ph = "record" /\ exec[f].on = <<j, "root">>
                           => Stale(exec[f].d)
    BY DEF FailedOK
  <1>3. ASSUME exec'[e].ph = "record", exec[e].on = <<j, "root">>
        PROVE  Stale(exec'[e].d)
    <2>1. /\ exec[e].d = RootOf(j) /\ exec[e].d.st = "live" /\ exec[e].d \in Durable
          /\ exec[e].d # None /\ JobOf(e) = j /\ exec[e].on[2] = "root"
      BY <1>1, <1>3, AtWork
    <2>2. exec[e].d.pc = "claim"
      BY <1>2, <2>1 DEF Stale
    <2>3. Enter(e) \/ ClaimCommand(e) \/ StepError(e)
      <3>1. exec[e].ph \in {"recheck", "send"} => exec[e].d.pc = "push"
        BY DEF Inv, ExecOK
      <3> QED BY <2>2, <3>1
          DEF Body, Acquire, Pause, Resume, Plan, Confirm,
              NoopHydrate, Noop, Commit, PushCheck, PushRecheck, PushDenied, PushSend,
              Capture, Spawn, AwaitChild, Merged, Discard, Refresh, Publish, Hydrate,
              Complete, At
    <2>4. ASSUME Throws(e) PROVE Stale(exec'[e].d)
      <3>1. PICK y \in Durable : Returns(e, y) /\ y.pc = "claim"
        BY <2>1, <2>2, <2>4, ThrowsGives
      <3>2. exec'[e].d = y
        BY <1>1, <3>1, LaneExec DEF Returns, Inv, TypeOK, ExecRecs
      <3> QED BY <3>1, <3>2 DEF Stale
    <2>5. CASE Enter(e)
      <3>1. FailEnded(j, row[j], {"queued", "running", "paused"}) = row[j]
        BY <1>2 DEF FailEnded
      <3>2. exec' = [exec EXCEPT ![e].ph = "do"]
        BY <1>2, <1>3, <2>1, <2>5, <3>1 DEF Enter, Handed, JobOf
      <3> QED BY <1>1, <1>3, <3>2, LaneExec DEF Inv, TypeOK, ExecRecs
    <2>6. CASE ClaimCommand(e)
      <3>1. \/ Throws(e)
            \/ row' = [row EXCEPT ![j].status = "running", ![j].owner = TRUE,
                                  ![j].handoff = None]
        BY <2>1, <2>6 DEF ClaimCommand
      <3>2. row' # [row EXCEPT ![j].status = "running", ![j].owner = TRUE,
                               ![j].handoff = None]
        BY DEF Inv, TypeOK, Rows
      <3> QED BY <2>4, <3>1, <3>2
    <2> QED BY <2>3, <2>4, <2>5, <2>6 DEF StepError
  <1> QED BY <1>1, <1>2, <1>3 DEF Stale

\* What a body does to a row short of its end: it neither ends nor fails it.
Keeps(w, x) == RowGoes(w, x) /\ (x.status = "failed" => w.status = "failed")

LEMMA StatusKeeps ==
  ASSUME Inv, NEW j \in Jobs, NEW st \in {"paused", "running"}, SetStatus(j, st),
         row[j].status # "none"
  PROVE  \A i \in Jobs : Keeps(row[i], row'[i])
  <1>1. CASE row' = row
    BY <1>1 DEF Keeps, RowGoes
  <1>2. CASE row[j].status # "completed" /\ row' = [row EXCEPT ![j].status = st]
    <2> DEFINE x == [row[j] EXCEPT !.status = st]
    <2>1. \A i \in Jobs : row'[i] = IF i = j THEN x ELSE row[i]
      BY <1>2 DEF Inv, TypeOK
    <2>2. row[j] \in Rows
      BY DEF Inv, TypeOK
    <2>3. Keeps(row[j], x)
      BY <1>2, <2>2 DEF Keeps, RowGoes, Rows
    <2> HIDE DEF x
    <2> QED BY <2>1, <2>3 DEF Keeps, RowGoes
  <1> QED BY <1>1, <1>2 DEF SetStatus

\* Until a run records its result its row is not completed.
LEMMA Underway ==
  ASSUME Inv, LaneInv, NEW e \in Execs, exec[e].ph \notin {"idle", "record"},
         exec[e].d.pc \notin {"noop", "complete", "merged"}
  PROVE  Unfinished(row[JobOf(e)])
  <1> DEFINE r == exec[e].on
             j == r[1]
             d == exec[e].d
  <1>1. /\ r[2] \in Roles /\ JobOf(e) = j /\ row[j].status # "none"
        /\ r[2] = "root" => RootFits(log, row[j], hyd[j], j, d, ChildOf(j))
        /\ r[2] = "child" => row[j].status # "completed"
    BY AtWork, LaneExec
  <1>2. r[2] = "root" => row[j].status # "completed"
    BY <1>1 DEF RootFits, RowFits, Recorded
  <1> QED BY <1>1, <1>2 DEF Unfinished, Roles

LEMMA BodyRows ==
  ASSUME Inv, LaneInv, NEW e \in Execs, Body(e) \/ StepError(e),
         ~Noop(e), ~Merged(e), ~Complete(e)
  PROVE  \A i \in Jobs : Keeps(row[i], row'[i])
  <1> DEFINE r == exec[e].on
             j == r[1]
             d == exec[e].d
  <1>1. exec[e].ph \notin {"idle", "record"}
    BY BodyShape
  <1>2. /\ JobOf(e) = j /\ j \in Jobs /\ r[2] \in Roles /\ row[j] \in Rows
        /\ d.st = "live" /\ row[j].status # "none"
        /\ r[2] = "root" => RootOf(j) = d
    BY <1>1, AtWork, LaneExec
  <1>3. ASSUME row' = row PROVE \A i \in Jobs : Keeps(row[i], row'[i])
    BY <1>3 DEF Keeps, RowGoes
  <1>4. ASSUME NEW x, row' = [row EXCEPT ![j] = x], Keeps(row[j], x)
        PROVE  \A i \in Jobs : Keeps(row[i], row'[i])
    <2>1. \A i \in Jobs : row'[i] = IF i = j THEN x ELSE row[i]
      BY <1>2, <1>4 DEF Inv, TypeOK
    <2> QED BY <1>4, <2>1 DEF Keeps, RowGoes
  <1>5. CASE Enter(e)
    <2>1. r[2] = "root" => ~Ended(<<j, "root">>, "failed")
      BY <1>2 DEF Ended, RootOf
    <2>2. row' = [row EXCEPT ![j] = row[j]]
      BY <1>2, <1>5, <2>1 DEF Enter, FailEnded
    <2> QED BY <1>4, <2>2 DEF Keeps, RowGoes
  <1>6. CASE ClaimCommand(e)
    <2> DEFINE x == [row[j] EXCEPT !.status = "running", !.owner = TRUE,
                                   !.handoff = None]
    <2>1. row' = row \/ row' = [row EXCEPT ![j] = x]
      BY <1>2, <1>6 DEF ClaimCommand, Inv, TypeOK
    <2>2. row[j].status # "completed"
      BY <1>1, <1>2, <1>6, Underway DEF ClaimCommand, At, Unfinished
    <2>3. Keeps(row[j], x)
      BY <1>2, <2>2 DEF Keeps, RowGoes, Rows
    <2> QED BY <1>3, <1>4, <2>1, <2>3
  <1>7. CASE Pause(e) \/ Resume(e)
    BY <1>2, <1>7, StatusKeeps DEF Pause, Resume
  <1>8. CASE Commit(e)
    <2>1. row[j].status # "completed"
      BY <1>1, <1>2, <1>8, Underway DEF Commit, At, Unfinished
    <2>2. \/ row' = row
          \/ \E c : row' = [row EXCEPT ![j] = [row[j] EXCEPT !.commit = c]]
      BY <1>2, <1>8 DEF Commit, Inv, TypeOK
    <2>3. \A c : Keeps(row[j], [row[j] EXCEPT !.commit = c])
      BY <1>2, <2>1 DEF Keeps, RowGoes, Rows
    <2> QED BY <1>3, <1>4, <2>2, <2>3
  <1>9. CASE Capture(e)
    <2>1. \/ row' = row
          \/ \E h : row' = [row EXCEPT ![j] = [row[j] EXCEPT !.handoff = h]]
      BY <1>2, <1>9 DEF Capture, Inv, TypeOK
    <2>2. \A h : Keeps(row[j], [row[j] EXCEPT !.handoff = h])
      BY <1>2 DEF Keeps, RowGoes, Rows
    <2> QED BY <1>3, <1>4, <2>1, <2>2
  <1>10. CASE Discard(e)
    <2>1. row[j].status # "completed"
      BY <1>1, <1>2, <1>10, Underway DEF Discard, At, Unfinished
    <2>2. \/ row' = row
          \/ row' = [row EXCEPT ![j] = [row[j] EXCEPT !.commit = None]]
      BY <1>2, <1>10 DEF Discard, Inv, TypeOK
    <2>3. Keeps(row[j], [row[j] EXCEPT !.commit = None])
      BY <1>2, <2>1 DEF Keeps, RowGoes, Rows
    <2> QED BY <1>3, <1>4, <2>2, <2>3
  <1>11. CASE \/ Acquire(e) \/ Plan(e) \/ Confirm(e) \/ NoopHydrate(e) \/ PushCheck(e)
              \/ PushRecheck(e) \/ PushDenied(e) \/ PushSend(e) \/ Spawn(e)
              \/ AwaitChild(e) \/ Refresh(e) \/ Publish(e) \/ Hydrate(e) \/ StepError(e)
    BY <1>3, <1>11 DEF Acquire, Plan, Confirm, NoopHydrate, PushCheck, PushRecheck,
       PushDenied, PushSend, Spawn, AwaitChild, Refresh, Publish, Hydrate, StepError
  <1> QED BY <1>5, <1>6, <1>7, <1>8, <1>9, <1>10, <1>11 DEF Body

\* The end of a job: its row is completed, unless it was before.
LEMMA FinishesLedger ==
  ASSUME Inv, LaneInv, FailedOK, LedgerFacts, LedgerFacts', NEW e \in Execs,
         Noop(e) \/ Merged(e) \/ Complete(e)
  PROVE  Ledger!Next /\ FailedOK'
  <1> DEFINE r == exec[e].on
             j == r[1]
             d == exec[e].d
  <1>1. /\ exec[e].ph = "do" /\ d.pc \in {"noop", "merged", "complete"}
        /\ UNCHANGED <<log, hyd>>
        /\ SetStatus(j, "completed") \/ \E c : SetResult(j, c)
    BY DEF Noop, Merged, Complete, At, JobOf
  <1>2. /\ j \in Jobs /\ r[2] \in Roles /\ row[j] \in Rows /\ d.st = "live" /\ d # None
        /\ r[2] = "root" => RootOf(j) = d
        /\ r[2] = "child" => ChildFits(log, row[j].rev.url, hyd[j], j, d)
        /\ row[j].status # "none"
    BY <1>1, AtWork, LaneExec
  <1>3. r[2] = "root"
    BY <1>1, <1>2 DEF ChildFits, ChildSteps, Roles
  <1>4. row[j].status # "failed"
    BY <1>1, <1>2, <1>3 DEF FailedOK, Stale
  <1>5. \/ row' = row
        \/ /\ row[j].status # "completed"
           /\ \E x : /\ row' = [row EXCEPT ![j] = x]
                     /\ x.status = "completed" /\ x.rev = row[j].rev
    <2>1. CASE SetStatus(j, "completed")
      <3> DEFINE x == [row[j] EXCEPT !.status = "completed"]
      <3>1. x.status = "completed" /\ x.rev = row[j].rev
        BY <1>2 DEF Rows
      <3>2. \/ row' = row
            \/ row[j].status # "completed" /\ row' = [row EXCEPT ![j] = x]
        BY <1>2, <2>1 DEF SetStatus, Inv, TypeOK
      <3> QED BY <3>1, <3>2
    <2>2. ASSUME NEW c, SetResult(j, c)
          PROVE  \/ row' = row
                 \/ /\ row[j].status # "completed"
                    /\ \E x : /\ row' = [row EXCEPT ![j] = x]
                              /\ x.status = "completed" /\ x.rev = row[j].rev
      <3> DEFINE x == [row[j] EXCEPT !.status = "completed", !.commit = c]
      <3>1. x.status = "completed" /\ x.rev = row[j].rev
        BY <1>2 DEF Rows
      <3>2. \/ row' = row
            \/ row[j].status # "completed" /\ row' = [row EXCEPT ![j] = x]
        BY <1>2, <2>2 DEF SetResult, Inv, TypeOK
      <3> QED BY <3>1, <3>2
    <2> QED BY <1>1, <2>1, <2>2
  <1>6. CASE row' = row
    <2>1. \A i \in Jobs : RowGoes(row[i], row'[i])
      BY <1>6 DEF RowGoes
    <2>2. Ledger!Next
      BY <1>1, <2>1, NoAppend, TurnLedger
    <2>3. FailedOK'
      BY <1>6, BodyFailed DEF Body
    <2> QED BY <2>2, <2>3
  <1>7. CASE row' # row
    <2>1. PICK x : /\ row' = [row EXCEPT ![j] = x] /\ row[j].status # "completed"
                   /\ x.status = "completed" /\ x.rev = row[j].rev
      BY <1>5, <1>7
    <2>2. \A i \in Jobs : row'[i] = IF i = j THEN x ELSE row[i]
      BY <2>1 DEF Inv, TypeOK
    <2>3. Others(j) /\ row'[j].status = "completed" /\ row'[j].rev = row[j].rev
      BY <1>1, <1>2, <2>1, <2>2 DEF Others
    <2>4. Ledger!Next
      BY <1>1, <1>2, <1>4, <2>1, <2>3, FinishLedger DEF Unfinished
    <2>5. FailedOK'
      BY <2>1, <2>2, BodyFailed DEF Body
    <2> QED BY <2>4, <2>5
  <1> QED BY <1>6, <1>7

LEMMA PushSendLedger ==
  ASSUME Inv, LaneInv, FailedOK, LedgerFacts, LedgerFacts', NEW e \in Execs, PushSend(e)
  PROVE  Ledger!Next
  <1> DEFINE r == exec[e].on
             j == r[1]
             d == exec[e].d
             u == d.rev.url
             x == [commit |-> d.cand, tree |-> log[u][d.rev.sha].tree \cup {j}]
  <1>1. /\ exec[e].ph = "send" /\ d.pc = "push" /\ UNCHANGED <<row, run, hyd>>
        /\ log' = [log EXCEPT ![u] = Append(@, x)] \/ UNCHANGED log
    BY DEF PushSend, PushUrl, Inv, ExecOK, JobOf
  <1> HIDE DEF x
  <1>2. j \in Jobs /\ JobOf(e) = j /\ u = row[j].rev.url /\ u \in Urls
    <2>1. exec[e].ph \notin {"idle", "record"}
      BY <1>1
    <2> QED BY <2>1, AtWork
  <1>3. /\ Unpublished(log, j) /\ d.cand \in Commits /\ d.cand.job = j /\ hyd[j] = 0
        /\ d.cand # None
    <2>1. Unpublished(log, j)
      BY <1>1 DEF LaneInv, Alone
    <2> QED BY <1>1, <2>1, AtPush, NoneAssumption
  <1>4. Unfinished(row[j])
    BY <1>1, <1>2, Underway
  <1>5. CASE UNCHANGED log
    <2>1. \A i \in Jobs : RowGoes(row[i], row'[i])
      BY <1>1 DEF RowGoes
    <2> QED BY <1>1, <1>5, <2>1, NoAppend, TurnLedger
  <1>6. CASE log' = [log EXCEPT ![u] = Append(@, x)]
    <2>1. x.commit = d.cand
      BY DEF x
    <2> HIDE DEF u, j, d
    <2>2. Appends({j}) /\ Once(log', j, u, d.cand)
      BY <1>2, <1>3, <1>6, <2>1, FirstCommit
    <2> QED BY <1>1, <1>2, <1>3, <1>4, <2>2, PublishLedger
  <1> QED BY <1>1, <1>5, <1>6

\* A hydrate that is queued first covers what the job published.
LEMMA QueueLedger ==
  ASSUME Inv, LedgerFacts, LedgerFacts', NEW j \in Jobs, NEW n \in Nat,
         QueueHydrate(j, n), UNCHANGED <<log, row>>, Unfinished(row[j]),
         hyd[j] = 0 => \A x \in Made(j) : x.place <= n
  PROVE  Ledger!Next
  <1>1. CASE hyd' = hyd
    <2>1. \A i \in Jobs : RowGoes(row[i], row'[i])
      BY DEF RowGoes
    <2> QED BY <1>1, <2>1, NoAppend, TurnLedger
  <1>2. CASE hyd' # hyd
    <2>1. hyd[j] = 0 /\ hyd' = [hyd EXCEPT ![j] = n] /\ hyd \in [Jobs -> Nat]
      BY <1>2 DEF QueueHydrate, Inv, TypeOK
    <2>2. n # 0
      BY <1>2, <2>1
    <2>3. hyd' \in [Jobs -> Nat] /\ hyd'[j] = n /\ Others(j)
      BY <2>1 DEF Others
    <2>4. hyd'[j] > 0 /\ \A x \in Made(j) : x.place <= hyd'[j]
      BY <2>1, <2>2, <2>3
    <2> QED BY <2>1, <2>3, <2>4, OrderLedger
  <1> QED BY <1>1, <1>2

LEMMA HydrateLedger ==
  ASSUME Inv, LaneInv, LedgerFacts, LedgerFacts', NEW e \in Execs,
         NoopHydrate(e) \/ Hydrate(e)
  PROVE  Ledger!Next
  <1> DEFINE r == exec[e].on
             j == r[1]
             d == exec[e].d
             u == row[j].rev.url
  <1>1. /\ exec[e].ph = "do" /\ UNCHANGED <<log, row>>
        /\ \/ d.pc = "noopHydrate" /\ QueueHydrate(j, d.rev.sha)
           \/ d.pc = "hydrate" /\ QueueHydrate(j, d.pub)
    BY DEF NoopHydrate, Hydrate, At, JobOf
  <1>2. /\ j \in Jobs /\ JobOf(e) = j /\ d \in Durable /\ r[2] \in Roles
        /\ u \in Urls /\ OwnFits(r[2], log, row[j], hyd[j], j, d)
    BY <1>1, AtWork
  <1>3. Working(log, u, hyd[j], j, d)
    BY <1>2 DEF OwnFits, RootFits, ChildFits, Roles
  <1>4. Unfinished(row[j])
    BY <1>1, <1>2, Underway
  <1>5. d.rev.sha \in Nat /\ d.pub \in Nat
    BY <1>2 DEF Durable, Revisions
  <1> HIDE DEF u, j, d
  <1>6. CASE d.pc = "noopHydrate" /\ QueueHydrate(j, d.rev.sha)
    <2>1. Made(j) = {}
      BY <1>2, <1>3, <1>6 DEF Working, Unchanging, LedgerFacts, Unpublished
    <2> QED BY <1>1, <1>2, <1>4, <1>5, <1>6, <2>1, QueueLedger
  <1>7. CASE d.pc = "hydrate" /\ QueueHydrate(j, d.pub)
    <2>1. Once(log, j, u, d.cand) /\ Holds(log, u, d.cand, d.pub) /\ d.cand.job = j
      BY <1>3, <1>7 DEF Working, Prepared
    <2>2. d.cand # None
      <3>1. exec[e].d.pc \in Prepared
        BY <1>7 DEF d, Prepared
      <3> QED BY <1>1, <3>1, Busy, NoneAssumption DEF d, Sound
    <2>3. PICK p \in DOMAIN log[u] : p <= d.pub /\ log[u][p].commit = d.cand
      BY <2>1 DEF Holds
    <2>4. ASSUME NEW x \in Made(j) PROVE x.place <= d.pub
      <3>1. PICK v \in Urls : \E q \in DOMAIN log[v] : OfJob(log[v][q], j) /\ x.place = q
        BY <1>2, <2>4 DEF LedgerFacts
      <3>2. PICK q \in DOMAIN log[v] : OfJob(log[v][q], j) /\ x.place = q
        BY <3>1
      <3>3. v = u /\ q = p
        BY <1>2, <2>1, <2>2, <2>3, <3>2 DEF Once, OfJob
      <3> QED BY <2>3, <3>2, <3>3
    <2> QED BY <1>1, <1>2, <1>4, <1>5, <1>7, <2>4, QueueLedger
  <1> QED BY <1>1, <1>6, <1>7

LEMMA BodyLedger ==
  ASSUME Inv, LaneInv, FailedOK, LedgerFacts, LedgerFacts', NEW e \in Execs,
         Body(e) \/ StepError(e)
  PROVE  Ledger!Next /\ FailedOK'
  <1>1. CASE Noop(e) \/ Merged(e) \/ Complete(e)
    BY <1>1, FinishesLedger
  <1>2. CASE ~Noop(e) /\ ~Merged(e) /\ ~Complete(e)
    <2>1. \A i \in Jobs : Keeps(row[i], row'[i])
      BY <1>2, BodyRows
    <2>2. FailedOK'
      BY <2>1, BodyFailed DEF Keeps
    <2>3. CASE PushSend(e) \/ NoopHydrate(e) \/ Hydrate(e)
      BY <2>2, <2>3, PushSendLedger, HydrateLedger
    <2>4. CASE ~PushSend(e) /\ ~NoopHydrate(e) /\ ~Hydrate(e)
      <3>1. UNCHANGED <<log, hyd>>
        BY <1>2, <2>4
        DEF Body, StepError, Enter, ClaimCommand, Acquire, Pause, Resume, Plan, Confirm,
            Commit, PushCheck, PushRecheck, PushDenied, Capture, Spawn, AwaitChild,
            Discard, Refresh, Publish
      <3> QED BY <2>1, <2>2, <3>1, NoAppend, TurnLedger DEF Keeps
    <2> QED BY <2>2, <2>3, <2>4
  <1> QED BY <1>1, <1>2

-----------------------------------------------------------------------------
(* The lane implements the ledger *)

LEMMA InitialLedger == Init => Ledger!Init /\ FailedOK
  <1> SUFFICES ASSUME Init PROVE Ledger!Init /\ FailedOK
    OBVIOUS
  <1>1. \A j \in Jobs : row[j].status = "none" /\ hyd = [i \in Jobs |-> 0]
    BY DEF Init, NoRow
  <1>2. \A j \in Jobs : Fate(j) = "none"
    BY <1>1 DEF Fate
  <1>3. ASSUME NEW j \in Jobs PROVE Made(j) = {}
    <2>1. Inv /\ LaneInv
      BY Initially, InitialLane
    <2>2. Unpublished(log, j)
      <3>1. JobFits(log, row[j], hyd[j], j, RootOf(j), ChildOf(j)) /\ row[j].status = "none"
        BY <1>1, <2>1 DEF LaneInv, JobOK
      <3> QED BY <2>1, <3>1, LaneRows DEF JobFits
    <2> QED BY <2>1, <2>2, LedgerTruth DEF LedgerFacts, Unpublished
  <1>4. hyd = [j \in Jobs |-> 0]
    BY DEF Init
  <1>5. Ledger!Init
    BY <1>2, <1>3, <1>4 DEF Ledger!Init
  <1> QED BY <1>1, <1>5 DEF FailedOK

LEMMA LedgerStep ==
  ASSUME Inv, LaneInv, FailedOK, LedgerFacts, LedgerFacts', [Next]_vars
  PROVE  Ledger!Next /\ FailedOK'
  <1>1. CASE UNCHANGED vars
    BY <1>1, StayMoves, RowsMoveLedger DEF vars
  <1>2. ASSUME NEW a \in Admitters, Admit(a) \/ AdmitError(a) \/ AdmitStop(a)
        PROVE  Ledger!Next /\ FailedOK'
    BY <1>2, AdmitLedgers
  <1>3. ASSUME NEW old \in SUBSET Jobs, TipCheck(old) PROVE Ledger!Next /\ FailedOK'
    BY <1>3, TipCheckLedger
  <1>4. ASSUME NEW j \in Jobs, Poll(j) PROVE Ledger!Next /\ FailedOK'
    BY <1>4, PollLedger
  <1>5. CASE HumanCommit \/ SetAccess \/ Relink \/ CaptureTip
    BY <1>5, PeopleLedger
  <1>6. ASSUME NEW e \in Execs,
               (\E r \in Runs : Claim(e, r)) \/ Record(e) \/ Body(e) \/ Crash(e) \/ StepError(e)
        PROVE  Ledger!Next /\ FailedOK'
    BY <1>6, ClaimLedger, RecordLedger, BodyLedger
  <1> QED BY <1>1, <1>2, <1>3, <1>4, <1>5, <1>6 DEF Next, Work, Disturbance

\* Under exclusive leases the write lane keeps the promise of the ledger: every
\* step publishes, hydrates or ends a job as the ledger allows, or is none of
\* its business.
THEOREM LaneKeepsLedger == Spec /\ []Exclusive => KeepsLedger
  <1>1. Spec => []Inv
    BY Invariance
  <1>2. Spec /\ []Exclusive => []LaneInv
    BY LaneInvariance
  <1>3. Inv /\ LaneInv => LedgerFacts
    BY LedgerTruth
  <1>4. Init => Ledger!Init /\ FailedOK
    BY InitialLedger
  <1>5. Inv /\ LaneInv /\ FailedOK /\ LedgerFacts /\ LedgerFacts' /\ [Next]_vars
          => [Ledger!Next]_(Ledger!vars) /\ FailedOK'
    BY LedgerStep
  <1> QED BY <1>1, <1>2, <1>3, <1>4, <1>5, PTL DEF Spec, KeepsLedger, Ledger!Spec
=============================================================================
