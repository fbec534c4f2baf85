------------------------- MODULE WorkspaceProjection -------------------------
(***************************************************************************)
(* How the content of one Workspace reaches its readers: requests and the  *)
(* hourly tip check resolve the revision that is wanted, hydrate runs read *)
(* it from Git and publish it with a compare-and-set, and the derived      *)
(* stores (graph, embeddings, code index) follow with results of their own.*)
(* Every process reads the Workspace row, does something slow, and writes  *)
(* the row conditionally; relinks and commits happen in between.           *)
(*                                                                         *)
(* A sha is the position of a commit in the default branch, 0 is null. A   *)
(* URL stands for the remote and its default branch. The connection is left*)
(* out: it never changes without a new generation, so a relink to the same *)
(* URL and root folder is one that changes the connection.                 *)
(***************************************************************************)
EXTENDS Naturals, FiniteSets

CONSTANTS
  Urls,       \* remotes the Workspace can be linked to
  Roots,      \* root folders it can have
  HomeUrl, HomeRoot,   \* its first remote and root folder
  Callers,    \* who resolves revisions: "tip" the tip check, "api" requests
  Hydrates,   \* slots for hydrate runs
  Relinkers,  \* requests that may change the link, one at a time each
  Stores,     \* derived stores: "graph", "emb", "index"
  Upsets,     \* what may go wrong: "access", "error", "crash", "stop", "loss"
  None,       \* "null"
  MaxGen,     \* bound: relinks
  MaxTip      \* bound: commits of a default branch

ASSUME ProjectionAssumption ==
  /\ HomeUrl \in Urls
  /\ HomeRoot \in Roots
  /\ Callers \subseteq {"tip", "api"}
  /\ Stores \subseteq {"graph", "emb", "index"}
  /\ Upsets \subseteq {"access", "error", "crash", "stop", "loss"}
  /\ MaxGen \in Nat \ {0}
  /\ MaxTip \in Nat \ {0}

VARIABLES
  ws,        \* the row of the Workspace
  tip,       \* the head of the default branch of every remote
  caller,    \* a caller in the middle of its request
  hydrate,   \* the hydrate runs
  relink,    \* the generation a relink has read, None outside of one
  built,     \* revisions whose complete graph the graph store holds
  checkout,  \* remotes with a published checkout in codesearch
  idxq,      \* revisions of queued index runs
  idxrun     \* index runs that looked for the checkout, and what they saw

vars == <<ws, tip, caller, hydrate, relink, built, checkout, idxq, idxrun>>

-----------------------------------------------------------------------------
(* Values *)

\* WorkspaceRevision; sha 0 occurs only in what a caller read from the row.
Revisions == [gen : Nat, url : Urls, root : Roots, sha : Nat]

ASSUME NoneAssumption == None \notin Revisions /\ None \notin Nat

Kinds == {"pending", "ready", "failed"}

\* reason is the kind of hydrateError; st the result of each derived store.
Rows == [gen : Nat, url : Urls, root : Roots, sha : Nat, status : Kinds,
         reason : {"none", "access", "other"}, active : Revisions \cup {None},
         st : [Stores -> Kinds]]

\* What a caller is about: the tip check itself, the hydrate it calls for, a
\* request for a hydrate, the rebuild of a lost graph.
Uses == {"check", "due", "enqueue", "rebuild"}

\* index is the revision a check queues for the code index at its end.
CallerRecs == [pc : {"idle", "tip", "capture", "decide", "read", "queue", "rebuild"},
               use : Uses, exp : Revisions \cup {None}, tip : Nat,
               again : BOOLEAN, index : Revisions \cup {None}]

\* need is what the run does after the part it is at.
HydrateRecs == [pc : {"free", "start", "settle", "commit", "retry", "graph",
                      "emb", "index"},
                rev : Revisions \cup {None}, again : BOOLEAN,
                need : SUBSET Stores,
                done : SUBSET {"retry", "failure"}]

IdleCaller == [pc |-> "idle", use |-> "enqueue", exp |-> None, tip |-> 0,
               again |-> FALSE, index |-> None]

FreeSlot == [pc |-> "free", rev |-> None, again |-> FALSE, need |-> {},
             done |-> {}]

-----------------------------------------------------------------------------
(* Reading the row *)

\* desiredWorkspaceRevision, with sha 0 while there is none.
Desired == [gen |-> ws.gen, url |-> ws.url, root |-> ws.root, sha |-> ws.sha]

\* The condition of every conditional update of the row. It does not compare
\* the root folder: a new root folder starts a new generation.
Matches(rev) == ws.gen = rev.gen /\ ws.url = rev.url /\ ws.sha = rev.sha

\* sameWorkspaceBinding and sameWorkspaceRevision.
SameBinding(a, b) == a # None /\ a.gen = b.gen /\ a.url = b.url
SameRevision(a, b) == SameBinding(a, b) /\ a.sha = b.sha

\* captureWorkspaceRevision: the row is still the one that was read.
Capturable(exp) == Matches(exp)

\* commitHydrateProjection.
\* Mutant: the sha is not compared.
Activatable_AnySha(rev) == ws.gen = rev.gen /\ ws.url = rev.url
Activatable(rev) == Matches(rev)

\* persistHydrateFailure: not for a revision that is served.
\* Mutant: for any wanted revision.
Failable_Served(rev) == Matches(rev)
Failable(rev) == Matches(rev) /\ ws.active # rev

\* persistHydrateNoopReady.
\* Mutant: only the served revision is compared.
Settleable_Served(rev) == ws.active = rev
Settleable(rev) == ws.gen = rev.gen /\ ws.sha = rev.sha /\ ws.active = rev

Fail(reason) == [ws EXCEPT !.status = "failed", !.reason = reason]

\* A hydrate of the sha is not finished: listUnfinishedHydrateShas.
Unfinished(sha) == \E h \in Hydrates : hydrate[h].pc # "free" /\ hydrate[h].rev.sha = sha

\* servedSha: what is served for the binding of the row.
IsServed == SameRevision(ws.active, Desired)

\* The tip check wants a hydrate: another revision is served, the last one
\* failed, or a derived store is not ready (shouldEnqueueCronHydrate).
\* Mutant: the derived stores are not looked at.
NeedsHydrate_ServedOnly == ~IsServed \/ ws.status = "failed"
NeedsHydrate ==
  ~IsServed \/ ws.status = "failed" \/ \E s \in Stores : ws.st[s] # "ready"

\* The generation a relink starts.
NextGeneration(gen) == gen + 1

\* initialHydratePhases: a new projection has no derived store yet.
\* Mutant: no record of the phases at all.
InitialPhases_Unset == None
InitialPhases == [s \in Stores |-> "pending"]

-----------------------------------------------------------------------------
Init ==
  /\ ws = [gen |-> 1, url |-> HomeUrl, root |-> HomeRoot, sha |-> 0,
           status |-> "pending", reason |-> "none", active |-> None,
           st |-> [s \in Stores |-> "pending"]]
  /\ tip = [u \in Urls |-> 1]
  /\ caller = [c \in Callers |-> IdleCaller]
  /\ hydrate = [h \in Hydrates |-> FreeSlot]
  /\ relink = [r \in Relinkers |-> None]
  /\ built = {}
  /\ checkout = {}
  /\ idxq = {}
  /\ idxrun = {}

-----------------------------------------------------------------------------
(* People and the outside *)

HumanCommit ==
  \E u \in Urls :
    /\ tip[u] < MaxTip
    /\ tip' = [tip EXCEPT ![u] = @ + 1]
    /\ UNCHANGED <<ws, caller, hydrate, relink, built, checkout, idxq, idxrun>>

\* updateWorkspace reads the row, then writes the generation after the one it
\* read. A detached connection does both at once and leaves the Workspace failed.
RelinkRead(r) ==
  /\ relink[r] = None
  /\ ws.gen < MaxGen
  /\ relink' = [relink EXCEPT ![r] = ws.gen]
  /\ UNCHANGED <<ws, tip, caller, hydrate, built, checkout, idxq, idxrun>>

RelinkWrite(r) ==
  /\ relink[r] # None
  /\ \E u \in Urls, f \in Roots, st \in {"pending", "failed"} :
       ws' = [ws EXCEPT !.gen = NextGeneration(relink[r]), !.url = u, !.root = f,
                        !.sha = 0, !.status = st,
                        !.reason = IF st = "failed" THEN "other" ELSE "none"]
  /\ relink' = [relink EXCEPT ![r] = None]
  /\ UNCHANGED <<tip, caller, hydrate, built, checkout, idxq, idxrun>>

\* The graph store loses the graph of the served revision.
GraphLost ==
  /\ "loss" \in Upsets
  /\ ws.active \in built
  /\ built' = built \ {ws.active}
  /\ UNCHANGED <<ws, tip, caller, hydrate, relink, checkout, idxq, idxrun>>

\* An ingestion publishes the checkout of a repository and queues the index of
\* the wanted revision (enqueueWorkspaceIndexesAfterPublish).
Ingest(u) ==
  /\ "index" \in Stores
  /\ u \notin checkout
  /\ checkout' = checkout \cup {u}
  /\ idxq' = IF ws.url = u /\ ws.sha # 0 THEN idxq \cup {Desired} ELSE idxq
  /\ UNCHANGED <<ws, tip, caller, hydrate, relink, built, idxrun>>

-----------------------------------------------------------------------------
(* Callers: resolveWorkspaceReadRevision and what follows it *)

Set(c, r) == caller' = [caller EXCEPT ![c] = r]

\* The row as the caller reads it. The tip is asked for by a check, or when
\* the row has no sha.
Reads(c, use, again) ==
  Set(c, [pc |-> IF use = "check" \/ ws.sha = 0 THEN "tip" ELSE "capture",
          use |-> use, exp |-> Desired, tip |-> ws.sha, again |-> again,
          index |-> caller[c].index])

\* The last part of a tip check; the end of a request.
LastPart(c) == [IdleCaller EXCEPT !.pc = "rebuild", !.use = "check",
                                  !.index = caller[c].index]
Leave(c) == Set(c, IF caller[c].use = "due" THEN LastPart(c) ELSE IdleCaller)

\* enqueueWorkspaceHydrate after a new link, or a re-ingestion that projects
\* the revision again; the hourly workspace-tip-check.
Begin(c) ==
  /\ caller[c].pc = "idle"
  /\ \/ c = "tip" /\ Reads(c, "check", FALSE)
     \/ c = "api" /\ \E again \in BOOLEAN : Reads(c, "enqueue", again)
  /\ UNCHANGED <<ws, tip, hydrate, relink, built, checkout, idxq, idxrun>>

\* enqueueWorkspaceHydrate of a check or after a retry.
ReadRow(c) ==
  /\ caller[c].pc = "read"
  /\ Reads(c, caller[c].use, FALSE)
  /\ UNCHANGED <<ws, tip, hydrate, relink, built, checkout, idxq, idxrun>>

\* "Try again": persistHydrateRetry, then enqueueWorkspaceHydrate.
Retry ==
  /\ "api" \in Callers /\ caller["api"].pc = "idle"
  /\ ws.status = "failed" \/ (ws.status # "ready" /\ ws.sha = 0)
  /\ ws' = [ws EXCEPT !.status = "pending", !.reason = "none"]
  /\ Set("api", [IdleCaller EXCEPT !.pc = "read"])
  /\ UNCHANGED <<tip, hydrate, relink, built, checkout, idxq, idxrun>>

ReadTip(c) ==
  /\ caller[c].pc = "tip"
  /\ Set(c, [caller[c] EXCEPT !.pc = "capture", !.tip = tip[caller[c].exp.url]])
  /\ UNCHANGED <<ws, tip, hydrate, relink, built, checkout, idxq, idxrun>>

\* persistRevisionResolutionFailure. A check goes on with its last part when
\* the access is missing, and ends with any other error;
\* enqueueWorkspaceHydrate keeps every error to itself.
ReadTipFails(c) ==
  /\ caller[c].pc = "tip"
  /\ \E reason \in {"access", "other"} :
       /\ IF reason = "access" THEN "access" \in Upsets ELSE "error" \in Upsets
       /\ LET exp == caller[c].exp
              stored == Matches(exp) /\ (reason = "access" \/ exp.sha = 0 \/ ws.active # exp)
          IN ws' = IF stored THEN Fail(reason) ELSE ws
       /\ IF caller[c].use = "check" /\ reason = "access"
            THEN Set(c, LastPart(c)) ELSE Leave(c)
  /\ UNCHANGED <<tip, hydrate, relink, built, checkout, idxq, idxrun>>

\* captureWorkspaceRevision. A request that captured nothing ends; a check goes
\* on, and keeps the revision for the index if the tip had moved.
Capture(c) ==
  /\ caller[c].pc = "capture"
  /\ LET k == caller[c]
         stored == [Desired EXCEPT !.sha = k.tip]
         check == [IdleCaller EXCEPT !.pc = "decide", !.use = "check"]
     IN IF Capturable(k.exp)
          THEN /\ ws' = [ws EXCEPT !.sha = k.tip]
               /\ Set(c, IF k.use # "check"
                           THEN [k EXCEPT !.pc = "queue", !.exp = stored, !.tip = 0]
                         ELSE IF "index" \in Stores /\ k.tip # k.exp.sha
                           THEN [check EXCEPT !.index = stored]
                         ELSE check)
          ELSE /\ UNCHANGED ws
               /\ IF k.use = "check" THEN Set(c, check) ELSE Leave(c)
  /\ UNCHANGED <<tip, hydrate, relink, built, checkout, idxq, idxrun>>

\* The second half of the check: is a hydrate, is an index run called for?
Decide(c) ==
  /\ caller[c].pc = "decide"
  /\ LET due == ws.sha # 0 /\ ~Unfinished(ws.sha) /\ NeedsHydrate
         lags == due /\ ~IsServed /\ caller[c].index = None
     IN /\ idxq' = IF "index" \in Stores /\ lags THEN idxq \cup {Desired} ELSE idxq
        /\ Set(c, IF due THEN [caller[c] EXCEPT !.pc = "read", !.use = "due"]
                         ELSE LastPart(c))
  /\ UNCHANGED <<ws, tip, hydrate, relink, built, checkout, idxrun>>

Queue(c) ==
  /\ caller[c].pc = "queue"
  /\ \E h \in Hydrates :
       /\ hydrate[h].pc = "free"
       /\ hydrate' = [hydrate EXCEPT ![h] = [FreeSlot EXCEPT !.pc = "start",
                              !.rev = caller[c].exp, !.again = caller[c].again]]
  /\ Leave(c)
  /\ UNCHANGED <<ws, tip, relink, built, checkout, idxq, idxrun>>

\* The run cannot be queued: a failed rebuild, or persistHydrateFailure.
QueueFails(c) ==
  /\ "error" \in Upsets
  /\ caller[c].pc = "queue"
  /\ LET k == caller[c]
     IN ws' = IF k.use = "rebuild"
                THEN IF ws.active = k.exp THEN [ws EXCEPT !.st["graph"] = "failed"] ELSE ws
                ELSE IF Failable(k.exp) THEN Fail("other") ELSE ws
  /\ Leave(c)
  /\ UNCHANGED <<tip, hydrate, relink, built, checkout, idxq, idxrun>>

\* The end of a check, or a reader of the graph: the index run of a moved tip,
\* then rebuildWorkspaceGraphWhenMissing (markWorkspaceGraphLost, a hydrate).
Rebuild(c) ==
  /\ caller[c].pc = IF c = "tip" THEN "rebuild" ELSE "idle"
  /\ idxq' = idxq \cup ({caller[c].index} \ {None})
  /\ LET lost == /\ "graph" \in Stores /\ ws.active # None
                 /\ ws.st["graph"] = "ready" /\ ws.active \notin built
     IN IF lost
          THEN /\ ws' = [ws EXCEPT !.st["graph"] = "pending"]
               /\ Set(c, [IdleCaller EXCEPT !.pc = "queue", !.use = "rebuild",
                                            !.exp = ws.active])
          ELSE /\ c = "tip"
               /\ UNCHANGED ws
               /\ Set(c, IdleCaller)
  /\ UNCHANGED <<tip, hydrate, relink, built, checkout, idxrun>>

\* The process of the caller stops.
Stop(c) ==
  /\ "stop" \in Upsets
  /\ caller[c].pc # "idle"
  /\ Set(c, IdleCaller)
  /\ UNCHANGED <<ws, tip, hydrate, relink, built, checkout, idxq, idxrun>>

-----------------------------------------------------------------------------
(* workspace-hydrate *)

Restart(h) == hydrate' = [hydrate EXCEPT ![h].pc = "start", ![h].need = {}]
Ends(h) == hydrate' = [hydrate EXCEPT ![h] = FreeSlot]

\* The derived stores are brought up to date in this order.
FirstOf(need) ==
  IF "graph" \in need THEN "graph" ELSE IF "emb" \in need THEN "emb" ELSE "index"

\* On to the next part of the body; step is the step that was recorded.
Onward(h, step) ==
  LET k == hydrate[h]
      next == FirstOf(k.need)
  IN IF k.need = {} THEN Ends(h)
     ELSE hydrate' = [hydrate EXCEPT ![h] = [k EXCEPT !.pc = next,
            !.need = k.need \ {next}, !.done = k.done \cup step]]

\* resolve with the expected revision, then the snapshot that says what is
\* pending. A published revision needs only the derived stores that are not
\* ready; an index that lags alone is queued, and the run is over.
HydrateStart(h) ==
  /\ hydrate[h].pc = "start"
  /\ LET k == hydrate[h]
         active == SameRevision(ws.active, k.rev) /\ ~k.again
         pending == {s \in Stores : ws.st[s] # "ready"}
         first == FirstOf(pending)
     IN IF ~Matches(k.rev) THEN Ends(h)
        ELSE hydrate' = [hydrate EXCEPT ![h] = [k EXCEPT !.rev = Desired,
          !.pc = IF ~active THEN "commit"
                 ELSE IF pending = {} THEN "settle"
                 ELSE IF first = "graph" /\ ws.st["graph"] = "failed" THEN "retry"
                 ELSE first,
          !.need = IF active THEN pending \ {first} ELSE Stores]]
  /\ UNCHANGED <<ws, tip, caller, relink, built, checkout, idxq, idxrun>>

\* settle-noop-ready.
HydrateSettle(h) ==
  /\ hydrate[h].pc = "settle"
  /\ ws' = IF Settleable(hydrate[h].rev)
             THEN [ws EXCEPT !.status = "ready", !.reason = "none"] ELSE ws
  /\ Ends(h)
  /\ UNCHANGED <<tip, caller, relink, built, checkout, idxq, idxrun>>

\* The tree was read; commitHydrateProjection publishes it.
HydrateCommit(h) ==
  /\ hydrate[h].pc = "commit"
  /\ LET rev == hydrate[h].rev
     IN IF Activatable(rev)
          THEN /\ ws' = [ws EXCEPT !.active = rev, !.status = "ready",
                                   !.reason = "none", !.st = InitialPhases]
               /\ Onward(h, {})
          ELSE UNCHANGED ws /\ Ends(h)
  /\ UNCHANGED <<tip, caller, relink, built, checkout, idxq, idxrun>>

\* The result of a derived store counts for the served revision only.
Persist(s, rev, kind) ==
  ws' = IF ws.active = rev THEN [ws EXCEPT !.st[s] = kind] ELSE ws

\* A step of the run that is recorded: another attempt does not do it again.
Once(h, step, A) ==
  IF step \in hydrate[h].done THEN UNCHANGED ws ELSE A

\* persist-graph-retry.
HydrateRetryGraph(h) ==
  /\ hydrate[h].pc = "retry"
  /\ Once(h, "retry", Persist("graph", hydrate[h].rev, "pending"))
  /\ hydrate' = [hydrate EXCEPT ![h].pc = "graph", ![h].done = @ \cup {"retry"}]
  /\ UNCHANGED <<tip, caller, relink, built, checkout, idxq, idxrun>>

\* projectWorkspaceGraph: nothing is written for a revision that is not served.
HydrateGraph(h) ==
  /\ hydrate[h].pc = "graph"
  /\ LET rev == hydrate[h].rev
     IN IF SameRevision(ws.active, rev)
          THEN built' = built \cup {rev} /\ Persist("graph", rev, "ready")
          ELSE UNCHANGED <<ws, built>>
  /\ Onward(h, {})
  /\ UNCHANGED <<tip, caller, relink, checkout, idxq, idxrun>>

\* Half of the graph is written: persist-graph-failure, and the run goes on.
HydrateGraphFails(h) ==
  /\ "error" \in Upsets
  /\ hydrate[h].pc = "graph"
  /\ built' = built \ {hydrate[h].rev}
  /\ Once(h, "failure", Persist("graph", hydrate[h].rev, "failed"))
  /\ Onward(h, {"failure"})
  /\ UNCHANGED <<tip, caller, relink, checkout, idxq, idxrun>>

\* embedKnowledgeChunks, then markKnowledgeEmbeddingsReady.
HydrateEmbed(h) ==
  /\ hydrate[h].pc = "emb"
  /\ ws' = IF SameRevision(ws.active, hydrate[h].rev)
             THEN [ws EXCEPT !.st["emb"] = "ready"] ELSE ws
  /\ Onward(h, {})
  /\ UNCHANGED <<tip, caller, relink, built, checkout, idxq, idxrun>>

\* persistEmbeddingFailure; the run goes on.
HydrateEmbedFails(h) ==
  /\ "error" \in Upsets
  /\ hydrate[h].pc = "emb"
  /\ Persist("emb", hydrate[h].rev, "failed")
  /\ Onward(h, {})
  /\ UNCHANGED <<tip, caller, relink, built, checkout, idxq, idxrun>>

\* enqueueLaggingIndex.
HydrateIndex(h) ==
  /\ hydrate[h].pc = "index"
  /\ idxq' = idxq \cup {hydrate[h].rev}
  /\ Ends(h)
  /\ UNCHANGED <<ws, tip, caller, relink, built, checkout, idxrun>>

\* The body throws: persistHydrateFailure. The run is tried again or is over.
HydrateFails(h) ==
  /\ hydrate[h].pc # "free"
  /\ "error" \in Upsets \/ (hydrate[h].pc = "commit" /\ "access" \in Upsets)
  /\ ws' = IF Failable(hydrate[h].rev) THEN Fail("other") ELSE ws
  /\ Restart(h) \/ Ends(h)
  /\ UNCHANGED <<tip, caller, relink, built, checkout, idxq, idxrun>>

\* The worker stops; another one runs the body again from the start.
HydrateCrash(h) ==
  /\ "crash" \in Upsets
  /\ hydrate[h].pc \notin {"free", "start"}
  /\ Restart(h)
  /\ UNCHANGED <<ws, tip, caller, relink, built, checkout, idxq, idxrun>>

-----------------------------------------------------------------------------
(* workspace-index *)

IndexStart(rev) ==
  /\ rev \in idxq
  /\ idxq' = idxq \ {rev}
  /\ idxrun' = IF SameRevision(Desired, rev)
                 THEN idxrun \cup {[rev |-> rev, has |-> rev.url \in checkout]}
                 ELSE idxrun
  /\ UNCHANGED <<ws, tip, caller, hydrate, relink, built, checkout>>

IndexEnd(run) ==
  /\ run \in idxrun
  /\ idxrun' = idxrun \ {run}
  /\ Persist("index", run.rev, IF run.has THEN "ready" ELSE "failed")
  /\ UNCHANGED <<tip, caller, hydrate, relink, built, checkout, idxq>>

-----------------------------------------------------------------------------
(* The system *)

Resolve(c) ==
  \/ c = "tip" /\ Begin(c)
  \/ ReadRow(c) \/ ReadTip(c) \/ Capture(c) \/ Decide(c) \/ Queue(c) \/ Rebuild(c)

Hydrate(h) ==
  \/ HydrateStart(h) \/ HydrateSettle(h) \/ HydrateCommit(h) \/ HydrateRetryGraph(h)
  \/ HydrateGraph(h) \/ HydrateEmbed(h) \/ HydrateIndex(h)

Work ==
  \/ \E c \in Callers : Resolve(c)
  \/ \E h \in Hydrates : Hydrate(h)
  \/ \E u \in Urls : Ingest(u)
  \/ (\E rev \in idxq : IndexStart(rev)) \/ (\E r \in idxrun : IndexEnd(r))

Disturbance ==
  \/ HumanCommit \/ GraphLost \/ Retry
  \/ \E r \in Relinkers : RelinkRead(r) \/ RelinkWrite(r)
  \/ \E c \in Callers : (c = "api" /\ Begin(c)) \/ ReadTipFails(c) \/ QueueFails(c) \/ Stop(c)
  \/ \E h \in Hydrates : \/ HydrateGraphFails(h) \/ HydrateEmbedFails(h)
                         \/ HydrateFails(h) \/ HydrateCrash(h)

Next == Work \/ Disturbance

Spec == Init /\ [][Next]_vars

\* The tip check comes every hour, runs that are queued are run, and the
\* ingestion of a repository publishes its checkout at some point.
Fairness ==
  /\ \A c \in Callers : WF_vars(ReadRow(c) \/ ReadTip(c) \/ Capture(c) \/ Decide(c) \/ Queue(c))
  /\ WF_vars("tip" \in Callers /\ (Begin("tip") \/ Rebuild("tip")))
  /\ \A h \in Hydrates : WF_vars(Hydrate(h))
  /\ \A u \in Urls : WF_vars(Ingest(u))
  /\ WF_vars(\E rev \in idxq : IndexStart(rev))
  /\ WF_vars(\E r \in idxrun : IndexEnd(r))

\* From some point on people and failures leave the Workspace alone, and no
\* request projects a revision again (a new projection has no derived store).
Calm == [][Work]_vars
CalmSpec == Spec /\ Fairness /\ <>Calm

-----------------------------------------------------------------------------
(* Properties *)

TypeOK ==
  /\ ws \in Rows
  /\ tip \in [Urls -> Nat]
  /\ caller \in [Callers -> CallerRecs]
  /\ hydrate \in [Hydrates -> HydrateRecs]
  /\ relink \in [Relinkers -> Nat \cup {None}]
  /\ built \subseteq Revisions
  /\ checkout \subseteq Urls
  /\ idxq \subseteq Revisions
  /\ idxrun \subseteq [rev : Revisions, has : BOOLEAN]

\* The refinement mapping: what is wanted and what is served.
Promise == INSTANCE Serving WITH
  wanted <- [gen |-> ws.gen, sha |-> ws.sha],
  served <- IF ws.active = None THEN None
            ELSE [gen |-> ws.active.gen, sha |-> ws.active.sha]

\* The Workspace keeps the promise of Serving: the wanted revision only moves
\* forward, whatever tips were read when, and a hydrate publishes what is
\* wanted at that moment or nothing (ADR-046: "late or stale work cannot
\* publish").
KeepsPromise == Promise!Spec

\* A Workspace that is ready serves the link it has now, not an earlier one.
ReadyIsServed == ws.status = "ready" => SameBinding(ws.active, Desired)

\* A failure that is not about access is only shown while the wanted revision
\* is not served: a late or repeated run cannot fail what another published.
FailedIsUnserved ==
  ws.status = "failed" /\ ws.reason = "other" => ws.sha = 0 \/ ws.active # Desired

\* What is served for the current link was read from its root folder.
ServedFromRoot == SameBinding(ws.active, Desired) => ws.active.root = ws.root

\* The head of the branch is served, and all derived stores hold it.
UpToDate ==
  /\ ws.active = Desired
  /\ ws.sha = tip[ws.url]
  /\ \A s \in Stores : ws.st[s] = "ready"
  /\ "graph" \in Stores => ws.active \in built

\* Once people and failures leave it alone, the Workspace comes to serve the
\* head of its branch with all derived stores, and keeps doing so.
TipIsServed == <>[]UpToDate

\* And it says so: it does not stay "pending" or "failed" for ever.
BecomesReady == <>[](ws.status = "ready")
=============================================================================
