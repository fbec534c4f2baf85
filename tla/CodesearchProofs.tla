-------------------------- MODULE CodesearchProofs --------------------------
(***************************************************************************)
(* Theorems about IndexPhases, for any number of requests, repositories,   *)
(* pipelines and slots, and about ShardPins, for any number of searches,   *)
(* builds and purges.                                                      *)
(*                                                                         *)
(* The phases: the counters are numbers in the code. Each is shown to be   *)
(* the size of the set of requests that it stands for, and each queue to   *)
(* hold exactly the requests that wait in it.                              *)
(*                                                                         *)
(* The pins: the callback of an idle timer, which waits in the queue of    *)
(* its checkout while searches and refreshes run before it, unloads        *)
(* nothing but the pin that armed the timer, and what a pin serves at rest *)
(* is the newest build.                                                    *)
(***************************************************************************)
EXTENDS IndexPhases, ShardPins, FiniteSetTheorems, WellFoundedInduction, TLAPS

-----------------------------------------------------------------------------
(* Queues *)

Distinct(q) == \A i, j \in DOMAIN q : q[i] = q[j] => i = j

InLine(q, c) == \E i \in DOMAIN q : q[i] = c

LEMMA QueueAppend ==
  ASSUME NEW q \in Seq(Calls), NEW c \in Calls, Distinct(q), ~InLine(q, c)
  PROVE  /\ Append(q, c) \in Seq(Calls)
         /\ Distinct(Append(q, c))
         /\ \A d : InLine(Append(q, c), d) <=> InLine(q, d) \/ d = c
<1> DEFINE p == Append(q, c)
<1>1. /\ p \in Seq(Calls)
      /\ DOMAIN p = 1..(Len(q) + 1) /\ Len(q) \in Nat /\ DOMAIN q = 1..Len(q)
      /\ \A i \in 1..Len(q) : p[i] = q[i]
      /\ p[Len(q) + 1] = c
  OBVIOUS
<1> HIDE DEF p
<1>2. \A i \in DOMAIN p : \/ i \in DOMAIN q /\ p[i] = q[i]
                          \/ i = Len(q) + 1 /\ p[i] = c
  BY <1>1
<1>3. Distinct(p)
  BY <1>2 DEF Distinct, InLine
<1>4. \A i \in DOMAIN q : i \in DOMAIN p /\ p[i] = q[i]
  BY <1>1
<1>5. Len(q) + 1 \in DOMAIN p
  BY <1>1
<1>6. \A d : InLine(p, d) <=> InLine(q, d) \/ d = c
  BY <1>1, <1>2, <1>4, <1>5 DEF InLine
<1> QED BY <1>1, <1>3, <1>6 DEF p

\* The queue without its first m places.
LEMMA QueueDrop ==
  ASSUME NEW q \in Seq(Calls), Distinct(q), NEW m \in 0..Len(q)
  PROVE  /\ SubSeq(q, m + 1, Len(q)) \in Seq(Calls)
         /\ Distinct(SubSeq(q, m + 1, Len(q)))
         /\ \A d : InLine(SubSeq(q, m + 1, Len(q)), d)
                     <=> InLine(q, d) /\ d \notin {q[i] : i \in 1..m}
<1> DEFINE p == SubSeq(q, m + 1, Len(q))
<1>1. /\ p \in Seq(Calls)
      /\ DOMAIN p = 1..(Len(q) - m) /\ Len(q) \in Nat /\ DOMAIN q = 1..Len(q)
      /\ \A i \in 1..(Len(q) - m) : p[i] = q[m + i]
  OBVIOUS
<1> HIDE DEF p
<1>2. \A i \in DOMAIN p : m + i \in DOMAIN q /\ p[i] = q[m + i]
  BY <1>1
<1>3. Distinct(p)
  BY <1>1, <1>2 DEF Distinct
<1>4. ASSUME NEW d, InLine(p, d)
      PROVE  InLine(q, d) /\ d \notin {q[i] : i \in 1..m}
  <2>1. PICK i \in DOMAIN p : p[i] = d
    BY <1>4 DEF InLine
  <2>2. m + i \in DOMAIN q /\ q[m + i] = d /\ m + i \notin 1..m
    BY <1>1, <1>2, <2>1
  <2>3. 1..m \subseteq DOMAIN q
    BY <1>1
  <2> QED BY <2>2, <2>3 DEF InLine, Distinct
<1>5. ASSUME NEW d, InLine(q, d), d \notin {q[i] : i \in 1..m}
      PROVE  InLine(p, d)
  <2>1. PICK i \in DOMAIN q : q[i] = d
    BY <1>5 DEF InLine
  <2>2. i \notin 1..m
    BY <1>5, <2>1
  <2>3. i - m \in DOMAIN p /\ m + (i - m) = i
    BY <1>1, <2>2
  <2>4. p[i - m] = d
    BY <1>1, <2>1, <2>3
  <2> QED BY <2>3, <2>4 DEF InLine
<1> QED BY <1>1, <1>3, <1>4, <1>5 DEF p

\* The first m places of a queue hold m requests.
LEMMA QueuePrefix ==
  ASSUME NEW q \in Seq(Calls), Distinct(q), NEW m \in 0..Len(q)
  PROVE  /\ {q[i] : i \in 1..m} \in SUBSET Calls
         /\ Cardinality({q[i] : i \in 1..m}) = m
<1> DEFINE S == {q[i] : i \in 1..m}
           f == [i \in 1..m |-> q[i]]
<1>1. /\ Len(q) \in Nat /\ DOMAIN q = 1..Len(q) /\ 1..m \subseteq DOMAIN q
      /\ \A i \in DOMAIN q : q[i] \in Calls
  OBVIOUS
<1>2. S \in SUBSET Calls
  BY <1>1
<1>3. f \in Surjection(1..m, S)
  BY DEF Surjection
<1>4. f \in Injection(1..m, S)
  <2>1. f \in [1..m -> S]
    OBVIOUS
  <2>2. \A i, j \in 1..m : q[i] = q[j] => i = j
    BY <1>1 DEF Distinct
  <2>3. \A i, j \in 1..m : f[i] = f[j] => i = j
    BY <2>2
  <2> HIDE DEF f, S
  <2> QED BY <2>1, <2>3 DEF Injection, IsInjective
<1>5. ExistsBijection(1..m, S)
  BY <1>3, <1>4 DEF ExistsBijection, Bijection
<1>6. IsFiniteSet(1..m) /\ Cardinality(1..m) = m
  BY FS_Interval
<1>7. Cardinality(S) = m
  BY <1>5, <1>6, FS_Bijection
<1> QED BY <1>2, <1>7

\* The phases before the first purge are a beginning of the queue.
LEMMA FrontIsPrefix ==
  ASSUME NEW q \in Seq(Calls)
  PROVE  \E m \in 0..Len(q) : Front(q) = 1..m
<1> DEFINE T == {i \in DOMAIN q : ~IsPhase(q[i])}
<1>1. Len(q) \in Nat /\ DOMAIN q = 1..Len(q)
  OBVIOUS
<1>2. \A i \in DOMAIN q : 1..i \subseteq DOMAIN q
  BY <1>1
<1>3. CASE T = {}
  <2>1. Front(q) = DOMAIN q
    BY <1>2, <1>3 DEF Front
  <2>2. Front(q) = 1..Len(q) /\ Len(q) \in 0..Len(q)
    BY <1>1, <2>1
  <2> QED BY <2>2
<1>4. CASE T # {}
  <2> DEFINE R == StrictSubsetOrdering(DOMAIN q)
             F == FiniteSubsetsOf(DOMAIN q)
             I == {1..i : i \in T}
  <2>1. \A i \in T : i \in Nat /\ 1..i \in SUBSET (DOMAIN q)
    BY <1>1, <1>2
  <2>2. \A i \in T : IsFiniteSet(1..i)
    BY <2>1, FS_Interval
  <2>3. I \subseteq F /\ I # {}
    BY <1>4, <2>1, <2>2 DEF FiniteSubsetsOf
  <2>4. PICK x \in I : \A y \in I : ~(<<y, x>> \in R)
    BY <2>3, FS_StrictSubsetOrderingWellFounded, WFMin
  <2>5. PICK k \in T : x = 1..k
    BY <2>4
  <2>6. ASSUME NEW i \in T, i < k
        PROVE  FALSE
    <3>1. 1..i \subseteq 1..k /\ k \notin 1..i /\ k \in 1..k
      BY <2>1, <2>6, <1>1
    <3>2. <<1..i, 1..k>> \in R
      BY <2>1, <3>1 DEF StrictSubsetOrdering
    <3> QED BY <2>4, <2>5, <3>2
  <2>7. k \in 1..Len(q) /\ ~IsPhase(q[k])
    BY <1>1
  <2>8. \A i \in 1..(k - 1) : IsPhase(q[i])
    BY <1>1, <2>6, <2>7
  <2>9. \A i \in DOMAIN q : i \in 1..(k - 1) <=> i < k
    BY <1>1, <2>7
  <2>10. ASSUME NEW i \in DOMAIN q
         PROVE  (\A j \in 1..i : IsPhase(q[j])) <=> i < k
    <3>1. CASE i < k
      <4>1. 1..i \subseteq 1..(k - 1)
        BY <1>1, <2>7, <3>1
      <4> QED BY <2>8, <3>1, <4>1
    <3>2. CASE ~(i < k)
      <4>1. k \in 1..i
        BY <1>1, <2>7, <3>2
      <4> QED BY <2>7, <3>2, <4>1
    <3> QED BY <3>1, <3>2
  <2>11. Front(q) = 1..(k - 1)
    <3>1. 1..(k - 1) \subseteq DOMAIN q
      BY <1>1, <2>7
    <3> QED BY <2>9, <2>10, <3>1 DEF Front
  <2>12. k - 1 \in 0..Len(q)
    BY <1>1, <2>7
  <2> QED BY <2>11, <2>12
<1> QED BY <1>3, <1>4

-----------------------------------------------------------------------------
(* The inductive invariant *)

CallRecs == [at : Places, kind : Kinds, repo : Repos]

Ops == [active : Nat, purge : BOOLEAN, queue : Seq(Calls)]

\* The places in which a request holds the operation lock.
Inside == {"inside", "slotQueued", "indexing", "indexed"}

PhaseHolders(r) == {c \in Holders(r) : IsPhase(c)}

\* The queue of a lock holds the requests that wait for it.
QueuesHoldWaiters ==
  \A r \in Repos :
    /\ Distinct(op[r].queue)
    /\ \A c \in Calls : InLine(op[r].queue, c)
                          <=> call[c].at = "queued" /\ Repo(c) = r

\* The state of a lock counts its holders.
LocksCountHolders ==
  \A r \in Repos :
    /\ op[r].active = Cardinality(PhaseHolders(r))
    /\ op[r].purge <=> \E c \in Holders(r) : ~IsPhase(c)

RepoLockInv == QueuesHoldWaiters /\ LocksCountHolders /\ PurgeIsAlone

Typed == call \in [Calls -> CallRecs] /\ op \in [Repos -> Ops]

-----------------------------------------------------------------------------
(* The operation lock *)

LEMMA HoldersAreFinite ==
  ASSUME NEW r
  PROVE  /\ Holders(r) \in SUBSET Calls /\ PhaseHolders(r) \in SUBSET Calls
         /\ IsFiniteSet(Holders(r)) /\ IsFiniteSet(PhaseHolders(r))
<1>1. /\ Holders(r) \in SUBSET Calls /\ PhaseHolders(r) \in SUBSET Calls
  BY DEF Holders, PhaseHolders
<1> QED BY <1>1, FS_Subset, IndexPhasesAssumption

\* A lock whose purge flag is down has phases for holders, and none when it
\* counts none.
LEMMA HoldersOfFreeLock ==
  ASSUME RepoLockInv, NEW r \in Repos, ~op[r].purge
  PROVE  /\ Holders(r) = PhaseHolders(r)
         /\ op[r].active = 0 => Holders(r) = {}
<1>1. Holders(r) = PhaseHolders(r)
  BY DEF RepoLockInv, LocksCountHolders, PhaseHolders
<1>2. op[r].active = 0 => PhaseHolders(r) = {}
  BY HoldersAreFinite, FS_EmptySet DEF RepoLockInv, LocksCountHolders
<1> QED BY <1>1, <1>2

\* A step that moves nobody into a lock, out of it, or in its line.
LEMMA LockStays ==
  ASSUME Typed, RepoLockInv, op' = op,
         \A d \in Calls :
           /\ call'[d].at \in Inside <=> call[d].at \in Inside
           /\ call'[d].at = "queued" <=> call[d].at = "queued"
           /\ call[d].at \in Inside \cup {"queued"} =>
                call'[d].kind = call[d].kind /\ call'[d].repo = call[d].repo
  PROVE  RepoLockInv'
<1>1. \A r : /\ Holders(r)' = Holders(r)
             /\ PhaseHolders(r)' = PhaseHolders(r)
  BY DEF Holders, PhaseHolders, Repo, IsPhase, Inside
<1>2. \A r : \A d \in Holders(r) : IsPhase(d)' <=> IsPhase(d)
  BY DEF Holders, IsPhase, Inside
<1>3. QueuesHoldWaiters'
  BY DEF RepoLockInv, QueuesHoldWaiters, Repo
<1>4. LocksCountHolders'
  BY <1>1, <1>2 DEF RepoLockInv, LocksCountHolders
<1>5. PurgeIsAlone'
  BY <1>1, <1>2 DEF RepoLockInv, PurgeIsAlone
<1> QED BY <1>3, <1>4, <1>5 DEF RepoLockInv

\* A request gets the lock at once.
LEMMA LockTaken ==
  ASSUME Typed, RepoLockInv, NEW c \in Calls, NEW r \in Repos, NEW x \in CallRecs,
         call[c].at \in {"none", "resolving"}, x.at = "inside", x.repo = r,
         CanAcquire(r, x.kind \in Phases),
         call' = [call EXCEPT ![c] = x],
         op' = [op EXCEPT ![r] = Taken(@, x.kind \in Phases)]
  PROVE  RepoLockInv' /\ op' \in [Repos -> Ops]
<1>1. /\ call'[c] = x
      /\ \A d \in Calls \ {c} : call'[d] = call[d]
      /\ op'[r] = Taken(op[r], x.kind \in Phases)
      /\ \A q \in Repos \ {r} : op'[q] = op[q]
      /\ op[r] \in Ops
  BY DEF Typed
<1>2. /\ op'[r].queue = op[r].queue
      /\ x.kind \in Phases => /\ op'[r].active = op[r].active + 1
                              /\ op'[r].purge <=> op[r].purge
      /\ x.kind \notin Phases => /\ op'[r].active = op[r].active
                                 /\ op'[r].purge
  <2>1. CASE x.kind \in Phases
    <3>1. op'[r] = [op[r] EXCEPT !.active = @ + 1]
      BY <1>1, <2>1 DEF Taken
    <3> QED BY <1>1, <2>1, <3>1 DEF Ops
  <2>2. CASE x.kind \notin Phases
    <3>1. op'[r] = [op[r] EXCEPT !.purge = TRUE]
      BY <1>1, <2>2 DEF Taken
    <3> QED BY <1>1, <2>2, <3>1 DEF Ops
  <2> QED BY <2>1, <2>2
<1>3. op' \in [Repos -> Ops]
  <2>1. Taken(op[r], x.kind \in Phases) \in Ops
    <3>1. [op[r] EXCEPT !.active = @ + 1] \in Ops
      BY <1>1 DEF Ops
    <3>2. [op[r] EXCEPT !.purge = TRUE] \in Ops
      BY <1>1 DEF Ops
    <3> QED BY <3>1, <3>2 DEF Taken
  <2> QED BY <2>1 DEF Typed
<1>4. ~op[r].purge /\ (x.kind \notin Phases => op[r].active = 0)
  BY DEF CanAcquire
<1>5. /\ c \notin Holders(r) /\ c \notin PhaseHolders(r)
      /\ Holders(r)' = Holders(r) \cup {c}
      /\ \A q \in Repos \ {r} : /\ Holders(q)' = Holders(q)
                                /\ PhaseHolders(q)' = PhaseHolders(q)
      /\ IsPhase(c)' <=> x.kind \in Phases
      /\ \A d \in Calls \ {c} : IsPhase(d)' <=> IsPhase(d)
      /\ \A q \in Repos \ {r} : c \notin Holders(q)
  BY <1>1 DEF Holders, PhaseHolders, Repo, IsPhase
<1>6. QueuesHoldWaiters'
  BY <1>1, <1>2 DEF RepoLockInv, QueuesHoldWaiters, Repo
<1>7. ASSUME NEW q \in Repos
      PROVE  /\ op'[q].active = Cardinality(PhaseHolders(q))'
             /\ op'[q].purge <=> \E d \in Holders(q)' : ~IsPhase(d)'
             /\ \A d \in Holders(q)' : ~IsPhase(d)' => Holders(q)' = {d}
  <2>1. CASE q # r
    <3>1. /\ op'[q] = op[q] /\ Holders(q)' = Holders(q)
          /\ PhaseHolders(q)' = PhaseHolders(q)
          /\ \A d \in Holders(q) : IsPhase(d)' <=> IsPhase(d)
      BY <1>1, <1>5, <2>1, HoldersAreFinite
    <3> QED BY <3>1 DEF RepoLockInv, LocksCountHolders, PurgeIsAlone
  <2>2. CASE q = r /\ x.kind \in Phases
    <3>1. PhaseHolders(r)' = PhaseHolders(r) \cup {c}
      BY <1>5, <2>2, HoldersAreFinite DEF PhaseHolders
    <3>2. Cardinality(PhaseHolders(r) \cup {c})
            = Cardinality(PhaseHolders(r)) + 1
      BY <1>5, HoldersAreFinite, FS_AddElement
    <3>3. op'[r].active = Cardinality(PhaseHolders(r)')
      BY <1>2, <2>2, <3>1, <3>2 DEF RepoLockInv, LocksCountHolders
    <3>4. \A d \in Holders(r)' : IsPhase(d)'
      BY <1>4, <1>5, <2>2, HoldersAreFinite
         DEF RepoLockInv, LocksCountHolders
    <3>5. ~op'[r].purge
      BY <1>2, <1>4, <2>2
    <3> QED BY <2>2, <3>3, <3>4, <3>5
  <2>3. CASE q = r /\ x.kind \notin Phases
    <3>1. Holders(r)' = {c} /\ ~IsPhase(c)'
      BY <1>4, <1>5, <2>3, HoldersOfFreeLock
    <3>2. PhaseHolders(r)' = {} /\ op'[r].active = 0 /\ op'[r].purge
      BY <1>2, <1>4, <2>3, <3>1 DEF PhaseHolders
    <3> QED BY <2>3, <3>1, <3>2, FS_EmptySet
  <2> QED BY <2>1, <2>2, <2>3
<1>8. LocksCountHolders' /\ PurgeIsAlone'
  BY <1>7 DEF LocksCountHolders, PurgeIsAlone
<1> QED BY <1>3, <1>6, <1>8 DEF RepoLockInv

\* A request joins the line of the lock.
LEMMA LockAwaited ==
  ASSUME Typed, RepoLockInv, NEW c \in Calls, NEW r \in Repos, NEW x \in CallRecs,
         call[c].at \in {"none", "resolving"}, x.at = "queued", x.repo = r,
         call' = [call EXCEPT ![c] = x],
         NEW z, z = [op[r] EXCEPT !.queue = Append(op[r].queue, c)],
         op' = [op EXCEPT ![r] = z]
  PROVE  RepoLockInv' /\ op' \in [Repos -> Ops]
<1>1. /\ call'[c] = x
      /\ \A d \in Calls \ {c} : call'[d] = call[d]
      /\ \A q \in Repos \ {r} : op'[q] = op[q]
      /\ op'[r] = z /\ op[r] \in Ops
  BY DEF Typed
<1>2. Distinct(op[r].queue) /\ ~InLine(op[r].queue, c)
  BY DEF RepoLockInv, QueuesHoldWaiters
<1>3. op[r].queue \in Seq(Calls)
  BY <1>1 DEF Ops
<1>4. /\ Append(op[r].queue, c) \in Seq(Calls)
      /\ Distinct(Append(op[r].queue, c))
      /\ \A d : InLine(Append(op[r].queue, c), d)
                  <=> InLine(op[r].queue, d) \/ d = c
  BY <1>2, <1>3, QueueAppend
<1>5. /\ op'[r].queue = Append(op[r].queue, c)
      /\ op'[r].active = op[r].active /\ op'[r].purge = op[r].purge
      /\ op'[r] \in Ops
  <2>1. /\ op[r] = [active |-> op[r].active, purge |-> op[r].purge,
                   queue |-> op[r].queue]
        /\ op[r].active \in Nat /\ op[r].purge \in BOOLEAN
    BY <1>1 DEF Ops
  <2> DEFINE q == Append(op[r].queue, c)
  <2> HIDE DEF q
  <2>2. z = [op[r] EXCEPT !.queue = q]
    BY DEF q
  <2>3. /\ z.queue = q /\ z.active = op[r].active /\ z.purge = op[r].purge
        /\ z = [active |-> op[r].active, purge |-> op[r].purge, queue |-> q]
    BY <2>1, <2>2
  <2>4. z \in Ops
    BY <1>4, <2>1, <2>3 DEF Ops, q
  <2> QED BY <1>1, <2>3, <2>4 DEF q
<1>6. op' \in [Repos -> Ops]
  BY <1>5 DEF Typed
<1>7. \A q \in Repos : /\ Holders(q)' = Holders(q)
                       /\ PhaseHolders(q)' = PhaseHolders(q)
                       /\ \A d \in Holders(q) : IsPhase(d)' <=> IsPhase(d)
  BY <1>1 DEF Holders, PhaseHolders, Repo, IsPhase
<1>8. QueuesHoldWaiters'
  <2>1. ASSUME NEW q \in Repos
        PROVE  /\ Distinct(op'[q].queue)
               /\ \A d \in Calls : InLine(op'[q].queue, d)
                    <=> call'[d].at = "queued" /\ call'[d].repo = q
    <3>1. CASE q = r
      BY <1>1, <1>4, <1>5, <3>1 DEF RepoLockInv, QueuesHoldWaiters, Repo
    <3>2. CASE q # r
      BY <1>1, <3>2 DEF RepoLockInv, QueuesHoldWaiters, Repo
    <3> QED BY <3>1, <3>2
  <2> QED BY <2>1 DEF QueuesHoldWaiters, Repo
<1>9. \A q \in Repos : /\ op'[q].active = op[q].active
                       /\ op'[q].purge = op[q].purge
  BY <1>1, <1>5
<1>10. LocksCountHolders' /\ PurgeIsAlone'
  BY <1>7, <1>9 DEF RepoLockInv, LocksCountHolders, PurgeIsAlone
<1> QED BY <1>6, <1>8, <1>10 DEF RepoLockInv

\* A request asks for the lock.
LEMMA LockEntered ==
  ASSUME Typed, RepoLockInv, NEW c \in Calls, NEW r \in Repos, NEW x \in CallRecs,
         call[c].at \in {"none", "resolving"}, x.repo = r,
         Enter(c, r, x.kind \in Phases, x)
  PROVE  RepoLockInv' /\ op' \in [Repos -> Ops]
<1> DEFINE in == [x EXCEPT !.at = "inside"]
           wait == [x EXCEPT !.at = "queued"]
<1>1. /\ in \in CallRecs /\ in.at = "inside" /\ in.repo = r /\ in.kind = x.kind
      /\ wait \in CallRecs /\ wait.at = "queued" /\ wait.repo = r
  BY DEF CallRecs, Places
<1>2. CASE CanAcquire(r, x.kind \in Phases)
  <2>1. /\ call' = [call EXCEPT ![c] = in]
        /\ op' = [op EXCEPT ![r] = Taken(@, in.kind \in Phases)]
    BY <1>1, <1>2 DEF Enter, Typed
  <2> HIDE DEF in
  <2> QED BY <1>1, <1>2, <2>1, LockTaken
<1>3. CASE ~CanAcquire(r, x.kind \in Phases)
  <2> DEFINE z == [op[r] EXCEPT !.queue = Append(op[r].queue, c)]
  <2>1. /\ call' = [call EXCEPT ![c] = wait]
        /\ op' = [op EXCEPT ![r] = z]
    BY <1>3 DEF Enter, Typed
  <2> HIDE DEF wait
  <2> QED BY <1>1, <2>1, LockAwaited
<1> QED BY <1>2, <1>3

\* What a released lock hands on, and what is left of its line.
LEMMA Drain ==
  ASSUME NEW o \in Ops, Distinct(o.queue)
  PROVE  /\ Woken(o) \in SUBSET Calls /\ IsFiniteSet(Woken(o))
         /\ Drained(o) \in Ops
         /\ Distinct(Drained(o).queue)
         /\ \A d : InLine(Drained(o).queue, d)
                     <=> InLine(o.queue, d) /\ d \notin Woken(o)
         /\ \A d \in Woken(o) : InLine(o.queue, d)
         /\ \/ Woken(o) = {} /\ Drained(o) = o
            \/ /\ o.active = 0 /\ Drained(o).active = 0 /\ Drained(o).purge
               /\ \E p : Woken(o) = {p} /\ ~IsPhase(p)
            \/ /\ \A d \in Woken(o) : IsPhase(d)
               /\ Drained(o).active = o.active + Cardinality(Woken(o))
               /\ Drained(o).purge <=> o.purge
<1> DEFINE q == o.queue
<1>1. /\ q \in Seq(Calls) /\ o.active \in Nat /\ o.purge \in BOOLEAN
      /\ Len(q) \in Nat /\ DOMAIN q = 1..Len(q)
      /\ q # << >> => Head(q) = q[1] /\ 1 \in DOMAIN q /\ Head(q) \in Calls
  BY DEF Ops
<1>2. Cardinality({}) = 0 /\ IsFiniteSet({})
  BY FS_EmptySet
<1>3. CASE Woken(o) = {}
  <2>1. Drained(o) = o
    BY <1>2, <1>3 DEF Drained
  <2> QED BY <1>2, <1>3, <2>1
<1>4. CASE /\ ~o.purge /\ q # << >> /\ o.active = 0 /\ ~IsPhase(Head(q))
  <2> DEFINE rest == SubSeq(q, 1 + 1, Len(q))
  <2>1. Woken(o) = {Head(q)} /\ {q[i] : i \in 1..1} = {Head(q)}
    BY <1>1, <1>4 DEF Woken
  <2>2. Cardinality(Woken(o)) = 1 /\ IsFiniteSet(Woken(o))
    BY <2>1, FS_Singleton
  <2>3. Drained(o) = [o EXCEPT !.purge = TRUE, !.queue = rest]
    BY <1>4, <2>2 DEF Drained
  <2>4. 1 \in 0..Len(q)
    BY <1>1, <1>4
  <2>5. /\ rest \in Seq(Calls) /\ Distinct(rest)
        /\ \A d : InLine(rest, d) <=> InLine(q, d) /\ d \notin Woken(o)
    BY <1>1, <2>1, <2>4, QueueDrop
  <2> HIDE DEF rest
  <2>6. /\ Drained(o) \in Ops /\ Drained(o).queue = rest
        /\ Drained(o).active = 0 /\ Drained(o).purge
    BY <1>4, <2>3, <2>5 DEF Ops
  <2>7. InLine(q, Head(q))
    BY <1>1, <1>4 DEF InLine
  <2>8. /\ Woken(o) \in SUBSET Calls
        /\ \A d \in Woken(o) : InLine(q, d)
        /\ \E p : Woken(o) = {p} /\ ~IsPhase(p)
    BY <1>1, <1>4, <2>1, <2>7
  <2> QED BY <1>4, <2>2, <2>5, <2>6, <2>8
<1>5. CASE /\ ~o.purge /\ q # << >> /\ ~(o.active = 0 /\ ~IsPhase(Head(q)))
           /\ Woken(o) # {}
  <2>1. Woken(o) = {q[i] : i \in Front(q)}
    BY <1>5 DEF Woken
  <2>2. PICK m \in 0..Len(q) : Front(q) = 1..m
    BY <1>1, FrontIsPrefix
  <2> DEFINE rest == SubSeq(q, m + 1, Len(q))
  <2>3. Woken(o) \in SUBSET Calls /\ Cardinality(Woken(o)) = m
    BY <1>1, <2>1, <2>2, QueuePrefix
  <2>4. IsFiniteSet(Woken(o))
    BY <2>3, FS_Subset, IndexPhasesAssumption
  <2>5. m # 0
    BY <1>2, <1>5, <2>3, <2>4, FS_EmptySet
  <2>6. /\ rest \in Seq(Calls) /\ Distinct(rest)
        /\ \A d : InLine(rest, d) <=> InLine(q, d) /\ d \notin Woken(o)
    BY <1>1, <2>1, <2>2, QueueDrop
  <2>7. \A i \in Front(q) : i \in DOMAIN q /\ IsPhase(q[i])
    BY <1>1 DEF Front
  <2>8. 1 \in Front(q)
    BY <2>2, <2>5
  <2>9. Drained(o) = [o EXCEPT !.active = @ + m, !.queue = rest]
    BY <1>1, <1>5, <2>3, <2>5, <2>7, <2>8 DEF Drained
  <2> HIDE DEF rest
  <2>10. /\ Drained(o) \in Ops /\ Drained(o).queue = rest
         /\ Drained(o).active = o.active + m
         /\ Drained(o).purge <=> o.purge
    <3>1. m \in Nat /\ o.active + m \in Nat
      BY <1>1, <2>2
    <3>2. o = [active |-> o.active, purge |-> o.purge, queue |-> o.queue]
      BY DEF Ops
    <3>3. Drained(o)
            = [active |-> o.active + m, purge |-> o.purge, queue |-> rest]
      BY <2>9, <3>2
    <3> QED BY <1>1, <2>6, <3>1, <3>3 DEF Ops
  <2>11. \A d \in Woken(o) : InLine(q, d) /\ IsPhase(d)
    BY <2>1, <2>7 DEF InLine
  <2> QED BY <2>3, <2>4, <2>6, <2>10, <2>11
<1>6. o.purge \/ q = << >> => Woken(o) = {}
  BY DEF Woken
<1> QED BY <1>3, <1>4, <1>5, <1>6

LEMMA DoneIsTyped ==
  Done \in CallRecs /\ Done.at = "done" /\ Done.kind = "clone"
BY IndexPhasesAssumption
   DEF Done, Blank, Fields, CallRecs, Places, Kinds, Phases

\* A request lets the lock go, and it is handed on.
LEMMA LockLeft ==
  ASSUME Typed, RepoLockInv, NEW c \in Calls, call[c].at \in Inside,
         NEW r \in Repos, Repo(c) = r,
         op' = [op EXCEPT ![r] = Drained(Freed(c))],
         call' = [d \in Calls |->
                    IF d = c THEN Done
                    ELSE IF d \in Woken(Freed(c))
                    THEN [call[d] EXCEPT !.at = "inside"]
                    ELSE call[d]]
  PROVE  /\ RepoLockInv' /\ Typed'
         /\ \A d \in Woken(Freed(c)) :
              d \in Calls /\ call[d].at = "queued" /\ d # c
<1> DEFINE f == Freed(c)
           W == Woken(f)
           Rest == Holders(r) \ {c}
<1>1. /\ r \in Repos /\ op[r] \in Ops /\ c \in Holders(r)
      /\ Rest \in SUBSET Calls /\ IsFiniteSet(Rest)
  <2>1. r \in Repos /\ op[r] \in Ops
    BY DEF Typed, Repo, CallRecs
  <2>2. c \in Holders(r)
    BY DEF Holders, Inside
  <2>3. Rest \in SUBSET Calls /\ IsFiniteSet(Rest)
    BY HoldersAreFinite, FS_RemoveElement
  <2> QED BY <2>1, <2>2, <2>3
<1>2. /\ f \in Ops /\ ~f.purge /\ f.queue = op[r].queue
      /\ \A d \in Rest : IsPhase(d)
      /\ f.active = Cardinality(Rest)
  <2>1. CASE IsPhase(c)
    <3>1. f = [op[r] EXCEPT !.active = @ - 1]
      BY <2>1 DEF Freed
    <3>2. ~op[r].purge
      BY <1>1, <2>1 DEF RepoLockInv, LocksCountHolders, PurgeIsAlone
    <3>3. PhaseHolders(r) = Holders(r)
      BY <1>1, <3>2, HoldersOfFreeLock
    <3>4. /\ Cardinality(Rest) = Cardinality(Holders(r)) - 1
          /\ Cardinality(Rest) \in Nat /\ Cardinality(Holders(r)) \in Nat
      BY <1>1, HoldersAreFinite, FS_RemoveElement, FS_CardinalityType
    <3>5. op[r].active - 1 = Cardinality(Rest)
      BY <1>1, <3>3, <3>4 DEF RepoLockInv, LocksCountHolders
    <3>6. \A d \in Rest : IsPhase(d)
      BY <3>3 DEF PhaseHolders
    <3> HIDE DEF f, Rest
    <3>7. f \in Ops /\ f.queue = op[r].queue /\ f.active = Cardinality(Rest)
      BY <1>1, <3>1, <3>4, <3>5 DEF Ops
    <3>8. ~f.purge
      BY <1>1, <3>1, <3>2 DEF Ops
    <3> QED BY <3>6, <3>7, <3>8
  <2>2. CASE ~IsPhase(c)
    <3>1. f = [op[r] EXCEPT !.purge = FALSE]
      BY <2>2 DEF Freed
    <3>2. Holders(r) = {c}
      BY <1>1, <2>2 DEF RepoLockInv, PurgeIsAlone
    <3>3. PhaseHolders(r) = {} /\ Rest = {}
      BY <2>2, <3>2 DEF PhaseHolders
    <3>4. op[r].active = Cardinality({})
      BY <1>1, <3>3 DEF RepoLockInv, LocksCountHolders
    <3> HIDE DEF f, Rest
    <3>5. /\ f \in Ops /\ f.queue = op[r].queue /\ f.active = op[r].active
          /\ ~f.purge
      BY <1>1, <3>1 DEF Ops
    <3> QED BY <3>3, <3>4, <3>5
  <2> QED BY <2>1, <2>2
<1>3. /\ Distinct(f.queue)
      /\ \A d \in Calls : InLine(f.queue, d)
                            <=> call[d].at = "queued" /\ Repo(d) = r
  BY <1>1, <1>2 DEF RepoLockInv, QueuesHoldWaiters
<1>4. /\ W \in SUBSET Calls /\ IsFiniteSet(W)
      /\ Drained(f) \in Ops /\ Distinct(Drained(f).queue)
      /\ \A d : InLine(Drained(f).queue, d) <=> InLine(f.queue, d) /\ d \notin W
      /\ \A d \in W : InLine(f.queue, d)
      /\ \/ W = {} /\ Drained(f) = f
         \/ /\ f.active = 0 /\ Drained(f).active = 0 /\ Drained(f).purge
            /\ \E p : W = {p} /\ ~IsPhase(p)
         \/ /\ \A d \in W : IsPhase(d)
            /\ Drained(f).active = f.active + Cardinality(W)
            /\ Drained(f).purge <=> f.purge
  BY <1>2, <1>3, Drain
<1>5. \A d \in W : call[d].at = "queued" /\ Repo(d) = r /\ d # c
  BY <1>3, <1>4 DEF Inside
<1> HIDE DEF f, W
<1>6. /\ op' = [op EXCEPT ![r] = Drained(f)]
      /\ call' = [d \in Calls |-> IF d = c THEN Done
                                  ELSE IF d \in W
                                  THEN [call[d] EXCEPT !.at = "inside"]
                                  ELSE call[d]]
  BY DEF f, W
<1>7. /\ call'[c] = Done
      /\ \A d \in W : /\ call'[d].at = "inside" /\ call'[d].kind = call[d].kind
                      /\ call'[d].repo = call[d].repo
                      /\ call'[d] \in CallRecs
      /\ \A d \in Calls : d # c /\ d \notin W => call'[d] = call[d]
  BY <1>4, <1>5, <1>6 DEF Typed, CallRecs, Places
<1>8. Typed'
  <2>1. \A d \in Calls : call'[d] \in CallRecs
    BY <1>7, DoneIsTyped DEF Typed
  <2>2. call' \in [Calls -> CallRecs]
    BY <1>6, <2>1
  <2> QED BY <1>4, <1>6, <2>2 DEF Typed
<1>9. op'[r] = Drained(f) /\ \A q \in Repos \ {r} : op'[q] = op[q]
  BY <1>1, <1>6 DEF Typed
<1>10. /\ Holders(r)' = Rest \cup W
       /\ \A q \in Repos \ {r} : Holders(q)' = Holders(q)
       /\ \A d \in Calls \ {c} : IsPhase(d)' <=> IsPhase(d)
  <2>1. \A d \in Calls \ {c} : Repo(d)' = Repo(d) /\ (IsPhase(d)' <=> IsPhase(d))
    BY <1>4, <1>7 DEF Repo, IsPhase
  <2>2. /\ call'[c].at \notin Inside
        /\ \A d \in W : call'[d].at \in Inside
    BY <1>7, DoneIsTyped DEF Inside
  <2>3. \A q \in Repos : \A d \in Calls :
          d \in Holders(q)' <=>
            d # c /\ (d \in Holders(q) \/ (d \in W /\ q = r))
    <3>1. ASSUME NEW q \in Repos, NEW d \in Calls, d # c, d \notin W
          PROVE  d \in Holders(q)' <=> d \in Holders(q)
      BY <1>7, <3>1 DEF Holders, Repo
    <3>2. ASSUME NEW q \in Repos, NEW d \in W
          PROVE  d \in Calls /\ d # c /\ (d \in Holders(q)' <=> q = r)
      BY <1>4, <1>5, <1>7 DEF Holders, Repo
    <3>3. \A q \in Repos : c \notin Holders(q)'
      BY <2>2 DEF Holders, Inside
    <3>4. \A q \in Repos, d \in W : d \notin Holders(q)
      BY <1>5 DEF Holders
    <3> QED BY <3>1, <3>2, <3>3, <3>4
  <2>4. \A q : Holders(q) \subseteq Calls /\ Holders(q)' \subseteq Calls
    BY DEF Holders
  <2>5. \A q \in Repos \ {r} : c \notin Holders(q)
    BY DEF Holders
  <2>6. ASSUME NEW q \in Repos \ {r}
        PROVE  Holders(q)' = Holders(q)
    <3>1. \A d \in Calls : (d \in Holders(q)') <=> (d \in Holders(q))
      BY <2>3, <2>5, <2>6
    <3> QED BY <2>4, <3>1
  <2>7. Holders(r)' = Rest \cup W
    <3>1. \A d \in Calls : (d \in Holders(r)')
                              <=> (d # c /\ ((d \in Holders(r)) \/ (d \in W)))
      BY <1>1, <2>3
    <3>2. c \notin W /\ W \subseteq Calls
      BY <1>4, <1>5
    <3> QED BY <2>4, <3>1, <3>2
  <2> QED BY <2>1, <2>6, <2>7
<1>11. QueuesHoldWaiters'
  <2>1. ASSUME NEW q \in Repos
        PROVE  /\ Distinct(op'[q].queue)
               /\ \A d \in Calls : InLine(op'[q].queue, d)
                    <=> call'[d].at = "queued" /\ call'[d].repo = q
    <3>1. call'[c].at # "queued" /\ call[c].at # "queued"
      BY <1>7, DoneIsTyped DEF Inside
    <3>2. ASSUME NEW d \in Calls
          PROVE  call'[d].at = "queued" /\ call'[d].repo = q
                   <=> call[d].at = "queued" /\ Repo(d) = q /\ d \notin W
      <4>1. CASE d = c
        BY <3>1, <4>1
      <4>2. CASE d \in W
        BY <1>7, <4>2
      <4>3. CASE d # c /\ d \notin W
        BY <1>7, <4>3 DEF Repo
      <4> QED BY <4>1, <4>2, <4>3
    <3>3. CASE q = r
      <4>1. \A d \in Calls : InLine(Drained(f).queue, d)
              <=> call[d].at = "queued" /\ Repo(d) = r /\ d \notin W
        BY <1>3, <1>4
      <4> QED BY <1>4, <1>9, <3>2, <3>3, <4>1
    <3>4. CASE q # r
      <4>1. /\ Distinct(op[q].queue)
            /\ \A d \in Calls : InLine(op[q].queue, d)
                 <=> call[d].at = "queued" /\ Repo(d) = q
        BY DEF RepoLockInv, QueuesHoldWaiters
      <4>2. \A d \in W : Repo(d) # q
        BY <1>5, <3>4
      <4> QED BY <1>9, <3>2, <3>4, <4>1, <4>2
    <3> QED BY <3>3, <3>4
  <2> QED BY <2>1 DEF QueuesHoldWaiters, Repo
<1>12. ASSUME NEW q \in Repos \ {r}
       PROVE  /\ op'[q].active = Cardinality(PhaseHolders(q))'
              /\ op'[q].purge <=> \E d \in Holders(q)' : ~IsPhase(d)'
              /\ \A d \in Holders(q)' : ~IsPhase(d)' => Holders(q)' = {d}
  <2>1. Holders(q) \in SUBSET Calls /\ c \notin Holders(q)
    BY <1>12 DEF Holders
  <2>2. \A d \in Holders(q) : IsPhase(d)' <=> IsPhase(d)
    BY <1>10, <2>1
  <2>3. PhaseHolders(q)' = PhaseHolders(q)
    BY <1>10, <2>2 DEF PhaseHolders
  <2> QED BY <1>9, <1>10, <2>2, <2>3
          DEF RepoLockInv, LocksCountHolders, PurgeIsAlone
<1>13. /\ op'[r].active = Cardinality(PhaseHolders(r))'
       /\ op'[r].purge <=> \E d \in Holders(r)' : ~IsPhase(d)'
       /\ \A d \in Holders(r)' : ~IsPhase(d)' => Holders(r)' = {d}
  <2>1. /\ \A d \in Rest : IsPhase(d)' /\ d \in Calls \ {c}
        /\ \A d \in W : (IsPhase(d)' <=> IsPhase(d)) /\ d \in Calls \ {c}
    BY <1>1, <1>2, <1>4, <1>5, <1>10
  <2>2. PhaseHolders(r)' = {d \in Rest \cup W : IsPhase(d)'}
    BY <1>10 DEF PhaseHolders
  <2>3. CASE W = {} /\ Drained(f) = f
    <3>1. PhaseHolders(r)' = Rest /\ Holders(r)' = Rest
      BY <1>10, <2>1, <2>2, <2>3
    <3> QED BY <1>2, <1>9, <2>1, <2>3, <3>1
  <2>4. CASE /\ f.active = 0 /\ Drained(f).active = 0 /\ Drained(f).purge
             /\ \E p : W = {p} /\ ~IsPhase(p)
    <3>1. PICK p : W = {p} /\ ~IsPhase(p)
      BY <2>4
    <3>2. Rest = {}
      BY <1>1, <1>2, <2>4, FS_EmptySet
    <3>3. Holders(r)' = {p} /\ ~IsPhase(p)' /\ PhaseHolders(r)' = {}
      BY <1>10, <2>1, <2>2, <3>1, <3>2
    <3> QED BY <1>9, <2>4, <3>3, FS_EmptySet
  <2>5. CASE /\ \A d \in W : IsPhase(d)
             /\ Drained(f).active = f.active + Cardinality(W)
             /\ Drained(f).purge <=> f.purge
    <3>1. /\ PhaseHolders(r)' = Rest \cup W /\ Holders(r)' = Rest \cup W
          /\ \A d \in Rest \cup W : IsPhase(d)'
      BY <1>10, <2>1, <2>2, <2>5
    <3>2. Rest \cap W = {}
      BY <1>5 DEF Holders
    <3>3. Cardinality(Rest \cup W) = Cardinality(Rest) + Cardinality(W)
      <4>1. Cardinality(Rest \cup W)
              = Cardinality(Rest) + Cardinality(W) - Cardinality(Rest \cap W)
        BY <1>1, <1>4, FS_Union
      <4>2. Cardinality(Rest \cap W) = 0
        BY <3>2, FS_EmptySet
      <4>3. Cardinality(Rest) \in Nat /\ Cardinality(W) \in Nat
        BY <1>1, <1>4, FS_CardinalityType
      <4> QED BY <4>1, <4>2, <4>3
    <3> QED BY <1>2, <1>9, <2>5, <3>1, <3>3
  <2> QED BY <1>4, <2>3, <2>4, <2>5
<1>14. LocksCountHolders' /\ PurgeIsAlone'
  <2>1. ASSUME NEW q \in Repos
        PROVE  /\ op'[q].active = Cardinality(PhaseHolders(q))'
               /\ op'[q].purge <=> \E d \in Holders(q)' : ~IsPhase(d)'
               /\ \A d \in Holders(q)' : ~IsPhase(d)' => Holders(q)' = {d}
    <3>1. CASE q = r
      BY <1>13, <3>1
    <3>2. CASE q # r
      BY <1>12, <3>2
    <3> QED BY <3>1, <3>2
  <2> QED BY <2>1 DEF LocksCountHolders, PurgeIsAlone
<1> QED BY <1>4, <1>5, <1>8, <1>11, <1>14 DEF RepoLockInv, f, W

-----------------------------------------------------------------------------
(* The slots of the indexers *)

Indexing == {c \in Calls : call[c].at = "indexing"}

\* The count of slots is the number of child processes, and the line for a
\* slot holds those who wait for one.
IndexSlotInv ==
  /\ slot \in Nat /\ slot <= Slots /\ slotQueue \in Seq(Calls)
  /\ slot = Cardinality(Indexing)
  /\ Distinct(slotQueue)
  /\ \A c \in Calls : InLine(slotQueue, c) <=> call[c].at = "slotQueued"

LEMMA IndexingIsFinite ==
  Indexing \in SUBSET Calls /\ IsFiniteSet(Indexing)
<1>1. Indexing \in SUBSET Calls
  BY DEF Indexing
<1> QED BY <1>1, FS_Subset, IndexPhasesAssumption

\* A step that moves nobody into a slot, out of it, or in the line for one.
LEMMA SlotStays ==
  ASSUME IndexSlotInv, slot' = slot, slotQueue' = slotQueue,
         \A d \in Calls :
           /\ call'[d].at = "indexing" <=> call[d].at = "indexing"
           /\ call'[d].at = "slotQueued" <=> call[d].at = "slotQueued"
  PROVE  IndexSlotInv'
<1>1. Indexing' = Indexing
  BY DEF Indexing
<1> QED BY <1>1 DEF IndexSlotInv

LEMMA SlotAsked ==
  ASSUME Typed, IndexSlotInv, NEW c \in Calls, AskSlot(c)
  PROVE  IndexSlotInv'
<1>1. call[c].at = "inside"
  BY DEF AskSlot
<1>2. CASE slot < Slots
  <2>1. /\ slot' = slot + 1 /\ slotQueue' = slotQueue
        /\ call' = [call EXCEPT ![c].at = "indexing"]
    BY <1>2 DEF AskSlot, Move
  <2>2. /\ call'[c].at = "indexing"
        /\ \A d \in Calls \ {c} : call'[d] = call[d]
    BY <2>1 DEF Typed, CallRecs
  <2>3. Indexing' = Indexing \cup {c} /\ c \notin Indexing
    BY <1>1, <2>2 DEF Indexing
  <2>4. Cardinality(Indexing') = Cardinality(Indexing) + 1
    BY <2>3, IndexingIsFinite, FS_AddElement
  <2>5. slot' \in Nat /\ slot' <= Slots /\ slot' = Cardinality(Indexing')
    BY <1>2, <2>1, <2>4, IndexPhasesAssumption DEF IndexSlotInv
  <2>6. \A d \in Calls : InLine(slotQueue', d) <=> call'[d].at = "slotQueued"
    BY <1>1, <2>1, <2>2 DEF IndexSlotInv
  <2> QED BY <2>1, <2>5, <2>6 DEF IndexSlotInv
<1>3. CASE ~(slot < Slots)
  <2>1. /\ slot' = slot /\ slotQueue' = Append(slotQueue, c)
        /\ call' = [call EXCEPT ![c].at = "slotQueued"]
    BY <1>3 DEF AskSlot, Move
  <2>2. /\ call'[c].at = "slotQueued"
        /\ \A d \in Calls \ {c} : call'[d] = call[d]
    BY <2>1 DEF Typed, CallRecs
  <2>3. Indexing' = Indexing
    BY <1>1, <2>2 DEF Indexing
  <2>4. ~InLine(slotQueue, c)
    BY <1>1 DEF IndexSlotInv
  <2>5. /\ slotQueue' \in Seq(Calls) /\ Distinct(slotQueue')
        /\ \A d : InLine(slotQueue', d) <=> InLine(slotQueue, d) \/ d = c
    BY <2>1, <2>4, QueueAppend DEF IndexSlotInv
  <2>6. \A d \in Calls : InLine(slotQueue', d) <=> call'[d].at = "slotQueued"
    BY <2>2, <2>5 DEF IndexSlotInv
  <2> QED BY <2>1, <2>3, <2>5, <2>6 DEF IndexSlotInv
<1> QED BY <1>2, <1>3

\* The first in line takes over the slot of a child process that ends.
LEMMA SlotHandedOn ==
  ASSUME Typed, IndexSlotInv, NEW c \in Calls, FreeSlot(c), slotQueue # << >>
  PROVE  \E h \in Calls \ {c} :
           /\ h = Head(slotQueue) /\ call[h].at = "slotQueued"
           /\ call' = [call EXCEPT ![c].at = "indexed", ![h].at = "indexing"]
           /\ slotQueue' = Tail(slotQueue) /\ slot' = slot
<1> DEFINE h == Head(slotQueue)
<1>1. /\ call' = [call EXCEPT ![c].at = "indexed", ![h].at = "indexing"]
      /\ slotQueue' = Tail(slotQueue) /\ slot' = slot
      /\ call[c].at = "indexing"
  BY DEF FreeSlot
<1>2. h \in Calls /\ 1 \in DOMAIN slotQueue /\ slotQueue[1] = h
  BY DEF IndexSlotInv
<1>3. InLine(slotQueue, h)
  BY <1>2 DEF InLine
<1>4. call[h].at = "slotQueued" /\ h # c
  BY <1>1, <1>2, <1>3 DEF IndexSlotInv
<1> QED BY <1>1, <1>2, <1>4

LEMMA SlotFreed ==
  ASSUME Typed, IndexSlotInv, NEW c \in Calls, FreeSlot(c)
  PROVE  IndexSlotInv'
<1>1. call[c].at = "indexing"
  BY DEF FreeSlot
<1>2. c \in Indexing
  BY <1>1 DEF Indexing
<1>3. CASE slotQueue = << >>
  <2>1. /\ slot' = slot - 1 /\ slotQueue' = slotQueue
        /\ call' = [call EXCEPT ![c].at = "indexed"]
    BY <1>3 DEF FreeSlot, Move
  <2>2. /\ call'[c].at = "indexed"
        /\ \A d \in Calls \ {c} : call'[d] = call[d]
    BY <2>1 DEF Typed, CallRecs
  <2>3. Indexing' = Indexing \ {c}
    BY <2>2 DEF Indexing
  <2>4. /\ Cardinality(Indexing') = Cardinality(Indexing) - 1
        /\ Cardinality(Indexing') \in Nat
    BY <1>2, <2>3, IndexingIsFinite, FS_RemoveElement, FS_CardinalityType
  <2>5. slot' \in Nat /\ slot' <= Slots /\ slot' = Cardinality(Indexing')
    BY <2>1, <2>4, IndexPhasesAssumption DEF IndexSlotInv
  <2>6. \A d \in Calls : InLine(slotQueue', d) <=> call'[d].at = "slotQueued"
    BY <1>1, <2>1, <2>2 DEF IndexSlotInv
  <2> QED BY <2>1, <2>5, <2>6 DEF IndexSlotInv
<1>4. CASE slotQueue # << >>
  <2>1. PICK h \in Calls \ {c} :
           /\ h = Head(slotQueue) /\ call[h].at = "slotQueued"
           /\ call' = [call EXCEPT ![c].at = "indexed", ![h].at = "indexing"]
           /\ slotQueue' = Tail(slotQueue) /\ slot' = slot
    BY <1>4, SlotHandedOn
  <2>2. /\ call'[c].at = "indexed" /\ call'[h].at = "indexing"
        /\ \A d \in Calls \ {c, h} : call'[d] = call[d]
    BY <2>1 DEF Typed, CallRecs
  <2>3. Indexing' = (Indexing \ {c}) \cup {h} /\ h \notin Indexing \ {c}
    BY <2>1, <2>2 DEF Indexing
  <2>4. /\ IsFiniteSet(Indexing \ {c})
        /\ Cardinality(Indexing \ {c}) = Cardinality(Indexing) - 1
    BY <1>2, IndexingIsFinite, FS_RemoveElement
  <2>5. /\ Cardinality(Indexing') = Cardinality(Indexing \ {c}) + 1
        /\ Cardinality(Indexing) \in Nat
    BY <2>3, <2>4, FS_AddElement, IndexingIsFinite, FS_CardinalityType
  <2>6. Cardinality(Indexing') = Cardinality(Indexing)
    BY <2>4, <2>5
  <2>7. /\ slotQueue \in Seq(Calls) /\ Len(slotQueue) \in Nat
        /\ 1 \in 0..Len(slotQueue) /\ slotQueue[1] = h
        /\ slotQueue' = SubSeq(slotQueue, 1 + 1, Len(slotQueue))
    BY <1>4, <2>1 DEF IndexSlotInv
  <2>8. {slotQueue[i] : i \in 1..1} = {h}
    BY <2>7
  <2>9. /\ slotQueue' \in Seq(Calls) /\ Distinct(slotQueue')
        /\ \A d : InLine(slotQueue', d) <=> InLine(slotQueue, d) /\ d # h
    BY <2>7, <2>8, QueueDrop DEF IndexSlotInv
  <2>10. \A d \in Calls : InLine(slotQueue', d) <=> call'[d].at = "slotQueued"
    BY <1>1, <2>1, <2>2, <2>9 DEF IndexSlotInv
  <2> QED BY <2>1, <2>6, <2>9, <2>10 DEF IndexSlotInv
<1> QED BY <1>3, <1>4

-----------------------------------------------------------------------------
(* The keys of the SCIP phases *)

\* A SCIP phase has the key of its repository for itself.
ScipInv ==
  /\ scip \subseteq Repos
  /\ \A c \in Calls : call[c].kind = "scip" => Repo(c) \in scip
  /\ \A c \in Calls : call[c].at = "resolving" => call[c].kind = "scip"
  /\ ScipRunsOnce

\* A step that begins no SCIP phase.
LEMMA ScipStays ==
  ASSUME ScipInv, scip' = scip,
         \A d \in Calls :
           /\ call'[d].kind = "scip" =>
                call[d].kind = "scip" /\ call'[d].repo = call[d].repo
           /\ call'[d].at = "resolving" =>
                call[d].at = "resolving" /\ call'[d].kind = call[d].kind
  PROVE  ScipInv'
BY DEF ScipInv, ScipRunsOnce, Repo

\* A SCIP phase that ends gives its key back.
LEMMA ScipEnds ==
  ASSUME ScipInv, NEW c \in Calls, call[c].kind = "scip",
         scip' = scip \ {Repo(c)}, call'[c].kind # "scip",
         call'[c].at # "resolving",
         \A d \in Calls \ {c} :
           /\ call'[d].kind = call[d].kind /\ call'[d].repo = call[d].repo
           /\ call'[d].at = "resolving" => call[d].at = "resolving"
  PROVE  ScipInv'
<1>1. \A d \in Calls \ {c} : call[d].kind = "scip" => Repo(d) # Repo(c)
  BY DEF ScipInv, ScipRunsOnce
<1>2. \A d \in Calls : call'[d].kind = "scip" => d # c /\ call[d].kind = "scip"
  OBVIOUS
<1>3. ScipRunsOnce'
  BY <1>2 DEF ScipInv, ScipRunsOnce, Repo
<1>4. \A d \in Calls : call'[d].kind = "scip" => Repo(d)' \in scip'
  BY <1>1, <1>2 DEF ScipInv, Repo
<1> QED BY <1>3, <1>4 DEF ScipInv

LEMMA ScipBegins ==
  ASSUME Typed, ScipInv, NEW c \in Calls, NEW r \in Repos, AskScip(c, r)
  PROVE  ScipInv'
<1>1. /\ r \notin scip /\ scip' = scip \cup {r}
      /\ call' = [call EXCEPT ![c] = [Fields("scip", r) EXCEPT !.at = "resolving"]]
  BY DEF AskScip
<1>2. /\ call'[c].kind = "scip" /\ call'[c].repo = r
      /\ \A d \in Calls \ {c} : call'[d] = call[d]
  BY <1>1 DEF Fields, Typed
<1>3. \A d \in Calls : call[d].kind = "scip" => Repo(d) # r
  BY <1>1 DEF ScipInv
<1> QED BY <1>1, <1>2, <1>3 DEF ScipInv, ScipRunsOnce, Repo

-----------------------------------------------------------------------------
(* The admission of pipelines *)

Reservations == [refs : Nat, idle : BOOLEAN]

\* The phases of r that are under way.
UnderWay(r) ==
  {c \in Calls : /\ IsPhase(c) /\ Repo(c) = r
                 /\ call[c].at \notin {"none", "done"}}

\* Every phase under way has its reference in the reservation of its
\* repository, as long as no other phase ended the reservation under it.
Referenced ==
  \A r \in Repos : UnderWay(r) # {} =>
    r \in DOMAIN pipe /\ Cardinality(UnderWay(r)) <= pipe[r].refs

PipeInv ==
  /\ DOMAIN pipe \subseteq Repos /\ cut \subseteq Repos
  /\ \A r \in DOMAIN pipe : pipe[r] \in Reservations
  /\ IsFiniteSet(DOMAIN pipe) /\ Cardinality(DOMAIN pipe) <= Cap
  /\ cut = {} => Referenced

LEMMA UnderWayIsFinite ==
  ASSUME NEW r
  PROVE  /\ UnderWay(r) \in SUBSET Calls /\ IsFiniteSet(UnderWay(r))
         /\ Cardinality(UnderWay(r)) \in Nat
         /\ UnderWay(r) # {} => Cardinality(UnderWay(r)) > 0
<1>1. UnderWay(r) \in SUBSET Calls
  BY DEF UnderWay
<1>2. IsFiniteSet(UnderWay(r))
  BY <1>1, FS_Subset, IndexPhasesAssumption
<1>3. Cardinality(UnderWay(r)) \in Nat
  BY <1>2, FS_CardinalityType
<1>4. UnderWay(r) # {} => Cardinality(UnderWay(r)) # 0
  BY <1>2, FS_EmptySet
<1> QED BY <1>1, <1>2, <1>3, <1>4

\* Fewer phases need fewer references.
LEMMA UnderWayShrinks ==
  ASSUME NEW r, UnderWay(r)' \subseteq UnderWay(r)
  PROVE  Cardinality(UnderWay(r)') <= Cardinality(UnderWay(r))
BY UnderWayIsFinite, FS_Subset

\* Reservations that time out have no phase under way.
LEMMA KeptReservations ==
  ASSUME PipeInv
  PROVE  /\ DOMAIN Kept \subseteq DOMAIN pipe
         /\ \A r \in DOMAIN Kept : Kept[r] = pipe[r]
         /\ IsFiniteSet(DOMAIN Kept)
         /\ Cardinality(DOMAIN Kept) <= Cap
         /\ cut = {} => \A r \in Repos : UnderWay(r) # {} => r \in DOMAIN Kept
<1>1. /\ DOMAIN Kept \subseteq DOMAIN pipe
      /\ \A r \in DOMAIN Kept : Kept[r] = pipe[r]
  BY DEF Kept
<1>2. /\ IsFiniteSet(DOMAIN Kept)
      /\ Cardinality(DOMAIN Kept) <= Cardinality(DOMAIN pipe)
  BY <1>1, FS_Subset DEF PipeInv
<1>3. /\ Cardinality(DOMAIN Kept) \in Nat /\ Cardinality(DOMAIN pipe) \in Nat
  BY <1>2, FS_CardinalityType DEF PipeInv
<1>4. Cardinality(DOMAIN Kept) <= Cap
  BY <1>2, <1>3, IndexPhasesAssumption DEF PipeInv
<1>5. ASSUME cut = {}, NEW r \in Repos, UnderWay(r) # {}
      PROVE  r \in DOMAIN Kept
  <2>1. /\ r \in DOMAIN pipe /\ pipe[r].refs \in Nat
        /\ Cardinality(UnderWay(r)) <= pipe[r].refs
    BY <1>5 DEF PipeInv, Referenced, Reservations
  <2>2. pipe[r].refs > 0
    BY <1>5, <2>1, UnderWayIsFinite
  <2> QED BY <2>1, <2>2 DEF Kept
<1> QED BY <1>1, <1>2, <1>4, <1>5

\* A step that begins no phase, and leaves the references as they are.
LEMMA PipeStays ==
  ASSUME PipeInv, cut' = cut,
         \A r \in Repos : UnderWay(r)' \subseteq UnderWay(r),
         DOMAIN pipe' \subseteq DOMAIN pipe,
         \A r \in DOMAIN pipe' : /\ pipe'[r] \in Reservations
                                 /\ pipe'[r].refs = pipe[r].refs,
         cut = {} => \A r \in Repos : UnderWay(r) # {} => r \in DOMAIN pipe'
  PROVE  PipeInv'
<1>1. /\ IsFiniteSet(DOMAIN pipe')
      /\ Cardinality(DOMAIN pipe') <= Cardinality(DOMAIN pipe)
  BY FS_Subset DEF PipeInv
<1>2. /\ Cardinality(DOMAIN pipe') \in Nat /\ Cardinality(DOMAIN pipe) \in Nat
  BY <1>1, FS_CardinalityType DEF PipeInv
<1>3. Cardinality(DOMAIN pipe') <= Cap
  BY <1>1, <1>2, IndexPhasesAssumption DEF PipeInv
<1>4. ASSUME cut = {}, NEW r \in Repos, UnderWay(r)' # {}
      PROVE  r \in DOMAIN pipe' /\ Cardinality(UnderWay(r)') <= pipe'[r].refs
  <2>1. UnderWay(r) # {} /\ r \in DOMAIN pipe'
    BY <1>4
  <2>2. /\ Cardinality(UnderWay(r)) <= pipe[r].refs
        /\ pipe[r].refs \in Nat /\ pipe'[r].refs = pipe[r].refs
    BY <1>4, <2>1 DEF PipeInv, Referenced, Reservations
  <2>3. Cardinality(UnderWay(r)') <= Cardinality(UnderWay(r))
    BY UnderWayShrinks
  <2>4. UnderWay(r)' \in SUBSET Calls
    BY DEF UnderWay
  <2>5. Cardinality(UnderWay(r)') \in Nat
    BY <2>4, FS_Subset, FS_CardinalityType, IndexPhasesAssumption
  <2> QED BY <2>1, <2>2, <2>3, <2>5, UnderWayIsFinite
<1>5. cut' = {} => Referenced'
  BY <1>4 DEF Referenced
<1> QED BY <1>1, <1>3, <1>5 DEF PipeInv

\* A phase is admitted.
LEMMA PipeAdmitted ==
  ASSUME PipeInv, NEW c \in Calls, NEW r \in Repos,
         Admissible(r), pipe' = Admitted(r), cut' = cut,
         UnderWay(r)' = UnderWay(r) \cup {c}, c \notin UnderWay(r),
         \A q \in Repos \ {r} : UnderWay(q)' = UnderWay(q)
  PROVE  PipeInv'
<1>1. /\ DOMAIN Kept \subseteq DOMAIN pipe
      /\ \A q \in DOMAIN Kept : Kept[q] = pipe[q]
      /\ IsFiniteSet(DOMAIN Kept)
      /\ Cardinality(DOMAIN Kept) <= Cap
      /\ cut = {} => \A q \in Repos : UnderWay(q) # {} => q \in DOMAIN Kept
  BY KeptReservations
<1>2. /\ DOMAIN pipe' = DOMAIN Kept \cup {r}
      /\ \A q \in DOMAIN Kept \ {r} : pipe'[q] = Kept[q]
      /\ pipe'[r] = [refs |-> IF r \in DOMAIN Kept THEN Kept[r].refs + 1 ELSE 1,
                     idle |-> FALSE]
  BY DEF Admitted
<1>3. /\ DOMAIN Kept \subseteq Repos
      /\ \A q \in DOMAIN Kept : pipe[q] \in Reservations
  BY <1>1 DEF PipeInv
<1>4. ASSUME NEW q \in DOMAIN pipe'
      PROVE  pipe'[q] \in Reservations
  <2>1. CASE q # r
    <3>1. q \in DOMAIN Kept /\ pipe'[q] = pipe[q]
      BY <1>1, <1>2, <2>1
    <3> QED BY <1>3, <3>1
  <2>2. CASE q = r
    <3> DEFINE n == IF r \in DOMAIN Kept THEN Kept[r].refs + 1 ELSE 1
    <3>1. n \in Nat
      BY <1>1, <1>3 DEF Reservations
    <3>2. pipe'[r] = [refs |-> n, idle |-> FALSE]
      BY <1>2
    <3> HIDE DEF n
    <3> QED BY <2>2, <3>1, <3>2 DEF Reservations
  <2> QED BY <2>1, <2>2
<1>5. IsFiniteSet(DOMAIN pipe') /\ Cardinality(DOMAIN pipe') <= Cap
  <2>1. CASE r \in DOMAIN Kept
    <3>1. DOMAIN pipe' = DOMAIN Kept
      BY <1>2, <2>1
    <3> QED BY <1>1, <3>1
  <2>2. CASE r \notin DOMAIN Kept
    <3>1. Cardinality(DOMAIN Kept) < Cap
      BY <2>2 DEF Admissible
    <3>2. /\ IsFiniteSet(DOMAIN pipe')
          /\ Cardinality(DOMAIN pipe') = Cardinality(DOMAIN Kept) + 1
      BY <1>1, <1>2, <2>2, FS_AddElement
    <3>3. Cardinality(DOMAIN Kept) \in Nat
      BY <1>1, FS_CardinalityType
    <3> QED BY <3>1, <3>2, <3>3, IndexPhasesAssumption
  <2> QED BY <2>1, <2>2
<1>6. ASSUME cut = {}, NEW q \in Repos, UnderWay(q)' # {}
      PROVE  q \in DOMAIN pipe' /\ Cardinality(UnderWay(q)') <= pipe'[q].refs
  <2>1. CASE q # r
    <3>1. UnderWay(q)' = UnderWay(q) /\ q \in DOMAIN Kept
      BY <1>1, <1>6, <2>1
    <3>2. Cardinality(UnderWay(q)) <= pipe[q].refs
      BY <1>6, <3>1 DEF PipeInv, Referenced
    <3> QED BY <1>1, <1>2, <2>1, <3>1, <3>2
  <2>2. CASE q = r
    <3>1. Cardinality(UnderWay(r)') = Cardinality(UnderWay(r)) + 1
      BY UnderWayIsFinite, FS_AddElement
    <3>2. CASE r \in DOMAIN Kept
      <4>1. /\ pipe'[r].refs = pipe[r].refs + 1 /\ pipe[r].refs \in Nat
        BY <1>1, <1>2, <1>3, <3>2 DEF Reservations
      <4>2. Cardinality(UnderWay(r)) <= pipe[r].refs
        <5>1. CASE UnderWay(r) = {}
          BY <4>1, <5>1, FS_EmptySet
        <5>2. CASE UnderWay(r) # {}
          BY <1>6, <5>2 DEF PipeInv, Referenced
        <5> QED BY <5>1, <5>2
      <4>3. Cardinality(UnderWay(r)) \in Nat
        BY UnderWayIsFinite
      <4>4. /\ r \in DOMAIN pipe'
            /\ Cardinality(UnderWay(r)') <= pipe'[r].refs
        BY <1>2, <3>1, <4>1, <4>2, <4>3
      <4> QED BY <2>2, <4>4
    <3>3. CASE r \notin DOMAIN Kept
      <4>1. UnderWay(r) = {} /\ pipe'[r].refs = 1
        BY <1>1, <1>2, <1>6, <3>3
      <4>2. Cardinality(UnderWay(r)) = 0
        BY <4>1, FS_EmptySet
      <4> QED BY <1>2, <2>2, <3>1, <4>1, <4>2
    <3> QED BY <3>2, <3>3
  <2> QED BY <2>1, <2>2
<1>7. cut' = {} => Referenced'
  BY <1>6 DEF Referenced
<1> QED BY <1>2, <1>3, <1>4, <1>5, <1>7 DEF PipeInv

\* A phase under way ends.
LEMMA PipeReleased ==
  ASSUME PipeInv, NEW c \in Calls, NEW ok, NEW r \in Repos, Repo(c) = r,
         ReleasePipe(c, ok), c \in UnderWay(r),
         UnderWay(r)' = UnderWay(r) \ {c},
         \A q \in Repos \ {r} : UnderWay(q)' = UnderWay(q)
  PROVE  PipeInv'
<1> DEFINE end == call[c].kind = "merge" \/ (call[c].kind = "clone" /\ ~ok)
<1>1. /\ pipe' = IF end THEN Ended(r) ELSE Released(r)
      /\ cut' = IF end /\ UnderWay(r) \ {c} # {} THEN cut \cup {r} ELSE cut
  <2>1. {d \in Calls \ {c} : IsPhase(d) /\ Repo(d) = r
                             /\ call[d].at \notin {"none", "done"}}
          = UnderWay(r) \ {c}
    BY DEF UnderWay
  <2> QED BY <2>1 DEF ReleasePipe
<1>2. cut' \subseteq Repos /\ (cut' = {} => cut = {})
  BY <1>1 DEF PipeInv
<1>3. CASE end
  <2>1. /\ DOMAIN pipe' = DOMAIN pipe \ {r}
        /\ \A q \in DOMAIN pipe' : pipe'[q] = pipe[q]
    BY <1>1, <1>3 DEF Ended
  <2>2. /\ IsFiniteSet(DOMAIN pipe')
        /\ Cardinality(DOMAIN pipe') <= Cardinality(DOMAIN pipe)
    BY <2>1, FS_Subset DEF PipeInv
  <2>3. /\ Cardinality(DOMAIN pipe') \in Nat /\ Cardinality(DOMAIN pipe) \in Nat
    BY <2>2, FS_CardinalityType DEF PipeInv
  <2>4. Cardinality(DOMAIN pipe') <= Cap
    BY <2>2, <2>3, IndexPhasesAssumption DEF PipeInv
  <2>5. cut' = {} => Referenced'
    <3>1. ASSUME cut' = {}, NEW q \in Repos, UnderWay(q)' # {}
          PROVE  q \in DOMAIN pipe' /\ Cardinality(UnderWay(q)') <= pipe'[q].refs
      <4>1. q # r
        BY <1>1, <1>3, <3>1
      <4>2. UnderWay(q)' = UnderWay(q)
        BY <4>1
      <4>3. q \in DOMAIN pipe /\ Cardinality(UnderWay(q)) <= pipe[q].refs
        BY <1>2, <3>1, <4>2 DEF PipeInv, Referenced
      <4> QED BY <2>1, <4>1, <4>2, <4>3
    <3> QED BY <3>1 DEF Referenced
  <2> QED BY <1>2, <2>1, <2>2, <2>4, <2>5 DEF PipeInv
<1>4. CASE ~end
  <2>1. /\ DOMAIN pipe' = DOMAIN pipe /\ cut' = cut
        /\ \A q \in DOMAIN pipe \ {r} : pipe'[q] = pipe[q]
        /\ r \in DOMAIN pipe =>
             pipe'[r] = [refs |-> IF pipe[r].refs = 0 THEN 0 ELSE pipe[r].refs - 1,
                         idle |-> FALSE]
    BY <1>1, <1>4 DEF Released
  <2>2. \A q \in DOMAIN pipe : pipe[q] \in Reservations
    BY DEF PipeInv
  <2>3. ASSUME NEW q \in DOMAIN pipe'
        PROVE  pipe'[q] \in Reservations
    <3>1. CASE q # r
      BY <2>1, <2>2, <3>1
    <3>2. CASE q = r
      <4> DEFINE n == IF pipe[r].refs = 0 THEN 0 ELSE pipe[r].refs - 1
      <4>1. n \in Nat
        BY <2>1, <2>2, <3>2 DEF Reservations
      <4>2. pipe'[r] = [refs |-> n, idle |-> FALSE]
        BY <2>1, <3>2
      <4> HIDE DEF n
      <4> QED BY <3>2, <4>1, <4>2 DEF Reservations
    <3> QED BY <3>1, <3>2
  <2>4. cut' = {} => Referenced'
    <3>1. ASSUME cut' = {}, NEW q \in Repos, UnderWay(q)' # {}
          PROVE  q \in DOMAIN pipe' /\ Cardinality(UnderWay(q)') <= pipe'[q].refs
      <4>1. q \in DOMAIN pipe /\ Cardinality(UnderWay(q)) <= pipe[q].refs
        BY <1>2, <3>1 DEF PipeInv, Referenced
      <4>2. CASE q # r
        BY <2>1, <4>1, <4>2
      <4>3. CASE q = r
        <5>1. /\ Cardinality(UnderWay(r)') = Cardinality(UnderWay(r)) - 1
              /\ Cardinality(UnderWay(r)) \in Nat
              /\ Cardinality(UnderWay(r)) > 0
          BY UnderWayIsFinite, FS_RemoveElement
        <5>2. pipe[r].refs \in Nat
          BY <2>2, <4>1, <4>3 DEF Reservations
        <5>3. pipe'[r].refs = pipe[r].refs - 1
          BY <2>1, <4>1, <4>3, <5>1, <5>2
        <5> QED BY <2>1, <4>1, <4>3, <5>1, <5>2, <5>3
      <4> QED BY <4>2, <4>3
    <3> QED BY <3>1 DEF Referenced
  <2> QED BY <1>2, <2>1, <2>3, <2>4 DEF PipeInv
<1> QED BY <1>3, <1>4

\* The capacity bounds the repositories that are worked on.
LEMMA PipeBounds ==
  ASSUME Typed, PipeInv
  PROVE  CapHolds
<1> DEFINE busy == {Repo(c) : c \in {d \in Calls :
                     IsPhase(d) /\ call[d].at \notin {"none", "done"}}}
<1>1. ASSUME cut = {}
      PROVE  Cardinality(busy) <= Cap
  <2>1. ASSUME NEW c \in Calls, IsPhase(c), call[c].at \notin {"none", "done"}
        PROVE  Repo(c) \in DOMAIN pipe
    <3>1. Repo(c) \in Repos /\ c \in UnderWay(Repo(c))
      BY <2>1 DEF Typed, CallRecs, Repo, UnderWay
    <3> QED BY <1>1, <3>1 DEF PipeInv, Referenced
  <2>2. busy \subseteq DOMAIN pipe
    BY <2>1
  <2>3. /\ IsFiniteSet(DOMAIN pipe) /\ Cardinality(DOMAIN pipe) <= Cap
    BY DEF PipeInv
  <2> HIDE DEF busy
  <2>4. /\ IsFiniteSet(busy) /\ Cardinality(busy) <= Cardinality(DOMAIN pipe)
    BY <2>2, <2>3, FS_Subset
  <2>5. Cardinality(busy) \in Nat /\ Cardinality(DOMAIN pipe) \in Nat
    BY <2>3, <2>4, FS_CardinalityType
  <2> QED BY <2>3, <2>4, <2>5, IndexPhasesAssumption
<1> QED BY <1>1 DEF CapHolds

-----------------------------------------------------------------------------
(* Steps of the requests *)

PhaseInv == Typed /\ RepoLockInv /\ IndexSlotInv /\ ScipInv /\ PipeInv

\* A request that asks for the lock is inside or in line afterwards.
LEMMA Entered ==
  ASSUME NEW c \in Calls, NEW r, NEW phase, NEW x \in CallRecs,
         Enter(c, r, phase, x)
  PROVE  \E y \in CallRecs :
           /\ y.at \in {"inside", "queued"}
           /\ y.at = "inside" => CanAcquire(r, phase)
           /\ y.kind = x.kind /\ y.repo = x.repo
           /\ call' = [call EXCEPT ![c] = y]
<1> DEFINE y == [x EXCEPT !.at = IF CanAcquire(r, phase) THEN "inside" ELSE "queued"]
<1>1. call' = [call EXCEPT ![c] = y]
  BY DEF Enter
<1>2. /\ y \in CallRecs /\ y.kind = x.kind /\ y.repo = x.repo
      /\ y.at = IF CanAcquire(r, phase) THEN "inside" ELSE "queued"
  BY DEF CallRecs, Places
<1> HIDE DEF y
<1> QED BY <1>1, <1>2

\* It is recorded as waiting or inside, and keeps its kind and repository.
LEMMA EnteredAt ==
  ASSUME NEW c \in Calls, NEW r, NEW phase, NEW x \in CallRecs,
         Enter(c, r, phase, x)
  PROVE  \E y \in CallRecs :
           /\ y.at \in {"inside", "queued"}
           /\ y.kind = x.kind /\ y.repo = x.repo
           /\ call' = [call EXCEPT ![c] = y]
<1>1. PICK y \in CallRecs :
           /\ y.at \in {"inside", "queued"}
           /\ y.at = "inside" => CanAcquire(r, phase)
           /\ y.kind = x.kind /\ y.repo = x.repo
           /\ call' = [call EXCEPT ![c] = y]
  BY Entered
<1> WITNESS y \in CallRecs
<1> QED BY <1>1

\* What happens to the phases under way when one request changes.
LEMMA UnderWayOfOne ==
  ASSUME Typed, NEW c \in Calls, NEW y \in CallRecs,
         call' = [call EXCEPT ![c] = y]
  PROVE  /\ call'[c] = y /\ \A d \in Calls \ {c} : call'[d] = call[d]
         /\ Typed' <=> op' \in [Repos -> Ops]
         /\ call[c].at = "none" =>
              /\ \A q : c \notin UnderWay(q)
              /\ y.kind \in Phases /\ y.at \notin {"none", "done"} =>
                   /\ UnderWay(y.repo)' = UnderWay(y.repo) \cup {c}
                   /\ \A q \in Repos \ {y.repo} : UnderWay(q)' = UnderWay(q)
         /\ y.at \in {"none", "done"} =>
              \A q : UnderWay(q)' = UnderWay(q) \ {c}
         /\ y.kind \notin Phases => \A q : UnderWay(q)' \subseteq UnderWay(q)
         /\ y.kind = call[c].kind /\ y.repo = call[c].repo
              /\ call[c].at \notin {"none", "done"} =>
              \A q : UnderWay(q)' \subseteq UnderWay(q)
<1>1. call'[c] = y /\ \A d \in Calls \ {c} : call'[d] = call[d]
  BY DEF Typed
<1>2. Typed' <=> op' \in [Repos -> Ops]
  BY <1>1 DEF Typed
<1>3. \A q : \A d \in Calls \ {c} : d \in UnderWay(q)' <=> d \in UnderWay(q)
  BY <1>1 DEF UnderWay, IsPhase, Repo
<1>4. \A q : c \in UnderWay(q)'
               <=> /\ y.kind \in Phases /\ y.repo = q
                   /\ y.at \notin {"none", "done"}
  BY <1>1 DEF UnderWay, IsPhase, Repo
<1>5. \A q : c \in UnderWay(q)
               <=> /\ call[c].kind \in Phases /\ call[c].repo = q
                   /\ call[c].at \notin {"none", "done"}
  BY DEF UnderWay, IsPhase, Repo
<1>6. \A q : UnderWay(q) \subseteq Calls /\ UnderWay(q)' \subseteq Calls
  BY DEF UnderWay
<1>7. ASSUME y.at \in {"none", "done"}, NEW q
      PROVE  UnderWay(q)' = UnderWay(q) \ {c}
  BY <1>3, <1>4, <1>6, <1>7
<1>8. ASSUME call[c].at = "none", y.kind \in Phases, y.at \notin {"none", "done"}
      PROVE  /\ UnderWay(y.repo)' = UnderWay(y.repo) \cup {c}
             /\ \A q \in Repos \ {y.repo} : UnderWay(q)' = UnderWay(q)
  <2>1. UnderWay(y.repo)' = UnderWay(y.repo) \cup {c}
    BY <1>3, <1>4, <1>6, <1>8
  <2>2. ASSUME NEW q \in Repos \ {y.repo}
        PROVE  UnderWay(q)' = UnderWay(q)
    BY <1>3, <1>4, <1>5, <1>6, <1>8
  <2> QED BY <2>1, <2>2
<1>9. ASSUME y.kind \notin Phases, NEW q
      PROVE  UnderWay(q)' \subseteq UnderWay(q)
  BY <1>3, <1>4, <1>6, <1>9
<1>10. ASSUME y.kind = call[c].kind, y.repo = call[c].repo,
              call[c].at \notin {"none", "done"}, NEW q
       PROVE  UnderWay(q)' \subseteq UnderWay(q)
  BY <1>3, <1>4, <1>5, <1>6, <1>10
<1>11. call[c].at = "none" => \A q : c \notin UnderWay(q)
  BY <1>5
<1> QED BY <1>1, <1>2, <1>7, <1>8, <1>9, <1>10, <1>11

\* A step after which pipe and cut are the same.
LEMMA PipeSame ==
  ASSUME PipeInv, pipe' = pipe, cut' = cut,
         \A r \in Repos : UnderWay(r)' \subseteq UnderWay(r)
  PROVE  PipeInv'
<1>1. /\ DOMAIN pipe' \subseteq DOMAIN pipe
      /\ \A r \in DOMAIN pipe' : /\ pipe'[r] \in Reservations
                                 /\ pipe'[r].refs = pipe[r].refs
      /\ cut = {} => \A r \in Repos : UnderWay(r) # {} => r \in DOMAIN pipe'
  BY DEF PipeInv, Referenced
<1> QED BY <1>1, PipeStays

\* A request that did not ask yet, or waits for its row, gets y.
LEMMA OthersStay ==
  ASSUME PhaseInv, NEW c \in Calls, NEW y \in CallRecs,
         call[c].at \in {"none", "resolving"},
         call' = [call EXCEPT ![c] = y],
         y.at \in {"inside", "queued", "resolving", "done"}
  PROVE  /\ UNCHANGED <<slot, slotQueue>> => IndexSlotInv'
         /\ y.at \in {"resolving", "done"} /\ op' = op => Typed' /\ RepoLockInv'
         /\ y.at # "resolving" /\ y.kind # "scip" /\ scip' = scip => ScipInv'
<1>1. call'[c] = y /\ \A d \in Calls \ {c} : call'[d] = call[d]
  BY UnderWayOfOne DEF PhaseInv
<1>2. UNCHANGED <<slot, slotQueue>> => IndexSlotInv'
  BY <1>1, SlotStays DEF PhaseInv
<1>3. ASSUME y.at \in {"resolving", "done"}, op' = op
      PROVE  Typed' /\ RepoLockInv'
  <2>1. Typed'
    BY <1>3, UnderWayOfOne DEF PhaseInv, Typed
  <2>2. RepoLockInv'
    BY <1>1, <1>3, LockStays DEF PhaseInv, Inside
  <2> QED BY <2>1, <2>2
<1>4. y.at # "resolving" /\ y.kind # "scip" /\ scip' = scip => ScipInv'
  BY <1>1, ScipStays DEF PhaseInv
<1> QED BY <1>2, <1>3, <1>4

LEMMA FieldsAreTyped ==
  ASSUME NEW k \in Kinds, NEW r \in Repos
  PROVE  /\ Fields(k, r) \in CallRecs
         /\ Fields(k, r).kind = k /\ Fields(k, r).repo = r
         /\ Fields(k, r).at = "none"
BY DEF Fields, CallRecs, Places
LEMMA PhaseAsked ==
  ASSUME PhaseInv, NEW c \in Calls, NEW r \in Repos,
         NEW k \in {"clone", "zoekt", "merge"}, AskPhase(c, k, r)
  PROVE  PhaseInv'
<1> DEFINE x == Fields(k, r)
<1>1. /\ call[c].at = "none" /\ Admissible(r) /\ pipe' = Admitted(r)
      /\ Enter(c, r, TRUE, x)
      /\ UNCHANGED <<slot, slotQueue, scip, cut>>
  BY DEF AskPhase
<1>2. x \in CallRecs /\ x.kind = k /\ x.repo = r
  BY FieldsAreTyped DEF Kinds, Phases
<1> HIDE DEF x
<1>3. (x.kind \in Phases) = TRUE /\ x.kind # "scip"
  BY <1>2 DEF Phases
<1>4. Enter(c, r, x.kind \in Phases, x)
  BY <1>1, <1>3
<1>5. RepoLockInv' /\ op' \in [Repos -> Ops]
  BY <1>1, <1>2, <1>4, LockEntered DEF PhaseInv
<1>6. PICK y \in CallRecs :
           /\ y.at \in {"inside", "queued"}
           /\ y.kind = x.kind /\ y.repo = x.repo
           /\ call' = [call EXCEPT ![c] = y]
  BY <1>1, <1>2, EnteredAt
<1>7. Typed' /\ IndexSlotInv' /\ ScipInv'
  BY <1>1, <1>3, <1>5, <1>6, OthersStay, UnderWayOfOne DEF PhaseInv
<1>8. /\ UnderWay(r)' = UnderWay(r) \cup {c} /\ c \notin UnderWay(r)
      /\ \A q \in Repos \ {r} : UnderWay(q)' = UnderWay(q)
  <2>1. y.repo = r /\ y.kind \in Phases /\ y.at \notin {"none", "done"}
    BY <1>2, <1>3, <1>6
  <2>2. /\ \A q : c \notin UnderWay(q)
        /\ UnderWay(y.repo)' = UnderWay(y.repo) \cup {c}
        /\ \A q \in Repos \ {y.repo} : UnderWay(q)' = UnderWay(q)
    BY <1>1, <1>6, <2>1, UnderWayOfOne DEF PhaseInv
  <2> QED BY <2>1, <2>2
<1>9. PipeInv'
  BY <1>1, <1>8, PipeAdmitted DEF PhaseInv
<1> QED BY <1>5, <1>7, <1>9 DEF PhaseInv

\* A request that ends before it works.
LEMMA Refused ==
  ASSUME PhaseInv, NEW c \in Calls, call[c].at \in {"none", "resolving"},
         call' = [call EXCEPT ![c] = Done],
         op' = op, UNCHANGED <<slot, slotQueue>>
  PROVE  /\ Typed' /\ RepoLockInv' /\ IndexSlotInv'
         /\ scip' = scip => ScipInv'
         /\ \A q : UnderWay(q)' = UnderWay(q) \ {c}
         /\ call'[c] = Done /\ \A d \in Calls \ {c} : call'[d] = call[d]
<1>1. /\ Typed' /\ RepoLockInv' /\ IndexSlotInv'
      /\ scip' = scip => ScipInv'
  BY DoneIsTyped, OthersStay
<1>2. /\ \A q : UnderWay(q)' = UnderWay(q) \ {c}
      /\ call'[c] = Done /\ \A d \in Calls \ {c} : call'[d] = call[d]
  BY DoneIsTyped, UnderWayOfOne DEF PhaseInv
<1> QED BY <1>1, <1>2

LEMMA RefusedByAdmission ==
  ASSUME PhaseInv, NEW c \in Calls, NEW k, NEW r, AskRefused(c, k, r)
  PROVE  PhaseInv'
<1>1. /\ call[c].at = "none" /\ call' = [call EXCEPT ![c] = Done]
      /\ op' = op /\ UNCHANGED <<slot, slotQueue>> /\ scip' = scip
      /\ pipe' = Kept /\ cut' = cut
  BY DEF AskRefused
<1>2. /\ Typed' /\ RepoLockInv' /\ IndexSlotInv' /\ ScipInv'
      /\ \A q \in Repos : UnderWay(q)' \subseteq UnderWay(q)
  BY <1>1, Refused
<1>3. /\ DOMAIN Kept \subseteq DOMAIN pipe
      /\ \A q \in DOMAIN Kept : Kept[q] = pipe[q]
      /\ cut = {} => \A q \in Repos : UnderWay(q) # {} => q \in DOMAIN Kept
  BY KeptReservations DEF PhaseInv
<1>4. \A q \in DOMAIN pipe' : /\ pipe'[q] \in Reservations
                              /\ pipe'[q].refs = pipe[q].refs
  BY <1>1, <1>3 DEF PhaseInv, PipeInv
<1>5. PipeInv'
  BY <1>1, <1>2, <1>3, <1>4, PipeStays DEF PhaseInv
<1> QED BY <1>2, <1>5 DEF PhaseInv

LEMMA ScipAsked ==
  ASSUME PhaseInv, NEW c \in Calls, NEW r \in Repos, AskScip(c, r)
  PROVE  PhaseInv'
<1> DEFINE y == [Fields("scip", r) EXCEPT !.at = "resolving"]
<1>1. /\ call[c].at = "none" /\ Admissible(r) /\ pipe' = Admitted(r)
      /\ call' = [call EXCEPT ![c] = y]
      /\ UNCHANGED <<op, slot, slotQueue, cut>>
  BY DEF AskScip
<1>2. y \in CallRecs /\ y.kind = "scip" /\ y.repo = r /\ y.at = "resolving"
  BY DEF Fields, CallRecs, Places, Kinds, Phases
<1> HIDE DEF y
<1>3. Typed' /\ RepoLockInv' /\ IndexSlotInv'
  BY <1>1, <1>2, OthersStay
<1>4. ScipInv'
  BY ScipBegins DEF PhaseInv
<1>5. /\ UnderWay(r)' = UnderWay(r) \cup {c} /\ c \notin UnderWay(r)
      /\ \A q \in Repos \ {r} : UnderWay(q)' = UnderWay(q)
  BY <1>1, <1>2, UnderWayOfOne DEF PhaseInv, Phases
<1>6. PipeInv'
  BY <1>1, <1>5, PipeAdmitted DEF PhaseInv
<1> QED BY <1>3, <1>4, <1>6 DEF PhaseInv

\* A second SCIP request, and one whose row cannot be read.
LEMMA ScipDropped ==
  ASSUME PhaseInv, NEW c \in Calls, call[c].at \in {"none", "resolving"},
         call' = [call EXCEPT ![c] = Done],
         UNCHANGED <<op, pipe, slot, slotQueue, scip, cut>>
  PROVE  PhaseInv'
<1>1. /\ Typed' /\ RepoLockInv' /\ IndexSlotInv' /\ ScipInv'
      /\ \A q \in Repos : UnderWay(q)' \subseteq UnderWay(q)
  BY Refused
<1>2. PipeInv'
  BY <1>1, PipeSame DEF PhaseInv
<1> QED BY <1>1, <1>2 DEF PhaseInv

LEMMA ScipResolved ==
  ASSUME PhaseInv, NEW c \in Calls, Resolve(c)
  PROVE  PhaseInv'
<1>1. PICK x \in CallRecs : x = call[c]
  BY DEF PhaseInv, Typed
<1>2. PICK r \in Repos : r = x.repo
  BY DEF CallRecs
<1>3. /\ call[c].at = "resolving" /\ Enter(c, r, TRUE, x)
      /\ UNCHANGED <<pipe, slot, slotQueue, scip, cut>>
  BY <1>1, <1>2 DEF Resolve, Repo
<1>4. /\ x.repo = r /\ x.kind = "scip"
      /\ (x.kind \in Phases) = TRUE
  BY <1>1, <1>2, <1>3 DEF PhaseInv, ScipInv, Phases
<1>5. Enter(c, r, x.kind \in Phases, x)
  BY <1>3, <1>4
<1>6. RepoLockInv' /\ op' \in [Repos -> Ops]
  BY <1>3, <1>4, <1>5, LockEntered DEF PhaseInv
<1>7. PICK y \in CallRecs :
           /\ y.at \in {"inside", "queued"}
           /\ y.kind = x.kind /\ y.repo = x.repo
           /\ call' = [call EXCEPT ![c] = y]
  BY <1>5, EnteredAt, SMT
<1>8. /\ Typed' /\ IndexSlotInv'
      /\ call'[c] = y /\ \A d \in Calls \ {c} : call'[d] = call[d]
      /\ \A q \in Repos : UnderWay(q)' \subseteq UnderWay(q)
  BY <1>1, <1>3, <1>6, <1>7, OthersStay, UnderWayOfOne DEF PhaseInv
<1>9. ScipInv'
  BY <1>1, <1>3, <1>7, <1>8, ScipStays DEF PhaseInv
<1>10. PipeInv'
  BY <1>3, <1>8, PipeSame DEF PhaseInv
<1> QED BY <1>6, <1>8, <1>9, <1>10 DEF PhaseInv

LEMMA ScipGone ==
  ASSUME PhaseInv, NEW c \in Calls, ResolveFails(c)
  PROVE  PhaseInv'
<1>1. /\ call[c].at = "resolving" /\ call' = [call EXCEPT ![c] = Done]
      /\ scip' = scip \ {Repo(c)} /\ ReleasePipe(c, FALSE)
      /\ op' = op /\ UNCHANGED <<slot, slotQueue>>
  BY DEF ResolveFails
<1>2. /\ Typed' /\ RepoLockInv' /\ IndexSlotInv'
      /\ \A q : UnderWay(q)' = UnderWay(q) \ {c}
      /\ call'[c] = Done /\ \A d \in Calls \ {c} : call'[d] = call[d]
  BY <1>1, Refused
<1>3. call[c].kind = "scip" /\ Repo(c) \in Repos
  BY <1>1 DEF PhaseInv, ScipInv, Typed, CallRecs, Repo
<1>4. ScipInv'
  BY <1>1, <1>2, <1>3, DoneIsTyped, ScipEnds DEF PhaseInv
<1>5. /\ c \in UnderWay(Repo(c))
      /\ \A q \in Repos \ {Repo(c)} : c \notin UnderWay(q)
  BY <1>1, <1>3 DEF UnderWay, IsPhase, Phases
<1>6. \A q \in Repos \ {Repo(c)} : UnderWay(q)' = UnderWay(q)
  BY <1>2, <1>5
<1>7. PICK r \in Repos : r = Repo(c)
  BY <1>3
<1>8. /\ UnderWay(r)' = UnderWay(r) \ {c} /\ c \in UnderWay(r)
      /\ \A q \in Repos \ {r} : UnderWay(q)' = UnderWay(q)
  BY <1>2, <1>5, <1>6, <1>7
<1>9. PipeInv'
  BY <1>1, <1>7, <1>8, PipeReleased DEF PhaseInv
<1> QED BY <1>2, <1>4, <1>9 DEF PhaseInv

LEMMA PurgeAsked ==
  ASSUME PhaseInv, NEW c \in Calls, NEW r \in Repos, AskPurge(c, r)
  PROVE  PhaseInv'
<1> DEFINE x == Fields("purge", r)
<1>1. /\ call[c].at = "none" /\ Enter(c, r, FALSE, x)
      /\ UNCHANGED <<pipe, slot, slotQueue, scip, cut>>
  BY DEF AskPurge
<1>2. x \in CallRecs /\ x.kind = "purge" /\ x.repo = r
  BY FieldsAreTyped DEF Kinds
<1> HIDE DEF x
<1>3. (x.kind \in Phases) = FALSE
  BY <1>2 DEF Phases
<1>4. Enter(c, r, x.kind \in Phases, x)
  BY <1>1, <1>3
<1>5. RepoLockInv' /\ op' \in [Repos -> Ops]
  BY <1>1, <1>2, <1>4, LockEntered DEF PhaseInv
<1>6. PICK y \in CallRecs :
           /\ y.at \in {"inside", "queued"}
           /\ y.kind = x.kind /\ y.repo = x.repo
           /\ call' = [call EXCEPT ![c] = y]
  BY <1>1, <1>2, EnteredAt
<1>7. Typed' /\ IndexSlotInv' /\ ScipInv'
  BY <1>1, <1>2, <1>5, <1>6, OthersStay, UnderWayOfOne DEF PhaseInv
<1>8. \A q \in Repos : UnderWay(q)' \subseteq UnderWay(q)
  BY <1>3, <1>6, UnderWayOfOne DEF PhaseInv
<1>9. PipeInv'
  BY <1>1, <1>8, PipeSame DEF PhaseInv
<1> QED BY <1>5, <1>7, <1>9 DEF PhaseInv

LEMMA CollectAsked ==
  ASSUME PhaseInv, NEW c \in Calls, NEW r \in Repos, AskCollect(c, r)
  PROVE  PhaseInv'
<1> DEFINE now == CanAcquire(r, FALSE) /\ op[r].queue = << >>
           y == [Fields("collect", r) EXCEPT !.at = "inside"]
<1>1. call[c].at = "none" /\ UNCHANGED <<pipe, slot, slotQueue, scip, cut>>
  BY DEF AskCollect
<1>2. CASE now
  <2>1. /\ call' = [call EXCEPT ![c] = y]
        /\ op' = [op EXCEPT ![r] = Taken(@, FALSE)]
        /\ CanAcquire(r, FALSE)
    BY <1>2 DEF AskCollect
  <2>2. y \in CallRecs /\ y.kind = "collect" /\ y.repo = r /\ y.at = "inside"
    BY DEF Fields, CallRecs, Places, Kinds
  <2> HIDE DEF y
  <2>3. (y.kind \in Phases) = FALSE
    BY <2>2 DEF Phases
  <2>4. /\ op' = [op EXCEPT ![r] = Taken(@, y.kind \in Phases)]
        /\ CanAcquire(r, y.kind \in Phases)
    BY <2>1, <2>3
  <2>5. RepoLockInv' /\ op' \in [Repos -> Ops]
    BY <1>1, <2>1, <2>2, <2>4, LockTaken DEF PhaseInv
  <2>6. Typed' /\ IndexSlotInv' /\ ScipInv'
    BY <1>1, <2>1, <2>2, <2>5, OthersStay, UnderWayOfOne DEF PhaseInv
  <2>7. \A q \in Repos : UnderWay(q)' \subseteq UnderWay(q)
    BY <2>1, <2>2, <2>3, UnderWayOfOne DEF PhaseInv
  <2>8. PipeInv'
    BY <1>1, <2>7, PipeSame DEF PhaseInv
  <2> QED BY <2>5, <2>6, <2>8 DEF PhaseInv
<1>3. CASE ~now
  <2>1. call' = [call EXCEPT ![c] = Done] /\ op' = op
    BY <1>3 DEF AskCollect
  <2> QED BY <1>1, <2>1, ScipDropped
<1> QED BY <1>2, <1>3

\* A step of the indexers: requests stay in the lock, and under way.
LEMMA IndexerStep ==
  ASSUME PhaseInv, UNCHANGED <<op, pipe, scip, cut>>, IndexSlotInv',
         call' \in [Calls -> CallRecs],
         \A d \in Calls :
           /\ call'[d].kind = call[d].kind /\ call'[d].repo = call[d].repo
           /\ call'[d].at = call[d].at
                \/ (call[d].at \in Inside /\ call'[d].at \in Inside)
  PROVE  PhaseInv'
<1>1. Typed'
  BY DEF PhaseInv, Typed
<1>2. RepoLockInv'
  BY LockStays DEF PhaseInv, Inside
<1>3. ScipInv'
  BY ScipStays DEF PhaseInv, Inside
<1>4. \A r \in Repos : UnderWay(r)' \subseteq UnderWay(r)
  BY DEF UnderWay, IsPhase, Repo, Inside
<1>5. PipeInv'
  BY <1>4, PipeSame DEF PhaseInv
<1> QED BY <1>1, <1>2, <1>3, <1>5 DEF PhaseInv

LEMMA MoveIsTyped ==
  ASSUME Typed, NEW c \in Calls, NEW p \in Places, Move(c, p)
  PROVE  /\ call' \in [Calls -> CallRecs]
         /\ \A d \in Calls : /\ call'[d].kind = call[d].kind
                             /\ call'[d].repo = call[d].repo
         /\ call'[c].at = p
         /\ \A d \in Calls \ {c} : call'[d] = call[d]
BY DEF Typed, CallRecs, Move

LEMMA AskSlotStep ==
  ASSUME PhaseInv, NEW c \in Calls, AskSlot(c)
  PROVE  PhaseInv'
<1>1. IndexSlotInv'
  BY SlotAsked DEF PhaseInv
<1>2. PICK p \in {"indexing", "slotQueued"} : Move(c, p)
  BY DEF AskSlot
<1>3. p \in Places /\ p \in Inside /\ call[c].at \in Inside
  BY DEF AskSlot, Places, Inside
<1>4. UNCHANGED <<op, pipe, scip, cut>>
  BY DEF AskSlot
<1>5. /\ call' \in [Calls -> CallRecs]
      /\ \A d \in Calls : /\ call'[d].kind = call[d].kind
                          /\ call'[d].repo = call[d].repo
      /\ call'[c].at = p
      /\ \A d \in Calls \ {c} : call'[d] = call[d]
  BY <1>2, <1>3, MoveIsTyped DEF PhaseInv
<1> QED BY <1>1, <1>3, <1>4, <1>5, IndexerStep

LEMMA FreeSlotStep ==
  ASSUME PhaseInv, NEW c \in Calls, FreeSlot(c)
  PROVE  PhaseInv'
<1>1. IndexSlotInv'
  BY SlotFreed DEF PhaseInv
<1>2. call[c].at \in Inside /\ UNCHANGED <<op, pipe, scip, cut>>
  BY DEF FreeSlot, Inside
<1>3. CASE slotQueue = << >>
  <2>1. Move(c, "indexed")
    BY <1>3 DEF FreeSlot
  <2>2. "indexed" \in Places /\ "indexed" \in Inside
    BY DEF Places, Inside
  <2>3. /\ call' \in [Calls -> CallRecs]
        /\ \A d \in Calls : /\ call'[d].kind = call[d].kind
                            /\ call'[d].repo = call[d].repo
        /\ call'[c].at = "indexed"
        /\ \A d \in Calls \ {c} : call'[d] = call[d]
    BY <2>1, <2>2, MoveIsTyped DEF PhaseInv
  <2> QED BY <1>1, <1>2, <2>2, <2>3, IndexerStep
<1>4. CASE slotQueue # << >>
  <2>1. PICK h \in Calls \ {c} :
           /\ call[h].at = "slotQueued"
           /\ call' = [call EXCEPT ![c].at = "indexed", ![h].at = "indexing"]
    BY <1>4, SlotHandedOn DEF PhaseInv
  <2>2. /\ call' \in [Calls -> CallRecs]
        /\ \A d \in Calls : /\ call'[d].kind = call[d].kind
                            /\ call'[d].repo = call[d].repo
        /\ call'[c].at = "indexed" /\ call'[h].at = "indexing"
        /\ \A d \in Calls \ {c, h} : call'[d] = call[d]
    BY <2>1 DEF PhaseInv, Typed, CallRecs, Places
  <2>3. \A d \in Calls : call'[d].at = call[d].at
                \/ (call[d].at \in Inside /\ call'[d].at \in Inside)
    BY <1>2, <2>1, <2>2 DEF Inside
  <2> QED BY <1>1, <1>2, <2>2, <2>3, IndexerStep
<1> QED BY <1>3, <1>4

LEMMA Left ==
  ASSUME PhaseInv, NEW c \in Calls, NEW ok \in BOOLEAN, Leave(c, ok)
  PROVE  PhaseInv'
<1>1. PICK r \in Repos : r = Repo(c)
  BY DEF PhaseInv, Typed, CallRecs, Repo
<1> DEFINE W == Woken(Freed(c))
<1>2. /\ call[c].at \in {"inside", "indexed"}
      /\ op' = [op EXCEPT ![r] = Drained(Freed(c))]
      /\ call' = [d \in Calls |->
                    IF d = c THEN Done
                    ELSE IF d \in Woken(Freed(c))
                    THEN [call[d] EXCEPT !.at = "inside"]
                    ELSE call[d]]
      /\ scip' = IF call[c].kind = "scip" THEN scip \ {Repo(c)} ELSE scip
      /\ IF IsPhase(c) THEN ReleasePipe(c, ok) ELSE UNCHANGED <<pipe, cut>>
      /\ slot' = slot /\ slotQueue' = slotQueue
  BY <1>1 DEF Leave
<1>3. /\ RepoLockInv' /\ Typed'
      /\ \A d \in W : d \in Calls /\ call[d].at = "queued" /\ d # c
  BY <1>1, <1>2, LockLeft DEF PhaseInv, Inside
<1> HIDE DEF W
<1>4. /\ call'[c] = Done
      /\ \A d \in W : /\ call'[d].at = "inside" /\ call'[d].kind = call[d].kind
                      /\ call'[d].repo = call[d].repo
      /\ \A d \in Calls : d # c /\ d \notin W => call'[d] = call[d]
  BY <1>2, <1>3 DEF PhaseInv, Typed, CallRecs, W
<1>5. \A d \in Calls \ {c} :
        /\ call'[d].kind = call[d].kind /\ call'[d].repo = call[d].repo
        /\ \/ call'[d].at = call[d].at
           \/ call[d].at = "queued" /\ call'[d].at = "inside"
  BY <1>3, <1>4
<1>6. IndexSlotInv'
  <2>1. \A d \in Calls :
           /\ call'[d].at = "indexing" <=> call[d].at = "indexing"
           /\ call'[d].at = "slotQueued" <=> call[d].at = "slotQueued"
    BY <1>2, <1>4, <1>5, DoneIsTyped
  <2> QED BY <1>2, <2>1, SlotStays DEF PhaseInv
<1>7. ScipInv'
  <2>1. CASE call[c].kind = "scip"
    BY <1>2, <1>4, <1>5, <2>1, DoneIsTyped, ScipEnds DEF PhaseInv
  <2>2. CASE call[c].kind # "scip"
    BY <1>2, <1>4, <1>5, <2>2, DoneIsTyped, ScipStays DEF PhaseInv
  <2> QED BY <2>1, <2>2
<1>8. \A q : UnderWay(q)' = UnderWay(q) \ {c}
  <2>1. \A q : \A d \in Calls \ {c} : d \in UnderWay(q)' <=> d \in UnderWay(q)
    BY <1>5 DEF UnderWay, IsPhase, Repo
  <2>2. \A q : c \notin UnderWay(q)'
    BY <1>4, DoneIsTyped DEF UnderWay
  <2>3. \A q : UnderWay(q)' \subseteq Calls /\ UnderWay(q) \subseteq Calls
    BY DEF UnderWay
  <2> QED BY <2>1, <2>2, <2>3
<1>9. PipeInv'
  <2>1. CASE IsPhase(c)
    <3>1. c \in UnderWay(r) /\ \A q \in Repos \ {r} : c \notin UnderWay(q)
      BY <1>1, <1>2, <2>1 DEF UnderWay
    <3>2. /\ UnderWay(r)' = UnderWay(r) \ {c}
          /\ \A q \in Repos \ {r} : UnderWay(q)' = UnderWay(q)
      BY <1>8, <3>1
    <3> QED BY <1>1, <1>2, <2>1, <3>1, <3>2, PipeReleased DEF PhaseInv
  <2>2. CASE ~IsPhase(c)
    <3>1. pipe' = pipe /\ cut' = cut
      BY <1>2, <2>2
    <3>2. \A q \in Repos : UnderWay(q)' \subseteq UnderWay(q)
      BY <1>8
    <3> QED BY <3>1, <3>2, PipeSame DEF PhaseInv
  <2> QED BY <2>1, <2>2
<1> QED BY <1>3, <1>6, <1>7, <1>9 DEF PhaseInv

LEMMA IdleStep ==
  ASSUME PhaseInv, NEW r \in Repos, Idle(r)
  PROVE  PhaseInv'
<1>1. /\ r \in DOMAIN pipe /\ pipe' = [pipe EXCEPT ![r].idle = TRUE]
      /\ UNCHANGED <<call, op, slot, slotQueue, scip, cut>>
  BY DEF Idle
<1>2. Typed' /\ RepoLockInv' /\ IndexSlotInv' /\ ScipInv'
  BY <1>1, LockStays, SlotStays, ScipStays DEF PhaseInv, Typed
<1>3. DOMAIN pipe' = DOMAIN pipe /\ \A q \in Repos : UnderWay(q)' = UnderWay(q)
  BY <1>1 DEF UnderWay, IsPhase, Repo
<1>4. ASSUME NEW q \in DOMAIN pipe
      PROVE  pipe'[q] \in Reservations /\ pipe'[q].refs = pipe[q].refs
  <2>1. pipe[q] \in Reservations /\ pipe[r] \in Reservations
    BY <1>1 DEF PhaseInv, PipeInv
  <2>2. pipe'[q] = IF q = r THEN [pipe[r] EXCEPT !.idle = TRUE] ELSE pipe[q]
    BY <1>1
  <2> DEFINE z == pipe[r]
  <2>3. z \in Reservations
    BY <2>1
  <2> HIDE DEF z
  <2>4. /\ [z EXCEPT !.idle = TRUE] \in Reservations
        /\ [z EXCEPT !.idle = TRUE].refs = z.refs
    BY <2>3 DEF Reservations
  <2> USE DEF z
  <2> QED BY <2>1, <2>2, <2>4
<1>5. cut = {} => \A q \in Repos : UnderWay(q) # {} => q \in DOMAIN pipe
  BY DEF PhaseInv, PipeInv, Referenced
<1>6. PipeInv'
  BY <1>1, <1>3, <1>4, <1>5, PipeStays DEF PhaseInv
<1> QED BY <1>2, <1>6 DEF PhaseInv

LEMMA Stutter ==
  ASSUME PhaseInv, UNCHANGED phaseVars
  PROVE  PhaseInv'
<1>1. UNCHANGED <<call, op, pipe, slot, slotQueue, scip, cut>>
  BY DEF phaseVars
<1> QED BY <1>1, IndexerStep, SlotStays DEF PhaseInv, Typed

-----------------------------------------------------------------------------
(* The theorems *)

LEMMA PhaseInit_Inv == PhaseInit => PhaseInv
<1> SUFFICES ASSUME PhaseInit PROVE PhaseInv
  OBVIOUS
<1>1. Blank \in CallRecs /\ Blank.at = "none" /\ Blank.kind = "clone"
  BY IndexPhasesAssumption
     DEF Blank, Fields, CallRecs, Places, Kinds, Phases
<1>2. /\ call = [c \in Calls |-> Blank]
      /\ op = [r \in Repos |-> [active |-> 0, purge |-> FALSE, queue |-> << >>]]
      /\ pipe = << >> /\ slot = 0 /\ slotQueue = << >>
      /\ scip = {} /\ cut = {}
  BY DEF PhaseInit
<1> HIDE DEF Blank
<1>3. \A c \in Calls : call[c] = Blank
  BY <1>2
<1>4. << >> \in Seq(Calls) /\ Distinct(<< >>) /\ \A c : ~InLine(<< >>, c)
  BY DEF Distinct, InLine
<1>5. Typed
  BY <1>1, <1>2, <1>4 DEF Typed, Ops
<1>6. \A r : Holders(r) = {} /\ PhaseHolders(r) = {} /\ UnderWay(r) = {}
  BY <1>1, <1>3 DEF Holders, PhaseHolders, UnderWay
<1>7. Indexing = {}
  BY <1>1, <1>3 DEF Indexing
<1>8. Cardinality({}) = 0 /\ IsFiniteSet({})
  BY FS_EmptySet
<1>9. \A r \in Repos : /\ op[r].queue = << >> /\ op[r].active = 0
                       /\ ~op[r].purge
  BY <1>2
<1>10. RepoLockInv
  <2>1. QueuesHoldWaiters
    BY <1>1, <1>3, <1>4, <1>9 DEF QueuesHoldWaiters
  <2>2. LocksCountHolders /\ PurgeIsAlone
    BY <1>6, <1>8, <1>9 DEF LocksCountHolders, PurgeIsAlone
  <2> QED BY <2>1, <2>2 DEF RepoLockInv
<1>11. IndexSlotInv
  BY <1>1, <1>2, <1>3, <1>4, <1>7, <1>8, IndexPhasesAssumption DEF IndexSlotInv
<1>12. ScipInv
  BY <1>1, <1>2, <1>3 DEF ScipInv, ScipRunsOnce
<1>13. PipeInv
  <2>1. DOMAIN pipe = {}
    BY <1>2
  <2> QED BY <1>2, <1>6, <1>8, <2>1, IndexPhasesAssumption
          DEF PipeInv, Referenced
<1> QED BY <1>5, <1>10, <1>11, <1>12, <1>13 DEF PhaseInv

LEMMA PhaseNext_Inv == PhaseInv /\ [PhaseNext]_phaseVars => PhaseInv'
<1> SUFFICES ASSUME PhaseInv, [PhaseNext]_phaseVars PROVE PhaseInv'
  OBVIOUS
<1>1. CASE Ask
  <2>1. PICK c \in Calls, r \in Repos :
          \/ \E k \in {"clone", "zoekt", "merge"} : AskPhase(c, k, r)
          \/ \E k \in Phases : AskRefused(c, k, r)
          \/ AskScip(c, r)
          \/ AskScipAgain(c, r)
          \/ AskPurge(c, r)
          \/ AskCollect(c, r)
    BY <1>1 DEF Ask
  <2>2. AskScipAgain(c, r) => PhaseInv'
    BY ScipDropped DEF AskScipAgain
  <2> QED BY <2>1, <2>2, PhaseAsked, RefusedByAdmission, ScipAsked,
             PurgeAsked, CollectAsked
<1>2. CASE PhaseWork
  <2>1. PICK c \in Calls :
          \/ Resolve(c)
          \/ ResolveFails(c)
          \/ ResolveThrows(c)
          \/ AskSlot(c)
          \/ FreeSlot(c)
          \/ \E ok \in BOOLEAN : Leave(c, ok)
    BY <1>2 DEF PhaseWork
  <2>2. ResolveThrows(c) => PhaseInv'
    BY ScipDropped DEF ResolveThrows
  <2> QED BY <2>1, <2>2, ScipResolved, ScipGone, AskSlotStep, FreeSlotStep,
             Left
<1>3. CASE \E r \in Repos : Idle(r)
  BY <1>3, IdleStep
<1>4. CASE UNCHANGED phaseVars
  BY <1>4, Stutter
<1> QED BY <1>1, <1>2, <1>3, <1>4 DEF PhaseNext

\* The counters and queues of the code are what they stand for, in every
\* reachable state.
THEOREM PhaseInvariance == PhaseSpec => []PhaseInv
BY PhaseInit_Inv, PhaseNext_Inv, PTL DEF PhaseSpec

\* The variables keep their types (IndexPhases: a request has one place, the
\* lines hold requests, the slots and references are natural numbers).
THEOREM PhaseTypes == PhaseSpec => []PhaseTypeOK
<1>1. PhaseInv => PhaseTypeOK
  BY DEF PhaseInv, Typed, IndexSlotInv, ScipInv, PipeInv, PhaseTypeOK, CallRecs, Ops,
         Reservations
<1> QED BY <1>1, PhaseInvariance, PTL

\* indexConcurrency.ts: a purge or a collection has the files of its
\* repository for itself.
THEOREM PurgesAreAlone == PhaseSpec => []PurgeIsAlone
<1>1. PhaseInv => PurgeIsAlone
  BY DEF PhaseInv, RepoLockInv
<1> QED BY <1>1, PhaseInvariance, PTL

\* indexerProcessSemaphore.ts: a slot that is handed on is counted once.
THEOREM SlotsHold == PhaseSpec => []SlotsAreBounded
<1>1. PhaseInv => SlotsAreBounded
  <2>1. Indexing = {c \in Calls : call[c].at = "indexing"}
    BY DEF Indexing
  <2> QED BY <2>1 DEF PhaseInv, IndexSlotInv, SlotsAreBounded
<1> QED BY <1>1, PhaseInvariance, PTL

\* indexPipelineAdmission.ts: a reservation that idles out never has a phase
\* under way, so the capacity bounds the work.
THEOREM CapacityHolds == PhaseSpec => []CapHolds
<1>1. PhaseInv => CapHolds
  BY PipeBounds DEF PhaseInv
<1> QED BY <1>1, PhaseInvariance, PTL

\* routes/indexPhases.ts: the key of a SCIP phase is taken before its row is read.
THEOREM ScipPhasesAreSingle == PhaseSpec => []ScipRunsOnce
<1>1. PhaseInv => ScipRunsOnce
  BY DEF PhaseInv, ScipInv
<1> QED BY <1>1, PhaseInvariance, PTL

\* A purge that waits stands in the line of its repository, so no phase that
\* asks may have the lock.
LEMMA WaitingPurgeBars ==
  ASSUME PhaseInv, NEW p \in Calls, NEW r, r = Repo(p),
         call[p].kind = "purge", call[p].at = "queued"
  PROVE  ~CanAcquire(r, TRUE)
<1>1. r \in Repos
  BY DEF PhaseInv, Typed, CallRecs, Repo
<1>2. InLine(op[r].queue, p) /\ ~IsPhase(p)
  BY <1>1 DEF PhaseInv, RepoLockInv, QueuesHoldWaiters, IsPhase, Phases
<1>3. Waiting(r, FALSE)
  BY <1>2 DEF InLine, Waiting, IsPhase
<1> QED BY <1>3 DEF CanAcquire

\* The only way into a lock for a request that was not in line.
LEMMA WayIn ==
  ASSUME PhaseInv, [PhaseNext]_phaseVars, NEW c \in Calls,
         call[c].at \in {"none", "resolving"},
         call'[c].at = "inside", call'[c].kind \in Phases
  PROVE  CanAcquire(call'[c].repo, TRUE)
<1>1. ASSUME NEW d \in Calls, NEW r, NEW phase, NEW x \in CallRecs,
             Enter(d, r, phase, x), x.repo = r, phase = (x.kind \in Phases)
      PROVE  CanAcquire(call'[c].repo, TRUE)
  <2>1. PICK y \in CallRecs :
           /\ y.at = "inside" => CanAcquire(r, phase)
           /\ y.kind = x.kind /\ y.repo = x.repo
           /\ call' = [call EXCEPT ![d] = y]
    BY <1>1, Entered
  <2>2. d = c /\ call'[c] = y
    BY <2>1 DEF PhaseInv, Typed
  <2>3. phase = TRUE /\ CanAcquire(r, phase)
    BY <1>1, <2>1, <2>2
  <2> QED BY <1>1, <2>1, <2>2, <2>3
<1>2. ASSUME NEW d \in Calls, call' = [call EXCEPT ![d] = Done]
      PROVE  FALSE
  BY <1>2, DoneIsTyped DEF PhaseInv, Typed
<1>3. ASSUME NEW d \in Calls, call[d].at \in Inside,
             call'[c] = call[c] \/ c = d \/ call[c].at \in {"queued", "slotQueued"}
      PROVE  FALSE
  BY <1>3 DEF Inside
<1>4. CASE Ask
  <2>1. PICK d \in Calls, r \in Repos :
          \/ \E k \in {"clone", "zoekt", "merge"} : AskPhase(d, k, r)
          \/ \E k \in Phases : AskRefused(d, k, r)
          \/ AskScip(d, r)
          \/ AskScipAgain(d, r)
          \/ AskPurge(d, r)
          \/ AskCollect(d, r)
    BY <1>4 DEF Ask
  <2>2. ASSUME NEW k \in {"clone", "zoekt", "merge"}, AskPhase(d, k, r)
        PROVE  CanAcquire(call'[c].repo, TRUE)
    <3>1. Enter(d, r, TRUE, Fields(k, r))
      BY <2>2 DEF AskPhase
    <3>2. /\ Fields(k, r) \in CallRecs /\ Fields(k, r).repo = r
          /\ TRUE = (Fields(k, r).kind \in Phases)
      BY FieldsAreTyped DEF Kinds, Phases
    <3> QED BY <1>1, <3>1, <3>2
  <2>3. ASSUME NEW k \in Phases, AskRefused(d, k, r)
        PROVE  FALSE
    BY <1>2, <2>3 DEF AskRefused
  <2>4. ASSUME AskScip(d, r)
        PROVE  FALSE
    BY <2>4 DEF AskScip, Fields, PhaseInv, Typed
  <2>5. ASSUME AskScipAgain(d, r)
        PROVE  FALSE
    BY <1>2, <2>5 DEF AskScipAgain
  <2>6. ASSUME AskPurge(d, r)
        PROVE  CanAcquire(call'[c].repo, TRUE)
    <3>1. Enter(d, r, FALSE, Fields("purge", r))
      BY <2>6 DEF AskPurge
    <3>2. /\ Fields("purge", r) \in CallRecs /\ Fields("purge", r).repo = r
          /\ FALSE = (Fields("purge", r).kind \in Phases)
      BY FieldsAreTyped DEF Kinds, Phases
    <3> QED BY <1>1, <3>1, <3>2
  <2>7. ASSUME AskCollect(d, r)
        PROVE  FALSE
    <3> DEFINE y == [Fields("collect", r) EXCEPT !.at = "inside"]
    <3>1. call' = [call EXCEPT ![d] = y] \/ call' = [call EXCEPT ![d] = Done]
      BY <2>7 DEF AskCollect
    <3>2. y.kind = "collect"
      BY DEF Fields
    <3> HIDE DEF y
    <3> QED BY <1>2, <3>1, <3>2 DEF PhaseInv, Typed, Phases
  <2> QED BY <2>1, <2>2, <2>3, <2>4, <2>5, <2>6, <2>7
<1>5. CASE PhaseWork
  <2>1. PICK d \in Calls :
          \/ Resolve(d)
          \/ ResolveFails(d)
          \/ ResolveThrows(d)
          \/ AskSlot(d)
          \/ FreeSlot(d)
          \/ \E ok \in BOOLEAN : Leave(d, ok)
    BY <1>5 DEF PhaseWork
  <2>2. ASSUME Resolve(d)
        PROVE  CanAcquire(call'[c].repo, TRUE)
    <3>1. PICK x \in CallRecs : x = call[d]
      BY DEF PhaseInv, Typed
    <3>2. PICK r : r = x.repo
      OBVIOUS
    <3>3. Enter(d, r, TRUE, x) /\ call[d].at = "resolving"
      BY <2>2, <3>1, <3>2 DEF Resolve, Repo
    <3>4. TRUE = (x.kind \in Phases)
      BY <3>1, <3>3 DEF PhaseInv, ScipInv, Phases
    <3> QED BY <1>1, <3>2, <3>3, <3>4
  <2>3. ResolveFails(d) \/ ResolveThrows(d) => FALSE
    BY <1>2 DEF ResolveFails, ResolveThrows
  <2>4. ASSUME AskSlot(d)
        PROVE  FALSE
    <3>1. call[d].at \in Inside
      BY <2>4 DEF AskSlot, Inside
    <3>2. PICK p : Move(d, p)
      BY <2>4 DEF AskSlot
    <3>3. c = d \/ call'[c] = call[c]
      BY <3>2 DEF Move, PhaseInv, Typed
    <3> QED BY <1>3, <3>1, <3>3
  <2>5. ASSUME FreeSlot(d)
        PROVE  FALSE
    <3>1. call[d].at \in Inside
      BY <2>5 DEF FreeSlot, Inside
    <3>2. CASE slotQueue = << >>
      <4>1. Move(d, "indexed")
        BY <2>5, <3>2 DEF FreeSlot
      <4>2. c = d \/ call'[c] = call[c]
        BY <4>1 DEF Move, PhaseInv, Typed
      <4> QED BY <1>3, <3>1, <4>2
    <3>3. CASE slotQueue # << >>
      <4>1. PICK h \in Calls \ {d} :
              /\ call[h].at = "slotQueued"
              /\ call' = [call EXCEPT ![d].at = "indexed", ![h].at = "indexing"]
        BY <2>5, <3>3, SlotHandedOn DEF PhaseInv
      <4>2. c = d \/ call[c].at = "slotQueued" \/ call'[c] = call[c]
        BY <4>1 DEF PhaseInv, Typed
      <4> QED BY <1>3, <3>1, <4>2
    <3> QED BY <3>2, <3>3
  <2>6. ASSUME NEW ok \in BOOLEAN, Leave(d, ok)
        PROVE  FALSE
    <3>1. PICK r \in Repos : r = Repo(d)
      BY DEF PhaseInv, Typed, CallRecs, Repo
    <3>2. /\ call[d].at \in Inside
          /\ op' = [op EXCEPT ![r] = Drained(Freed(d))]
          /\ call' = [e \in Calls |->
                        IF e = d THEN Done
                        ELSE IF e \in Woken(Freed(d))
                        THEN [call[e] EXCEPT !.at = "inside"]
                        ELSE call[e]]
      BY <2>6, <3>1 DEF Leave, Inside
    <3>3. \A e \in Woken(Freed(d)) : call[e].at = "queued"
      BY <3>1, <3>2, LockLeft DEF PhaseInv
    <3>4. c = d \/ call[c].at = "queued" \/ call'[c] = call[c]
      BY <3>2, <3>3
    <3> QED BY <1>3, <3>2, <3>4
  <2> QED BY <2>1, <2>2, <2>3, <2>4, <2>5, <2>6
<1>6. CASE (\E r \in Repos : Idle(r)) \/ UNCHANGED phaseVars
  BY <1>6 DEF Idle, phaseVars
<1> QED BY <1>4, <1>5, <1>6 DEF PhaseNext

\* indexConcurrency.ts: new phases cannot hold off the purge of a deleted
\* repository, however many of them ask.
THEOREM PurgesAreNotOvertaken == PhaseSpec => PurgeIsNotOvertaken
<1> DEFINE Step ==
      \A p \in Calls : ( /\ call[p].kind = "purge" /\ call[p].at = "queued"
                         /\ call'[p].at = "queued" ) =>
       \A c \in Calls : ( /\ call'[c].kind \in Phases
                          /\ call'[c].repo = Repo(p)
                          /\ call[c].at \in {"none", "resolving"} )
                        => call'[c].at # "inside"
<1>1. PhaseInv /\ [PhaseNext]_phaseVars => Step
  BY WayIn, WaitingPurgeBars
<1>2. PhaseInv /\ [PhaseNext]_phaseVars => [Step]_phaseVars
  BY <1>1
<1>3. PhaseSpec => [][Step]_phaseVars
  <2> HIDE DEF Step
  <2> QED BY <1>2, PhaseInvariance, PTL DEF PhaseSpec
<1> QED BY <1>3 DEF PurgeIsNotOvertaken

-----------------------------------------------------------------------------
(* Pins of shards *)

Pins == [generation : Nat, timer : Nat]

Operations == [kind : {"pin", "refresh", "unload", "purge"}, by : Pins]

-----------------------------------------------------------------------------
(* The unloads of a line l, beside a pin p and armed timers a  *)

\* None is of a later generation than the pin, and one of the generation of
\* the pin is of its timer.
NotAhead(l, p) ==
  \A i \in DOMAIN l : l[i].kind = "unload" =>
    /\ l[i].by.generation <= p.generation
    /\ l[i].by.generation = p.generation => l[i].by.timer = p.timer

\* They wait in the order of their generations.
InOrder(l) ==
  \A i, j \in DOMAIN l :
    i < j /\ l[i].kind = "unload" /\ l[j].kind = "unload"
      => l[i].by.generation < l[j].by.generation

\* An armed timer is that of the pin, which has not been asked to go.
ArmedWaits(l, p, a) ==
  \A t \in a :
    /\ t = p /\ p # NoPin
    /\ \A i \in DOMAIN l : l[i].kind = "unload"
         => l[i].by.generation < p.generation

\* Without a pin nothing waits to unload it.
NothingLeft(l, p) == p = NoPin => \A i \in DOMAIN l : l[i].kind # "unload"

UnloadsOK(l, p, a) ==
  NotAhead(l, p) /\ InOrder(l) /\ ArmedWaits(l, p, a) /\ NothingLeft(l, p)

PinShape == pin.generation = 0 => pin = NoPin

\* The links are those of the operation at the head of the line.
LinkedRuns == linked => Runs("pin") \/ (Runs("refresh") /\ pin # NoPin)

PinInv ==
  /\ PinTypeOK /\ PinShape /\ LinkedRuns
  /\ ~restarted => UnloadsOK(line, pin, armed)

-----------------------------------------------------------------------------
(* Sequences *)

LEMMA AppendAt ==
  ASSUME NEW S, NEW s \in Seq(S), NEW e \in S
  PROVE  /\ Append(s, e) \in Seq(S)
         /\ DOMAIN Append(s, e) = 1..(Len(s) + 1) /\ Len(s) \in Nat
         /\ DOMAIN s = 1..Len(s)
         /\ \A i \in 1..Len(s) : Append(s, e)[i] = s[i]
         /\ Append(s, e)[Len(s) + 1] = e
         /\ Append(s, e) # << >>
         /\ s # << >> => Head(Append(s, e)) = Head(s)
OBVIOUS

LEMMA TailAt ==
  ASSUME NEW S, NEW s \in Seq(S), s # << >>
  PROVE  /\ Tail(s) \in Seq(S) /\ Head(s) \in S /\ Head(s) = s[1]
         /\ DOMAIN Tail(s) = 1..(Len(s) - 1) /\ Len(s) \in Nat \ {0}
         /\ DOMAIN s = 1..Len(s)
         /\ \A i \in 1..(Len(s) - 1) : Tail(s)[i] = s[i + 1]
OBVIOUS

\* An operation that is no unload joins the line.
LEMMA JoinUnloads ==
  ASSUME NEW l \in Seq(Operations), NEW p \in Pins, NEW a,
         NEW o \in Operations, o.kind # "unload", UnloadsOK(l, p, a)
  PROVE  UnloadsOK(Append(l, o), p, a)
<1> DEFINE m == Append(l, o)
<1>1. /\ DOMAIN m = 1..(Len(l) + 1) /\ Len(l) \in Nat /\ DOMAIN l = 1..Len(l)
      /\ \A i \in 1..Len(l) : m[i] = l[i]
      /\ m[Len(l) + 1] = o
  BY AppendAt
<1> HIDE DEF m
<1>2. \A i \in DOMAIN m : m[i].kind = "unload" => i \in DOMAIN l /\ m[i] = l[i]
  BY <1>1
<1>3. UnloadsOK(m, p, a)
  BY <1>2 DEF UnloadsOK, NotAhead, InOrder, ArmedWaits, NothingLeft
<1> QED BY <1>3 DEF m

\* The operation at the head of the line is over.
LEMMA LeaveUnloads ==
  ASSUME NEW l \in Seq(Operations), NEW p \in Pins, NEW a,
         l # << >>, UnloadsOK(l, p, a)
  PROVE  UnloadsOK(Tail(l), p, a)
<1> DEFINE m == Tail(l)
<1>1. /\ DOMAIN m = 1..(Len(l) - 1) /\ Len(l) \in Nat \ {0}
      /\ DOMAIN l = 1..Len(l)
      /\ \A i \in 1..(Len(l) - 1) : m[i] = l[i + 1]
  BY TailAt
<1> HIDE DEF m
<1>2. \A i \in DOMAIN m : i \in Nat /\ i + 1 \in DOMAIN l /\ m[i] = l[i + 1]
  BY <1>1
<1>3. NotAhead(m, p) /\ ArmedWaits(m, p, a) /\ NothingLeft(m, p)
  BY <1>2 DEF UnloadsOK, NotAhead, ArmedWaits, NothingLeft
<1>4. InOrder(m)
  BY <1>2 DEF UnloadsOK, InOrder
<1> QED BY <1>3, <1>4 DEF UnloadsOK, m

-----------------------------------------------------------------------------
(* Steps *)

LEMMA PinInit_Inv == PinInit => PinInv
<1> SUFFICES ASSUME PinInit PROVE PinInv
  OBVIOUS
<1>1. PinTypeOK
  <2>1. pin \in [generation : Nat, timer : Nat]
    BY DEF PinInit, NoPin
  <2>2. line \in Seq([kind : {"pin", "refresh", "unload", "purge"},
                     by : [generation : Nat, timer : Nat]])
    BY DEF PinInit
  <2> QED BY <2>1, <2>2 DEF PinInit, PinTypeOK
<1>2. DOMAIN line = {}
  BY DEF PinInit
<1>3. PinShape /\ LinkedRuns /\ UnloadsOK(line, pin, armed)
  BY <1>2 DEF PinInit, PinShape, LinkedRuns, UnloadsOK, NotAhead, InOrder,
              ArmedWaits, NothingLeft
<1> QED BY <1>1, <1>3 DEF PinInv

LEMMA TypedPin ==
  ASSUME PinTypeOK
  PROVE  /\ line \in Seq(Operations) /\ pin \in Pins /\ armed \subseteq Pins
         /\ NoPin \in Pins
BY DEF PinTypeOK, Operations, Pins, NoPin

\* A search, a refresh or a purge joins the line.
LEMMA JoinInv ==
  ASSUME PinInv, Search \/ RefreshPinnedRepo \/ Purge
  PROVE  PinInv'
<1>1. /\ line \in Seq(Operations) /\ pin \in Pins /\ armed \subseteq Pins
      /\ NoPin \in Pins
  BY TypedPin DEF PinInv
<1>2. PICK kind \in {"pin", "refresh", "purge"} :
        line' = Append(line, Operation(kind, NoPin))
  BY DEF Search, RefreshPinnedRepo, Purge
<1>3. /\ Operation(kind, NoPin) \in Operations
      /\ Operation(kind, NoPin).kind # "unload"
  BY <1>1 DEF Operation, Operations
<1>4. /\ UNCHANGED <<pin, armed, restarted, cold, hot, linked, timers>>
      /\ calls' \in Nat /\ built' \in Nat
  BY DEF Search, RefreshPinnedRepo, Purge, PinInv, PinTypeOK
<1>5. line' \in Seq(Operations)
  BY <1>1, <1>2, <1>3, AppendAt
<1>6. PinTypeOK' /\ PinShape'
  BY <1>4, <1>5 DEF PinInv, PinTypeOK, PinShape, Operations, Pins
<1>7. ~restarted => UnloadsOK(line', pin, armed)
  BY <1>1, <1>2, <1>3, JoinUnloads DEF PinInv
<1>8. LinkedRuns'
  BY <1>1, <1>2, <1>3, <1>4, AppendAt DEF PinInv, LinkedRuns, Runs
<1> QED BY <1>4, <1>6, <1>7, <1>8 DEF PinInv

\* A timer fires: it is that of the pin, its unload is the last of the line
\* and of the highest generation, and no timer is left.
LEMMA FireInv ==
  ASSUME PinInv, Fire
  PROVE  PinInv'
<1>1. line \in Seq(Operations) /\ pin \in Pins /\ armed \subseteq Pins
  BY TypedPin DEF PinInv
<1>2. PICK p \in armed :
        armed' = armed \ {p} /\ line' = Append(line, Operation("unload", p))
  BY DEF Fire
<1> DEFINE o == Operation("unload", p)
           n == Len(line) + 1
<1>3. o \in Operations /\ o.kind = "unload" /\ o.by = p
  BY <1>1 DEF Operation, Operations
<1>4. /\ line' = Append(line, o)
      /\ UNCHANGED <<cold, hot, pin, linked, built, timers, calls, restarted>>
  BY <1>2 DEF Fire
<1>5. /\ line' \in Seq(Operations)
      /\ DOMAIN line' = 1..n /\ Len(line) \in Nat /\ DOMAIN line = 1..Len(line)
      /\ \A i \in 1..Len(line) : line'[i] = line[i]
      /\ line'[n] = o
  BY <1>1, <1>3, <1>4, AppendAt
<1> HIDE DEF o
<1>6. PinTypeOK' /\ PinShape'
  BY <1>1, <1>2, <1>4, <1>5 DEF PinInv, PinTypeOK, PinShape, Operations, Pins
<1>7. ASSUME ~restarted
      PROVE  UnloadsOK(line', pin, armed')
  <2>1. /\ p = pin /\ pin # NoPin
        /\ \A i \in DOMAIN line : line[i].kind = "unload"
             => line[i].by.generation < pin.generation
        /\ armed' = {}
    BY <1>2, <1>7 DEF PinInv, UnloadsOK, ArmedWaits
  <2>2. \A i \in DOMAIN line' :
          \/ i \in DOMAIN line /\ line'[i] = line[i]
          \/ i = n /\ line'[i] = o
    BY <1>5
  <2>3. \A i, j \in DOMAIN line' :
          i < j => i \in DOMAIN line /\ line'[i] = line[i]
    BY <1>5
  <2>4. NotAhead(line', pin)
    BY <1>1, <1>3, <1>7, <2>1, <2>2 DEF PinInv, UnloadsOK, NotAhead, Pins
  <2>5. InOrder(line')
    BY <1>3, <1>7, <2>1, <2>2, <2>3 DEF PinInv, UnloadsOK, InOrder
  <2> QED BY <2>1, <2>4, <2>5 DEF UnloadsOK, ArmedWaits, NothingLeft
<1>8. LinkedRuns'
  BY <1>1, <1>3, <1>4, AppendAt DEF PinInv, LinkedRuns, Runs
<1> QED BY <1>4, <1>6, <1>7, <1>8 DEF PinInv

\* A pin or a refresh arms a new timer: it begins a generation that no unload
\* in the line has.
LEMMA ArmInv ==
  ASSUME PinInv, Arm
  PROVE  PinInv'
<1>1. line \in Seq(Operations) /\ pin \in Pins /\ armed \subseteq Pins
  BY TypedPin DEF PinInv
<1>2. /\ line' = Tail(line)
      /\ pin' = [generation |-> pin.generation + 1, timer |-> timers + 1]
      /\ armed' = (armed \ {pin}) \cup {pin'} /\ timers' = timers + 1
      /\ UNCHANGED <<cold, hot, calls, restarted>>
      /\ line # << >>
  BY DEF Arm, PinInv, LinkedRuns, Runs
<1>3. /\ pin' \in Pins /\ pin'.generation = pin.generation + 1
      /\ pin'.generation # 0 /\ pin' # NoPin /\ armed' \subseteq Pins
  BY <1>1, <1>2 DEF Pins, PinInv, PinTypeOK, NoPin
<1>4. line' \in Seq(Operations)
  BY <1>1, <1>2, TailAt
<1>5. built' \in Nat /\ linked' = FALSE
  BY DEF Arm, PinInv, PinTypeOK
<1>6. PinTypeOK' /\ PinShape'
  BY <1>2, <1>3, <1>4, <1>5 DEF PinInv, PinTypeOK, PinShape, Operations, Pins
<1>7. ASSUME ~restarted
      PROVE  UnloadsOK(line', pin', armed')
  <2>1. UnloadsOK(Tail(line), pin, armed)
    BY <1>1, <1>2, <1>7, LeaveUnloads DEF PinInv
  <2>2. \A i \in DOMAIN line' : line'[i] \in Operations
    BY <1>4
  <2>3. \A i \in DOMAIN line' : line'[i].kind = "unload"
          => line'[i].by.generation < pin'.generation
    <3> SUFFICES ASSUME NEW i \in DOMAIN line', line'[i].kind = "unload"
                 PROVE  line'[i].by.generation < pin'.generation
      OBVIOUS
    <3>1. line'[i].by.generation <= pin.generation
      BY <1>2, <2>1 DEF UnloadsOK, NotAhead
    <3>2. line'[i].by.generation \in Nat
      BY <2>2 DEF Operations, Pins
    <3>3. pin.generation \in Nat
      BY <1>1 DEF Pins
    <3> QED BY <1>3, <3>1, <3>2, <3>3
  <2>4. \A i \in DOMAIN line' : line'[i].by.generation \in Nat
    BY <2>2 DEF Operations, Pins
  <2>5. pin'.generation \in Nat
    BY <1>3 DEF Pins
  <2>6. NotAhead(line', pin')
    BY <2>3, <2>4, <2>5 DEF NotAhead
  <2>7. armed' = {pin'}
    BY <1>2, <2>1 DEF UnloadsOK, ArmedWaits
  <2> QED BY <1>2, <1>3, <2>1, <2>3, <2>6, <2>7
          DEF UnloadsOK, InOrder, ArmedWaits, NothingLeft
<1> QED BY <1>2, <1>5, <1>6, <1>7 DEF PinInv, LinkedRuns

\* A callback runs. If it unloads, it is of the generation of the pin: then
\* it is the last unload of the line, and no timer is armed.
LEMMA UnloadInv ==
  ASSUME PinInv, Unload
  PROVE  PinInv'
<1> DEFINE goes == Unloads(Head(line).by)
<1>1. /\ line \in Seq(Operations) /\ pin \in Pins /\ armed \subseteq Pins
      /\ NoPin \in Pins
  BY TypedPin DEF PinInv
<1>2. /\ line # << >> /\ Head(line).kind = "unload" /\ line' = Tail(line)
      /\ pin' = (IF goes THEN NoPin ELSE pin)
      /\ hot' = (IF goes THEN 0 ELSE hot)
      /\ UNCHANGED <<cold, armed, linked, built, timers, calls, restarted>>
  BY DEF Unload, Runs
<1>3. /\ line' \in Seq(Operations) /\ Head(line) = line[1]
      /\ DOMAIN line' = 1..(Len(line) - 1) /\ Len(line) \in Nat \ {0}
      /\ DOMAIN line = 1..Len(line)
      /\ \A i \in 1..(Len(line) - 1) : line'[i] = line[i + 1]
  BY <1>1, <1>2, TailAt
<1>4. pin' \in Pins /\ hot' \in Nat
  BY <1>1, <1>2 DEF PinInv, PinTypeOK
<1>5. PinTypeOK' /\ PinShape'
  BY <1>2, <1>3, <1>4 DEF PinInv, PinTypeOK, PinShape, Operations, Pins, NoPin
<1>6. ASSUME ~restarted, ~goes
      PROVE  UnloadsOK(line', pin', armed')
  BY <1>1, <1>2, <1>6, LeaveUnloads DEF PinInv
<1>7. ASSUME ~restarted, goes
      PROVE  UnloadsOK(line', pin', armed')
  <2>1. UnloadsOK(line, pin, armed) /\ UnloadsOK(line', pin, armed)
    BY <1>1, <1>2, <1>7, LeaveUnloads DEF PinInv
  <2>2. /\ 1 \in DOMAIN line /\ line[1].kind = "unload"
        /\ line[1].by.generation = pin.generation
    BY <1>2, <1>3, <1>7 DEF Unloads
  <2>3. armed = {}
    BY <1>1, <2>1, <2>2 DEF UnloadsOK, ArmedWaits, Pins
  <2>4. \A i \in DOMAIN line' : line'[i].kind # "unload"
    <3> SUFFICES ASSUME NEW i \in DOMAIN line', line'[i].kind = "unload"
                 PROVE  FALSE
      OBVIOUS
    <3>1. /\ i + 1 \in DOMAIN line /\ 1 < i + 1 /\ line'[i] = line[i + 1]
      BY <1>3
    <3>2. pin.generation < line[i + 1].by.generation
      BY <2>1, <2>2, <3>1 DEF UnloadsOK, InOrder
    <3>3. line[i + 1].by.generation <= pin.generation
      BY <2>1, <3>1 DEF UnloadsOK, NotAhead
    <3>4. line[i + 1] \in Operations
      BY <1>1, <3>1
    <3>5. line[i + 1].by.generation \in Nat /\ pin.generation \in Nat
      BY <1>1, <3>4 DEF Operations, Pins
    <3> QED BY <3>2, <3>3, <3>5
  <2> QED BY <1>2, <2>3, <2>4
          DEF UnloadsOK, NotAhead, InOrder, ArmedWaits, NothingLeft
<1>8. LinkedRuns'
  BY <1>2 DEF PinInv, LinkedRuns, Runs
<1> QED BY <1>2, <1>5, <1>6, <1>7, <1>8 DEF PinInv

\* A purge ends the pin. An unload that waits is remembered.
LEMMA PurgeInv ==
  ASSUME PinInv, PurgeShards
  PROVE  PinInv'
<1>1. /\ line \in Seq(Operations) /\ pin \in Pins /\ armed \subseteq Pins
      /\ NoPin \in Pins
  BY TypedPin DEF PinInv
<1>2. /\ line # << >> /\ line' = Tail(line) /\ pin' = NoPin
      /\ armed' = armed \ {pin}
      /\ hot' = 0 /\ cold' = 0
      /\ UNCHANGED <<linked, built, timers, calls>>
  BY DEF PurgeShards, Runs
<1>3. /\ line' \in Seq(Operations)
      /\ DOMAIN line' = 1..(Len(line) - 1) /\ Len(line) \in Nat \ {0}
      /\ DOMAIN line = 1..Len(line)
      /\ \A i \in 1..(Len(line) - 1) : line'[i] = line[i + 1]
  BY <1>1, <1>2, TailAt
<1>4. restarted' \in BOOLEAN
  BY DEF PurgeShards
<1>5. PinTypeOK' /\ PinShape'
  BY <1>1, <1>2, <1>3, <1>4
     DEF PinInv, PinTypeOK, PinShape, Operations, Pins
<1>6. ASSUME ~restarted'
      PROVE  UnloadsOK(line', pin', armed')
  <2>1. ~Waits("unload") /\ ~restarted
    BY <1>6 DEF PurgeShards
  <2>2. \A i \in DOMAIN line' : line'[i].kind # "unload"
    BY <1>3, <2>1 DEF Waits
  <2>3. armed' = {}
    BY <1>2, <2>1 DEF PinInv, UnloadsOK, ArmedWaits
  <2> QED BY <1>2, <2>2, <2>3
          DEF UnloadsOK, NotAhead, InOrder, ArmedWaits, NothingLeft
<1>7. LinkedRuns'
  BY DEF PurgeShards, PinInv, LinkedRuns, Runs
<1> QED BY <1>5, <1>6, <1>7 DEF PinInv

\* The steps that touch neither the pin nor what waits to unload it.
LEMMA OtherInv ==
  ASSUME PinInv, Build \/ Link \/ SkipRefresh
  PROVE  PinInv'
<1>1. line \in Seq(Operations) /\ pin \in Pins /\ armed \subseteq Pins
  BY TypedPin DEF PinInv
<1>2. UNCHANGED <<pin, armed, timers, calls, restarted>>
  BY DEF Build, Link, SkipRefresh
<1>3. line' = line \/ (line # << >> /\ line' = Tail(line))
  BY DEF Build, Link, SkipRefresh, Runs
<1>4. line' \in Seq(Operations)
  BY <1>1, <1>3, TailAt
<1>5. /\ cold' \in Nat /\ hot' \in Nat /\ linked' \in BOOLEAN
      /\ built' \in Nat
  <2>1. CASE Build
    BY <2>1 DEF Build, PinInv, PinTypeOK
  <2>2. CASE Link
    BY <2>2 DEF Link, PinInv, PinTypeOK
  <2>3. CASE SkipRefresh
    BY <2>3 DEF SkipRefresh, PinInv, PinTypeOK
  <2> QED BY <2>1, <2>2, <2>3
<1>6. PinTypeOK' /\ PinShape'
  BY <1>2, <1>4, <1>5 DEF PinInv, PinTypeOK, PinShape, Operations, Pins
<1>7. ~restarted => UnloadsOK(line', pin, armed)
  BY <1>1, <1>3, LeaveUnloads DEF PinInv
<1>8. LinkedRuns'
  BY DEF Build, Link, SkipRefresh, PinInv, LinkedRuns, Runs
<1> QED BY <1>2, <1>6, <1>7, <1>8 DEF PinInv

LEMMA PinNext_Inv == PinInv /\ [PinNext]_pinVars => PinInv'
<1> SUFFICES ASSUME PinInv, [PinNext]_pinVars PROVE PinInv'
  OBVIOUS
<1>1. CASE UNCHANGED pinVars
  BY <1>1 DEF pinVars, PinInv, PinTypeOK, PinShape, LinkedRuns, Runs
<1>2. CASE PinNext
  BY <1>2, JoinInv, FireInv, ArmInv, UnloadInv, PurgeInv, OtherInv
     DEF PinNext, PinWork
<1> QED BY <1>1, <1>2

\* The only callback that unloads is of the generation of the pin.
LEMMA UnloadsItsPin ==
  ASSUME PinInv, [PinNext]_pinVars,
         Runs("unload"), pin # NoPin, pin' = NoPin, ~restarted
  PROVE  pin.timer = Head(line).by.timer
<1>1. line \in Seq(Operations) /\ line # << >>
  BY TypedPin DEF PinInv, Runs
<1>2. /\ 1 \in DOMAIN line /\ line[1] = Head(line)
      /\ line[1].kind = "unload"
  BY <1>1, TailAt DEF Runs
<1>3. CASE Unload
  <2>1. line[1].by.generation = pin.generation
    BY <1>2, <1>3 DEF Unload, Unloads
  <2> QED BY <1>2, <2>1 DEF PinInv, UnloadsOK, NotAhead
<1>4. CASE Arm
  BY <1>4 DEF Arm, NoPin, PinInv, PinTypeOK
<1>5. CASE PurgeShards
  BY <1>5 DEF PurgeShards, Runs
<1>6. CASE UNCHANGED pin
  BY <1>6
<1>7. \/ Unload \/ Arm \/ PurgeShards \/ UNCHANGED pin
  BY DEF PinNext, PinWork, pinVars, Search, Build, Purge, RefreshPinnedRepo,
         Fire, Link, SkipRefresh
<1> QED BY <1>3, <1>4, <1>5, <1>6, <1>7

-----------------------------------------------------------------------------
(* What is served *)

\* A refresh is to come: shards are written whose builder has yet to ask for
\* it, or it waits, or it runs and has made no links.
Coming ==
  \/ built # 0
  \/ \E i \in DOMAIN line : line[i].kind = "refresh" /\ (i = 1 => ~linked)

\* Without a pin nothing is loaded. With one, or with the links of the
\* operation that runs, the newest shards are, unless a refresh is to come.
LinksAreFresh ==
  /\ pin = NoPin /\ ~linked => hot = 0
  /\ (pin # NoPin \/ linked) /\ ~Coming => hot = cold

ServeInv == PinInv /\ LinksAreFresh

\* A refresh that is to come still is when others join the line.
LEMMA StillComing ==
  ASSUME PinInv, NEW o \in Operations, line' = Append(line, o),
         linked' = linked, built' = built, Coming
  PROVE  Coming'
<1>1. line \in Seq(Operations)
  BY TypedPin DEF PinInv
<1>2. /\ DOMAIN line' = 1..(Len(line) + 1) /\ Len(line) \in Nat
      /\ DOMAIN line = 1..Len(line)
      /\ \A i \in 1..Len(line) : line'[i] = line[i]
  BY <1>1, AppendAt
<1>3. \A i \in DOMAIN line : i \in DOMAIN line' /\ line'[i] = line[i]
  BY <1>2
<1> QED BY <1>3 DEF Coming

\* And when the operation at the head leaves it, that one apart.
LEMMA MovesUp ==
  ASSUME PinInv, line # << >>, line' = Tail(line), ~linked', built' = built,
         Coming, Runs("refresh") => linked
  PROVE  Coming'
<1>1. line \in Seq(Operations)
  BY TypedPin DEF PinInv
<1>2. /\ Head(line) = line[1]
      /\ DOMAIN line' = 1..(Len(line) - 1) /\ Len(line) \in Nat \ {0}
      /\ DOMAIN line = 1..Len(line)
      /\ \A i \in 1..(Len(line) - 1) : line'[i] = line[i + 1]
  BY <1>1, TailAt
<1>3. CASE built # 0
  BY <1>3 DEF Coming
<1>4. CASE \E i \in DOMAIN line :
             line[i].kind = "refresh" /\ (i = 1 => ~linked)
  <2>1. PICK i \in DOMAIN line :
          line[i].kind = "refresh" /\ (i = 1 => ~linked)
    BY <1>4
  <2>2. i # 1
    BY <1>2, <2>1 DEF Runs
  <2>3. i - 1 \in DOMAIN line' /\ line'[i - 1] = line[i]
    BY <1>2, <2>2
  <2> QED BY <2>1, <2>3 DEF Coming
<1> QED BY <1>3, <1>4 DEF Coming

LEMMA FreshNext ==
  ASSUME ServeInv, [PinNext]_pinVars
  PROVE  LinksAreFresh'
<1> USE DEF ServeInv, PinInv
<1>1. CASE Build
  <2>1. built' = built + 1 /\ UNCHANGED <<hot, pin, linked>>
    BY <1>1 DEF Build
  <2>2. built' # 0
    BY <2>1 DEF PinTypeOK
  <2> QED BY <2>1, <2>2 DEF LinksAreFresh, Coming
<1>2. CASE RefreshPinnedRepo
  <2> DEFINE o == Operation("refresh", NoPin)
  <2>1. o \in Operations /\ o.kind = "refresh"
    BY TypedPin DEF Operation, Operations
  <2>2. line' = Append(line, o) /\ UNCHANGED <<cold, hot, pin, linked>>
    BY <1>2 DEF RefreshPinnedRepo
  <2>3. line \in Seq(Operations)
    BY TypedPin
  <2>4. /\ DOMAIN line' = 1..(Len(line) + 1) /\ Len(line) \in Nat
        /\ line'[Len(line) + 1] = o
    BY <2>1, <2>2, <2>3, AppendAt
  <2>5. Len(line) + 1 \in DOMAIN line' /\ line'[Len(line) + 1].kind = "refresh"
    BY <2>1, <2>4
  <2>6. Len(line) + 1 = 1 => ~linked
    BY <2>3, <2>4 DEF LinkedRuns, Runs
  <2>7. Coming'
    BY <2>2, <2>5, <2>6 DEF Coming
  <2> QED BY <2>2, <2>7 DEF LinksAreFresh
<1>3. CASE Search \/ Fire \/ Purge
  <2>1. PICK kind \in {"pin", "unload", "purge"}, p \in armed \cup {NoPin} :
          line' = Append(line, Operation(kind, p))
    BY <1>3 DEF Search, Fire, Purge
  <2>2. Operation(kind, p) \in Operations
    BY TypedPin DEF Operation, Operations
  <2>3. UNCHANGED <<cold, hot, pin, linked, built>>
    BY <1>3 DEF Search, Fire, Purge
  <2>4. Coming => Coming'
    BY <2>1, <2>2, <2>3, StillComing
  <2> QED BY <2>3, <2>4 DEF LinksAreFresh
<1>4. CASE Link
  <2>1. /\ ~linked /\ linked' = TRUE /\ UNCHANGED <<cold, pin, line, built>>
        /\ \/ Runs("pin") /\ hot' = IF hot = 0 THEN cold ELSE hot
           \/ Runs("refresh") /\ pin # NoPin /\ hot' = cold
    BY <1>4 DEF Link
  <2>2. CASE Runs("refresh") /\ hot' = cold
    BY <2>1, <2>2 DEF LinksAreFresh
  <2>3. CASE Runs("pin") /\ hot' = IF hot = 0 THEN cold ELSE hot
    <3>1. line \in Seq(Operations) /\ line # << >>
      BY <2>3, TypedPin DEF Runs
    <3>2. line[1].kind # "refresh"
      BY <2>3, <3>1, TailAt DEF Runs
    <3>3. Coming => Coming'
      BY <2>1, <3>2 DEF Coming
    <3> QED BY <2>1, <2>3, <3>3 DEF LinksAreFresh
  <2> QED BY <2>1, <2>2, <2>3
<1>5. CASE Arm
  <2>1. /\ linked /\ linked' = FALSE /\ UNCHANGED <<cold, hot, built>>
        /\ pin' # NoPin
        /\ line # << >> /\ line' = Tail(line)
    BY <1>5 DEF Arm, NoPin, PinTypeOK, LinkedRuns, Runs
  <2>2. Coming => Coming'
    BY <2>1, MovesUp
  <2> QED BY <2>1, <2>2 DEF LinksAreFresh
<1>6. CASE SkipRefresh \/ PurgeShards
  <2>1. ~linked' /\ pin' = NoPin /\ (pin = NoPin => hot' \in {0, hot})
        /\ (pin # NoPin => hot' = 0) /\ ~linked
    BY <1>6 DEF SkipRefresh, PurgeShards, LinkedRuns, Runs
  <2> QED BY <2>1 DEF LinksAreFresh
<1>7. CASE Unload
  <2>1. /\ Runs("unload") /\ ~linked /\ UNCHANGED <<cold, linked, built>>
        /\ line # << >> /\ line' = Tail(line)
    BY <1>7 DEF Unload, LinkedRuns, Runs
  <2>2. Coming => Coming'
    BY <2>1, MovesUp DEF Runs
  <2>3. (pin' = NoPin /\ hot' = 0) \/ UNCHANGED <<pin, hot>>
    BY <1>7 DEF Unload
  <2> QED BY <2>1, <2>2, <2>3 DEF LinksAreFresh
<1>8. CASE UNCHANGED pinVars
  BY <1>8 DEF pinVars, LinksAreFresh, Coming
<1> QED BY <1>1, <1>2, <1>3, <1>4, <1>5, <1>6, <1>7, <1>8
        DEF PinNext, PinWork

-----------------------------------------------------------------------------
(* Theorems *)

\* The invariant, whatever builds, searches, purges and timers do
\* (pinManager.ts, pinRepo, refreshPinnedRepo and armIdleTimer).
THEOREM PinInvariance == PinSpec => []PinInv
BY PinInit_Inv, PinNext_Inv, PTL DEF PinSpec

\* Every variable keeps its type.
THEOREM PinTypes == PinSpec => []PinTypeOK
<1>1. PinInv => PinTypeOK
  BY DEF PinInv
<1> QED BY <1>1, PinInvariance, PTL

\* The unload of an idle timer never removes the pin of a later search or
\* refresh, unless a purge began the generations anew while it waited.
THEOREM StaleUnloadsSparePins == PinSpec => StaleUnloadSparesPin
<1>1. PinInv /\ [PinNext]_pinVars =>
        [ Runs("unload") /\ pin # NoPin /\ pin' = NoPin /\ ~restarted
          => pin.timer = Head(line).by.timer ]_pinVars
  BY UnloadsItsPin
<1> QED BY <1>1, PinInvariance, PTL DEF PinSpec, StaleUnloadSparesPin

\* The invariant of what is served, with the one of the pins.
THEOREM ServeInvariance == PinSpec => []ServeInv
<1>1. PinInit => ServeInv
  <2>1. PinInit => LinksAreFresh
    BY DEF PinInit, LinksAreFresh
  <2> QED BY <2>1, PinInit_Inv DEF ServeInv
<1>2. ServeInv /\ [PinNext]_pinVars => ServeInv'
  BY FreshNext, PinNext_Inv DEF ServeInv
<1> QED BY <1>1, <1>2, PTL DEF PinSpec

\* At rest a pinned checkout is served from its newest shards, and nothing is
\* loaded without a pin.
THEOREM PinsServeFresh == PinSpec => []ServedIsFresh
<1>1. ServeInv => ServedIsFresh
  <2>1. line = << >> /\ built = 0 => ~Coming
    BY DEF Coming
  <2> QED BY <2>1
          DEF ServeInv, PinInv, LinkedRuns, Runs, LinksAreFresh, ServedIsFresh
<1> QED BY <1>1, ServeInvariance, PTL
=============================================================================
