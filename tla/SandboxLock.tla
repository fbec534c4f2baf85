----------------------------- MODULE SandboxLock -----------------------------
(***************************************************************************)
(* The lock of one conversation sandbox: a row with an owner and a lease   *)
(* in Postgres, taken, renewed and deleted by requests of several backend  *)
(* processes. The lease is kept by the clock of the database; a holder     *)
(* counts its own deadline from before its query, and aborts its work when *)
(* that passes. Queries and replies take time, timers fire late, and a     *)
(* process may stop.                                                       *)
(*                                                                         *)
(* Time is what is left of a lease or of a deadline, in ticks: all clocks  *)
(* run at one rate. A holder has a fresh owner id, so an attempt is its    *)
(* owner. A lock with a scope key is two such locks, taken in turn.        *)
(***************************************************************************)
EXTENDS Naturals

CONSTANTS
  Attempts,  \* calls of withLock, each made once
  Lease,     \* LEASE_MS in ticks
  Nobody     \* no row

ASSUME LockAssumption == Nobody \notin Attempts /\ Lease \in Nat \ {0}

VARIABLES
  row,       \* the row of the key: owner and what is left of its lease
  att,       \* the attempts
  intruded   \* history: attempts during whose hold another one was granted

lockVars == <<row, att, intruded>>

-----------------------------------------------------------------------------
(* Values *)

\* "asking": the insert is on its way; "granted", "refused": its reply is.
\* "ended": fn has ended and the row is to be deleted.
Stages == {"idle", "asking", "granted", "refused", "held", "ended", "done",
           "crashed"}

Times == 0..Lease

\* since: ticks since the query was sent; left: ticks until the deadline;
\* timer: the timer of the deadline is armed; lost: the lock and the caller's
\* controller are aborted; ok: the result of fn counted.
AttemptStates == [at : Stages, since : Times, left : Times, lost : BOOLEAN,
                  timer : BOOLEAN, renew : {"none", "sent", "renewed", "gone"},
                  ok : BOOLEAN]

NoRow == [owner |-> Nobody, left |-> 0]

Fresh == [at |-> "idle", since |-> 0, left |-> 0, lost |-> FALSE,
          timer |-> FALSE, renew |-> "none", ok |-> FALSE]

LockInit ==
  /\ row = NoRow
  /\ att = [a \in Attempts |-> Fresh]
  /\ intruded = {}

At(a, stage) == att[a].at = stage

Less(t) == IF t = 0 THEN 0 ELSE t - 1

More(t) == IF t = Lease THEN Lease ELSE t + 1

-----------------------------------------------------------------------------
(* Taking the lock *)

\* Mutant: the deadline counts from the reply.
Deadline_Reply(a) == Lease

\* The deadline counts from the sending of the query that set the lease.
Deadline(a) == Lease - att[a].since

SendInsert(a) ==
  /\ At(a, "idle")
  /\ att' = [att EXCEPT ![a].at = "asking"]
  /\ UNCHANGED <<row, intruded>>

\* Mutant: an expired row is not taken over.
Takeable_Row == row.owner = Nobody

\* The row is free, or its lease has run out.
Takeable == row.owner = Nobody \/ row.left = 0

Insert(a) ==
  /\ At(a, "asking")
  /\ IF Takeable
     THEN /\ row' = [owner |-> a, left |-> Lease]
          /\ att' = [att EXCEPT ![a].at = "granted"]
     ELSE /\ att' = [att EXCEPT ![a] = [Fresh EXCEPT !.at = "refused"]]
          /\ UNCHANGED row
  /\ UNCHANGED intruded

\* The reply comes, and fn starts; a reply later than the lease aborts it.
Granted(a) ==
  /\ At(a, "granted")
  /\ att' = [att EXCEPT ![a].at = "held", ![a].left = Deadline(a),
                        ![a].since = 0,
                        ![a].lost = (Deadline(a) = 0),
                        ![a].timer = (Deadline(a) > 0)]
  /\ intruded' = IF Deadline(a) = 0 THEN intruded
                 ELSE intruded \cup {o \in Attempts \ {a} : At(o, "held")}
  /\ UNCHANGED row

\* It waits for the release or the next poll, and asks again.
Retry(a) ==
  /\ At(a, "refused")
  /\ att' = [att EXCEPT ![a].at = "idle"]
  /\ UNCHANGED <<row, intruded>>

\* SandboxLockBusy: it may wait no longer.
Busy(a) ==
  /\ At(a, "refused")
  /\ att' = [att EXCEPT ![a].at = "done"]
  /\ UNCHANGED <<row, intruded>>

-----------------------------------------------------------------------------
(* Keeping the lock *)

SendRenew(a) ==
  /\ At(a, "held") /\ ~att[a].lost /\ att[a].renew = "none"
  /\ att' = [att EXCEPT ![a].renew = "sent"]
  /\ UNCHANGED <<row, intruded>>

Renewable(a) == row.owner = a /\ row.left > 0

Renew(a) ==
  /\ att[a].renew = "sent"
  /\ row' = IF Renewable(a) THEN [row EXCEPT !.left = Lease] ELSE row
  /\ att' = [att EXCEPT ![a].renew = IF Renewable(a) THEN "renewed" ELSE "gone"]
  /\ UNCHANGED intruded

\* The reply of a renewal moves the deadline and arms its timer, unless the
\* lock was lost before; also when fn ended while the query was on its way.
Renewed(a) ==
  /\ att[a].renew = "renewed"
  /\ att' = [att EXCEPT ![a].renew = "none", ![a].since = 0,
       ![a].left = IF att[a].lost THEN @ ELSE Deadline(a),
       ![a].lost = (@ \/ Deadline(a) = 0),
       ![a].timer = ~att[a].lost /\ Deadline(a) > 0]
  /\ UNCHANGED <<row, intruded>>

\* The row is someone else's, or the query fails: the signal aborts fn, when
\* it has not ended.
RenewFails(a) ==
  /\ att[a].renew \in {"sent", "gone"}
  /\ att' = [att EXCEPT ![a].renew = "none", ![a].since = 0,
                        ![a].lost = (@ \/ At(a, "held"))]
  /\ UNCHANGED <<row, intruded>>

\* The timer of the deadline, at the deadline or later.
LoseByDeadline(a) ==
  /\ att[a].timer /\ att[a].left = 0
  /\ att' = [att EXCEPT ![a].lost = TRUE, ![a].timer = FALSE]
  /\ UNCHANGED <<row, intruded>>

-----------------------------------------------------------------------------
(* Giving it back *)

\* Mutant: only the timer tells that the deadline passed.
Counts_Timer(a) == ~att[a].lost

\* fn returns; its result counts when the lock is not lost and the deadline
\* has not passed, with or without the timer.
Counts(a) == ~att[a].lost /\ att[a].left > 0

EndFn(a) ==
  /\ At(a, "held")
  /\ att' = [att EXCEPT ![a].at = "ended", ![a].ok = Counts(a),
                        ![a].lost = ~Counts(a), ![a].timer = FALSE]
  /\ UNCHANGED <<row, intruded>>

\* fn throws, for a reason of its own or because the signal aborted it.
FnThrows(a) ==
  /\ At(a, "held")
  /\ att' = [att EXCEPT ![a].at = "ended", ![a].timer = FALSE]
  /\ UNCHANGED <<row, intruded>>

\* Its own row only: an expired one may be another's by now.
Deletable(a) == row.owner = a

Release(a) ==
  /\ At(a, "ended") /\ att[a].renew = "none"
  /\ row' = IF Deletable(a) THEN NoRow ELSE row
  /\ att' = [att EXCEPT ![a].at = "done"]
  /\ UNCHANGED intruded

-----------------------------------------------------------------------------

\* The process of a stops, and a query on its way is lost. One that lands after
\* the stop is one that lands before a stop a little later.
Crash(a) ==
  /\ att[a].at \notin {"idle", "done", "crashed"}
  /\ att' = [att EXCEPT ![a] = [Fresh EXCEPT !.at = "crashed"]]
  /\ UNCHANGED <<row, intruded>>

\* A query of a is on its way to the database or back.
Sent(a) == att[a].at \in {"asking", "granted"} \/ att[a].renew # "none"

Tick ==
  /\ row' = [row EXCEPT !.left = Less(@)]
  /\ att' = [a \in Attempts |-> [att[a] EXCEPT !.left = Less(@),
                !.since = IF Sent(a) THEN More(@) ELSE @]]
  /\ UNCHANGED intruded

LockStep(a) ==
  \/ SendInsert(a) \/ Insert(a) \/ Granted(a) \/ Retry(a) \/ Busy(a)
  \/ Renew(a) \/ Renewed(a) \/ RenewFails(a) \/ LoseByDeadline(a)
  \/ EndFn(a) \/ FnThrows(a) \/ Release(a)

LockNext == Tick \/ \E a \in Attempts : LockStep(a) \/ SendRenew(a) \/ Crash(a)

LockSpec == LockInit /\ [][LockNext]_lockVars

\* Queries are answered, fn ends, and time goes on.
LockFairness ==
  /\ WF_lockVars(Tick)
  /\ \A a \in Attempts : /\ WF_lockVars(LockStep(a))
                         /\ WF_lockVars(EndFn(a) \/ FnThrows(a))

-----------------------------------------------------------------------------
(* Properties *)

LockTypeOK ==
  /\ row \in [owner : Attempts \cup {Nobody}, left : Times]
  /\ att \in [Attempts -> AttemptStates]
  /\ intruded \subseteq Attempts

\* a may go on: its deadline has not passed.
Owns(a) == At(a, "held") /\ ~att[a].lost /\ att[a].left > 0

\* No two requests own the sandbox at once, however late queries, replies and
\* renewals are and whoever stopped.
OneOwner == \A a, b \in Attempts : Owns(a) /\ Owns(b) => a = b

\* A result that counts was made alone: no other request was let in while it
\* was made.
ResultIsExclusive == \A a \in Attempts : att[a].ok => a \notin intruded

\* Every request gets its turn or learns that the lock is busy, also behind a
\* holder that stopped with its row in place: none asks for ever.
AttemptEnds ==
  <>[](\A a \in Attempts : att[a].at \in {"idle", "done", "crashed"})

\* The caller of a request whose result counted is not aborted afterwards:
\* "`abortController` aborts `fn`" (sandbox-lock-store.ts:76).
SuccessIsNotAborted ==
  [][\A a \in Attempts : att[a].ok /\ ~att[a].lost => ~att'[a].lost]_lockVars
=============================================================================
