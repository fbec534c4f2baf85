--------------------------- MODULE SandboxProofs ----------------------------
(***************************************************************************)
(* Theorems about SandboxLock, for any number of attempts and any length   *)
(* of the lease, and about SandboxSlots, for any number of sandboxes, any  *)
(* limits and any number of crashes and failures.                          *)
(*                                                                         *)
(* The lock: whoever believes in a deadline has a row whose lease is not   *)
(* shorter than what is left of the belief. So belief and row move         *)
(* together under the clock, and a row with a lease that still runs is not *)
(* taken over.                                                             *)
(*                                                                         *)
(* The slots: what is bounded is the number of live rows, not only of      *)
(* sandboxes that run. A row becomes live in one step only, which reserves *)
(* it under the lock of the slots, and nothing else adds a live row        *)
(* between the count and the reservation.                                  *)
(***************************************************************************)
EXTENDS SandboxLock, SandboxSlots, FiniteSetTheorems, TLAPS

-----------------------------------------------------------------------------
(* The lock: the inductive invariant *)

\* A renewal is on its way only for a holder, or for one that waits for it.
RenewOK ==
  \A a \in Attempts : att[a].renew # "none" => att[a].at \in {"held", "ended"}

\* The row is the one that a's query set, and its lease runs at least as long
\* as the deadline that a will count from the sending of the query.
Backed(a) == row.owner = a /\ row.left + att[a].since >= Lease

\* A grant or a renewal whose reply is on its way, and is not too late.
RepliesOK ==
  \A a \in Attempts :
    (att[a].at = "granted" \/ att[a].renew = "renewed") /\ att[a].since < Lease
      => Backed(a)

\* Who may go on has the row, for at least as long.
OwnersOK ==
  \A a \in Attempts : Owns(a) => row.owner = a /\ row.left >= att[a].left

\* A result that counted belongs to an attempt that is over.
ResultsOK ==
  \A a \in Attempts : att[a].ok => att[a].at \in {"ended", "done"}

\* Who was intruded on does not have the row and never asks for it again.
IntrudedOK ==
  \A a \in intruded :
    /\ row.owner # a
    /\ att[a].at \in {"held", "ended", "done", "crashed"}
    /\ ~att[a].ok

LockInv ==
  /\ LockTypeOK
  /\ RenewOK
  /\ RepliesOK
  /\ OwnersOK
  /\ ResultsOK
  /\ IntrudedOK

-----------------------------------------------------------------------------
(* Types *)

\* A record with these fields is an attempt.
LEMMA FreshRecord == \A s \in Stages : [Fresh EXCEPT !.at = s] \in AttemptStates
<1>1. Fresh \in AttemptStates
  BY LockAssumption DEF Fresh, AttemptStates, Stages, Times
<1> QED BY <1>1 DEF AttemptStates

LEMMA Members == 0 \in Times /\ {"held", "ended"} \subseteq Stages
BY LockAssumption DEF Times, Stages

LEMMA HeldRecord ==
  ASSUME NEW r \in AttemptStates, NEW d \in Times, NEW l \in BOOLEAN,
         NEW m \in BOOLEAN
  PROVE  [r EXCEPT !.at = "held", !.left = d, !.since = 0, !.lost = l,
                   !.timer = m] \in AttemptStates
BY Members DEF AttemptStates

LEMMA RenewedRecord ==
  ASSUME NEW r \in AttemptStates, NEW d \in Times, NEW l \in BOOLEAN,
         NEW m \in BOOLEAN
  PROVE  [r EXCEPT !.renew = "none", !.since = 0, !.left = d, !.lost = l,
                   !.timer = m] \in AttemptStates
BY Members DEF AttemptStates

LEMMA LostRecord ==
  ASSUME NEW r \in AttemptStates, NEW l \in BOOLEAN
  PROVE  [r EXCEPT !.renew = "none", !.since = 0, !.lost = l] \in AttemptStates
BY Members DEF AttemptStates

LEMMA EndedRecord ==
  ASSUME NEW r \in AttemptStates, NEW k \in BOOLEAN, NEW l \in BOOLEAN
  PROVE  [r EXCEPT !.at = "ended", !.ok = k, !.lost = l, !.timer = FALSE]
           \in AttemptStates
BY Members DEF AttemptStates

LEMMA ThrownRecord ==
  ASSUME NEW r \in AttemptStates
  PROVE  [r EXCEPT !.at = "ended", !.timer = FALSE] \in AttemptStates
BY Members DEF AttemptStates

\* One attempt takes a new record.
LEMMA AttTypes ==
  ASSUME att \in [Attempts -> AttemptStates], NEW c \in Attempts,
         NEW r \in AttemptStates, att' = [att EXCEPT ![c] = r]
  PROVE  att' \in [Attempts -> AttemptStates]
OBVIOUS

LEMMA GrantedTypes ==
  ASSUME LockTypeOK, NEW c \in Attempts, Granted(c)
  PROVE  att' \in [Attempts -> AttemptStates]
<1>1. Deadline(c) \in Times
  BY LockAssumption DEF LockTypeOK, Deadline, AttemptStates, Times
<1>2. att[c] \in AttemptStates
  BY DEF LockTypeOK
<1>3. (Deadline(c) = 0) \in BOOLEAN /\ (Deadline(c) > 0) \in BOOLEAN
  BY <1>1 DEF Times
<1>4. 0 \in Times /\ "held" \in Stages
  BY LockAssumption DEF Times, Stages
<1>5. [att[c] EXCEPT !.at = "held", !.left = Deadline(c), !.since = 0,
                     !.lost = (Deadline(c) = 0), !.timer = (Deadline(c) > 0)]
        \in AttemptStates
  BY <1>1, <1>2, <1>3, <1>4, HeldRecord
<1> QED BY <1>5, AttTypes DEF Granted, LockTypeOK

LEMMA RenewedTypes ==
  ASSUME LockTypeOK, NEW c \in Attempts, Renewed(c)
  PROVE  att' \in [Attempts -> AttemptStates]
<1>1. Deadline(c) \in Times /\ att[c].left \in Times
  BY LockAssumption DEF LockTypeOK, Deadline, AttemptStates, Times
<1>2. att[c] \in AttemptStates
  BY DEF LockTypeOK
<1>3. /\ (att[c].lost \/ Deadline(c) = 0) \in BOOLEAN
      /\ (~att[c].lost /\ Deadline(c) > 0) \in BOOLEAN
  BY <1>1 DEF Times
<1>4. (IF att[c].lost THEN att[c].left ELSE Deadline(c)) \in Times
  BY <1>1
<1>5. [att[c] EXCEPT !.renew = "none", !.since = 0,
         !.left = IF att[c].lost THEN att[c].left ELSE Deadline(c),
         !.lost = (att[c].lost \/ Deadline(c) = 0),
         !.timer = (~att[c].lost /\ Deadline(c) > 0)] \in AttemptStates
  BY <1>2, <1>3, <1>4, RenewedRecord
<1> QED BY <1>5, AttTypes DEF Renewed, LockTypeOK

LEMMA RenewFailsTypes ==
  ASSUME LockTypeOK, NEW c \in Attempts, RenewFails(c)
  PROVE  att' \in [Attempts -> AttemptStates]
<1>1. (att[c].lost \/ att[c].at = "held") \in BOOLEAN
  OBVIOUS
<1> QED BY <1>1, LostRecord, AttTypes DEF RenewFails, LockTypeOK, At

LEMMA EndFnTypes ==
  ASSUME LockTypeOK, NEW c \in Attempts, EndFn(c)
  PROVE  att' \in [Attempts -> AttemptStates]
<1>1. Counts(c) \in BOOLEAN /\ (~Counts(c)) \in BOOLEAN
  BY DEF Counts
<1> QED BY <1>1, EndedRecord, AttTypes DEF EndFn, LockTypeOK

LEMMA FnThrowsTypes ==
  ASSUME LockTypeOK, NEW c \in Attempts, FnThrows(c)
  PROVE  att' \in [Attempts -> AttemptStates]
BY ThrownRecord, AttTypes DEF FnThrows, LockTypeOK

-----------------------------------------------------------------------------
(* Steps of an attempt *)

\* SendInsert: the query is on its way: nothing is claimed yet.
LEMMA SendInsertInv ==
  ASSUME LockInv, NEW c \in Attempts, SendInsert(c)
  PROVE  LockInv'
<1> USE LockAssumption DEF LockInv, SendInsert, At
<1>1. LockTypeOK'
  BY DEF LockTypeOK, AttemptStates, Stages, Times
<1>2. RenewOK' /\ ResultsOK'
  BY DEF LockTypeOK, AttemptStates, RenewOK, ResultsOK
<1>3. RepliesOK'
  BY DEF LockTypeOK, AttemptStates, Times, RenewOK, RepliesOK, OwnersOK, Owns,
         Backed
<1>4. OwnersOK' /\ IntrudedOK'
  BY DEF LockTypeOK, AttemptStates, Times, RenewOK, RepliesOK, OwnersOK,
         IntrudedOK, ResultsOK, Owns, Backed
<1> QED BY <1>1, <1>2, <1>3, <1>4

\* Insert: a row whose lease runs is not taken, so nobody with a deadline
\* loses it.
LEMMA InsertInv ==
  ASSUME LockInv, NEW c \in Attempts, Insert(c)
  PROVE  LockInv'
<1> USE LockAssumption DEF LockInv, Insert, At, Takeable
<1>1. LockTypeOK'
  BY FreshRecord DEF LockTypeOK, AttemptStates, Stages, Times
<1>2. RenewOK' /\ ResultsOK'
  BY DEF LockTypeOK, AttemptStates, RenewOK, ResultsOK, Fresh
<1>3. RepliesOK'
  BY DEF LockTypeOK, AttemptStates, Times, RenewOK, RepliesOK, OwnersOK, Owns,
         Backed, Fresh
<1>4. OwnersOK' /\ IntrudedOK'
  BY DEF LockTypeOK, AttemptStates, Times, RenewOK, RepliesOK, OwnersOK,
         IntrudedOK, ResultsOK, Owns, Backed, Fresh
<1> QED BY <1>1, <1>2, <1>3, <1>4

\* Granted: the deadline was counted from before the row was set; whoever is
\* inside has lost the row.
LEMMA GrantedInv ==
  ASSUME LockInv, NEW c \in Attempts, Granted(c)
  PROVE  LockInv'
<1> USE LockAssumption DEF LockInv, Granted, At, Deadline
<1>1. LockTypeOK'
  BY GrantedTypes DEF LockTypeOK
<1>2. RenewOK' /\ ResultsOK'
  BY DEF LockTypeOK, AttemptStates, RenewOK, ResultsOK
<1>3. RepliesOK'
  BY DEF LockTypeOK, AttemptStates, Times, RenewOK, RepliesOK, OwnersOK, Owns,
         Backed
<1>4. OwnersOK' /\ IntrudedOK'
  BY DEF LockTypeOK, AttemptStates, Times, RenewOK, RepliesOK, OwnersOK,
         IntrudedOK, ResultsOK, Owns, Backed
<1> QED BY <1>1, <1>2, <1>3, <1>4

\* Retry: nothing is held.
LEMMA RetryInv ==
  ASSUME LockInv, NEW c \in Attempts, Retry(c)
  PROVE  LockInv'
<1> USE LockAssumption DEF LockInv, Retry, At
<1>1. LockTypeOK'
  BY DEF LockTypeOK, AttemptStates, Stages, Times
<1>2. RenewOK' /\ ResultsOK'
  BY DEF LockTypeOK, AttemptStates, RenewOK, ResultsOK
<1>3. RepliesOK'
  BY DEF LockTypeOK, AttemptStates, Times, RenewOK, RepliesOK, OwnersOK, Owns,
         Backed
<1>4. OwnersOK' /\ IntrudedOK'
  BY DEF LockTypeOK, AttemptStates, Times, RenewOK, RepliesOK, OwnersOK,
         IntrudedOK, ResultsOK, Owns, Backed
<1> QED BY <1>1, <1>2, <1>3, <1>4

\* Busy: nothing is held.
LEMMA BusyInv ==
  ASSUME LockInv, NEW c \in Attempts, Busy(c)
  PROVE  LockInv'
<1> USE LockAssumption DEF LockInv, Busy, At
<1>1. LockTypeOK'
  BY DEF LockTypeOK, AttemptStates, Stages, Times
<1>2. RenewOK' /\ ResultsOK'
  BY DEF LockTypeOK, AttemptStates, RenewOK, ResultsOK
<1>3. RepliesOK'
  BY DEF LockTypeOK, AttemptStates, Times, RenewOK, RepliesOK, OwnersOK, Owns,
         Backed
<1>4. OwnersOK' /\ IntrudedOK'
  BY DEF LockTypeOK, AttemptStates, Times, RenewOK, RepliesOK, OwnersOK,
         IntrudedOK, ResultsOK, Owns, Backed
<1> QED BY <1>1, <1>2, <1>3, <1>4

\* SendRenew: the renewal of a holder.
LEMMA SendRenewInv ==
  ASSUME LockInv, NEW c \in Attempts, SendRenew(c)
  PROVE  LockInv'
<1> USE LockAssumption DEF LockInv, SendRenew, At
<1>1. LockTypeOK'
  BY DEF LockTypeOK, AttemptStates, Stages, Times
<1>2. RenewOK' /\ ResultsOK'
  BY DEF LockTypeOK, AttemptStates, RenewOK, ResultsOK
<1>3. RepliesOK'
  BY DEF LockTypeOK, AttemptStates, Times, RenewOK, RepliesOK, OwnersOK, Owns,
         Backed
<1>4. OwnersOK' /\ IntrudedOK'
  BY DEF LockTypeOK, AttemptStates, Times, RenewOK, RepliesOK, OwnersOK,
         IntrudedOK, ResultsOK, Owns, Backed
<1> QED BY <1>1, <1>2, <1>3, <1>4

\* Renew: only the owner of a lease that runs renews it.
LEMMA RenewInv ==
  ASSUME LockInv, NEW c \in Attempts, Renew(c)
  PROVE  LockInv'
<1> USE LockAssumption DEF LockInv, Renew, At, Renewable
<1>1. LockTypeOK'
  <2>1. CASE Renewable(c)
    BY <2>1 DEF LockTypeOK, AttemptStates, Stages, Times
  <2>2. CASE ~Renewable(c)
    BY <2>2 DEF LockTypeOK, AttemptStates, Stages, Times
  <2> QED BY <2>1, <2>2
<1>2. RenewOK' /\ ResultsOK'
  BY DEF LockTypeOK, AttemptStates, RenewOK, ResultsOK
<1>3. RepliesOK'
  BY DEF LockTypeOK, AttemptStates, Times, RenewOK, RepliesOK, OwnersOK, Owns,
         Backed
<1>4. OwnersOK' /\ IntrudedOK'
  BY DEF LockTypeOK, AttemptStates, Times, RenewOK, RepliesOK, OwnersOK,
         IntrudedOK, ResultsOK, Owns, Backed
<1> QED BY <1>1, <1>2, <1>3, <1>4

\* Renewed: the new deadline is backed by the row that the renewal set.
LEMMA RenewedInv ==
  ASSUME LockInv, NEW c \in Attempts, Renewed(c)
  PROVE  LockInv'
<1> USE LockAssumption DEF LockInv, Renewed, At, Deadline
<1>1. LockTypeOK'
  BY RenewedTypes DEF LockTypeOK
<1>2. RenewOK' /\ ResultsOK'
  BY DEF LockTypeOK, AttemptStates, RenewOK, ResultsOK
<1>3. RepliesOK'
  BY DEF LockTypeOK, AttemptStates, Times, RenewOK, RepliesOK, OwnersOK, Owns,
         Backed
<1>4. OwnersOK' /\ IntrudedOK'
  BY DEF LockTypeOK, AttemptStates, Times, RenewOK, RepliesOK, OwnersOK,
         IntrudedOK, ResultsOK, Owns, Backed
<1> QED BY <1>1, <1>2, <1>3, <1>4

\* RenewFails: a belief is given up.
LEMMA RenewFailsInv ==
  ASSUME LockInv, NEW c \in Attempts, RenewFails(c)
  PROVE  LockInv'
<1> USE LockAssumption DEF LockInv, RenewFails, At
<1>1. LockTypeOK'
  BY RenewFailsTypes DEF LockTypeOK
<1>2. RenewOK' /\ ResultsOK'
  BY DEF LockTypeOK, AttemptStates, RenewOK, ResultsOK
<1>3. RepliesOK'
  BY DEF LockTypeOK, AttemptStates, Times, RenewOK, RepliesOK, OwnersOK, Owns,
         Backed
<1>4. OwnersOK' /\ IntrudedOK'
  BY DEF LockTypeOK, AttemptStates, Times, RenewOK, RepliesOK, OwnersOK,
         IntrudedOK, ResultsOK, Owns, Backed
<1> QED BY <1>1, <1>2, <1>3, <1>4

\* LoseByDeadline: a belief is given up.
LEMMA LoseByDeadlineInv ==
  ASSUME LockInv, NEW c \in Attempts, LoseByDeadline(c)
  PROVE  LockInv'
<1> USE LockAssumption DEF LockInv, LoseByDeadline, At
<1>1. LockTypeOK'
  BY DEF LockTypeOK, AttemptStates, Stages, Times
<1>2. RenewOK' /\ ResultsOK'
  BY DEF LockTypeOK, AttemptStates, RenewOK, ResultsOK
<1>3. RepliesOK'
  BY DEF LockTypeOK, AttemptStates, Times, RenewOK, RepliesOK, OwnersOK, Owns,
         Backed
<1>4. OwnersOK' /\ IntrudedOK'
  BY DEF LockTypeOK, AttemptStates, Times, RenewOK, RepliesOK, OwnersOK,
         IntrudedOK, ResultsOK, Owns, Backed
<1> QED BY <1>1, <1>2, <1>3, <1>4

\* EndFn: a result counts only with a deadline, so its maker has the row.
LEMMA EndFnInv ==
  ASSUME LockInv, NEW c \in Attempts, EndFn(c)
  PROVE  LockInv'
<1> USE LockAssumption DEF LockInv, EndFn, At, Counts
<1>1. LockTypeOK'
  BY EndFnTypes DEF LockTypeOK
<1>2. RenewOK' /\ ResultsOK'
  BY DEF LockTypeOK, AttemptStates, RenewOK, ResultsOK
<1>3. RepliesOK'
  BY DEF LockTypeOK, AttemptStates, Times, RenewOK, RepliesOK, OwnersOK, Owns,
         Backed
<1>4. OwnersOK' /\ IntrudedOK'
  BY DEF LockTypeOK, AttemptStates, Times, RenewOK, RepliesOK, OwnersOK,
         IntrudedOK, ResultsOK, Owns, Backed
<1> QED BY <1>1, <1>2, <1>3, <1>4

\* FnThrows: a belief is given up.
LEMMA FnThrowsInv ==
  ASSUME LockInv, NEW c \in Attempts, FnThrows(c)
  PROVE  LockInv'
<1> USE LockAssumption DEF LockInv, FnThrows, At
<1>1. LockTypeOK'
  BY FnThrowsTypes DEF LockTypeOK
<1>2. RenewOK' /\ ResultsOK'
  BY DEF LockTypeOK, AttemptStates, RenewOK, ResultsOK
<1>3. RepliesOK'
  BY DEF LockTypeOK, AttemptStates, Times, RenewOK, RepliesOK, OwnersOK, Owns,
         Backed
<1>4. OwnersOK' /\ IntrudedOK'
  BY DEF LockTypeOK, AttemptStates, Times, RenewOK, RepliesOK, OwnersOK,
         IntrudedOK, ResultsOK, Owns, Backed
<1> QED BY <1>1, <1>2, <1>3, <1>4

\* Release: who releases has ended, and deletes no row of another one.
LEMMA ReleaseInv ==
  ASSUME LockInv, NEW c \in Attempts, Release(c)
  PROVE  LockInv'
<1> USE LockAssumption DEF LockInv, Release, At, Deletable, NoRow
<1>1. LockTypeOK'
  BY DEF LockTypeOK, AttemptStates, Stages, Times
<1>2. RenewOK' /\ ResultsOK'
  BY DEF LockTypeOK, AttemptStates, RenewOK, ResultsOK
<1>3. RepliesOK'
  BY DEF LockTypeOK, AttemptStates, Times, RenewOK, RepliesOK, OwnersOK, Owns,
         Backed
<1>4. OwnersOK' /\ IntrudedOK'
  BY DEF LockTypeOK, AttemptStates, Times, RenewOK, RepliesOK, OwnersOK,
         IntrudedOK, ResultsOK, Owns, Backed
<1> QED BY <1>1, <1>2, <1>3, <1>4

\* Crash: nothing is held.
LEMMA CrashInv ==
  ASSUME LockInv, NEW c \in Attempts, Crash(c)
  PROVE  LockInv'
<1> USE LockAssumption DEF LockInv, Crash, At
<1>1. LockTypeOK'
  BY FreshRecord DEF LockTypeOK, AttemptStates, Stages, Times
<1>2. RenewOK' /\ ResultsOK'
  BY DEF LockTypeOK, AttemptStates, RenewOK, ResultsOK, Fresh
<1>3. RepliesOK'
  BY DEF LockTypeOK, AttemptStates, Times, RenewOK, RepliesOK, OwnersOK, Owns,
         Backed, Fresh
<1>4. OwnersOK' /\ IntrudedOK'
  BY DEF LockTypeOK, AttemptStates, Times, RenewOK, RepliesOK, OwnersOK,
         IntrudedOK, ResultsOK, Owns, Backed, Fresh
<1> QED BY <1>1, <1>2, <1>3, <1>4

-----------------------------------------------------------------------------
(* Time *)

LEMMA Clock ==
  ASSUME NEW t \in Times
  PROVE  /\ Less(t) \in Times /\ More(t) \in Times
         /\ t > 0 => Less(t) = t - 1
         /\ t = 0 => Less(t) = 0
         /\ t < Lease => More(t) = t + 1
         /\ t = Lease => More(t) = Lease
BY LockAssumption DEF Less, More, Times

\* What a tick does to an attempt.
LEMMA TickEffect ==
  ASSUME LockTypeOK, Tick, NEW a \in Attempts
  PROVE  /\ att'[a] \in AttemptStates
         /\ att'[a].at = att[a].at /\ att'[a].lost = att[a].lost
         /\ att'[a].renew = att[a].renew /\ att'[a].ok = att[a].ok
         /\ att'[a].left = Less(att[a].left)
         /\ att'[a].since = IF Sent(a) THEN More(att[a].since)
                                       ELSE att[a].since
<1>1. att[a] \in AttemptStates
  BY DEF LockTypeOK
<1>2. att[a].left \in Times /\ att[a].since \in Times
  BY <1>1 DEF AttemptStates
<1>. Less(att[a].left) \in Times /\ More(att[a].since) \in Times
  BY <1>2, Clock
<1>3. CASE Sent(a)
  BY <1>1, <1>3 DEF Tick, AttemptStates
<1>4. CASE ~Sent(a)
  BY <1>1, <1>4 DEF Tick, AttemptStates
<1> QED BY <1>3, <1>4

\* A tick shortens a lease and the deadlines under it alike, and lengthens the
\* way of a reply by no less.
LEMMA TickInv ==
  ASSUME LockInv, Tick
  PROVE  LockInv'
<1> USE LockAssumption DEF LockInv
<1>1. /\ row.left \in Times /\ row'.left = Less(row.left)
      /\ row'.owner = row.owner
      /\ row' \in [owner : Attempts \cup {Nobody}, left : Times]
      /\ intruded' = intruded
  <2>1. row.left \in Times
    BY DEF LockTypeOK
  <2>2. Less(row.left) \in Times
    BY <2>1, Clock
  <2> QED BY <2>1, <2>2 DEF LockTypeOK, Tick
<1>2. att' = [a \in Attempts |-> att'[a]]
  BY DEF Tick
<1>3. LockTypeOK'
  BY <1>1, <1>2, TickEffect DEF LockTypeOK
<1>4. RenewOK' /\ ResultsOK'
  BY TickEffect DEF RenewOK, ResultsOK
<1>5. ASSUME NEW a \in Attempts
      PROVE  /\ att[a] \in AttemptStates
             /\ att[a].since \in Times /\ att[a].left \in Times
             /\ att'[a].since \in {att[a].since, More(att[a].since)}
             /\ Sent(a) => att'[a].since = More(att[a].since)
  BY TickEffect DEF LockTypeOK, AttemptStates
<1>6. RepliesOK'
  <2> SUFFICES ASSUME NEW a \in Attempts,
                      att[a].at = "granted" \/ att[a].renew = "renewed",
                      att'[a].since < Lease
               PROVE  row'.owner = a /\ row'.left + att'[a].since >= Lease
    BY TickEffect DEF RepliesOK, Backed
  <2>1. att'[a].since = More(att[a].since)
    BY <1>5 DEF Sent
  <2>2. att'[a].since = att[a].since + 1 /\ att[a].since < Lease
    BY <1>5, <2>1, Clock DEF Times
  <2>3. row.owner = a /\ row.left + att[a].since >= Lease
    BY <2>2 DEF RepliesOK, Backed
  <2>4. row'.left >= row.left - 1
    BY <1>1, Clock DEF Times
  <2> QED BY <1>1, <1>5, <2>2, <2>3, <2>4 DEF Times
<1>7. OwnersOK'
  <2> SUFFICES ASSUME NEW a \in Attempts, Owns(a)'
               PROVE  row'.owner = a /\ row'.left >= att'[a].left
    BY DEF OwnersOK
  <2>1. att[a].at = "held" /\ ~att[a].lost /\ Less(att[a].left) > 0
    BY TickEffect DEF Owns, At
  <2>2. att[a].left > 0 /\ Less(att[a].left) = att[a].left - 1
    BY <1>5, <2>1, Clock DEF Times
  <2>3. row.owner = a /\ row.left >= att[a].left
    BY <2>1, <2>2 DEF OwnersOK, Owns, At
  <2>4. Less(row.left) = row.left - 1
    BY <1>1, <1>5, <2>2, <2>3, Clock DEF Times
  <2> QED BY <1>1, <1>5, <2>2, <2>3, <2>4, TickEffect DEF Times
<1>8. IntrudedOK'
  BY <1>1, TickEffect DEF LockTypeOK, IntrudedOK
<1> QED BY <1>3, <1>4, <1>6, <1>7, <1>8

-----------------------------------------------------------------------------
(* Theorems *)

\* No lock, no attempt.
LEMMA LockInit_Inv == LockInit => LockInv
<1> SUFFICES ASSUME LockInit PROVE LockInv
  OBVIOUS
<1> USE LockAssumption DEF LockInit
<1>1. LockTypeOK
  BY DEF LockTypeOK, Fresh, NoRow, AttemptStates, Stages, Times
<1>2. RenewOK /\ RepliesOK /\ OwnersOK /\ ResultsOK /\ IntrudedOK
  BY DEF RenewOK, RepliesOK, OwnersOK, ResultsOK, IntrudedOK, Owns, At, Fresh
<1> QED BY <1>1, <1>2 DEF LockInv

LEMMA LockNext_Inv == LockInv /\ [LockNext]_lockVars => LockInv'
<1> SUFFICES ASSUME LockInv, [LockNext]_lockVars PROVE LockInv'
  OBVIOUS
<1>1. CASE Tick
  BY <1>1, TickInv
<1>2. ASSUME NEW a \in Attempts, LockStep(a) \/ SendRenew(a) \/ Crash(a)
      PROVE  LockInv'
  BY <1>2, SendInsertInv, InsertInv, GrantedInv, RetryInv, BusyInv,
     SendRenewInv, RenewInv, RenewedInv, RenewFailsInv, LoseByDeadlineInv,
     EndFnInv, FnThrowsInv, ReleaseInv, CrashInv DEF LockStep
<1>3. CASE UNCHANGED lockVars
  BY <1>3 DEF lockVars, LockInv, LockTypeOK, RenewOK, RepliesOK, OwnersOK,
              ResultsOK, IntrudedOK, Owns, Backed, At
<1> QED BY <1>1, <1>2, <1>3 DEF LockNext

\* The invariant, whoever asks, stalls, stops or is late (sandbox-lock-store.ts,
\* withLock).
THEOREM LockInvariance == LockSpec => []LockInv
BY LockInit_Inv, LockNext_Inv, PTL DEF LockSpec

\* Every variable keeps its type.
THEOREM LockTypes == LockSpec => []LockTypeOK
<1>1. LockInv => LockTypeOK
  BY DEF LockInv
<1> QED BY <1>1, LockInvariance, PTL

\* No two requests own the sandbox at once: both would own its row.
THEOREM OneOwnerAtATime == LockSpec => []OneOwner
<1>1. LockInv => OneOwner
  BY DEF LockInv, OwnersOK, OneOwner
<1> QED BY <1>1, LockInvariance, PTL

\* A result that counts was made alone: who was intruded on has no result.
THEOREM ResultsAreExclusive == LockSpec => []ResultIsExclusive
<1>1. LockInv => ResultIsExclusive
  BY DEF LockInv, IntrudedOK, ResultIsExclusive
<1> QED BY <1>1, LockInvariance, PTL

-----------------------------------------------------------------------------
(* The slots: the inductive invariant *)

Rows == [state : {"absent", "live", "stopped", "failed"}, id : BOOLEAN]

LiveBoxes == {b \in Boxes : instance[b].state = "live"}

LiveIngests == {b \in LiveBoxes : Ingests(b)}

\* The row of a turn that waits for the provider is there for it. A row that
\* is absent names no sandbox.
RowsAreHeld ==
  \A b \in Boxes :
    /\ instance[b].state = "absent" => ~instance[b].id
    /\ turn[b] = "creating" => instance[b].state = "live"
    /\ turn[b] = "attaching" => instance[b].state \in {"live", "failed"}

\* The lock of the slots.
OneReserves ==
  \A b, c \in Boxes : turn[b] \in Reserving /\ turn[c] \in Reserving => b = c

\* The slot that was counted is still free.
CountHolds == \A b \in Boxes : turn[b] \in Reserving => SlotFree(b)

LiveIsBounded ==
  Cardinality(LiveBoxes) <= org.all /\ Cardinality(LiveIngests) <= org.ingest

SlotInv ==
  /\ SlotTypeOK /\ RowsAreHeld /\ OneReserves
  /\ ~revived => CountHolds /\ LiveIsBounded

-----------------------------------------------------------------------------
(* Counting *)

LEMMA CardinalityOfSubset ==
  ASSUME NEW S, IsFiniteSet(S), NEW T \in SUBSET S
  PROVE  /\ IsFiniteSet(T) /\ Cardinality(S) \in Nat /\ Cardinality(T) \in Nat
         /\ Cardinality(T) <= Cardinality(S)
BY FS_Subset, FS_CardinalityType

LEMMA CardinalityOfOneMore ==
  ASSUME NEW S, IsFiniteSet(S), NEW e, NEW T \in SUBSET (S \cup {e})
  PROVE  /\ IsFiniteSet(T) /\ Cardinality(S) \in Nat /\ Cardinality(T) \in Nat
         /\ Cardinality(T) <= Cardinality(S) + 1
<1>1. /\ IsFiniteSet(S \cup {e})
      /\ Cardinality(S \cup {e}) = IF e \in S THEN Cardinality(S)
                                   ELSE Cardinality(S) + 1
  BY FS_AddElement
<1>2. Cardinality(S) \in Nat
  BY FS_CardinalityType
<1>3. /\ IsFiniteSet(T) /\ Cardinality(T) \in Nat
      /\ Cardinality(T) <= Cardinality(S \cup {e})
  BY <1>1, CardinalityOfSubset
<1> QED BY <1>1, <1>2, <1>3

LEMMA LimitsAreNat ==
  ASSUME SlotTypeOK
  PROVE  org.all \in Nat \ {0} /\ org.ingest \in Nat \ {0}
BY SlotAssumption DEF SlotTypeOK

\* A step that makes no row live keeps what was counted and the bounds.
LEMMA NoRowBecomesLive ==
  ASSUME SlotInv, org' = org, ~revived,
         \A b \in Boxes : instance'[b].state = "live"
                            => instance[b].state = "live",
         \A b \in Boxes : turn'[b] \in Reserving => turn[b] \in Reserving
  PROVE  CountHolds' /\ LiveIsBounded'
<1>1. IsFiniteSet(Boxes)
  BY SlotAssumption
<1>2. /\ LiveBoxes \in SUBSET Boxes /\ LiveBoxes' \in SUBSET LiveBoxes
      /\ LiveIngests \in SUBSET LiveBoxes /\ LiveIngests' \in SUBSET LiveIngests
  BY DEF LiveBoxes, LiveIngests, Ingests
<1>3. /\ IsFiniteSet(LiveBoxes) /\ IsFiniteSet(LiveIngests)
  BY <1>1, <1>2, CardinalityOfSubset
<1>4. /\ Cardinality(LiveBoxes) \in Nat /\ Cardinality(LiveBoxes') \in Nat
      /\ Cardinality(LiveBoxes') <= Cardinality(LiveBoxes)
      /\ Cardinality(LiveIngests) \in Nat /\ Cardinality(LiveIngests') \in Nat
      /\ Cardinality(LiveIngests') <= Cardinality(LiveIngests)
  BY <1>2, <1>3, CardinalityOfSubset
<1>5. LiveIsBounded'
  BY <1>4, LimitsAreNat DEF SlotInv, LiveIsBounded
<1>6. ASSUME NEW b \in Boxes, turn'[b] \in Reserving
      PROVE  SlotFree(b)'
  <2> DEFINE I == {c \in Counted(b) : Ingests(c)}
  <2>1. SlotFree(b)
    BY <1>6 DEF SlotInv, CountHolds
  <2>2. /\ Counted(b) \in SUBSET Boxes /\ Counted(b)' \in SUBSET Counted(b)
        /\ I \in SUBSET Boxes /\ I' \in SUBSET I
    BY DEF Counted, Ingests
  <2>3. /\ IsFiniteSet(Counted(b)) /\ IsFiniteSet(I)
    BY <1>1, <2>2, CardinalityOfSubset
  <2>4. /\ Cardinality(Counted(b)) \in Nat /\ Cardinality(Counted(b)') \in Nat
        /\ Cardinality(Counted(b)') <= Cardinality(Counted(b))
        /\ Cardinality(I) \in Nat /\ Cardinality(I') \in Nat
        /\ Cardinality(I') <= Cardinality(I)
    BY <2>2, <2>3, CardinalityOfSubset
  <2>5. org.all \in Nat /\ org.ingest \in Nat
    BY LimitsAreNat DEF SlotInv
  <2>6. Ingests(b)' <=> Ingests(b)
    BY DEF Ingests
  <2>7. Cardinality(Counted(b)') < org'.all
    BY <2>1, <2>4, <2>5 DEF SlotFree
  <2>8. Ingests(b)' => Cardinality(I') < org'.ingest
    BY <2>1, <2>4, <2>5, <2>6 DEF SlotFree
  <2> QED BY <2>7, <2>8 DEF SlotFree
<1> QED BY <1>5, <1>6 DEF CountHolds

\* A step in which the row of b becomes live stays within the limits if the
\* slot of b is free.
LEMMA OneRowBecomesLive ==
  ASSUME SlotTypeOK, LiveIsBounded, org' = org,
         NEW b \in Boxes, SlotFree(b),
         \A c \in Boxes \ {b} : instance'[c] = instance[c]
  PROVE  LiveIsBounded'
<1> DEFINE I == {c \in Counted(b) : Ingests(c)}
<1>1. /\ Counted(b) \in SUBSET Boxes /\ I \in SUBSET Boxes
      /\ LiveIngests \in SUBSET Boxes
      /\ LiveBoxes' \in SUBSET (Counted(b) \cup {b})
      /\ LiveIngests' \in SUBSET (I \cup {b})
      /\ ~Ingests(b) => LiveIngests' \in SUBSET LiveIngests
  BY DEF Counted, Ingests, LiveBoxes, LiveIngests
<1>2. IsFiniteSet(Counted(b)) /\ IsFiniteSet(I) /\ IsFiniteSet(LiveIngests)
  BY <1>1, SlotAssumption, CardinalityOfSubset
<1>3. /\ Cardinality(Counted(b)) \in Nat /\ Cardinality(LiveBoxes') \in Nat
      /\ Cardinality(LiveBoxes') <= Cardinality(Counted(b)) + 1
      /\ Cardinality(I) \in Nat /\ Cardinality(LiveIngests') \in Nat
      /\ Cardinality(LiveIngests') <= Cardinality(I) + 1
  BY <1>1, <1>2, CardinalityOfOneMore
<1>4. org.all \in Nat /\ org.ingest \in Nat
  BY LimitsAreNat
<1>5. Cardinality(Counted(b)) < org.all
  BY DEF SlotFree
<1>6. Cardinality(LiveIngests') <= org.ingest
  <2>1. CASE Ingests(b)
    <3>1. Cardinality(I) < org.ingest
      BY <2>1 DEF SlotFree
    <3> QED BY <1>3, <1>4, <3>1
  <2>2. CASE ~Ingests(b)
    <3>1. /\ Cardinality(LiveIngests) \in Nat
          /\ Cardinality(LiveIngests') <= Cardinality(LiveIngests)
      BY <1>1, <1>2, <2>2, CardinalityOfSubset
    <3> QED BY <1>3, <1>4, <3>1 DEF LiveIsBounded
  <2> QED BY <2>1, <2>2
<1>7. Cardinality(LiveBoxes') <= org.all
  BY <1>3, <1>4, <1>5
<1> QED BY <1>6, <1>7 DEF LiveIsBounded

-----------------------------------------------------------------------------
(* Types *)

LEMMA RowValues ==
  /\ Absent \in Rows
  /\ \A id \in BOOLEAN : Live(id) \in Rows /\ Live(id).state = "live"
BY DEF Absent, Live, Rows

LEMMA FaultsAreBounded ==
  /\ MaxFaults \in Nat /\ 0 \in 0..MaxFaults
  /\ \A n \in 0..MaxFaults : n < MaxFaults => n + 1 \in 0..MaxFaults
<1>1. MaxFaults \in Nat
  BY SlotAssumption
<1> QED BY <1>1

LEMMA InitTypes == SlotInit => SlotTypeOK
<1> SUFFICES ASSUME SlotInit PROVE SlotTypeOK
  OBVIOUS
<1>1. instance \in [Boxes -> Rows]
  BY RowValues DEF SlotInit
<1>2. /\ org \in Orgs
      /\ age \in [Boxes -> {"fresh", "idle", "due"}]
      /\ box \in [Boxes -> {"none", "running", "stopped"}]
      /\ turn \in [Boxes -> Turns]
      /\ plan \in [Boxes -> {"none", "stop", "delete", "used"}]
  BY DEF SlotInit, Turns
<1>3. /\ sweep \in {"none", "scheduled", "running"}
      /\ next \in BOOLEAN /\ revived \in BOOLEAN /\ faults \in 0..MaxFaults
  BY FaultsAreBounded DEF SlotInit
<1> QED BY <1>1, <1>2, <1>3 DEF SlotTypeOK, Rows

\* The steps that change a turn change these variables alike.
LEMMA TurnTypes ==
  ASSUME SlotTypeOK, NEW b \in Boxes, TurnStep(b) \/ Begin(b) \/ TurnCrash(b)
  PROVE  SlotTypeOK'
<1> USE DEF SlotTypeOK
<1>1. turn' \in [Boxes -> Turns]
  <2>1. \E stage \in Turns : Step(b, stage)
    BY DEF TurnStep, Begin, Count, AtCapacity, Reserve, Create, CreateFails,
           Attach, AttachGone, AttachFails, End, TurnCrash, Turns
  <2> QED BY <2>1 DEF Step
<1>2. faults' \in 0..MaxFaults
  <2>1. UNCHANGED faults \/ Fault
    BY DEF TurnStep, Begin, Count, AtCapacity, Reserve, Create, CreateFails,
           Attach, AttachGone, AttachFails, End, TurnCrash
  <2> QED BY <2>1, FaultsAreBounded DEF Fault
<1>3. /\ age' \in [Boxes -> {"fresh", "idle", "due"}]
      /\ plan' \in [Boxes -> {"none", "stop", "delete", "used"}]
  BY DEF TurnStep, Begin, Count, AtCapacity, Reserve, Create, CreateFails,
         Attach, AttachGone, AttachFails, End, TurnCrash, Used
<1>4. /\ box' \in [Boxes -> {"none", "running", "stopped"}]
      /\ org' \in Orgs
      /\ sweep' \in {"none", "scheduled", "running"}
  BY DEF TurnStep, Begin, Count, AtCapacity, Reserve, Create, CreateFails,
         Attach, AttachGone, AttachFails, End, TurnCrash
<1>5. instance' \in [Boxes -> Rows]
  <2>1. instance \in [Boxes -> Rows]
    BY DEF Rows
  <2>2. CASE UNCHANGED instance
    BY <2>1, <2>2
  <2>3. CASE \E r \in Rows : instance' = [instance EXCEPT ![b] = r]
    BY <2>1, <2>3
  <2>4. (turn[b] = "reserveResume") \in BOOLEAN
    OBVIOUS
  <2>5. \/ UNCHANGED instance
        \/ \E r \in Rows : instance' = [instance EXCEPT ![b] = r]
    BY <2>4, RowValues
       DEF TurnStep, Begin, Count, AtCapacity, Reserve, Create, CreateFails,
           Attach, AttachGone, AttachFails, End, TurnCrash
  <2> QED BY <2>2, <2>3, <2>5
<1>6. revived' \in BOOLEAN
  <2>1. (revived \/ instance[b].state = "failed") \in BOOLEAN
    OBVIOUS
  <2> QED
    BY <2>1
       DEF TurnStep, Begin, Count, AtCapacity, Reserve, Create, CreateFails,
           Attach, AttachGone, AttachFails, End, TurnCrash
<1>7. next' \in BOOLEAN
  <2>1. (next \/ sweep = "running") \in BOOLEAN
    OBVIOUS
  <2> QED
    BY <2>1
       DEF TurnStep, Begin, Count, AtCapacity, Reserve, Create, CreateFails,
           Attach, AttachGone, AttachFails, End, TurnCrash
<1> QED BY <1>1, <1>2, <1>3, <1>4, <1>5, <1>6, <1>7 DEF Rows

\* The steps that touch the turns of no sandbox.
LEMMA SweepTypes ==
  ASSUME SlotTypeOK,
         \/ SweepStep \/ SweepCrash
         \/ \E b \in Boxes : Age(b) \/ StopWhenDone(b) \/ DestroyShard(b)
  PROVE  SlotTypeOK'
<1> USE DEF SlotTypeOK
<1>1. UNCHANGED <<org, turn, revived>>
  BY DEF SweepStep, SweepCrash, Backstop, SweepStart, SweepEnd, SweepKeeps,
         SweepStops, SweepDeletes, Age, StopWhenDone, DestroyShard
<1>2. faults' \in 0..MaxFaults
  <2>1. UNCHANGED faults \/ Fault
    BY DEF SweepStep, SweepCrash, Backstop, SweepStart, SweepEnd, SweepKeeps,
           SweepStops, SweepDeletes, Age, StopWhenDone, DestroyShard
  <2> QED BY <2>1, FaultsAreBounded DEF Fault
<1>3. sweep' \in {"none", "scheduled", "running"}
  BY DEF SweepStep, SweepCrash, Backstop, SweepStart, SweepEnd, SweepKeeps,
         SweepStops, SweepDeletes, Age, StopWhenDone, DestroyShard
<1>4. next' \in BOOLEAN
  <2>1. (\E b \in Boxes : instance[b] # Absent /\ Due(b) = "none") \in BOOLEAN
    OBVIOUS
  <2> QED
    BY <2>1
       DEF SweepStep, SweepCrash, Backstop, SweepStart, SweepEnd, SweepKeeps,
           SweepStops, SweepDeletes, Age, StopWhenDone, DestroyShard
<1>5. age' \in [Boxes -> {"fresh", "idle", "due"}]
  BY DEF SweepStep, SweepCrash, Backstop, SweepStart, SweepEnd, SweepKeeps,
         SweepStops, SweepDeletes, Age, StopWhenDone, DestroyShard
<1>6. plan' \in [Boxes -> {"none", "stop", "delete", "used"}]
  <2>1. \A b \in Boxes : Due(b) \in {"none", "stop", "delete", "used"}
    BY DEF Due
  <2>2. \/ UNCHANGED plan
        \/ \E b \in Boxes : plan' = [plan EXCEPT ![b] = "none"]
        \/ plan' = [b \in Boxes |-> Due(b)]
        \/ plan' = [b \in Boxes |-> "none"]
    BY DEF SweepStep, SweepCrash, Backstop, SweepStart, SweepEnd, SweepKeeps,
           SweepStops, SweepDeletes, Age, StopWhenDone, DestroyShard
  <2> QED BY <2>1, <2>2
<1>7. box' \in [Boxes -> {"none", "running", "stopped"}]
  <2>1. \A b \in Boxes : Halted(b) \in {"none", "running", "stopped"}
    BY DEF Halted
  <2>2. CASE \E b \in Boxes : SweepDeletes(b)
    <3>1. \/ UNCHANGED box
          \/ \E b \in Boxes :
               box' = [box EXCEPT ![b] = IF instance[b].id THEN "none" ELSE @]
      BY <2>2 DEF SweepDeletes
    <3> QED BY <3>1
  <2>3. CASE ~ \E b \in Boxes : SweepDeletes(b)
    <3>1. \/ UNCHANGED box
          \/ \E b \in Boxes : \/ box' = [box EXCEPT ![b] = Halted(b)]
                              \/ box' = [box EXCEPT ![b] = "none"]
      BY <2>3
         DEF SweepStep, SweepCrash, Backstop, SweepStart, SweepEnd, SweepKeeps,
             SweepStops, Age, StopWhenDone, DestroyShard
    <3> QED BY <2>1, <3>1
  <2> QED BY <2>2, <2>3
<1>8. instance' \in [Boxes -> Rows]
  <2>1. instance \in [Boxes -> Rows]
    BY DEF Rows
  <2>2. CASE \E b \in Boxes : SweepDeletes(b)
    <3>1. \/ \E b \in Boxes : instance' = [instance EXCEPT ![b] = Absent]
          \/ \E b \in Boxes :
               instance' = [instance EXCEPT ![b].state = "failed"]
      BY <2>2 DEF SweepDeletes
    <3>2. \A b \in Boxes :
            [instance EXCEPT ![b].state = "failed"] \in [Boxes -> Rows]
      BY <2>1 DEF Rows
    <3> QED BY <2>1, <3>1, <3>2, RowValues
  <2>3. CASE ~ \E b \in Boxes : SweepDeletes(b)
    <3>1. \A b \in Boxes : Stopped(b) \in Rows
      BY <2>1, RowValues DEF Stopped, Rows
    <3>2. CASE \E b \in Boxes : instance' = [instance EXCEPT ![b] = Stopped(b)]
      BY <2>1, <3>1, <3>2
    <3>3. CASE \E b \in Boxes : instance' = [instance EXCEPT ![b] = Absent]
      BY <2>1, <3>3, RowValues
    <3>4. \/ UNCHANGED instance
          \/ \E b \in Boxes : instance' = [instance EXCEPT ![b] = Stopped(b)]
          \/ \E b \in Boxes : instance' = [instance EXCEPT ![b] = Absent]
      BY <2>3
         DEF SweepStep, SweepCrash, Backstop, SweepStart, SweepEnd, SweepKeeps,
             SweepStops, Age, StopWhenDone, DestroyShard
    <3> QED BY <2>1, <3>2, <3>3, <3>4
  <2> QED BY <2>2, <2>3
<1> QED BY <1>1, <1>2, <1>3, <1>4, <1>5, <1>6, <1>7, <1>8 DEF Rows

-----------------------------------------------------------------------------
(* Steps *)

LEMMA SlotInit_Inv == SlotInit => SlotInv
<1> SUFFICES ASSUME SlotInit PROVE SlotInv
  OBVIOUS
<1>1. SlotTypeOK
  BY InitTypes
<1>2. \A b \in Boxes : /\ turn[b] = "idle" /\ instance[b].state = "absent"
                        /\ ~instance[b].id
  BY DEF SlotInit, Absent
<1>3. RowsAreHeld /\ OneReserves /\ CountHolds
  BY <1>2 DEF RowsAreHeld, OneReserves, CountHolds, Reserving
<1>4. LiveBoxes = {} /\ LiveIngests = {}
  BY <1>2 DEF LiveBoxes, LiveIngests
<1>5. Cardinality({}) = 0
  BY FS_EmptySet
<1>6. LiveIsBounded
  BY <1>1, <1>4, <1>5, LimitsAreNat DEF LiveIsBounded
<1> QED BY <1>1, <1>3, <1>6 DEF SlotInv

\* A turn counts, and holds the lock of the slots with what it counted.
LEMMA CountInv ==
  ASSUME SlotInv, NEW b \in Boxes, Count(b)
  PROVE  SlotInv'
<1>1. SlotTypeOK'
  BY TurnTypes DEF SlotInv, TurnStep
<1>2. /\ UNCHANGED <<org, instance, revived>>
      /\ turn' = [turn EXCEPT ![b] =
           IF turn[b] = "create" THEN "reserveCreate" ELSE "reserveResume"]
      /\ \A c \in Boxes : turn[c] \notin Reserving
      /\ SlotFree(b)
  BY DEF Count, Step, LockFree
<1>3. turn \in [Boxes -> Turns]
  BY DEF SlotInv, SlotTypeOK
<1>4. RowsAreHeld' /\ OneReserves'
  BY <1>2, <1>3 DEF SlotInv, RowsAreHeld, OneReserves, Reserving
<1>5. \A c \in Boxes : turn'[c] \in Reserving => c = b
  BY <1>2, <1>3
<1>6. SlotFree(b)'
  BY <1>2 DEF SlotFree, Counted, Ingests
<1>7. ~revived' => CountHolds' /\ LiveIsBounded'
  BY <1>2, <1>5, <1>6
     DEF SlotInv, CountHolds, LiveIsBounded, LiveBoxes, LiveIngests, Ingests
<1> QED BY <1>1, <1>4, <1>7 DEF SlotInv

\* It reserves its row: the only row that becomes live.
LEMMA ReserveInv ==
  ASSUME SlotInv, NEW b \in Boxes, Reserve(b)
  PROVE  SlotInv'
<1>1. SlotTypeOK'
  BY TurnTypes DEF SlotInv, TurnStep
<1>2. turn \in [Boxes -> Turns] /\ instance \in [Boxes -> Rows]
  BY DEF SlotInv, SlotTypeOK, Rows
<1>3. /\ turn[b] \in Reserving
      /\ UNCHANGED <<org, revived>>
      /\ instance' = [instance EXCEPT ![b] = Live(turn[b] = "reserveResume")]
      /\ turn'[b] \in {"creating", "attaching"}
      /\ \A c \in Boxes \ {b} : turn'[c] = turn[c]
  BY <1>2 DEF Reserve, Step
<1>4. /\ instance'[b].state = "live"
      /\ \A c \in Boxes \ {b} : instance'[c] = instance[c]
  BY <1>2, <1>3 DEF Live
<1>5. RowsAreHeld'
  BY <1>3, <1>4 DEF SlotInv, RowsAreHeld
<1>6. \A c \in Boxes : turn'[c] \notin Reserving
  BY <1>3 DEF SlotInv, OneReserves, Reserving
<1>7. ASSUME ~revived'
      PROVE  LiveIsBounded'
  <2>1. SlotFree(b) /\ LiveIsBounded
    BY <1>3, <1>7 DEF SlotInv, CountHolds
  <2> QED BY <1>3, <1>4, <2>1, OneRowBecomesLive DEF SlotInv
<1> QED BY <1>1, <1>5, <1>6, <1>7 DEF SlotInv, OneReserves, CountHolds

\* Every other step of a turn.
LEMMA TurnInv ==
  ASSUME SlotInv, NEW b \in Boxes, ~Count(b), ~Reserve(b),
         TurnStep(b) \/ Begin(b) \/ TurnCrash(b)
  PROVE  SlotInv'
<1>1. SlotTypeOK'
  BY TurnTypes DEF SlotInv
<1>2. turn \in [Boxes -> Turns] /\ instance \in [Boxes -> Rows]
  BY DEF SlotInv, SlotTypeOK, Rows
<1>3. PICK stage \in Turns \ Reserving : Step(b, stage)
  BY DEF TurnStep, Begin, AtCapacity, Create, CreateFails,
         Attach, AttachGone, AttachFails, End, TurnCrash, Turns, Reserving
<1>4. /\ turn'[b] = stage
      /\ \A c \in Boxes \ {b} : turn'[c] = turn[c]
  BY <1>2, <1>3 DEF Step
<1>5. /\ \A c \in Boxes \ {b} : instance'[c] = instance[c]
      /\ org' = org
  BY <1>2 DEF TurnStep, Begin, AtCapacity, Create, CreateFails, Attach,
              AttachGone, AttachFails, End, TurnCrash
<1>6. OneReserves'
  BY <1>3, <1>4 DEF SlotInv, OneReserves
<1>7. /\ stage # "creating"
      /\ stage = "attaching" =>
           instance[b].id /\ instance[b].state # "stopped"
      /\ instance'[b] \in {instance[b], Absent, Live(TRUE)}
      /\ stage = "attaching" => instance'[b] = instance[b]
  <2>1. CASE Begin(b)
    BY <1>2, <1>4, <2>1 DEF Begin, Step
  <2>2. CASE ~Begin(b)
    <3>1. stage \notin {"creating", "attaching"}
      BY <1>2, <1>4, <2>2
         DEF TurnStep, AtCapacity, Create, CreateFails, Attach, AttachGone,
             AttachFails, End, TurnCrash, Step
    <3>2. instance'[b] \in {instance[b], Absent, Live(TRUE)}
      BY <1>2, <2>2
         DEF TurnStep, AtCapacity, Create, CreateFails, Attach, AttachGone,
             AttachFails, End, TurnCrash
    <3> QED BY <3>1, <3>2
  <2> QED BY <2>1, <2>2
<1>8. RowsAreHeld'
  <2>1. /\ Absent.state = "absent" /\ ~Absent.id
        /\ Live(TRUE).state = "live"
    BY DEF Absent, Live
  <2>2. instance'[b].state = "absent" => ~instance'[b].id
    BY <1>7, <2>1 DEF SlotInv, RowsAreHeld
  <2>3. stage = "attaching" => instance'[b].state \in {"live", "failed"}
    BY <1>2, <1>7 DEF SlotInv, RowsAreHeld, Rows
  <2> QED BY <1>4, <1>5, <1>7, <2>2, <2>3 DEF SlotInv, RowsAreHeld
<1>9. ASSUME ~revived'
      PROVE  CountHolds' /\ LiveIsBounded'
  <2>1. ~revived
    BY <1>9
       DEF TurnStep, Begin, AtCapacity, Create, CreateFails, Attach,
           AttachGone, AttachFails, End, TurnCrash
  <2>2. instance'[b].state = "live" => instance[b].state = "live"
    BY <1>2, <1>9
       DEF SlotInv, RowsAreHeld, TurnStep, Begin, AtCapacity, Create,
           CreateFails, Attach, AttachGone, AttachFails, End, TurnCrash,
           Absent
  <2>3. \A c \in Boxes : instance'[c].state = "live"
                           => instance[c].state = "live"
    BY <1>5, <2>2
  <2>4. \A c \in Boxes : turn'[c] \in Reserving => turn[c] \in Reserving
    BY <1>3, <1>4
  <2> QED BY <1>5, <2>1, <2>3, <2>4, NoRowBecomesLive
<1> QED BY <1>1, <1>6, <1>8, <1>9 DEF SlotInv

\* The steps of the sweep, of time, and of those that end a sandbox: they
\* touch the row of no turn, and make no row live.
LEMMA SweepInv ==
  ASSUME SlotInv,
         \/ SweepStep \/ SweepCrash
         \/ \E b \in Boxes : Age(b) \/ StopWhenDone(b) \/ DestroyShard(b)
  PROVE  SlotInv'
<1>1. SlotTypeOK'
  BY SweepTypes DEF SlotInv
<1>2. instance \in [Boxes -> Rows]
  BY DEF SlotInv, SlotTypeOK, Rows
<1>3. UNCHANGED <<org, turn, revived>>
  BY DEF SweepStep, SweepCrash, Backstop, SweepStart, SweepEnd, SweepKeeps,
         SweepStops, SweepDeletes, Age, StopWhenDone, DestroyShard
<1>4. \/ UNCHANGED instance
      \/ \E b \in Boxes :
           /\ turn[b] = "idle"
           /\ \A c \in Boxes \ {b} : instance'[c] = instance[c]
           /\ instance'[b].state # "live"
           /\ instance'[b].state = "absent" => ~instance'[b].id
  <2>1. /\ Absent.state = "absent" /\ ~Absent.id
        /\ \A b \in Boxes : /\ Stopped(b).state # "live"
                            /\ Stopped(b).state = "absent" => ~Stopped(b).id
    BY <1>2 DEF Absent, Stopped, Rows
  <2>2. CASE \E b \in Boxes : SweepDeletes(b)
    <3>1. PICK b \in Boxes : SweepDeletes(b)
      BY <2>2
    <3>2. /\ turn[b] = "idle"
          /\ \/ instance' = [instance EXCEPT ![b] = Absent]
             \/ instance' = [instance EXCEPT ![b].state = "failed"]
      BY <3>1 DEF SweepDeletes, ThreadFree
    <3>3. /\ \A c \in Boxes \ {b} : instance'[c] = instance[c]
          /\ instance'[b] = Absent \/ instance'[b].state = "failed"
      BY <1>2, <3>2 DEF Rows
    <3> QED BY <2>1, <3>2, <3>3
  <2>3. CASE \E b \in Boxes :
               /\ turn[b] = "idle"
               /\ \/ instance' = [instance EXCEPT ![b] = Stopped(b)]
                  \/ instance' = [instance EXCEPT ![b] = Absent]
    <3>1. PICK b \in Boxes :
            /\ turn[b] = "idle"
            /\ \/ instance' = [instance EXCEPT ![b] = Stopped(b)]
               \/ instance' = [instance EXCEPT ![b] = Absent]
      BY <2>3
    <3>2. /\ \A c \in Boxes \ {b} : instance'[c] = instance[c]
          /\ instance'[b] = Absent \/ instance'[b] = Stopped(b)
      BY <1>2, <3>1
    <3> QED BY <2>1, <3>1, <3>2
  <2>4. \/ UNCHANGED instance
        \/ \E b \in Boxes : SweepDeletes(b)
        \/ \E b \in Boxes :
             /\ turn[b] = "idle"
             /\ \/ instance' = [instance EXCEPT ![b] = Stopped(b)]
                \/ instance' = [instance EXCEPT ![b] = Absent]
    BY DEF SweepStep, SweepCrash, Backstop, SweepStart, SweepEnd, SweepKeeps,
           SweepStops, Age, StopWhenDone, DestroyShard, ThreadFree
  <2> QED BY <2>2, <2>3, <2>4
<1>5. RowsAreHeld' /\ OneReserves'
  BY <1>3, <1>4 DEF SlotInv, RowsAreHeld, OneReserves
<1>6. ~revived' => CountHolds' /\ LiveIsBounded'
  BY <1>3, <1>4, NoRowBecomesLive
<1> QED BY <1>1, <1>5, <1>6 DEF SlotInv

LEMMA SlotNext_Inv == SlotInv /\ [SlotNext]_slotVars => SlotInv'
<1> SUFFICES ASSUME SlotInv, [SlotNext]_slotVars PROVE SlotInv'
  OBVIOUS
<1>1. CASE UNCHANGED slotVars
  BY <1>1
     DEF slotVars, SlotInv, SlotTypeOK, RowsAreHeld, OneReserves, CountHolds,
         LiveIsBounded, LiveBoxes, LiveIngests, SlotFree, Counted, Ingests
<1>2. CASE SlotNext
  BY <1>2, CountInv, ReserveInv, TurnInv, SweepInv DEF SlotNext
<1> QED BY <1>1, <1>2

\* What runs has a live row.
LEMMA RunningIsLive == SlotInv => RunningIsBounded
<1> SUFFICES ASSUME SlotInv, ~revived
             PROVE  /\ Cardinality({b \in Boxes : Running(b)}) <= org.all
                    /\ Cardinality({b \in Boxes : Running(b) /\ Ingests(b)})
                         <= org.ingest
  BY DEF RunningIsBounded
<1> DEFINE R == {b \in Boxes : Running(b)}
           I == {b \in Boxes : Running(b) /\ Ingests(b)}
<1>1. /\ LiveBoxes \in SUBSET Boxes /\ LiveIngests \in SUBSET Boxes
      /\ R \in SUBSET LiveBoxes /\ I \in SUBSET LiveIngests
  BY DEF LiveBoxes, LiveIngests, Running
<1>2. IsFiniteSet(LiveBoxes) /\ IsFiniteSet(LiveIngests)
  BY <1>1, SlotAssumption, CardinalityOfSubset
<1>3. /\ Cardinality(R) \in Nat /\ Cardinality(LiveBoxes) \in Nat
      /\ Cardinality(R) <= Cardinality(LiveBoxes)
      /\ Cardinality(I) \in Nat /\ Cardinality(LiveIngests) \in Nat
      /\ Cardinality(I) <= Cardinality(LiveIngests)
  BY <1>1, <1>2, CardinalityOfSubset
<1>4. org.all \in Nat /\ org.ingest \in Nat /\ LiveIsBounded
  BY LimitsAreNat DEF SlotInv
<1> HIDE DEF R, I
<1>5. Cardinality(R) <= org.all /\ Cardinality(I) <= org.ingest
  BY <1>3, <1>4 DEF LiveIsBounded
<1> QED BY <1>5 DEF R, I

-----------------------------------------------------------------------------
(* Theorems *)

\* The invariant, whatever starts, crashes, fails and sweeps at once
\* (sandbox-instance-store.ts, countRunningSandboxes, with the reservation
\* under the lock of the slots).
THEOREM SlotInvariance == SlotSpec => []SlotInv
BY SlotInit_Inv, SlotNext_Inv, PTL DEF SlotSpec

\* Every variable keeps its type.
THEOREM SlotTypes == SlotSpec => []SlotTypeOK
<1>1. SlotInv => SlotTypeOK
  BY DEF SlotInv
<1> QED BY <1>1, SlotInvariance, PTL

\* Never more sandboxes run than the limits of the organization allow, unless
\* a sandbox whose delete had failed was resumed without a slot.
THEOREM LimitsHold == SlotSpec => []RunningIsBounded
BY SlotInvariance, RunningIsLive, PTL

\* A sandbox in use is never stopped or deleted under its turn: whoever stops
\* or deletes holds the lock of the thread, which its turn holds already.
THEOREM UsedSandboxesAreKept == SlotSpec => UsedIsKept
<1>1. ASSUME SlotTypeOK, SlotNext, NEW b \in Boxes,
             turn[b] = "using", turn'[b] = "using"
      PROVE  box'[b] = box[b] /\ instance'[b] = instance[b]
  <2>1. CASE SweepStep \/ SweepCrash
    BY <1>1, <2>1
      DEF SlotTypeOK, SweepStep, SweepCrash, Backstop, SweepStart, SweepEnd,
          SweepKeeps, SweepStops, SweepDeletes, ThreadFree
  <2>2. ASSUME NEW c \in Boxes, StopWhenDone(c) \/ DestroyShard(c) \/ Age(c)
        PROVE  box'[b] = box[b] /\ instance'[b] = instance[b]
    BY <1>1, <2>2
      DEF SlotTypeOK, StopWhenDone, DestroyShard, Age, ThreadFree
  <2>3. ASSUME NEW c \in Boxes, Begin(c) \/ TurnStep(c) \/ TurnCrash(c)
        PROVE  box'[b] = box[b] /\ instance'[b] = instance[b]
    <3>1. c # b
      BY <1>1, <2>3
        DEF SlotTypeOK, Begin, TurnStep, TurnCrash, Count, AtCapacity, Reserve,
            Create, CreateFails, Attach, AttachGone, AttachFails, End, Step,
            Turns, Reserving
    <3> QED
      BY <1>1, <2>3, <3>1
        DEF SlotTypeOK, Begin, TurnStep, TurnCrash, Count, AtCapacity, Reserve,
            Create, CreateFails, Attach, AttachGone, AttachFails, End
  <2> QED BY <1>1, <2>1, <2>2, <2>3 DEF SlotNext
<1>2. SlotTypeOK /\ [SlotNext]_slotVars
        => [\A b \in Boxes : turn[b] = "using" /\ turn'[b] = "using"
              => box'[b] = box[b] /\ instance'[b] = instance[b]]_slotVars
  BY <1>1
<1> QED BY <1>2, SlotTypes, PTL DEF SlotSpec, UsedIsKept
=============================================================================
