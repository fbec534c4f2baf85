----------------------------- MODULE JobLedger -----------------------------
(***************************************************************************)
(* What the write lane promises of its jobs (ADR-047), whoever crashes,    *)
(* retries, relinks or commits meanwhile: a job publishes at most once, on *)
(* the repository it was admitted for and before it is done; the hydrate   *)
(* that is ordered for it, once, covers what it published; and its result, *)
(* recorded once, names what was published and ordered, or nothing when    *)
(* nothing was. A job that failed may be taken up again, or still publish: *)
(* the run it handed its change to outlives it.                            *)
(***************************************************************************)
EXTENDS Naturals

CONSTANTS Jobs, None

VARIABLES
  fate,     \* of a job: "none", "open", "failed" or "done"
  home,     \* the repository it was admitted for
  made,     \* what it published: the commit, its url and its place there
  order,    \* the place up to which the hydrate of it reads, 0 before it
  result    \* the commit that it was done with, None when it made no change

vars == <<fate, home, made, order, result>>

Init ==
  /\ fate = [j \in Jobs |-> "none"]
  /\ home = [j \in Jobs |-> None]
  /\ made = [j \in Jobs |-> {}]
  /\ order = [j \in Jobs |-> 0]
  /\ result = [j \in Jobs |-> None]

Pending(j) == fate[j] \in {"open", "failed"}

Admit(j) ==
  /\ fate[j] = "none"
  /\ fate' = [fate EXCEPT ![j] = "open"]
  /\ home' = [home EXCEPT ![j] = home'[j]]
  /\ UNCHANGED <<made, order, result>>

\* The one commit of the job.
Publish(j) ==
  /\ Pending(j) /\ made[j] = {} /\ order[j] = 0
  /\ \E x \in made'[j] : x.url = home[j] /\ made' = [made EXCEPT ![j] = {x}]
  /\ UNCHANGED <<fate, home, order, result>>

Order(j) ==
  /\ Pending(j) /\ order[j] = 0
  /\ order' = [order EXCEPT ![j] = order'[j]]
  /\ order'[j] > 0
  /\ \A x \in made[j] : x.place <= order'[j]
  /\ UNCHANGED <<fate, home, made, result>>

Finish(j) ==
  /\ fate[j] = "open"
  /\ fate' = [fate EXCEPT ![j] = "done"]
  /\ result' = [result EXCEPT ![j] = result'[j]]
  /\ IF result'[j] = None THEN made[j] = {}
     ELSE \E x \in made[j] : x.commit = result'[j] /\ x.place <= order[j]
  /\ UNCHANGED <<home, made, order>>

\* Jobs fail, or are taken up again.
Turn ==
  /\ \E J \in SUBSET Jobs :
       /\ \A j \in J : {fate[j], fate'[j]} = {"open", "failed"}
       /\ fate' = [j \in Jobs |-> IF j \in J THEN fate'[j] ELSE fate[j]]
  /\ UNCHANGED <<home, made, order, result>>

Next ==
  \/ Turn
  \/ \E j \in Jobs : Admit(j) \/ Publish(j) \/ Order(j) \/ Finish(j)

Spec == Init /\ [][Next]_vars
=============================================================================
