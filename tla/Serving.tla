------------------------------- MODULE Serving -------------------------------
(***************************************************************************)
(* What a Workspace promises its readers (ADR-046): a wanted revision that *)
(* only moves forward, and a served revision that was the wanted one at    *)
(* the moment it was published. Generations order the links of the         *)
(* Workspace, shas the commits of the default branch, and 0 is no sha yet. *)
(***************************************************************************)
EXTENDS Naturals

CONSTANT None

VARIABLES
  wanted,   \* the revision the Workspace should serve
  served    \* the revision its readers get, None before the first

Points == [gen : Nat, sha : Nat]

\* a is before b, or the same.
Upto(a, b) == a.gen < b.gen \/ (a.gen = b.gen /\ a.sha <= b.sha)

Init ==
  /\ wanted = [gen |-> 1, sha |-> 0]
  /\ served = None

\* The Workspace is linked anew: the tip is not known yet.
Relink ==
  /\ wanted' = [gen |-> wanted.gen + 1, sha |-> 0]
  /\ UNCHANGED served

\* A newer tip of the default branch is wanted.
Advance ==
  /\ wanted'.gen = wanted.gen
  /\ wanted'.sha > wanted.sha
  /\ UNCHANGED served

\* The readers get what is wanted now, never anything else.
Publish ==
  /\ wanted.sha # 0
  /\ served' = wanted
  /\ UNCHANGED wanted

Next == Relink \/ Advance \/ Publish

Spec == Init /\ [][Next]_<<wanted, served>>

\* What is served is never ahead of what is wanted.
ServedIsWanted == served # None => Upto(served, wanted)

\* Readers are never sent back to an older revision.
NeverGoesBack == [][served # None => Upto(served, served')]_<<wanted, served>>
=============================================================================
