-------------------------- MODULE MCScheduledSends --------------------------
(* One letter, the owner's calls one at a time, and two runs that may each   *)
(* be cut short; runs are interchangeable.                                   *)
EXTENDS ScheduledSends, TLC

Symmetry == Permutations(Run)

(* The properties exempt a letter of which a call lost track: what the model *)
(* would still do with it is left out.                                       *)
Tracked == unsure = {}
=============================================================================
