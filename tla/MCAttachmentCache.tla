-------------------------- MODULE MCAttachmentCache --------------------------
(* Two attachments that compete for one place in the cache, so that each       *)
(* download must evict the other's file; paths and jobs are interchangeable.   *)
EXTENDS AttachmentCache, TLC

Symmetry == Permutations(Path) \cup Permutations(Sweeper)
=============================================================================
