---------------------------- MODULE MCWriteQueue ----------------------------
(***************************************************************************)
(* Small instances of WriteQueue.  Two programs use the queue: a fenced    *)
(* repair beside a guarded stranger that nests a claim (release build),    *)
(* and guarded transactions with tasks, one claimed inside the other,      *)
(* beside a write lock (development build).                                *)
(***************************************************************************)
EXTENDS WriteQueue, TLC

CONSTANTS c1, c2, c3, c4, c5, f1

\* A fence and two transactions that carry it; c4 carries the account
\* guard and may claim and await c5 inside its own callback.
FencedOp      == c1 :> "capture" @@ c2 :> "tx" @@ c3 :> "tx" @@ c4 :> "tx" @@ c5 :> "tx"
FencedGuard   == c1 :> f1 @@ c2 :> f1 @@ c3 :> f1 @@ c4 :> Account @@ c5 :> NoGuard
FencedParent  == [c \in Caller |-> IF c = c5 THEN c4 ELSE None]

\* c2 is claimed and awaited inside c1's callback; c3 takes the lock alone.
NestedOp      == c1 :> "tx" @@ c2 :> "tx" @@ c3 :> "lock"
NestedGuard   == c1 :> Account @@ c2 :> Account @@ c3 :> NoGuard
NestedParent  == c1 :> None @@ c2 :> c1 @@ c3 :> None
=============================================================================
