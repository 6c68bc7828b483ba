-------------------------- MODULE WriteQueueProofs --------------------------
(***************************************************************************)
(* Proofs about the write queue for every set of callers, tasks, fences    *)
(* and bystanders, in both builds.                                         *)
(***************************************************************************)
EXTENDS WriteQueue, TLAPS

-----------------------------------------------------------------------------
(* Type correctness. *)

(* What MarkForeign returns: only the history field can differ. *)
LEMMA MarkForeignType ==
  ASSUME TypeOK, NEW c \in Caller
  PROVE  /\ MarkForeign(c) \in [Fence -> FenceState]
         /\ \A f \in Fence :
              /\ MarkForeign(c)[f].captured = fence[f].captured
              /\ MarkForeign(c)[f].valid = fence[f].valid
              /\ MarkForeign(c)[f].expected = fence[f].expected
              /\ MarkForeign(c)[f].foreign =
                   (fence[f].foreign \/ (fence[f].captured /\ Guard[c] # f))
  BY DEF TypeOK, MarkForeign, FenceState

(* Every action keeps the state well typed. *)
LEMMA TypeStep == TypeOK /\ [Next]_vars => TypeOK'
<1> SUFFICES ASSUME TypeOK, [Next]_vars PROVE TypeOK'
  OBVIOUS
<1> USE DEF TypeOK, PCs, queueVars, watchVars, ctxVars, dataVars
<1>1. ASSUME NEW c \in Caller, Claim(c) PROVE TypeOK'
  <2>1. DevBuild \in BOOLEAN
    BY CallerAssumption
  <2> QED
    BY <1>1, <2>1 DEF Claim, Arm
<1>2. ASSUME NEW c \in Caller, EnterTx(c) PROVE TypeOK'
  <2>1. fence' \in [Fence -> FenceState]
    <3>1. CASE fence' = MarkForeign(c)
      BY <3>1, MarkForeignType
    <3>2. CASE Guard[c] \in Fence /\ fence' = [MarkForeign(c) EXCEPT ![Guard[c]].valid = FALSE]
      <4> DEFINE m == MarkForeign(c)  g == Guard[c]
      <4>1. m \in [Fence -> FenceState] /\ g \in Fence
        BY <3>2, MarkForeignType
      <4>2. [m[g] EXCEPT !.valid = FALSE] \in FenceState
        BY <4>1, m[g] \in FenceState DEF FenceState
      <4> HIDE DEF m, g
      <4>3. [m EXCEPT ![g] = [m[g] EXCEPT !.valid = FALSE]] \in [Fence -> FenceState]
        BY <4>1, <4>2
      <4> QED
        BY <3>2, <4>3 DEF m, g
    <3> QED
      BY <1>2, <3>1, <3>2 DEF EnterTx, FenceAdmits
  <2>2. pc' \in [Caller -> PCs] /\ outcome' \in [Caller -> {"none", "ok", "error"}]
    BY <1>2 DEF EnterTx
  <2> QED
    BY <1>2, <2>1, <2>2 DEF EnterTx, Disarm
<1>3. ASSUME NEW c \in Caller, EnterLock(c) PROVE TypeOK'
  BY <1>3, MarkForeignType DEF EnterLock, Disarm
<1>4. ASSUME NEW c \in Caller, EnterCapture(c) PROVE TypeOK'
  BY <1>4, MarkForeignType DEF EnterCapture, Disarm, FenceState
<1>5. ASSUME NEW c \in Caller, Begin(c) PROVE TypeOK'
  BY <1>5 DEF Begin
<1>6. ASSUME NEW c \in Caller, OwnerSettle(c) PROVE TypeOK'
  BY <1>6 DEF OwnerSettle
<1>7. ASSUME NEW c \in Caller, ContextSettled(c) PROVE TypeOK'
  BY <1>7 DEF ContextSettled
<1>8. ASSUME NEW c \in Caller, Commit(c) PROVE TypeOK'
  BY <1>8 DEF Commit
<1>9. ASSUME NEW c \in Caller, Rollback(c) PROVE TypeOK'
  BY <1>9 DEF Rollback
<1>10. ASSUME NEW c \in Caller, Release(c) PROVE TypeOK'
  BY <1>10 DEF Release, FenceState
<1>11. ASSUME NEW c \in Caller, PassOn(c) PROVE TypeOK'
  <2>1. resolved' \subseteq Nat /\ pc' \in [Caller -> PCs]
    BY <1>11 DEF PassOn
  <2> QED
    BY <1>11, <2>1 DEF PassOn
<1>12. ASSUME NEW c \in Caller, DevDeadline(c) PROVE TypeOK'
  <2>1. /\ pc' \in [Caller -> PCs] /\ outcome' \in [Caller -> {"none", "ok", "error"}]
        /\ timer' \in [Caller -> {"off", "armed", "warned", "spent"}]
        /\ devArmed' \in [Caller -> BOOLEAN] /\ wedgeReported' = wedgeReported
    BY <1>12 DEF DevDeadline, Disarm
  <2> QED
    BY <1>12, <2>1 DEF DevDeadline
<1>13. ASSUME NEW c \in Caller, Warn(c) PROVE TypeOK'
  BY <1>13 DEF Warn
<1>14. ASSUME NEW c \in Caller, Escalate(c) PROVE TypeOK'
  BY <1>14 DEF Escalate, NothingMoved
<1>15. ASSUME NEW c \in Caller, OwnerWrite(c) PROVE TypeOK'
  BY <1>15 DEF OwnerWrite, Write
<1>16. ASSUME NEW t \in Task, TaskWrite(t) PROVE TypeOK'
  BY <1>16 DEF TaskWrite, Write
<1>17. ASSUME NEW t \in Task, TaskSettle(t) PROVE TypeOK'
  BY <1>17 DEF TaskSettle
<1>18. ASSUME NEW t \in Task, NEW c \in Caller, Register(t, c) PROVE TypeOK'
  BY <1>18 DEF Register
<1>19. ASSUME NEW b \in Bystander, PlainWrite(b) PROVE TypeOK'
  BY <1>19 DEF PlainWrite, Write
<1>20. ASSUME Revoke PROVE TypeOK'
  BY <1>20 DEF Revoke
<1>21. ASSUME UNCHANGED vars PROVE TypeOK'
  BY <1>21 DEF vars
<1> QED
  BY <1>1, <1>2, <1>3, <1>4, <1>5, <1>6, <1>7, <1>8, <1>9, <1>10, <1>11, <1>12,
     <1>13, <1>14, <1>15, <1>16, <1>17, <1>18, <1>19, <1>20, <1>21
  DEF Next, Progress, Enter, Timers

(* The state of the queue is well typed in every behaviour. *)
THEOREM TypeCorrect == Spec => []TypeOK
<1>1. Init => TypeOK
  <2> SUFFICES ASSUME Init PROVE TypeOK
    OBVIOUS
  <2>1. fence \in [Fence -> FenceState]
    BY DEF Init, FenceState
  <2>2. /\ slot \in [Caller -> Nat] /\ entry \in [Caller -> Nat]
        /\ timer \in [Caller -> {"off", "armed", "warned", "spent"}]
        /\ devArmed \in [Caller -> BOOLEAN] /\ pc \in [Caller -> PCs]
        /\ outcome \in [Caller -> {"none", "ok", "error"}]
    BY DEF Init, PCs
  <2>3. /\ accepting \in [Caller -> BOOLEAN] /\ violation \in [Caller -> BOOLEAN]
        /\ ctx \in [Task -> Caller \cup {None}]
        /\ status \in [Task -> {"new", "running", "ok", "failed", "rejected"}]
    BY DEF Init
  <2>4. /\ tail \in Nat /\ resolved \subseteq Nat /\ lockReleases \in Nat
    BY DEF Init
  <2>5. /\ wedgeReported \in BOOLEAN /\ sql \in Caller \cup {None}
        /\ current \in BOOLEAN
        /\ uncommitted = {} /\ committed = {} /\ issued = {}
    BY DEF Init
  <2> QED
    BY <2>1, <2>2, <2>3, <2>4, <2>5 DEF TypeOK
<1> QED
  BY <1>1, TypeStep, PTL DEF Spec

-----------------------------------------------------------------------------
(* Mutual exclusion.  The resolved slots are a prefix of the chain, every  *)
(* claim has a slot of its own, and a holder's slot is the first that has  *)
(* not resolved: so there is at most one.                                  *)

TicketInv ==
  /\ resolved \subseteq 0..tail
  /\ \A n \in resolved : \A k \in 0..n : k \in resolved
  /\ \A c \in Caller : slot[c] \in 0..tail /\ (slot[c] = 0 <=> pc[c] = "idle")
  /\ \A c, d \in Caller : slot[c] = slot[d] /\ slot[c] # 0 => c = d
  /\ \A c \in Caller : pc[c] \in Holding \cup {"parked", "abandoned"}
                         => slot[c] \notin resolved
  /\ \A c \in Caller : pc[c] \in Holding => slot[c] - 1 \in resolved

(* Whoever is next: the first slot that has not resolved has one owner.    *)
LEMMA FirstUnresolved ==
  ASSUME TypeOK, TicketInv, NEW c \in Caller, NEW d \in Caller,
         slot[c] > 0, slot[c] - 1 \in resolved, slot[c] \notin resolved,
         slot[d] > 0, slot[d] - 1 \in resolved, slot[d] \notin resolved
  PROVE  c = d
<1>1. slot[c] \in Nat /\ slot[d] \in Nat
  BY DEF TypeOK
<1>2. CASE slot[c] < slot[d]
  <2>1. slot[c] \in 0..(slot[d] - 1)
    BY <1>1, <1>2
  <2> QED
    BY <2>1 DEF TicketInv
<1>3. CASE slot[d] < slot[c]
  <2>1. slot[d] \in 0..(slot[c] - 1)
    BY <1>1, <1>3
  <2> QED
    BY <2>1 DEF TicketInv
<1>4. CASE slot[c] = slot[d]
  BY <1>4, <1>1 DEF TicketInv
<1> QED
  BY <1>1, <1>2, <1>3, <1>4

(* The chain's invariant gives mutual exclusion.                           *)
LEMMA TicketExcludes == TypeOK /\ TicketInv => MutualExclusion
<1> SUFFICES ASSUME TypeOK, TicketInv, NEW c \in Caller, NEW d \in Caller,
                    pc[c] \in Holding, pc[d] \in Holding
             PROVE  c = d
  BY DEF MutualExclusion
<1>1. slot[c] > 0 /\ slot[d] > 0
  BY DEF TypeOK, TicketInv, Holding
<1> QED
  BY <1>1, FirstUnresolved DEF TicketInv

(* Steps that neither claim nor resolve a slot keep the invariant when no  *)
(* caller moves into a state the chain does not allow it.                  *)
LEMMA TicketFrame ==
  ASSUME TypeOK, TicketInv, NEW c \in Caller, UNCHANGED <<tail, resolved, slot>>,
         \A d \in Caller : d # c => pc'[d] = pc[d],
         pc[c] # "idle", pc'[c] # "idle",
         pc'[c] \in Holding \cup {"parked", "abandoned"} => slot[c] \notin resolved,
         pc'[c] \in Holding => slot[c] - 1 \in resolved
  PROVE  TicketInv'
  BY DEF TicketInv

(* Resolving the slot of the caller whose turn it is.                      *)
LEMMA TicketResolve ==
  ASSUME TypeOK, TicketInv, NEW c \in Caller, pc[c] # "idle",
         slot[c] - 1 \in resolved,
         UNCHANGED <<tail, slot>>, resolved' = resolved \cup {slot[c]},
         pc' = [pc EXCEPT ![c] = "done"]
  PROVE  TicketInv'
<1>1. tail \in Nat /\ slot[c] \in 0..tail /\ slot[c] > 0
  BY DEF TypeOK, TicketInv
<1>2. (resolved \subseteq 0..tail)'
  BY <1>1 DEF TicketInv
<1>3. (\A n \in resolved : \A k \in 0..n : k \in resolved)'
  <2> SUFFICES ASSUME NEW n \in resolved', NEW k \in 0..n PROVE k \in resolved'
    OBVIOUS
  <2>1. CASE n \in resolved
    BY <2>1 DEF TicketInv
  <2>2. CASE n = slot[c]
    <3>1. k = slot[c] \/ k \in 0..(slot[c] - 1)
      BY <1>1, <2>2
    <3> QED
      BY <3>1 DEF TicketInv
  <2> QED
    BY <2>1, <2>2
<1>4. (\A d \in Caller : slot[d] \in 0..tail /\ (slot[d] = 0 <=> pc[d] = "idle"))'
  BY <1>1 DEF TicketInv, TypeOK
<1>5. (\A d, e \in Caller : slot[d] = slot[e] /\ slot[d] # 0 => d = e)'
  BY DEF TicketInv
<1>6. (\A d \in Caller : pc[d] \in Holding \cup {"parked", "abandoned"}
                           => slot[d] \notin resolved)'
  <2> SUFFICES ASSUME NEW d \in Caller, pc'[d] \in Holding \cup {"parked", "abandoned"}
               PROVE  slot[d] \notin resolved \cup {slot[c]}
    OBVIOUS
  <2>1. d # c /\ pc[d] = pc'[d]
    BY DEF TypeOK, Holding
  <2> QED
    BY <2>1, <1>1 DEF TicketInv
<1>7. (\A d \in Caller : pc[d] \in Holding => slot[d] - 1 \in resolved)'
  BY DEF TypeOK, TicketInv, Holding
<1> QED
  BY <1>2, <1>3, <1>4, <1>5, <1>6, <1>7 DEF TicketInv

(* Every action keeps the chain's invariant.                               *)
LEMMA TicketStep == TypeOK /\ TicketInv /\ [Next]_vars => TicketInv'
<1> SUFFICES ASSUME TypeOK, TicketInv, [Next]_vars PROVE TicketInv'
  OBVIOUS
<1>1. ASSUME NEW c \in Caller, Claim(c) PROVE TicketInv'
  <2>1. /\ tail \in Nat /\ tail' = tail + 1 /\ resolved' = resolved
        /\ slot' = [slot EXCEPT ![c] = tail + 1] /\ slot \in [Caller -> Nat]
        /\ pc' = [pc EXCEPT ![c] = "parked"] /\ pc \in [Caller -> PCs]
        /\ pc[c] = "idle"
    BY <1>1 DEF Claim, TypeOK, queueVars
  <2>2. \A d \in Caller : d # c => slot'[d] = slot[d] /\ pc'[d] = pc[d]
    BY <2>1
  <2>3. slot'[c] = tail + 1 /\ pc'[c] = "parked"
    BY <2>1
  <2>4. \A d \in Caller : slot[d] \in 0..tail
    BY DEF TicketInv
  <2>5. tail + 1 \notin resolved /\ resolved \subseteq 0..tail
    BY <2>1 DEF TicketInv
  <2>6. (resolved \subseteq 0..tail)'
    BY <2>1, <2>5
  <2>7. (\A n \in resolved : \A k \in 0..n : k \in resolved)'
    BY <2>1 DEF TicketInv
  <2>8. (\A d \in Caller : slot[d] \in 0..tail /\ (slot[d] = 0 <=> pc[d] = "idle"))'
    BY <2>1, <2>2, <2>3, <2>4 DEF TicketInv
  <2>9. (\A d, e \in Caller : slot[d] = slot[e] /\ slot[d] # 0 => d = e)'
    BY <2>1, <2>2, <2>3, <2>4 DEF TicketInv
  <2>10. (\A d \in Caller : pc[d] \in Holding \cup {"parked", "abandoned"}
                              => slot[d] \notin resolved)'
    BY <2>1, <2>2, <2>3, <2>5 DEF TicketInv
  <2>11. (\A d \in Caller : pc[d] \in Holding => slot[d] - 1 \in resolved)'
    BY <2>1, <2>2, <2>3 DEF TicketInv, Holding
  <2> QED
    BY <2>6, <2>7, <2>8, <2>9, <2>10, <2>11 DEF TicketInv
<1>2. ASSUME NEW c \in Caller, Enter(c) PROVE TicketInv'
  <2>1. /\ UNCHANGED <<tail, resolved, slot>>
        /\ pc[c] = "parked" /\ pc'[c] \in Holding
        /\ \A d \in Caller : d # c => pc'[d] = pc[d]
        /\ slot[c] - 1 \in resolved
    BY <1>2 DEF Enter, EnterTx, EnterLock, EnterCapture, Granted, queueVars, TypeOK, Holding
  <2> QED
    BY <2>1, TicketFrame DEF TicketInv, Holding
<1>3. ASSUME NEW c \in Caller,
             Begin(c) \/ OwnerSettle(c) \/ ContextSettled(c) \/ Commit(c) \/ Rollback(c)
      PROVE  TicketInv'
  <2>1. /\ UNCHANGED <<tail, resolved, slot>>
        /\ pc[c] \in Holding /\ pc'[c] \in Holding
        /\ \A d \in Caller : d # c => pc'[d] = pc[d]
    BY <1>3 DEF Begin, OwnerSettle, ContextSettled, Commit, Rollback, queueVars, TypeOK, Holding
  <2> QED
    BY <2>1, TicketFrame DEF TicketInv, Holding
<1>4. ASSUME NEW c \in Caller, Release(c) PROVE TicketInv'
  <2>1. pc[c] \in Holding /\ pc[c] # "idle"
    BY <1>4 DEF Release, Holding
  <2> QED
    BY <1>4, <2>1, TicketResolve DEF Release, TicketInv
<1>5. ASSUME NEW c \in Caller, PassOn(c) PROVE TicketInv'
  BY <1>5, TicketResolve DEF PassOn, Granted
<1>6. ASSUME NEW c \in Caller, DevDeadline(c) PROVE TicketInv'
  <2>1. /\ UNCHANGED <<tail, resolved, slot>>
        /\ pc[c] = "parked" /\ pc'[c] \in {"parked", "abandoned"}
        /\ \A d \in Caller : d # c => pc'[d] = pc[d]
    BY <1>6 DEF DevDeadline, queueVars, TypeOK
  <2> QED
    BY <2>1, TicketFrame DEF TicketInv, Holding
<1>7. ASSUME UNCHANGED <<tail, resolved, slot, pc>> PROVE TicketInv'
  BY <1>7 DEF TicketInv
<1>8. ASSUME NEW c \in Caller, Warn(c) \/ Escalate(c) \/ OwnerWrite(c)
      PROVE  UNCHANGED <<tail, resolved, slot, pc>>
  BY <1>8 DEF Warn, Escalate, OwnerWrite, queueVars
<1>9. ASSUME NEW t \in Task,
             TaskWrite(t) \/ TaskSettle(t) \/ \E c \in Caller : Register(t, c)
      PROVE  UNCHANGED <<tail, resolved, slot, pc>>
  BY <1>9 DEF TaskWrite, TaskSettle, Register, queueVars
<1>10. ASSUME (\E b \in Bystander : PlainWrite(b)) \/ Revoke \/ UNCHANGED vars
       PROVE  UNCHANGED <<tail, resolved, slot, pc>>
  BY <1>10 DEF PlainWrite, Revoke, vars, queueVars
<1> QED
  BY <1>1, <1>2, <1>3, <1>4, <1>5, <1>6, <1>7, <1>8, <1>9, <1>10
  DEF Next, Progress, Timers

(* The chain of slots stays in order in every behaviour.                   *)
LEMMA TicketAlways == Spec => [](TypeOK /\ TicketInv)
<1>1. Init => TicketInv
  BY DEF Init, TicketInv, Holding
<1> QED
  BY <1>1, TicketStep, TypeCorrect, PTL DEF Spec

(* At most one caller is between its grant and its release, for any number *)
(* of callers and whichever of them a development build rejects.           *)
THEOREM QueueIsExclusive == Spec => []MutualExclusion
  BY TicketAlways, TicketExcludes, PTL

-----------------------------------------------------------------------------
(* The SQL transaction.  It is open exactly while its owner is in one of   *)
(* the SqlOpen states, and tasks run only while their owner still waits.   *)

SqlInv ==
  /\ \A c \in Caller : Op[c] = "tx" /\ pc[c] \in SqlOpen => sql = c
  /\ sql # None => sql \in Caller /\ Op[sql] = "tx" /\ pc[sql] \in SqlOpen
  /\ \A c \in Caller : pc[c] \in {"beginning", "settling", "committing", "rollback"}
                         => Op[c] = "tx"
  /\ \A c \in Caller : pc[c] = "running" => Op[c] # "capture"
  /\ \A c \in Caller : accepting[c] => Op[c] = "tx" /\ pc[c] = "running"
  /\ \A t \in Task : status[t] = "running" =>
       ctx[t] \in Caller /\ Op[ctx[t]] = "tx" /\ pc[ctx[t]] \in {"running", "settling"}
  /\ \A c \in Caller : Op[c] = "lock" => c \notin uncommitted

(* A holder other than the SQL owner finds no SQL transaction open.        *)
LEMMA HolderSeesOwnSql ==
  ASSUME MutualExclusion, SqlInv, NEW c \in Caller, pc[c] \in Holding
  PROVE  sql = None \/ sql = c
  BY DEF MutualExclusion, SqlInv, SqlOpen, Holding

(* Every action keeps it.                                                  *)
LEMMA SqlStep == TypeOK /\ MutualExclusion /\ SqlInv /\ [Next]_vars => SqlInv'
<1> SUFFICES ASSUME TypeOK, MutualExclusion, SqlInv, [Next]_vars PROVE SqlInv'
  OBVIOUS
<1> USE DEF queueVars, watchVars, ctxVars, dataVars
<1>0. pc \in [Caller -> PCs] /\ None \notin Caller /\ Caller \cap Task = {}
      /\ Caller \cap Bystander = {}
  BY CallerAssumption DEF TypeOK
<1>1. ASSUME NEW c \in Caller,
             Claim(c) \/ Enter(c) \/ Release(c) \/ PassOn(c) \/ DevDeadline(c)
      PROVE  SqlInv'
  <2>1. /\ UNCHANGED <<sql, uncommitted, accepting, status, ctx>>
        /\ \A d \in Caller : d # c => pc'[d] = pc[d]
        /\ pc[c] \in {"idle", "parked", "releasing", "abandoned"}
        /\ pc'[c] \in {"parked", "beginning", "running", "releasing", "abandoned", "done"}
        /\ pc'[c] = "beginning" => Op[c] = "tx"
        /\ pc'[c] = "running" => Op[c] = "lock"
    BY <1>0, <1>1 DEF Claim, Enter, EnterTx, EnterLock, EnterCapture, Release, PassOn,
                      DevDeadline, PCs
  <2>2. sql # c
    BY <1>0, <2>1 DEF SqlInv, SqlOpen
  <2>3. \A t \in Task : status[t] = "running" => ctx[t] # c
    BY <2>1 DEF SqlInv
  <2>4. ~accepting[c]
    BY <2>1 DEF SqlInv
  <2> QED
    BY <2>1, <2>2, <2>3, <2>4 DEF SqlInv, SqlOpen
<1>2. ASSUME NEW c \in Caller, Begin(c) PROVE SqlInv'
  <2>1. /\ Op[c] = "tx" /\ pc[c] = "beginning"
        /\ UNCHANGED <<uncommitted, status, ctx>>
        /\ \A d \in Caller : d # c => pc'[d] = pc[d] /\ accepting'[d] = accepting[d]
    BY <1>2, <1>0 DEF Begin, SqlInv, TypeOK
  <2>2. sql # c /\ ~accepting[c] /\ \A t \in Task : status[t] = "running" => ctx[t] # c
    BY <2>1, <1>0 DEF SqlInv, SqlOpen
  <2>3. CASE sql = None /\ sql' = c /\ pc'[c] \in {"running", "rollback"}
             /\ (accepting'[c] => pc'[c] = "running")
    <3>1. \A d \in Caller : Op[d] = "tx" /\ pc[d] \in SqlOpen => FALSE
      BY <2>3, <1>0 DEF SqlInv
    <3> QED
      BY <2>1, <2>2, <2>3, <3>1 DEF SqlInv, SqlOpen
  <2>4. CASE sql' = sql /\ pc'[c] = "releasing" /\ accepting' = accepting
    BY <2>1, <2>2, <2>4 DEF SqlInv, SqlOpen
  <2> QED
    BY <1>2, <1>0, <2>2, <2>3, <2>4 DEF Begin, TypeOK
<1>3. ASSUME NEW c \in Caller, OwnerSettle(c) PROVE SqlInv'
  <2>1. /\ UNCHANGED <<sql, uncommitted, status, ctx>>
        /\ pc[c] = "running" /\ ~accepting'[c]
        /\ pc'[c] = IF Op[c] = "tx" THEN "settling" ELSE "releasing"
        /\ \A d \in Caller : d # c => pc'[d] = pc[d] /\ accepting'[d] = accepting[d]
    BY <1>3, <1>0 DEF OwnerSettle, TypeOK
  <2> QED
    BY <2>1 DEF SqlInv, SqlOpen
<1>4. ASSUME NEW c \in Caller, ContextSettled(c) PROVE SqlInv'
  <2>1. /\ UNCHANGED <<sql, uncommitted, status, ctx, accepting>>
        /\ pc[c] = "settling" /\ pc'[c] \in {"committing", "rollback"}
        /\ \A d \in Caller : d # c => pc'[d] = pc[d]
        /\ \A t \in Task : status[t] = "running" => ctx[t] # c
    BY <1>4, <1>0 DEF ContextSettled, Settled, TasksOf, TypeOK
  <2> QED
    BY <2>1 DEF SqlInv, SqlOpen
<1>5. ASSUME NEW c \in Caller, Commit(c) \/ Rollback(c) PROVE SqlInv'
  <2>1. /\ UNCHANGED <<status, ctx, accepting>>
        /\ pc[c] \in {"committing", "rollback"}
        /\ \A d \in Caller : d # c => pc'[d] = pc[d]
        /\ \/ sql' = None /\ pc'[c] = "releasing" /\ uncommitted' = {}
           \/ sql' = sql /\ pc'[c] = "rollback" /\ uncommitted' = uncommitted
    BY <1>5, <1>0 DEF Commit, Rollback, TypeOK
  <2>2. Op[c] = "tx" /\ sql = c
    BY <2>1 DEF SqlInv, SqlOpen
  <2>3. \A d \in Caller : Op[d] = "tx" /\ pc[d] \in SqlOpen => d = c
    BY <2>2 DEF SqlInv
  <2> QED
    BY <2>1, <2>2, <2>3 DEF SqlInv, SqlOpen
<1>6. ASSUME NEW c \in Caller, OwnerWrite(c) PROVE SqlInv'
  <2>1. Op[c] = "lock" => sql = None
    BY <1>6, HolderSeesOwnSql DEF OwnerWrite, Holding, SqlInv
  <2>2. \A d \in Caller : Op[d] = "lock" => d \notin uncommitted'
    BY <1>6, <2>1 DEF OwnerWrite, Write, SqlInv
  <2> QED
    BY <1>6, <2>2 DEF OwnerWrite, Write, SqlInv
<1>7. ASSUME NEW w \in Task \cup Bystander, TaskWrite(w) \/ PlainWrite(w) PROVE SqlInv'
  <2>1. w \notin Caller
    BY <1>0
  <2> QED
    BY <1>7, <2>1 DEF TaskWrite, PlainWrite, Write, SqlInv
<1>8. ASSUME NEW t \in Task, TaskSettle(t) PROVE SqlInv'
  BY <1>8 DEF TaskSettle, SqlInv, TypeOK
<1>9. ASSUME NEW t \in Task, NEW c \in Caller, Register(t, c) PROVE SqlInv'
  BY <1>9 DEF Register, SqlInv, TypeOK
<1>10. ASSUME UNCHANGED <<pc, sql, uncommitted, status, ctx, accepting>> PROVE SqlInv'
  BY <1>10 DEF SqlInv
<1>11. ASSUME NEW c \in Caller, Warn(c) \/ Escalate(c)
       PROVE  UNCHANGED <<pc, sql, uncommitted, status, ctx, accepting>>
  BY <1>11 DEF Warn, Escalate
<1>12. ASSUME Revoke \/ UNCHANGED vars
       PROVE  UNCHANGED <<pc, sql, uncommitted, status, ctx, accepting>>
  BY <1>12 DEF Revoke, vars
<1> QED
  BY <1>1, <1>2, <1>3, <1>4, <1>5, <1>6, <1>7, <1>8, <1>9, <1>10, <1>11, <1>12
  DEF Next, Progress, Timers

(* In every behaviour an open SQL transaction belongs to the one holder.   *)
LEMMA SqlAlways == Spec => [](MutualExclusion /\ SqlInv)
<1>1. Init => SqlInv
  BY CallerAssumption DEF Init, SqlInv, SqlOpen
<1> QED
  BY <1>1, SqlStep, TypeCorrect, QueueIsExclusive, PTL DEF Spec

(* However many tasks are registered and however they end, none runs once  *)
(* its transaction has been committed or rolled back.                      *)
THEOREM NoTaskEscapes == Spec => []TasksStayInside
<1>1. SqlInv => TasksStayInside
  BY CallerAssumption DEF SqlInv, TasksStayInside, SqlOpen
<1> QED
  BY <1>1, SqlAlways, PTL

(* No rollback can reach a statement made under withDbWriteLock.           *)
THEOREM LockIsDurable == Spec => []LockedWritesAreDurable
<1>1. SqlInv => LockedWritesAreDurable
  BY DEF SqlInv, LockedWritesAreDurable
<1> QED
  BY <1>1, SqlAlways, PTL

-----------------------------------------------------------------------------
(* Revocation.  Once the account is gone, a guarded transaction whose      *)
(* COMMIT was not sent is Barred, and it stays so.                         *)

RejectedInv == \A c \in Caller : pc[c] = "abandoned" => outcome[c] = "error"

(* A claim that was rejected has told its caller so.                       *)
LEMMA RejectedStep == TypeOK /\ RejectedInv /\ [Next]_vars => RejectedInv'
<1> SUFFICES ASSUME TypeOK, RejectedInv, [Next]_vars, NEW c \in Caller,
                    pc'[c] = "abandoned"
             PROVE  outcome'[c] = "error"
  BY DEF RejectedInv
<1> USE DEF queueVars, watchVars, ctxVars, dataVars
<1>0. /\ pc \in [Caller -> PCs] /\ outcome \in [Caller -> {"none", "ok", "error"}]
  BY DEF TypeOK
<1>1. CASE UNCHANGED <<pc, outcome>>
  BY <1>1 DEF RejectedInv
<1>2. ASSUME NEW d \in Caller, DevDeadline(d) PROVE outcome'[c] = "error"
  BY <1>0, <1>2 DEF DevDeadline, RejectedInv
<1>3. ASSUME NEW d \in Caller, Claim(d) \/ Progress(d) PROVE outcome'[c] = "error"
  <2>1. d # c
    BY <1>0, <1>3 DEF Claim, Progress, Enter, EnterTx, EnterLock, EnterCapture, Begin,
       OwnerSettle, ContextSettled, Commit, Rollback, Release, PassOn
  <2>2. pc'[c] = pc[c] /\ outcome'[c] = outcome[c]
    BY <1>0, <1>3, <2>1 DEF Claim, Progress, Enter, EnterTx, EnterLock, EnterCapture, Begin,
       OwnerSettle, ContextSettled, Commit, Rollback, Release, PassOn
  <2> QED
    BY <2>2 DEF RejectedInv
<1>4. ASSUME NEW d \in Caller, Warn(d) \/ Escalate(d) \/ OwnerWrite(d)
      PROVE  UNCHANGED <<pc, outcome>>
  BY <1>4 DEF Warn, Escalate, OwnerWrite
<1>5. ASSUME NEW t \in Task,
             TaskWrite(t) \/ TaskSettle(t) \/ \E d \in Caller : Register(t, d)
      PROVE  UNCHANGED <<pc, outcome>>
  BY <1>5 DEF TaskWrite, TaskSettle, Register
<1>6. ASSUME (\E b \in Bystander : PlainWrite(b)) \/ Revoke \/ UNCHANGED vars
      PROVE  UNCHANGED <<pc, outcome>>
  BY <1>6 DEF PlainWrite, Revoke, vars
<1> QED
  BY <1>1, <1>2, <1>3, <1>4, <1>5, <1>6 DEF Next, Timers

(* In every behaviour a rejected claim was reported to its caller.         *)
LEMMA RejectedAlways == Spec => []RejectedInv
<1>1. Init => RejectedInv
  BY DEF Init, RejectedInv
<1> QED
  BY <1>1, RejectedStep, TypeCorrect, PTL DEF Spec

Barred(c) ==
  /\ ~current /\ Op[c] = "tx" /\ Guard[c] # NoGuard
  /\ pc[c] # "committing"
  /\ pc[c] \in {"releasing", "done"} => outcome[c] # "ok"

(* No action of anyone's lifts the bar: the final guard refuses COMMIT.    *)
LEMMA BarredStep ==
  ASSUME NEW c \in Caller, TypeOK, RejectedInv, Barred(c), [Next]_vars PROVE Barred(c)'
<1> USE DEF queueVars, watchVars, ctxVars, dataVars
<1>0. /\ pc \in [Caller -> PCs] /\ outcome \in [Caller -> {"none", "ok", "error"}]
      /\ ~CommitAllowed(Guard[c]) /\ ~current
  BY DEF TypeOK, CommitAllowed, Barred
<1>1. ASSUME NEW d \in Caller, d # c,
             Claim(d) \/ Progress(d) \/ Timers(d) \/ OwnerWrite(d)
      PROVE  Barred(c)'
  <2>1. pc'[c] = pc[c] /\ outcome'[c] = outcome[c] /\ current' = current
    BY <1>0, <1>1 DEF Claim, Progress, Timers, OwnerWrite, Enter, EnterTx, EnterLock,
       EnterCapture, Begin, OwnerSettle, ContextSettled, Commit, Rollback, Release, PassOn,
       DevDeadline, Warn, Escalate
  <2> QED
    BY <2>1 DEF Barred
<1>2. ASSUME Claim(c) \/ Timers(c) \/ OwnerWrite(c) PROVE Barred(c)'
  BY <1>0, <1>2 DEF Barred, Claim, Timers, OwnerWrite, DevDeadline, Warn, Escalate
<1>3. ASSUME Enter(c) PROVE Barred(c)'
  <2>1. EnterTx(c)
    BY <1>3 DEF Barred, Enter, EnterLock, EnterCapture
  <2>2. /\ pc' = [pc EXCEPT ![c] = "releasing"]
        /\ outcome' = [outcome EXCEPT ![c] = "error"]
        /\ current' = current
    BY <1>0, <2>1 DEF EnterTx
  <2> QED
    BY <1>0, <2>2 DEF Barred
<1>4. ASSUME Begin(c) \/ OwnerSettle(c) PROVE Barred(c)'
  BY <1>0, <1>4 DEF Barred, Begin, OwnerSettle
<1>5. ASSUME ContextSettled(c) PROVE Barred(c)'
  BY <1>0, <1>5 DEF Barred, ContextSettled, MayCommit
<1>6. ASSUME Commit(c) \/ Rollback(c) \/ Release(c) \/ PassOn(c) PROVE Barred(c)'
  <2>1. CASE Commit(c)
    BY <2>1 DEF Barred, Commit
  <2>2. CASE Rollback(c)
    BY <1>0, <2>2 DEF Barred, Rollback
  <2>3. CASE Release(c)
    BY <1>0, <2>3 DEF Barred, Release
  <2>4. CASE PassOn(c)
    BY <1>0, <2>4 DEF Barred, PassOn, RejectedInv
  <2> QED
    BY <1>6, <2>1, <2>2, <2>3, <2>4
<1>7. ASSUME UNCHANGED <<pc, outcome, current>> PROVE Barred(c)'
  BY <1>7 DEF Barred
<1>8. ASSUME NEW t \in Task,
             TaskWrite(t) \/ TaskSettle(t) \/ \E d \in Caller : Register(t, d)
      PROVE  UNCHANGED <<pc, outcome, current>>
  BY <1>8 DEF TaskWrite, TaskSettle, Register
<1>9. ASSUME (\E b \in Bystander : PlainWrite(b)) \/ UNCHANGED vars
      PROVE  UNCHANGED <<pc, outcome, current>>
  BY <1>9 DEF PlainWrite, vars
<1>10. ~Revoke
  BY <1>0 DEF Revoke
<1> QED
  BY <1>1, <1>2, <1>3, <1>4, <1>5, <1>6, <1>7, <1>8, <1>9, <1>10 DEF Next, Progress

(* Revocation wins over every guarded transaction that had not sent its    *)
(* COMMIT: it can never be reported as done.                               *)
THEOREM RevocationWins == Spec => RevokedNeverCommits
<1> SUFFICES ASSUME NEW c \in Caller
             PROVE  Spec =>
               [](/\ ~current /\ Op[c] = "tx" /\ Guard[c] # NoGuard
                  /\ pc[c] \notin {"committing", "releasing", "done"}
                  => [](outcome[c] # "ok" \/ pc[c] \notin {"committing", "releasing", "done"}))
  BY DEF RevokedNeverCommits
<1>1. /\ ~current /\ Op[c] = "tx" /\ Guard[c] # NoGuard
      /\ pc[c] \notin {"committing", "releasing", "done"}
      => Barred(c)
  BY DEF Barred
<1>2. Barred(c) => outcome[c] # "ok" \/ pc[c] \notin {"committing", "releasing", "done"}
  BY DEF Barred
<1>3. TypeOK /\ RejectedInv /\ Barred(c) /\ [Next]_vars => Barred(c)'
  BY BarredStep
<1> QED
  BY <1>1, <1>2, <1>3, TypeCorrect, RejectedAlways, PTL DEF Spec

-----------------------------------------------------------------------------
(* Fences.  A fence that is still valid and expects the present release    *)
(* count has met a stranger only if that stranger holds the queue now, and *)
(* whoever got in with the fence has met none.                             *)

Fenced == {"beginning"} \cup SqlOpen

FenceInv ==
  \A f \in Fence :
    /\ fence[f].valid => fence[f].captured
    /\ fence[f].captured => \A c \in Caller :
         Op[c] = "capture" /\ Guard[c] = f => pc[c] \notin {"idle", "parked", "abandoned"}
    /\ fence[f].expected <= lockReleases
    /\ fence[f].valid /\ fence[f].foreign /\ fence[f].expected = lockReleases
         => \E d \in Caller : Guard[d] # f /\ pc[d] \in Holding
    /\ \A c \in Caller : Guard[c] = f /\ Op[c] = "tx" /\ pc[c] \in Fenced
         => ~fence[f].foreign
    /\ \A c \in Caller : Guard[c] = f /\ pc[c] = "releasing" /\ fence[f].valid
         => ~fence[f].foreign

(* Nobody holds the queue when a caller enters it.                         *)
LEMMA EntersAlone ==
  ASSUME TypeOK, TicketInv, NEW c \in Caller, pc[c] = "parked", Granted(c),
         NEW d \in Caller, pc[d] \in Holding
  PROVE  FALSE
<1>1. slot[d] > 0 /\ slot[c] > 0 /\ c # d
  BY DEF TypeOK, TicketInv, Holding, Granted
<1> QED
  BY <1>1, FirstUnresolved DEF TicketInv, Granted

(* A caller that enters marks every captured fence but its own.            *)
LEMMA FenceEnter ==
  ASSUME TypeOK, TicketInv, FenceInv, NEW c \in Caller, Enter(c) PROVE FenceInv'
<1>1. /\ pc[c] = "parked" /\ Granted(c) /\ pc'[c] \in Holding
      /\ lockReleases' = lockReleases /\ lockReleases \in Nat
      /\ \A d \in Caller : d # c => pc'[d] = pc[d]
  BY DEF Enter, EnterTx, EnterLock, EnterCapture, TypeOK, Holding
<1>2. \A d \in Caller : pc[d] \notin Holding
  BY <1>1, EntersAlone
<1>3. Fence \cap {Account, NoGuard} = {}
      /\ \A d \in Caller : Op[d] = "lock" => Guard[d] = NoGuard
  BY CallerAssumption
<1> SUFFICES ASSUME NEW f \in Fence
             PROVE
    /\ fence'[f].valid => fence'[f].captured
    /\ fence'[f].captured => \A d \in Caller :
         Op[d] = "capture" /\ Guard[d] = f => pc'[d] \notin {"idle", "parked", "abandoned"}
    /\ fence'[f].expected <= lockReleases'
    /\ fence'[f].valid /\ fence'[f].foreign /\ fence'[f].expected = lockReleases'
         => \E d \in Caller : Guard[d] # f /\ pc'[d] \in Holding
    /\ \A d \in Caller : Guard[d] = f /\ Op[d] = "tx" /\ pc'[d] \in Fenced
         => ~fence'[f].foreign
    /\ \A d \in Caller : Guard[d] = f /\ pc'[d] = "releasing" /\ fence'[f].valid
         => ~fence'[f].foreign
  BY DEF FenceInv
<1>4. /\ fence[f] \in FenceState /\ fence[f].expected \in Nat
      /\ MarkForeign(c)[f].captured = fence[f].captured
      /\ MarkForeign(c)[f].valid = fence[f].valid
      /\ MarkForeign(c)[f].expected = fence[f].expected
      /\ MarkForeign(c)[f].foreign =
           (fence[f].foreign \/ (fence[f].captured /\ Guard[c] # f))
      /\ MarkForeign(c) \in [Fence -> FenceState]
  BY MarkForeignType DEF TypeOK, FenceState
<1>5. \A d \in Caller : pc'[d] \in Fenced \cup {"releasing"} => d = c
  BY <1>1, <1>2 DEF Fenced, SqlOpen, Holding
<1>6. CASE Guard[c] # f
  <2>1. fence'[f] = MarkForeign(c)[f]
    BY <1>4, <1>6 DEF Enter, EnterTx, EnterLock, EnterCapture, FenceAdmits
  <2> QED
    BY <1>1, <1>4, <1>5, <1>6, <2>1 DEF FenceInv, Holding
<1>7. CASE Guard[c] = f /\ Op[c] = "tx"
  <2>1. EnterTx(c)
    BY <1>7 DEF Enter, EnterLock, EnterCapture
  <2>2. CASE FenceAdmits(f)
    <3>1. fence'[f] = MarkForeign(c)[f] /\ fence[f].valid /\ fence[f].expected = lockReleases
      BY <1>7, <2>1, <2>2 DEF EnterTx, FenceAdmits
    <3>2. ~fence[f].foreign
      BY <1>2, <3>1 DEF FenceInv
    <3> QED
      BY <1>1, <1>4, <1>5, <1>7, <3>1, <3>2 DEF FenceInv, Holding
  <2>3. CASE ~FenceAdmits(f)
    <3>1. /\ fence' = [MarkForeign(c) EXCEPT ![f].valid = FALSE]
          /\ pc'[c] = "releasing"
      BY <1>7, <2>1, <2>3 DEF EnterTx, TypeOK
    <3>2. /\ fence'[f].valid = FALSE /\ fence'[f].captured = fence[f].captured
          /\ fence'[f].expected = fence[f].expected
      BY <1>4, <3>1 DEF FenceState
    <3> QED
      BY <1>1, <1>4, <1>5, <1>7, <3>1, <3>2 DEF FenceInv, Holding, Fenced, SqlOpen
  <2> QED
    BY <2>2, <2>3
<1>8. CASE Guard[c] = f /\ Op[c] = "capture"
  <2>1. EnterCapture(c) /\ ~fence[f].captured /\ ~fence[f].valid
    BY <1>1, <1>8 DEF Enter, EnterTx, EnterLock, FenceInv
  <2>2. \A d \in Caller : Op[d] = "capture" /\ Guard[d] = f => d = c
    BY <1>8, CallerAssumption
  <2>3. pc'[c] = "releasing"
    BY <2>1 DEF EnterCapture, TypeOK
  <2>4. CASE current
    <3>1. fence'[f] = [captured |-> TRUE, valid |-> TRUE,
                       expected |-> lockReleases, foreign |-> FALSE]
      BY <1>4, <1>8, <2>1, <2>4 DEF EnterCapture
    <3> QED
      BY <1>1, <2>2, <2>3, <3>1
  <2>5. CASE ~current
    <3>1. fence'[f] = MarkForeign(c)[f]
      BY <2>1, <2>5 DEF EnterCapture
    <3> QED
      BY <1>1, <1>4, <1>5, <1>8, <2>1, <2>3, <3>1 DEF FenceInv, Fenced, SqlOpen
  <2> QED
    BY <2>4, <2>5
<1> QED
  BY <1>3, <1>6, <1>7, <1>8, CallerAssumption

(* Every action keeps the invariant.                                       *)
LEMMA FenceStep ==
  TypeOK /\ TicketInv /\ MutualExclusion /\ SqlInv /\ FenceInv /\ [Next]_vars => FenceInv'
<1> SUFFICES ASSUME TypeOK, TicketInv, MutualExclusion, SqlInv, FenceInv, [Next]_vars
             PROVE  FenceInv'
  OBVIOUS
<1> USE DEF queueVars, watchVars, ctxVars, dataVars
<1>0. /\ pc \in [Caller -> PCs] /\ lockReleases \in Nat
      /\ \A f \in Fence : fence[f] \in FenceState /\ fence[f].expected \in Nat
  BY DEF TypeOK, FenceState
<1>1. ASSUME NEW c \in Caller, Enter(c) PROVE FenceInv'
  BY <1>1, FenceEnter
<1>2. ASSUME NEW c \in Caller, Claim(c) \/ PassOn(c) \/ DevDeadline(c) PROVE FenceInv'
  <2>1. /\ UNCHANGED <<fence, lockReleases>>
        /\ \A d \in Caller : d # c => pc'[d] = pc[d]
        /\ pc[c] \in {"idle", "parked", "abandoned"}
        /\ pc'[c] \in {"parked", "abandoned", "done"}
        /\ pc'[c] = "done" => pc[c] = "abandoned"
    BY <1>0, <1>2 DEF Claim, PassOn, DevDeadline
  <2> QED
    BY <2>1 DEF FenceInv, Fenced, SqlOpen, Holding
<1>3. ASSUME NEW c \in Caller,
             Begin(c) \/ OwnerSettle(c) \/ ContextSettled(c) \/ Commit(c) \/ Rollback(c)
      PROVE  FenceInv'
  <2>1. /\ UNCHANGED <<fence, lockReleases>>
        /\ \A d \in Caller : d # c => pc'[d] = pc[d]
        /\ pc[c] \in Fenced /\ pc'[c] \in Fenced \cup {"releasing"}
    BY <1>0, <1>3 DEF Begin, OwnerSettle, ContextSettled, Commit, Rollback, Fenced, SqlOpen
  <2>2. Op[c] = "tx" \/ Guard[c] \notin Fence \/ pc[c] = "running"
    BY <1>0, <2>1 DEF SqlInv, Fenced, SqlOpen
  <2>3. Op[c] = "tx" \/ Guard[c] \notin Fence \/ Op[c] = "capture"
    BY CallerAssumption
  <2>4. pc[c] = "running" => Op[c] # "capture"
    BY DEF SqlInv
  <2> QED
    BY <2>1, <2>2, <2>3, <2>4 DEF FenceInv, Fenced, SqlOpen, Holding
<1>4. ASSUME NEW c \in Caller, Release(c) PROVE FenceInv'
  <2>1. /\ pc[c] = "releasing" /\ lockReleases' = lockReleases + 1
        /\ \A d \in Caller : d # c => pc'[d] = pc[d]
        /\ pc'[c] = "done"
    BY <1>0, <1>4 DEF Release
  <2>2. \A d \in Caller : pc'[d] \notin Holding
    BY <2>1 DEF MutualExclusion, Holding
  <2>3. ASSUME NEW f \in Fence
        PROVE  /\ fence'[f].valid = fence[f].valid
               /\ fence'[f].captured = fence[f].captured
               /\ fence'[f].foreign = fence[f].foreign
               /\ fence'[f].expected = IF Guard[c] = f /\ fence[f].valid
                                       THEN lockReleases + 1 ELSE fence[f].expected
    BY <1>0, <1>4 DEF Release, FenceState
  <2> QED
    BY <1>0, <2>1, <2>2, <2>3 DEF FenceInv, Fenced, SqlOpen, Holding
<1>5. ASSUME UNCHANGED <<pc, fence, lockReleases>> PROVE FenceInv'
  BY <1>5 DEF FenceInv
<1>6. ASSUME NEW c \in Caller, Warn(c) \/ Escalate(c) \/ OwnerWrite(c)
      PROVE  UNCHANGED <<pc, fence, lockReleases>>
  BY <1>6 DEF Warn, Escalate, OwnerWrite
<1>7. ASSUME NEW t \in Task,
             TaskWrite(t) \/ TaskSettle(t) \/ \E c \in Caller : Register(t, c)
      PROVE  UNCHANGED <<pc, fence, lockReleases>>
  BY <1>7 DEF TaskWrite, TaskSettle, Register
<1>8. ASSUME (\E b \in Bystander : PlainWrite(b)) \/ Revoke \/ UNCHANGED vars
      PROVE  UNCHANGED <<pc, fence, lockReleases>>
  BY <1>8 DEF PlainWrite, Revoke, vars
<1> QED
  BY <1>1, <1>2, <1>3, <1>4, <1>5, <1>6, <1>7, <1>8 DEF Next, Progress, Timers

(* A transaction of a fenced sequence never runs after a stranger has held *)
(* the queue, whatever runs between its batches.                           *)
THEOREM FenceHolds == Spec => []FenceExclusive
<1>1. Init => FenceInv
  BY DEF Init, FenceInv, Fenced, SqlOpen
<1>2. FenceInv => FenceExclusive
  BY DEF FenceInv, FenceExclusive, Fenced
<1> QED
  BY <1>1, <1>2, FenceStep, TicketAlways, SqlAlways, PTL DEF Spec

-----------------------------------------------------------------------------
(* All or nothing.  A transaction's statements are its own and those of    *)
(* the tasks registered in it.  None is issued before BEGIN has answered;  *)
(* while the SQL transaction is open all of them are inside it; and its    *)
(* end takes all of them to the same side.                                 *)

Mine(c) == {c} \cup {t \in Task : ctx[t] = c}

Clean(c) == TasksOf(c, "failed") = {} /\ ~violation[c]

Atom(c) ==
  /\ pc[c] \in {"idle", "parked", "abandoned", "beginning"} => Mine(c) \cap issued = {}
  /\ pc[c] \in SqlOpen => /\ Mine(c) \cap committed = {}
                          /\ Mine(c) \cap issued \subseteq uncommitted
  /\ pc[c] = "committing" => outcome[c] = "ok" /\ Clean(c)
  /\ pc[c] \in {"releasing", "done"} =>
       IF outcome[c] = "ok" THEN Clean(c) /\ Mine(c) \cap issued \subseteq committed
       ELSE Mine(c) \cap (committed \cup uncommitted) = {}

AtomInv ==
  /\ committed \cup uncommitted \subseteq issued
  /\ \A t \in Task : status[t] \in {"new", "rejected"} => t \notin issued
  /\ \A c \in Caller : Op[c] = "tx" => Atom(c)

(* A step that issues nothing and moves only c.                            *)
LEMMA AtomFrame ==
  ASSUME AtomInv, NEW c \in Caller,
         UNCHANGED <<committed, uncommitted, issued, ctx, status, violation>>,
         \A d \in Caller : d # c => pc'[d] = pc[d] /\ outcome'[d] = outcome[d],
         Op[c] = "tx" => Atom(c)'
  PROVE  AtomInv'
  BY DEF AtomInv, Atom, Mine, Clean, TasksOf

(* A statement of the transaction that is open, or of nobody's.            *)
LEMMA AtomWrite ==
  ASSUME TypeOK, MutualExclusion, SqlInv, AtomInv, NEW w, Write(w),
         UNCHANGED <<pc, outcome, ctx, status, violation>>,
         w \in Task => status[w] = "running",
         \A c \in Caller : Op[c] = "tx" /\ w \in Mine(c) => pc[c] \in SqlOpen /\ sql = c
  PROVE  AtomInv'
<1>1. /\ issued' = issued \cup {w}
      /\ committed \subseteq committed' /\ committed' \subseteq committed \cup {w}
      /\ uncommitted \subseteq uncommitted' /\ uncommitted' \subseteq uncommitted \cup {w}
      /\ sql # None => committed' = committed /\ w \in uncommitted'
  BY DEF Write
<1>2. ASSUME NEW c \in Caller, Op[c] = "tx" PROVE Atom(c)'
  <2>1. Mine(c)' = Mine(c) /\ Clean(c)' = Clean(c) /\ pc'[c] = pc[c] /\ outcome'[c] = outcome[c]
    BY DEF Mine, Clean, TasksOf
  <2>2. Atom(c)
    BY <1>2 DEF AtomInv
  <2>3. CASE w \in Mine(c)
    <3>1. pc[c] \in SqlOpen /\ sql # None
      BY <1>2, <2>3, CallerAssumption
    <3> QED
      BY <1>1, <2>1, <2>2, <3>1 DEF Atom, SqlOpen
  <2>4. CASE w \notin Mine(c)
    BY <1>1, <2>1, <2>2, <2>4 DEF Atom
  <2> QED
    BY <2>3, <2>4
<1>3. \A t \in Task : status'[t] \in {"new", "rejected"} => t \notin issued'
  BY <1>1 DEF AtomInv
<1> QED
  BY <1>1, <1>2, <1>3 DEF AtomInv

(* Every action keeps it.                                                  *)
LEMMA AtomStep ==
  ASSUME TypeOK, MutualExclusion, SqlInv, RejectedInv, AtomInv, [Next]_vars
  PROVE  AtomInv'
<1> USE DEF queueVars, watchVars, ctxVars, dataVars
<1>0. /\ pc \in [Caller -> PCs] /\ outcome \in [Caller -> {"none", "ok", "error"}]
      /\ status \in [Task -> {"new", "running", "ok", "failed", "rejected"}]
      /\ ctx \in [Task -> Caller \cup {None}]
      /\ violation \in [Caller -> BOOLEAN]
      /\ None \notin Caller /\ Caller \cap Task = {}
      /\ Caller \cap Bystander = {} /\ Task \cap Bystander = {}
  BY CallerAssumption DEF TypeOK
<1>1. ASSUME NEW c \in Caller,
             Claim(c) \/ Enter(c) \/ Begin(c) \/ OwnerSettle(c) \/ ContextSettled(c)
               \/ Release(c) \/ PassOn(c) \/ DevDeadline(c) \/ Warn(c) \/ Escalate(c)
      PROVE  AtomInv'
  <2>1. UNCHANGED <<committed, uncommitted, issued, ctx, status, violation>>
    BY <1>1 DEF Claim, Enter, EnterTx, EnterLock, EnterCapture, Begin, OwnerSettle,
       ContextSettled, Release, PassOn, DevDeadline, Warn, Escalate
  <2>2. \A d \in Caller : d # c => pc'[d] = pc[d] /\ outcome'[d] = outcome[d]
    BY <1>0, <1>1 DEF Claim, Enter, EnterTx, EnterLock, EnterCapture, Begin, OwnerSettle,
       ContextSettled, Release, PassOn, DevDeadline, Warn, Escalate
  <2>3. Mine(c)' = Mine(c) /\ Clean(c)' = Clean(c)
    BY <2>1 DEF Mine, Clean, TasksOf
  <2>4. ASSUME Op[c] = "tx" PROVE Atom(c)'
    <3>1. Atom(c) /\ committed \cup uncommitted \subseteq issued
      BY <2>4 DEF AtomInv
    <3>2. CASE Claim(c) \/ DevDeadline(c) \/ Warn(c) \/ Escalate(c)
      <4>1. /\ pc[c] \in {"idle", "parked"} /\ pc'[c] \in {"parked", "abandoned"}
        BY <1>0, <3>2 DEF Claim, DevDeadline, Warn, Escalate
      <4> QED
        BY <2>1, <2>3, <3>1, <4>1 DEF Atom, SqlOpen
    <3>3. CASE Enter(c) \/ Begin(c)
      <4>1. /\ pc[c] \in {"parked", "beginning"}
            /\ pc'[c] \in {"beginning", "running", "rollback", "releasing"}
            /\ pc'[c] = "releasing" => outcome'[c] = "error"
        BY <1>0, <2>4, <3>3 DEF Enter, EnterTx, EnterLock, EnterCapture, Begin
      <4> QED
        BY <2>1, <2>3, <3>1, <4>1 DEF Atom, SqlOpen
    <3>4. CASE OwnerSettle(c) \/ ContextSettled(c)
      <4>1. /\ pc[c] \in {"running", "settling"}
            /\ pc'[c] \in {"settling", "committing", "rollback"}
            /\ pc'[c] = "committing" => outcome'[c] = "ok" /\ Clean(c)
        BY <1>0, <2>4, <3>4 DEF OwnerSettle, ContextSettled, MayCommit, Clean
      <4> QED
        BY <2>1, <2>3, <3>1, <4>1 DEF Atom, SqlOpen
    <3>5. CASE Release(c)
      <4>1. pc[c] = "releasing" /\ pc'[c] = "done" /\ outcome'[c] = outcome[c]
        BY <1>0, <3>5 DEF Release
      <4> QED
        BY <2>1, <2>3, <3>1, <4>1 DEF Atom, SqlOpen
    <3>6. CASE PassOn(c)
      <4>1. pc[c] = "abandoned" /\ pc'[c] = "done" /\ outcome'[c] = "error"
        BY <1>0, <3>6 DEF PassOn, RejectedInv
      <4> QED
        BY <2>1, <2>3, <3>1, <4>1 DEF Atom, SqlOpen
    <3> QED
      BY <1>1, <3>2, <3>3, <3>4, <3>5, <3>6
  <2> QED
    BY <2>1, <2>2, <2>4, AtomFrame
<1>2. ASSUME NEW c \in Caller, Commit(c) PROVE AtomInv'
  <2>1. CASE pc' = [pc EXCEPT ![c] = "rollback"] /\ UNCHANGED <<committed, uncommitted, issued>>
    <3>1. UNCHANGED <<committed, uncommitted, issued, ctx, status, violation, outcome>>
      BY <1>2, <2>1 DEF Commit
    <3>2. Op[c] = "tx" => Atom(c)'
      BY <1>0, <1>2, <2>1, <3>1 DEF AtomInv, Atom, Mine, Clean, TasksOf, Commit, SqlOpen
    <3> QED
      BY <1>0, <2>1, <3>1, <3>2, AtomFrame
  <2>2. CASE committed' = committed \cup uncommitted /\ uncommitted' = {}
               /\ pc' = [pc EXCEPT ![c] = "releasing"]
    <3>1. UNCHANGED <<issued, ctx, status, violation, outcome>> /\ pc[c] = "committing"
      BY <1>2, <2>2 DEF Commit
    <3>2. ASSUME NEW d \in Caller, Op[d] = "tx" PROVE Atom(d)'
      <4>1. Atom(d) /\ Mine(d)' = Mine(d) /\ Clean(d)' = Clean(d) /\ outcome'[d] = outcome[d]
        BY <3>1, <3>2 DEF AtomInv, Mine, Clean, TasksOf
      <4>2. CASE d = c
        BY <1>0, <2>2, <3>1, <4>1, <4>2 DEF Atom, SqlOpen
      <4>3. CASE d # c
        <5>1. pc'[d] = pc[d] /\ pc[d] \notin SqlOpen
          BY <1>0, <2>2, <3>1, <4>3 DEF MutualExclusion, Holding, SqlOpen
        <5> QED
          BY <2>2, <3>1, <4>1, <5>1 DEF Atom, SqlOpen, AtomInv
      <4> QED
        BY <4>2, <4>3
    <3> QED
      BY <2>2, <3>1, <3>2 DEF AtomInv
  <2> QED
    BY <1>2, <2>1, <2>2 DEF Commit
<1>3. ASSUME NEW c \in Caller, Rollback(c) PROVE AtomInv'
  <2>1. /\ UNCHANGED <<committed, issued, ctx, status, violation>> /\ uncommitted' = {}
        /\ pc[c] = "rollback" /\ pc'[c] = "releasing" /\ outcome'[c] = "error"
        /\ \A d \in Caller : d # c => pc'[d] = pc[d] /\ outcome'[d] = outcome[d]
    BY <1>0, <1>3 DEF Rollback
  <2>2. ASSUME NEW d \in Caller, Op[d] = "tx" PROVE Atom(d)'
    <3>1. Atom(d) /\ Mine(d)' = Mine(d) /\ Clean(d)' = Clean(d)
      BY <2>1, <2>2 DEF AtomInv, Mine, Clean, TasksOf
    <3>2. CASE d = c
      BY <2>1, <3>1, <3>2 DEF Atom, SqlOpen
    <3>3. CASE d # c
      <4>1. pc'[d] = pc[d] /\ pc[d] \notin SqlOpen
        BY <2>1, <3>3 DEF MutualExclusion, Holding, SqlOpen
      <4> QED
        BY <2>1, <3>1, <3>3, <4>1 DEF Atom, SqlOpen
    <3> QED
      BY <3>2, <3>3
  <2> QED
    BY <2>1, <2>2 DEF AtomInv
<1>4. ASSUME NEW c \in Caller, OwnerWrite(c) PROVE AtomInv'
  <2>1. \A d \in Caller : c \in Mine(d) => d = c
    BY <1>0 DEF Mine
  <2>2. Op[c] = "tx" => pc[c] \in SqlOpen /\ sql = c
    BY <1>4 DEF OwnerWrite, SqlInv, SqlOpen
  <2> QED
    BY <1>0, <1>4, <2>1, <2>2, AtomWrite DEF OwnerWrite
<1>5. ASSUME NEW t \in Task, TaskWrite(t) PROVE AtomInv'
  <2>1. \A d \in Caller : t \in Mine(d) => ctx[t] = d
    BY <1>0 DEF Mine
  <2>2. ctx[t] \in Caller /\ pc[ctx[t]] \in SqlOpen /\ sql = ctx[t]
    BY <1>5 DEF TaskWrite, SqlInv, SqlOpen
  <2> QED
    BY <1>0, <1>5, <2>1, <2>2, AtomWrite DEF TaskWrite
<1>6. ASSUME NEW b \in Bystander, PlainWrite(b) PROVE AtomInv'
  <2>1. b \notin Task /\ \A d \in Caller : b \notin Mine(d)
    BY <1>0 DEF Mine
  <2> QED
    BY <1>6, <2>1, AtomWrite DEF PlainWrite
<1>7. ASSUME NEW t \in Task, TaskSettle(t) PROVE AtomInv'
  <2>1. /\ UNCHANGED <<committed, uncommitted, issued, ctx, violation, pc, outcome>>
        /\ status[t] = "running" /\ status'[t] \in {"ok", "failed"}
        /\ \A u \in Task : u # t => status'[u] = status[u]
    BY <1>0, <1>7 DEF TaskSettle
  <2>2. ctx[t] \in Caller /\ pc[ctx[t]] \in {"running", "settling"}
    BY <2>1 DEF SqlInv
  <2>3. ASSUME NEW c \in Caller, Op[c] = "tx" PROVE Atom(c)'
    <3>1. Atom(c) /\ Mine(c)' = Mine(c)
      BY <2>1, <2>3 DEF AtomInv, Mine
    <3>2. pc[c] \in {"committing", "releasing", "done"} => Clean(c)' = Clean(c)
      BY <2>1, <2>2 DEF Clean, TasksOf
    <3> QED
      BY <2>1, <3>1, <3>2 DEF Atom
  <2> QED
    BY <2>1, <2>3 DEF AtomInv
<1>8. ASSUME NEW t \in Task, NEW c \in Caller, Register(t, c) PROVE AtomInv'
  <2>1. /\ UNCHANGED <<committed, uncommitted, issued, pc, outcome>>
        /\ status[t] = "new" /\ status'[t] \in {"running", "rejected"}
        /\ \A u \in Task : u # t => status'[u] = status[u] /\ ctx'[u] = ctx[u]
        /\ \A d \in Caller : pc[d] # "settling" => violation'[d] = violation[d]
    BY <1>0, <1>8 DEF Register
  <2>2. t \notin issued /\ t \notin committed /\ t \notin uncommitted
    BY <2>1 DEF AtomInv
  <2>3. ASSUME NEW d \in Caller, Op[d] = "tx" PROVE Atom(d)'
    <3>1. Atom(d) /\ Mine(d)' \subseteq Mine(d) \cup {t}
      BY <2>1, <2>3 DEF AtomInv, Mine
    <3>2. pc[d] # "settling" /\ Clean(d) => Clean(d)'
      BY <2>1 DEF Clean, TasksOf
    <3> QED
      BY <2>1, <2>2, <3>1, <3>2 DEF Atom
  <2> QED
    BY <2>1, <2>2, <2>3 DEF AtomInv
<1>9. ASSUME Revoke \/ UNCHANGED vars PROVE AtomInv'
  <2>1. UNCHANGED <<committed, uncommitted, issued, ctx, status, violation, pc, outcome>>
    BY <1>9 DEF Revoke, vars
  <2> QED
    BY <2>1 DEF AtomInv, Atom, Mine, Clean, TasksOf
<1> QED
  BY <1>1, <1>2, <1>3, <1>4, <1>5, <1>6, <1>7, <1>8, <1>9 DEF Next, Progress, Timers

(* A transaction that reports success has every statement of its callback  *)
(* and its tasks durable and hides no failure; one that reports an error   *)
(* has none, for any number of tasks and however COMMIT and ROLLBACK end.  *)
THEOREM TransactionsAreAtomic == Spec => []AllOrNothing
<1>1. Init => AtomInv
  <2> SUFFICES ASSUME Init PROVE AtomInv
    OBVIOUS
  <2>1. committed = {} /\ uncommitted = {} /\ issued = {} /\ \A c \in Caller : pc[c] = "idle"
    BY DEF Init
  <2> QED
    BY <2>1 DEF AtomInv, Atom, SqlOpen
<1>2. AtomInv => AllOrNothing
  <2> SUFFICES ASSUME AtomInv, NEW c \in Caller, Op[c] = "tx", pc[c] = "done"
               PROVE  IF outcome[c] = "ok"
                      THEN /\ TasksOf(c, "failed") = {} /\ ~violation[c]
                           /\ ({c} \cup TasksOf(c, "ok")) \cap issued \subseteq committed
                      ELSE ({c} \cup TasksOf(c, "ok") \cup TasksOf(c, "failed"))
                             \cap (committed \cup uncommitted) = {}
    BY DEF AllOrNothing
  <2>1. Atom(c)
    BY DEF AtomInv
  <2>2. {c} \cup TasksOf(c, "ok") \cup TasksOf(c, "failed") \subseteq Mine(c)
    BY DEF TasksOf, Mine
  <2> QED
    BY <2>1, <2>2 DEF Atom, Clean
<1> QED
  BY <1>1, <1>2, AtomStep, TypeCorrect, QueueIsExclusive, SqlAlways, RejectedAlways, PTL DEF Spec

=============================================================================
