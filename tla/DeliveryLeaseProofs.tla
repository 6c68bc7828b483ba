------------------------- MODULE DeliveryLeaseProofs -------------------------
(***************************************************************************)
(* The account barrier for any work, any pauses and any number of          *)
(* generations: what a resolved pause promises, to whom work belongs, and  *)
(* who can still be dormant.                                               *)
(***************************************************************************)
EXTENDS DeliveryLease, TLAPS

(* What any step does to the gate, the leases and the pauses, whatever it  *)
(* does to the listeners: also the steps of a module that admits and       *)
(* listens in one step.                                                    *)
GateStep ==
  \/ \E w \in Work : Capture(w) \/ Admit(w) \/ Refuse(w) \/ Settle(w)
  \/ \E p \in Pauser : Pause(p) \/ Drained(p)
  \/ Resume
  \/ UNCHANGED <<gateVars, lease, stage, pauseVars, historyVars>>

(* Every step of the barrier alone is one.                                 *)
LEMMA LeaseGateSteps == [LeaseNext]_leaseVars => GateStep
  BY DEF LeaseNext, GateStep, Subscribe, Unsubscribe, leaseVars, gateVars, workVars,
         pauseVars, historyVars

(* The steps of LeaseNext, each with everything it leaves alone.           *)
LEMMA LeaseSteps ==
  ASSUME [LeaseNext]_leaseVars
  PROVE  \/ \E w \in Work :
              \/ Capture(w) \/ Subscribe(w) \/ Unsubscribe(w)
              \/ Admit(w) /\ UNCHANGED watch
              \/ Refuse(w) /\ UNCHANGED watch
              \/ Settle(w) /\ UNCHANGED watch
         \/ \E p \in Pauser : Pause(p) \/ Drained(p)
         \/ Resume
         \/ UNCHANGED leaseVars
  BY DEF LeaseNext

(* Every step keeps the state well typed.                                  *)
LEMMA LeaseTypeStep ==
  ASSUME LeaseTypeOK, [LeaseNext]_leaseVars PROVE LeaseTypeOK'
<1> USE LeaseAssumption DEF LeaseTypeOK, Lease, gateVars, workVars, pauseVars, historyVars
<1>1. ASSUME NEW w \in Work, Capture(w) PROVE LeaseTypeOK'
  BY <1>1 DEF Capture
<1>2. ASSUME NEW w \in Work, Subscribe(w) \/ Unsubscribe(w) PROVE LeaseTypeOK'
  <2>1. UNCHANGED <<gateVars, lease, stage, pauseVars, historyVars>>
    BY <1>2 DEF Subscribe, Unsubscribe
  <2>2. watch' \in [Work -> {"none", "live", "woken", "over"}]
    BY <1>2 DEF Subscribe, Unsubscribe, Listen, Unlisten
  <2> QED
    BY <2>1, <2>2
<1>3. ASSUME NEW w \in Work, UNCHANGED watch, Admit(w) \/ Refuse(w) \/ Settle(w)
      PROVE  LeaseTypeOK'
  BY <1>3 DEF Admit, Refuse, Settle
<1>4. ASSUME NEW p \in Pauser, Pause(p) PROVE LeaseTypeOK'
  <2>1. watch' \in [Work -> {"none", "live", "woken", "over"}]
    BY <1>4 DEF Pause, Wake
  <2>2. Admitted \subseteq Work
    BY DEF Admitted
  <2>3. generation' \in Nat
    BY <1>4 DEF Pause
  <2> QED
    BY <1>4, <2>1, <2>2, <2>3 DEF Pause, ToAwait
<1>5. ASSUME NEW p \in Pauser, Drained(p) PROVE LeaseTypeOK'
  BY <1>5 DEF Drained
<1>6. CASE Resume
  BY <1>6 DEF Resume
<1>7. CASE UNCHANGED leaseVars
  BY <1>7 DEF leaseVars
<1> QED
  BY <1>1, <1>2, <1>3, <1>4, <1>5, <1>6, <1>7, LeaseSteps

(* The barrier is well typed in every behaviour.                           *)
THEOREM LeaseTypeCorrect == LeaseSpec => []LeaseTypeOK
<1>1. LeaseInit => LeaseTypeOK
  BY DEF LeaseInit, LeaseTypeOK, Lease
<1> QED
  BY <1>1, LeaseTypeStep, PTL DEF LeaseSpec

-----------------------------------------------------------------------------
(* A pause and the work it found.  Work of a generation that a waiting     *)
(* pause has retired is among what the pause awaits: a pause that found    *)
(* admission closed already has read the slots again, and a later          *)
(* admission is of the present generation.                                 *)

DrainInv ==
  \A p \in Pauser :
    pause[p] # "idle" =>
      /\ closedAt[p] <= generation
      /\ \A w \in Admitted : lease[w].generation < closedAt[p] =>
           pause[p] = "waiting" /\ w \in awaited[p]

(* A lease is never ahead of its barrier, nor is the work admitted by it.  *)
LeaseInPast == \A w \in Work : lease[w].generation <= generation

(* No step strands work of a retired generation outside a pause's wait.   *)
LEMMA DrainStep ==
  ASSUME LeaseTypeOK, LeaseInPast, DrainInv, GateStep
  PROVE  LeaseInPast' /\ DrainInv'
<1> USE DEF LeaseTypeOK, Lease, gateVars, workVars, pauseVars, historyVars
<1>1. ASSUME NEW w \in Work, Capture(w) PROVE LeaseInPast' /\ DrainInv'
  <2>1. LeaseInPast'
    BY <1>1 DEF Capture, LeaseInPast
  <2>2. \A x \in Admitted' : x \in Admitted /\ lease'[x] = lease[x]
    BY <1>1 DEF Capture, Admitted
  <2> QED
    BY <1>1, <2>1, <2>2 DEF Capture, DrainInv
<1>2. ASSUME NEW w \in Work, Admit(w) PROVE LeaseInPast' /\ DrainInv'
  <2>1. Admitted' = Admitted \cup {w} /\ lease[w].generation = generation
    BY <1>2 DEF Admit, Current, Admitted
  <2>2. UNCHANGED <<generation, lease, pause, closedAt, awaited>>
    BY <1>2 DEF Admit
  <2>3. LeaseInPast'
    BY <2>2 DEF LeaseInPast
  <2>4. ASSUME NEW p \in Pauser, pause[p] # "idle", NEW x \in Admitted',
               lease[x].generation < closedAt[p]
        PROVE  pause[p] = "waiting" /\ x \in awaited[p]
    <3>1. generation \in Nat /\ closedAt[p] \in Nat /\ closedAt[p] <= generation
      BY <2>4 DEF DrainInv
    <3>2. x \in Admitted
      BY <2>1, <2>4, <3>1
    <3> QED
      BY <2>4, <3>2 DEF DrainInv
  <2> QED
    BY <2>2, <2>3, <2>4 DEF DrainInv
<1>3. ASSUME NEW w \in Work,
             Refuse(w) \/ Settle(w)
      PROVE  LeaseInPast' /\ DrainInv'
  <2>1. UNCHANGED <<generation, lease, pause, closedAt, awaited>>
    BY <1>3 DEF Refuse, Settle
  <2>2. Admitted' \subseteq Admitted
    BY <1>3 DEF Refuse, Settle, Admitted
  <2> QED
    BY <2>1, <2>2 DEF LeaseInPast, DrainInv
<1>4. ASSUME NEW p \in Pauser, Pause(p) PROVE LeaseInPast' /\ DrainInv'
  <2>1. generation \in Nat /\ generation' \in {generation, generation + 1}
    BY <1>4 DEF Pause
  <2>2. UNCHANGED <<lease, stage>> /\ Admitted' = Admitted
    BY <1>4 DEF Pause, Admitted
  <2>3. LeaseInPast'
    BY <2>1, <2>2 DEF LeaseInPast
  <2>4. /\ closedAt'[p] = generation' /\ pause'[p] = "waiting" /\ awaited'[p] = Admitted
        /\ \A q \in Pauser \ {p} : /\ closedAt'[q] = closedAt[q]
                                   /\ pause'[q] = pause[q] /\ awaited'[q] = awaited[q]
    BY <1>4 DEF Pause, ToAwait
  <2>5. ASSUME NEW q \in Pauser, pause'[q] # "idle"
        PROVE  /\ closedAt'[q] <= generation'
               /\ \A w \in Admitted' : lease'[w].generation < closedAt'[q] =>
                    pause'[q] = "waiting" /\ w \in awaited'[q]
    <3>1. CASE q = p
      BY <2>1, <2>2, <2>4, <3>1
    <3>2. CASE q # p
      <4>1. pause[q] # "idle" /\ closedAt[q] <= generation
        BY <2>4, <2>5, <3>2 DEF DrainInv
      <4>2. closedAt'[q] <= generation'
        BY <2>1, <2>4, <3>2, <4>1
      <4> QED
        BY <2>2, <2>4, <3>2, <4>1, <4>2 DEF DrainInv
    <3> QED
      BY <3>1, <3>2
  <2> QED
    BY <2>3, <2>5 DEF DrainInv
<1>5. ASSUME NEW p \in Pauser, Drained(p) PROVE LeaseInPast' /\ DrainInv'
  <2>1. UNCHANGED <<generation, lease, closedAt, awaited>> /\ Admitted' = Admitted
    BY <1>5 DEF Drained, Admitted
  <2>2. /\ awaited[p] \cap Admitted = {}
        /\ \A q \in Pauser \ {p} : pause'[q] = pause[q]
        /\ pause[p] = "waiting" /\ pause'[p] = "drained"
    BY <1>5 DEF Drained
  <2>3. \A w \in Admitted : ~(lease[w].generation < closedAt[p])
    BY <2>2 DEF DrainInv
  <2>4. ASSUME NEW q \in Pauser, pause'[q] # "idle"
        PROVE  /\ closedAt[q] <= generation
               /\ \A w \in Admitted : lease[w].generation < closedAt[q] =>
                    pause'[q] = "waiting" /\ w \in awaited[q]
    BY <2>2, <2>3, <2>4 DEF DrainInv
  <2> QED
    BY <2>1, <2>4 DEF LeaseInPast, DrainInv
<1>6. CASE Resume
  BY <1>6 DEF Resume, LeaseInPast, DrainInv, Admitted
<1>7. CASE UNCHANGED <<gateVars, lease, stage, pauseVars, historyVars>>
  BY <1>7 DEF LeaseInPast, DrainInv, Admitted
<1> QED
  BY <1>1, <1>2, <1>3, <1>4, <1>5, <1>6, <1>7 DEF GateStep

(* The promise follows: a resolved pause has no such work left.            *)
LEMMA DrainInvSuffices ==
  ASSUME LeaseTypeOK, DrainInv PROVE DrainIsComplete
<1> SUFFICES ASSUME NEW p \in Pauser, NEW w \in Work,
                    pause[p] = "drained", stage[w] = "admitted"
             PROVE  lease[w].generation >= closedAt[p]
  BY DEF DrainIsComplete
<1>1. ~(lease[w].generation < closedAt[p])
  BY DEF DrainInv, Admitted
<1>2. lease[w].generation \in Nat /\ closedAt[p] \in Nat
  BY DEF LeaseTypeOK, Lease
<1> QED
  BY <1>1, <1>2

(* They hold at the start.                                                *)
LEMMA LeaseInitInvs == LeaseInit => LeaseTypeOK /\ LeaseInPast /\ DrainInv
  BY DEF LeaseInit, LeaseTypeOK, Lease, LeaseInPast, DrainInv

(* When a pause resolves, nothing admitted under the generation it retired *)
(* is running, however many pauses overlap: pauseRealtimeDeliveries may be *)
(* relied on by the wipe that follows it.                                  *)
THEOREM PauseDrains == LeaseSpec => []DrainIsComplete
  BY LeaseInitInvs, DrainStep, DrainInvSuffices, LeaseGateSteps, LeaseTypeCorrect, PTL
  DEF LeaseSpec

-----------------------------------------------------------------------------
(* Ownership.  A lease that could still be used was captured since         *)
(* admission was last reopened; one captured while admission was closed is *)
(* marked, and one captured before the close is a generation behind.       *)

OwnerInv ==
  \A w \in Work :
    /\ lease[w].accepted =>
         /\ lease[w].generation <= generation
         /\ ~accepting => lease[w].generation < generation
         /\ accepting /\ lease[w].generation = generation => born[w] = account
    /\ stage[w] \in {"admitted", "settled"} => admittedIn[w] = born[w]

(* No step gives a usable lease to another account.                        *)
LEMMA OwnerStep ==
  ASSUME LeaseTypeOK, OwnerInv, GateStep PROVE OwnerInv'
<1> USE DEF LeaseTypeOK, Lease, gateVars, workVars, pauseVars, historyVars
<1>1. ASSUME NEW w \in Work, Capture(w) PROVE OwnerInv'
  BY <1>1 DEF Capture, OwnerInv
<1>2. ASSUME NEW w \in Work, Admit(w) PROVE OwnerInv'
  BY <1>2 DEF Admit, Current, OwnerInv
<1>3. ASSUME NEW w \in Work,
             Refuse(w) \/ Settle(w)
      PROVE  OwnerInv'
  <2>1. /\ UNCHANGED <<accepting, generation, lease, account, born, admittedIn>>
        /\ \A x \in Work : stage'[x] \in {"admitted", "settled"}
                             => stage[x] \in {"admitted", "settled"}
    BY <1>3 DEF Refuse, Settle
  <2> QED
    BY <2>1 DEF OwnerInv
<1>4. ASSUME NEW p \in Pauser, Pause(p) PROVE OwnerInv'
  <2>1. /\ ~accepting' /\ UNCHANGED <<lease, stage, account, born, admittedIn>>
        /\ generation' = IF accepting THEN generation + 1 ELSE generation
    BY <1>4 DEF Pause
  <2> QED
    BY <2>1 DEF OwnerInv
<1>5. ASSUME NEW p \in Pauser, Drained(p) PROVE OwnerInv'
  BY <1>5 DEF Drained, OwnerInv
<1>6. CASE Resume
  BY <1>6 DEF Resume, OwnerInv
<1>7. CASE UNCHANGED <<gateVars, lease, stage, pauseVars, historyVars>>
  BY <1>7 DEF OwnerInv
<1> QED
  BY <1>1, <1>2, <1>3, <1>4, <1>5, <1>6, <1>7 DEF GateStep

(* Work is admitted by the account whose lease it captured, for any        *)
(* sequence of closings and reopenings.                                    *)
THEOREM WorkStaysInAccount == LeaseSpec => []AdmittedByItsAccount
<1>1. LeaseInit => OwnerInv
  BY DEF LeaseInit, OwnerInv
<1>2. OwnerInv => AdmittedByItsAccount
  BY DEF OwnerInv, AdmittedByItsAccount
<1> QED
  BY <1>1, <1>2, OwnerStep, LeaseGateSteps, LeaseTypeCorrect, PTL DEF LeaseSpec

-----------------------------------------------------------------------------
(* Dormancy.  A listener is there only once its work has a lease, so a     *)
(* capture never moves the lease under it.                                 *)

DormantInv ==
  /\ NoDormantSurvivor
  /\ \A w \in Work : stage[w] = "new" => watch[w] = "none"

(* No step leaves a listener of a retired generation behind.               *)
LEMMA DormantStep ==
  ASSUME LeaseTypeOK, DormantInv, [LeaseNext]_leaseVars PROVE DormantInv'
<1> USE DEF LeaseTypeOK, gateVars, workVars, pauseVars, historyVars
<1>1. ASSUME NEW w \in Work, Capture(w) PROVE DormantInv'
  BY <1>1 DEF Capture, DormantInv, NoDormantSurvivor
<1>2. ASSUME NEW w \in Work, Subscribe(w) \/ Unsubscribe(w) PROVE DormantInv'
  BY <1>2 DEF Subscribe, Unsubscribe, Listen, Unlisten, DormantInv, NoDormantSurvivor
<1>3. ASSUME NEW w \in Work, UNCHANGED watch, Admit(w) \/ Refuse(w) \/ Settle(w)
      PROVE  DormantInv'
  <2>1. /\ UNCHANGED <<accepting, generation, lease>>
        /\ \A x \in Work : stage'[x] = "new" => stage[x] = "new"
    BY <1>3 DEF Admit, Refuse, Settle
  <2> QED
    BY <1>3, <2>1 DEF DormantInv, NoDormantSurvivor
<1>4. ASSUME NEW p \in Pauser, Pause(p) PROVE DormantInv'
  <2>1. \A w \in Work : watch'[w] # "live"
    BY <1>4 DEF Pause, Wake, Listeners, DormantInv, NoDormantSurvivor
  <2>2. UNCHANGED stage /\ \A w \in Work : watch[w] = "none" => watch'[w] = "none"
    BY <1>4 DEF Pause, Wake, Listeners
  <2> QED
    BY <2>1, <2>2 DEF DormantInv, NoDormantSurvivor
<1>5. ASSUME NEW p \in Pauser, Drained(p) PROVE DormantInv'
  BY <1>5 DEF Drained, DormantInv, NoDormantSurvivor
<1>6. CASE Resume
  BY <1>6 DEF Resume, DormantInv, NoDormantSurvivor
<1>7. CASE UNCHANGED leaseVars
  BY <1>7 DEF leaseVars, DormantInv, NoDormantSurvivor
<1> QED
  BY <1>1, <1>2, <1>3, <1>4, <1>5, <1>6, <1>7, LeaseSteps

(* No listener outlives the generation it belongs to: whoever is dormant   *)
(* can still be woken when the account closes.                             *)
THEOREM DormantIsWoken == LeaseSpec => []NoDormantSurvivor
<1>1. LeaseInit => DormantInv
  BY DEF LeaseInit, DormantInv, NoDormantSurvivor
<1>2. DormantInv => NoDormantSurvivor
  BY DEF DormantInv
<1> QED
  BY <1>1, <1>2, DormantStep, LeaseTypeCorrect, PTL DEF LeaseSpec

=============================================================================
