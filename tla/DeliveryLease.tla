---------------------------- MODULE DeliveryLease ----------------------------
(***************************************************************************)
(* The account barrier of src/services/realtime/deliveryCoordinator.ts.    *)
(*                                                                         *)
(* Work belongs to the account under which it captured a lease.  A lease   *)
(* is current while admission is open and has not been closed since the    *)
(* capture.  Work is admitted if its lease is current, and holds a drain   *)
(* slot until it settles.  Pausing closes admission at once, retires the   *)
(* generation, wakes what is dormant in it, and then waits for the slots   *)
(* that were taken at that moment.                                         *)
(***************************************************************************)
EXTENDS Integers, FiniteSets

CONSTANTS
  Work,          \* pieces of account work, each admitted at most once
  Pauser,        \* calls of pauseRealtimeDeliveries
  MaxGeneration  \* bound on the generations of a run

ASSUME LeaseAssumption == MaxGeneration \in Nat

VARIABLES
  accepting,     \* acceptingDeliveries
  generation,    \* accountGeneration
  lease,         \* lease[w]: what w captured
  stage,         \* stage[w]
  watch,         \* watch[w]: w's dormant part and its invalidation listener
  pause,         \* pause[p]
  awaited,       \* awaited[p]: the slots p found taken
  closedAt,      \* closedAt[p]: the generation p left behind it (history)
  account,       \* how often admission has been reopened (history)
  born,          \* born[w]: the account under which w captured (history)
  admittedIn     \* admittedIn[w]: the account that admitted w (history)

gateVars    == <<accepting, generation>>
workVars    == <<lease, stage, watch>>
pauseVars   == <<pause, awaited, closedAt>>
historyVars == <<account, born, admittedIn>>
leaseVars   == <<gateVars, workVars, pauseVars, historyVars>>

Lease == [generation : Nat, accepted : BOOLEAN]

LeaseTypeOK ==
  /\ accepting \in BOOLEAN
  /\ generation \in Nat
  /\ lease \in [Work -> Lease]
  /\ stage \in [Work -> {"new", "held", "admitted", "settled", "refused"}]
  /\ watch \in [Work -> {"none", "live", "woken", "over"}]
  /\ pause \in [Pauser -> {"idle", "waiting", "drained"}]
  /\ awaited \in [Pauser -> SUBSET Work]
  /\ closedAt \in [Pauser -> Nat]
  /\ account \in Nat
  /\ born \in [Work -> Nat]
  /\ admittedIn \in [Work -> Nat]

LeaseInit ==
  /\ accepting = TRUE
  /\ generation = 0
  /\ lease = [w \in Work |-> [generation |-> 0, accepted |-> FALSE]]
  /\ stage = [w \in Work |-> "new"]
  /\ watch = [w \in Work |-> "none"]
  /\ pause = [p \in Pauser |-> "idle"]
  /\ awaited = [p \in Pauser |-> {}]
  /\ closedAt = [p \in Pauser |-> 0]
  /\ account = 0
  /\ born = [w \in Work |-> 0]
  /\ admittedIn = [w \in Work |-> 0]

-----------------------------------------------------------------------------
(* Mutant: the lease forgets that it was captured while admission was      *)
(* closed.                                                                 *)
CurrentByGeneration(w) ==
  accepting /\ lease[w].generation = generation

(* isCurrent. *)
Current(w) ==
  lease[w].accepted /\ accepting /\ lease[w].generation = generation

(* captureRealtimeDeliveryLease: possible at any time, a closed gate too.  *)
Capture(w) ==
  /\ stage[w] = "new"
  /\ stage' = [stage EXCEPT ![w] = "held"]
  /\ lease' = [lease EXCEPT ![w] = [generation |-> generation, accepted |-> accepting]]
  /\ born' = [born EXCEPT ![w] = account]
  /\ UNCHANGED <<gateVars, watch, pauseVars, account, admittedIn>>

(* runTrackedRealtimeWork: the slot is taken before the task is called.    *)
Admit(w) ==
  /\ stage[w] = "held" /\ Current(w)
  /\ stage' = [stage EXCEPT ![w] = "admitted"]
  /\ admittedIn' = [admittedIn EXCEPT ![w] = account]
  /\ UNCHANGED <<gateVars, lease, pauseVars, account, born>>

(* A stale lease is answered "paused". *)
Refuse(w) ==
  /\ stage[w] = "held" /\ ~Current(w)
  /\ stage' = [stage EXCEPT ![w] = "refused"]
  /\ UNCHANGED <<gateVars, lease, pauseVars, historyVars>>

(* finishTracking: the task fulfils or rejects, and gives its slot back.   *)
Settle(w) ==
  /\ stage[w] = "admitted"
  /\ stage' = [stage EXCEPT ![w] = "settled"]
  /\ UNCHANGED <<gateVars, lease, pauseVars, historyVars>>

(* subscribeRealtimeGenerationInvalidation: a retired generation wakes the *)
(* listener in the call itself.                                            *)
Listen(w) ==
  watch' = [watch EXCEPT ![w] =
              IF accepting /\ lease[w].generation = generation THEN "live" ELSE "woken"]

(* The dormant work settled first and unsubscribes. *)
Unlisten(w) == watch' = [watch EXCEPT ![w] = IF @ = "live" THEN "over" ELSE @]

Subscribe(w) ==
  /\ stage[w] # "new" /\ watch[w] = "none"
  /\ Listen(w)
  /\ UNCHANGED <<gateVars, lease, stage, pauseVars, historyVars>>

Unsubscribe(w) ==
  /\ watch[w] = "live" /\ Unlisten(w)
  /\ UNCHANGED <<gateVars, lease, stage, pauseVars, historyVars>>

Admitted == {w \in Work : stage[w] = "admitted"}
Listeners == {w \in Work : watch[w] = "live" /\ lease[w].generation = generation}

(* Mutant: the listeners are looked up after the generation has moved on. *)
WakeTooLate ==
  watch' = [w \in Work |-> IF watch[w] = "live" /\ lease[w].generation = generation'
                           THEN "woken" ELSE watch[w]]

(* The listeners of the generation that closes are called and dropped.     *)
Wake == watch' = [w \in Work |-> IF accepting /\ w \in Listeners THEN "woken" ELSE watch[w]]

(* Mutant: a second pause trusts the first to have waited. *)
ToAwaitOnce == IF accepting THEN Admitted ELSE {}

(* Promise.all([...admittedDeliveries]). *)
ToAwait == Admitted

(* pauseRealtimeDeliveries, up to its await. *)
Pause(p) ==
  /\ pause[p] = "idle"
  /\ accepting => generation < MaxGeneration
  /\ accepting' = FALSE
  /\ generation' = IF accepting THEN generation + 1 ELSE generation
  /\ Wake
  /\ pause' = [pause EXCEPT ![p] = "waiting"]
  /\ awaited' = [awaited EXCEPT ![p] = ToAwait]
  /\ closedAt' = [closedAt EXCEPT ![p] = generation']
  /\ UNCHANGED <<lease, stage, historyVars>>

Drained(p) ==
  /\ pause[p] = "waiting" /\ awaited[p] \cap Admitted = {}
  /\ pause' = [pause EXCEPT ![p] = "drained"]
  /\ UNCHANGED <<gateVars, workVars, awaited, closedAt, historyVars>>

(* resumeRealtimeDeliveries does not ask who is still draining: its two    *)
(* callers decide when, and connect.ts leaves a failed attempt's pause     *)
(* unawaited.                                                              *)
Resume ==
  /\ ~accepting /\ accepting' = TRUE
  /\ account' = account + 1
  /\ UNCHANGED <<generation, workVars, pauseVars, born, admittedIn>>

-----------------------------------------------------------------------------
LeaseNext ==
  \/ \E w \in Work :
       \/ Capture(w) \/ Subscribe(w) \/ Unsubscribe(w)
       \/ (Admit(w) \/ Refuse(w) \/ Settle(w)) /\ UNCHANGED watch
  \/ \E p \in Pauser : Pause(p) \/ Drained(p)
  \/ Resume

LeaseSpec == LeaseInit /\ [][LeaseNext]_leaseVars

-----------------------------------------------------------------------------
(* Properties. *)

(* When a pause resolves, nothing that was admitted under the generation   *)
(* it retired is still running, however many pauses overlap and even if    *)
(* admission was reopened in the meantime: teardown may wipe the account.  *)
DrainIsComplete ==
  \A p \in Pauser, w \in Work :
    pause[p] = "drained" /\ stage[w] = "admitted" => lease[w].generation >= closedAt[p]

(* Work is admitted only by the account it was captured under.  A lease    *)
(* captured between a close and the next open belongs to neither account.  *)
AdmittedByItsAccount ==
  \A w \in Work : stage[w] \in {"admitted", "settled"} => admittedIn[w] = born[w]

(* Dormant work never outlives its generation: whoever is still subscribed *)
(* can still be woken, so no timer of a retired account waits its time out.*)
NoDormantSurvivor ==
  \A w \in Work : watch[w] = "live" => accepting /\ lease[w].generation = generation

=============================================================================
