----------------------- MODULE AttachmentCacheProofs -----------------------
(***************************************************************************)
(* The cache for any attachments, cleanup jobs and cap: every file stays   *)
(* charged, every reference and queued send is served, nothing pinned is   *)
(* retired, and no admission passes the cap.                               *)
(***************************************************************************)
EXTENDS AttachmentCache, FiniteSetTheorems, TLAPS

FlightRecord == [at : FlightState, live : BOOLEAN, todo : SUBSET Path]
SweepRecord  == [at : SweepState, live : BOOLEAN, boot : BOOLEAN, todo : SUBSET Path]
OwnerRecord  == [at : {"none", "own", "absent", "kept"}, by : Worker \cup {None}]

FlightTyped == flight \in [Path -> FlightRecord]
SweepTyped  == sweep \in [Sweeper -> SweepRecord]
OwnerTyped  == settle \in [Path -> OwnerRecord]

\* What is typed apart from the records above.
RestTyped ==
    /\ disk \subseteq Path /\ lost \subseteq Path /\ ref \subseteq Path /\ out \subseteq Path
    /\ gone \subseteq Path /\ pinned \subseteq Path /\ late \subseteq Path
    /\ row \in [Path -> RowState]
    /\ reservation \in [Path -> {"none", "held", "handoff"}]
    /\ open \in BOOLEAN /\ ready \in BOOLEAN /\ adopted \in BOOLEAN

\* The states of a flight that owns a reservation.
Carrying == {"transfer", "landed", "commit", "stored", "failed"}

\* A flight, or a job, between two awaits inside the gate.
FlightHolds(p) == flight[p].at \in {"plan", "reserve", "claim"}
SweepHolds(s)  == sweep[s].at \in {"recheck", "claim"}

\* The gate has one holder at a time.
GateInv ==
    /\ \A p, q \in Path : FlightHolds(p) /\ FlightHolds(q) => p = q
    /\ \A s, t \in Sweeper : SweepHolds(s) /\ SweepHolds(t) => s = t
    /\ \A p \in Path, s \in Sweeper : ~(FlightHolds(p) /\ SweepHolds(s))

\* A reservation belongs to the flight that carries it or to the transfer it
\* abandoned, not to both, and the path is charged until the file is committed.
ReservationInv ==
    \A p \in Path :
        /\ reservation[p] # "none" <=> flight[p].at \in Carrying \/ p \in late
        /\ ~(flight[p].at \in Carrying /\ p \in late)
        /\ flight[p].at \in {"transfer", "landed", "commit"} \/ p \in late
             => row[p] = "reserved"
        /\ flight[p].at \in {"landed", "commit"} => p \in disk

\* What holds the gate with a batch has taken nothing reserved, nor pinned if it is
\* about to claim it.
BatchInv ==
    /\ \A p \in Path : flight[p].at = "claim" => flight[p].todo \cap (Reserved \cup pinned) = {}
    /\ \A s \in Sweeper :
        /\ sweep[s].at = "claim" => sweep[s].todo \cap (Reserved \cup pinned) = {}
        /\ sweep[s].at = "recheck" => sweep[s].todo \cap Reserved = {}
        /\ sweep[s].at = "entry" => \E p \in Path : sweep[s].todo = {p}

\* Who settles a retirement owns a path that nobody fills, whose row is still charged,
\* and an unlink that was seen has left no file.
OwnerInv ==
    \A p \in Path : settle[p].at # "none" =>
        /\ reservation[p] = "none"
        /\ row[p] \in {"reserved", "retiring"}
        /\ settle[p].at = "absent" => p \notin disk

\* Every file is charged, or listed by the recovery that is about to charge it.
ChargeInv ==
    /\ adopted => \A p \in disk : row[p] # "none"
    /\ \A s \in Sweeper : sweep[s].at = "adopt" =>
         \A p \in disk : p \in sweep[s].todo \/ row[p] # "none"

\* Downloads run after the first recovery has adopted what it found, so that whatever
\* they meet in the directory, or in a message, has a row.  What a queued send reads
\* is whole, so that no recovery retires it.
RecoveryInv ==
    /\ ready => adopted
    /\ \A p \in Path : flight[p].at # "idle" => adopted
    /\ \A s \in Sweeper : sweep[s].boot => adopted \/ sweep[s].at \in {"scan", "adopt"}
    /\ \A p \in ref : row[p] = "none" => p \in disk
    /\ out \cap lost = {}

CacheInv ==
    /\ TypeOK /\ GateInv /\ ReservationInv /\ BatchInv /\ OwnerInv /\ ChargeInv
    /\ RecoveryInv /\ ReferencesHold

\* The type invariant, one table at a time.
LEMMA TypeParts == TypeOK => FlightTyped /\ SweepTyped /\ OwnerTyped /\ RestTyped
  BY DEF TypeOK, FlightTyped, SweepTyped, OwnerTyped, RestTyped, FlightRecord, SweepRecord,
         OwnerRecord

\* The type invariant of the next state, put together from its tables.
LEMMA TypeNext ==
  ASSUME FlightTyped', SweepTyped', OwnerTyped', RestTyped' PROVE TypeOK'
  BY DEF TypeOK, FlightTyped, SweepTyped, OwnerTyped, RestTyped, FlightRecord, SweepRecord,
         OwnerRecord

-----------------------------------------------------------------------------
(* What the records of flights and jobs become, one at a time. *)

\* A flight that moves keeps its batch, and the other flights stay.
LEMMA Flies ==
  ASSUME FlightTyped, NEW p \in Path, NEW at \in FlightState, Fly(p, at)
  PROVE  /\ FlightTyped'
         /\ flight'[p].at = at /\ flight'[p].todo = flight[p].todo
         /\ \A q \in Path : q # p => flight'[q] = flight[q]
  BY DEF FlightTyped, FlightRecord, Fly

\* A flight that ends leaves the other flights as they are.
LEMMA Lands ==
  ASSUME FlightTyped, NEW p \in Path, Land(p)
  PROVE  /\ FlightTyped'
         /\ flight'[p].at = "idle"
         /\ \A q \in Path : q # p => flight'[q] = flight[q]
<1>1. NoFlight \in FlightRecord /\ NoFlight.at = "idle"
  BY DEF NoFlight, FlightRecord, FlightState
<1> QED
  BY <1>1 DEF FlightTyped, Land

\* A job that moves carries the batch it is given, and the other jobs stay.
LEMMA Goes ==
  ASSUME SweepTyped, NEW s \in Sweeper, NEW at \in SweepState, NEW todo \in SUBSET Path,
         Go(s, at, todo)
  PROVE  /\ SweepTyped'
         /\ sweep'[s].at = at /\ sweep'[s].todo = todo /\ sweep'[s].boot = sweep[s].boot
         /\ \A t \in Sweeper : t # s => sweep'[t] = sweep[t]
  BY DEF SweepTyped, SweepRecord, Go

\* A job that ends is no longer the boot recovery, and the other jobs stay.
LEMMA Halts ==
  ASSUME SweepTyped, NEW s \in Sweeper, Halt(s)
  PROVE  /\ SweepTyped'
         /\ sweep'[s].at = "idle" /\ ~sweep'[s].boot
         /\ \A t \in Sweeper : t # s => sweep'[t] = sweep[t]
<1>1. NoSweep \in SweepRecord /\ NoSweep.at = "idle" /\ ~NoSweep.boot
  BY DEF NoSweep, SweepRecord, SweepState
<1> QED
  BY <1>1 DEF SweepTyped, Halt

-----------------------------------------------------------------------------
(* A flight that carries nothing, and moves to where it does not either: the *)
(* tables are not touched, and it takes no place in the gate that is taken.  *)

Elsewhere == <<disk, lost, row, ref, out, gone, adopted, reservation, settle, pinned, late, sweep,
               open, ready>>

\* A move of a flight that touches no table keeps the books.
LEMMA LightMove ==
  ASSUME CacheInv, NEW p \in Path, FlightTyped', UNCHANGED Elsewhere,
         flight[p].at \notin Carrying, flight'[p].at \notin Carrying,
         flight'[p].at # "claim", FlightHolds(p)' => GateFree \/ FlightHolds(p),
         \A q \in Path : q # p => flight'[q] = flight[q],
         flight[p].at = "idle" => ready
  PROVE  CacheInv'
<1> USE DEF CacheInv, Elsewhere
<1>1. TypeOK'
  BY TypeParts, TypeNext DEF SweepTyped, OwnerTyped, RestTyped
<1>2. GateInv'
  BY DEF GateInv, GateFree, FlightHolds, SweepHolds
<1>3. ReservationInv'
  BY DEF ReservationInv, Carrying
<1>4. BatchInv'
  BY DEF BatchInv, FlightHolds, Reserved
<1>5. OwnerInv' /\ ChargeInv' /\ ReferencesHold' /\ RecoveryInv'
  BY DEF OwnerInv, ChargeInv, ReferencesHold, RecoveryInv
<1> QED
  BY <1>1, <1>2, <1>3, <1>4, <1>5

\* A request starts a flight once the recovery is done.
LEMMA DownloadKeeps == ASSUME CacheInv, NEW p \in Path, Download(p) PROVE CacheInv'
<1>1. UNCHANGED Elsewhere
  BY DEF Download, Elsewhere, durable
<1>2. /\ FlightTyped' /\ flight[p].at = "idle" /\ flight'[p].at = "want" /\ ready
      /\ \A q \in Path : q # p => flight'[q] = flight[q]
  <2> DEFINE new == [at |-> "want", live |-> TRUE, todo |-> {}]
  <2>1. new \in FlightRecord /\ new.at = "want"
    BY DEF FlightRecord, FlightState
  <2> HIDE DEF new
  <2>2. flight' = [flight EXCEPT ![p] = new] /\ flight[p].at = "idle" /\ ready
    BY DEF Download, new
  <2> QED
    BY <2>1, <2>2, TypeParts DEF FlightTyped, CacheInv
<1> QED
  BY <1>1, <1>2, LightMove DEF Carrying, FlightHolds

\* An admission takes the gate only when it is free.
LEMMA AdmitKeeps == ASSUME CacheInv, NEW p \in Path, Admit(p) PROVE CacheInv'
<1>1. UNCHANGED Elsewhere
  BY DEF Admit, Elsewhere, durable
<1>2. /\ FlightTyped' /\ flight[p].at = "want"
      /\ flight'[p].at \in {"idle", "plan"} /\ GateFree
      /\ \A q \in Path : q # p => flight'[q] = flight[q]
  BY TypeParts, Flies, Lands DEF Admit, FlightState, CacheInv
<1> QED
  BY <1>1, <1>2, LightMove DEF Carrying, FlightHolds

\* An admission whose evictions are settled plans again.
LEMMA ReplanKeeps == ASSUME CacheInv, NEW p \in Path, Replan(p) PROVE CacheInv'
<1>1. UNCHANGED Elsewhere
  BY DEF Replan, Elsewhere, durable
<1>2. /\ FlightTyped' /\ flight[p].at = "evict" /\ flight'[p].at \in {"idle", "want"}
      /\ \A q \in Path : q # p => flight'[q] = flight[q]
  BY TypeParts, Flies, Lands DEF Replan, FlightState, CacheInv
<1> QED
  BY <1>1, <1>2, LightMove DEF Carrying, FlightHolds

\* The plan finds room for the path, asks for evictions or refuses.
LEMMA PlanKeeps == ASSUME CacheInv, NEW p \in Path, Plan(p) PROVE CacheInv'
<1>1. UNCHANGED Elsewhere /\ flight[p].at = "plan"
  BY DEF Plan, Elsewhere, durable
<1>2. CASE Land(p) \/ Fly(p, "reserve")
  <2>1. /\ FlightTyped' /\ flight'[p].at \in {"idle", "reserve"}
        /\ \A q \in Path : q # p => flight'[q] = flight[q]
    BY <1>2, TypeParts, Lands, Flies DEF CacheInv, FlightState
  <2> QED
    BY <1>1, <2>1, LightMove DEF Carrying, FlightHolds
<1>3. ASSUME NEW S \in SUBSET (In("active") \ (Reserved \cup pinned)),
             flight' = [flight EXCEPT ![p] =
                [@ EXCEPT !.at = IF S \ (Owned \cup Pending) = {} THEN "evict" ELSE "claim",
                          !.todo = S \ (Owned \cup Pending)]]
      PROVE  CacheInv'
  <2> USE DEF CacheInv, Elsewhere
  <2> DEFINE claim == S \ (Owned \cup Pending)
  <2>1. claim \in SUBSET Path /\ claim \cap (Reserved \cup pinned) = {}
    BY DEF In
  <2> HIDE DEF claim
  <2>2. /\ FlightTyped' /\ flight'[p].at \in {"evict", "claim"} /\ flight'[p].todo = claim
        /\ \A q \in Path : q # p => flight'[q] = flight[q]
    <3>1. flight' = [flight EXCEPT ![p].todo = claim,
                                   ![p].at = IF claim = {} THEN "evict" ELSE "claim"]
      BY <1>3 DEF claim
    <3> DEFINE stage == IF claim = {} THEN "evict" ELSE "claim"
               new == [flight[p] EXCEPT !.at = stage, !.todo = claim]
    <3>2. stage \in FlightState /\ stage \in {"evict", "claim"}
      BY DEF FlightState
    <3> HIDE DEF stage
    <3>3. flight[p] \in FlightRecord
      BY TypeParts DEF FlightTyped
    <3>4. new \in FlightRecord /\ new.at \in {"evict", "claim"} /\ new.todo = claim
      BY <2>1, <3>2, <3>3 DEF FlightRecord
    <3>5. flight' = [flight EXCEPT ![p] = [@ EXCEPT !.at = stage, !.todo = claim]]
      BY <3>1 DEF stage
    <3>6. flight' = [flight EXCEPT ![p] = new]
      BY <3>5
    <3> HIDE DEF new
    <3> QED
      BY <3>4, <3>6, TypeParts DEF FlightTyped
  <2>3. TypeOK'
    BY <1>1, <1>3, <2>2, TypeParts, TypeNext DEF SweepTyped, OwnerTyped, RestTyped
  <2>4. GateInv'
    BY <1>1, <2>2 DEF GateInv, FlightHolds, SweepHolds
  <2>5. ReservationInv'
    BY <1>1, <1>3, <2>2 DEF ReservationInv, Carrying
  <2>6. BatchInv'
    BY <1>1, <1>3, <2>1, <2>2 DEF BatchInv, Reserved
  <2>7. OwnerInv' /\ ChargeInv' /\ ReferencesHold' /\ RecoveryInv'
    BY <1>1, <1>3, <2>2 DEF OwnerInv, ChargeInv, ReferencesHold, RecoveryInv
  <2> QED
    BY <2>3, <2>4, <2>5, <2>6, <2>7
<1> QED
  BY <1>2, <1>3 DEF Plan

\* A path with a place to go to is reserved.
LEMMA ReserveKeeps == ASSUME CacheInv, NEW p \in Path, Reserve(p) PROVE CacheInv'
<1>1. /\ UNCHANGED <<disk, lost, ref, out, gone, adopted, settle, pinned, late, sweep, open, ready>>
      /\ flight[p].at = "reserve"
  BY DEF Reserve
<1>2. CASE (Fly(p, "want") \/ Land(p)) /\ UNCHANGED <<row, reservation>>
  <2>1. /\ FlightTyped' /\ flight'[p].at \in {"idle", "want"}
        /\ \A q \in Path : q # p => flight'[q] = flight[q]
    BY <1>2, TypeParts, Lands, Flies DEF CacheInv, FlightState
  <2> QED
    BY <1>1, <1>2, <2>1, LightMove DEF Carrying, FlightHolds, Elsewhere
<1>3. CASE /\ row[p] = "none" /\ row' = [row EXCEPT ![p] = "reserved"]
           /\ reservation' = [reservation EXCEPT ![p] = "held"]
           /\ Fly(p, "transfer")
  <2> USE DEF CacheInv
  <2>1. /\ FlightTyped' /\ flight'[p].at = "transfer"
        /\ \A q \in Path : q # p => flight'[q] = flight[q]
    BY <1>3, TypeParts, Flies DEF FlightState
  <2>2. TypeOK'
    BY <1>1, <1>3, <2>1, TypeParts, TypeNext DEF SweepTyped, OwnerTyped, RestTyped, RowState
  <2>3. /\ row'[p] = "reserved" /\ reservation'[p] = "held"
        /\ \A q \in Path : q # p => row'[q] = row[q] /\ reservation'[q] = reservation[q]
    BY <1>3, TypeParts DEF RestTyped
  <2>4. GateInv'
    BY <1>1, <2>1 DEF GateInv, FlightHolds, SweepHolds
  <2>5. ReservationInv'
    BY <1>1, <1>3, <2>1, <2>3 DEF ReservationInv, Carrying
  <2>6. BatchInv'
    <3>1. /\ \A q \in Path : q # p => flight[q].at # "claim"
          /\ \A s \in Sweeper : sweep[s].at \notin {"claim", "recheck"}
      BY <1>1 DEF GateInv, FlightHolds, SweepHolds
    <3> QED
      BY <1>1, <2>1, <3>1 DEF BatchInv
  <2>7. OwnerInv'
    BY <1>1, <1>3, <2>3 DEF OwnerInv
  <2>8. ChargeInv'
    BY <1>1, <2>3, TypeParts DEF ChargeInv, RestTyped
  <2>9. ReferencesHold'
    <3>1. p \notin ref /\ p \notin out
      BY <1>1, <1>3 DEF ReferencesHold, RecoveryInv, ChargeInv
    <3> QED
      BY <1>1, <2>3, <3>1, TypeParts DEF ReferencesHold, RestTyped
  <2>10. RecoveryInv'
    BY <1>1, <2>1, <2>3, TypeParts DEF RecoveryInv, RestTyped
  <2> QED
    BY <2>2, <2>4, <2>5, <2>6, <2>7, <2>8, <2>9, <2>10
<1> QED
  BY <1>2, <1>3 DEF Reserve

-----------------------------------------------------------------------------
(* What a claim and a repair do to the tables, whoever makes them.           *)

\* A claim makes the batch retiring, blanks its references and owns it.
LEMMA Claims ==
  ASSUME CacheInv, NEW w \in Worker, NEW S \in SUBSET In("active"), S \cap Reserved = {},
         S \cap out = {}, Claim(w, S), UNCHANGED <<disk, out, reservation>>
  PROVE  /\ row' \in [Path -> RowState] /\ ref' \subseteq ref /\ lost' \subseteq lost
         /\ OwnerTyped' /\ OwnerInv' /\ ReferencesHold'
         /\ \A p \in ref' : row'[p] = "none" => p \in disk
         /\ \A p \in Path : row'[p] = "none" <=> row[p] = "none"
         /\ \A p \in Path : p \notin S => row'[p] = row[p]
<1> USE DEF CacheInv
<1>1. /\ row' \in [Path -> RowState]
      /\ \A p \in Path : row'[p] = IF p \in S THEN "retiring" ELSE row[p]
  BY TypeParts DEF Claim, RestTyped, RowState
<1>2. /\ OwnerTyped'
      /\ \A p \in S : settle'[p].at = "own"
      /\ \A p \in Path : p \notin S => settle'[p] = settle[p]
  BY TypeParts DEF Claim, OwnerTyped, OwnerRecord, In
<1>3. ref' = ref \ S /\ lost' = lost \ S
  BY DEF Claim
<1>4. OwnerInv'
  BY <1>1, <1>2 DEF OwnerInv, Reserved
<1>5. ReferencesHold' /\ \A p \in ref' : row'[p] = "none" => p \in disk
  BY <1>1, <1>3, TypeParts DEF ReferencesHold, RecoveryInv, RestTyped
<1> QED
  BY <1>1, <1>2, <1>3, <1>4, <1>5 DEF In

\* A repair of a stored path forgets the row of a file that is not there.
LEMMA Repairs ==
  ASSUME CacheInv, NEW p \in Path, Repair(p), UNCHANGED <<disk, out, reservation, settle>>
  PROVE  /\ row' \in [Path -> RowState] /\ ref' \subseteq ref /\ lost' \subseteq lost
         /\ OwnerInv' /\ ReferencesHold'
         /\ \A q \in ref' : row'[q] = "none" => q \in disk
         /\ \A q \in disk : row'[q] = row[q]
         /\ \A q \in Path : row[q] = "reserved" => row'[q] = "reserved"
<1> USE DEF CacheInv
<1>1. CASE UNCHANGED <<row, ref, lost>>
  BY <1>1, TypeParts DEF RestTyped, OwnerInv, ReferencesHold, RecoveryInv
<1>2. CASE /\ p \notin disk /\ row[p] = "active"
           /\ row' = [row EXCEPT ![p] = "none"] /\ ref' = ref \ {p} /\ lost' = lost \ {p}
  <2>1. /\ row' \in [Path -> RowState]
        /\ row'[p] = "none" /\ \A q \in Path : q # p => row'[q] = row[q]
    BY <1>2, TypeParts DEF RestTyped, RowState
  <2>2. OwnerInv'
    BY <1>2, <2>1 DEF OwnerInv
  <2>3. ReferencesHold' /\ \A q \in ref' : row'[q] = "none" => q \in disk
    BY <1>2, <2>1, TypeParts DEF ReferencesHold, RecoveryInv, RestTyped
  <2> QED
    BY <1>2, <2>1, <2>2, <2>3, TypeParts DEF RestTyped
<1> QED
  BY <1>1, <1>2 DEF Repair

-----------------------------------------------------------------------------
(* The rest of a download. *)

\* Victims are claimed, with no send behind them, and leave the gate.
LEMMA ClaimVictimsKeeps == ASSUME CacheInv, NEW p \in Path, ClaimVictims(p) PROVE CacheInv'
<1> USE DEF CacheInv
<1> DEFINE S == flight[p].todo
           new == [flight[p] EXCEPT !.at = "evict", !.todo = {}]
<1>1. /\ UNCHANGED <<disk, out, gone, adopted, reservation, pinned, late, sweep, open, ready>>
      /\ flight[p].at = "claim"
  BY DEF ClaimVictims
<1>2. /\ FlightTyped' /\ flight'[p].at = "evict"
      /\ \A q \in Path : q # p => flight'[q] = flight[q]
  <2>1. flight[p] \in FlightRecord
    BY TypeParts DEF FlightTyped
  <2>2. new \in FlightRecord /\ new.at = "evict"
    BY <2>1 DEF FlightRecord, FlightState
  <2>3. flight' = [flight EXCEPT ![p] = new]
    BY DEF ClaimVictims
  <2> HIDE DEF new
  <2> QED
    BY <2>2, <2>3, TypeParts DEF FlightTyped
<1>3. /\ row' \in [Path -> RowState] /\ ref' \subseteq ref /\ lost' \subseteq lost
      /\ OwnerTyped' /\ OwnerInv' /\ ReferencesHold'
      /\ \A q \in ref' : row'[q] = "none" => q \in disk
      /\ \A q \in Path : row'[q] = "none" <=> row[q] = "none"
      /\ \A q \in Path : reservation[q] # "none" => row'[q] = row[q]
  <2>1. CASE Claim(p, S) /\ Refused(S) = {}
    <3>1. S \subseteq In("active") /\ S \cap out = {}
      BY <2>1 DEF Refused
    <3>2. S \cap Reserved = {}
      BY <1>1 DEF BatchInv
    <3> QED
      BY <1>1, <2>1, <3>1, <3>2, Claims DEF Reserved, Worker
  <2>2. CASE UNCHANGED <<row, ref, lost, settle>>
    BY <1>1, <2>2, TypeParts
       DEF RestTyped, OwnerTyped, OwnerInv, ReferencesHold, RecoveryInv
  <2> QED
    BY <2>1, <2>2 DEF ClaimVictims
<1>4. TypeOK'
  BY <1>1, <1>2, <1>3, TypeParts, TypeNext DEF SweepTyped, RestTyped
<1>5. GateInv' /\ BatchInv'
  BY <1>1, <1>2 DEF GateInv, BatchInv, FlightHolds, SweepHolds, Reserved
<1>6. ReservationInv'
  BY <1>1, <1>2, <1>3 DEF ReservationInv, Carrying
<1>7. ChargeInv' /\ RecoveryInv'
  BY <1>1, <1>2, <1>3, TypeParts DEF ChargeInv, RecoveryInv, RestTyped
<1> QED
  BY <1>3, <1>4, <1>5, <1>6, <1>7

\* A transfer writes the file of a reserved row, or fails.
LEMMA TransferKeeps == ASSUME CacheInv, NEW p \in Path, Transfer(p) PROVE CacheInv'
<1> USE DEF CacheInv
<1>1. /\ UNCHANGED <<lost, row, ref, out, gone, adopted, reservation, settle, pinned, late, sweep,
                     open, ready>>
      /\ flight[p].at = "transfer"
      /\ disk' = disk \cup {p} \/ disk' = disk
  BY DEF Transfer
<1>2. /\ FlightTyped'
      /\ (flight'[p].at = "landed" /\ p \in disk') \/ flight'[p].at = "failed"
      /\ \A q \in Path : q # p => flight'[q] = flight[q]
  BY TypeParts, Flies DEF Transfer, FlightState
<1>3. row[p] = "reserved" /\ reservation[p] # "none" /\ settle[p].at = "none"
  BY <1>1 DEF ReservationInv, OwnerInv, Carrying
<1>4. TypeOK'
  BY <1>1, <1>2, TypeParts, TypeNext DEF SweepTyped, OwnerTyped, RestTyped
<1>5. GateInv' /\ BatchInv'
  BY <1>1, <1>2 DEF GateInv, BatchInv, FlightHolds, SweepHolds, Reserved
<1>6. ReservationInv'
  BY <1>1, <1>2, <1>3 DEF ReservationInv, Carrying
<1>7. OwnerInv'
  BY <1>1, <1>3 DEF OwnerInv
<1>8. ChargeInv' /\ RecoveryInv' /\ ReferencesHold'
  BY <1>1, <1>2, <1>3 DEF ChargeInv, RecoveryInv, ReferencesHold
<1> QED
  BY <1>4, <1>5, <1>6, <1>7, <1>8

\* An aborted flight leaves its reservation to the native call.
LEMMA AbortKeeps == ASSUME CacheInv, NEW p \in Path, Abort(p) PROVE CacheInv'
<1> USE DEF CacheInv, durable
<1>1. /\ UNCHANGED <<durable, reservation, settle, pinned, sweep, open, ready>>
      /\ flight[p].at \in {"transfer", "landed"} /\ late' = late \cup {p}
  BY DEF Abort
<1>2. /\ FlightTyped' /\ flight'[p].at = "idle"
      /\ \A q \in Path : q # p => flight'[q] = flight[q]
  BY TypeParts, Lands DEF Abort
<1>3. TypeOK'
  BY <1>1, <1>2, TypeParts, TypeNext DEF SweepTyped, OwnerTyped, RestTyped
<1>4. GateInv' /\ BatchInv'
  BY <1>1, <1>2 DEF GateInv, BatchInv, FlightHolds, SweepHolds, Reserved
<1>5. ReservationInv'
  BY <1>1, <1>2 DEF ReservationInv, Carrying
<1>6. OwnerInv' /\ ChargeInv' /\ RecoveryInv' /\ ReferencesHold'
  BY <1>1, <1>2 DEF OwnerInv, ChargeInv, RecoveryInv, ReferencesHold
<1> QED
  BY <1>3, <1>4, <1>5, <1>6

\* A transfer that settles late gives its reservation back.
LEMMA LateSettleKeeps == ASSUME CacheInv, NEW p \in Path, LateSettle(p) PROVE CacheInv'
<1> USE DEF CacheInv
<1>1. /\ UNCHANGED <<lost, row, ref, out, gone, adopted, settle, pinned, flight, sweep, open,
                     ready>>
      /\ p \in late /\ late' = late \ {p}
      /\ disk' \in {disk, disk \cup {p}, disk \ {p}}
  BY DEF LateSettle
<1>2. /\ reservation' \in [Path -> {"none", "held", "handoff"}] /\ reservation'[p] = "none"
      /\ \A q \in Path : q # p => reservation'[q] = reservation[q]
  BY TypeParts DEF LateSettle, Release, RestTyped
<1>3. /\ row[p] = "reserved" /\ settle[p].at = "none" /\ flight[p].at \notin Carrying
      /\ p \notin ref /\ p \notin out
  BY <1>1, TypeParts DEF ReservationInv, OwnerInv, ReferencesHold, RestTyped
<1>4. TypeOK'
  BY <1>1, <1>2, TypeParts, TypeNext DEF SweepTyped, OwnerTyped, FlightTyped, RestTyped
<1>5. GateInv' /\ BatchInv'
  BY <1>1, <1>2 DEF GateInv, BatchInv, FlightHolds, SweepHolds, Reserved
<1>6. ReservationInv'
  BY <1>1, <1>2, <1>3 DEF ReservationInv, Carrying
<1>7. OwnerInv'
  BY <1>1, <1>2, <1>3 DEF OwnerInv
<1>8. ChargeInv' /\ RecoveryInv' /\ ReferencesHold'
  BY <1>1, <1>3 DEF ChargeInv, RecoveryInv, ReferencesHold
<1> QED
  BY <1>4, <1>5, <1>6, <1>7, <1>8

\* A landed file opens its handoff, or is discarded.
LEMMA CommitKeeps == ASSUME CacheInv, NEW p \in Path, Commit(p) PROVE CacheInv'
<1> USE DEF CacheInv
<1>1. /\ UNCHANGED <<lost, row, ref, out, gone, adopted, settle, pinned, late, sweep, open, ready>>
      /\ flight[p].at = "landed"
  BY DEF Commit
<1>2. /\ reservation' \in [Path -> {"none", "held", "handoff"}] /\ reservation'[p] # "none"
      /\ \A q \in Path : q # p => reservation'[q] = reservation[q]
  BY <1>1, TypeParts DEF Commit, ReservationInv, RestTyped, Carrying
<1>3. /\ FlightTyped'
      /\ \/ flight'[p].at = "failed" /\ disk' \in {disk, disk \ {p}}
         \/ flight'[p].at = "commit" /\ disk' = disk
      /\ \A q \in Path : q # p => flight'[q] = flight[q]
  BY TypeParts, Flies DEF Commit, FlightState
<1>4. row[p] = "reserved" /\ reservation[p] # "none" /\ settle[p].at = "none"
      /\ p \in disk /\ p \notin ref /\ p \notin out
  BY <1>1, TypeParts DEF ReservationInv, OwnerInv, Carrying, ReferencesHold, RestTyped
<1>5. TypeOK'
  BY <1>1, <1>2, <1>3, TypeParts, TypeNext DEF SweepTyped, OwnerTyped, RestTyped
<1>6. GateInv' /\ BatchInv'
  BY <1>1, <1>2, <1>3, <1>4 DEF GateInv, BatchInv, FlightHolds, SweepHolds, Reserved
<1>7. ReservationInv'
  BY <1>1, <1>2, <1>3, <1>4 DEF ReservationInv, Carrying
<1>8. OwnerInv'
  BY <1>1, <1>2, <1>3, <1>4 DEF OwnerInv
<1>9. ChargeInv' /\ RecoveryInv' /\ ReferencesHold'
  BY <1>1, <1>3, <1>4 DEF ChargeInv, RecoveryInv, ReferencesHold
<1> QED
  BY <1>5, <1>6, <1>7, <1>8, <1>9

\* The row is promoted with its reference, or neither is.
LEMMA CommittedKeeps == ASSUME CacheInv, NEW p \in Path, Committed(p) PROVE CacheInv'
<1> USE DEF CacheInv
<1>1. /\ UNCHANGED <<lost, out, gone, adopted, settle, pinned, late, sweep, open, ready>>
      /\ flight[p].at = "commit"
  BY DEF Committed
<1>2. row[p] = "reserved" /\ reservation[p] # "none" /\ settle[p].at = "none"
      /\ p \in disk /\ p \notin ref /\ p \notin out /\ p \notin late
  BY <1>1, TypeParts DEF ReservationInv, OwnerInv, Carrying, ReferencesHold, RestTyped
<1>3. CASE /\ row' = [row EXCEPT ![p] = "active"] /\ ref' = ref \cup {p}
           /\ Fly(p, "stored") /\ UNCHANGED <<disk, reservation>>
  <2>1. /\ FlightTyped' /\ flight'[p].at = "stored"
        /\ \A q \in Path : q # p => flight'[q] = flight[q]
    BY <1>3, TypeParts, Flies DEF FlightState
  <2>2. /\ row' \in [Path -> RowState] /\ row'[p] = "active"
        /\ \A q \in Path : q # p => row'[q] = row[q]
    BY <1>3, TypeParts DEF RestTyped, RowState
  <2>3. TypeOK'
    BY <1>1, <1>3, <2>1, <2>2, TypeParts, TypeNext DEF SweepTyped, OwnerTyped, RestTyped
  <2>4. GateInv' /\ BatchInv'
    BY <1>1, <1>3, <2>1 DEF GateInv, BatchInv, FlightHolds, SweepHolds, Reserved
  <2>5. ReservationInv' /\ OwnerInv'
    BY <1>1, <1>2, <1>3, <2>1, <2>2 DEF ReservationInv, OwnerInv, Carrying
  <2>6. ChargeInv' /\ RecoveryInv' /\ ReferencesHold'
    BY <1>1, <1>2, <1>3, <2>1, <2>2, TypeParts
       DEF ChargeInv, RecoveryInv, ReferencesHold, RestTyped
  <2> QED
    BY <2>3, <2>4, <2>5, <2>6
<1>4. CASE /\ reservation' = [reservation EXCEPT ![p] = "held"]
           /\ disk' \in {disk, disk \ {p}} /\ Fly(p, "failed") /\ UNCHANGED <<row, ref>>
  <2>1. /\ FlightTyped' /\ flight'[p].at = "failed"
        /\ \A q \in Path : q # p => flight'[q] = flight[q]
    BY <1>4, TypeParts, Flies DEF FlightState
  <2>2. /\ reservation' \in [Path -> {"none", "held", "handoff"}] /\ reservation'[p] = "held"
        /\ \A q \in Path : q # p => reservation'[q] = reservation[q]
    BY <1>4, TypeParts DEF RestTyped
  <2>3. TypeOK'
    BY <1>1, <1>4, <2>1, <2>2, TypeParts, TypeNext DEF SweepTyped, OwnerTyped, RestTyped
  <2>4. GateInv' /\ BatchInv'
    BY <1>1, <1>2, <2>1, <2>2 DEF GateInv, BatchInv, FlightHolds, SweepHolds, Reserved
  <2>5. ReservationInv' /\ OwnerInv'
    BY <1>1, <1>2, <1>4, <2>1, <2>2 DEF ReservationInv, OwnerInv, Carrying
  <2>6. ChargeInv' /\ RecoveryInv' /\ ReferencesHold'
    BY <1>1, <1>2, <1>4, <2>1 DEF ChargeInv, RecoveryInv, ReferencesHold
  <2> QED
    BY <2>3, <2>4, <2>5, <2>6
<1> QED
  BY <1>3, <1>4 DEF Committed

\* A flight that ends gives its reservation back.
LEMMA FinishKeeps == ASSUME CacheInv, NEW p \in Path, Finish(p) PROVE CacheInv'
<1> USE DEF CacheInv, durable
<1>1. /\ UNCHANGED <<durable, settle, pinned, late, sweep, open, ready>>
      /\ flight[p].at \in {"stored", "failed"}
  BY DEF Finish
<1>2. /\ reservation' \in [Path -> {"none", "held", "handoff"}] /\ reservation'[p] = "none"
      /\ \A q \in Path : q # p => reservation'[q] = reservation[q]
  BY TypeParts DEF Finish, Release, RestTyped
<1>3. /\ FlightTyped' /\ flight'[p].at = "idle"
      /\ \A q \in Path : q # p => flight'[q] = flight[q]
  BY TypeParts, Lands DEF Finish
<1>4. TypeOK'
  BY <1>1, <1>2, <1>3, TypeParts, TypeNext DEF SweepTyped, OwnerTyped, RestTyped
<1>5. GateInv' /\ BatchInv'
  BY <1>1, <1>2, <1>3 DEF GateInv, BatchInv, FlightHolds, SweepHolds, Reserved
<1>6. ReservationInv' /\ OwnerInv'
  BY <1>1, <1>2, <1>3 DEF ReservationInv, OwnerInv, Carrying
<1>7. ChargeInv' /\ RecoveryInv' /\ ReferencesHold'
  BY <1>1, <1>3 DEF ChargeInv, RecoveryInv, ReferencesHold
<1> QED
  BY <1>4, <1>5, <1>6, <1>7

\* Every step of a download keeps the books.
LEMMA DownloadStepKeeps == ASSUME CacheInv, NEW p \in Path, DownloadStep(p) PROVE CacheInv'
  BY DownloadKeeps, AdmitKeeps, PlanKeeps, ReserveKeeps, ClaimVictimsKeeps, ReplanKeeps, TransferKeeps,
     AbortKeeps, LateSettleKeeps, CommitKeeps, CommittedKeeps, FinishKeeps DEF DownloadStep

-----------------------------------------------------------------------------
(* A cleanup job.  First what only moves the job.                            *)

\* A job goes on to the phase, or gives up.
LEMMA Phases ==
  ASSUME SweepTyped, NEW s \in Sweeper, NEW at \in SweepState, Phase(s, at)
  PROVE  /\ SweepTyped'
         /\ sweep'[s].at \in {at, "idle"} /\ (sweep'[s].boot => sweep[s].boot)
         /\ \A t \in Sweeper : t # s => sweep'[t] = sweep[t]
<1>1. {} \in SUBSET Path
  OBVIOUS
<1> QED
  BY <1>1, Goes, Halts DEF Phase

\* A move of a job that touches no table keeps the books.
LEMMA JobMove ==
  ASSUME CacheInv, NEW s \in Sweeper, SweepTyped',
         UNCHANGED <<durable, reservation, settle, pinned, flight, late, open>>,
         ready' \in BOOLEAN, ready' => adopted,
         \A t \in Sweeper : t # s => sweep'[t] = sweep[t],
         SweepHolds(s)' => GateFree,
         sweep'[s].at = "claim" => sweep'[s].todo \cap (Reserved \cup pinned) = {},
         sweep'[s].at = "recheck" => sweep'[s].todo \cap Reserved = {},
         sweep'[s].at = "entry" => \E p \in Path : sweep'[s].todo = {p},
         sweep'[s].at = "adopt" => disk \subseteq sweep'[s].todo,
         sweep'[s].boot => adopted \/ sweep'[s].at \in {"scan", "adopt"}
  PROVE  CacheInv'
<1> USE DEF CacheInv, durable
<1>1. TypeOK'
  BY TypeParts, TypeNext DEF FlightTyped, OwnerTyped, RestTyped
<1>2. GateInv'
  BY DEF GateInv, GateFree, FlightHolds, SweepHolds
<1>3. BatchInv'
  BY DEF BatchInv, Reserved
<1>4. ReservationInv' /\ OwnerInv' /\ ReferencesHold'
  BY DEF ReservationInv, OwnerInv, ReferencesHold, Carrying
<1>5. ChargeInv' /\ RecoveryInv'
  BY DEF ChargeInv, RecoveryInv
<1> QED
  BY <1>1, <1>2, <1>3, <1>4, <1>5

\* A cleanup job starts.
LEMMA StartSweepKeeps == ASSUME CacheInv, NEW s \in Sweeper, StartSweep(s) PROVE CacheInv'
<1>1. /\ UNCHANGED <<durable, reservation, settle, pinned, flight, late, open, ready>>
      /\ ready \in BOOLEAN /\ (ready => adopted)
  BY TypeParts DEF StartSweep, CacheInv, RestTyped, RecoveryInv
<1>2. PICK at \in {"scan", "drain", "inactive", "conform"} :
        sweep' = [sweep EXCEPT ![s] = [at |-> at, live |-> TRUE, boot |-> (at = "scan"),
                                       todo |-> {}]]
  BY DEF StartSweep
<1> DEFINE new == [at |-> at, live |-> TRUE, boot |-> (at = "scan"), todo |-> {}]
<1>3. new \in SweepRecord /\ new.at = at /\ new.boot = (at = "scan")
  BY DEF SweepRecord, SweepState
<1> HIDE DEF new
<1>4. sweep' = [sweep EXCEPT ![s] = new]
  BY <1>2 DEF new
<1>5. /\ SweepTyped' /\ sweep'[s].at = at /\ sweep'[s].boot = (at = "scan")
      /\ \A t \in Sweeper : t # s => sweep'[t] = sweep[t]
  BY <1>3, <1>4, TypeParts DEF SweepTyped, CacheInv
<1> QED
  BY <1>1, <1>5, JobMove DEF SweepHolds

\* A job whose lease has ended gives up.
LEMMA GiveUpKeeps == ASSUME CacheInv, NEW s \in Sweeper, GiveUp(s) PROVE CacheInv'
<1>1. /\ UNCHANGED <<durable, reservation, settle, pinned, flight, late, open, ready>>
      /\ ready \in BOOLEAN /\ (ready => adopted)
  BY TypeParts DEF GiveUp, CacheInv, RestTyped, RecoveryInv
<1>2. /\ SweepTyped' /\ sweep'[s].at = "idle" /\ ~sweep'[s].boot
      /\ \A t \in Sweeper : t # s => sweep'[t] = sweep[t]
  BY TypeParts, Halts DEF GiveUp, CacheInv
<1> QED
  BY <1>1, <1>2, JobMove DEF SweepHolds

\* A recovery lists the directory.
LEMMA ScanKeeps == ASSUME CacheInv, NEW s \in Sweeper, Scan(s) PROVE CacheInv'
<1>1. /\ UNCHANGED <<durable, reservation, settle, pinned, flight, late, open, ready>>
      /\ ready \in BOOLEAN /\ (ready => adopted) /\ disk \in SUBSET Path
  BY TypeParts DEF Scan, CacheInv, RestTyped, RecoveryInv
<1>2. /\ SweepTyped' /\ sweep'[s].at = "adopt" /\ sweep'[s].todo = disk
      /\ \A t \in Sweeper : t # s => sweep'[t] = sweep[t]
  BY <1>1, TypeParts, Goes DEF Scan, CacheInv, SweepState
<1> QED
  BY <1>1, <1>2, JobMove DEF SweepHolds

\* A job lists the rows that are due.
LEMMA ListDueKeeps == ASSUME CacheInv, NEW s \in Sweeper, ListDue(s) PROVE CacheInv'
<1>1. /\ UNCHANGED <<durable, reservation, settle, pinned, flight, late, open, ready>>
      /\ ready \in BOOLEAN /\ (ready => adopted)
      /\ sweep[s].at = "drain"
  BY TypeParts DEF ListDue, CacheInv, RestTyped, RecoveryInv
<1>2. sweep[s].boot => adopted
  BY <1>1 DEF CacheInv, RecoveryInv
<1>3. CASE Phase(s, "inactive")
  BY <1>1, <1>2, <1>3, TypeParts, Phases, JobMove DEF CacheInv, SweepState, SweepHolds
<1>4. ASSUME NEW p \in Path, Go(s, "entry", {p}) PROVE CacheInv'
  <2>1. /\ SweepTyped' /\ sweep'[s].at = "entry" /\ sweep'[s].todo = {p}
        /\ sweep'[s].boot = sweep[s].boot
        /\ \A t \in Sweeper : t # s => sweep'[t] = sweep[t]
    BY <1>4, TypeParts, Goes DEF CacheInv, SweepState
  <2> QED
    BY <1>1, <1>2, <2>1, JobMove DEF SweepHolds
<1> QED
  BY <1>3, <1>4 DEF ListDue, In

\* A drain takes up the next row it listed.
LEMMA DrainEntryKeeps == ASSUME CacheInv, NEW s \in Sweeper, DrainEntry(s) PROVE CacheInv'
<1>1. /\ UNCHANGED <<durable, reservation, settle, pinned, flight, late, open, ready>>
      /\ ready \in BOOLEAN /\ (ready => adopted)
      /\ sweep[s].at = "entry" /\ GateFree
  BY TypeParts DEF DrainEntry, CacheInv, RestTyped, RecoveryInv
<1>2. sweep[s].boot => adopted
  BY <1>1 DEF CacheInv, RecoveryInv
<1>3. PICK p \in Path : sweep[s].todo = {p}
  BY <1>1 DEF CacheInv, BatchInv
<1>4. CASE Phase(s, "drain")
  BY <1>1, <1>2, <1>4, TypeParts, Phases, JobMove DEF CacheInv, SweepState, SweepHolds
<1>5. CASE p \notin Blocked /\ Go(s, "recheck", {p})
  <2>1. /\ SweepTyped' /\ sweep'[s].at = "recheck" /\ sweep'[s].todo = {p}
        /\ sweep'[s].boot = sweep[s].boot
        /\ \A t \in Sweeper : t # s => sweep'[t] = sweep[t]
    BY <1>5, TypeParts, Goes DEF CacheInv, SweepState
  <2>2. sweep'[s].todo \cap Reserved = {}
    BY <1>5, <2>1 DEF Blocked
  <2> QED
    BY <1>1, <1>2, <2>1, <2>2, JobMove
<1> QED
  BY <1>3, <1>4, <1>5 DEF DrainEntry

\* A job looks for files over the cap.
LEMMA ConformKeeps == ASSUME CacheInv, NEW s \in Sweeper, Conform(s) PROVE CacheInv'
<1>1. /\ UNCHANGED <<durable, reservation, settle, pinned, flight, late, open>>
      /\ ready \in BOOLEAN /\ sweep[s].boot \in BOOLEAN /\ (ready => adopted)
      /\ sweep[s].at = "conform" /\ GateFree
  BY TypeParts DEF Conform, CacheInv, RestTyped, RecoveryInv, SweepTyped, SweepRecord
<1>2. sweep[s].boot => adopted
  BY <1>1 DEF CacheInv, RecoveryInv
<1>3. CASE Halt(s) /\ ready' = (ready \/ sweep[s].boot)
  <2>1. /\ SweepTyped' /\ sweep'[s].at = "idle" /\ ~sweep'[s].boot
        /\ \A t \in Sweeper : t # s => sweep'[t] = sweep[t]
    BY <1>3, TypeParts, Halts DEF CacheInv
  <2> QED
    BY <1>1, <1>2, <1>3, <2>1, JobMove DEF SweepHolds
<1>4. ASSUME NEW S \in SUBSET (In("active") \ Blocked), Go(s, "claim", S), UNCHANGED ready
      PROVE  CacheInv'
  <2>1. S \in SUBSET Path /\ S \cap (Reserved \cup pinned) = {}
    BY DEF Blocked, In
  <2>2. /\ SweepTyped' /\ sweep'[s].at = "claim" /\ sweep'[s].todo = S
        /\ sweep'[s].boot = sweep[s].boot
        /\ \A t \in Sweeper : t # s => sweep'[t] = sweep[t]
    BY <1>4, <2>1, TypeParts, Goes DEF CacheInv, SweepState
  <2> QED
    BY <1>1, <1>2, <1>4, <2>1, <2>2, JobMove
<1> QED
  BY <1>3, <1>4 DEF Conform

\* A job whose batch is settled goes on.
LEMMA BatchSettledKeeps == ASSUME CacheInv, NEW s \in Sweeper, BatchSettled(s) PROVE CacheInv'
<1>1. /\ UNCHANGED <<durable, reservation, settle, pinned, flight, late, open, ready>>
      /\ ready \in BOOLEAN /\ (ready => adopted)
      /\ sweep[s].at \in {"wait", "retired", "conformed"}
  BY TypeParts DEF BatchSettled, CacheInv, RestTyped, RecoveryInv
<1>2. sweep[s].boot => adopted
  BY <1>1 DEF CacheInv, RecoveryInv
<1>3. {} \in SUBSET Path
  OBVIOUS
<1>4. /\ SweepTyped' /\ sweep'[s].at \in {"drain", "conform", "idle"}
      /\ sweep'[s].boot => sweep[s].boot
      /\ \A t \in Sweeper : t # s => sweep'[t] = sweep[t]
  BY <1>3, TypeParts, Phases, Goes DEF BatchSettled, CacheInv, SweepState
<1> QED
  BY <1>1, <1>2, <1>4, JobMove DEF SweepHolds

(* Then what writes the ledger, or takes and lets go of paths.               *)

\* The recovery charges the files it found without a row.
LEMMA AdoptKeeps == ASSUME CacheInv, NEW s \in Sweeper, Adopt(s) PROVE CacheInv'
<1> USE DEF CacheInv
<1> DEFINE manifest == sweep[s].todo
<1>1. /\ UNCHANGED <<disk, out, gone, reservation, settle, pinned, flight, late, open, ready>>
      /\ sweep[s].at = "adopt" /\ adopted'
  BY DEF Adopt
<1>2. PICK empty \in SUBSET (manifest \cap lost) :
        /\ row' = [p \in Path |->
             IF p \in empty /\ row[p] \in {"none", "active"} THEN "retiring"
             ELSE IF p \in manifest /\ row[p] = "none" THEN "active"
             ELSE row[p]]
        /\ ref' = ref \ empty /\ lost' = lost \ empty
  BY DEF Adopt
<1>3. /\ row' \in [Path -> RowState]
      /\ \A p \in Path :
           \/ p \notin empty /\ row'[p] = row[p]
           \/ p \notin empty /\ row[p] = "none" /\ row'[p] = "active"
           \/ p \in empty /\ row[p] \in {"none", "active"} /\ row'[p] = "retiring"
           \/ p \in empty /\ row[p] \in {"reserved", "retiring"} /\ row'[p] = row[p]
      /\ \A p \in manifest \cap Path : row'[p] # "none"
      /\ empty \cap out = {} /\ ref' \subseteq ref /\ lost' \subseteq lost
  BY <1>2, TypeParts DEF RestTyped, RowState, RecoveryInv
<1>4. In("active") \ manifest \in SUBSET Path
  BY DEF In
<1>5. /\ SweepTyped' /\ sweep'[s].at = "check"
      /\ \A t \in Sweeper : t # s => sweep'[t] = sweep[t]
  BY <1>4, TypeParts, Goes DEF Adopt, SweepState
<1>6. TypeOK'
  BY <1>1, <1>2, <1>3, <1>5, TypeParts, TypeNext DEF FlightTyped, OwnerTyped, RestTyped, Adopt
<1>7. GateInv' /\ BatchInv'
  BY <1>1, <1>5 DEF GateInv, BatchInv, FlightHolds, SweepHolds, Reserved
<1>8. ReservationInv' /\ OwnerInv'
  BY <1>1, <1>3 DEF ReservationInv, OwnerInv, Carrying
<1>9. \A p \in disk : row'[p] # "none"
  BY <1>1, <1>3, TypeParts DEF ChargeInv, RestTyped
<1>10. ChargeInv' /\ RecoveryInv'
  BY <1>1, <1>2, <1>3, <1>5, <1>9, TypeParts DEF ChargeInv, RecoveryInv, RestTyped
<1>11. ReferencesHold'
  BY <1>1, <1>2, <1>3, TypeParts DEF ReferencesHold, RestTyped
<1> QED
  BY <1>6, <1>7, <1>8, <1>10, <1>11

\* The recovery looks again at the stored rows it found no file for.
LEMMA CheckKeeps == ASSUME CacheInv, NEW s \in Sweeper, Check(s) PROVE CacheInv'
<1> USE DEF CacheInv
<1>1. /\ UNCHANGED <<disk, out, gone, adopted, reservation, settle, pinned, flight, late, open,
                     ready>>
      /\ sweep[s].at = "check" /\ sweep[s].todo \in SUBSET Path
  BY TypeParts DEF Check, SweepTyped, SweepRecord
<1>2. /\ SweepTyped' /\ sweep'[s].at \in {"drain", "check", "idle"}
      /\ sweep'[s].boot => sweep[s].boot
      /\ \A t \in Sweeper : t # s => sweep'[t] = sweep[t]
  <2>1. \A p : sweep[s].todo \ {p} \in SUBSET Path
    BY <1>1
  <2>2. {} \in SUBSET Path
    OBVIOUS
  <2>3. \/ Halt(s)
        \/ \E todo \in SUBSET Path : Go(s, "drain", todo) \/ Go(s, "check", todo)
    BY <2>1, <2>2 DEF Check
  <2>4. {"drain", "check"} \subseteq SweepState
    BY DEF SweepState
  <2> QED
    BY <2>3, <2>4, TypeParts, Goes, Halts
<1>3. UNCHANGED <<row, ref, lost>> \/ \E p \in Path : Repair(p)
  BY <1>1 DEF Check
<1>4. /\ row' \in [Path -> RowState] /\ ref' \subseteq ref /\ lost' \subseteq lost
      /\ OwnerInv' /\ ReferencesHold'
      /\ \A q \in ref' : row'[q] = "none" => q \in disk
      /\ \A q \in disk : row'[q] = row[q]
      /\ \A q \in Path : row[q] = "reserved" => row'[q] = "reserved"
  <2>1. CASE UNCHANGED <<row, ref, lost>>
    BY <1>1, <2>1, TypeParts DEF RestTyped, OwnerInv, ReferencesHold, RecoveryInv
  <2> QED
    BY <1>1, <1>3, <2>1, Repairs
<1>5. TypeOK'
  BY <1>1, <1>2, <1>4, TypeParts, TypeNext DEF FlightTyped, OwnerTyped, RestTyped
<1>6. GateInv' /\ BatchInv'
  BY <1>1, <1>2 DEF GateInv, BatchInv, FlightHolds, SweepHolds, Reserved
<1>7. ReservationInv'
  BY <1>1, <1>4 DEF ReservationInv, Carrying
<1>8. ChargeInv' /\ RecoveryInv'
  BY <1>1, <1>2, <1>4 DEF ChargeInv, RecoveryInv
<1> QED
  BY <1>4, <1>5, <1>6, <1>7, <1>8

\* A drain owns the row it looked at again.
LEMMA DrainOwnKeeps == ASSUME CacheInv, NEW s \in Sweeper, DrainOwn(s) PROVE CacheInv'
<1> USE DEF CacheInv
<1> DEFINE todo == sweep[s].todo
<1>1. /\ UNCHANGED <<durable, reservation, pinned, flight, late, open, ready>>
      /\ sweep[s].at = "recheck" /\ todo \cap Reserved = {}
      /\ ready \in BOOLEAN /\ (ready => adopted) /\ (sweep[s].boot => adopted)
  BY TypeParts DEF DrainOwn, BatchInv, RestTyped, RecoveryInv
<1>2. CASE Phase(s, "drain") /\ UNCHANGED settle
  BY <1>1, <1>2, TypeParts, Phases, JobMove DEF SweepState, SweepHolds
<1>3. CASE /\ todo \subseteq In("reserved") \cup In("retiring")
           /\ settle' = [p \in Path |-> IF p \in todo THEN [at |-> "own", by |-> s] ELSE settle[p]]
           /\ Go(s, "wait", {})
  <2> USE DEF durable
  <2>1. {} \in SUBSET Path
    OBVIOUS
  <2>2. /\ SweepTyped' /\ sweep'[s].at = "wait" /\ sweep'[s].boot = sweep[s].boot
        /\ \A t \in Sweeper : t # s => sweep'[t] = sweep[t]
    BY <1>3, <2>1, TypeParts, Goes DEF SweepState
  <2>3. /\ OwnerTyped'
        /\ \A p \in Path : settle'[p].at = IF p \in todo THEN "own" ELSE settle[p].at
    BY <1>3, TypeParts DEF OwnerTyped, OwnerRecord, Worker
  <2>4. TypeOK'
    BY <1>1, <2>2, <2>3, TypeParts, TypeNext DEF FlightTyped, RestTyped
  <2>5. GateInv' /\ BatchInv'
    BY <1>1, <2>2 DEF GateInv, BatchInv, FlightHolds, SweepHolds, Reserved
  <2>6. OwnerInv'
    BY <1>1, <1>3, <2>3 DEF OwnerInv, Reserved, In
  <2>7. ReservationInv' /\ ReferencesHold'
    BY <1>1 DEF ReservationInv, ReferencesHold, Carrying
  <2>8. ChargeInv' /\ RecoveryInv'
    BY <1>1, <2>2 DEF ChargeInv, RecoveryInv
  <2> QED
    BY <2>4, <2>5, <2>6, <2>7, <2>8
<1> QED
  BY <1>2, <1>3 DEF DrainOwn

(* A claim of a cleanup job.                                                 *)
LEMMA JobClaimKeeps ==
  ASSUME CacheInv, NEW s \in Sweeper, NEW S \in SUBSET In("active"),
         S \cap Reserved = {}, S \cap out = {}, Claim(s, S),
         NEW at \in {"retired", "conformed"}, Go(s, at, {}),
         sweep[s].at \in {"inactive", "claim"},
         UNCHANGED <<disk, out, gone, adopted, reservation, pinned, flight, late, open, ready>>
  PROVE  CacheInv'
<1> USE DEF CacheInv
<1>1. {} \in SUBSET Path /\ at \in SweepState
  BY DEF SweepState
<1>2. /\ SweepTyped' /\ sweep'[s].at = at /\ sweep'[s].boot = sweep[s].boot
      /\ \A t \in Sweeper : t # s => sweep'[t] = sweep[t]
  BY <1>1, TypeParts, Goes
<1>3. /\ row' \in [Path -> RowState] /\ ref' \subseteq ref /\ lost' \subseteq lost
      /\ OwnerTyped' /\ OwnerInv' /\ ReferencesHold'
      /\ \A q \in ref' : row'[q] = "none" => q \in disk
      /\ \A q \in Path : row'[q] = "none" <=> row[q] = "none"
      /\ \A q \in Path : reservation[q] # "none" => row'[q] = row[q]
  BY Claims DEF Worker, Reserved
<1>4. TypeOK'
  BY <1>2, <1>3, TypeParts, TypeNext DEF FlightTyped, RestTyped
<1>5. GateInv' /\ BatchInv'
  BY <1>2 DEF GateInv, BatchInv, FlightHolds, SweepHolds, Reserved
<1>6. ReservationInv'
  BY <1>3 DEF ReservationInv, Carrying
<1>7. ChargeInv' /\ RecoveryInv'
  BY <1>2, <1>3, TypeParts DEF ChargeInv, RecoveryInv, RestTyped
<1> QED
  BY <1>3, <1>4, <1>5, <1>6, <1>7

\* A recovery claims the stored files that no message names.
LEMMA RetireInactiveKeeps == ASSUME CacheInv, NEW s \in Sweeper, RetireInactive(s) PROVE CacheInv'
<1>1. PICK chat :
        Claim(s, (In("active") \cap ((Path \ ref) \cup chat)) \ (Blocked \cup out))
  BY DEF RetireInactive
<1> DEFINE S == (In("active") \cap ((Path \ ref) \cup chat)) \ (Blocked \cup out)
<1>2. S \in SUBSET In("active") /\ S \cap Reserved = {} /\ S \cap out = {} /\ Claim(s, S)
  BY <1>1 DEF Blocked
<1> HIDE DEF S
<1> QED
  BY <1>2, JobClaimKeeps DEF RetireInactive

\* A job claims the files over the cap.
LEMMA ConformClaimKeeps == ASSUME CacheInv, NEW s \in Sweeper, ConformClaim(s) PROVE CacheInv'
<1> DEFINE S == sweep[s].todo
<1>1. /\ UNCHANGED <<disk, out, gone, adopted, reservation, pinned, flight, late, open, ready>>
      /\ sweep[s].at = "claim" /\ S \cap Reserved = {}
      /\ ready \in BOOLEAN /\ (ready => adopted) /\ (sweep[s].boot => adopted)
  BY TypeParts DEF ConformClaim, CacheInv, BatchInv, RestTyped, RecoveryInv
<1>2. CASE Go(s, "conform", {}) /\ UNCHANGED <<row, ref, lost, settle>>
  <2>1. {} \in SUBSET Path
    OBVIOUS
  <2> QED
    BY <1>1, <1>2, <2>1, TypeParts, Goes, JobMove DEF CacheInv, SweepState, SweepHolds, durable
<1>3. CASE Refused(S) = {} /\ Go(s, "conformed", {}) /\ Claim(s, S)
  <2>1. S \in SUBSET In("active") /\ S \cap out = {}
    BY <1>3 DEF Refused
  <2> HIDE DEF S
  <2> QED
    BY <1>1, <1>3, <2>1, JobClaimKeeps
<1> QED
  BY <1>2, <1>3 DEF ConformClaim

(* A step that changes who owns what to settle, and perhaps one row of it.   *)
LEMMA LetGoKeeps == ASSUME CacheInv, NEW s \in Sweeper, LetGo(s) PROVE CacheInv'
<1> USE DEF CacheInv, durable
<1>1. UNCHANGED <<durable, reservation, pinned, flight, late, sweep, open, ready>>
  BY DEF LetGo
<1>2. /\ OwnerTyped'
      /\ \A p \in Path : settle'[p].at \in {"none", settle[p].at}
  BY TypeParts DEF LetGo, OwnerTyped, OwnerRecord, NoOwner
<1>3. TypeOK'
  BY <1>1, <1>2, TypeParts, TypeNext DEF FlightTyped, SweepTyped, RestTyped
<1>4. GateInv' /\ BatchInv'
  BY <1>1 DEF GateInv, BatchInv, FlightHolds, SweepHolds, Reserved
<1>5. OwnerInv'
  BY <1>1, <1>2 DEF OwnerInv
<1>6. ReservationInv' /\ ChargeInv' /\ RecoveryInv' /\ ReferencesHold'
  BY <1>1 DEF ReservationInv, ChargeInv, RecoveryInv, ReferencesHold, Carrying
<1> QED
  BY <1>3, <1>4, <1>5, <1>6

\* Every step of a cleanup job keeps the books.
LEMMA CleanupKeeps == ASSUME CacheInv, NEW s \in Sweeper, Cleanup(s) PROVE CacheInv'
  BY StartSweepKeeps, GiveUpKeeps, ScanKeeps, AdoptKeeps, CheckKeeps, ListDueKeeps,
     DrainEntryKeeps, DrainOwnKeeps, RetireInactiveKeeps, LetGoKeeps, ConformKeeps,
     ConformClaimKeeps, BatchSettledKeeps DEF Cleanup

-----------------------------------------------------------------------------
(* Retirements, other users of the files, and the process.                   *)

\* An unlink removes the file of a row that stays charged.
LEMMA UnlinkKeeps ==
  ASSUME CacheInv, NEW w \in Worker, NEW p \in Path, Unlink(w, p) PROVE CacheInv'
<1> USE DEF CacheInv
<1>1. /\ UNCHANGED <<lost, row, ref, out, gone, adopted, reservation, pinned, flight, late, sweep,
                     open, ready>>
      /\ settle[p].at # "none"
  BY DEF Unlink, Batch
<1>2. /\ OwnerTyped'
      /\ \/ disk' = disk \ {p} /\ settle'[p].at = "absent"
         \/ disk' = disk /\ settle'[p].at = "kept"
      /\ \A q \in Path : q # p => settle'[q] = settle[q]
  BY TypeParts DEF Unlink, OwnerTyped, OwnerRecord
<1>3. /\ reservation[p] = "none" /\ row[p] \in {"reserved", "retiring"}
      /\ p \notin ref /\ p \notin out
  BY <1>1, TypeParts DEF OwnerInv, ReferencesHold, RestTyped
<1>4. TypeOK'
  BY <1>1, <1>2, TypeParts, TypeNext DEF FlightTyped, SweepTyped, RestTyped
<1>5. GateInv' /\ BatchInv'
  BY <1>1 DEF GateInv, BatchInv, FlightHolds, SweepHolds, Reserved
<1>6. ReservationInv'
  BY <1>1, <1>2, <1>3 DEF ReservationInv, Carrying
<1>7. OwnerInv'
  BY <1>1, <1>2, <1>3 DEF OwnerInv
<1>8. ChargeInv' /\ RecoveryInv' /\ ReferencesHold'
  BY <1>1, <1>2, <1>3 DEF ChargeInv, RecoveryInv, ReferencesHold
<1> QED
  BY <1>4, <1>5, <1>6, <1>7, <1>8

\* A row is forgotten only once the unlink was seen.
LEMMA RecordKeeps ==
  ASSUME CacheInv, NEW w \in Worker, NEW p \in Path, Record(w, p) PROVE CacheInv'
<1> USE DEF CacheInv
<1>1. /\ UNCHANGED <<disk, lost, ref, out, gone, adopted, reservation, pinned, flight, late, sweep,
                     open, ready>>
      /\ settle[p].at \in {"absent", "kept"}
  BY DEF Record
<1>2. /\ OwnerTyped' /\ settle'[p].at = "none"
      /\ \A q \in Path : q # p => settle'[q].at = settle[q].at
  BY TypeParts DEF Record, OwnerTyped, OwnerRecord, NoOwner, Batch
<1>3. /\ row' \in [Path -> RowState]
      /\ \A q \in Path : q # p => row'[q] = row[q]
      /\ \/ row'[p] = row[p]
         \/ settle[p].at = "absent" /\ row'[p] = "none"
         \/ row'[p] = "retiring"
  BY TypeParts DEF Record, RestTyped, RowState
<1>4. /\ reservation[p] = "none" /\ row[p] \in {"reserved", "retiring"}
      /\ p \notin ref /\ p \notin out /\ (settle[p].at = "absent" => p \notin disk)
  BY <1>1, TypeParts DEF OwnerInv, ReferencesHold, RestTyped
<1>5. TypeOK'
  BY <1>1, <1>2, <1>3, TypeParts, TypeNext DEF FlightTyped, SweepTyped, RestTyped
<1>6. GateInv' /\ BatchInv'
  BY <1>1 DEF GateInv, BatchInv, FlightHolds, SweepHolds, Reserved
<1>7. ReservationInv'
  BY <1>1, <1>3, <1>4 DEF ReservationInv, Carrying
<1>8. OwnerInv'
  BY <1>1, <1>2, <1>3 DEF OwnerInv
<1>9. ChargeInv' /\ RecoveryInv' /\ ReferencesHold'
  BY <1>1, <1>3, <1>4, TypeParts DEF ChargeInv, RecoveryInv, ReferencesHold, RestTyped
<1> QED
  BY <1>5, <1>6, <1>7, <1>8, <1>9

\* Viewers, sends, deletions and losses outside the app keep the books.
LEMMA OthersKeep == ASSUME CacheInv, NEW p \in Path, Others(p) PROVE CacheInv'
<1> USE DEF CacheInv, durable, memory
<1>1. CASE Pin(p) \/ Unpin(p)
  <2>1. /\ UNCHANGED <<durable, reservation, settle, flight, late, sweep, open, ready>>
        /\ (pinned' = pinned \cup {p} /\ p \notin Pending) \/ pinned' = pinned \ {p}
    BY <1>1 DEF Pin, Unpin, Protectable
  <2>2. TypeOK'
    BY <2>1, TypeParts, TypeNext DEF FlightTyped, OwnerTyped, SweepTyped, RestTyped
  <2>3. BatchInv'
    <3>1. /\ \A q \in Path : flight[q].at = "claim" => flight[q].todo \subseteq Pending
          /\ \A s \in Sweeper : sweep[s].at = "claim" => sweep[s].todo \subseteq Pending
      BY TypeParts DEF Pending, FlightTyped, FlightRecord, SweepTyped, SweepRecord
    <3> QED
      BY <2>1, <3>1 DEF BatchInv, Reserved
  <2>4. GateInv' /\ ReservationInv' /\ OwnerInv' /\ ChargeInv' /\ RecoveryInv' /\ ReferencesHold'
    BY <2>1 DEF GateInv, ReservationInv, OwnerInv, ChargeInv, RecoveryInv, ReferencesHold,
                FlightHolds, SweepHolds, Carrying
  <2> QED
    BY <2>2, <2>3, <2>4
<1>2. CASE Reuse(p)
  <2>1. /\ UNCHANGED <<disk, out, gone, adopted, reservation, settle, flight, late, sweep, open,
                       ready>>
        /\ pinned' = pinned \ {p} /\ Repair(p)
    BY <1>2 DEF Reuse
  <2>2. /\ row' \in [Path -> RowState] /\ ref' \subseteq ref /\ lost' \subseteq lost
        /\ OwnerInv' /\ ReferencesHold'
        /\ \A q \in ref' : row'[q] = "none" => q \in disk
        /\ \A q \in disk : row'[q] = row[q]
        /\ \A q \in Path : row[q] = "reserved" => row'[q] = "reserved"
    BY <2>1, Repairs
  <2>3. TypeOK'
    BY <2>1, <2>2, TypeParts, TypeNext DEF FlightTyped, OwnerTyped, SweepTyped, RestTyped
  <2>4. GateInv' /\ BatchInv'
    BY <2>1 DEF GateInv, BatchInv, FlightHolds, SweepHolds, Reserved
  <2>5. ReservationInv' /\ ChargeInv' /\ RecoveryInv'
    BY <2>1, <2>2 DEF ReservationInv, ChargeInv, RecoveryInv, Carrying
  <2> QED
    BY <2>2, <2>3, <2>4, <2>5
<1>3. CASE QueueSend(p) \/ SendDone(p) \/ DeleteMessage(p)
  <2>1. /\ UNCHANGED <<disk, lost, row, adopted, memory>>
        /\ gone' \subseteq Path
        /\ \/ p \in disk \ lost /\ row[p] \notin {"reserved", "retiring"}
              /\ out' = out \cup {p} /\ ref' = ref \cup {p}
           \/ out' = out \ {p} /\ ref' = ref
           \/ out' = out /\ ref' = ref \ {p}
    BY <1>3, TypeParts DEF QueueSend, SendDone, DeleteMessage, RestTyped
  <2>2. TypeOK'
    BY <2>1, TypeParts, TypeNext DEF FlightTyped, OwnerTyped, SweepTyped, RestTyped
  <2>3. GateInv' /\ BatchInv'
    BY <2>1 DEF GateInv, BatchInv, FlightHolds, SweepHolds, Reserved
  <2>4. ReservationInv' /\ OwnerInv' /\ ChargeInv'
    BY <2>1 DEF ReservationInv, OwnerInv, ChargeInv, Carrying
  <2>5. RecoveryInv' /\ ReferencesHold'
    BY <2>1, TypeParts DEF RecoveryInv, ReferencesHold, RestTyped, RowState
  <2> QED
    BY <2>2, <2>3, <2>4, <2>5
<1>4. CASE Lose(p)
  <2>1. /\ UNCHANGED <<row, ref, out, gone, adopted, memory>>
        /\ row[p] = "active" /\ p \notin out
        /\ disk' \in {disk, disk \ {p}} /\ lost' = lost \cup {p}
    BY <1>4 DEF Lose
  <2>2. TypeOK'
    BY <2>1, TypeParts, TypeNext DEF FlightTyped, OwnerTyped, SweepTyped, RestTyped
  <2>3. GateInv' /\ BatchInv'
    BY <2>1 DEF GateInv, BatchInv, FlightHolds, SweepHolds, Reserved
  <2>4. ReservationInv' /\ OwnerInv' /\ ChargeInv'
    BY <2>1 DEF ReservationInv, OwnerInv, ChargeInv, Carrying
  <2>5. RecoveryInv' /\ ReferencesHold'
    BY <2>1 DEF RecoveryInv, ReferencesHold
  <2> QED
    BY <2>2, <2>3, <2>4, <2>5
<1> QED
  BY <1>1, <1>2, <1>3, <1>4 DEF Others

\* So do a pause, a resume and a crash, which forget what lives in memory.
LEMMA ProcessKeeps ==
  ASSUME CacheInv, Pause \/ Resume \/ Crash \/ UNCHANGED vars PROVE CacheInv'
<1> USE DEF CacheInv, durable, memory
<1>1. CASE Pause
  <2>1. /\ UNCHANGED <<durable, reservation, settle, pinned, late>> /\ open' = FALSE
        /\ ready' = FALSE
    BY <1>1 DEF Pause
  <2>2. /\ FlightTyped'
        /\ \A p \in Path : flight'[p].at = flight[p].at /\ flight'[p].todo = flight[p].todo
    <3>1. \A r \in FlightRecord :
            /\ [r EXCEPT !.live = FALSE] \in FlightRecord
            /\ [r EXCEPT !.live = FALSE].at = r.at /\ [r EXCEPT !.live = FALSE].todo = r.todo
      BY DEF FlightRecord
    <3>2. \A p \in Path : flight[p] \in FlightRecord
      BY TypeParts DEF FlightTyped
    <3> QED
      BY <1>1, <3>1, <3>2 DEF Pause, FlightTyped
  <2>3. /\ SweepTyped'
        /\ \A s \in Sweeper : /\ sweep'[s].at = sweep[s].at /\ sweep'[s].todo = sweep[s].todo
                              /\ sweep'[s].boot = sweep[s].boot
    <3>1. \A r \in SweepRecord :
            /\ [r EXCEPT !.live = FALSE] \in SweepRecord
            /\ [r EXCEPT !.live = FALSE].at = r.at /\ [r EXCEPT !.live = FALSE].todo = r.todo
            /\ [r EXCEPT !.live = FALSE].boot = r.boot
      BY DEF SweepRecord
    <3>2. \A s \in Sweeper : sweep[s] \in SweepRecord
      BY TypeParts DEF SweepTyped
    <3> QED
      BY <1>1, <3>1, <3>2 DEF Pause, SweepTyped
  <2>4. TypeOK'
    BY <2>1, <2>2, <2>3, TypeParts, TypeNext DEF OwnerTyped, RestTyped
  <2>5. GateInv' /\ BatchInv'
    BY <2>1, <2>2, <2>3 DEF GateInv, BatchInv, FlightHolds, SweepHolds, Reserved
  <2>6. ReservationInv' /\ OwnerInv' /\ ReferencesHold'
    BY <2>1, <2>2 DEF ReservationInv, OwnerInv, ReferencesHold, Carrying
  <2>7. ChargeInv' /\ RecoveryInv'
    BY <2>1, <2>2, <2>3 DEF ChargeInv, RecoveryInv
  <2> QED
    BY <2>4, <2>5, <2>6, <2>7
<1>2. CASE Resume \/ UNCHANGED vars
  <2>1. UNCHANGED <<durable, reservation, settle, pinned, flight, late, sweep, ready>>
        /\ open' \in BOOLEAN
    BY <1>2, TypeParts DEF Resume, vars, RestTyped
  <2>2. TypeOK'
    BY <2>1, TypeParts, TypeNext DEF FlightTyped, OwnerTyped, SweepTyped, RestTyped
  <2>3. GateInv' /\ BatchInv'
    BY <2>1 DEF GateInv, BatchInv, FlightHolds, SweepHolds, Reserved
  <2>4. ReservationInv' /\ OwnerInv' /\ ChargeInv' /\ RecoveryInv' /\ ReferencesHold'
    BY <2>1 DEF ReservationInv, OwnerInv, ChargeInv, RecoveryInv, ReferencesHold, Carrying
  <2> QED
    BY <2>2, <2>3, <2>4
<1>3. CASE Crash
  <2>1. /\ UNCHANGED durable /\ open' = FALSE /\ ready' = FALSE /\ pinned' = {} /\ late' = {}
        /\ reservation' = [p \in Path |-> "none"]
    BY <1>3 DEF Crash
  <2>2. NoFlight \in FlightRecord /\ NoFlight.at = "idle"
    BY DEF NoFlight, FlightRecord, FlightState
  <2>3. NoSweep \in SweepRecord /\ NoSweep.at = "idle" /\ ~NoSweep.boot
    BY DEF NoSweep, SweepRecord, SweepState
  <2>4. NoOwner \in OwnerRecord /\ NoOwner.at = "none"
    BY DEF NoOwner, OwnerRecord
  <2>5. /\ FlightTyped' /\ SweepTyped' /\ OwnerTyped'
        /\ \A p \in Path : flight'[p].at = "idle" /\ settle'[p].at = "none"
        /\ \A s \in Sweeper : sweep'[s].at = "idle" /\ ~sweep'[s].boot
    BY <1>3, <2>2, <2>3, <2>4 DEF Crash, FlightTyped, SweepTyped, OwnerTyped
  <2>6. TypeOK'
    BY <2>1, <2>5, TypeParts, TypeNext DEF RestTyped
  <2>7. GateInv' /\ BatchInv'
    BY <2>1, <2>5 DEF GateInv, BatchInv, FlightHolds, SweepHolds
  <2>8. ReservationInv' /\ OwnerInv' /\ ReferencesHold'
    BY <2>1, <2>5 DEF ReservationInv, OwnerInv, ReferencesHold, Carrying
  <2>9. ChargeInv' /\ RecoveryInv'
    BY <2>1, <2>5 DEF ChargeInv, RecoveryInv
  <2> QED
    BY <2>6, <2>7, <2>8, <2>9
<1> QED
  BY <1>1, <1>2, <1>3

\* An upgraded phone starts with the books in order.
LEMMA CacheInit == Init => CacheInv
<1> SUFFICES ASSUME Init PROVE CacheInv
  OBVIOUS
<1>1. NoFlight \in FlightRecord /\ NoFlight.at = "idle"
  BY DEF NoFlight, FlightRecord, FlightState
<1>2. NoSweep \in SweepRecord /\ NoSweep.at = "idle" /\ ~NoSweep.boot
  BY DEF NoSweep, SweepRecord, SweepState
<1>3. NoOwner \in OwnerRecord /\ NoOwner.at = "none"
  BY DEF NoOwner, OwnerRecord
<1>4. /\ FlightTyped /\ SweepTyped /\ OwnerTyped
      /\ \A p \in Path : flight[p].at = "idle" /\ settle[p].at = "none"
      /\ \A s \in Sweeper : sweep[s].at = "idle" /\ ~sweep[s].boot
  BY <1>1, <1>2, <1>3 DEF Init, FlightTyped, SweepTyped, OwnerTyped
<1>5. RestTyped
  BY DEF Init, RestTyped, RowState
<1>6. TypeOK
  BY <1>4, <1>5 DEF TypeOK, FlightTyped, SweepTyped, OwnerTyped, RestTyped, FlightRecord,
                    SweepRecord, OwnerRecord
<1>7. GateInv /\ BatchInv /\ ReservationInv /\ OwnerInv
  BY <1>4 DEF Init, GateInv, BatchInv, ReservationInv, OwnerInv, FlightHolds, SweepHolds, Carrying
<1>8. ChargeInv /\ RecoveryInv /\ ReferencesHold
  BY <1>4 DEF Init, ChargeInv, RecoveryInv, ReferencesHold
<1> QED
  BY <1>6, <1>7, <1>8 DEF CacheInv

\* No step disturbs them.
LEMMA CacheStep == ASSUME CacheInv, [Next]_vars PROVE CacheInv'
  BY DownloadStepKeeps, CleanupKeeps, UnlinkKeeps, RecordKeeps, OthersKeep, ProcessKeeps DEF Next

\* They are always in order.
LEMMA CacheInvariant == Spec => []CacheInv
  BY CacheInit, CacheStep, PTL DEF Spec

-----------------------------------------------------------------------------
(* Whatever dies, fails or is cancelled between a row and its file, no file  *)
(* is left that no row charges once the first recovery has run.              *)
THEOREM FilesAreCharged == Spec => []EveryFileIsCharged
<1>1. CacheInv => EveryFileIsCharged
  BY DEF CacheInv, ChargeInv, EveryFileIsCharged
<1> QED
  BY <1>1, CacheInvariant, PTL

(* Nor does a message, or a queued send, lose the file it names to a cleanup *)
(* or a discarded transfer.                                                  *)
THEOREM ReferencesAreServed == Spec => []ReferencesHold
<1>1. CacheInv => ReferencesHold
  BY DEF CacheInv
<1> QED
  BY <1>1, CacheInvariant, PTL

-----------------------------------------------------------------------------
(* Between the two transactions of an admission nothing may raise the count  *)
(* the first one took.  The gate keeps other admissions out; a recovery that *)
(* adopts files runs only while no flight has a current lease.               *)

\* Downloads are open while some flight's lease is current, no recovery of this process
\* runs once they are, and there is one such recovery at a time.
BootInv ==
    /\ \A p \in Path : flight[p].live => ready
    /\ ready => \A s \in Sweeper : ~sweep[s].boot
    /\ \A s \in Sweeper : sweep[s].at \in {"scan", "adopt"} => sweep[s].boot
    /\ \A s, t \in Sweeper : sweep[s].boot /\ sweep[t].boot => s = t

\* A flight about to reserve its row, if it still may, finds the room its plan counted.
RoomInv ==
    \A p \in Path : flight[p].at = "reserve" /\ flight[p].live => Cardinality(Charged) + 1 <= Cap

\* The charged paths are finitely many.
LEMMA ChargedFinite == IsFiniteSet(Charged) /\ Cardinality(Charged) \in Nat
<1>1. Charged \subseteq Path
  BY DEF Charged
<1> QED
  BY <1>1, CacheAssumption, FS_Subset, FS_CardinalityType

\* No flight comes to its reservation, and none gets a lease.
NoneToReserve ==
    \A p \in Path : flight'[p].at = "reserve" /\ flight'[p].live
      => flight[p].at = "reserve" /\ flight[p].live

\* A step that inserts no row, and brings no flight to its reservation, leaves the room.
LEMMA RoomLeft ==
  ASSUME RoomInv, NoneToReserve, \A p \in Path : row[p] = "none" => row'[p] = "none"
  PROVE  RoomInv'
<1> SUFFICES ASSUME NEW p \in Path, flight'[p].at = "reserve", flight'[p].live
             PROVE  Cardinality(Charged') + 1 <= Cap
  BY DEF RoomInv
<1>1. Cardinality(Charged) + 1 <= Cap
  BY DEF RoomInv, NoneToReserve
<1>2. Charged' \subseteq Charged
  BY DEF Charged, In
<1>3. /\ Cardinality(Charged') \in Nat /\ Cardinality(Charged) \in Nat
      /\ Cardinality(Charged') <= Cardinality(Charged)
  BY <1>2, ChargedFinite, FS_Subset, FS_CardinalityType
<1> QED
  BY <1>1, <1>3, CacheAssumption

\* A step that touches no flight and inserts no row.
LEMMA RoomSame ==
  ASSUME RoomInv, flight' = flight, \A p \in Path : row[p] = "none" => row'[p] = "none"
  PROVE  RoomInv'
  BY RoomLeft DEF NoneToReserve

\* A flight moves, to where it does not reserve.
LEMMA RoomMoves ==
  ASSUME FlightTyped, NEW p \in Path, NEW at \in FlightState, at # "reserve",
         Fly(p, at) \/ Land(p)
  PROVE  NoneToReserve /\ \A q \in Path : flight'[q].live => flight[q].live
<1>1. CASE Fly(p, at)
  BY <1>1 DEF Fly, FlightTyped, FlightRecord, NoneToReserve
<1>2. CASE Land(p)
  BY <1>2 DEF Land, NoFlight, FlightTyped, FlightRecord, NoneToReserve
<1> QED
  BY <1>1, <1>2

\* The plan and the reservation: who holds the gate is alone between the transactions.
LEMMA PlanRoom == ASSUME CacheInv, RoomInv, NEW p \in Path, Plan(p) PROVE RoomInv'
<1>1. flight[p].at = "plan" /\ row' = row
  BY DEF Plan, durable
<1>2. \A q \in Path : flight[q].at # "reserve"
  BY <1>1 DEF CacheInv, GateInv, FlightHolds
<1>3. CASE Land(p)
  BY <1>1, <1>3, RoomMoves, RoomLeft, TypeParts DEF CacheInv, FlightState
<1>4. CASE Cardinality(Charged \ {}) + 1 <= Cap
  <2>1. Charged \ {} = Charged /\ Charged' = Charged
    BY <1>1 DEF Charged, In
  <2> QED
    BY <1>4, <2>1 DEF RoomInv
<1>5. ASSUME NEW stage \in {"evict", "claim"}, NEW batch,
             flight' = [flight EXCEPT ![p] = [@ EXCEPT !.at = stage, !.todo = batch]]
      PROVE  RoomInv'
  <2>1. flight'[p].at # "reserve" /\ \A q \in Path : q # p => flight'[q] = flight[q]
    BY <1>5, TypeParts DEF CacheInv, FlightTyped, FlightRecord
  <2> QED
    BY <1>2, <2>1 DEF RoomInv
<1>6. ASSUME NEW S,
             flight' = [flight EXCEPT ![p] =
                [@ EXCEPT !.at = IF S \ (Owned \cup Pending) = {} THEN "evict" ELSE "claim",
                          !.todo = S \ (Owned \cup Pending)]]
      PROVE  RoomInv'
  BY <1>5, <1>6
<1> QED
  BY <1>3, <1>4, <1>6 DEF Plan

LEMMA ReserveRoom == ASSUME CacheInv, RoomInv, NEW p \in Path, Reserve(p) PROVE RoomInv'
<1>1. flight[p].at = "reserve" /\ (Fly(p, "want") \/ Fly(p, "transfer") \/ Land(p))
  BY DEF Reserve
<1>2. \A q \in Path : q # p => flight[q].at # "reserve"
  BY <1>1 DEF CacheInv, GateInv, FlightHolds
<1>3. flight'[p].at # "reserve" /\ \A q \in Path : q # p => flight'[q] = flight[q]
  BY <1>1, TypeParts, Flies, Lands DEF CacheInv, FlightState
<1> QED
  BY <1>2, <1>3 DEF RoomInv

\* What a download does to the flights: it reaches its reservation by its plan alone, and
\* a lease is taken only while downloads are open.
LEMMA DownloadRoom ==
  ASSUME CacheInv, RoomInv, NEW p \in Path, DownloadStep(p)
  PROVE  RoomInv' /\ \A q \in Path : flight'[q].live => flight[q].live \/ ready
<1> USE DEF CacheInv
<1>1. CASE Download(p)
  <2>1. /\ row' = row /\ ready
        /\ flight' = [flight EXCEPT ![p] = [at |-> "want", live |-> TRUE, todo |-> {}]]
    BY <1>1 DEF Download, durable
  <2>2. NoneToReserve
    BY <2>1, TypeParts DEF NoneToReserve, FlightTyped
  <2>3. \A q \in Path : row[q] = "none" => row'[q] = "none"
    BY <2>1
  <2>4. RoomInv'
    BY <2>2, <2>3, RoomLeft
  <2> QED
    BY <2>1, <2>4
<1>2. CASE Plan(p)
  <2> DEFINE Keeps == \A q \in Path : flight'[q].live => flight[q].live
  <2>1. Keeps
    <3>1. CASE Land(p) \/ Fly(p, "reserve")
      BY <3>1, TypeParts DEF Fly, Land, NoFlight, FlightTyped, FlightRecord
    <3>2. ASSUME NEW stage, NEW batch,
                 flight' = [flight EXCEPT ![p] = [@ EXCEPT !.at = stage, !.todo = batch]]
          PROVE  Keeps
      BY <3>2, TypeParts DEF FlightTyped, FlightRecord
    <3>3. ASSUME NEW S,
                 flight' = [flight EXCEPT ![p] =
                    [@ EXCEPT !.at = IF S \ (Owned \cup Pending) = {} THEN "evict" ELSE "claim",
                              !.todo = S \ (Owned \cup Pending)]]
          PROVE  Keeps
      BY <3>2, <3>3
    <3> QED
      BY <1>2, <3>1, <3>3 DEF Plan
  <2> QED
    BY <1>2, <2>1, PlanRoom
<1>3. CASE Reserve(p)
  <2>1. Fly(p, "want") \/ Fly(p, "transfer") \/ Land(p)
    BY <1>3 DEF Reserve
  <2>2. \A q \in Path : flight'[q].live => flight[q].live
    BY <2>1, RoomMoves, TypeParts DEF FlightState
  <2> QED
    BY <1>3, <2>2, ReserveRoom
<1>4. CASE Admit(p)
  <2>1. row' = row /\ (Fly(p, "plan") \/ Land(p))
    BY <1>4 DEF Admit, durable
  <2> QED
    BY <2>1, RoomMoves, RoomLeft, TypeParts DEF FlightState
<1>5. CASE ClaimVictims(p)
  <2>1. NoneToReserve /\ \A q \in Path : flight'[q].live => flight[q].live
    BY <1>5, TypeParts DEF ClaimVictims, NoneToReserve, FlightTyped, FlightRecord
  <2>2. \A q \in Path : row[q] = "none" => row'[q] = "none"
    BY <1>5 DEF ClaimVictims, Claim, Refused, In
  <2> QED
    BY <2>1, <2>2, RoomLeft
<1>6. CASE Replan(p) \/ Transfer(p) \/ Abort(p) \/ Commit(p) \/ Finish(p)
  <2>1. row' = row
    BY <1>6 DEF Replan, Transfer, Abort, Commit, Finish, durable
  <2>2. \E at \in {"want", "landed", "failed", "commit"} : Fly(p, at) \/ Land(p)
    BY <1>6 DEF Replan, Transfer, Abort, Commit, Finish
  <2> QED
    BY <2>1, <2>2, RoomMoves, RoomLeft, TypeParts DEF FlightState
<1>7. CASE LateSettle(p)
  <2>1. row' = row /\ flight' = flight
    BY <1>7 DEF LateSettle
  <2> QED
    BY <2>1, RoomSame
<1>8. CASE Committed(p)
  <2>1. row[p] = "reserved"
    BY <1>8 DEF Committed, ReservationInv
  <2>2. \A q \in Path : row[q] = "none" => row'[q] = "none"
    BY <1>8, <2>1, TypeParts DEF Committed, RestTyped
  <2>3. Fly(p, "stored") \/ Fly(p, "failed")
    BY <1>8 DEF Committed
  <2> QED
    BY <2>2, <2>3, RoomMoves, RoomLeft, TypeParts DEF FlightState
<1> QED
  BY <1>1, <1>2, <1>3, <1>4, <1>5, <1>6, <1>7, <1>8 DEF DownloadStep

\* Cleanup inserts rows only when a recovery adopts, and then no flight has a lease.
LEMMA CleanupRoom ==
  ASSUME CacheInv, BootInv, RoomInv, NEW s \in Sweeper, Cleanup(s) PROVE RoomInv'
<1>1. flight' = flight
  BY DEF Cleanup, StartSweep, GiveUp, Scan, Adopt, Check, ListDue, DrainEntry, DrainOwn,
         RetireInactive, LetGo, Conform, ConformClaim, BatchSettled
<1>2. CASE Adopt(s)
  <2>1. \A p \in Path : ~flight[p].live
    BY <1>2 DEF BootInv, Adopt
  <2> QED
    BY <1>1, <2>1 DEF RoomInv
<1>3. CASE \/ StartSweep(s) \/ GiveUp(s) \/ Scan(s) \/ ListDue(s) \/ DrainEntry(s) \/ DrainOwn(s)
           \/ LetGo(s) \/ Conform(s) \/ BatchSettled(s)
  <2>1. row' = row
    BY <1>3 DEF StartSweep, GiveUp, Scan, ListDue, DrainEntry, DrainOwn, LetGo, Conform,
                BatchSettled, durable
  <2> QED
    BY <1>1, <2>1, RoomSame
<1>4. CASE Check(s)
  <2>1. row' = row \/ \E p : row[p] = "active" /\ row' = [row EXCEPT ![p] = "none"]
    BY <1>4 DEF Check, Repair
  <2>2. \A q \in Path : row[q] = "none" => row'[q] = "none"
    BY <2>1, TypeParts DEF CacheInv, RestTyped
  <2> QED
    BY <1>1, <2>2, RoomSame
<1>5. CASE RetireInactive(s) \/ ConformClaim(s)
  <2>1. row' = row \/ \E S \in SUBSET In("active") : Claim(s, S)
    <3>1. CASE RetireInactive(s)
      BY <3>1 DEF RetireInactive
    <3>2. CASE ConformClaim(s)
      BY <3>2 DEF ConformClaim, Refused
    <3> QED
      BY <1>5, <3>1, <3>2
  <2>2. \A q \in Path : row[q] = "none" => row'[q] = "none"
    BY <2>1 DEF Claim, In
  <2> QED
    BY <1>1, <2>2, RoomSame
<1> QED
  BY <1>2, <1>3, <1>4, <1>5 DEF Cleanup

\* Nothing else inserts a row or moves a flight towards one.
LEMMA OthersRoom ==
  ASSUME CacheInv, RoomInv,
         \/ \E p \in Path : Others(p)
         \/ \E w \in Worker, p \in Path : Unlink(w, p) \/ Record(w, p)
         \/ Pause \/ Resume \/ Crash \/ UNCHANGED vars
  PROVE  RoomInv' /\ \A q \in Path : flight'[q].live => flight[q].live
<1> USE DEF durable, memory
<1>1. ASSUME NEW p \in Path, Others(p) PROVE RoomInv' /\ flight' = flight
  <2>1. flight' = flight
    BY <1>1 DEF Others, Pin, Unpin, Reuse, QueueSend, SendDone, DeleteMessage, Lose
  <2>2. row' = row \/ (row[p] = "active" /\ row' = [row EXCEPT ![p] = "none"])
    BY <1>1 DEF Others, Pin, Unpin, Reuse, Repair, QueueSend, SendDone, DeleteMessage, Lose
  <2>3. \A q \in Path : row[q] = "none" => row'[q] = "none"
    BY <2>2, TypeParts DEF CacheInv, RestTyped
  <2> QED
    BY <2>1, <2>3, RoomSame
<1>2. ASSUME NEW w \in Worker, NEW p \in Path, Unlink(w, p) \/ Record(w, p)
      PROVE  RoomInv' /\ flight' = flight
  <2>1. flight' = flight
    BY <1>2 DEF Unlink, Record
  <2>2. \A q \in Path : row[q] = "none" => row'[q] = "none"
    BY <1>2, TypeParts DEF Unlink, Record, CacheInv, RestTyped
  <2> QED
    BY <2>1, <2>2, RoomSame
<1>3. CASE Resume \/ UNCHANGED vars
  <2>1. row' = row /\ flight' = flight
    BY <1>3 DEF Resume, vars
  <2> QED
    BY <2>1, RoomSame
<1>4. CASE Pause \/ Crash
  <2>1. row' = row /\ \A p \in Path : ~flight'[p].live
    BY <1>4, TypeParts DEF Pause, Crash, NoFlight, CacheInv, FlightTyped, FlightRecord
  <2> QED
    BY <2>1 DEF RoomInv
<1> QED
  BY <1>1, <1>2, <1>3, <1>4

-----------------------------------------------------------------------------
(* Downloads and recoveries keep out of each other's way.                    *)

\* A job that moves to another phase, or ends.
LEMMA JobBoot ==
  ASSUME SweepTyped, BootInv, NEW s \in Sweeper, NEW at \in SweepState,
         NEW todo \in SUBSET Path, Go(s, at, todo) \/ Halt(s),
         at \in {"scan", "adopt"} => sweep[s].at \in {"scan", "adopt"},
         flight' = flight, ready' = ready
  PROVE  BootInv'
<1>1. /\ \A t \in Sweeper : t # s => sweep'[t] = sweep[t]
      /\ sweep'[s].boot => sweep[s].boot
      /\ sweep'[s].at \in {"scan", "adopt"} => sweep'[s].boot
  <2>1. CASE Go(s, at, todo)
    BY <2>1, Goes DEF BootInv
  <2>2. CASE Halt(s)
    BY <2>2, Halts
  <2> QED
    BY <2>1, <2>2
<1> QED
  BY <1>1 DEF BootInv

\* A recovery starts only when downloads are closed and no other recovery runs; it opens
\* them as it ends.
LEMMA CleanupBoot ==
  ASSUME CacheInv, BootInv, NEW s \in Sweeper, Cleanup(s) PROVE BootInv'
<1> USE DEF CacheInv
<1>1. flight' = flight
  BY DEF Cleanup, StartSweep, GiveUp, Scan, Adopt, Check, ListDue, DrainEntry, DrainOwn,
         RetireInactive, LetGo, Conform, ConformClaim, BatchSettled
<1>2. CASE StartSweep(s)
  <2>1. PICK at \in {"scan", "drain", "inactive", "conform"} :
          /\ at = "scan" => ~ready /\ \A t \in Sweeper : ~sweep[t].boot
          /\ sweep' = [sweep EXCEPT ![s] = [at |-> at, live |-> TRUE, boot |-> (at = "scan"),
                                            todo |-> {}]]
    BY <1>2 DEF StartSweep
  <2> DEFINE new == [at |-> at, live |-> TRUE, boot |-> (at = "scan"), todo |-> {}]
  <2>2. new.at = at /\ new.boot = (at = "scan")
    OBVIOUS
  <2> HIDE DEF new
  <2>3. sweep' = [sweep EXCEPT ![s] = new]
    BY <2>1 DEF new
  <2>4. sweep'[s] = new /\ \A t \in Sweeper : t # s => sweep'[t] = sweep[t]
    BY <2>3, TypeParts DEF SweepTyped
  <2>5. ready' = ready
    BY <1>2 DEF StartSweep
  <2> QED
    <3>1. CASE at = "scan"
      <4>1. /\ ~ready /\ \A t \in Sweeper : ~sweep[t].boot
            /\ sweep'[s].at = "scan" /\ sweep'[s].boot
        BY <2>1, <2>2, <2>4, <3>1
      <4>2. \A t \in Sweeper : t # s => ~sweep'[t].boot /\ sweep'[t].at \notin {"scan", "adopt"}
        BY <2>4, <4>1 DEF BootInv
      <4> QED
        BY <1>1, <2>5, <4>1, <4>2 DEF BootInv
    <3>2. CASE at # "scan"
      <4>1. sweep'[s].at \notin {"scan", "adopt"} /\ ~sweep'[s].boot
        BY <2>2, <2>4, <3>2
      <4> QED
        BY <1>1, <2>4, <2>5, <4>1 DEF BootInv
    <3> QED
      BY <3>1, <3>2
<1>3. CASE Conform(s)
  <2>1. CASE Halt(s) /\ ready' = (ready \/ sweep[s].boot)
    <3>1. /\ sweep'[s].at = "idle" /\ ~sweep'[s].boot
          /\ \A t \in Sweeper : t # s => sweep'[t] = sweep[t]
      BY <2>1, TypeParts, Halts
    <3>2. ready \in BOOLEAN /\ sweep[s].boot \in BOOLEAN
      BY TypeParts DEF RestTyped, SweepTyped, SweepRecord
    <3> QED
      BY <1>1, <2>1, <3>1, <3>2 DEF BootInv
  <2>2. ASSUME NEW S \in SUBSET In("active"), Go(s, "claim", S), ready' = ready
        PROVE  BootInv'
    <3>1. S \in SUBSET Path
      BY DEF In
    <3> QED
      BY <1>1, <2>2, <3>1, JobBoot, TypeParts DEF SweepState
  <2> QED
    BY <1>3, <2>1, <2>2 DEF Conform
<1>4. CASE LetGo(s)
  <2>1. sweep' = sweep /\ ready' = ready
    BY <1>4 DEF LetGo
  <2> QED
    BY <1>1, <2>1 DEF BootInv
<1>5. CASE \/ GiveUp(s) \/ Scan(s) \/ Adopt(s) \/ Check(s) \/ ListDue(s) \/ DrainEntry(s)
           \/ DrainOwn(s) \/ RetireInactive(s) \/ ConformClaim(s) \/ BatchSettled(s)
  <2>1. ready' = ready
    BY <1>5 DEF GiveUp, Scan, Adopt, Check, ListDue, DrainEntry, DrainOwn, RetireInactive,
                ConformClaim, BatchSettled
  <2>2. \E at \in SweepState, todo \in SUBSET Path :
          /\ Go(s, at, todo) \/ Halt(s)
          /\ at \in {"scan", "adopt"} => sweep[s].at \in {"scan", "adopt"}
    <3> DEFINE Elsewhither == {"check", "drain", "entry", "recheck", "wait", "inactive",
                               "retired", "conform", "conformed"}
    <3>1. Elsewhither \subseteq SweepState /\ "adopt" \in SweepState /\ "scan" \notin Elsewhither
          /\ "adopt" \notin Elsewhither /\ Elsewhither # {}
      BY DEF SweepState
    <3>2. /\ {} \in SUBSET Path /\ disk \in SUBSET Path /\ sweep[s].todo \in SUBSET Path
          /\ \A p \in Path : {p} \in SUBSET Path
          /\ \A p : sweep[s].todo \ {p} \in SUBSET Path
          /\ In("active") \ sweep[s].todo \in SUBSET Path
      BY TypeParts DEF RestTyped, SweepTyped, SweepRecord, In
    <3>3. CASE Scan(s)
      BY <3>1, <3>2, <3>3 DEF Scan
    <3>4. CASE ~Scan(s)
      <4>1. Halt(s) \/ \E at \in Elsewhither, todo \in SUBSET Path : Go(s, at, todo)
        <5>1. CASE GiveUp(s) \/ Adopt(s)
          BY <3>2, <5>1 DEF GiveUp, Adopt
        <5>2. CASE Check(s)
          BY <3>2, <5>2 DEF Check
        <5>3. CASE ListDue(s)
          BY <3>2, <5>3 DEF ListDue, Phase, In
        <5>4. CASE DrainEntry(s) \/ DrainOwn(s)
          BY <3>2, <5>4 DEF DrainEntry, DrainOwn, Phase
        <5>5. CASE RetireInactive(s) \/ ConformClaim(s) \/ BatchSettled(s)
          BY <3>2, <5>5 DEF RetireInactive, ConformClaim, BatchSettled, Phase
        <5> QED
          BY <1>5, <3>4, <5>1, <5>2, <5>3, <5>4, <5>5
      <4> QED
        BY <3>1, <3>2, <4>1
    <3> QED
      BY <3>3, <3>4
  <2> QED
    BY <1>1, <2>1, <2>2, JobBoot, TypeParts
<1> QED
  BY <1>2, <1>3, <1>4, <1>5 DEF Cleanup

\* What leaves the jobs alone leaves the recovery to itself.
LEMMA SameBoot ==
  ASSUME BootInv, sweep' = sweep, ready' = ready,
         \A q \in Path : flight'[q].live => flight[q].live \/ ready
  PROVE  BootInv'
  BY DEF BootInv

\* No step lets a download and a recovery's adoption overlap, nor takes the room of one
\* that is about to reserve its row.
LEMMA AdmissionStep ==
  ASSUME CacheInv, BootInv, RoomInv, [Next]_vars PROVE BootInv' /\ RoomInv'
<1> USE DEF durable, memory
<1>1. ASSUME NEW p \in Path, DownloadStep(p) PROVE BootInv' /\ RoomInv'
  <2>1. sweep' = sweep /\ ready' = ready
    BY <1>1 DEF DownloadStep, Download, Admit, Plan, Reserve, ClaimVictims, Replan, Transfer,
                Abort, LateSettle, Commit, Committed, Finish
  <2> QED
    BY <1>1, <2>1, DownloadRoom, SameBoot
<1>2. ASSUME NEW s \in Sweeper, Cleanup(s) PROVE BootInv' /\ RoomInv'
  BY <1>2, CleanupRoom, CleanupBoot
<1>3. CASE Pause \/ Crash
  <2>1. ready' = FALSE
    BY <1>3 DEF Pause, Crash
  <2>2. \A p \in Path : ~flight'[p].live
    BY <1>3, TypeParts DEF Pause, Crash, NoFlight, CacheInv, FlightTyped, FlightRecord
  <2>3. \A s \in Sweeper : \/ sweep'[s].at = sweep[s].at /\ sweep'[s].boot = sweep[s].boot
                           \/ sweep'[s].at = "idle" /\ ~sweep'[s].boot
    BY <1>3, TypeParts DEF Pause, Crash, NoSweep, CacheInv, SweepTyped, SweepRecord
  <2> QED
    BY <1>3, <2>1, <2>2, <2>3, OthersRoom DEF BootInv
<1>4. CASE \/ \E p \in Path : Others(p)
           \/ \E w \in Worker, p \in Path : Unlink(w, p) \/ Record(w, p)
           \/ Resume \/ UNCHANGED vars
  <2>1. sweep' = sweep /\ ready' = ready
    BY <1>4 DEF Others, Pin, Unpin, Reuse, QueueSend, SendDone, DeleteMessage, Lose, Unlink,
                Record, Resume, vars
  <2> QED
    BY <1>4, <2>1, OthersRoom, SameBoot
<1> QED
  BY <1>1, <1>2, <1>3, <1>4 DEF Next

\* An admission always finds the room it planned for.
LEMMA AdmissionInvariant == Spec => [](BootInv /\ RoomInv)
<1>1. Init => BootInv /\ RoomInv
  BY DEF Init, BootInv, RoomInv, NoFlight, NoSweep
<1> QED
  BY <1>1, AdmissionStep, CacheInvariant, PTL DEF Spec

-----------------------------------------------------------------------------
(* What a step may never do.                                                 *)

KeepsPinned ==
    \A p \in pinned \cap pinned' : row[p] = "active" /\ p \in disk \ lost
      => p \in lost' \/ (row'[p] = "active" /\ p \in disk')

AdmitsWithin ==
    \A p \in Path : row[p] = "none" /\ row'[p] = "reserved"
      => Cardinality({q \in Path : row'[q] # "none"}) <= Cap

(* Steps that keep the files and write no row, or write rows that no pinned  *)
(* file and no admission is about.                                           *)
LEMMA HarmlessRows ==
  ASSUME CacheInv, disk' = disk,
         \A q \in Path : \/ row'[q] = row[q]
                         \/ /\ row[q] = "none" => row'[q] # "reserved"
                            /\ row[q] = "active" => q \notin pinned \cap (disk \ lost)
  PROVE  KeepsPinned /\ AdmitsWithin
  BY TypeParts DEF CacheInv, RestTyped, KeepsPinned, AdmitsWithin

(* Steps that write no row, and touch only the file of a row not active.     *)
LEMMA HarmlessFiles ==
  ASSUME CacheInv, row' = row, NEW p \in Path, row[p] # "active" \/ p \in lost',
         disk' \in {disk, disk \cup {p}, disk \ {p}}
  PROVE  KeepsPinned /\ AdmitsWithin
  BY DEF KeepsPinned, AdmitsWithin

\* A claim of paths that nobody pins breaks no pin.
LEMMA HarmlessClaim ==
  ASSUME CacheInv, NEW w, NEW S \in SUBSET In("active"), S \cap pinned = {}, Claim(w, S),
         disk' = disk
  PROVE  KeepsPinned /\ AdmitsWithin
<1>1. \A q \in Path : row'[q] = IF q \in S THEN "retiring" ELSE row[q]
  BY DEF Claim
<1>2. \A q \in S : row[q] = "active" /\ q \notin pinned
  BY DEF In
<1> QED
  BY <1>1, <1>2, HarmlessRows

\* A reservation is made only while the charged rows are below the cap.
LEMMA HarmlessReserve ==
  ASSUME CacheInv, RoomInv, NEW p \in Path, Reserve(p) PROVE KeepsPinned /\ AdmitsWithin
<1>1. CASE UNCHANGED <<row, disk>>
  BY <1>1, HarmlessRows
<1>2. CASE /\ flight[p].live /\ row[p] = "none" /\ row' = [row EXCEPT ![p] = "reserved"]
           /\ disk' = disk
  <2>1. row'[p] = "reserved" /\ \A q \in Path : q # p => row'[q] = row[q]
    BY <1>2, TypeParts DEF CacheInv, RestTyped
  <2>2. KeepsPinned
    BY <1>2, <2>1, TypeParts DEF KeepsPinned, CacheInv, RestTyped
  <2>3. p \notin Charged /\ Cardinality(Charged) + 1 <= Cap
    BY <1>2 DEF Charged, In, RoomInv, Reserve
  <2>4. {q \in Path : row'[q] # "none"} = Charged \cup {p}
    BY <2>1 DEF Charged, In
  <2>5. Cardinality(Charged \cup {p}) = Cardinality(Charged) + 1
    BY <2>3, ChargedFinite, FS_AddElement
  <2> QED
    BY <2>2, <2>3, <2>4, <2>5 DEF AdmitsWithin
<1> QED
  BY <1>1, <1>2 DEF Reserve

\* No step of a download breaks a pin or passes the cap.
LEMMA HarmlessDownload ==
  ASSUME CacheInv, RoomInv, NEW p \in Path, DownloadStep(p) PROVE KeepsPinned /\ AdmitsWithin
<1> USE DEF durable
<1>1. CASE Download(p) \/ Admit(p) \/ Plan(p) \/ Replan(p) \/ Abort(p) \/ Finish(p)
  <2>1. row' = row /\ disk' = disk
    BY <1>1 DEF Download, Admit, Plan, Replan, Abort, Finish
  <2> QED
    BY <2>1, HarmlessRows
<1>2. CASE ClaimVictims(p)
  <2> DEFINE S == flight[p].todo
  <2>1. CASE Claim(p, S) /\ Refused(S) = {} /\ disk' = disk
    <3>1. S \in SUBSET In("active") /\ S \cap pinned = {}
      BY <1>2, <2>1 DEF Refused, CacheInv, BatchInv, ClaimVictims
    <3> HIDE DEF S
    <3> QED
      BY <2>1, <3>1, HarmlessClaim
  <2>2. CASE row' = row /\ disk' = disk
    BY <2>2, HarmlessRows
  <2> QED
    BY <1>2, <2>1, <2>2 DEF ClaimVictims
<1>3. CASE Transfer(p) \/ LateSettle(p) \/ Commit(p)
  <2>1. row[p] = "reserved"
    BY <1>3 DEF Transfer, LateSettle, Commit, CacheInv, ReservationInv
  <2>2. row' = row /\ disk' \in {disk, disk \cup {p}, disk \ {p}}
    BY <1>3 DEF Transfer, LateSettle, Commit
  <2> QED
    BY <2>1, <2>2, HarmlessFiles
<1>4. CASE Committed(p)
  <2>1. row[p] = "reserved"
    BY <1>4 DEF Committed, CacheInv, ReservationInv
  <2>2. CASE row' = row /\ disk' \in {disk, disk \ {p}}
    BY <2>1, <2>2, HarmlessFiles
  <2>3. CASE row' = [row EXCEPT ![p] = "active"] /\ disk' = disk
    <3>1. \A q \in Path : q # p => row'[q] = row[q]
      BY <2>3, TypeParts DEF CacheInv, RestTyped
    <3> QED
      BY <2>1, <2>3, <3>1, HarmlessRows
  <2> QED
    BY <1>4, <2>2, <2>3 DEF Committed
<1> QED
  BY <1>1, <1>2, <1>3, <1>4, HarmlessReserve DEF DownloadStep

\* A repair breaks no pin: the file it forgets is not there.
LEMMA HarmlessRepair ==
  ASSUME CacheInv, NEW p \in Path, Repair(p), disk' = disk PROVE KeepsPinned /\ AdmitsWithin
<1>1. \A q \in Path : row'[q] = row[q] \/ (row[q] = "active" /\ q \notin disk)
  <2>1. CASE row' = row
    BY <2>1
  <2>2. CASE p \notin disk /\ row[p] = "active" /\ row' = [row EXCEPT ![p] = "none"]
    BY <2>2, TypeParts DEF CacheInv, RestTyped
  <2> QED
    BY <2>1, <2>2 DEF Repair
<1> QED
  BY <1>1, HarmlessRows

\* No step of a cleanup job does.
LEMMA HarmlessCleanup ==
  ASSUME CacheInv, NEW s \in Sweeper, Cleanup(s) PROVE KeepsPinned /\ AdmitsWithin
<1> USE DEF durable
<1>1. CASE \/ StartSweep(s) \/ GiveUp(s) \/ Scan(s) \/ ListDue(s) \/ DrainEntry(s) \/ DrainOwn(s)
           \/ LetGo(s) \/ Conform(s) \/ BatchSettled(s)
  <2>1. row' = row /\ disk' = disk
    BY <1>1 DEF StartSweep, GiveUp, Scan, ListDue, DrainEntry, DrainOwn, LetGo, Conform,
                BatchSettled
  <2> QED
    BY <2>1, HarmlessRows
<1>2. CASE Adopt(s)
  <2>1. PICK empty \in SUBSET (sweep[s].todo \cap lost) :
          row' = [p \in Path |->
             IF p \in empty /\ row[p] \in {"none", "active"} THEN "retiring"
             ELSE IF p \in sweep[s].todo /\ row[p] = "none" THEN "active"
             ELSE row[p]]
    BY <1>2 DEF Adopt
  <2>2. disk' = disk
    BY <1>2 DEF Adopt
  <2> QED
    BY <2>1, <2>2, HarmlessRows
<1>3. CASE Check(s)
  <2>1. disk' = disk /\ (row' = row \/ \E p \in sweep[s].todo : Repair(p))
    BY <1>3 DEF Check
  <2>2. sweep[s].todo \subseteq Path
    BY TypeParts DEF CacheInv, SweepTyped, SweepRecord
  <2> QED
    BY <2>1, <2>2, HarmlessRepair, HarmlessRows
<1>4. CASE RetireInactive(s)
  <2>1. PICK chat :
          Claim(s, (In("active") \cap ((Path \ ref) \cup chat)) \ (Blocked \cup out))
    BY <1>4 DEF RetireInactive
  <2> DEFINE S == (In("active") \cap ((Path \ ref) \cup chat)) \ (Blocked \cup out)
  <2>2. S \in SUBSET In("active") /\ S \cap pinned = {} /\ Claim(s, S) /\ disk' = disk
    BY <1>4, <2>1 DEF Blocked, RetireInactive
  <2> HIDE DEF S
  <2> QED
    BY <2>2, HarmlessClaim
<1>5. CASE ConformClaim(s)
  <2> DEFINE S == sweep[s].todo
  <2>1. CASE Claim(s, S) /\ Refused(S) = {} /\ disk' = disk
    <3>1. S \in SUBSET In("active") /\ S \cap pinned = {}
      BY <1>5, <2>1 DEF Refused, CacheInv, BatchInv, ConformClaim
    <3> HIDE DEF S
    <3> QED
      BY <2>1, <3>1, HarmlessClaim
  <2>2. CASE row' = row /\ disk' = disk
    BY <2>2, HarmlessRows
  <2> QED
    BY <1>5, <2>1, <2>2 DEF ConformClaim
<1> QED
  BY <1>1, <1>2, <1>3, <1>4, <1>5 DEF Cleanup

\* Nor does what viewers, sends, the native layer and the process do.
LEMMA HarmlessOthers ==
  ASSUME CacheInv,
         \/ \E p \in Path : Others(p)
         \/ \E w \in Worker, p \in Path : Unlink(w, p) \/ Record(w, p)
         \/ Pause \/ Resume \/ Crash \/ UNCHANGED vars
  PROVE  KeepsPinned /\ AdmitsWithin
<1> USE DEF durable
<1>1. ASSUME NEW p \in Path, Others(p) PROVE KeepsPinned /\ AdmitsWithin
  <2>1. CASE Pin(p) \/ Unpin(p) \/ QueueSend(p) \/ SendDone(p) \/ DeleteMessage(p)
    <3>1. row' = row /\ disk' = disk
      BY <2>1 DEF Pin, Unpin, QueueSend, SendDone, DeleteMessage
    <3> QED
      BY <3>1, HarmlessRows
  <2>2. CASE Reuse(p)
    BY <2>2, HarmlessRepair DEF Reuse
  <2>3. CASE Lose(p)
    <3>1. row' = row /\ p \in lost' /\ disk' \in {disk, disk \ {p}}
      BY <2>3 DEF Lose
    <3> QED
      BY <3>1, HarmlessFiles
  <2> QED
    BY <1>1, <2>1, <2>2, <2>3 DEF Others
<1>2. ASSUME NEW w \in Worker, NEW p \in Path, Unlink(w, p) PROVE KeepsPinned /\ AdmitsWithin
  <2>1. row' = row /\ disk' \in {disk, disk \ {p}} /\ settle[p].at # "none"
    BY <1>2 DEF Unlink, Batch
  <2>2. row[p] # "active"
    BY <2>1 DEF CacheInv, OwnerInv
  <2> QED
    BY <2>1, <2>2, HarmlessFiles
<1>3. ASSUME NEW w \in Worker, NEW p \in Path, Record(w, p) PROVE KeepsPinned /\ AdmitsWithin
  <2>1. /\ disk' = disk /\ settle[p].at # "none"
        /\ \A q \in Path : q # p => row'[q] = row[q]
    BY <1>3, TypeParts DEF Record, CacheInv, RestTyped
  <2>2. row[p] \in {"reserved", "retiring"}
    BY <2>1 DEF CacheInv, OwnerInv
  <2> QED
    BY <2>1, <2>2, HarmlessRows
<1>4. CASE Pause \/ Resume \/ Crash \/ UNCHANGED vars
  <2>1. row' = row /\ disk' = disk
    BY <1>4 DEF Pause, Resume, Crash, vars
  <2> QED
    BY <2>1, HarmlessRows
<1> QED
  BY <1>1, <1>2, <1>3, <1>4

\* No step at all does.
LEMMA HarmlessSteps == ASSUME CacheInv, RoomInv, [Next]_vars PROVE KeepsPinned /\ AdmitsWithin
  BY HarmlessDownload, HarmlessCleanup, HarmlessOthers DEF Next

(* While a viewer, a share or a send has a stored file pinned, no cleanup and *)
(* no download claims it or unlinks it.                                       *)
THEOREM PinsAreHonoured == Spec => PinnedFileStays
<1>1. CacheInv /\ RoomInv /\ [Next]_vars =>
        [\A p \in pinned \cap pinned' : row[p] = "active" /\ p \in disk \ lost
           => p \in lost' \/ (row'[p] = "active" /\ p \in disk')]_vars
  BY HarmlessSteps DEF KeepsPinned
<1> QED
  BY <1>1, CacheInvariant, AdmissionInvariant, PTL DEF Spec, PinnedFileStays

(* The row of a download is inserted by a transaction that does not count    *)
(* again; whatever ran since the count was taken, it leaves the ledger       *)
(* within the cap.                                                           *)
THEOREM CapIsKept == Spec => AdmissionsKeepTheCap
<1>1. CacheInv /\ RoomInv /\ [Next]_vars =>
        [\A p \in Path : row[p] = "none" /\ row'[p] = "reserved"
           => Cardinality({q \in Path : row'[q] # "none"}) <= Cap]_vars
  BY HarmlessSteps DEF AdmitsWithin
<1> QED
  BY <1>1, CacheInvariant, AdmissionInvariant, PTL DEF Spec, AdmissionsKeepTheCap
=============================================================================
