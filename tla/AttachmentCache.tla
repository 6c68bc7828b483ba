--------------------------- MODULE AttachmentCache ---------------------------
(***************************************************************************)
(* The cache of downloaded attachments: a directory of files, the ledger   *)
(* of rows that charges them (attachment_cache_entries), and the           *)
(* coordinator that lets downloads, evictions, crash recovery, viewers and *)
(* outgoing sends share them (attachmentCacheCoordinator.ts,               *)
(* attachmentCacheRecovery.ts, downloadService.ts, attachmentCache.ts).    *)
(*                                                                         *)
(* A file and its row cannot change together: the row is written by a      *)
(* transaction, the file by a native call outside it.  The order is        *)
(* reserve the row, write the file, promote the row; and claim the row,    *)
(* unlink the file, forget the row.  Planning runs inside a gate that one  *)
(* operation holds at a time; transfers and unlinks run outside it, kept   *)
(* apart per path by the reservations, the retirement owners and the pins, *)
(* which live in memory and end with the process.                          *)
(*                                                                         *)
(* A file is one unit of quota.  Which files are old enough to evict, how  *)
(* much free space the phone reports, which retries are due and how often  *)
(* an admission plans again are the environment's choice.  A transaction   *)
(* is one step; what the write queue does with it is in WriteQueue.  Work  *)
(* carries whether the account lease it began under is still current.      *)
(***************************************************************************)
EXTENDS Naturals, FiniteSets

CONSTANTS
    Path,     \* canonical final paths; one attachment owns each
    Sweeper,  \* concurrent cleanup jobs
    Cap,      \* ATTACHMENT_CACHE_MAX_FILES
    None      \* nobody

ASSUME CacheAssumption ==
    /\ Cap \in Nat /\ IsFiniteSet(Path)
    /\ Path \cap Sweeper = {} /\ None \notin Path \cup Sweeper

VARIABLES
    disk,         \* paths whose file is on the phone
    lost,         \* stored paths whose file something outside the app removed or emptied
    row,          \* the ledger: [Path -> RowState]
    ref,          \* paths the local_path of a visible attachment names
    out,          \* paths a queued outgoing send reads
    gone,         \* paths whose attachment row was deleted
    adopted,      \* history: the first recovery has accounted for every file
    reservation,  \* this.reservations, and whether each accepts protections
    settle,       \* this.retirementOwners: whose batch, and where its settlement stands
    pinned,       \* this.protections: a viewer, a share, a send or a reuse check
    flight,       \* the download of each path
    late,         \* paths whose aborted native transfer has not settled yet
    sweep,        \* the cleanup jobs
    open, ready   \* an account lease is current; recovery has opened downloads for it

durable == <<disk, lost, row, ref, out, gone, adopted>>
memory  == <<reservation, settle, pinned, flight, late, sweep, open, ready>>
vars    == <<durable, memory>>

RowState    == {"none", "reserved", "active", "retiring"}
FlightState == {"idle", "want", "plan", "reserve", "claim", "evict", "transfer", "landed",
                "commit", "stored", "failed"}
SweepState  == {"idle", "scan", "adopt", "check", "drain", "entry", "recheck", "wait",
                "inactive", "retired", "conform", "claim", "conformed"}
Worker      == Path \cup Sweeper

NoFlight == [at |-> "idle", live |-> FALSE, todo |-> {}]
NoSweep  == [at |-> "idle", live |-> FALSE, boot |-> FALSE, todo |-> {}]
NoOwner  == [at |-> "none", by |-> None]

TypeOK ==
    /\ disk \subseteq Path /\ lost \subseteq Path /\ ref \subseteq Path /\ out \subseteq Path
    /\ gone \subseteq Path /\ pinned \subseteq Path /\ late \subseteq Path
    /\ row \in [Path -> RowState]
    /\ reservation \in [Path -> {"none", "held", "handoff"}]
    /\ settle \in [Path -> [at : {"none", "own", "absent", "kept"}, by : Worker \cup {None}]]
    /\ flight \in [Path -> [at : FlightState, live : BOOLEAN, todo : SUBSET Path]]
    /\ sweep \in [Sweeper -> [at : SweepState, live : BOOLEAN, boot : BOOLEAN,
                              todo : SUBSET Path]]
    /\ open \in BOOLEAN /\ ready \in BOOLEAN /\ adopted \in BOOLEAN

(***************************************************************************)
(* An upgraded phone: files from before the ledger, some of them empty and *)
(* some named by attachments, and no rows.                                 *)
(***************************************************************************)
Init ==
    /\ disk \in SUBSET Path /\ ref \in SUBSET disk /\ lost \in SUBSET disk
    /\ out = {} /\ gone = {} /\ adopted = FALSE
    /\ row = [p \in Path |-> "none"]
    /\ reservation = [p \in Path |-> "none"]
    /\ settle = [p \in Path |-> NoOwner]
    /\ pinned = {} /\ late = {}
    /\ flight = [p \in Path |-> NoFlight]
    /\ sweep = [s \in Sweeper |-> NoSweep]
    /\ open = TRUE /\ ready = FALSE

-----------------------------------------------------------------------------
In(state) == {p \in Path : row[p] = state}
\* AttachmentCacheUsage counts every row, whatever its state.
Charged == Path \ In("none")

Reserved == {p \in Path : reservation[p] # "none"}
Owned    == {p \in Path : settle[p].at # "none"}
Batch(w) == {p \in Path : settle[p].by = w}
Live(w)  == IF w \in Path THEN flight[w].live ELSE sweep[w].live

\* this.pendingRetirements: the claim of whoever holds the gate.
Pending ==
    {p \in Path :
        \/ \E q \in Path : (flight[q].at = "claim" /\ p \in flight[q].todo)
        \/ \E s \in Sweeper : (sweep[s].at = "claim" /\ p \in sweep[s].todo)}

\* Mutant: a plan lets the gate go before the transaction that reserves what it admitted.
GateFreeOncePlanned ==
    /\ \A p \in Path : flight[p].at \notin {"plan", "claim"}
    /\ \A s \in Sweeper : sweep[s].at \notin {"recheck", "claim"}

\* runExclusive: nobody is between two awaits inside the gate.
GateFree ==
    /\ \A p \in Path : flight[p].at \notin {"plan", "reserve", "claim"}
    /\ \A s \in Sweeper : sweep[s].at \notin {"recheck", "claim"}

\* What a cleanup leaves alone, whichever list it read the path from.
Blocked == Reserved \cup Owned \cup Pending \cup pinned

\* Mutant: a claim that is still in its transaction does not refuse the pin.
ProtectableUntilOwned(p) == reservation[p] # "held" /\ p \notin Owned

\* protect: a retirement, or a transfer that still writes, refuses the pin.
Protectable(p) == reservation[p] # "held" /\ p \notin Pending \cup Owned

\* Mutant: the claim does not look at the outgoing queue.
RefusedUnlessActive(S) == S \ In("active")

\* claimAttachmentCachePathsForRetirement: the paths of a batch it refuses, and what it
\* writes when it refuses none.
Refused(S) == IF S \subseteq In("active") THEN S \cap out ELSE S \ In("active")

Claim(w, S) ==
    /\ row' = [p \in Path |-> IF p \in S THEN "retiring" ELSE row[p]]
    /\ ref' = ref \ S /\ lost' = lost \ S
    /\ settle' = [p \in Path |-> IF p \in S THEN [at |-> "own", by |-> w] ELSE settle[p]]

Fly(p, at)      == flight' = [flight EXCEPT ![p].at = at]
Land(p)         == flight' = [flight EXCEPT ![p] = NoFlight]
Go(s, at, todo) == sweep' = [sweep EXCEPT ![s].at = at, ![s].todo = todo]
Halt(s)         == sweep' = [sweep EXCEPT ![s] = NoSweep]

-----------------------------------------------------------------------------
(* A download, from the admission to the release of its reservation. *)

\* ensureDownloadedOutcome: one flight per path, opened only after recovery.  The
\* caller's copy of the attachment may be stale, so the path may be stored already.
Download(p) ==
    /\ open /\ ready /\ flight[p].at = "idle"
    /\ flight' = [flight EXCEPT ![p] = [at |-> "want", live |-> TRUE, todo |-> {}]]
    /\ UNCHANGED <<durable, reservation, settle, pinned, late, sweep, open, ready>>

\* planAdmissionStep up to its first await.
Admit(p) ==
    /\ flight[p].at = "want" /\ GateFree
    /\ IF flight[p].live /\ p \notin Reserved \cup Owned \cup Pending THEN Fly(p, "plan")
                                                                      ELSE Land(p)
    /\ UNCHANGED <<durable, reservation, settle, pinned, late, sweep, open, ready>>

\* The snapshot transaction of planAdmissionStep and the plan made from it: refused, busy
\* or stale; room for the file as it is; or a batch to evict first.  Low free space may
\* refuse the download or ask for more evictions than the file cap does, and so do paths
\* refused before.
Plan(p) ==
    LET fits(S) == Cardinality(Charged \ S) + 1 <= Cap IN
    /\ flight[p].at = "plan"
    /\ \/ Land(p)
       \/ flight[p].live /\ row[p] = "none" /\ fits({}) /\ Fly(p, "reserve")
       \/ /\ flight[p].live /\ row[p] = "none"
          /\ \E S \in SUBSET (In("active") \ (Reserved \cup pinned)) \ {{}} :
               /\ fits(S)
               /\ LET claim == S \ (Owned \cup Pending) IN
                  flight' = [flight EXCEPT ![p] =
                    [@ EXCEPT !.at = IF claim = {} THEN "evict" ELSE "claim", !.todo = claim]]
    /\ UNCHANGED <<durable, reservation, settle, pinned, late, sweep, open, ready>>

\* Its other transaction, createAttachmentCacheReservation: the row is inserted on the
\* strength of the snapshot, which is not looked at again.  A stale lease, a row that has
\* appeared or a failed transaction inserts nothing; the loop turns or the flight ends.
Reserve(p) ==
    /\ flight[p].at = "reserve"
    /\ \/ /\ flight[p].live /\ row[p] = "none"
          /\ row' = [row EXCEPT ![p] = "reserved"]
          /\ reservation' = [reservation EXCEPT ![p] = "held"]
          /\ Fly(p, "transfer")
       \/ (Fly(p, "want") \/ Land(p)) /\ UNCHANGED <<row, reservation>>
    /\ UNCHANGED <<disk, lost, ref, out, gone, adopted, settle, pinned, late, sweep, open, ready>>

\* The claim transaction of planAdmissionStep, which a refusal or a stale lease undoes.
ClaimVictims(p) ==
    LET S == flight[p].todo IN
    /\ flight[p].at = "claim"
    /\ flight' = [flight EXCEPT ![p] = [@ EXCEPT !.at = "evict", !.todo = {}]]
    /\ IF flight[p].live /\ Refused(S) = {} THEN Claim(p, S)
                                            ELSE UNCHANGED <<row, ref, lost, settle>>
    /\ UNCHANGED <<disk, out, gone, adopted, reservation, pinned, late, sweep, open, ready>>

\* reserve: the batch is settled and its loop turns, or has turned often enough.
Replan(p) ==
    /\ flight[p].at = "evict" /\ Batch(p) = {}
    /\ Fly(p, "want") \/ Land(p)
    /\ UNCHANGED <<durable, reservation, settle, pinned, late, sweep, open, ready>>

\* The native transfer promotes its temporary file onto the final path; or it fails, or
\* is never started because the flight was cancelled or its lease is gone.
Transfer(p) ==
    /\ flight[p].at = "transfer"
    /\ \/ disk' = disk \cup {p} /\ Fly(p, "landed")
       \/ disk' = disk /\ Fly(p, "failed")
    /\ UNCHANGED <<lost, row, ref, out, gone, adopted, reservation, settle, pinned, late, sweep,
                   open, ready>>

Release(p) == reservation' = [reservation EXCEPT ![p] = "none"]

\* Mutant: the reservation ends with the flight, not with the native call.
AbortAndRelease(p) ==
    /\ flight[p].at \in {"transfer", "landed"}
    /\ late' = late \cup {p} /\ Land(p) /\ Release(p)
    /\ UNCHANGED <<durable, settle, pinned, sweep, open, ready>>

\* A deadline, a cancellation or a lost lease ends the flight at once.  The reservation
\* stays with the native call until that settles.
Abort(p) ==
    /\ flight[p].at \in {"transfer", "landed"}
    /\ late' = late \cup {p} /\ Land(p)
    /\ UNCHANGED <<durable, reservation, settle, pinned, sweep, open, ready>>

\* The abandoned transfer settles: it wrote nothing, or it wrote the file and the
\* discard, best effort, removed it or not.  Then it releases the reservation.
LateSettle(p) ==
    /\ p \in late /\ GateFree
    /\ disk' \in {disk, disk \cup {p}, disk \ {p}}
    /\ late' = late \ {p} /\ Release(p)
    /\ UNCHANGED <<lost, row, ref, out, gone, adopted, settle, pinned, flight, sweep, open, ready>>

\* persistPathAndLedger begins: the consumer handoff opens before local_path is
\* written, so a viewer may pin the path while the transaction is still open.
Commit(p) ==
    /\ flight[p].at = "landed"
    /\ IF p \in gone \/ ~flight[p].live
       THEN /\ disk' \in {disk, disk \ {p}} /\ Fly(p, "failed") /\ UNCHANGED reservation
       ELSE /\ reservation' = [reservation EXCEPT ![p] = "handoff"]
            /\ Fly(p, "commit") /\ UNCHANGED disk
    /\ UNCHANGED <<lost, row, ref, out, gone, adopted, settle, pinned, late, sweep, open, ready>>

\* The transaction commits the row and the reference together, or neither; then the
\* handoff is withdrawn and the file discarded, best effort.
Committed(p) ==
    /\ flight[p].at = "commit"
    /\ IF flight[p].live /\ p \notin gone /\ row[p] = "reserved"
       THEN /\ row' = [row EXCEPT ![p] = "active"] /\ ref' = ref \cup {p}
            /\ Fly(p, "stored") /\ UNCHANGED <<disk, reservation>>
       ELSE /\ reservation' = [reservation EXCEPT ![p] = "held"]
            /\ disk' \in {disk, disk \ {p}}
            /\ Fly(p, "failed") /\ UNCHANGED <<row, ref>>
    /\ UNCHANGED <<lost, out, gone, adopted, settle, pinned, late, sweep, open, ready>>

\* The flight releases its reservation.  The cleanup it runs next is a drain job.
Finish(p) ==
    /\ flight[p].at \in {"stored", "failed"} /\ GateFree
    /\ Release(p) /\ Land(p)
    /\ UNCHANGED <<durable, settle, pinned, late, sweep, open, ready>>

-----------------------------------------------------------------------------
(* settleRetirement: unlink, record what the unlink showed, let go of the path. *)

\* One file of a batch at a time.  A batch of retireCandidates unlinks nothing more once
\* the account is gone.
Unlink(w, p) ==
    /\ p \in Batch(w) /\ \A q \in Batch(w) : settle[q].at = "own"
    /\ (w \in Sweeper /\ sweep[w].at = "retired") => Live(w)
    /\ \/ disk' = disk \ {p} /\ settle' = [settle EXCEPT ![p].at = "absent"]
       \/ p \in disk /\ disk' = disk /\ settle' = [settle EXCEPT ![p].at = "kept"]
    /\ UNCHANGED <<lost, row, ref, out, gone, adopted, reservation, pinned, flight, late, sweep,
                   open, ready>>

\* confirmAttachmentCacheEntryDeleted or scheduleAttachmentCacheRetirementRetry, and the
\* record is let go.  A stale lease, or a transaction that fails, leaves the row to a
\* later recovery.  A stale batch of conformCurrentQuota returns with the rest of its
\* records still owned, by nobody; a batch of reserve goes on.
Record(w, p) ==
    /\ p \in Batch(w) /\ settle[p].at \in {"absent", "kept"} /\ GateFree
    /\ \/ row' = row
       \/ /\ Live(w) /\ row[p] \in {"reserved", "retiring"}
          /\ row' = [row EXCEPT ![p] = IF settle[p].at = "absent" THEN "none" ELSE "retiring"]
    /\ LET leak == w \in Sweeper /\ sweep[w].at = "conformed" /\ ~Live(w) IN
       settle' = [q \in Path |-> IF q = p THEN NoOwner
                                 ELSE IF leak /\ q \in Batch(w) THEN [settle[q] EXCEPT !.by = None]
                                 ELSE settle[q]]
    /\ UNCHANGED <<disk, lost, ref, out, gone, adopted, reservation, pinned, flight, late, sweep,
                   open, ready>>

\* The finally block of retireCandidates lets go of the records an early exit never reached.
LetGo(s) ==
    /\ sweep[s].at = "retired" /\ ~sweep[s].live /\ GateFree
    /\ Batch(s) # {} /\ \A p \in Batch(s) : settle[p].at = "own"
    /\ settle' = [p \in Path |-> IF p \in Batch(s) THEN NoOwner ELSE settle[p]]
    /\ UNCHANGED <<durable, reservation, pinned, flight, late, sweep, open, ready>>

-----------------------------------------------------------------------------
(* Cleanup jobs: drainDueRetirements, retireInactiveEntries, retireChatEntries, *)
(* conformCurrentQuota, and the startup recovery that runs them in turn.        *)

StartSweep(s) ==
    /\ open /\ sweep[s].at = "idle"
    /\ \E at \in {"scan", "drain", "inactive", "conform"} :
         /\ at = "scan" => ~ready /\ \A t \in Sweeper : ~sweep[t].boot
         /\ sweep' = [sweep EXCEPT ![s] = [at |-> at, live |-> TRUE, boot |-> (at = "scan"),
                                           todo |-> {}]]
    /\ UNCHANGED <<durable, reservation, settle, pinned, flight, late, open, ready>>

\* A job of one phase is done with it; startup recovery goes on to the next.
Phase(s, at) == IF sweep[s].boot THEN Go(s, at, {}) ELSE Halt(s)

\* A stale lease ends a job wherever it next asks.
GiveUp(s) ==
    /\ sweep[s].at \in {"scan", "adopt", "check", "drain", "recheck", "inactive", "conform",
                        "claim"}
    /\ ~sweep[s].live /\ Halt(s)
    /\ UNCHANGED <<durable, reservation, settle, pinned, flight, late, open, ready>>

\* performAttachmentCacheRecovery: the manifest, then one guarded transaction that
\* accounts for it.  Reserved and retiring rows stay as they are.  A file the manifest
\* showed empty is to be retired, pinned or not, and no message keeps its path.
Scan(s) ==
    /\ sweep[s].at = "scan" /\ sweep[s].live
    /\ Go(s, "adopt", disk)
    /\ UNCHANGED <<durable, reservation, settle, pinned, flight, late, open, ready>>

Adopt(s) ==
    LET manifest == sweep[s].todo IN
    /\ sweep[s].at = "adopt" /\ sweep[s].live
    /\ \E empty \in SUBSET (manifest \cap lost) :
         /\ row' = [p \in Path |->
              IF p \in empty /\ row[p] \in {"none", "active"} THEN "retiring"
              ELSE IF p \in manifest /\ row[p] = "none" THEN "active"
              ELSE row[p]]
         /\ ref' = ref \ empty /\ lost' = lost \ empty
    /\ adopted' = TRUE
    /\ Go(s, "check", In("active") \ manifest)
    /\ UNCHANGED <<disk, out, gone, reservation, settle, pinned, flight, late, open, ready>>

\* repairMissingActiveAttachmentCacheEntry through reuseExisting.
Repair(p) ==
    IF p \notin disk /\ row[p] = "active"
    THEN row' = [row EXCEPT ![p] = "none"] /\ ref' = ref \ {p} /\ lost' = lost \ {p}
    ELSE UNCHANGED <<row, ref, lost>>

\* An active row the manifest did not show is revalidated; a refused pin or a row that
\* changed state fails the recovery.
Check(s) ==
    /\ sweep[s].at = "check" /\ sweep[s].live
    /\ IF sweep[s].todo = {} THEN Go(s, "drain", {}) /\ UNCHANGED <<row, ref, lost>>
       ELSE \E p \in sweep[s].todo :
              /\ Repair(p)
              /\ IF Protectable(p) /\ row[p] \in {"none", "active"}
                 THEN Go(s, "check", sweep[s].todo \ {p})
                 ELSE Halt(s)
    /\ UNCHANGED <<disk, out, gone, adopted, reservation, settle, pinned, flight, late, open,
                   ready>>

\* drainDueRetirements takes the entries of its due list one by one, a list that is older
\* than the gate; here each entry is listed for itself.
ListDue(s) ==
    /\ sweep[s].at = "drain" /\ sweep[s].live
    /\ \/ Phase(s, "inactive")
       \/ \E p \in In("reserved") \cup In("retiring") : Go(s, "entry", {p})
    /\ UNCHANGED <<durable, reservation, settle, pinned, flight, late, open, ready>>

\* Into the gate, unless something else holds the path.
DrainEntry(s) ==
    /\ sweep[s].at = "entry" /\ GateFree
    /\ IF sweep[s].todo \subseteq Blocked THEN Phase(s, "drain")
                                        ELSE Go(s, "recheck", sweep[s].todo)
    /\ UNCHANGED <<durable, reservation, settle, pinned, flight, late, open, ready>>

\* The row is read again before it is owned.
DrainOwn(s) ==
    /\ sweep[s].at = "recheck" /\ sweep[s].live
    /\ IF sweep[s].todo \subseteq In("reserved") \cup In("retiring")
       THEN /\ settle' = [p \in Path |-> IF p \in sweep[s].todo
                                         THEN [at |-> "own", by |-> s] ELSE settle[p]]
            /\ Go(s, "wait", {})
       ELSE Phase(s, "drain") /\ UNCHANGED settle
    /\ UNCHANGED <<durable, reservation, pinned, flight, late, open, ready>>

\* retireCandidates: candidates and claim in one transaction inside the gate.  A file is
\* a candidate when no visible message needs it, or when its whole chat is cleared.
RetireInactive(s) ==
    /\ sweep[s].at = "inactive" /\ sweep[s].live /\ GateFree
    /\ \E chat \in IF sweep[s].boot THEN {{}} ELSE SUBSET ref :
         Claim(s, (In("active") \cap ((Path \ ref) \cup chat)) \ (Blocked \cup out))
    /\ Go(s, "retired", {})
    /\ UNCHANGED <<disk, out, gone, adopted, reservation, pinned, flight, late, open, ready>>

\* planConformanceStep: within the limits or blocked, either of which ends startup
\* recovery and opens downloads; or a batch to claim.  It may be blocked whatever the
\* ledger shows: files are too recent, were refused before, wait for a copy to Photos, or
\* the phone does not say how much space it has.
Conform(s) ==
    /\ sweep[s].at = "conform" /\ sweep[s].live /\ GateFree
    /\ \/ Halt(s) /\ ready' = (ready \/ sweep[s].boot)
       \/ /\ \E S \in SUBSET (In("active") \ Blocked) \ {{}} : Go(s, "claim", S)
          /\ UNCHANGED ready
    /\ UNCHANGED <<durable, reservation, settle, pinned, flight, late, open>>

ConformClaim(s) ==
    LET S == sweep[s].todo IN
    /\ sweep[s].at = "claim" /\ sweep[s].live
    /\ IF Refused(S) # {} THEN Go(s, "conform", {}) /\ UNCHANGED <<row, ref, lost, settle>>
                          ELSE Go(s, "conformed", {}) /\ Claim(s, S)
    /\ UNCHANGED <<disk, out, gone, adopted, reservation, pinned, flight, late, open, ready>>

\* The batch of a job is settled.
BatchSettled(s) ==
    /\ Batch(s) = {}
    /\ \/ sweep[s].at = "wait" /\ Phase(s, "drain")
       \/ sweep[s].at = "retired" /\ Phase(s, "conform")
       \/ sweep[s].at = "conformed" /\ Go(s, "conform", {})
    /\ UNCHANGED <<durable, reservation, settle, pinned, flight, late, open, ready>>

-----------------------------------------------------------------------------
(* Viewers, sends, other writers, and the process itself. *)

\* protect and its release: a mounted viewer, a share sheet, a send in its hand-off, or
\* reuseExisting while it looks at the file.
Pin(p) ==
    /\ p \notin pinned /\ Protectable(p)
    /\ pinned' = pinned \cup {p}
    /\ UNCHANGED <<durable, reservation, settle, flight, late, sweep, open, ready>>

Unpin(p) ==
    /\ p \in pinned /\ pinned' = pinned \ {p}
    /\ UNCHANGED <<durable, reservation, settle, flight, late, sweep, open, ready>>

\* reuseExisting settles the row of a file it found missing, under its pin.
Reuse(p) ==
    /\ open /\ ready /\ p \in pinned /\ pinned' = pinned \ {p}
    /\ Repair(p)
    /\ UNCHANGED <<disk, out, gone, adopted, reservation, settle, flight, late, sweep, open, ready>>

\* A forward pins the stored file, looks at its size, then inserts its attachment and
\* queue rows in one transaction, which the path guard trigger refuses on a row that is
\* being retired.
QueueSend(p) ==
    /\ p \in pinned \ out /\ p \in disk \ lost /\ row[p] \notin {"reserved", "retiring"}
    /\ out' = out \cup {p} /\ ref' = ref \cup {p}
    /\ UNCHANGED <<disk, lost, row, gone, adopted, memory>>

SendDone(p) ==
    /\ p \in out /\ out' = out \ {p}
    /\ UNCHANGED <<disk, lost, row, ref, gone, adopted, memory>>

\* The message is deleted: its transfer is cancelled, its file stays to be retired.
DeleteMessage(p) ==
    /\ p \notin gone /\ gone' = gone \cup {p} /\ ref' = ref \ {p}
    /\ UNCHANGED <<disk, lost, row, out, adopted, memory>>

\* Something outside the app removes a stored file, or empties it.
Lose(p) ==
    /\ row[p] = "active" /\ p \in disk \ out
    /\ disk' \in {disk, disk \ {p}} /\ lost' = lost \cup {p}
    /\ UNCHANGED <<row, ref, out, gone, adopted, memory>>

\* pauseRealtimeDeliveries: what runs goes on under a lease that is stale.
Pause ==
    /\ open /\ open' = FALSE /\ ready' = FALSE
    /\ flight' = [p \in Path |-> [flight[p] EXCEPT !.live = FALSE]]
    /\ sweep' = [s \in Sweeper |-> [sweep[s] EXCEPT !.live = FALSE]]
    /\ UNCHANGED <<durable, reservation, settle, pinned, late>>

Resume ==
    /\ ~open /\ open' = TRUE
    /\ UNCHANGED <<durable, reservation, settle, pinned, flight, late, sweep, ready>>

\* The process dies; the rows and the promoted files stay.
Crash ==
    /\ open' = FALSE /\ ready' = FALSE /\ pinned' = {} /\ late' = {}
    /\ reservation' = [p \in Path |-> "none"] /\ settle' = [p \in Path |-> NoOwner]
    /\ flight' = [p \in Path |-> NoFlight] /\ sweep' = [s \in Sweeper |-> NoSweep]
    /\ UNCHANGED durable

-----------------------------------------------------------------------------
DownloadStep(p) ==
    \/ Download(p) \/ Admit(p) \/ Plan(p) \/ Reserve(p) \/ ClaimVictims(p) \/ Replan(p)
    \/ Transfer(p) \/ Abort(p) \/ LateSettle(p) \/ Commit(p) \/ Committed(p) \/ Finish(p)

Cleanup(s) ==
    \/ StartSweep(s) \/ GiveUp(s) \/ Scan(s) \/ Adopt(s) \/ Check(s) \/ ListDue(s)
    \/ DrainEntry(s) \/ DrainOwn(s) \/ RetireInactive(s) \/ LetGo(s) \/ Conform(s)
    \/ ConformClaim(s) \/ BatchSettled(s)

Others(p) ==
    \/ Pin(p) \/ Unpin(p) \/ Reuse(p) \/ QueueSend(p) \/ SendDone(p) \/ DeleteMessage(p)
    \/ Lose(p)

Next ==
    \/ \E p \in Path : DownloadStep(p) \/ Others(p)
    \/ \E s \in Sweeper : Cleanup(s)
    \/ \E w \in Worker, p \in Path : Unlink(w, p) \/ Record(w, p)
    \/ Pause \/ Resume \/ Crash

Spec == Init /\ [][Next]_vars

-----------------------------------------------------------------------------
\* Once the first recovery has run, every file in the cache directory is charged by a
\* row: an abandoned transfer, a failed commit, a crash between two steps or a lost
\* lease never leaves bytes that no later cleanup can find.
EveryFileIsCharged == TypeOK /\ (adopted => \A p \in disk : row[p] # "none")

\* A message that names a cached file finds it: while the reference stands the row is
\* not being retired and the file is there, unless the system removed it.  A queued
\* outgoing send keeps the file it reads, from the hand-off to its end, though the pin
\* that covered the hand-off is long gone.
ReferencesHold ==
    /\ \A p \in ref : row[p] \in {"none", "active"} /\ (p \in disk \/ p \in lost)
    /\ \A p \in out : p \in disk /\ row[p] \in {"none", "active"}

\* No step retires or unlinks a stored file while something has it pinned.
PinnedFileStays ==
    [][\A p \in pinned \cap pinned' : row[p] = "active" /\ p \in disk \ lost
         => p \in lost' \/ (row'[p] = "active" /\ p \in disk')]_vars

\* No admission takes the cache past its file cap, although its row is inserted by a
\* transaction that trusts the count an earlier one took: no other download, commit,
\* retirement, repair or recovery makes that count too low in between.
AdmissionsKeepTheCap ==
    [][\A p \in Path : row[p] = "none" /\ row'[p] = "reserved"
         => Cardinality({q \in Path : row'[q] # "none"}) <= Cap]_vars
=============================================================================
