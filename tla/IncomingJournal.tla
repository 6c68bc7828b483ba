--------------------------- MODULE IncomingJournal ---------------------------
(***************************************************************************)
(* The durable journal of realtime events: the table incoming_event_queue  *)
(* (src/db/repositories/incomingEvents.ts), the intake that fills it       *)
(* (src/services/realtime/incomingEventDispatcher.ts), the single-flight   *)
(* worker that drains it (incomingEventDrain.ts), and what a delivered     *)
(* event does to the database and to the screen (dbEventSink.ts,           *)
(* notifyingEventSink.ts).                                                 *)
(*                                                                         *)
(* An event is committed to the journal before it has any effect.  The     *)
(* worker leases one row at a time, applies it to the domain tables in a   *)
(* transaction that also checkpoints the row, presents it, and settles it. *)
(* Everything it does is guarded by a context that can die under it: the   *)
(* account's, or the shorter one of a native callback or a recovery retry. *)
(* An event of an RCS provider is guarded by the server's pairing with     *)
(* that provider as well (rcsProviderEpochEventSink.ts).                   *)
(*                                                                         *)
(* Time is in the flags of a row (its lease and its backoff end, it        *)
(* expires, its receipt ages).  Every event here has an authoritative      *)
(* database phase.  A revoked account takes the path of a lock that is     *)
(* never opened again; DeliveryLease says when it is revoked.              *)
(***************************************************************************)
EXTENDS Integers, FiniteSets, Sequences

CONSTANTS
  Event,            \* event keys: the identity a redelivery repeats
  OrderOf,          \* OrderOf[e]: the ordering key of e
  Epoch,            \* provider epochs, one for each pairing with an RCS provider
  EpochOf,          \* EpochOf[e]: the epoch that e names, or Plain
  Plain,            \* names no provider
  Unknown,          \* no server info at hand
  MaxAttempts,      \* INCOMING_EVENT_MAX_ATTEMPTS
  PendingCapacity,  \* INCOMING_EVENT_PENDING_CAPACITY
  ReceiptCapacity,  \* INCOMING_EVENT_RECEIPT_CAPACITY
  Token,            \* lease tokens: random in the code, so never one in use
  Absent,           \* no row
  Nothing,          \* no delivery
  NoToken,          \* no lease
  MaxCopies,        \* bound on the transport callbacks of a run
  MaxUpsets         \* bound on what goes wrong in a run: the app leaves the
                    \* foreground or dies, a delivery or an event runs out of
                    \* time, a pairing ends, a message has no owner yet

ASSUME JournalAssumption ==
  /\ NoToken \notin Token
  /\ EpochOf \in [Event -> Epoch \cup {Plain}]
  /\ Plain \notin Epoch /\ Unknown \notin Epoch \cup {Plain}
  /\ IsFiniteSet(Event) /\ IsFiniteSet(Token)
  /\ Cardinality(Token) > Cardinality(Event) + MaxUpsets
  /\ MaxAttempts \in Nat \ {0}
  /\ PendingCapacity \in Nat /\ ReceiptCapacity \in Nat
  /\ MaxCopies \in Nat /\ MaxUpsets \in Nat

VARIABLES
  row,        \* row[e]: e's row of incoming_event_queue, or Absent
  nextId,     \* the id of the next row (AUTOINCREMENT)
  intake,     \* intakeTail: callbacks that wait to persist their event
  flight,     \* the current flight: where it is and whose context it has
  revoked,    \* flightRevoked: the one-way latch of the flight's guard
  delivery,   \* the claimed row the flight is delivering
  detached,   \* handlers that passed their deadline and still run
  wanted,     \* wakeRequested
  timer,      \* the context in the closure of wakeTimer, or "none"
  kicking,    \* contexts about to call kick
  mode,       \* "foreground", "background" or "locked"
  bounded,    \* whether a bounded context (callback, recovery retry) lives
  provider,   \* the epoch in the server info at hand, or Unknown
  retryOwed,  \* a deferral that a recovery collector will retry
  expired,    \* the events whose authenticated envelope has expired
  copies,     \* how many callbacks the transport has made
  upsets,     \* how much has gone wrong so far
  log,        \* the domain commits, in order (history)
  shown,      \* the events presented (history)
  turned,     \* the events their latest delivery was told to drop (history)
  last        \* the last flight and the admissions since it began: all the
              \* account's, some "bounded", or some flight or kick "failed" (history)

tableVars  == <<row, nextId>>
flightVars == <<flight, revoked, delivery, detached>>
wakeVars   == <<wanted, timer, kicking>>
hostVars   == <<mode, bounded, provider, upsets>>
inputVars  == <<intake, copies, expired>>
histVars   == <<log, shown, turned, last>>
vars == <<tableVars, flightVars, wakeVars, hostVars, inputVars, retryOwed, histVars>>

(* A bounded context that has ended is "gone". *)
Context == {"account", "bounded"}

Row == [state : {"pending", "completed", "poisoned"}, id : Nat, ticket : Nat,
        attempts : 0 .. MaxAttempts, token : Token \cup {NoToken},
        leased : BOOLEAN, due : BOOLEAN, late : BOOLEAN, applied : BOOLEAN,
        receipt : {"none", "guarding", "evictable"}]
Attempt == [event : Event, ticket : Nat, token : Token, live : BOOLEAN,
            phase : {"apply", "owing", "present", "returned", "refused", "unsure"}]
Commit == [event : Event, ticket : Nat, applied : BOOLEAN]
Arrival == [event : Event, ticket : Nat, context : Context \cup {"gone"},
            locked : BOOLEAN]

ASSUME NoRecords == Absent \notin Row /\ Nothing \notin Attempt

TypeOK ==
  /\ row \in [Event -> Row \cup {Absent}]
  /\ nextId \in Nat
  /\ intake \in Seq(Arrival)
  /\ flight \in [at : {"idle", "claiming", "looking", "arming", "delivering"},
                 context : Context \cup {"gone"}, wake : BOOLEAN]
  /\ revoked \in BOOLEAN
  /\ delivery \in Attempt \cup {Nothing}
  /\ detached \in SUBSET Attempt
  /\ wanted \in BOOLEAN
  /\ timer \in Context \cup {"none"}
  /\ kicking \in SUBSET Context
  /\ mode \in {"foreground", "background", "locked"}
  /\ bounded \in BOOLEAN /\ retryOwed \in BOOLEAN
  /\ provider \in Epoch \cup {Unknown}
  /\ expired \in SUBSET Event
  /\ copies \in 0 .. MaxCopies /\ upsets \in 0 .. MaxUpsets
  /\ log \in Seq(Commit)
  /\ shown \in SUBSET Event /\ turned \in SUBSET Event
  /\ last \in {"account", "bounded", "failed"}

Grounded == [at |-> "idle", context |-> "account", wake |-> FALSE]

Init ==
  /\ row = [e \in Event |-> Absent]
  /\ nextId = 1 /\ intake = <<>>
  /\ flight = Grounded /\ revoked = FALSE
  /\ delivery = Nothing /\ detached = {}
  /\ wanted = FALSE /\ timer = "none" /\ kicking = {"account"}
  /\ mode = "foreground" /\ bounded = FALSE /\ retryOwed = FALSE
  /\ provider = Unknown
  /\ expired = {} /\ copies = 0 /\ upsets = 0
  /\ log = <<>> /\ shown = {} /\ turned = {} /\ last = "account"

-----------------------------------------------------------------------------
(* The table. *)

Is(t, e, s) == t[e] # Absent /\ t[e].state = s
Pending(t)  == {e \in Event : Is(t, e, "pending")}

Spent(r, s) == [r EXCEPT !.state = s, !.token = NoToken, !.leased = FALSE,
                          !.due = FALSE, !.receipt = "guarding"]

Exhausted(r) == r.attempts >= MaxAttempts

(* terminalizeExpiredOrExhausted: rows nobody can finish any more. *)
Terminalized(t) ==
  [e \in Event |->
     IF Is(t, e, "pending") /\ ~t[e].leased /\ (t[e].late \/ Exhausted(t[e]))
     THEN Spent(t[e], "poisoned") ELSE t[e]]

(* Mutant: any receipt makes room. *)
AnyReceipt(t) == {e \in Event : Is(t, e, "completed") \/ Is(t, e, "poisoned")}

(* evictableReceiptSql: receipts that no longer guard against a replay.    *)
Evictable(t) == {e \in Event : t[e] # Absent /\ t[e].receipt = "evictable"}

(* trimTerminalReceipts: the receipts older than seven days go, which may  *)
(* be any of those that no longer guard.  The other trim, for tables above *)
(* their capacity, has nothing to do: no row joins a full table.           *)
Trimmed(t) ==
  {[e \in Event |-> IF e \in S THEN Absent ELSE t[e]] : S \in SUBSET Evictable(t)}

Maintained(t) == Trimmed(Terminalized(t))

(* d's row is older than e's, and has the same ordering key. *)
Older(t, e, d) == t[d].id < t[e].id /\ OrderOf[d] = OrderOf[e]

(* Mutant: an older row that backs off no longer holds its successors.     *)
HeadUnlessWaiting(t, e) ==
  \A d \in Pending(t) : Older(t, e, d) => t[d].applied \/ ~t[d].due

(* The two NOT EXISTS of the claim: changes of one ordering key are made   *)
(* oldest first, past rows that are applied and only wait to be presented; *)
(* those wait for every newer change, and then go oldest first.            *)
Head1(t, e) ==
  \A d \in Pending(t) : Older(t, e, d) => t[d].applied /\ ~t[e].applied
Head2(t, e) ==
  t[e].applied => \A d \in Pending(t) : Older(t, d, e) => t[d].applied
Heads(t) == {e \in Pending(t) : Head1(t, e) /\ Head2(t, e)}

Claimable(t) == {e \in Heads(t) : ~Exhausted(t[e]) /\ ~t[e].late
                                  /\ t[e].due /\ ~t[e].leased}

TokensInUse(t) ==
  {t[e].token : e \in {d \in Event : t[d] # Absent}} \cup {a.token : a \in detached}

-----------------------------------------------------------------------------
(* Guards and contexts. *)

Upset == upsets < MaxUpsets /\ upsets' = upsets + 1

(* IncomingEventDrain's guard: App Lock, the context, and its own latch. *)
FlightOpen == ~revoked /\ mode # "locked" /\ flight.context # "gone"

(* attemptGuard: the flight's guard until the attempt is revoked. *)
AttemptOpen(a) == a.live /\ FlightOpen

CanScheduleWake == mode = "foreground"

(* classifyRcsEventAdmission: an event that names no provider is admitted  *)
(* always, another one while the server is paired with its epoch.  With no *)
(* server info nothing is known of it; with another one it is out of date. *)
Admitted(e) == EpochOf[e] \in {Plain, provider}
Unsure(e)   == ~Admitted(e) /\ provider = Unknown
Outdated(e) == ~Admitted(e) /\ provider # Unknown

(* Mutants: a flight forgets that it saw its guard closed; a handler that  *)
(* passed its deadline keeps its authority.                                *)
Forgotten  == FALSE
Trusted(a) == a

(* What the guard latches once it has been seen closed, so that a lock     *)
(* which opens again does not revive the flight.                           *)
SeenClosed == TRUE

(* revoke(): the attempt's guard is closed for good. *)
Revoked(a) == [a EXCEPT !.live = FALSE]

(* The end of a flight: a wake that was requested meanwhile, or the flight *)
(* limit, schedules another, if the context of this one still allows it.   *)
EndFlight(limit) ==
  /\ flight' = Grounded /\ revoked' = FALSE
  /\ wanted' = FALSE
  /\ kicking' = IF (limit \/ wanted) /\ CanScheduleWake /\ flight.context # "gone"
                THEN kicking \cup {flight.context} ELSE kicking

(* After a settled row: another claim, or the limit of rows per flight     *)
(* (maxEventsPerFlight; when it is reached is left open).                  *)
NextRow ==
  \/ /\ flight' = [flight EXCEPT !.at = "claiming"]
     /\ UNCHANGED <<revoked, wanted, kicking>>
  \/ EndFlight(TRUE)

-----------------------------------------------------------------------------
(* Intake. *)

(* A socket or push callback takes its place in the intake before it       *)
(* awaits anything.  Under App Lock only an authenticated push may, and it *)
(* commits its row without waking the worker.  A transport can repeat an   *)
(* event until its authenticated envelope expires.  Here at most one       *)
(* bounded context lives at a time.                                        *)
Receive(e) ==
  /\ copies < MaxCopies /\ e \notin expired
  /\ copies' = copies + 1
  /\ \E c \in {"account", "bounded"} :
       /\ c = "bounded" => ~bounded /\ mode # "foreground"
       /\ bounded' = (bounded \/ c = "bounded")
       /\ intake' = Append(intake, [event |-> e, ticket |-> copies + 1, context |-> c,
                                   locked |-> mode = "locked"])
  /\ UNCHANGED <<tableVars, flightVars, wakeVars, mode, provider, upsets, expired,
                 retryOwed, histVars>>

(* The gate of an admission, evaluated up to the COMMIT of its row. *)
Admits(a) == a.context # "gone" /\ (a.locked <=> mode = "locked")

Full(t) == Cardinality({e \in Event : t[e] # Absent}) >= ReceiptCapacity

(* ensureIncomingEventReceiptSlot: an evictable receipt leaves a full      *)
(* table (any of them here, the oldest in the code), or there is no slot.  *)
MadeRoom(t) ==
  IF Full(t) /\ Evictable(t) # {}
  THEN {[t EXCEPT ![e] = Absent] : e \in Evictable(t)} ELSE {t}

Fresh(a) == [state |-> "pending", id |-> nextId, ticket |-> a.ticket, attempts |-> 0,
             token |-> NoToken, leased |-> FALSE, due |-> TRUE, late |-> FALSE,
             applied |-> FALSE, receipt |-> "none"]

(* enqueuePreparedIncomingEvent: the table after an event that is not in   *)
(* it was offered.  One that expired on the way in, or that finds too many *)
(* pending, leaves a poisoned receipt and no pending row.                  *)
Offered(t, a, stillborn) ==
  {IF Full(room) THEN room
   ELSE [room EXCEPT ![a.event] =
           IF stillborn \/ Cardinality(Pending(room)) >= PendingCapacity
           THEN Spent(Fresh(a), "poisoned") ELSE Fresh(a)] : room \in MadeRoom(t)}

(* enqueueIncomingEvent and finishAdmission: maintenance, the row unless   *)
(* the key has a receipt already, and a kick whatever came of it.  The     *)
(* callbacks persist in the order in which they arrived.  One that is out  *)
(* of date is dropped, unless the pairing is known from a push alone.  The *)
(* recovery that a refused or poisoned event requests is a sync, outside   *)
(* this module.                                                            *)
Persist ==
  /\ intake # <<>> /\ intake' = Tail(intake)
  /\ LET a == Head(intake)
     IN  \/ /\ ~Admits(a) \/ Outdated(a.event)
            /\ UNCHANGED <<tableVars, kicking, last>>
         \/ /\ Admits(a)
            /\ \E t \in Maintained(row), stillborn \in {a.event \in expired, TRUE} :
                /\ row' \in IF t[a.event] # Absent THEN {t} ELSE Offered(t, a, stillborn)
                /\ nextId' = IF t[a.event] = Absent /\ row'[a.event] # Absent
                             THEN nextId + 1 ELSE nextId
                /\ kicking' = IF a.locked THEN kicking ELSE kicking \cup {a.context}
                /\ last' = IF last = "account" THEN a.context ELSE last
  /\ UNCHANGED <<flightVars, wanted, timer, hostVars, copies, expired, retryOwed,
                 log, shown, turned>>

-----------------------------------------------------------------------------
(* The worker. *)

(* Mutant: joining the flight is taken to be enough. *)
JoinOnly == wanted

(* A kick that finds a flight asks it for another round. *)
Joined == TRUE

(* kick: nothing for a closed gate; else join the flight or start one. *)
Kick(c) ==
  /\ c \in kicking /\ kicking' = kicking \ {c}
  /\ CASE mode = "locked" -> UNCHANGED <<flight, wanted, timer, last>>
       [] mode # "locked" /\ flight.at # "idle" ->
            wanted' = Joined /\ UNCHANGED <<flight, timer, last>>
       [] OTHER ->
            /\ flight' = [at |-> "claiming", context |-> c, wake |-> FALSE]
            /\ wanted' = FALSE /\ timer' = "none" /\ last' = c
  /\ UNCHANGED <<tableVars, revoked, delivery, detached, hostVars, inputVars,
                 retryOwed, log, shown, turned>>

(* claimIncomingEvents: maintenance, then the claimable row received first. *)
Claim ==
  /\ flight.at = "claiming" /\ FlightOpen
  /\ \E t \in Maintained(row) :
       LET first == {e \in Claimable(t) :
                     \A d \in Claimable(t) : t[e].ticket <= t[d].ticket}
     IN  IF first = {}
         THEN /\ row' = t /\ flight' = [flight EXCEPT !.at = "looking"]
              /\ UNCHANGED <<delivery, turned>>
         ELSE \E e \in first :
                LET k == CHOOSE k \in Token : k \notin TokensInUse(t)
                IN  /\ row' = [t EXCEPT ![e].attempts = @ + 1, ![e].token = k,
                                       ![e].leased = TRUE]
                    /\ delivery' = [event |-> e, ticket |-> t[e].ticket, token |-> k,
                                    live |-> TRUE,
                                    phase |-> IF t[e].applied THEN "present" ELSE "apply"]
                    /\ turned' = turned \ {e}
                    /\ flight' = [flight EXCEPT !.at = "delivering"]
  /\ UNCHANGED <<nextId, revoked, detached, wakeVars, hostVars, inputVars, retryOwed,
                 log, shown, last>>

(* The flight finds its guard closed, and leaves a row it may hold to its  *)
(* lease; or one of its statements fails, and kick rejects.                *)
Abort ==
  /\ flight.at # "idle"
  /\ \/ ~FlightOpen /\ UNCHANGED last
     \/ last' = "failed"
  /\ EndFlight(FALSE) /\ delivery' = Nothing
  /\ UNCHANGED <<tableVars, detached, timer, hostVars, inputVars, retryOwed, log, shown,
                 turned>>

(* getNextIncomingEventWakeAt: the rows whose turn a timer can wait for. *)
WakeFor(t) == Heads(t)

(* armNextWake reads the next wake... *)
Look ==
  /\ flight.at = "looking" /\ FlightOpen
  /\ flight' = [flight EXCEPT !.at = "arming", !.wake = CanScheduleWake /\ WakeFor(row) # {}]
  /\ UNCHANGED <<tableVars, revoked, delivery, detached, wakeVars, hostVars,
                 inputVars, retryOwed, histVars>>

(* ... and arms the timer, with the guard of this flight in its closure.   *)
Arm ==
  /\ flight.at = "arming" /\ FlightOpen
  /\ timer' = IF flight.wake /\ CanScheduleWake THEN flight.context ELSE timer
  /\ EndFlight(FALSE)
  /\ UNCHANGED <<tableVars, delivery, detached, hostVars, inputVars, retryOwed, histVars>>

(* The timer's callback: it kicks if the guard it was armed with is open.  *)
Fire ==
  /\ timer # "none" /\ timer' = "none"
  /\ kicking' = IF CanScheduleWake THEN kicking \cup {timer} ELSE kicking
  /\ UNCHANGED <<tableVars, flightVars, wanted, hostVars, inputVars, retryOwed, histVars>>

-----------------------------------------------------------------------------
(* Delivering one row. *)

Owns(a) == Is(row, a.event, "pending") /\ row[a.event].token = a.token

Advance(a, phase) ==
  IF a = delivery THEN delivery' = [a EXCEPT !.phase = phase] /\ UNCHANGED detached
  ELSE /\ detached' = (detached \ {a}) \cup {[a EXCEPT !.phase = phase]}
       /\ UNCHANGED delivery

(* Mutant: the domain writes commit, but their checkpoint does not. *)
Unmarked(e) == row

(* markIncomingEventDbAppliedWithinTransaction. *)
Checkpointed(e) == [row EXCEPT ![e].applied = TRUE]

Committed(a, applied) ==
  log' = Append(log, [event |-> a.event, ticket |-> a.ticket, applied |-> applied])

(* DbEventSink: the domain writes and the checkpoint commit together, if   *)
(* the attempt still owns its row and its guards are open at COMMIT.       *)
Apply(a) ==
  /\ a # Nothing /\ a.phase = "apply" /\ AttemptOpen(a) /\ Admitted(a.event) /\ Owns(a)
  /\ row' = Checkpointed(a.event)
  /\ Committed(a, TRUE)
  /\ Advance(a, "present")
  /\ UNCHANGED <<nextId, flight, revoked, wakeVars, hostVars, inputVars, retryOwed,
                 shown, turned, last>>

(* A message whose chat is not here yet commits its handles and chats, and *)
(* one whose send has no owner yet its text: with no checkpoint, which is  *)
(* what fences the lease.  Its delivery then ends in a deferral.           *)
Owe(a) ==
  /\ a # Nothing /\ a.phase = "apply" /\ AttemptOpen(a) /\ Admitted(a.event) /\ Upset
  /\ Committed(a, FALSE)
  /\ Advance(a, "owing")
  /\ UNCHANGED <<tableVars, flight, revoked, wakeVars, mode, bounded, provider, inputVars,
                 retryOwed, shown, turned, last>>

(* withCurrentDeliveryTransaction, or what follows it, finds the guard     *)
(* closed: it rolls back and returns as if it had finished.                *)
Refuse ==
  /\ delivery # Nothing /\ delivery.phase \in {"apply", "owing"} /\ ~FlightOpen
  /\ revoked' = SeenClosed
  /\ Advance(delivery, "present")
  /\ UNCHANGED <<tableVars, flight, wakeVars, hostVars, inputVars, retryOwed, histVars>>

(* The handler returns at once, though the flight's guard is open: the     *)
(* event is out of date (on entry, or from when it is seen to be), or has  *)
(* nothing to apply: no guid, or an owner of another provider.  What the   *)
(* sinks then still derive from the database is not of this event.         *)
TurnAway ==
  /\ delivery # Nothing /\ AttemptOpen(delivery)
  /\ \/ delivery.phase = "apply" /\ ~Unsure(delivery.event)
     \/ delivery.phase \in {"owing", "present"} /\ Outdated(delivery.event)
  /\ turned' = turned \cup {delivery.event}
  /\ Advance(delivery, "refused")
  /\ UNCHANGED <<tableVars, flight, revoked, wakeVars, hostVars, inputVars, retryOwed,
                 log, shown, last>>

(* The pairing turns out to be unknown, before, between or after the       *)
(* effects: the handler stops, and its delivery can only be deferred.      *)
Doubt ==
  /\ delivery # Nothing /\ AttemptOpen(delivery) /\ Unsure(delivery.event)
  /\ delivery.phase \in {"apply", "owing", "present", "returned"}
  /\ Advance(delivery, "unsure")
  /\ UNCHANGED <<tableVars, flight, revoked, wakeVars, hostVars, inputVars, retryOwed,
                 histVars>>

(* NotifyingEventSink: what the event says to the user is posted. *)
Present(a) ==
  /\ a # Nothing /\ a.phase = "present" /\ AttemptOpen(a) /\ Admitted(a.event)
  /\ shown' = shown \cup {a.event}
  /\ Advance(a, "returned")
  /\ UNCHANGED <<tableVars, flight, revoked, wakeVars, hostVars, inputVars,
                 retryOwed, log, turned, last>>

(* The tables a settlement may leave: nothing changes for a lost lease,    *)
(* except that one which is terminal in any case lets old receipts go.     *)
Settled(r, terminal) ==
  LET t == [row EXCEPT ![delivery.event] = r]
  IN  IF ~Owns(delivery) THEN IF terminal THEN Trimmed(row) ELSE {row}
      ELSE IF r.state = "pending" THEN {t} ELSE Trimmed(t)

Rescheduled(r) == [r EXCEPT !.token = NoToken, !.leased = FALSE, !.due = FALSE]

(* completeIncomingEvent. *)
Completed(r) == Spent(r, "completed")

(* failIncomingEvent: a backoff, or the end at expiry or the last attempt. *)
Failed(r) == IF r.late \/ Exhausted(r) THEN Spent(r, "poisoned") ELSE Rescheduled(r)

(* deferIncomingEventForDependency: the attempt is given back. *)
Deferred(r) ==
  IF r.late THEN Spent(r, "poisoned") ELSE [Rescheduled(r) EXCEPT !.attempts = @ - 1]

(* Mutant: a delivery that stopped for want of server info is completed.   *)
AnyReturn == {"returned", "refused", "unsure"}

(* The phases after which a delivery is processed. *)
Processed == {"returned", "refused"}

Finish(r, terminal) ==
  /\ FlightOpen
  /\ row' \in Settled(r, terminal)
  /\ delivery' = Nothing
  /\ NextRow
  /\ UNCHANGED <<nextId, timer, mode, bounded, provider, inputVars, histVars>>

Complete ==
  /\ delivery # Nothing /\ delivery.phase \in Processed
  /\ Finish(Completed(row[delivery.event]), TRUE)
  /\ UNCHANGED <<detached, retryOwed, upsets>>

Fail ==
  /\ delivery # Nothing /\ delivery.phase \notin {"owing", "unsure"}
  /\ Finish(Failed(row[delivery.event]), FALSE)
  /\ UNCHANGED <<detached, retryOwed, upsets>>

(* A payload that can never be applied (codec or content). *)
Poison ==
  /\ delivery # Nothing /\ delivery.phase = "apply"
  /\ Finish(Spent(row[delivery.event], "poisoned"), TRUE)
  /\ UNCHANGED <<detached, retryOwed, upsets>>

(* A prerequisite is missing, or server info; a push callback whose        *)
(* recovery collector is open will retry once that has been recovered.     *)
Defer ==
  /\ delivery # Nothing /\ delivery.phase \in {"apply", "owing", "unsure"}
  /\ Finish(Deferred(row[delivery.event]), FALSE)
  /\ \E owed \in {FALSE, Owns(delivery) /\ Is(row', delivery.event, "pending")} :
       retryOwed' = (retryOwed \/ owed)
  /\ UNCHANGED <<detached, upsets>>

(* The deadline of the delivery: the handler may well go on. *)
Timeout ==
  /\ delivery # Nothing /\ Upset
  /\ detached' = detached \cup {Revoked(delivery)}
  /\ Finish(Failed(row[delivery.event]), FALSE)
  /\ UNCHANGED retryOwed

DetachedEnds(a) ==
  /\ a \in detached /\ detached' = detached \ {a}
  /\ UNCHANGED <<tableVars, flight, revoked, delivery, wakeVars, hostVars, inputVars,
                 retryOwed, histVars>>

-----------------------------------------------------------------------------
(* The host: contexts, App Lock, time and process death. *)

(* resumeRecoveredRealtimeEvents: the retry kicks in a context of its own. *)
RetryRecovered ==
  /\ retryOwed /\ retryOwed' = FALSE
  /\ ~bounded /\ bounded' = TRUE
  /\ kicking' = kicking \cup {"bounded"}
  /\ UNCHANGED <<tableVars, flightVars, wanted, timer, mode, provider, upsets,
                 inputVars, histVars>>

(* The callback returns or reaches its deadline, or the retry is over.     *)
(* What it left behind does nothing any more: its admission and its kick   *)
(* are refused, and the timer of its flight returns when it fires.         *)
ContextEnds ==
  /\ bounded /\ bounded' = FALSE
  /\ flight' = [flight EXCEPT !.context = IF @ = "bounded" THEN "gone" ELSE @]
  /\ timer' = IF timer = "bounded" THEN "none" ELSE timer
  /\ kicking' = kicking \ {"bounded"}
  /\ intake' = [i \in DOMAIN intake |->
       [intake[i] EXCEPT !.context = IF @ = "bounded" THEN "gone" ELSE @]]
  /\ last' = IF "bounded" \in kicking THEN "failed" ELSE last
  /\ UNCHANGED <<tableVars, revoked, delivery, detached, wanted, mode, provider, upsets,
                 copies, expired, retryOwed, log, shown, turned>>

(* The app goes to the background, or App Lock engages. *)
Leave ==
  /\ Upset
  /\ \E m \in {"background", "locked"} : mode # "locked" /\ m # mode /\ mode' = m
  /\ UNCHANGED <<tableVars, flightVars, wakeVars, bounded, provider, inputVars,
                 retryOwed, histVars>>

(* The app is in front and unlocked: startRealtime or resumeDesiredRealtime *)
(* resumes the journal whatever the state of the socket.                   *)
Foreground ==
  /\ mode # "foreground" /\ mode' = "foreground"
  /\ kicking' = kicking \cup {"account"}
  /\ UNCHANGED <<tableVars, flightVars, wanted, timer, bounded, provider, upsets,
                 inputVars, retryOwed, histVars>>

(* Server info arrives, goes, or names another pairing; it may come from   *)
(* the push that the flight is delivering (borrowRcsProviderAuthority).    *)
PairingChanges ==
  /\ \E p \in Epoch \cup {Unknown} : p # provider /\ provider' = p
  /\ Upset \/ (provider = Unknown /\ UNCHANGED upsets)
  /\ UNCHANGED <<tableVars, flightVars, wakeVars, mode, bounded, inputVars, retryOwed,
                 histVars>>

(* The process dies; only the tables are left. *)
Crash ==
  /\ Upset
  /\ intake' = <<>> /\ flight' = Grounded /\ revoked' = FALSE
  /\ delivery' = Nothing /\ detached' = {}
  /\ wanted' = FALSE /\ timer' = "none" /\ kicking' = {}
  /\ mode' = "background" /\ bounded' = FALSE /\ retryOwed' = FALSE
  /\ provider' = Unknown
  /\ UNCHANGED <<tableVars, copies, expired, histVars>>

Mark(e, r) ==
  /\ row' = [row EXCEPT ![e] = r]
  /\ UNCHANGED <<nextId, flightVars, wakeVars, mode, bounded, provider, intake, copies,
                 retryOwed, histVars>>

(* Time passes for a row: its lease, its backoff or its life ends. *)
LeaseLapses(e) ==
  /\ Is(row, e, "pending") /\ row[e].leased
  /\ Mark(e, [row[e] EXCEPT !.leased = FALSE]) /\ UNCHANGED <<expired, upsets>>
BackoffEnds(e) ==
  /\ Is(row, e, "pending") /\ ~row[e].due
  /\ Mark(e, [row[e] EXCEPT !.due = TRUE]) /\ UNCHANGED <<expired, upsets>>
Expires(e) ==
  /\ Is(row, e, "pending") /\ ~row[e].late /\ Upset
  /\ Mark(e, [row[e] EXCEPT !.late = TRUE]) /\ UNCHANGED expired

(* The receipt of a push guards for 24 h and 5 min after its end: longer   *)
(* than any envelope of it can be valid.                                   *)
ReceiptAges(e) ==
  /\ row[e] # Absent /\ row[e].receipt = "guarding"
  /\ expired' = expired \cup {e} /\ UNCHANGED upsets
  /\ Mark(e, [row[e] EXCEPT !.receipt = "evictable"])

-----------------------------------------------------------------------------
Handler == \/ Apply(delivery) \/ Owe(delivery) \/ Present(delivery)
           \/ Refuse \/ TurnAway \/ Doubt
Settle  == Complete \/ Fail \/ Poison \/ Defer \/ Timeout
Worker  == Claim \/ Look \/ Arm \/ Handler \/ Settle
Time(e) == LeaseLapses(e) \/ BackoffEnds(e) \/ Expires(e) \/ ReceiptAges(e)
Host    == \/ RetryRecovered \/ ContextEnds \/ Leave \/ Foreground \/ Crash
           \/ PairingChanges

Next ==
  \/ \E e \in Event : Receive(e) \/ Time(e)
  \/ \E c \in Context : Kick(c)
  \/ \E a \in detached : Apply(a) \/ Owe(a) \/ Present(a) \/ DetachedEnds(a)
  \/ Persist \/ Fire \/ Worker \/ Abort \/ Host

Spec == Init /\ [][Next]_vars

-----------------------------------------------------------------------------
(* Properties. *)

(* However often an event is redelivered, retried, timed out, deferred or  *)
(* restored after a crash, the commit that applies it is its last and so   *)
(* its only one: what commits before it, for a message that has no owner   *)
(* yet, is of the same receipt.                                            *)
AppliedLast ==
  \A i, j \in DOMAIN log :
    i < j /\ log[i].event = log[j].event
      => ~log[i].applied /\ log[i].ticket = log[j].ticket

(* The events of one ordering key change the database in the order in      *)
(* which their callbacks arrived, through backoffs, deferrals and crashes, *)
(* and also by what a deferred event commits before it is applied.         *)
AppliesInArrivalOrder ==
  \A i, j \in DOMAIN log :
    i < j /\ OrderOf[log[i].event] = OrderOf[log[j].event]
      => log[i].ticket <= log[j].ticket

AppliedIn(e) == \E i \in DOMAIN log : log[i].event = e /\ log[i].applied

(* Nothing is presented before its domain writes are durable, not even     *)
(* when App Lock engages inside the transaction and opens again before the *)
(* sinks look, nor after a commit that only precedes them.                 *)
NotifiedIsApplied == \A e \in shown : AppliedIn(e)

(* A completed receipt stands for work that was done, or that the delivery *)
(* which completed it was told to drop, by a pairing known to be another   *)
(* or by the event itself: the payload is gone, so an event completed      *)
(* because a guard closed, a lease was lost or the pairing was unknown     *)
(* would be lost for good.  And a row never spends more attempts than it   *)
(* has (with the other types).                                             *)
CompletedIsDone ==
  TypeOK /\ \A e \in Event : Is(row, e, "completed") =>
    e \in turned \/ (e \in shown /\ AppliedIn(e))

(* Every effect is the work of the delivery the flight is making now, and  *)
(* the commit that applies an event that of the holder of the row's lease: *)
(* a handler that outlived its deadline has none.                          *)
EffectsByOwner ==
  [][/\ log' # log \/ shown' # shown => delivery # Nothing /\ delivery' # delivery
     /\ log' # log /\ log'[Len(log')].applied => Owns(delivery)]_vars

Waking(C) ==
  flight.at # "idle" \/ timer \in C \/ kicking \cap C # {}

(* In the foreground a pending row is not forgotten: a flight is up, or a  *)
(* timer or a kick will bring one (unless a statement of a flight failed,  *)
(* or a callback ended between the COMMIT of its row and its kick).        *)
NoRowStranded ==
  mode = "foreground" /\ last # "failed" /\ Pending(row) # {} => Waking(Context)

(* ... which does hold as long as the last flight, and every admission     *)
(* since it began, had the account's own context.                          *)
AccountFlightsWake ==
  mode = "foreground" /\ last = "account" /\ Pending(row) # {} => Waking({"account"})
=============================================================================
