# TLA+ models of Gator RN

Gator RN is an offline-first messaging client: one process, one encrypted SQLite
database behind one connection, a companion server, and a socket, pushes and
HTTP that tell the same story at different times. What is hard in it is
concurrency that a unit test rarely reaches: promises that interleave at every
`await`, deliveries that come late, twice and out of order, an account that is
closed under running work, a process that may die anywhere.

This directory models the parts that carry that difficulty, checks them with TLC
on small instances, and proves their safety with TLAPS, for every instance: of the
write queue and the account barrier, on which the others rest, the logical send
queue, the outgoing send, the event journal, the attachment cache, the account's
life and the scheduled messages. Paths below are relative to the repository;
`PROJECT.json` maps each definition to the lines it models.

## 1. Inventory

*State* is what the component keeps, *hard* what a test hardly reaches, *correct*
what makes it right. Components marked ✓ are modelled, (✓) partly.

### The core

**Write queue** ✓ `src/db/transaction.ts`. *State*: the tail of a promise chain,
a count of releases, a watchdog per waiter, the transaction's context (does it
admit work, what was registered, was it violated), fences. *Operations*:
`withDbTransaction`, `withDbWriteLock`, `captureDbWriteFence`,
`runInTransactionContext`. *Used by* every writer of the app, on one shared
connection. *Hard*: two `BEGIN`s in flight; a claim awaited inside its own
holder; a rejected claim that must still hand its slot on; a task that outlives
its transaction; revocation at each `await`. *Correct*: exclusion, atomicity,
no write escapes its transaction, revocation wins, the queue never stops
silently.

**Account delivery barrier** ✓ `src/services/realtime/deliveryCoordinator.ts`.
*State*: whether work is admitted, the account generation, drain slots,
invalidation listeners. *Operations*: capture a lease, run tracked work,
subscribe, pause (close and drain), resume. *Used by* sends, deliveries, sync
and teardown. *Hard*: overlapping pauses; leases captured while closed;
reopening before an earlier pause has drained. *Correct*: a resolved pause
leaves nothing running; nothing crosses accounts; every pause resolves.

**Logical send queue** ✓ `src/services/send/logicalSendQueue.ts`. *State*:
waiting entries, chats whose turn is taken, a retained count, timers. *Hard*: a
turn that expires while its task runs on and later finishes; capacity;
invalidation in the middle of a pump. *Correct*: order per chat, no idle slot,
no wedge, books that balance.

**Outgoing send state and retry ladder** (✓) `src/db/repositories/outgoing*.ts`,
`src/services/send/outgoingQueueService.ts`. *State*: the message row (state,
generation, pending, active attempt), the alias of its temporary guid, the
deletion ledger, the durable queue row. *Operations*: optimistic insert,
acknowledge, settle, fail, claim, defer, retire, Try Again, discard. *Hard*: six
orders of acknowledgement, echo and failure over three transports; requests
that overlap; deletion in between; death between claim and request. *Correct*:
nothing stranded, nothing resent that is sent or cancelled, each outcome to its
own attempt.

**Incoming event journal** (✓) `src/db/repositories/incomingEvents.ts`,
`src/services/realtime/incomingEventDispatcher.ts`, `incomingEventDrain.ts`,
`rcsProviderEpochEventSink.ts`, `dbEventSink.ts`, `notifyingEventSink.ts`. *State*:
rows with lease, attempts and backoff; receipts; the intake chain; one flight with
its wake flag and timer; the pairing with an RCS provider. *Hard*: redelivery,
order with backoff, handlers past their deadline, contexts shorter than the flight
they started, App Lock closing and opening, a pairing that changes or is unknown
halfway, commits that precede a deferral. *Correct*: applied once, in order, by
the owner, presented only when durable; completed only when dealt with; no row
forgotten.

### Account, boot and background

**Account lifecycle** (✓) `src/services/accountCleanup.ts`, `accountLifecycleState.ts`,
`connect.ts`, `connection.ts`, `bootstrap.ts`, `boot/durableSession.ts`. *State*: an
independent revocation marker (a file), a secure store without multi-key
transactions, the encrypted database, the revocation epoch, quarantined
operations that passed their deadline. *Operations*: connect, disconnect, forget
on this phone only, restore at start. *Hard*: death between any two steps of a
forget; a late native write that lands behind a delete; a connect that a forget
overtakes. *Correct*: a forgotten account is never reactivated, no published
session is a mixture of two, no live bearer is orphaned, nothing late lands on
a connected account.

**Credential upgrade** `src/services/credentialUpgradeRuntime.ts`,
`src/core/secure/credentialUpgrade.ts`. *State*: a versioned journal, the active
bearer, the record of the replaced one. *Hard*: crash between promotion,
custody and cleanup. *Correct*: always a usable bearer, no bearer leaves custody
before it is revoked.

**Boot coordinator** `src/services/boot/*`. *State*: the run, its stage (lock,
session, database, settings, activate), issues, cleanups. *Hard*: late results
of an invalidated run; cleanup registered after the end. *Correct*: one current
run, cleanups once and in reverse order.

**Background sync** `src/services/background/*`. Composes sync, drain and send
recovery in a headless task with a time budget, gated by the revocation marker.
*Correct*: never runs for a revoked account, never starts a phase past its
budget.

**Sync engine** `src/services/sync/*`, `src/services/syncControl.ts`. *State*:
cursors and watermarks per stream, deletion continuation, repair checkpoints.
*Hard*: a crash between page and cursor, restarts of a stale cursor, a fenced
repair beside live events. *Correct*: no page skipped, deletions never undone,
the cursor never ahead of what is stored.

### Sending beside the core

**Scheduled sends** ✓ `src/services/send/scheduleService.ts`, `scheduledSends.ts`,
`src/db/repositories/scheduled.ts`. *State*: rows of the phone, items of the Mac, a
line of runs, which runs' releases failed, whether recovery succeeded.
*Operations*: schedule, edit, cancel, run what is due, recover, synchronise with
the Mac's list. *Hard*: a create whose answer was lost; an edit while the
reconciliation holds an older list; a run cut off by its account; a release the
database refuses. *Correct*: each turn goes out once, from the phone or the Mac;
nothing that was cancelled or edited away goes out; nothing promised is lost.

**One-shot sends** (edits, unsends, tapbacks, contacts, locations, legacy rows)
`src/services/send/send*Service.ts`: the rows of the retry ladder with their own
settlements. **Upload control** `uploadControl.ts`, `trackedUpload.ts`: cancel and
expiry of an upload. **Reminders**
`src/services/notifications/remindersService.ts`: a database row and a native
alarm, each of which can survive the other.

### Receiving beside the core

**Push registration and intake** `src/services/notifications/fcm*.ts` (a FIFO of
registrations, session gate, keys); **Notifications** `notifeeService.ts`,
`actions.ts` (what is shown, grouped, cleared); **Socket, reachability and server
rotation** `socketService.ts`, `reachability.ts`, `serverRotation*.ts` (a backoff
ladder, a one-slot proposal); **Event codec** `src/core/realtime/*` (pure);
**Share intake** `src/services/share/*` (receipts that make a native share
delivered once across restarts).

### Files and data

**Attachment cache** (✓) `src/services/download/attachmentCacheCoordinator.ts`,
`attachmentCacheRecovery.ts`, `downloadService.ts`. *State*: the files, a ledger of
rows that charges them, reservations, retirement owners and pins. *Operations*:
download, re-use, pin, evict, clean up, conform to the quota, recover at start.
*Hard*: planning under a gate and deleting outside it; a row inserted on the count
of an earlier transaction; a native transfer that is
aborted and still writes; a row and a file that cannot change together.
*Correct*: every file is charged, no reference or queued send loses its file, no
pinned file is removed, no admission passes the cap.

**Message and chat stores**, **Backup**, **Database open and
migrations**: data and SQL with little control. **Chat actions**, **FaceTime**,
**Error reports and logs**, **HTTP client**, **Screens and stores**, **Native Android
modules**, **Tests, scripts and build plugins**: see `PROJECT.json` for why they
are not modelled.

### How the modelled parts meet

A user's send captures a lease (barrier), waits for its chat's turn (logical
queue), and then runs transactions (write queue) that move the send state. The
answers come back by HTTP and, through the journal, as events. Each handler of
an event and each settlement of a send is one guarded transaction of the write
queue; OutgoingSend and IncomingJournal therefore take a transaction as one
atomic step, which is what WriteQueue's exclusion and all-or-nothing
properties license, and so do the ledger of AttachmentCache, the wipe of
AccountLifecycle and the table of ScheduledSends. Disconnect pauses the barrier,
which cancels waiting sends and closes the guards; AccountLifecycle takes that
pause as one step with two outcomes, drained or past its deadline. A scheduled
row that is due becomes an outgoing row in the transaction that retires it: the
queue takes over there, and `ScheduledSends` ends where `OutgoingSend` begins.
A send's file is pinned and referenced in `AttachmentCache` while its row exists.

## 2. Modules

| module | models | extends |
|---|---|---|
| `WriteQueue` | `db/transaction.ts` | |
| `WriteQueueProofs` | theorems about it | `WriteQueue` |
| `DeliveryLease` | `deliveryCoordinator.ts` | |
| `DeliveryLeaseProofs` | theorems about it | `DeliveryLease` |
| `ChatTurns` | what a chat is promised (abstract) | |
| `LogicalSendQueue` | `logicalSendQueue.ts` on the barrier | `DeliveryLease` |
| `LogicalSendQueueProofs` | theorems about it | `LogicalSendQueue`, `DeliveryLeaseProofs` |
| `OutgoingSend` | one message, its ladder, requests, attempts, events | |
| `OutgoingSendProofs` | theorems about it | `OutgoingSend` |
| `IncomingJournal` | intake, table, drain, sinks, host | |
| `IncomingJournalProofs` | theorems about it | `IncomingJournal` |
| `AttachmentCache` | files, ledger, downloads, cleanup, recovery | |
| `AttachmentCacheProofs` | theorems about it | `AttachmentCache` |
| `AccountLifecycle` | connect, forget and boot over marker, store and database | |
| `AccountLifecycleProofs` | theorems about it | `AccountLifecycle` |
| `ScheduledSends` | scheduled messages on the phone and on the Mac | |
| `ScheduledSendsProofs` | theorems about it | `ScheduledSends` |
| `MC*` | instances for TLC | the module of that name |

Definitions whose comment begins with "Mutant" are plausible bugs of the
definition that follows them: each property has one that it must catch when it
is put in place of the original. They are part of no specification.

**WriteQueue.** A caller's `pc` is its place in `withDbTransaction`: parked on the
chain, beginning, running its callback, settling its tasks, committing, rolling
back, releasing. A step is the code between two `await`s; answers of SQLite and
timers are steps of their own. `tail`, `slot` and `resolved` are the promise
chain. A nested claim (`Parent`) is awaited by its holder's callback. The
development deadline (claim rejected when no release was seen) and the release
watchdog (warn, then report) are both there. Statements go to `uncommitted` or
`committed` by whether a transaction is open on the connection, whoever issues
them, as SQLite does.

**DeliveryLease.** `Capture`, `Admit`/`Refuse`, `Settle`, `Subscribe`, `Pause`,
`Drained`, `Resume` are the functions of the file. `account`, `born` and
`admittedIn` are histories.

**LogicalSendQueue.** Each send is a piece of the barrier's work. Entries are the
sends in turn "queued" in the order of their seats. `HandOn` is the pump to its
end: an entry starts if its chat is neither busy nor wanted by an entry ahead
and those leave it a slot, which is the closed form of the code's scan and
rescan. Cancellation at `Pause` is one step with it, as the listeners are called
synchronously. `Promise` maps the queue to `ChatTurns`: a chat's line is its
waiting sends in the order of their seats (`InOrder`), its holder the send whose
claim is not yet released.

**OutgoingSend.** Each database transaction is an operator from tables to tables
(`Exact`, `Promote`, `Recreate`, `Acknowledged`, `Errored`, `Upsert`, ...). Requests
are numbered by the generation they were claimed for; an attempt of the server
by the canonical guid it gets. The server is external: it replays a remembered
attempt or makes a new one, may relay a copy of the message, and may report
failure, retryable ("safe") or not. Any event can be delivered at any later time
and any number of times.

**IncomingJournal.** `row` is the table, with ids from `nextId`, `flight` and
`delivery` the worker between its `await`s, `detached` the handlers that passed
their deadline. `revoked` is the one-way latch of the flight's guard. A
`Context` is who authorised a step: the account for as long as it lives, or one
callback (or recovery retry) that ends; what it leaves in the intake is "gone".
Time is the ending of a row's lease, backoff, life or receipt, at any moment.
`log` holds every commit a handler makes. `Apply` is the one that carries the
checkpoint (`dbEventSink.ts:408`); `Owe` is one that does not: the handles and chats
of a message whose chat is missing (:381), the text of one whose send has no owner
yet (:407). Such a delivery ends in `Defer`, and its next attempt may commit again.
A handler stops without a commit in three ways that the drain must tell apart:
`Refuse` (the flight's guard is closed: nothing may be settled), `TurnAway` (the
guard is open, but the event is of another pairing or has nothing to apply: it
returns, and :283 of the drain completes the row) and `Doubt` (no server info: it
throws, and the row is deferred). `provider` is the server's pairing as far as it
is known; `PairingChanges` moves it between any two steps.

**AttachmentCache.** A path is one attachment's file. `row` is the ledger, `disk`
the directory, `flight` the download of each path and `sweep` the cleanup jobs
between their `await`s. `GateFree` is `runExclusive`: planning and claiming happen
in it, transfers and unlinks outside it. An admission is `Plan`, whose transaction
counts the ledger, and `Reserve`, whose transaction inserts the row without
counting again; anything that does not need the gate may come between them.
`reservation`, `settle` (retirement owners) and `pinned` are the coordinator's maps
and end with the process. `lost` are files that something outside the app removed
or emptied; what a recovery finds empty `Adopt` retires at once.

**AccountLifecycle.** `marker`, `vault` and `rows` survive; the rest ends with the
process. Each flow is a program counter over its awaits (`conn`, `cand`, `forget`,
`fin`, `boot`), and what passes its deadline goes to `late` or marks `fin` late.
Every native and server call may fail; the order of writes is the code's.

**ScheduledSends.** `rows` is the table by id, `mac` the Mac's items, `line` the
chain of runs with the stage of each, `sync` the reconciliation between GET and
merge, `op` the operation a screen is in. `went`, `floor`, `promised`, `unsure` and
`stale` are histories. An item's owner is told apart by the row's `on` (the
server's id). The Mac is external: it creates, lists, removes and fires.

## 3. Runs

Every passing run checks that the mutants of its properties are caught.

| run | instance | question |
|---|---|---|
| `queue_release` | release build: a fence, two transactions under it, a guarded stranger that may nest a claim; fair; 165k states | is a fenced sequence free of strangers, does revocation win, is a wedge reported if and only if there is one? |
| `queue_dev` | development build: a guarded transaction with two tasks, a nested claim, a write lock, a stray statement; fair; 415k | is exclusion kept when a claim is rejected, do tasks stay inside, is success all-or-nothing, does everyone leave? |
| `send_order` | four sends to three chats, two slots, the account closes and reopens; 0.7M | order per chat (refinement of `ChatTurns`), no idle slot, books that balance |
| `send_progress` | three sends, one slot, room for two, two pauses, three account generations; fair; 0.5M | does a resolved pause leave nothing running, does nothing cross accounts, is there no wedge though tasks may hang, does closing wait for running tasks only? |
| `send_states` | one message, two generations of requests, two server attempts, two crashes; fair | nothing stranded or orphaned, no outcome settles another attempt, deletion lasts, no bubble says "sending" for ever |
| `journal` | one or two events of one conversation with a provider, two pairings, two copies, two attempts, two upsets within a budget; 3.7M | is the commit that applies an event its last, though deferred deliveries commit before it; do commits keep the order of arrival; are effects the owner's; is only what is durable shown, and nothing completed that was neither dealt with nor turned away; do own flights keep a wake? |
| `cache_files` | two files over a cap of one, one cleanup job or recovery; 0.7M, depth 59 | are files charged, references and queued sends served, pins respected, admissions within the cap though the row is inserted after the count? |
| `account_lifecycle` | two servers, symmetric, every call failing, no bound; 4.2M | is forgotten final, is a session never a mixture, is no bearer orphaned, does nothing late land on a connected account? |
| `scheduled_letters` | one letter, two runs, one screen, two Mac items, one edit; 1.9M | once per turn, nothing withdrawn goes out, nothing promised is lost, no claim forgotten |
| `deleted_resent`, `old_overwrites`, `stranded_row` | | counterexamples, section 5 |

**Bounds.** The bounds cap what the environment may add, never what the code
does. In the queue two rivals and one nested pair show every overlap of two
holders, and the five callers of `queue_release` are the shortest program with a
stranger between two batches of a fence and a claim nested in it. `send_order`
has fewer slots than chats and two sends to one chat, so that blocking by chat
and by slot both occur. In OutgoingSend two generations are a first send and a
retry that supersedes it; two attempts are a server that forgot; two crashes are
one before and one after the claim of the same row; `MaxAttempts = 2` and
`MaxCycles = 2` make the ends of the ladder and of a second one reachable. In
the journal two events of one ordering key, symmetric, are the least that can be
out of order; `MaxCopies = 2` is two events, or one redelivered; `MaxUpsets = 2`
counts leaving the foreground or App Lock, a death, a delivery out of time, an
expiry, an unmarked commit and the end of a pairing together (learning one is
free). Its constraint `Budget` leaves out what needs two of three hardships at once
(`OneHardship`: both events about, two upsets, a context that ends), which would
take TLC well past its time, and what follows when no effect can (`Unsettled`).
So one event meets an unmarked commit and a death before the retry, or a pairing
that goes and another that comes; or a callback that ends under its flight; and two
events meet each upset once. `stranded_row` needs no such constraint. Tokens are
random in the code; there are enough that one is always left (`JournalAssumption`,
and `HandlersOK` in the proofs).
The journal's branch for a full receipt table is not reached at these bounds:
receipts leave by age first. In the cache two paths over a cap of one are the
least that makes an admission evict; a second cleanup job does not finish in the
time of a run. AccountLifecycle needs no bound: what survives is finite and each
flow is the only one of its kind. It is checked for safety only, since its size
leaves no room for liveness. In ScheduledSends two Mac items and three rows are
an item, its replacement by an edit, and a phone copy or a duplicate that
the reconciliation imports; two runs are one that overlaps its successor's wait; a
clock of one has a time before and one after an item is due. Its constraint
`Tracked` leaves out what follows a call that lost track of its own letter
(an answer lost and the check for it inconclusive), for which the code itself
promises nothing; section 5 says what happens there. Deadlock is not checked
(except in `account_lifecycle`, which has none): callers come to their end
and the bounded environments stop.

**Fairness**, and why the code justifies it.
* WriteQueue: callbacks, tasks, SQL statements and timers settle. Making a call,
  writing and revoking are free. A callback that hangs for ever is excluded
  here; that is what the watchdog reports, and the nested claim is the case of
  it that the code itself can cause.
* DeliveryLease: tracked work settles, because its network and native calls have
  deadlines. LogicalSendQueue drops that: tasks may hang, only continuations and
  the 20 s window run.
* OutgoingSend: grace, lease and backoff end; the drain runs (boot and a 20 s
  timer); a request ends, if by nothing else by the HTTP timeout of 30 s, which is
  shorter than the grace (60 s) and the lease (120 s), while a long upload is
  kept from being claimed by the upload registry; so `Claim` waits for requests
  in flight. An interrupted purge is resumed at boot (`bootstrap.ts:309`). The
  server, the user and the transports owe nothing.
* AttachmentCache, AccountLifecycle and ScheduledSends are checked for safety only.
* IncomingJournal is checked for safety only. `AccountFlightsWake` is the
  invariant behind its progress: a pending row always has a flight, timer or kick.
  The delivery deadline (90 s) is shorter than the row lease (120 s), but a lease
  may lapse at any time in the model.

## 4. Proofs

`WriteQueueProofs` proves, for any sets of callers, tasks, bystanders and fences,
any nesting and either build, from `CallerAssumption` (the sets are disjoint,
guards and parents are of their type, a fence has one capture):

| theorem | states | argument |
|---|---|---|
| `TypeCorrect` | `TypeOK` | one step per action |
| `QueueIsExclusive` | `MutualExclusion` | `TicketInv`: slots are distinct, the resolved ones are a prefix of the chain, a holder's predecessor has resolved and its own slot has not. Hence one slot is "next" and its owner is the only holder. Exclusion alone is not inductive: it says nothing of who may be granted next, in particular after a rejected claim. |
| `NoTaskEscapes`, `LockIsDurable` | `TasksStayInside`, `LockedWritesAreDurable` | `SqlInv`, on top of exclusion: a SQL transaction is open exactly while its owner is between BEGIN's answer and the end, a context admits work only while its callback runs, and a running task's owner is running or settling |
| `RevocationWins` | `RevokedNeverCommits` | once the lease is gone, a guarded caller that has not sent COMMIT is `Barred`, which every step keeps; `RejectedInv` covers a caller that left the queue early |
| `FenceHolds` | `FenceExclusive` | `FenceInv`: if a stranger has held the queue since the capture and the fence is still valid, either the stranger has not released yet, so nobody else can enter, or the count of releases has moved past the one the fence expects, so it refuses |
| `TransactionsAreAtomic` | `AllOrNothing` | `AtomInv`, on top of `SqlInv` and `RejectedInv`: a transaction's statements, its own and its tasks', are not issued before BEGIN has answered, are all inside the SQL transaction while it is open, and leave it together; whoever sends COMMIT is clean, and nothing can soil it afterwards because no task is running |

`DeliveryLeaseProofs` proves the barrier's safety for any work, pauses and number
of generations. `PauseDrains` (`DrainIsComplete`) needs `DrainInv`: work that a
waiting pause has retired is among what the pause awaits, since what is admitted
later is of the present generation. `WorkStaysInAccount` (`AdmittedByItsAccount`)
needs `OwnerInv`: a lease that could still be used was captured since the last
reopening. `DormantIsWoken` (`NoDormantSurvivor`) needs that nobody listens
before it has a lease. These are theorems of `LeaseSpec`; the steps that keep the
first two invariants are proved for `GateStep`, what any step does to the gate
whatever it does to listeners, so that a module built on the barrier can cite them.

`LogicalSendQueueProofs` proves every property of the `send_order` run for any
sends, chats, slots and retained sends, and that the barrier keeps its promises
under the queue:

| theorem | states | argument |
|---|---|---|
| `SendBooksAgree` | `TurnsAgree` | `QueueInv`: besides the books, seats are distinct and below the next one, and a send's turn agrees with its stage at the barrier. From distinct seats, of two waiting sends of a chat only the one ahead can start. Whoever waits has a live listener of the open generation, so a pause cancels everyone who waits and a reopening finds nobody. The retained count is that of a set that starts empty and gains one send at a time. |
| `SendSlotsAreUsed` | `WorkConserving` | `SlotInv`, with the bound on slots: the started send with the last seat found every other's chat taken and still a slot; the first send left behind has only sends with busy chats ahead of it, so with a slot free and its chat idle it would have started. First and last exist because inclusion of finite sets is well founded. |
| `ChatsKeepTheirOrder` | `KeepsChatOrder`: the queue implements `ChatTurns` | Each step is a step of every chat. A submission appends to its own chat's line or walks in, and starts nobody else: by `WorkConserving` whoever waited before still finds its chat busy or every slot taken (`OnlyTheNewStarts`). A release starts at most one send of a chat, the head of its line (`HeadStarts`), so the line loses its head or nothing. The close of the account empties every chat, which needs `ClaimInv`: whoever holds a claim still listens to the open generation. Sequences are compared by the number of seats up to an entry's own, which a last seat leaves alone (`LastInLine`) and the loss of the first lowers by one (`FirstInLine`). |
| `SendsAreDrained`, `SendsStayInAccount` | `DrainIsComplete`, `AdmittedByItsAccount` | each step of `SendSpec` is a `GateStep` |
| `SendsAreWoken` | `NoDormantSurvivor` | a send listens from the step that admits it, under a lease that is current, to the step that ends it or closes its account |

`OutgoingSendProofs` proves the invariants of `send_states` for any number of
requests, server attempts, crashes, attempts per ladder and rebuilt ladders, from
`BoundsAssumption` (each is a natural number, and all but crashes and rebuilt
ladders are positive). One inductive invariant, `SendInv`, carries all of them:

| theorem | states | part of `SendInv` it follows from |
|---|---|---|
| `LaddersAreOwned` | `LadderHasBubble`, with `TypeOK` | `Tables`: a bubble has one name at a time, the temporary guid until an alias replaces it; only the named row is sent, counted and settled, the others are copies; "sent" and the deletion of the temporary row end the ladder. `OpenInv`: while the chat is there, the named row is. |
| `NoBubbleIsStranded` | `NothingStranded` | `Recoverable`: a visible "sending" row has its ladder, or a purge that has stamped it will take it |
| `CancellingIsFinal` | `CancelledIsFinal` | `Silent`: nothing is visible and a name of the message is in the deletion ledger. Invisible alone is not inductive: what hides the bubble that arrives later is the ledger, handed from the temporary guid to the alias. |
| `FailuresStick`, `SentMeansAttempted` | `FailureSticks`, `SentIsProven` | `Settling`: the named row has its `Fence`, or a purge took the chat and the row is `Spent`. `Fence` sets the row against requests, attempts and applied failures: a request that may still reach the network is of the row's generation and awaited, nothing is newer than the row, an awaited row has no failure of its own generation, a row with a local failure has no answer outstanding. Without the last two an acknowledgement could settle what a failure had already settled. |

Each transaction has a lemma that says what it leaves in the tables (`ExactFields`,
`PromoteFields`, `UpsertFields`, ...), each action one that it keeps `SendInv`.
A purge takes the named row and with it the generation counter the fence rests on,
and a late success can give the bubble back beside requests of its first life.
`Spent` says why that does no harm: such a row awaits nothing and never gets a
ladder, hence no further generation. The acknowledgement of a purged bubble gives it
back hidden, and `reEnqueueOutgoingFromMessage` rebuilds for no hidden row; the live
copy may give it back visible, but an attempt with a copy never fails retryably
(`ServerInv`, from the server's side of the model).

`AttachmentCacheProofs` proves every invariant of `cache_files`, for any
attachments, cleanup jobs and cap, from one inductive invariant, `CacheInv`:

| theorem | states | what it rests on |
|---|---|---|
| `FilesAreCharged` | `EveryFileIsCharged` | `ChargeInv`: every file has a row, or is on the list of the recovery that is about to give it one. To keep it, no row may go while its file may still be written or has not been unlinked: `ReservationInv` (a reservation belongs to a flight or to the transfer it abandoned, and its row stays) and `OwnerInv` (who settles a retirement owns a charged path that nobody fills). |
| `ReferencesAreServed` | `ReferencesHold` | itself, with `BatchInv` (a batch about to be claimed holds nothing reserved or pinned) and `RecoveryInv` (downloads run only after the first recovery) |
| `PinsAreHonoured` | `PinnedFileStays` | `BatchInv`, which `GateInv` protects: one holder of the exclusive section at a time |
| `CapIsKept` | `AdmissionsKeepTheCap` | `RoomInv`: a download that has planned and not yet reserved, and is still live, finds the room it counted. Two things could take it. Another admission is kept out by the exclusive section (`GateInv`). A startup recovery adopts files outside that section: `BootInv` says that a live download has waited for it, and that one recovery runs at a time. Every other step charges no new path. The bound alone is not inductive: it says nothing of a count whose row is still to come. |

`IncomingJournalProofs` proves every property of `journal`, for any
finite set of events, any ordering keys, epochs and pairings, any bound on attempts, capacities, callbacks and
upsets, from `JournalAssumption` and from rows and deliveries being told apart
from their absence (`NoRecords`). One inductive invariant, `JournalInv`:

| theorem | states | part of `JournalInv` it rests on |
|---|---|---|
| `NothingCommitsAfterApplied` | `AppliedLast` | `LogOK` and `OnceOK`: an event that has committed anything has a row of that receipt, marked if it was applied, or can no longer be redelivered, because a receipt is evictable only after the event's envelope expired. `CommitOK`: a delivery that may still commit has the receipt of its event's earlier commits, and its event has not been applied. An unmarked commit looks at no lease, so this must hold of a delivery whose lease is lost as well; it does because the flight has one delivery at a time, and those past their deadline are revoked (`HandlersOK`). |
| `WritesFollowArrival` | `AppliesInArrivalOrder` | `RowOK` (ids go up as tickets do), `IntakeOK` (what waits is newer than the table and the log), `LogOK` (a row still to be applied is newer than the log of its key), `DeliveryOK` (the row about to be applied is the oldest of its key that has not been). The claim's two NOT EXISTS establish the last; it survives until the COMMIT because new rows are never older. `CommitOK` says the same of what a delivery may still commit without its lease. |
| `PresentedIsDurable`, `CompletedWasDealtWith` | `NotifiedIsApplied`, `CompletedIsDone` | `DeliveryOK`: past the database phase, the event was applied or the flight has latched its closed guard; a delivery that "returned" has presented, one that was "refused" is among the events turned away. Without the latch the claim is false for a lock that opens again; if an unknown pairing counted as a return, it is false of a push in a killed app. |
| `AccountLeavesNoRowAsleep` | `AccountFlightsWake` | `WakeOK`, and the lemma that some row is the head of its key whenever a row is pending: the least id of those not applied, or of all |
| `OnlyTheOwnerActs` | `EffectsByOwner` | `HandlersOK`: handlers past their deadline are revoked |

`Wears` relates two tables of which the second is the first with rows settled,
lapsed or evicted; every operation but the insertion, the checkpoint and the
ageing of a receipt is one, and what wears keeps the invariant.

`AccountLifecycleProofs` proves every property of `account_lifecycle`, for any
servers, from `NoneIsNoAccount` alone: nothing in the flows bounds them. One
inductive invariant, `Inv`, relates the flows to what survives them; TLC found it
invariant on two servers before it was proved.

| theorem | states | what it rests on |
|---|---|---|
| `ForgottenIsFinal`, `PublishedIsOneAccount` | `ForgottenStaysForgotten`, `OneAccountPublished` | `ReadyInv`: a pair that a start would take for usable, as the store has it now or as a running start has read it, is of one account, not gone, whose rows are all there is. A candidate overwrites the pair one key at a time, so `VaultInv` follows the order of its writes, and `FlowInv` what excludes it meanwhile. `OwnInv` says the same of whoever may publish or write next. |
| `BearerIsNeverOrphaned` | `BearerStaysInCustody` | `OwnInv` (a bearer that is still owed is the saved pair's) and `SweepInv`: a Forget that has not failed has nothing late behind it, has drained the candidate before it drops the pair, and has revoked every bearer it drops |
| `PublishedIsKept` | `ConnectedIsKept` | `KeptInv`: while a connected account is there, no flow runs that could change its pair or its rows; a start that reads the store finds it active |

`ScheduledSendsProofs` proves the four properties of `scheduled_letters`, for any
letters, runs, screens, rows, items, times, versions and attempts, from
`ScheduledAssumption` and `NoRecords`:

| theorem | states | argument |
|---|---|---|
| `ClaimsStayAccounted` | `ClaimsAccounted` | `Inv`: a run is in line once and works only when it is first (`LineInv`), so one run at a time holds a claim, and the owner's calls and the reconciliation leave rows that are being sent alone (`SendingKept`). A row's turn never exceeds its time (`FitRow`), which bounds the turns. |
| `TurnsGoOutOnce`, `WithdrawnStaysIn` | `OncePerTurn`, `NothingWithdrawnGoesOut` | `SoleInv`: of a letter at most one holder, a row of the phone's or an item of the Mac's, has anything left to send; it is newer than every other item, at or above the floor, and none of its turns to come went out. `CallInv` is what each of the owner's calls knows at each stage: a new letter has at most the one item that its look will find, an edit between removal and commit leaves nobody with anything to send, and the row a screen was opened on is the phone's own version of it. |
| `PromisedIsShown` | `NothingIsLost` | `ShownInv` and `AbsentInv`: a row of the Mac's shows the version of its item, and an item exposed before the request and absent from the answer had been removed, so a prune takes no row that shows a live item |
| `OneScreen` | all three | with one screen, as in the run, the condition below holds |

The last three properties are proved of behaviours in which no two of the owner's
calls are about the same letter at once (`Apart`), and of all behaviours when there
is one screen. The condition is needed: TLC finds `NothingWithdrawnGoesOut` violated with two
screens, when one cancels a row that the reconciliation imported while the other's
schedule is still looking for the copy whose answer it lost. Nothing in the
service excludes that; only the screens do. `Calm` is the proof's measure of what
leaves a letter alone: a step that gives nobody anything of it to send. Every step
is calm for all letters but its own, and a calm step keeps `SoleInv` and `CallInv`;
each action then answers for its own letter only.

Model-checked alone is what needs fairness (`EveryClaimSettles`, `WatchdogIsRight`,
`NoWedge`, `DrainWaitsForTasks`, `BubbleSettles`): liveness and ENABLED are beyond
the prover. Every other property of a passing run is stated by a theorem. No
module uses RECURSIVE operators.

## 5. Where code and documents disagree

* **`deleted_resent`.** `outgoingClaims.ts:56` and `messages.ts:1042` say a ladder
  must not outlive the deletion of its message. When a server failure came
  before the acknowledgement and the live copy then promoted the bubble with its
  error, the bubble has the canonical guid and the queue row the temporary one:
  Delete hides the first and leaves the second, and the drain re-sends it.
* **`old_overwrites`.** `docs/APP_SERVER_PARITY.md:321` says an old attempt cannot
  overwrite a newer one. A success whose canonical guid is disputed settles the
  row without installing its attempt (`outgoingIdentity.ts:36`), so a repeated
  failure of the previous attempt relabels the sent bubble.
* **`stranded_row`.** `incomingEventDrain.ts:116` and `realtimeControl.ts:294` rely
  on the wake of a kick that joined a flight. If a push callback started the
  flight, the foreground's kick joined it and the callback then ended, the wake
  is dropped with the flight's context and the row waits for the next event or
  resume.

Two observations of the models that no run turns into a finding. Between a chat's
deletion stamp and its purge a late retryable failure can rebuild a ladder that
the purge orphans; the claim retires it, as the branch at `outgoingRetry.ts:996`
("supposed to be impossible") does, so `LadderHasBubble` is stated for an open
chat. And a deferred claim does not keep every older acknowledgement stale
(`outgoingRetry.ts:921`): the echo of the attempt whose failure the row still
carries settles it, which `SentIsProven` allows for explicitly.

Of the cache. `conformCurrentQuota` returns early
(`attachmentCacheCoordinator.ts:287`) and leaves the rest of its batch owned in
memory by a job that is over, although :567 wants every owner to hand its batch
back: the row stays "retiring" and undrained until the process ends. And
`drainDueRetirements` looks at the protections before its `await` and takes
ownership after it: a pin taken in between is honoured by `protect()` though the
file is then unlinked. `PinnedFileStays` therefore speaks of files that are still
active when they are pinned.

Of the journal. A message whose chat or send owner is missing commits its handles,
chats or text without the checkpoint (`dbEventSink.ts:381`, :407) and commits them
again on every retry. These are upserts of the same payload, and `AppliedLast` and
`AppliesInArrivalOrder` say that they come before the commit that applies the event
and after every older event of the conversation. "Applied once" is true of the
checkpointed commit only.

Of the account. `lastSuccessfulForgetEpoch` lets a connect skip its cleanup
(`connect.ts:96`): it is kept as proof that the current epoch was swept
(`accountLifecycleState.ts:24`). An attempt that commits its candidate and is never
published moves no epoch and leaves that proof stale, so that another account,
connected in the same process, overwrites the candidate's bearer, which nobody
revokes, although `connect.ts:71` has a different account wait for a Disconnect.
`BearerStaysInCustody` therefore follows a bearer from its publication by a connect;
one that boot publishes first, of a candidate whose connect died, is outside its
history. When marker and store both refuse the gate of a forget, its fallback drops
the pair and the bearer with it. Boot does not ask `accountCleanupQuarantine`, which
the model keeps.

Of scheduled sends. `findServerScheduledCopy` (`scheduleService.ts:282`) keeps the
phone's copy after `no_connection` and an unreadable list, as :266 says the
message never reached the Mac; but `core/api/http.ts:688` gives that kind to every
failed fetch, also one dropped after the Mac stored the message, and then both
send. `editScheduled` (`scheduledSends.ts:288`) falls back to a phone copy on any
failure of the re-create, with the same end. These letters are the `unsure` ones.
An edit or cancel whose DELETE landed without an answer leaves a row of an item
that is gone until a reconciliation prunes it; a reconciliation can import an item that was
cancelled between its GET and its merge; and a row left in "sending" by a refused
release stays so until the next start.

## 6. Not modelled, in the modelled parts

* WriteQueue: the nesting detector, which only tests install.
* OutgoingSend: rows without an attempt guid and their matching by content;
  one-shot kinds; unmarked copies; conflicts across chats; pruning of aliases;
  reply targets; server deletion verdicts. One message at a time: messages share
  only the queue's pacing.
* IncomingJournal: recovery syncs, events without a database phase, the
  development intake, the codec, byte budgets, what each event writes, liveness
  of the drain. A transport is assumed not to repeat an event after the
  protection of its receipt ended, which the life of the authenticated envelope
  guarantees. Why an event has nothing to apply (no guid, no candidates, an owner
  of another provider) is not modelled: any delivery that is not in doubt may be
  turned away before its commit. An event names one epoch or none. Two looks at the
  pairing with no I/O between them are one step.
* AttachmentCache: the paged repair, and with it a startup recovery that waited
  behind a repair and then adopts files while downloads run; replacement downloads,
  pasted files and Photos copies; a file replaced under the same path. Which files
  were emptied, and not removed, is chosen when the recovery reads them; the size
  check of a forwarded file and the insertion of its row are one step. `Record`
  waits for the gate as a whole, of which the code needs it only to drop the owner. A batch is settled file by file. What the
  recency order, the free space and the retry times are is left open. A native
  answer is taken as of its arrival, and a re-use may find any stored file.
* AccountLifecycle: the upgrade journal beyond absent and revoked; a change of
  address; FCM, uploads, downloads, notifications, media, shortcuts and logs, which
  are one other step of the forget that may fail. The connect gate reads the keys
  at once, the boot in the code's two steps. Whoever waits for a forget is woken
  in one step. A failed boot is retried by the user. A sync's last writes are not
  guarded, as `accountCleanup.ts:760` says.
* ScheduledSends: cancellation from another device; RCS pairing guards, which are
  a deferral; injected senders of the development build; legacy reply rows and
  corrupt payloads, retired at the claim; letters with the same text; overlapping
  reconciliations; changes of account. A request whose answer is lost was
  handled before the next one or never. The list of due rows is read with the
  claim. Other items of the Mac's list are one bit. With two screens on one row
  at once a phone copy can follow a cancellation; the instance has one.
* Hazards without a property in `PROJECT.json` say why: statements that bypass the
  queue (the queue cannot prevent them), and components not modelled yet.

## 7. Plan

In this order; the modules above are done.

1. `CredentialUpgrade` over AccountLifecycle's store: journal, bearer and custody
   record, with crash and resume at every write. Abstract specification: a
   handover that is atomic to an observer after recovery.
2. `SyncEngine`: page, cursor, tombstone and fenced repair, refining "the phone
   has seen a prefix of the server's history".
3. Journal capacity and liveness: a full receipt table, and that every event
   settles while the app is in front.
4. The boot coordinator, `ShareIntake`, `NotificationHistory`, reminders, one-shot
   sends in `OutgoingSend`, background sync.

Runs are merged as modules are added where one instance can answer two
questions; `send_order` and `send_progress` cannot, since four sends with
liveness take too long.

Every safety property of the runs has its theorem; those of the modules to come
follow the same order, the invariant checked first.
