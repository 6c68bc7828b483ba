---------------------------- MODULE OutgoingSend ----------------------------
(***************************************************************************)
(* One outgoing RCS message in one chat: its optimistic bubble under a     *)
(* temporary guid, the durable queue row that re-sends it, the requests    *)
(* that carry it, the server's attempts, and the events those produce.     *)
(*                                                                         *)
(* Every database transaction is one operator from the four tables it      *)
(* reads and writes to the tables it leaves: the write queue (module       *)
(* WriteQueue) makes it atomic.  Between transactions anything may happen: *)
(* requests overlap, events arrive late, twice and in any order, the user  *)
(* deletes, the process dies.                                              *)
(*                                                                         *)
(* Guids are numbers: 0 is the temporary guid, a is the canonical guid the *)
(* provider gives to the server's attempt a.                               *)
(***************************************************************************)
EXTENDS Integers, FiniteSets

CONSTANTS MaxGeneration,      \* requests there can be (bounds the model)
          MaxServerAttempts,  \* attempts the server can make (bounds the model)
          MaxCrashes,         \* process deaths (bounds the model)
          MaxAttempts,        \* OUTGOING_MAX_ATTEMPTS
          MaxCycles           \* MAX_REQUEUE_CYCLES

ASSUME BoundsAssumption ==
  /\ {MaxGeneration, MaxServerAttempts, MaxAttempts} \subseteq Nat \ {0}
  /\ {MaxCrashes, MaxCycles} \subseteq Nat

Temp        == 0
NoGuid      == -1
Guids       == 0 .. MaxServerAttempts
Attempts    == 1 .. MaxServerAttempts
Generations == 1 .. MaxGeneration
NoAttempt   == 0
Failed      == {"localError", "serverError"}

VARIABLES db,         \* the tables: messages, aliases, deletion ledger, queue
          chat,       \* the chat's deletion: "open", "deleting", "deleted"
          old,        \* the rows there when its history was stamped
          request,    \* the HTTP request of each generation
          attempt,    \* the server's attempts
          cycles,     \* requeueCycles: ladders rebuilt by this process
          crashes,    \* process deaths so far
          heard,      \* history: attempts whose failure was applied
          cancelled   \* history: a discard left no bubble of this message

vars == <<db, chat, old, request, attempt, cycles, crashes, heard, cancelled>>

Gone    == [state |-> "gone", generation |-> 0, pending |-> FALSE,
            active |-> NoAttempt, hidden |-> "no"]
NoQueue == [attempts |-> -1, due |-> FALSE, lease |-> 0]

There(d, x)   == x \in Guids /\ d.rows[x].state # "gone"
Shown(d, x)   == There(d, x) /\ d.rows[x].hidden = "no"
HasLadder(d)  == d.queue # NoQueue
Dequeue(d)    == [d EXCEPT !.queue = NoQueue]
GiveUp(d)     == IF HasLadder(d) THEN [d EXCEPT !.queue.attempts = MaxAttempts] ELSE d
Made(a)       == attempt[a].generation > 0
InFlight(g)   == request[g].at \in {"ready", "wire", "answered"}

(***************************************************************************)
(* findAttemptOwnerSnapshot: the temporary row, else the row its alias     *)
(* names, else (only without an alias) the row the caller names.           *)
(***************************************************************************)
Owner(d, fallback) ==
  IF There(d, Temp) THEN Temp
  ELSE IF d.alias # NoGuid THEN IF There(d, d.alias) THEN d.alias ELSE NoGuid
  ELSE IF There(d, fallback) THEN fallback ELSE NoGuid

(***************************************************************************)
(* The durable tables when the optimistic insert has committed: bubble and *)
(* queue row together, generation 1, and its request about to start.       *)
(***************************************************************************)
Init ==
  /\ db = [rows   |-> [x \in Guids |-> IF x = Temp
                         THEN [Gone EXCEPT !.state = "sending", !.generation = 1,
                                           !.pending = TRUE]
                         ELSE Gone],
           alias  |-> NoGuid,
           ledger |-> {},
           queue  |-> [attempts |-> 0, due |-> FALSE, lease |-> 0]]
  /\ chat = "open" /\ old = {}
  /\ request = [g \in Generations |->
                  [at |-> IF g = 1 THEN "ready" ELSE "none", answer |-> NoAttempt,
                   before |-> "sending", auto |-> FALSE]]
  /\ attempt = [a \in Attempts |-> [generation |-> 0, copied |-> FALSE, failed |-> "no"]]
  /\ cycles = 0
  /\ crashes = 0
  /\ heard = {}
  /\ cancelled = FALSE
-----------------------------------------------------------------------------
(***************************************************************************)
(* The server, as the client's documentation and handlers describe it: it  *)
(* replays a remembered attempt for the same temporary guid or makes a new *)
(* one, answers at once, and relays and fails in the background.           *)
(***************************************************************************)
Latest == Cardinality({a \in Attempts : Made(a)})

Accept(g, a) ==
  request' = [request EXCEPT ![g].at = IF @ = "wire" THEN "answered" ELSE "done",
                             ![g].answer = a]

ServerReplays(g) ==
  /\ request[g].at \in {"wire", "ghost"}
  /\ Latest > 0 /\ attempt[Latest].failed = "no"
  /\ Accept(g, Latest)
  /\ UNCHANGED <<db, chat, old, attempt, cycles, crashes, heard, cancelled>>

ServerAttempts(g) ==
  /\ request[g].at \in {"wire", "ghost"}
  /\ Latest < MaxServerAttempts
  /\ attempt' = [attempt EXCEPT ![Latest + 1].generation = g]
  /\ Accept(g, Latest + 1)
  /\ UNCHANGED <<db, chat, old, cycles, crashes, heard, cancelled>>

ServerRelays(a) ==
  /\ Made(a) /\ ~attempt[a].copied /\ attempt[a].failed # "safe"
  /\ attempt' = [attempt EXCEPT ![a].copied = TRUE]
  /\ UNCHANGED <<db, chat, old, request, cycles, crashes, heard, cancelled>>

\* "safe" is retryable: the server certifies that nothing was dispatched.
ServerFails(a, how) ==
  /\ Made(a) /\ attempt[a].failed = "no"
  /\ how = "safe" => ~attempt[a].copied
  /\ attempt' = [attempt EXCEPT ![a].failed = how]
  /\ UNCHANGED <<db, chat, old, request, cycles, crashes, heard, cancelled>>
-----------------------------------------------------------------------------
(***************************************************************************)
(* Success.  handover gives the canonical guid the alias and whatever      *)
(* deletion either identity carries; hiding inherited from the chat is not *)
(* carried.                                                                *)
(***************************************************************************)
Handover(d, x) ==
  IF d.ledger \cap {Temp, x} = {} /\ d.rows[Temp].hidden # "message"
  THEN [d EXCEPT !.alias = x]
  ELSE [d EXCEPT !.alias = x,
                 !.ledger = (@ \union {x}) \ {Temp},
                 !.rows[Temp].hidden = IF There(d, Temp) THEN "message" ELSE @]

\* Mutant: a confirmation clears the error an earlier report left.
SettledAnyway(r, sticky) == [r EXCEPT !.pending = FALSE, !.state = "sent"]

\* The send_state a confirmed attempt leaves on its row: a sticky error stays.
Settled(r, sticky) ==
  [r EXCEPT !.pending = FALSE, !.state = IF sticky THEN @ ELSE "sent"]

EndLadder(d, sticky) == IF sticky THEN d ELSE Dequeue(d)

\* Mutant: the row is renamed and nothing remembers its temporary guid.
PromoteUnaliased(d, a, x, sticky) ==
  EndLadder([d EXCEPT !.rows[x] = [Settled(d.rows[Temp], sticky) EXCEPT !.active = a],
                      !.rows[Temp] = Gone], sticky)

(***************************************************************************)
(* The temporary row becomes the canonical one, or is merged into the copy *)
(* that arrived first.                                                     *)
(***************************************************************************)
Promote(d, a, x, sticky) ==
  LET h    == Handover(d, x)
      temp == h.rows[Temp]
      base == IF There(d, x) THEN h.rows[x] ELSE temp
      row  == [Settled(temp, sticky) EXCEPT
                 !.active = a,
                 !.hidden = IF temp.hidden = "message" THEN "message" ELSE base.hidden]
  IN  EndLadder([h EXCEPT !.rows[x] = row, !.rows[Temp] = Gone], sticky)

(***************************************************************************)
(* A success whose bubble is gone: a live event recreates it, hidden, only *)
(* when a deletion or an alias reserved the identity.                      *)
(***************************************************************************)
Recreate(d, a, g, x) ==
  IF (d.alias = NoGuid /\ Temp \notin d.ledger) \/ d.alias \notin {NoGuid, x} THEN d
  ELSE LET h == Handover(d, x)
       IN  Dequeue([h EXCEPT !.rows[x] =
             [state |-> "sent", generation |-> g, pending |-> FALSE, active |-> a,
              hidden |-> IF x \in h.ledger THEN "message" ELSE "no"]])

(***************************************************************************)
(* reconcileExactOutgoingAttemptSuccessCore: attempt a of generation g     *)
(* succeeded under guid x.  Only the pending generation, or the attempt    *)
(* already installed, is let in; an error is kept when the caller is the   *)
(* HTTP acknowledgement or the attempt was settled before.                 *)
(***************************************************************************)

\* Mutant: whatever succeeds first settles a pending row.
StaleUnlessPending(r, a, g) == ~r.pending /\ r.active # a
Stale(r, a, g) == IF r.pending THEN r.generation # g ELSE r.active # a

Exact(d, a, g, x, keepError) ==
  LET o      == Owner(d, x)
      r      == d.rows[o]
      sticky == r.state \in Failed /\ (~r.pending \/ keepError)
      mine   == o \in {Temp, x} /\ (o = Temp /\ x # Temp => d.alias \in {NoGuid, x})
  IN  IF o = NoGuid THEN Recreate(d, a, g, x)
      ELSE IF Stale(r, a, g) THEN d
      ELSE IF ~mine THEN EndLadder([d EXCEPT !.rows[o] = Settled(r, sticky)], sticky)
      ELSE IF o # x THEN Promote(d, a, x, sticky)
      ELSE IF r.pending
           THEN EndLadder([d EXCEPT !.rows[o] = [Settled(r, sticky) EXCEPT !.active = a]],
                          sticky)
      ELSE d

(***************************************************************************)
(* upsertMessages of the provider's own copy: withheld from a guid the     *)
(* alias gives to another, born hidden when a deletion reserved either     *)
(* identity, or when it is dated inside the chat's deleted history.        *)
(***************************************************************************)
Upsert(d, a, past) ==
  LET deleted == d.ledger \cap {Temp, a} # {}
      was     == d.rows[a].hidden
      hidden  == IF deleted \/ was = "message" THEN "message"
                 ELSE IF past THEN "chat" ELSE was
      row     == IF There(d, a) THEN d.rows[a] ELSE [Gone EXCEPT !.state = "sent"]
  IN  IF d.alias \notin {NoGuid, a} THEN d
      ELSE [d EXCEPT !.rows[a] = [row EXCEPT !.hidden = hidden],
                     !.ledger = IF deleted THEN @ \union {a} ELSE @]

\* Mutant: any answer ends the ladder, a superseded request's too.
AcknowledgedByAny(d, a, g) ==
  LET o == Owner(d, NoGuid)
  IN  Dequeue(IF o # NoGuid THEN Exact(d, a, g, o, TRUE) ELSE d)

(***************************************************************************)
(* reconcileOutgoingAttemptAck.  RCS echoes the temporary guid, so the     *)
(* owner's own guid is settled; a purged bubble is recreated inside the    *)
(* deleted history, unless an alias survives it.                           *)
(***************************************************************************)
Acknowledged(d, a, g) ==
  LET o == Owner(d, NoGuid)
  IN  IF o # NoGuid THEN Exact(d, a, g, o, TRUE)
      ELSE IF d.alias # NoGuid THEN Dequeue(d)
      ELSE Dequeue([d EXCEPT !.rows[Temp] =
             [state |-> "sent", generation |-> g, pending |-> FALSE, active |-> a,
              hidden |-> IF Temp \in d.ledger THEN "message" ELSE "chat"]])
-----------------------------------------------------------------------------
(***************************************************************************)
(* Failure.  reconcileOutgoingErrorForMessage marks row x and bumps the    *)
(* ladder, unless the same error is there already; without a ladder it     *)
(* never relabels a sent row.                                              *)
(***************************************************************************)
Errored(d, x, code) ==
  IF ~HasLadder(d)
  THEN [d EXCEPT !.rows[x].state = IF @ = "sent" THEN @ ELSE code]
  ELSE IF d.queue.attempts > 0 /\ d.rows[x].state = code THEN d
  ELSE [d EXCEPT !.rows[x].state = code,
                 !.queue = [attempts |-> IF @.attempts < MaxAttempts THEN @.attempts + 1
                                                                     ELSE @.attempts,
                            due |-> FALSE, lease |-> 0]]

\* Mutant: a ladder is rebuilt for a tombstoned bubble.
MayRebuildDeleted(d, x, safe) == safe /\ ~HasLadder(d) /\ cycles < MaxCycles

\* reEnqueueOutgoingFromMessage: when the server's failure may rebuild a ladder.
MayRebuild(d, x, safe) ==
  /\ safe /\ ~HasLadder(d)
  /\ cycles < MaxCycles
  /\ d.rows[x].hidden = "no"

RebuiltLadder == [attempts |-> 1, due |-> FALSE, lease |-> 0]
-----------------------------------------------------------------------------
\* The request of generation g reaches the network.
Start(g) ==
  /\ request[g].at = "ready"
  /\ request' = [request EXCEPT ![g].at = "wire"]
  /\ UNCHANGED <<db, chat, old, attempt, cycles, crashes, heard, cancelled>>

\* Its answer is recorded.
Acknowledge(g) ==
  /\ request[g].at = "answered"
  /\ db' = Acknowledged(db, request[g].answer, g)
  /\ request' = [request EXCEPT ![g].at = "done"]
  /\ UNCHANGED <<chat, old, attempt, cycles, crashes, heard, cancelled>>

(***************************************************************************)
(* It fails here: refused, timed out, cancelled, or its answer lost.  Only *)
(* the pending generation may write.  The server may still get it.         *)
(***************************************************************************)
FailLocally(g) ==
  /\ InFlight(g)
  /\ LET o == Owner(db, NoGuid)
     IN  db' = IF o # NoGuid /\ db.rows[o].pending /\ db.rows[o].generation = g
               THEN Errored(db, o, "localError") ELSE db
  /\ request' = [request EXCEPT ![g].at = IF @ = "wire" THEN "ghost" ELSE "done"]
  /\ UNCHANGED <<chat, old, attempt, cycles, crashes, heard, cancelled>>

\* A commit guard refuses: the account or its capabilities moved on, and the
\* request ends without a word in the tables.
Abandon(g) ==
  /\ InFlight(g)
  /\ request' = [request EXCEPT ![g].at = IF @ = "wire" THEN "ghost" ELSE "done"]
  /\ UNCHANGED <<db, chat, old, attempt, cycles, crashes, heard, cancelled>>

(***************************************************************************)
(* The drain's claim is undone when the capability goes before the network *)
(* starts: nothing happens unless the lease is still this claim's, and the *)
(* transaction rolls back unless its row still is.                         *)
(***************************************************************************)
Defer(g) ==
  /\ request[g].at = "ready" /\ request[g].auto
  /\ LET o == Owner(db, NoGuid)
         mine == /\ db.queue.lease = g
                 /\ o # NoGuid
                 /\ db.rows[o].state = "sending" /\ db.rows[o].pending
                 /\ db.rows[o].generation = g
     IN  db' = IF mine
               THEN [db EXCEPT !.queue.due = TRUE, !.queue.lease = 0,
                               !.rows[o].state = request[g].before,
                               !.rows[o].pending = FALSE]
               ELSE db
  /\ request' = [request EXCEPT ![g].at = "done"]
  /\ UNCHANGED <<chat, old, attempt, cycles, crashes, heard, cancelled>>

\* A re-send whose file is gone: retireOutgoing caps the ladder for good.
Retire(g) ==
  /\ request[g].at = "ready" /\ g > 1
  /\ LET hit(x) == x \in {Temp, db.alias} /\ db.rows[x].state \notin {"gone", "sent"}
     IN  db' = [GiveUp(db) EXCEPT !.rows =
                  [x \in Guids |-> IF hit(x) THEN [db.rows[x] EXCEPT !.state = "localError"]
                                             ELSE db.rows[x]]]
  /\ request' = [request EXCEPT ![g].at = "done"]
  /\ UNCHANGED <<chat, old, attempt, cycles, crashes, heard, cancelled>>
-----------------------------------------------------------------------------
\* Mutant: only a row that failed before is retryable, not one never answered.
ElapseAfterFailure ==
  /\ db.queue.attempts \in 1 .. MaxAttempts - 1 /\ ~db.queue.due
  /\ db' = [db EXCEPT !.queue.due = TRUE]
  /\ UNCHANGED <<chat, old, request, attempt, cycles, crashes, heard, cancelled>>

\* Grace, lease or backoff runs out: the row becomes retryable.
Elapse ==
  /\ HasLadder(db) /\ ~db.queue.due /\ db.queue.attempts < MaxAttempts
  /\ db' = [db EXCEPT !.queue.due = TRUE]
  /\ UNCHANGED <<chat, old, request, attempt, cycles, crashes, heard, cancelled>>

\* A row takes the next generation and its request is ready to start.
NextGeneration(d, o, auto) ==
  LET g == d.rows[o].generation + 1
  IN  /\ d.rows[o].generation \in 1 .. MaxGeneration - 1
      /\ db' = [d EXCEPT !.rows[o].state = "sending", !.rows[o].pending = TRUE,
                         !.rows[o].generation = g, !.queue.lease = g]
      /\ request' = [request EXCEPT ![g] =
           [at |-> "ready", answer |-> NoAttempt, before |-> d.rows[o].state,
            auto |-> auto]]

(***************************************************************************)
(* The drain claims the row: lease and visible flip together.  A row whose *)
(* owner is gone is retired instead of being sent blind.  Waits, leases    *)
(* and backoffs outlast a request, and the registry covers a long upload.  *)
(***************************************************************************)
Claim ==
  /\ HasLadder(db) /\ db.queue.due /\ db.queue.attempts < MaxAttempts
  /\ \A g \in Generations : ~InFlight(g)
  /\ LET o == Owner(db, NoGuid)
     IN  IF o = NoGuid THEN db' = GiveUp(db) /\ UNCHANGED request
         ELSE NextGeneration([db EXCEPT !.queue.due = FALSE], o, TRUE)
  /\ UNCHANGED <<chat, old, attempt, cycles, crashes, heard, cancelled>>

\* Try Again on bubble x: a compare-and-set on its error, and a fresh ladder.
TryAgain(x) ==
  /\ Shown(db, x) /\ x \in {Temp, db.alias} /\ HasLadder(db)
  /\ db.rows[x].state \in Failed
  /\ NextGeneration([db EXCEPT !.queue.attempts = 0, !.queue.due = FALSE],
                    Owner(db, NoGuid), FALSE)
  /\ UNCHANGED <<chat, old, attempt, cycles, crashes, heard, cancelled>>
-----------------------------------------------------------------------------
\* The live copy of attempt a: reconciled as a success, then stored.
DeliverSuccess(a) ==
  /\ attempt[a].copied
  /\ \E past \in {FALSE, chat # "open"} :
       db' = Upsert(Exact(db, a, attempt[a].generation, a, FALSE), a, past)
  /\ UNCHANGED <<chat, old, request, attempt, cycles, crashes, heard, cancelled>>

(***************************************************************************)
(* applyServerSendError: the failure of attempt a, by socket, push or the  *)
(* journal's retry.  Where no attachment can be read back nothing is       *)
(* rebuilt.                                                                *)
(***************************************************************************)
DeliverFailure(a) ==
  /\ attempt[a].failed # "no"
  /\ LET o == Owner(db, NoGuid)
     IN  IF o = NoGuid
         THEN /\ db' = IF db.alias # NoGuid THEN Dequeue(db) ELSE db
              /\ UNCHANGED <<cycles, heard>>
         ELSE /\ ~Stale(db.rows[o], a, attempt[a].generation)
              /\ LET d == Errored([db EXCEPT !.rows[o].active = a, !.rows[o].pending = FALSE],
                                  o, "serverError")
                     marked == [d EXCEPT !.rows[o].state = "serverError"]
                 IN  \/ /\ db' = marked
                        /\ UNCHANGED cycles
                     \/ /\ MayRebuild(d, o, attempt[a].failed = "safe")
                        /\ db' = [marked EXCEPT !.queue = RebuiltLadder]
                        /\ cycles' = cycles + 1
              /\ heard' = heard \union {a}
  /\ UNCHANGED <<chat, old, request, attempt, crashes, cancelled>>
-----------------------------------------------------------------------------
\* markMessageDeleted: the receipt, and the row when there is one.
MarkDeleted(d, x) ==
  [d EXCEPT !.ledger = @ \union {x},
            !.rows[x].hidden = IF There(d, x) THEN "message" ELSE @]

\* discardOutgoing, else deleteMessageLocal, in one transaction.
Discarded(d, x) ==
  MarkDeleted(IF x = Temp THEN Dequeue(d) ELSE d,
              IF There(d, x) THEN x ELSE d.alias)

\* Delete on bubble x, or on the temporary guid a stale sheet still holds.
Discard(x) ==
  /\ chat = "open"
  /\ Shown(db, x) \/ (x = Temp /\ ~There(db, x) /\ db.alias # NoGuid)
  /\ db' = Discarded(db, x)
  /\ cancelled' = (cancelled \/ \A y \in Guids : ~Shown(db', y))
  /\ UNCHANGED <<chat, old, request, attempt, cycles, crashes, heard>>

\* deleteChatLocal, first transaction: stamp the boundary, drop the queue.
DeleteChat ==
  /\ chat = "open"
  /\ chat' = "deleting"
  /\ old' = {x \in Guids : There(db, x)}
  /\ db' = Dequeue(db)
  /\ UNCHANGED <<request, attempt, cycles, crashes, heard, cancelled>>

\* purgeChatMessages: every row dated inside the boundary, which is a maximum
\* over what was there; a copy that came since may be dated after it.
PurgeRows ==
  /\ chat = "deleting"
  /\ chat' = "deleted"
  /\ \E later \in SUBSET (Guids \ (old \union {Temp})) :
       db' = [db EXCEPT !.rows = [x \in Guids |-> IF x \in later THEN db.rows[x] ELSE Gone]]
  /\ UNCHANGED <<old, request, attempt, cycles, crashes, heard, cancelled>>

\* The process dies: requests lose their caller, the cycle cap its count.
Crash ==
  /\ crashes < MaxCrashes
  /\ crashes' = crashes + 1
  /\ cycles' = 0
  /\ request' = [g \in Generations |-> [request[g] EXCEPT
                   !.at = CASE @ = "wire" -> "ghost"
                            [] @ \in {"ready", "answered"} -> "done"
                            [] OTHER -> @]]
  /\ UNCHANGED <<db, chat, old, attempt, heard, cancelled>>
-----------------------------------------------------------------------------
Finish(g) == Acknowledge(g) \/ FailLocally(g) \/ Abandon(g) \/ Defer(g) \/ Retire(g)

Next ==
  \/ \E g \in Generations : \/ Start(g) \/ Finish(g)
                            \/ ServerReplays(g) \/ ServerAttempts(g)
  \/ \E a \in Attempts : \/ ServerRelays(a)
                         \/ \E how \in {"safe", "unsafe"} : ServerFails(a, how)
                         \/ DeliverSuccess(a) \/ DeliverFailure(a)
  \/ Elapse \/ Claim
  \/ \E x \in Guids : TryAgain(x) \/ Discard(x)
  \/ DeleteChat \/ PurgeRows \/ Crash

(***************************************************************************)
(* The clock passes, the boot and the interval timer run the drain, every  *)
(* request ends (the HTTP client's timeout ends it if nothing else), and a *)
(* purge is finished, by the boot if it was interrupted.  The server, the  *)
(* user and the event transports owe nothing.                              *)
(***************************************************************************)
Fairness ==
  /\ WF_vars(Elapse) /\ WF_vars(Claim) /\ WF_vars(PurgeRows)
  /\ \A g \in Generations : WF_vars(Finish(g))

Spec     == Init /\ [][Next]_vars
FairSpec == Spec /\ Fairness
-----------------------------------------------------------------------------
Bubble == [state : {"gone", "sending", "sent"} \union Failed, generation : 0 .. MaxGeneration,
           pending : BOOLEAN, active : 0 .. MaxServerAttempts,
           hidden : {"no", "message", "chat"}]

TypeOK ==
  /\ db.rows \in [Guids -> Bubble]
  /\ db.alias \in {NoGuid} \union (Guids \ {Temp})
  /\ db.ledger \subseteq Guids
  /\ db.queue \in {NoQueue} \union [attempts : 0 .. MaxAttempts, due : BOOLEAN,
                                     lease : 0 .. MaxGeneration]
  /\ chat \in {"open", "deleting", "deleted"} /\ old \subseteq Guids
  /\ request \in [Generations ->
       [at : {"none", "ready", "wire", "ghost", "answered", "done"},
        answer : 0 .. MaxServerAttempts, before : {"sending", "sent"} \union Failed,
        auto : BOOLEAN]]
  /\ attempt \in [Attempts -> [generation : 0 .. MaxGeneration, copied : BOOLEAN,
                               failed : {"no", "safe", "unsafe"}]]
  /\ cycles \in 0 .. MaxCycles /\ crashes \in 0 .. MaxCrashes
  /\ heard \subseteq Attempts /\ cancelled \in BOOLEAN

(***************************************************************************)
(* Nothing is stranded (countOutgoingQueueHealth, strandedSending): a      *)
(* visible bubble that still says "sending" has a queue row to recover it, *)
(* whatever acknowledgement, failure, discard or crash came between.  Only *)
(* the moments between a chat's stamp and its purge are excepted.          *)
(***************************************************************************)
NothingStranded ==
  chat # "deleting" =>
    \A x \in Guids : Shown(db, x) /\ db.rows[x].state = "sending" => HasLadder(db)

(***************************************************************************)
(* No ladder is an orphan (orphanQueueRows): while the chat is there, a    *)
(* queue row finds its bubble, directly or through its alias, and finds it *)
(* attempt-aware, so the drain never sends blind or without a fence.       *)
(* (Between a chat's stamp and its purge a late retryable failure does     *)
(* rebuild one, and the purge orphans it; the claim then retires it.)  And *)
(* a message shown as sent is not sent again: its queue row is gone.       *)
(***************************************************************************)
LadderHasBubble ==
  /\ TypeOK
  /\ HasLadder(db) =>
       LET o == Owner(db, NoGuid) IN
       /\ chat = "open" => o # NoGuid /\ db.rows[o].generation > 0
       /\ o # NoGuid => db.rows[o].state # "sent"

(***************************************************************************)
(* "Sent" is proven for the generation the row is at: the server made an   *)
(* attempt for it, or answered its request with one it had made before.    *)
(* The answer or echo of an older generation never settles a newer one,    *)
(* save the echo of the attempt whose failure the row still carries: a     *)
(* deferred claim withdraws its generation but keeps that attempt.         *)
(***************************************************************************)
SentIsProven ==
  \A x \in Guids :
    LET r == db.rows[x]
    IN  r.state = "sent" /\ r.generation > 0 =>
          \E a \in Attempts : attempt[a].generation = r.generation
                            \/ (Made(a) /\ request[r.generation].answer = a)
                            \/ (a = r.active /\ a \in heard)

(***************************************************************************)
(* A failure the server reported for the attempt on a bubble is not erased *)
(* by that attempt's own acknowledgement or echo, in whatever order the    *)
(* three arrive: only a new generation may turn the bubble to sent.  (A    *)
(* chat purge forgets the failure along with the bubble.)                  *)
(***************************************************************************)
FailureSticks ==
  chat = "open" => \A x \in Guids :
    LET r == db.rows[x]
    IN  r.state = "sent" /\ ~r.pending /\ r.active \in heard
          => attempt[r.active].generation < r.generation

(***************************************************************************)
(* A cancelled message stays hidden: once a discard has left no bubble of  *)
(* it, no acknowledgement, echo, retried copy, merge or purge brings one   *)
(* back under any guid.  And cancelling the optimistic bubble ends its     *)
(* ladder for good: no late failure, local or of the server, rebuilds what *)
(* would send it again.                                                    *)
(***************************************************************************)
CancelledIsFinal ==
  /\ cancelled => \A x \in Guids : ~Shown(db, x)
  /\ db.rows[Temp].hidden = "message" => ~HasLadder(db)

(***************************************************************************)
(* Deleting any bubble of the message ends its ladder: "a surviving queue  *)
(* row re-POSTs the very message the user just deleted".                   *)
(***************************************************************************)
DeletedIsNotResent ==
  LET o == Owner(db, NoGuid)
  IN  o # NoGuid /\ db.rows[o].hidden = "message" => ~HasLadder(db)

(***************************************************************************)
(* An old attempt cannot overwrite a newer one: its failure never takes    *)
(* "sent" from a bubble that a later generation settled.                   *)
(***************************************************************************)
OldNeverOverwrites ==
  [][\A x \in Guids, a \in Attempts :
       /\ db.rows[x].state = "sent"
       /\ attempt[a].generation \in 1 .. db.rows[x].generation - 1
       /\ request[db.rows[x].generation].answer # a
       => ~(DeliverFailure(a) /\ db'.rows[x].state \in Failed)]_vars

(***************************************************************************)
(* A bubble does not say "sending" for ever: it settles, fails, disappears *)
(* or has used up the generations of the model.                            *)
(***************************************************************************)
BubbleSettles ==
  \A x \in Guids :
    (Shown(db, x) /\ db.rows[x].state = "sending")
      ~> (\/ ~(Shown(db, x) /\ db.rows[x].state = "sending")
          \/ db.rows[x].generation = MaxGeneration)
=============================================================================
