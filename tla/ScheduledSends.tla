--------------------------- MODULE ScheduledSends ---------------------------
(***************************************************************************)
(* Scheduled messages of one account: the owner's schedule, edit and       *)
(* cancel (scheduleService.ts, scheduledSends.ts), the runs that hand due  *)
(* rows to the outgoing queue, the reconciliation with the Mac's list, and *)
(* the table they share (db/repositories/scheduled.ts).                    *)
(*                                                                         *)
(* A letter is one thing the owner asked to send later; its turns are the  *)
(* occurrences of a repeating one, its version counts the edits.  The Mac  *)
(* and the outgoing queue are external.                                    *)
(***************************************************************************)
EXTENDS Integers, Sequences, FiniteSets

CONSTANTS
  Letter,
  Run,          \* the callers of runDueScheduled, each one again and again
  Hand,         \* the owner's screens
  MaxRow, MaxItem,      \* local rows and Mac items ever created
  MaxNow,       \* the clock
  MaxVersion,   \* edits of a letter
  MaxAttempts,  \* SCHED_MAX_ATTEMPTS
  None

ASSUME ScheduledAssumption ==
  /\ MaxRow \in Nat /\ MaxItem \in Nat /\ MaxNow \in Nat /\ MaxVersion \in Nat
  /\ MaxAttempts \in Nat \ {0}
  /\ None \notin Nat

VARIABLES
  rows,       \* scheduled_messages: the rows in the table, by id
  nextRow,    \* the id the next insert gets; ids are never used again
  mac,        \* what the Mac keeps of each item it ever created
  now,
  line,       \* scheduledRunTails: runs take their turn in this order
  run,        \* each run: its stage, clock, due list and claim
  current,    \* accountScope.isCurrent() of each run
  stuck,      \* rows whose release the store refused
  recovered,  \* a recovery that succeeded is cached for this generation
  sync,       \* syncScheduledFromServer
  op,         \* the operation each hand is in
  went,       \* how often a turn of a letter went out, from phone or Mac
  floor,      \* the versions below it were edited away or cancelled
  promised,   \* letters the owner was told are scheduled
  unsure,     \* letters of which some call lost track: its answer was lost
  stale       \* letters that went out in a version below their floor

runVars == <<line, run, current, recovered, stuck>>
historyVars == <<went, floor, promised, unsure, stale>>
vars == <<rows, nextRow, mac, now, runVars, sync, op, historyVars>>

-----------------------------------------------------------------------------
Item == 1 .. MaxItem
Slot == 0 .. MaxNow + 1      \* times of sending
Turn == 0 .. MaxNow + 1
Version == 0 .. MaxVersion
Kind == {"once", "repeat", "file"}
Claimed == [row : Nat, letter : Letter, turn : Turn, version : Version, kind : Kind]

ASSUME NoRecords == None \notin Claimed

NoItem == [letter |-> None, kind |-> "once", version |-> 0, at |-> 0, state |-> "none"]
NoRun  == [stage |-> "off", claim |-> None]
NoSync == [stage |-> "off", exposed |-> {}, list |-> {}, left |-> {},
           prunes |-> FALSE]
NoOp   == [stage |-> "none", letter |-> None, version |-> 0, kind |-> "once",
           turn |-> 0, at |-> 0, row |-> 0, wasAt |-> 0, wasOn |-> None,
           on |-> None, resolves |-> TRUE]

Id == DOMAIN rows
Local(r) == rows[r].on = None

(* A turn of a letter leaves for its recipient. *)
GoOut(l, k, v) ==
  /\ went' = [went EXCEPT ![l][k] = IF @ = 2 THEN 2 ELSE @ + 1]
  /\ stale' = IF v < floor[l] THEN stale \cup {l} ELSE stale
  /\ UNCHANGED <<floor, promised, unsure>>

Unsure(l) ==
  /\ unsure' = unsure \cup {l}
  /\ UNCHANGED <<went, floor, promised, stale>>

-----------------------------------------------------------------------------
(* The table (db/repositories/scheduled.ts). *)

Insert(row) ==
  /\ nextRow <= MaxRow
  /\ rows' = [i \in Id \cup {nextRow} |-> IF i = nextRow THEN row ELSE rows[i]]
  /\ nextRow' = nextRow + 1

Delete(S) == rows' = [i \in Id \ S |-> rows[i]]

(* The row a screen was opened on is still that pending occurrence. *)
SameOccurrence(h) ==
  LET o == op[h] IN
  /\ o.row \in Id
  /\ rows[o.row].status = "pending"
  /\ rows[o.row].at = o.wasAt
  /\ rows[o.row].on = o.wasOn

-----------------------------------------------------------------------------
(* The Mac: it creates, lists, removes and fires items.  A request whose   *)
(* answer is lost was handled before the next one, or never; a removal     *)
(* succeeds on what has not fired.                                         *)

Unused == {i \in Item : mac[i].state = "none"}
Fresh == CHOOSE i \in Unused : TRUE

MacCreates(o) ==
  /\ Unused # {}
  /\ mac' = [mac EXCEPT ![Fresh] = [letter |-> o.letter, kind |-> o.kind,
                version |-> o.version, at |-> o.at, state |-> "pending"]]

MacRemoves(i) == mac' = [mac EXCEPT ![i].state = "removed"]

(* What has fired stays in the Mac's list. *)
Listed == {i \in Item : mac[i].state \in {"pending", "sent", "failed"}}

MacFires(i) ==
  /\ mac[i].state = "pending" /\ mac[i].at <= now
  /\ \/ /\ mac' = [mac EXCEPT ![i].state = "sent"]
        /\ GoOut(mac[i].letter, 0, mac[i].version)
     \/ /\ mac' = [mac EXCEPT ![i].state = "failed"]
        /\ UNCHANGED historyVars
  /\ UNCHANGED <<rows, nextRow, now, runVars, sync, op>>

Tick ==
  /\ now < MaxNow /\ now' = now + 1
  /\ UNCHANGED <<rows, nextRow, mac, runVars, sync, op, historyVars>>

-----------------------------------------------------------------------------
(* runDueScheduled. *)

runRest == <<nextRow, mac, now, sync, op>>

(* reserveScheduledRun: a place in line, taken before the first await. *)
Enter(r) ==
  /\ run[r].stage = "off"
  /\ line' = Append(line, r)
  /\ run' = [run EXCEPT ![r] = [NoRun EXCEPT !.stage = "waiting"]]
  /\ current' = [current EXCEPT ![r] = TRUE]
  /\ UNCHANGED <<rows, recovered, stuck, historyVars, runRest>>

HasTurn(r) == line # <<>> /\ Head(line) = r

(* A background callback runs out of time, and the account goes on; a run  *)
(* in line finds out at its turn.                                          *)
Lapse(r) ==
  /\ HasTurn(r) /\ current[r]
  /\ current' = [current EXCEPT ![r] = FALSE]
  /\ UNCHANGED <<rows, line, run, recovered, stuck, historyVars, runRest>>

(* finally: the run whose turn it is ends, and the next one's begins. *)
Leave(r) ==
  /\ run' = [run EXCEPT ![r] = NoRun]
  /\ line' = Tail(line)
  /\ UNCHANGED current

(* Mutant: the cache outlives the run that lapsed. *)
KeepRecovery(r) == recovered

(* finally: a run whose scope lapsed may have left a claim. *)
RecoveryAfter(r) == current[r] /\ recovered

Stuck == {i \in Id : rows[i].status = "sending" /\ Local(i)}

Reset(S) ==
  /\ stuck' = stuck \ S
  /\ rows' = [i \in Id |-> IF i \in S THEN [rows[i] EXCEPT !.status = "pending"]
                                      ELSE rows[i]]

(* ensureScheduledRecovery: once for a generation.  A recovery that stops  *)
(* short is not remembered, and the run that wanted it throws.             *)
Recover(r) ==
  /\ run[r].stage = "waiting" /\ HasTurn(r) /\ current[r]
  /\ \/ /\ Reset(IF recovered THEN {} ELSE Stuck)
        /\ recovered' = TRUE
        /\ run' = [run EXCEPT ![r].stage = "firing"]
        /\ UNCHANGED <<line, current>>
     \/ /\ ~recovered
        /\ \E S \in SUBSET Stuck : Reset(S)
        /\ UNCHANGED recovered /\ Leave(r)
  /\ UNCHANGED <<historyVars, runRest>>

Firing(r) == run[r].stage = "firing" /\ run[r].claim = None /\ current[r]

Due(i) == rows[i].status = "pending" /\ Local(i) /\ rows[i].at <= now

(* listDueScheduled and claimDueScheduled: the list only names candidates, *)
(* in any number, and a row is read again as it is claimed.                *)
Claim(r, i) ==
  /\ Firing(r) /\ Due(i)
  /\ rows' = [rows EXCEPT ![i].status = "sending"]
  /\ run' = [run EXCEPT ![r].claim =
       [row |-> i, letter |-> rows[i].letter, turn |-> rows[i].turn,
        version |-> rows[i].version, kind |-> rows[i].kind]]
  /\ UNCHANGED <<line, current, recovered, stuck, historyVars, runRest>>

Claiming(r) == run[r].claim # None /\ current[r]

(* The claimed row, if it is still this run's to move. *)
Held(i) == i \in Id /\ rows[i].status = "sending" /\ Local(i)

MoveOn(r) == run' = [run EXCEPT ![r].claim = None]

(* handoverScheduledTextToOutgoing: the row moves and the outgoing queue   *)
(* takes the text in one commit.  Only the latter makes it go out.         *)
HandOver(r) ==
  LET c == run[r].claim
      old == rows[c.row]
  IN
  /\ Claiming(r)
  /\ IF Held(c.row)
       THEN /\ rows' = [rows EXCEPT ![c.row] =
                 IF c.kind = "repeat"
                   THEN [old EXCEPT !.status = "pending", !.at = now + 1,
                                    !.turn = old.turn + 1, !.attempts = 0]
                   ELSE [old EXCEPT !.status = "sent"]]
            /\ GoOut(c.letter, c.turn, c.version)
       ELSE UNCHANGED <<rows, historyVars>>     \* ScheduledOutgoingClaimLostError
  /\ MoveOn(r)
  /\ UNCHANGED <<line, current, recovered, stuck, runRest>>

(* Nothing was sent: the server was out of reach, or a guard said no. *)
Defer(r) ==
  LET c == run[r].claim IN
  /\ Claiming(r)
  /\ rows' = IF Held(c.row) THEN [rows EXCEPT ![c.row].status = "pending"] ELSE rows
  /\ MoveOn(r)
  /\ UNCHANGED <<line, current, recovered, stuck, historyVars, runRest>>

(* The send was refused: one attempt fewer, and the last one retires it. *)
Fail(r) ==
  LET c == run[r].claim
      old == rows[c.row]
      attempts == old.attempts + 1
  IN
  /\ Claiming(r)
  /\ rows' = IF Held(c.row)
               THEN [rows EXCEPT ![c.row] =
                      [old EXCEPT !.attempts = attempts,
                         !.status = IF attempts >= MaxAttempts THEN "error" ELSE "pending"]]
               ELSE rows
  /\ MoveOn(r)
  /\ UNCHANGED <<line, current, recovered, stuck, historyVars, runRest>>

(* The store refuses the release as well.  After a failure the run goes on *)
(* to the next row, after a deferral it throws; the row stays claimed.     *)
Stick(r) ==
  /\ Claiming(r)
  /\ stuck' = stuck \cup {run[r].claim.row}
  /\ \/ MoveOn(r) /\ UNCHANGED <<line, current>>
     \/ Leave(r)
  /\ UNCHANGED <<rows, recovered, historyVars, runRest>>

(* The due list is done, or the scope lapsed: then at its next check the   *)
(* run throws, whatever it had claimed.                                    *)
Finish(r) ==
  /\ \/ Firing(r)
     \/ ~current[r] /\ HasTurn(r)
  /\ recovered' = RecoveryAfter(r)
  /\ Leave(r)
  /\ UNCHANGED <<rows, stuck, historyVars, runRest>>

-----------------------------------------------------------------------------
(* syncScheduledFromServer. *)

syncRest == <<mac, now, runVars, op, historyVars>>

Exposure == {<<i, rows[i].on>> : i \in {j \in Id : ~Local(j)}}

Expose ==
  /\ sync.stage = "off"
  /\ sync' = [NoSync EXCEPT !.stage = "exposed", !.exposed = Exposure]
  /\ UNCHANGED <<rows, nextRow, syncRest>>

(* The Mac answers as of now, or the list cannot be read.  An empty list   *)
(* is suspect and prunes nothing; with schedules not modelled here in it,  *)
(* it never is.                                                            *)
Fetch ==
  /\ sync.stage = "exposed"
  /\ \/ \E others \in BOOLEAN :
          sync' = [sync EXCEPT !.stage = "merging", !.left = Listed,
                     !.list = {<<i, mac[i].state>> : i \in Listed},
                     !.prunes = others \/ Listed # {}]
     \/ sync' = NoSync
  /\ UNCHANGED <<rows, nextRow, syncRest>>

ExposedItems == {e[2] : e \in sync.exposed}

(* An item exposed before the request whose row is gone was edited away or *)
(* cancelled meanwhile.                                                    *)
MayImport(i) == i \notin ExposedItems

RowOf(i, state) ==
  [letter |-> mac[i].letter, kind |-> mac[i].kind, turn |-> 0, attempts |-> 0,
   version |-> mac[i].version, at |-> mac[i].at, on |-> i, status |-> state]

(* normalizeSchedStatus *)
StatusOf(state) == IF state = "failed" THEN "error" ELSE state

(* reconcileServerScheduled, one item: its row is brought up to date, or a *)
(* row is made for an item nobody here knew.                               *)
Merge(i) ==
  LET state == StatusOf((CHOOSE e \in sync.list : e[1] = i)[2])
      known == {r \in Id : rows[r].on = i}
  IN
  /\ sync.stage = "merging" /\ i \in sync.left
  /\ sync' = [sync EXCEPT !.left = @ \ {i}]
  /\ IF known # {}
       THEN /\ \E r \in known :
                 rows' = [rows EXCEPT ![r] =
                   [@ EXCEPT !.version = mac[i].version, !.at = mac[i].at,
                             !.status = state]]
            /\ UNCHANGED nextRow
     ELSE IF MayImport(i) THEN Insert(RowOf(i, state))
     ELSE UNCHANGED <<rows, nextRow>>
  /\ UNCHANGED syncRest

Absent == {e \in sync.exposed : \A x \in sync.list : x[1] # e[2]}

(* Mutant: the row is found by its id alone. *)
PruneById(e) == {r \in Id : r = e[1]}

PruneExact(e) == {r \in Id : r = e[1] /\ rows[r].on = e[2]}

(* An exact row the Mac no longer has, known before it was asked, goes.    *)
Prune(e) ==
  /\ sync.stage = "merging" /\ sync.left = {} /\ sync.prunes /\ e \in Absent
  /\ Delete(PruneExact(e))
  /\ sync' = [sync EXCEPT !.exposed = @ \ {e}]
  /\ UNCHANGED <<nextRow, syncRest>>

EndSync ==
  /\ sync.stage = "merging" /\ sync.left = {}
  /\ ~sync.prunes \/ Absent = {}
  /\ sync' = NoSync
  /\ UNCHANGED <<rows, nextRow, syncRest>>

-----------------------------------------------------------------------------
(* The owner's calls.  Each returns to the screen with Done: it resolved,  *)
(* or threw and the screen says so.                                        *)

ownerRest == <<now, runVars, sync>>

Step(h, stage) == op' = [op EXCEPT ![h].stage = stage]
Done(h) == op' = [op EXCEPT ![h] = NoOp]

Asked == {rows[i].letter : i \in Id} \cup {mac[i].letter : i \in Item}
           \cup {op[h].letter : h \in Hand} \cup promised \cup unsure
           \cup {l \in Letter : \E k \in Turn : went[l][k] > 0 \/ floor[l] > 0}

(* scheduleTextMessage, scheduleAttachmentMessage: a repeating text stays  *)
(* on the phone, anything else is offered to the Mac first.                *)
Schedule(h, l, kind) ==
  /\ op[h].stage = "none" /\ l \notin Asked
  /\ op' = [op EXCEPT ![h] =
       [NoOp EXCEPT !.stage = IF kind = "repeat" THEN "insert" ELSE "create",
                    !.letter = l, !.kind = kind, !.at = now + 1]]
  /\ UNCHANGED <<rows, nextRow, mac, historyVars, ownerRest>>

(* The create is answered, refused, or its answer is lost.  The phone      *)
(* keeps no file: without the Mac's answer its schedule fails.             *)
Create(h) ==
  LET file == op[h].kind = "file" IN
  /\ op[h].stage = "create"
  /\ \/ /\ MacCreates(op[h])
        /\ op' = [op EXCEPT ![h].stage = "insert", ![h].on = Fresh]
     \/ /\ UNCHANGED mac
        /\ IF file THEN Done(h) ELSE Step(h, "insert")
     \/ /\ MacCreates(op[h]) \/ UNCHANGED mac
        /\ IF file THEN Done(h) ELSE Step(h, "lost") \/ Step(h, "timedOut")
  /\ UNCHANGED <<rows, nextRow, historyVars, ownerRest>>

(* Mutant: the phone keeps its copy without looking. *)
LookAway(h) == {None}

(* The Mac's copy, if its list shows one. *)
Copies(h) ==
  LET found == {i \in Listed : /\ mac[i].letter = op[h].letter
                               /\ mac[i].version = op[h].version
                               /\ mac[i].at = op[h].at}
  IN  IF found = {} THEN {None} ELSE found

(* findServerScheduledCopy.  When the list cannot be read either, a create *)
(* that failed for want of a connection is taken never to have arrived,    *)
(* and after any other failure the phone keeps nothing.                    *)
Look(h) ==
  /\ op[h].stage \in {"lost", "timedOut"}
  /\ \/ /\ \E i \in Copies(h) : op' = [op EXCEPT ![h].stage = "insert", ![h].on = i]
        /\ UNCHANGED historyVars
     \/ /\ op[h].stage = "lost" /\ Step(h, "insert")
        /\ Unsure(op[h].letter)
     \/ /\ op[h].stage = "timedOut" /\ Done(h)
        /\ UNCHANGED historyVars
  /\ UNCHANGED <<rows, nextRow, mac, ownerRest>>

InsertRow(h) ==
  LET o == op[h] IN
  /\ o.stage = "insert"
  /\ Insert([letter |-> o.letter, kind |-> o.kind, turn |-> 0, attempts |-> 0,
             version |-> 0, at |-> o.at, on |-> o.on, status |-> "pending"])
  /\ promised' = IF floor[o.letter] = 0 THEN promised \cup {o.letter} ELSE promised
  /\ Done(h)
  /\ UNCHANGED <<mac, went, floor, unsure, stale, ownerRest>>

(* A screen is opened on one pending occurrence. *)
Open(h, i, stage) ==
  /\ op[h].stage = "none" /\ rows[i].status = "pending"
  /\ op' = [op EXCEPT ![h] =
       [NoOp EXCEPT !.stage = stage, !.letter = rows[i].letter, !.row = i,
                    !.turn = rows[i].turn, !.wasAt = rows[i].at,
                    !.wasOn = rows[i].on]]
  /\ UNCHANGED <<rows, nextRow, mac, historyVars, ownerRest>>

(* editScheduled up to its first request: the occurrence is still there,   *)
(* and has no file.                                                        *)
Edit(h, at, kind) ==
  LET o == op[h] IN
  /\ o.stage = "editor"
  /\ IF SameOccurrence(h) /\ rows[o.row].kind # "file"
       THEN /\ rows[o.row].version < MaxVersion /\ at \in {o.wasAt, now + 1}
            /\ op' = [op EXCEPT ![h] =
                 [@ EXCEPT !.stage = IF o.wasOn = None THEN "patch" ELSE "replace",
                           !.version = rows[o.row].version + 1,
                           !.at = at, !.kind = kind]]
       ELSE Done(h)
  /\ UNCHANGED <<rows, nextRow, mac, historyVars, ownerRest>>

(* Mutant: the screen goes on whatever the Mac said. *)
RemoveAnyway(h, onSuccess) ==
  /\ \/ MacRemoves(op[h].wasOn)
     \/ UNCHANGED mac
  /\ Step(h, onSuccess) /\ UNCHANGED historyVars

(* The Mac removes an item, refuses, or its answer is lost. *)
Remove(h, onSuccess) ==
  LET i == op[h].wasOn IN
  \/ /\ mac[i].state = "pending" /\ MacRemoves(i)
     /\ Step(h, onSuccess) /\ UNCHANGED historyVars
  \/ /\ UNCHANGED <<mac, historyVars>>
     /\ Done(h)
  \/ /\ mac[i].state = "pending" /\ MacRemoves(i)
     /\ Done(h) /\ Unsure(op[h].letter)

(* There is no update request: the old item goes, and a new one comes. *)
Replace(h) ==
  /\ op[h].stage = "replace"
  /\ Remove(h, IF op[h].kind = "repeat" THEN "patch" ELSE "recreate")
  /\ UNCHANGED <<rows, nextRow, ownerRest>>

(* A create that fails drops the item, so that the phone sends the letter: *)
(* whatever the failure, and the screen is told that the edit was not      *)
(* saved.                                                                  *)
Recreate(h) ==
  /\ op[h].stage = "recreate"
  /\ \/ /\ MacCreates(op[h])
        /\ op' = [op EXCEPT ![h].stage = "patch", ![h].on = Fresh]
        /\ UNCHANGED historyVars
     \/ /\ op' = [op EXCEPT ![h].stage = "patch", ![h].resolves = FALSE]
        /\ \/ UNCHANGED <<mac, historyVars>>
           \/ MacCreates(op[h]) /\ Unsure(op[h].letter)
  /\ UNCHANGED <<rows, nextRow, ownerRest>>

(* updateScheduledWithinTransaction: only the occurrence that was opened.  *)
(* The turn is the one the owner saw: it goes out again if it is rewritten *)
(* after it went out.                                                      *)
Patch(h) ==
  LET o == op[h] IN
  /\ o.stage = "patch" /\ Done(h)
  /\ IF SameOccurrence(h)
       THEN /\ rows' = [rows EXCEPT ![o.row] =
                 [@ EXCEPT !.turn = o.turn, !.version = o.version, !.at = o.at,
                           !.on = o.on, !.kind = o.kind]]
            /\ IF o.resolves /\ o.version >= floor[o.letter]
                 THEN /\ floor' = [floor EXCEPT ![o.letter] = o.version]
                      /\ promised' = promised \cup {o.letter}
                 ELSE UNCHANGED <<floor, promised>>
            /\ UNCHANGED <<went, unsure, stale>>
       ELSE /\ UNCHANGED rows
            /\ IF o.wasOn = None THEN UNCHANGED historyVars ELSE Unsure(o.letter)
  /\ UNCHANGED <<nextRow, mac, ownerRest>>

(* cancelScheduled: a row that is gone is a cancellation already. *)
Cancel(h) ==
  LET o == op[h] IN
  /\ o.stage = "list"
  /\ IF ~SameOccurrence(h) THEN Done(h)
     ELSE Step(h, IF o.wasOn = None THEN "drop" ELSE "withdraw")
  /\ UNCHANGED <<rows, nextRow, mac, historyVars, ownerRest>>

(* The Mac's own word that it has no such item counts as a removal. *)
Withdraw(h) ==
  /\ op[h].stage = "withdraw"
  /\ \/ Remove(h, "drop")
     \/ /\ mac[op[h].wasOn].state # "pending"
        /\ Step(h, "drop") /\ UNCHANGED <<mac, historyVars>>
  /\ UNCHANGED <<rows, nextRow, ownerRest>>

(* cancelPendingScheduledWithinTransaction *)
Drop(h) ==
  LET o == op[h] IN
  /\ o.stage = "drop" /\ Done(h)
  /\ IF SameOccurrence(h)
       THEN /\ Delete({o.row})
            /\ floor' = [floor EXCEPT ![o.letter] = rows[o.row].version + 1]
            /\ promised' = promised \ {o.letter}
            /\ UNCHANGED <<went, unsure, stale>>
       ELSE /\ UNCHANGED rows
            /\ IF o.wasOn = None THEN UNCHANGED historyVars ELSE Unsure(o.letter)
  /\ UNCHANGED <<nextRow, mac, ownerRest>>

(* clearScheduledHistoryItem *)
Clear(i) ==
  /\ rows[i].status \in {"sent", "error"}
  /\ Delete({i})
  /\ promised' = promised \ {rows[i].letter}
  /\ UNCHANGED <<nextRow, mac, op, went, floor, unsure, stale, ownerRest>>

-----------------------------------------------------------------------------
(* The process dies: the table and the Mac stay. *)
Crash ==
  /\ line' = <<>> /\ run' = [r \in Run |-> NoRun]
  /\ current' = [r \in Run |-> TRUE] /\ recovered' = FALSE
  /\ sync' = NoSync /\ op' = [h \in Hand |-> NoOp]
  /\ unsure' = unsure \cup {op[h].letter : h \in
       {x \in Hand : op[x].stage \in {"recreate", "patch", "drop"} /\ op[x].wasOn # None}}
  /\ UNCHANGED <<rows, nextRow, mac, now, stuck, went, floor, promised, stale>>

Init ==
  /\ rows = <<>> /\ nextRow = 1
  /\ mac = [i \in Item |-> NoItem]
  /\ now = 0
  /\ line = <<>> /\ run = [r \in Run |-> NoRun]
  /\ current = [r \in Run |-> TRUE] /\ recovered = FALSE /\ stuck = {}
  /\ sync = NoSync
  /\ op = [h \in Hand |-> NoOp]
  /\ went = [l \in Letter |-> [k \in Turn |-> 0]]
  /\ floor = [l \in Letter |-> 0]
  /\ promised = {} /\ unsure = {} /\ stale = {}

RunStep(r) ==
  \/ Enter(r) \/ Lapse(r) \/ Recover(r)
  \/ \E i \in Id : Claim(r, i)
  \/ HandOver(r) \/ Defer(r) \/ Fail(r) \/ Stick(r) \/ Finish(r)

SyncStep ==
  \/ Expose \/ Fetch \/ EndSync
  \/ \E i \in Item : Merge(i)
  \/ \E e \in sync.exposed : Prune(e)

OwnerStep(h) ==
  \/ \E l \in Letter, kind \in Kind : Schedule(h, l, kind)
  \/ Create(h) \/ Look(h) \/ InsertRow(h)
  \/ \E i \in Id, stage \in {"editor", "list"} : Open(h, i, stage)
  \/ \E at \in Slot, kind \in Kind \ {"file"} : Edit(h, at, kind)
  \/ Replace(h) \/ Recreate(h) \/ Patch(h)
  \/ Cancel(h) \/ Withdraw(h) \/ Drop(h)

Next ==
  \/ \E r \in Run : RunStep(r)
  \/ SyncStep
  \/ \E h \in Hand : OwnerStep(h)
  \/ \E i \in Id : Clear(i)
  \/ \E i \in Item : MacFires(i)
  \/ Tick \/ Crash

Spec == Init /\ [][Next]_vars
-----------------------------------------------------------------------------
(* The tables and records have their types. *)
TypeOK ==
  /\ Id \subseteq 1 .. nextRow - 1 /\ nextRow \in 1 .. MaxRow + 1 /\ now \in 0 .. MaxNow
  /\ \A i \in Id : rows[i] \in
       [letter : Letter, kind : Kind, turn : Turn, version : Version, at : Slot,
        on : Item \cup {None}, status : {"pending", "sending", "sent", "error"},
        attempts : 0 .. MaxAttempts]
  /\ \A i \in Item : mac[i] \in
       [letter : Letter \cup {None}, kind : Kind, version : Version, at : Slot,
        state : {"none", "pending", "sent", "failed", "removed"}]

ClaimedRows == {run[r].claim.row : r \in {q \in Run : run[q].claim # None}}

(* A claimed row is held by one run and stays that run's to move, while    *)
(* the table, the owner's edits, the reconciliation and the other runs go  *)
(* on around it; and once a recovery is cached, a row left sending belongs *)
(* to a live run, unless the store itself refused its release.  So no row  *)
(* is forgotten in sending by a callback that ran out of time, and none is *)
(* reset under the run that is sending it (scheduleService.ts:99, 219).    *)
ClaimsAccounted ==
  /\ TypeOK
  /\ \A r \in Run : run[r].claim # None =>
       /\ Held(run[r].claim.row)
       /\ \A q \in Run \ {r} : run[q].claim # None => run[q].claim.row # run[r].claim.row
  /\ recovered => Stuck \subseteq ClaimedRows \cup stuck

(* A turn of a letter goes out once, from the phone or from the Mac, over  *)
(* crashes, lapsed runs, edits from a screen that was open while the row   *)
(* fired, and creates whose answer was lost; the letters of a call that    *)
(* itself lost track of the Mac are exempt.                                *)
OncePerTurn == \A l \in Letter \ unsure, k \in Turn : went[l][k] <= 1

(* What the owner was told is cancelled, or replaced by an edit, does not  *)
(* go out any more, whoever holds it (scheduledSends.ts:127, 213).         *)
NothingWithdrawnGoesOut == stale \subseteq unsure

(* What the owner was told is scheduled keeps a row, the owner's only way  *)
(* to see and cancel it, and behind the row somebody who sends it or says  *)
(* how that ended: the phone, or an item the Mac still has; or a call of   *)
(* the owner's is still moving it from one to the other.  A reconciliation *)
(* may work from a list older than an edit, and never takes that row away  *)
(* (scheduledSends.ts:324).                                                *)
NothingIsLost ==
  \A l \in promised \ unsure :
    \/ \E i \in Id :
         /\ rows[i].letter = l
         /\ Local(i) \/ mac[rows[i].on].state # "removed"
    \/ \E h \in Hand : op[h].letter = l

=============================================================================
