-------------------------- MODULE LogicalSendQueue --------------------------
(***************************************************************************)
(* The process-wide queue of user sends (services/send/logicalSendQueue.ts)*)
(* on top of the account barrier: each send is a piece of account work     *)
(* that waits for its chat's turn, runs its task, and settles.             *)
(*                                                                         *)
(* A turn is a claim on the chat's order, not on the task: it expires      *)
(* after a window while the task goes on.  The list of waiting entries is  *)
(* kept as the set of sends in turn "queued", ordered by their seats.      *)
(***************************************************************************)
EXTENDS DeliveryLease

CONSTANTS
  Chat,          \* chats
  ChatOf,        \* ChatOf[s]: the chat of the send s
  MaxActive,     \* LOGICAL_SEND_MAX_ACTIVE_CHATS
  MaxRetained    \* LOGICAL_SEND_MAX_RETAINED

ASSUME QueueAssumption ==
  /\ ChatOf \in [Work -> Chat]
  /\ MaxActive \in Nat \ {0}
  /\ MaxRetained \in Nat \ {0}

VARIABLES
  turn,          \* turn[s]: how far the send is in the queue
  holds,         \* holds[s]: holdsOrdering
  activeChats,   \* the chats whose turn is taken
  retained,      \* sends that are waiting or running
  seat,          \* seat[s]: the place of s in the order of admission
  nextSeat       \* the next free seat

queueVars == <<turn, holds, activeChats, retained, seat, nextSeat>>
sendVars  == <<leaseVars, queueVars>>

QueueTypeOK ==
  /\ turn \in [Work -> {"none", "queued", "granted", "working", "over"}]
  /\ holds \in [Work -> BOOLEAN]
  /\ activeChats \in SUBSET Chat
  /\ retained \in Int
  /\ seat \in [Work -> Nat]
  /\ nextSeat \in Nat

SendInit ==
  /\ LeaseInit
  /\ turn = [s \in Work |-> "none"]
  /\ holds = [s \in Work |-> FALSE]
  /\ activeChats = {}
  /\ retained = 0
  /\ seat = [s \in Work |-> 0]
  /\ nextSeat = 0

-----------------------------------------------------------------------------
Waiting == {s \in Work : turn[s] = "queued"}
Running == {s \in Work : turn[s] \in {"granted", "working"}}
Holders == {s \in Work : holds[s]}
ChatsOf(S) == {ChatOf[s] : s \in S}

(* Mutant: the newest entry is looked at first. *)
StartsNewest(waiting, busy) ==
  {s \in waiting :
     LET ahead == {x \in waiting : seat'[x] > seat'[s]}
         taken == busy \cup ChatsOf(ahead)
     IN  ChatOf[s] \notin taken /\ Cardinality(taken) < MaxActive}

(* pump: the oldest entry whose chat is idle starts, as long as a slot is  *)
(* free.  So an entry starts when its chat is neither busy nor wanted by   *)
(* an entry ahead, and those chats together leave it a slot.               *)
Starts(waiting, busy) ==
  {s \in waiting :
     LET ahead == {x \in waiting : seat'[x] < seat'[s]}
         taken == busy \cup ChatsOf(ahead)
     IN  ChatOf[s] \notin taken /\ Cardinality(taken) < MaxActive}

(* The turns after a pump, from the turns and claims before it.            *)
HandOn(inTurn, holding, busy) ==
  LET started == Starts({s \in Work : inTurn[s] = "queued"}, busy) IN
  /\ turn' = [s \in Work |-> IF s \in started THEN "granted" ELSE inTurn[s]]
  /\ holds' = [s \in Work |-> s \in holding \cup started]
  /\ activeChats' = busy \cup ChatsOf(started)

(* Mutant: the claim is given up whoever holds it by now. *)
ReleaseAnyway(S, inTurn) ==
  HandOn(inTurn, Holders \ S, activeChats \ ChatsOf(S))

(* Mutant: the slot is freed, and nobody looks for a successor.            *)
ReleaseOnly(S, inTurn) ==
  /\ turn' = inTurn
  /\ holds' = [s \in Work |-> holds[s] /\ s \notin S]
  /\ activeChats' = activeChats \ ChatsOf(S \cap Holders)

(* releaseOrdering of the sends in S: a turn that expired and was passed   *)
(* on is not released again, and without a claim there is no pump.         *)
Release(S, inTurn) ==
  IF S \cap Holders = {}
    THEN turn' = inTurn /\ UNCHANGED <<holds, activeChats>>
    ELSE HandOn(inTurn, Holders \ S, activeChats \ ChatsOf(S \cap Holders))

(* finish: once per send, and its listener is unsubscribed. *)
Leave(s) ==
  /\ retained' = retained - 1
  /\ Unlisten(s)
  /\ UNCHANGED <<seat, nextSeat>>
  /\ Release({s}, [turn EXCEPT ![s] = "over"])

-----------------------------------------------------------------------------
Draft(s) == Capture(s) /\ UNCHANGED queueVars

(* runUiAccountOperation, runAccountOperation, runTrackedRealtimeWork, run *)
(* and acquire up to its await: one synchronous stretch.                   *)
Submit(s) ==
  /\ Admit(s) /\ retained < MaxRetained
  /\ Listen(s)
  /\ retained' = retained + 1
  /\ seat' = [seat EXCEPT ![s] = nextSeat] /\ nextSeat' = nextSeat + 1
  /\ HandOn([turn EXCEPT ![s] = "queued"], Holders, activeChats)

(* The newest send is refused when the queue is full; no older one goes.   *)
TurnAway(s) ==
  /\ Admit(s) /\ retained >= MaxRetained
  /\ turn' = [turn EXCEPT ![s] = "over"]
  /\ UNCHANGED <<watch, holds, activeChats, retained, seat, nextSeat>>

SubmitStale(s) == Refuse(s) /\ UNCHANGED <<watch, queueVars>>

(* run resumes: the account may have gone since the turn was granted.      *)
Begin(s) ==
  /\ turn[s] = "granted" /\ Current(s)
  /\ turn' = [turn EXCEPT ![s] = "working"]
  /\ UNCHANGED <<leaseVars, holds, activeChats, retained, seat, nextSeat>>

Abandon(s) ==
  /\ turn[s] = "granted" /\ ~Current(s)
  /\ Leave(s)
  /\ UNCHANGED <<gateVars, lease, stage, pauseVars, historyVars>>

(* The task settles, with a value or an error. *)
Finish(s) ==
  /\ turn[s] = "working"
  /\ Leave(s)
  /\ UNCHANGED <<gateVars, lease, stage, pauseVars, historyVars>>

(* Mutant: the timer is cleared when the task begins. *)
ExpireUnlessBegun(s) ==
  /\ turn[s] = "granted" /\ holds[s]
  /\ UNCHANGED <<leaseVars, retained, seat, nextSeat>>
  /\ Release({s}, turn)

(* The ordering window elapses; the task goes on. *)
Expire(s) ==
  /\ s \in Running /\ holds[s]
  /\ UNCHANGED <<leaseVars, retained, seat, nextSeat>>
  /\ Release({s}, turn)

(* The surrounding account operation gives its slot back. *)
Return(s) ==
  /\ turn[s] = "over" /\ Settle(s)
  /\ UNCHANGED <<watch, queueVars>>

Retired == IF accepting THEN Listeners ELSE {}

(* Mutant: a cancelled entry is dropped, and its caller never told. *)
InvalidateSilently ==
  /\ retained' = retained - Cardinality(Retired \cap Waiting)
  /\ UNCHANGED <<seat, nextSeat>>
  /\ Release(Retired, [s \in Work |-> IF s \in Retired \cap Waiting THEN "none" ELSE turn[s]])

(* onInvalidated, for every listener the pause calls: whoever waits is     *)
(* cancelled, whoever runs loses its claim on the order only.              *)
Invalidate ==
  /\ retained' = retained - Cardinality(Retired \cap Waiting)
  /\ UNCHANGED <<seat, nextSeat>>
  /\ Release(Retired, [s \in Work |-> IF s \in Retired \cap Waiting THEN "over" ELSE turn[s]])

CloseAccount(p) == Pause(p) /\ Invalidate

SendNext ==
  \/ \E s \in Work :
       \/ Draft(s) \/ Submit(s) \/ TurnAway(s) \/ SubmitStale(s)
       \/ Begin(s) \/ Abandon(s) \/ Finish(s) \/ Expire(s) \/ Return(s)
  \/ \E p \in Pauser :
       \/ CloseAccount(p)
       \/ Drained(p) /\ UNCHANGED queueVars
  \/ Resume /\ UNCHANGED queueVars

SendSpec == SendInit /\ [][SendNext]_sendVars

(* Promise continuations run and timers fire.  Nothing is assumed of the   *)
(* tasks: a request may hang for ever.                                     *)
SendFairSpec ==
  /\ SendSpec
  /\ \A s \in Work : /\ WF_sendVars(Begin(s) \/ Abandon(s))
                     /\ WF_sendVars(Expire(s)) /\ WF_sendVars(Return(s))
  /\ \A p \in Pauser : WF_sendVars(Drained(p) /\ UNCHANGED queueVars)

-----------------------------------------------------------------------------
(* Properties. *)

(* A chat's turn belongs to one send at a time. *)
OneTurnPerChat == \A s, t \in Holders : ChatOf[s] = ChatOf[t] => s = t

(* Who waits belongs to the present account, and can still be woken. *)
WaitersAreCurrent == \A s \in Waiting : Current(s) /\ watch[s] = "live"

(* The books agree: the busy chats are those of the sends that hold a      *)
(* turn, one each; slots and the retained count are within their limits    *)
(* and count what is really there; and nobody waits for a closed account.  *)
TurnsAgree ==
  /\ LeaseTypeOK /\ QueueTypeOK
  /\ activeChats = ChatsOf(Holders)
  /\ Holders \subseteq Running
  /\ OneTurnPerChat
  /\ WaitersAreCurrent
  /\ Cardinality(activeChats) <= MaxActive
  /\ retained = Cardinality(Waiting \cup Running) /\ retained <= MaxRetained

(* No slot is left idle: a send only waits while its chat is busy, or      *)
(* every slot is.                                                          *)
WorkConserving ==
  \A s \in Waiting : ChatOf[s] \in activeChats \/ Cardinality(activeChats) = MaxActive

(* The sends of S in the order of their seats: the i-th is the one with i  *)
(* seats up to its own.                                                    *)
UpTo(S, place, s) == {x \in S : place[x] <= place[s]}
Nth(S, place, i) == {s \in S : Cardinality(UpTo(S, place, s)) = i}
OneOf(S) == CHOOSE s \in S : TRUE
InOrder(S, place) == [i \in 1..Cardinality(S) |-> OneOf(Nth(S, place, i))]

(* What a chat sees of the queue. *)
LineOf(chat)   == {s \in Waiting : ChatOf[s] = chat}
HolderOf(chat) == {s \in Holders : ChatOf[s] = chat}

Promise == INSTANCE ChatTurns WITH
  Send   <- Work,
  line   <- [chat \in Chat |-> InOrder(LineOf(chat), seat)],
  holder <- [chat \in Chat |-> HolderOf(chat)]

(* Whatever the slots, windows and cancellations, each chat sends in order *)
(* of admission and one at a time.                                         *)
KeepsChatOrder == Promise!TurnsSpec

(* A send that hangs never wedges the ones behind it: every queued send    *)
(* leaves the queue though no task need ever settle.                       *)
NoWedge == \A s \in Work : turn[s] = "queued" ~> turn[s] # "queued"

(* Closing the account only has to wait for tasks that really run: a       *)
(* waiting send, or one granted a turn it has not used, never holds up the *)
(* drain.                                                                  *)
DrainWaitsForTasks ==
  \A p \in Pauser :
    pause[p] = "waiting" ~>
      pause[p] = "drained" \/ \A s \in awaited[p] \cap Admitted : turn[s] = "working"

=============================================================================
