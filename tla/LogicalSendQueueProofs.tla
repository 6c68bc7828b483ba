----------------------- MODULE LogicalSendQueueProofs -----------------------
(***************************************************************************)
(* The logical send queue for any sends, chats and limits: one turn per    *)
(* chat, books that agree, nobody waiting for a closed account; the        *)
(* barrier's promises, which hold under the queue as they do alone; and    *)
(* the order of each chat, as a refinement of ChatTurns.                   *)
(***************************************************************************)
EXTENDS LogicalSendQueue, DeliveryLeaseProofs, FiniteSetTheorems,
        SequenceTheorems, WellFoundedInduction

(* What the queue does to the barrier is a step of the barrier's gate.     *)
LEMMA SendGateSteps == [SendNext]_sendVars => GateStep
<1> SUFFICES ASSUME [SendNext]_sendVars PROVE GateStep
  OBVIOUS
<1> USE DEF GateStep, leaseVars, gateVars, workVars, pauseVars, historyVars
<1>1. ASSUME NEW s \in Work,
             Draft(s) \/ Submit(s) \/ TurnAway(s) \/ SubmitStale(s) \/ Return(s)
      PROVE  GateStep
  BY <1>1 DEF Draft, Submit, TurnAway, SubmitStale, Return
<1>2. ASSUME NEW s \in Work, Begin(s) \/ Abandon(s) \/ Finish(s) \/ Expire(s)
      PROVE  GateStep
  BY <1>2 DEF Begin, Abandon, Finish, Expire
<1>3. ASSUME NEW p \in Pauser, CloseAccount(p) \/ Drained(p) PROVE GateStep
  BY <1>3 DEF CloseAccount
<1>4. ASSUME Resume \/ UNCHANGED sendVars PROVE GateStep
  BY <1>4 DEF sendVars
<1> QED
  BY <1>1, <1>2, <1>3, <1>4 DEF SendNext

-----------------------------------------------------------------------------
(* What a pump leaves.                                                     *)

Seated(waiting) == \A s, t \in waiting : seat'[s] = seat'[t] => s = t

(* From one holder per chat to one holder per chat: of two waiting sends   *)
(* of a chat only the one ahead can start, and neither while it is busy.   *)
LEMMA HandOnGivesOneTurn ==
  ASSUME NEW inTurn, NEW holding \in SUBSET Work, NEW busy,
         inTurn \in [Work -> {"none", "queued", "granted", "working", "over"}],
         seat' \in [Work -> Nat],
         busy = ChatsOf(holding),
         \A s, t \in holding : ChatOf[s] = ChatOf[t] => s = t,
         \A s \in holding : inTurn[s] \in {"granted", "working"},
         Seated({s \in Work : inTurn[s] = "queued"}),
         HandOn(inTurn, holding, busy)
  PROVE  /\ turn' \in [Work -> {"none", "queued", "granted", "working", "over"}]
         /\ holds' \in [Work -> BOOLEAN]
         /\ activeChats' = ChatsOf(Holders')
         /\ Holders' \subseteq Running'
         /\ OneTurnPerChat'
         /\ \A s \in Work : turn'[s] = inTurn[s] \/ (inTurn[s] = "queued" /\ turn'[s] = "granted")
<1> DEFINE waiting == {s \in Work : inTurn[s] = "queued"}
           started == Starts(waiting, busy)
<1>1. /\ turn' = [s \in Work |-> IF s \in started THEN "granted" ELSE inTurn[s]]
      /\ holds' = [s \in Work |-> s \in holding \cup started]
      /\ activeChats' = busy \cup ChatsOf(started)
  BY DEF HandOn
<1>2. started \subseteq waiting /\ waiting \subseteq Work
  BY DEF Starts
<1>3. Holders' = holding \cup started
  BY <1>1, <1>2 DEF Holders
<1>4. activeChats' = ChatsOf(Holders')
  BY <1>1, <1>3 DEF ChatsOf
<1>5. \A s \in started : ChatOf[s] \notin busy
  BY DEF Starts
<1>6. ASSUME NEW s \in started, NEW t \in started, ChatOf[s] = ChatOf[t] PROVE s = t
  <2>1. ~(seat'[s] < seat'[t])
    <3> SUFFICES ASSUME seat'[s] < seat'[t] PROVE FALSE
      OBVIOUS
    <3>1. s \in {x \in waiting : seat'[x] < seat'[t]}
      BY <1>2
    <3>2. ChatOf[t] \notin ChatsOf({x \in waiting : seat'[x] < seat'[t]})
      BY DEF Starts
    <3> QED
      BY <1>6, <3>1, <3>2 DEF ChatsOf
  <2>2. ~(seat'[t] < seat'[s])
    <3> SUFFICES ASSUME seat'[t] < seat'[s] PROVE FALSE
      OBVIOUS
    <3>1. t \in {x \in waiting : seat'[x] < seat'[s]}
      BY <1>2
    <3>2. ChatOf[s] \notin ChatsOf({x \in waiting : seat'[x] < seat'[s]})
      BY DEF Starts
    <3> QED
      BY <1>6, <3>1, <3>2 DEF ChatsOf
  <2>3. seat'[s] \in Nat /\ seat'[t] \in Nat /\ s \in waiting /\ t \in waiting
    BY <1>2
  <2> QED
    BY <2>1, <2>2, <2>3 DEF Seated
<1>7. OneTurnPerChat'
  <2> SUFFICES ASSUME NEW s \in holding \cup started, NEW t \in holding \cup started,
                      ChatOf[s] = ChatOf[t]
               PROVE  s = t
    BY <1>3 DEF OneTurnPerChat
  <2> QED
    BY <1>5, <1>6 DEF ChatsOf
<1>8. Holders' \subseteq Running'
  BY <1>1, <1>2, <1>3 DEF Running
<1>9. \A s \in Work : turn'[s] = inTurn[s] \/ (inTurn[s] = "queued" /\ turn'[s] = "granted")
  BY <1>1, <1>2
<1> QED
  BY <1>1, <1>4, <1>7, <1>8, <1>9

-----------------------------------------------------------------------------
(* The inductive invariant: the books, the seats, and the place of a send  *)
(* in the queue against its place at the barrier.                          *)
InQueue == Waiting \cup Running

Counted ==
  /\ IsFiniteSet(InQueue)
  /\ retained = Cardinality(InQueue) /\ retained <= MaxRetained

QueueInv ==
  /\ LeaseTypeOK /\ QueueTypeOK
  /\ Counted
  /\ activeChats = ChatsOf(Holders)
  /\ Holders \subseteq Running
  /\ OneTurnPerChat
  /\ WaitersAreCurrent
  /\ \A s, t \in Waiting : seat[s] = seat[t] => s = t
  /\ \A s \in Waiting : seat[s] < nextSeat
  /\ \A s \in Work : stage[s] # "admitted" => turn[s] \in {"none", "over"}
  /\ \A s \in Work : stage[s] \in {"new", "held"} => turn[s] = "none"

(* releaseOrdering, for any sends that give up what they may hold.         *)
LEMMA ReleaseKeepsTurns ==
  ASSUME QueueInv, NEW S \in SUBSET Work, NEW inTurn,
         inTurn \in [Work -> {"none", "queued", "granted", "working", "over"}],
         seat' = seat,
         \A s \in Work : inTurn[s] = turn[s]
                           \/ (s \in S /\ inTurn[s] \in {"over", "working"}),
         Release(S, inTurn)
  PROVE  /\ turn' \in [Work -> {"none", "queued", "granted", "working", "over"}]
         /\ holds' \in [Work -> BOOLEAN]
         /\ activeChats' \in SUBSET Chat
         /\ activeChats' = ChatsOf(Holders')
         /\ Holders' \subseteq Running'
         /\ OneTurnPerChat'
         /\ \A s \in Work : turn'[s] = inTurn[s] \/ (inTurn[s] = "queued" /\ turn'[s] = "granted")
<1>0. /\ turn \in [Work -> {"none", "queued", "granted", "working", "over"}]
      /\ holds \in [Work -> BOOLEAN] /\ seat \in [Work -> Nat]
  BY DEF QueueInv, QueueTypeOK
<1>1. CASE S \cap Holders = {}
  <2>1. turn' = inTurn /\ holds' = holds /\ activeChats' = activeChats
    BY <1>1 DEF Release
  <2>2. Holders' = Holders
    BY <2>1 DEF Holders
  <2>3. \A s \in Holders : inTurn[s] = turn[s]
    BY <1>1 DEF Holders
  <2>4. Holders' \subseteq Running'
    BY <2>1, <2>2, <2>3 DEF QueueInv, Running, Holders
  <2> QED
    BY <1>0, <2>1, <2>2, <2>4 DEF QueueInv, QueueTypeOK, OneTurnPerChat
<1>2. CASE S \cap Holders # {}
  <2> DEFINE holding == Holders \ S
             busy == activeChats \ ChatsOf(S \cap Holders)
             waiting == {s \in Work : inTurn[s] = "queued"}
  <2>1. HandOn(inTurn, holding, busy)
    BY <1>2 DEF Release
  <2>2. busy = ChatsOf(holding)
    <3>1. \A s \in Holders, t \in Holders : ChatOf[s] = ChatOf[t] => s = t
      BY DEF QueueInv, OneTurnPerChat
    <3>2. activeChats = ChatsOf(Holders)
      BY DEF QueueInv
    <3> QED
      BY <3>1, <3>2 DEF ChatsOf
  <2>3. \A s, t \in holding : ChatOf[s] = ChatOf[t] => s = t
    BY DEF QueueInv, OneTurnPerChat
  <2>4. holding \in SUBSET Work /\ \A s \in holding : inTurn[s] \in {"granted", "working"}
    BY DEF QueueInv, Running, Holders
  <2>5. waiting \subseteq Waiting
    BY DEF Waiting
  <2>6. Seated(waiting)
    BY <2>5 DEF Seated, QueueInv
  <2> HIDE DEF holding, busy
  <2>7. /\ turn' \in [Work -> {"none", "queued", "granted", "working", "over"}]
        /\ holds' \in [Work -> BOOLEAN]
        /\ activeChats' = ChatsOf(Holders')
        /\ Holders' \subseteq Running'
        /\ OneTurnPerChat'
        /\ \A s \in Work : turn'[s] = inTurn[s]
                             \/ (inTurn[s] = "queued" /\ turn'[s] = "granted")
    BY <1>0, <2>1, <2>2, <2>3, <2>4, <2>6, HandOnGivesOneTurn
  <2>8. ChatsOf(Holders') \subseteq Chat
    BY QueueAssumption DEF ChatsOf, Holders
  <2> QED
    BY <2>7, <2>8
<1> QED
  BY <1>1, <1>2

-----------------------------------------------------------------------------
(* The steps, by what they do to the queue.                                *)

(* A send that holds no turn and waits for none is no part of the books.   *)
LEMMA DraftStep ==
  ASSUME QueueInv, NEW s \in Work, Draft(s) PROVE QueueInv'
<1>1. stage[s] = "new" /\ turn[s] = "none" /\ UNCHANGED <<gateVars, watch, queueVars>>
  BY DEF Draft, Capture, QueueInv
<1>2. /\ Waiting' = Waiting /\ Holders' = Holders /\ Running' = Running
      /\ QueueTypeOK' /\ OneTurnPerChat' /\ Counted'
  BY <1>1 DEF queueVars, Waiting, Holders, Running, QueueInv, QueueTypeOK, OneTurnPerChat,
              Counted, InQueue
<1>3. LeaseTypeOK'
  BY DEF Draft, Capture, QueueInv, LeaseTypeOK, Lease, gateVars, pauseVars
<1>4. \A t \in Work : t # s => lease'[t] = lease[t] /\ stage'[t] = stage[t]
  BY DEF Draft, Capture, QueueInv, LeaseTypeOK
<1>5. WaitersAreCurrent'
  <2> SUFFICES ASSUME NEW t \in Waiting PROVE Current(t)' /\ watch'[t] = "live"
    BY <1>2 DEF WaitersAreCurrent
  <2>1. t \in Work /\ t # s
    BY <1>1 DEF Waiting
  <2> QED
    BY <1>1, <1>4, <2>1 DEF QueueInv, WaitersAreCurrent, Current, gateVars
<1>6. stage'[s] = "held"
  BY DEF Draft, Capture, QueueInv, LeaseTypeOK
<1> QED
  BY <1>1, <1>2, <1>3, <1>4, <1>5, <1>6 DEF QueueInv, queueVars, ChatsOf

(* A new entry sits behind all others, and the pump may start it or any.   *)
LEMMA SubmitStep ==
  ASSUME QueueInv, NEW s \in Work, Submit(s) PROVE QueueInv'
<1> DEFINE inTurn == [turn EXCEPT ![s] = "queued"]
           waiting == {t \in Work : inTurn[t] = "queued"}
<1>1. /\ stage[s] = "held" /\ Current(s) /\ turn[s] = "none"
      /\ UNCHANGED <<gateVars, lease, pauseVars>>
      /\ stage' = [stage EXCEPT ![s] = "admitted"]
      /\ watch' = [watch EXCEPT ![s] = "live"]
  BY DEF Submit, Admit, QueueInv, Listen, Current
<1>2. LeaseTypeOK'
  BY DEF Submit, Admit, Listen, QueueInv, LeaseTypeOK, gateVars, pauseVars
<1>3. /\ turn \in [Work -> {"none", "queued", "granted", "working", "over"}]
      /\ inTurn \in [Work -> {"none", "queued", "granted", "working", "over"}]
      /\ seat \in [Work -> Nat] /\ nextSeat \in Nat /\ retained \in Int
  BY DEF QueueInv, QueueTypeOK
<1>4. /\ seat' = [seat EXCEPT ![s] = nextSeat] /\ nextSeat' = nextSeat + 1
      /\ retained' = retained + 1
      /\ HandOn(inTurn, Holders, activeChats)
  BY DEF Submit
<1>5. waiting = Waiting \cup {s} /\ s \notin Waiting
  BY <1>1, <1>3 DEF Waiting
<1>6. \A t \in Waiting : seat'[t] = seat[t] /\ seat[t] < nextSeat
  BY <1>3, <1>4, <1>5 DEF QueueInv, Waiting
<1>7. seat'[s] = nextSeat /\ seat' \in [Work -> Nat]
  BY <1>3, <1>4
<1>8. Seated(waiting)
  <2>1. \A t \in Waiting : seat[t] \in Nat
    BY <1>3 DEF Waiting
  <2> QED
    BY <1>3, <1>5, <1>6, <1>7, <2>1 DEF Seated, QueueInv
<1>9. /\ \A t, u \in Holders : ChatOf[t] = ChatOf[u] => t = u
      /\ \A t \in Holders : inTurn[t] \in {"granted", "working"}
      /\ Holders \in SUBSET Work /\ activeChats = ChatsOf(Holders)
  BY <1>1, <1>3 DEF QueueInv, OneTurnPerChat, Holders, Running
<1>10. /\ turn' \in [Work -> {"none", "queued", "granted", "working", "over"}]
       /\ holds' \in [Work -> BOOLEAN]
       /\ activeChats' = ChatsOf(Holders')
       /\ Holders' \subseteq Running'
       /\ OneTurnPerChat'
       /\ \A t \in Work : turn'[t] = inTurn[t]
                            \/ (inTurn[t] = "queued" /\ turn'[t] = "granted")
  <2> HIDE DEF inTurn
  <2> QED
    BY <1>3, <1>4, <1>7, <1>8, <1>9, HandOnGivesOneTurn
<1>11. Waiting' \subseteq waiting
  BY <1>10 DEF Waiting
<1>12. QueueTypeOK'
  <2>1. ChatsOf(Holders') \subseteq Chat
    BY QueueAssumption DEF ChatsOf, Holders
  <2> QED
    BY <1>3, <1>4, <1>7, <1>10, <2>1 DEF QueueTypeOK
<1>13. WaitersAreCurrent'
  <2> SUFFICES ASSUME NEW t \in waiting PROVE Current(t)' /\ watch'[t] = "live"
    BY <1>11 DEF WaitersAreCurrent
  <2>1. Current(t) /\ (watch[t] = "live" \/ t = s) /\ t \in Work
    BY <1>1, <1>5 DEF QueueInv, WaitersAreCurrent
  <2>2. watch'[t] = "live"
    BY <1>1, <2>1 DEF QueueInv, LeaseTypeOK
  <2> QED
    BY <1>1, <2>1, <2>2 DEF Current, gateVars
<1>14. \A t, u \in Waiting' : seat'[t] = seat'[u] => t = u
  BY <1>8, <1>11 DEF Seated
<1>15. \A t \in Waiting' : seat'[t] < nextSeat'
  <2> SUFFICES ASSUME NEW t \in waiting PROVE seat'[t] < nextSeat'
    BY <1>11
  <2>1. seat'[t] \in Nat /\ (t \in Waiting \/ t = s)
    BY <1>5, <1>7
  <2> QED
    BY <1>3, <1>4, <1>6, <1>7, <2>1
<1>19. Counted'
  <2>1. InQueue' = InQueue \cup {s} /\ s \notin InQueue
    <3>1. \A t \in Work : t # s => inTurn[t] = turn[t]
      BY <1>3
    <3>2. inTurn[s] = "queued"
      BY <1>3
    <3> HIDE DEF inTurn
    <3>3. \A t \in Work : t \in InQueue' <=> t \in InQueue \/ t = s
      BY <1>10, <3>1, <3>2 DEF InQueue, Waiting, Running
    <3> QED
      BY <1>1, <3>3 DEF InQueue, Waiting, Running
  <2>2. IsFiniteSet(InQueue) /\ retained = Cardinality(InQueue)
    BY DEF QueueInv, Counted
  <2>3. IsFiniteSet(InQueue') /\ Cardinality(InQueue') = Cardinality(InQueue) + 1
    BY <2>1, <2>2, FS_AddElement
  <2>4. retained < MaxRetained
    BY DEF Submit
  <2> QED
    BY <1>3, <1>4, <2>2, <2>3, <2>4, QueueAssumption DEF Counted
<1>16. /\ stage'[s] = "admitted"
       /\ \A t \in Work \ {s} : stage'[t] = stage[t] /\ inTurn[t] = turn[t]
  BY <1>1, <1>3 DEF QueueInv, LeaseTypeOK
<1>17. \A t \in Work \ {s} : /\ stage[t] # "admitted" => turn[t] \in {"none", "over"}
                             /\ stage[t] \in {"new", "held"} => turn[t] = "none"
  BY DEF QueueInv
<1>18. \A t \in Work : /\ stage'[t] # "admitted" => turn'[t] \in {"none", "over"}
                       /\ stage'[t] \in {"new", "held"} => turn'[t] = "none"
  <2> HIDE DEF inTurn
  <2> QED
    BY <1>10, <1>16, <1>17
<1> QED
  BY <1>2, <1>10, <1>12, <1>13, <1>14, <1>15, <1>18, <1>19 DEF QueueInv

(* Admitted or refused without a place in the queue; or out of it already. *)
LEMMA TurnAwayStep ==
  ASSUME QueueInv, NEW s \in Work, TurnAway(s) PROVE QueueInv'
<1>1. /\ stage[s] = "held" /\ turn[s] = "none"
      /\ UNCHANGED <<gateVars, lease, watch, pauseVars, holds, activeChats,
                     retained, seat, nextSeat>>
      /\ stage' = [stage EXCEPT ![s] = "admitted"]
      /\ turn' = [turn EXCEPT ![s] = "over"]
  BY DEF TurnAway, Admit, QueueInv
<1>2. /\ stage'[s] = "admitted" /\ turn'[s] = "over"
      /\ \A t \in Work : t # s => turn'[t] = turn[t] /\ stage'[t] = stage[t]
  BY <1>1 DEF QueueInv, QueueTypeOK, LeaseTypeOK
<1>3. Waiting' = Waiting /\ Running' = Running /\ Holders' = Holders
  BY <1>1, <1>2 DEF Waiting, Running, Holders
<1>4. LeaseTypeOK'
  BY DEF TurnAway, Admit, QueueInv, LeaseTypeOK, gateVars, pauseVars
<1>5. QueueTypeOK'
  BY <1>1 DEF QueueInv, QueueTypeOK
<1>6. WaitersAreCurrent' /\ OneTurnPerChat' /\ Counted'
  BY <1>1, <1>3 DEF QueueInv, WaitersAreCurrent, OneTurnPerChat, Current, gateVars,
                    Counted, InQueue
<1> QED
  BY <1>1, <1>2, <1>3, <1>4, <1>5, <1>6 DEF QueueInv, ChatsOf

(* A stale send is refused, or a settled one gives its slot back.          *)
LEMMA OutsideStep ==
  ASSUME QueueInv, NEW s \in Work, SubmitStale(s) \/ Return(s) PROVE QueueInv'
<1>1. /\ turn[s] \in {"none", "over"}
      /\ UNCHANGED <<gateVars, lease, watch, pauseVars, queueVars>>
      /\ \/ stage' = [stage EXCEPT ![s] = "refused"]
         \/ stage' = [stage EXCEPT ![s] = "settled"]
  BY DEF SubmitStale, Refuse, Return, Settle, QueueInv
<1>2. /\ stage'[s] \in {"refused", "settled"}
      /\ \A t \in Work : t # s => stage'[t] = stage[t]
  BY <1>1 DEF QueueInv, LeaseTypeOK
<1>3. Waiting' = Waiting /\ Running' = Running /\ Holders' = Holders
  BY <1>1 DEF Waiting, Running, Holders, queueVars
<1>4. LeaseTypeOK'
  BY DEF SubmitStale, Refuse, Return, Settle, QueueInv, LeaseTypeOK, gateVars, pauseVars,
         historyVars
<1>5. QueueTypeOK'
  BY <1>1 DEF QueueInv, QueueTypeOK, queueVars
<1>6. WaitersAreCurrent' /\ OneTurnPerChat' /\ Counted'
  BY <1>1, <1>3 DEF QueueInv, WaitersAreCurrent, OneTurnPerChat, Current, gateVars, queueVars,
                    Counted, InQueue
<1> QED
  BY <1>1, <1>2, <1>3, <1>4, <1>5, <1>6 DEF QueueInv, ChatsOf, queueVars

(* A step that leaves the barrier alone, up to one send's listener, and    *)
(* releases some turns.                                                    *)
LEMMA ReleaseStep ==
  ASSUME QueueInv, NEW s \in Work, NEW inTurn,
         inTurn \in {turn, [turn EXCEPT ![s] = "over"]}, s \in Running,
         UNCHANGED <<gateVars, lease, stage, pauseVars, historyVars, seat, nextSeat>>,
         watch' \in [Work -> {"none", "live", "woken", "over"}],
         \A t \in Work : t # s => watch'[t] = watch[t],
         retained' = IF inTurn = turn THEN retained ELSE retained - 1,
         Release({s}, inTurn)
  PROVE  QueueInv'
<1>0. /\ turn \in [Work -> {"none", "queued", "granted", "working", "over"}]
      /\ inTurn \in [Work -> {"none", "queued", "granted", "working", "over"}]
      /\ \A t \in Work : t # s => inTurn[t] = turn[t]
      /\ inTurn[s] \in {turn[s], "over"} /\ inTurn[s] # "queued" /\ turn[s] # "none"
  BY DEF QueueInv, QueueTypeOK, Running
<1>1. /\ turn' \in [Work -> {"none", "queued", "granted", "working", "over"}]
      /\ holds' \in [Work -> BOOLEAN]
      /\ activeChats' \in SUBSET Chat
      /\ activeChats' = ChatsOf(Holders')
      /\ Holders' \subseteq Running'
      /\ OneTurnPerChat'
      /\ \A t \in Work : turn'[t] = inTurn[t]
                           \/ (inTurn[t] = "queued" /\ turn'[t] = "granted")
  <2>1. {s} \in SUBSET Work /\ seat' = seat
    OBVIOUS
  <2>2. \A t \in Work : inTurn[t] = turn[t] \/ (t \in {s} /\ inTurn[t] \in {"over", "working"})
    BY <1>0
  <2> QED
    BY <1>0, <2>1, <2>2, ReleaseKeepsTurns
<1>2. LeaseTypeOK' /\ QueueTypeOK'
  BY <1>1 DEF QueueInv, LeaseTypeOK, QueueTypeOK, gateVars, pauseVars, historyVars
<1>8. Counted'
  <2>1. IsFiniteSet(InQueue) /\ retained = Cardinality(InQueue) /\ retained <= MaxRetained
    BY DEF QueueInv, Counted
  <2>2. s \in InQueue
    BY DEF InQueue
  <2>3. CASE inTurn = turn
    <3>1. \A t \in Work : t \in InQueue' <=> t \in InQueue
      BY <1>1, <2>3 DEF InQueue, Waiting, Running
    <3>2. InQueue' = InQueue
      BY <3>1 DEF InQueue, Waiting, Running
    <3> QED
      BY <2>1, <2>3, <3>2 DEF Counted
  <2>4. CASE inTurn # turn
    <3>1. inTurn[s] = "over"
      BY <1>0, <2>4
    <3>2. \A t \in Work : t \in InQueue' <=> t \in InQueue /\ t # s
      BY <1>0, <1>1, <3>1 DEF InQueue, Waiting, Running
    <3>3. InQueue' = InQueue \ {s}
      BY <3>2 DEF InQueue, Waiting, Running
    <3>4. IsFiniteSet(InQueue') /\ Cardinality(InQueue') = Cardinality(InQueue) - 1
      BY <2>1, <2>2, <3>3, FS_RemoveElement
    <3>5. retained \in Int
      BY DEF QueueInv, QueueTypeOK
    <3> QED
      BY <2>1, <2>4, <3>4, <3>5, QueueAssumption DEF Counted
  <2> QED
    BY <2>3, <2>4
<1>3. Waiting' \subseteq Waiting \ {s}
  BY <1>0, <1>1 DEF Waiting
<1>4. WaitersAreCurrent'
  BY <1>3 DEF QueueInv, WaitersAreCurrent, Waiting, Current, gateVars
<1>5. \A t \in Work : /\ stage[t] # "admitted" => turn[t] \in {"none", "over"}
                      /\ stage[t] \in {"new", "held"} => turn[t] = "none"
  BY DEF QueueInv
<1>6. stage[s] = "admitted"
  BY <1>5 DEF Running
<1>7. \A t \in Work : /\ stage'[t] # "admitted" => turn'[t] \in {"none", "over"}
                      /\ stage'[t] \in {"new", "held"} => turn'[t] = "none"
  <2> TAKE t \in Work
  <2>1. CASE t = s
    BY <1>6, <2>1
  <2>2. CASE t # s
    BY <1>0, <1>1, <1>5, <2>2
  <2> QED
    BY <2>1, <2>2
<1> QED
  BY <1>1, <1>2, <1>3, <1>4, <1>7, <1>8 DEF QueueInv


(* Finish, Abandon and Expire, for the send they are about.                *)
LEMMA RunningStep ==
  ASSUME QueueInv, NEW s \in Work, Begin(s) \/ Abandon(s) \/ Finish(s) \/ Expire(s)
  PROVE  QueueInv'
<1>1. CASE Begin(s)
  <2>1. /\ turn[s] = "granted" /\ turn' = [turn EXCEPT ![s] = "working"]
        /\ UNCHANGED <<leaseVars, holds, activeChats, retained, seat, nextSeat>>
    BY <1>1 DEF Begin
  <2>2. /\ turn'[s] = "working"
        /\ \A t \in Work : t # s => turn'[t] = turn[t]
    BY <2>1 DEF QueueInv, QueueTypeOK
  <2>3. Waiting' = Waiting /\ Running' = Running /\ Holders' = Holders
    BY <2>1, <2>2 DEF Waiting, Running, Holders
  <2>4. LeaseTypeOK' /\ QueueTypeOK'
    BY <2>1 DEF QueueInv, LeaseTypeOK, QueueTypeOK, leaseVars, gateVars, workVars,
                pauseVars, historyVars
  <2>5. WaitersAreCurrent' /\ OneTurnPerChat' /\ Counted'
    BY <2>1, <2>3 DEF QueueInv, WaitersAreCurrent, OneTurnPerChat, Current, leaseVars,
                      gateVars, workVars, Counted, InQueue
  <2>6. stage' = stage /\ stage[s] = "admitted"
    BY <2>1 DEF QueueInv, LeaseTypeOK, leaseVars, workVars
  <2> QED
    BY <2>1, <2>2, <2>3, <2>4, <2>5, <2>6 DEF QueueInv, ChatsOf
<1>2. CASE Abandon(s) \/ Finish(s)
  <2>1. /\ turn[s] \in {"granted", "working"} /\ retained' = retained - 1
        /\ UNCHANGED <<gateVars, lease, stage, pauseVars, historyVars, seat, nextSeat>>
        /\ Unlisten(s) /\ Release({s}, [turn EXCEPT ![s] = "over"])
    BY <1>2 DEF Abandon, Finish, Leave
  <2>2. /\ watch' \in [Work -> {"none", "live", "woken", "over"}]
        /\ \A t \in Work : t # s => watch'[t] = watch[t]
    BY <2>1 DEF Unlisten, QueueInv, LeaseTypeOK
  <2>3. s \in Running /\ [turn EXCEPT ![s] = "over"] # turn
    BY <2>1 DEF QueueInv, QueueTypeOK, Running
  <2> QED
    BY <2>1, <2>2, <2>3, ReleaseStep
<1>3. CASE Expire(s)
  <2>1. /\ s \in Running /\ retained' = retained
        /\ UNCHANGED <<gateVars, lease, stage, pauseVars, historyVars, seat, nextSeat>>
        /\ watch' = watch /\ Release({s}, turn)
    BY <1>3 DEF Expire, leaseVars, workVars
  <2>2. watch' \in [Work -> {"none", "live", "woken", "over"}]
    BY <2>1 DEF QueueInv, LeaseTypeOK
  <2> QED
    BY <2>1, <2>2, ReleaseStep
<1> QED
  BY <1>1, <1>2, <1>3

(* Closing the account: whoever waits is among the listeners of the        *)
(* generation that closes, so nobody waits any more.                       *)
LEMMA CloseStep ==
  ASSUME QueueInv, NEW p \in Pauser, CloseAccount(p) PROVE QueueInv'
<1> DEFINE inTurn == [s \in Work |-> IF s \in Retired \cap Waiting THEN "over" ELSE turn[s]]
<1>1. /\ turn \in [Work -> {"none", "queued", "granted", "working", "over"}]
      /\ retained \in Int
  BY DEF QueueInv, QueueTypeOK
<1>2. Waiting \subseteq Retired /\ Retired \in SUBSET Work
  BY DEF QueueInv, WaitersAreCurrent, Waiting, Current, Retired, Listeners
<1>3. \A s \in Work : /\ s \in Waiting => inTurn[s] = "over"
                      /\ s \notin Waiting => inTurn[s] = turn[s]
  BY <1>2
<1>4. /\ inTurn \in [Work -> {"none", "queued", "granted", "working", "over"}]
      /\ \A s \in Work : inTurn[s] # "queued"
      /\ \A s \in Work : inTurn[s] = turn[s] \/ (s \in Retired /\ inTurn[s] \in {"over", "working"})
  BY <1>1, <1>2, <1>3 DEF Waiting
<1>5. seat' = seat /\ nextSeat' = nextSeat /\ Release(Retired, inTurn)
  BY DEF CloseAccount, Invalidate
<1>6. /\ turn' \in [Work -> {"none", "queued", "granted", "working", "over"}]
      /\ holds' \in [Work -> BOOLEAN]
      /\ activeChats' \in SUBSET Chat
      /\ activeChats' = ChatsOf(Holders')
      /\ Holders' \subseteq Running'
      /\ OneTurnPerChat'
      /\ \A s \in Work : turn'[s] = inTurn[s]
                           \/ (inTurn[s] = "queued" /\ turn'[s] = "granted")
  <2> HIDE DEF inTurn
  <2> QED
    BY <1>2, <1>4, <1>5, ReleaseKeepsTurns
<1>7. Waiting' = {}
  BY <1>4, <1>6 DEF Waiting
<1>8. LeaseTypeOK'
  BY LeaseTypeStep DEF CloseAccount, QueueInv, LeaseNext
<1>12. Counted' /\ retained' \in Int
  <2>1. IsFiniteSet(InQueue) /\ retained = Cardinality(InQueue) /\ retained <= MaxRetained
    BY DEF QueueInv, Counted
  <2>2. \A s \in Work : s \in InQueue' <=> s \in InQueue /\ s \notin Waiting
    <3> HIDE DEF inTurn
    <3> QED
      BY <1>3, <1>4, <1>6 DEF InQueue, Waiting, Running
  <2>3. InQueue' = InQueue \ Waiting /\ InQueue \cap Waiting = Waiting
    BY <2>2 DEF InQueue, Waiting, Running
  <2>4. /\ IsFiniteSet(InQueue')
        /\ Cardinality(InQueue') = Cardinality(InQueue) - Cardinality(Waiting)
    BY <2>1, <2>3, FS_Difference
  <2>5. Cardinality(Waiting) \in Nat
    BY <2>1, FS_Subset, FS_CardinalityType DEF InQueue
  <2>6. Retired \cap Waiting = Waiting
    BY <1>2
  <2>7. retained' = retained - Cardinality(Waiting)
    BY <2>6 DEF CloseAccount, Invalidate
  <2> QED
    BY <1>1, <2>1, <2>4, <2>5, <2>7, QueueAssumption DEF Counted
<1>9. QueueTypeOK'
  BY <1>5, <1>6, <1>12 DEF QueueInv, QueueTypeOK
<1>10. stage' = stage
  BY DEF CloseAccount, Pause
<1>11. \A s \in Work : /\ stage'[s] # "admitted" => turn'[s] \in {"none", "over"}
                       /\ stage'[s] \in {"new", "held"} => turn'[s] = "none"
  <2> TAKE s \in Work
  <2>1. turn'[s] = inTurn[s]
    BY <1>4, <1>6
  <2>2. /\ stage[s] # "admitted" => turn[s] \in {"none", "over"}
        /\ stage[s] \in {"new", "held"} => turn[s] = "none"
    BY DEF QueueInv
  <2> QED
    BY <1>3, <1>10, <2>1, <2>2 DEF Waiting
<1> QED
  BY <1>6, <1>7, <1>8, <1>9, <1>11, <1>12 DEF QueueInv, WaitersAreCurrent


(* The resume of the barrier finds nobody waiting.                         *)
LEMMA GateOnlyStep ==
  ASSUME QueueInv, UNCHANGED queueVars, UNCHANGED <<lease, stage, watch>>, LeaseTypeOK',
         UNCHANGED gateVars \/ Waiting = {}
  PROVE  QueueInv'
<1>1. /\ Waiting' = Waiting /\ Holders' = Holders /\ Running' = Running
      /\ QueueTypeOK' /\ OneTurnPerChat' /\ Counted'
  BY DEF queueVars, Waiting, Holders, Running, QueueInv, QueueTypeOK, OneTurnPerChat,
         Counted, InQueue
<1>2. WaitersAreCurrent'
  BY <1>1 DEF QueueInv, WaitersAreCurrent, Current, gateVars
<1> QED
  BY <1>1, <1>2 DEF QueueInv, ChatsOf, queueVars

(* Every step keeps the invariant.                                         *)
LEMMA QueueStep == QueueInv /\ [SendNext]_sendVars => QueueInv'
<1> SUFFICES ASSUME QueueInv, [SendNext]_sendVars PROVE QueueInv'
  OBVIOUS
<1>1. ASSUME NEW s \in Work,
             \/ Draft(s) \/ Submit(s) \/ TurnAway(s) \/ SubmitStale(s)
             \/ Begin(s) \/ Abandon(s) \/ Finish(s) \/ Expire(s) \/ Return(s)
      PROVE  QueueInv'
  BY <1>1, DraftStep, SubmitStep, TurnAwayStep, OutsideStep, RunningStep
<1>2. ASSUME NEW p \in Pauser, CloseAccount(p) PROVE QueueInv'
  BY <1>2, CloseStep
<1>3. ASSUME NEW p \in Pauser, Drained(p), UNCHANGED queueVars PROVE QueueInv'
  <2>1. LeaseTypeOK'
    BY <1>3, LeaseTypeStep DEF QueueInv, LeaseNext
  <2>2. UNCHANGED gateVars /\ UNCHANGED <<lease, stage, watch>>
    BY <1>3 DEF Drained, workVars
  <2> QED
    BY <1>3, <2>1, <2>2, GateOnlyStep
<1>4. CASE Resume /\ UNCHANGED queueVars
  <2>1. LeaseTypeOK'
    BY <1>4, LeaseTypeStep DEF QueueInv, LeaseNext
  <2>2. Waiting = {}
    BY <1>4 DEF Resume, QueueInv, WaitersAreCurrent, Current
  <2>3. UNCHANGED <<lease, stage, watch>>
    BY <1>4 DEF Resume, workVars
  <2> QED
    BY <1>4, <2>1, <2>2, <2>3, GateOnlyStep
<1>5. CASE UNCHANGED sendVars
  <2>1. UNCHANGED queueVars /\ UNCHANGED gateVars /\ UNCHANGED <<lease, stage, watch>>
    BY <1>5 DEF sendVars, leaseVars, workVars
  <2>2. LeaseTypeOK'
    BY <1>5, LeaseTypeStep DEF QueueInv, sendVars
  <2> QED
    BY <2>1, <2>2, GateOnlyStep
<1> QED
  BY <1>1, <1>2, <1>3, <1>4, <1>5 DEF SendNext

(* The empty queue satisfies it.                                           *)
LEMMA QueueInitInv == SendInit => QueueInv
<1> SUFFICES ASSUME SendInit PROVE QueueInv
  OBVIOUS
<1>1. Waiting = {} /\ Running = {} /\ Holders = {}
  BY DEF SendInit, Waiting, Running, Holders
<1>2. InQueue = {} /\ IsFiniteSet({}) /\ Cardinality({}) = 0
  BY <1>1, FS_EmptySet DEF InQueue
<1>3. Counted
  BY <1>2, QueueAssumption DEF Counted, SendInit
<1>4. LeaseTypeOK
  BY LeaseInitInvs DEF SendInit
<1>5. QueueTypeOK
  BY DEF SendInit, QueueTypeOK
<1>6. activeChats = ChatsOf(Holders)
  BY <1>1 DEF SendInit, ChatsOf
<1>7. stage = [w \in Work |-> "new"] /\ turn = [s \in Work |-> "none"]
  BY DEF SendInit, LeaseInit
<1> QED
  BY <1>1, <1>3, <1>4, <1>5, <1>6, <1>7 DEF QueueInv, OneTurnPerChat, WaitersAreCurrent

(* So it holds in every behaviour.                                         *)
LEMMA QueueInvariant == SendSpec => []QueueInv
  BY QueueInitInv, QueueStep, PTL DEF SendSpec

-----------------------------------------------------------------------------
(* Slots.                                                                  *)

(* Of finitely many seats one is the last: the set of those beyond it is   *)
(* the least under inclusion.                                              *)
LEMMA LastSeat ==
  ASSUME NEW S, IsFiniteSet(S), S # {}, NEW place, \A s \in S : place[s] \in Nat
  PROVE  \E s \in S : \A t \in S : ~(place[t] > place[s])
<1> DEFINE Beyond(s) == {t \in S : place[t] > place[s]}
           Tails == {Beyond(s) : s \in S}
<1>1. Tails \subseteq SUBSET S /\ Tails # {}
  OBVIOUS
<1>2. FiniteSubsetsOf(S) = SUBSET S
  BY FS_FiniteSubsetsOfFinite
<1>3. IsWellFoundedOn(StrictSubsetOrdering(S), FiniteSubsetsOf(S))
  BY FS_StrictSubsetOrderingWellFounded
<1>4. PICK T \in Tails : \A U \in Tails : ~(<<U, T>> \in StrictSubsetOrdering(S))
  <2> HIDE DEF Tails
  <2> QED
    BY <1>1, <1>2, <1>3, WFMin
<1>5. PICK s \in S : T = Beyond(s)
  OBVIOUS
<1> SUFFICES ASSUME NEW t \in S, place[t] > place[s] PROVE FALSE
  OBVIOUS
<1>6. Beyond(t) \subseteq Beyond(s) /\ t \in Beyond(s) /\ t \notin Beyond(t)
  OBVIOUS
<1>7. Beyond(t) \in SUBSET S /\ Beyond(s) \in SUBSET S /\ Beyond(t) \in Tails
  OBVIOUS
<1>8. <<Beyond(t), Beyond(s)>> \in StrictSubsetOrdering(S)
  <2> HIDE DEF Beyond
  <2> QED
    BY <1>6, <1>7 DEF StrictSubsetOrdering
<1> QED
  BY <1>4, <1>5, <1>7, <1>8

(* The same for the least seat.                                            *)
LEMMA FirstSeat ==
  ASSUME NEW S, IsFiniteSet(S), S # {}, NEW place, \A s \in S : place[s] \in Nat
  PROVE  \E s \in S : \A t \in S : ~(place[t] < place[s])
<1> DEFINE Before(s) == {t \in S : place[t] < place[s]}
           Heads == {Before(s) : s \in S}
<1>1. Heads \subseteq SUBSET S /\ Heads # {}
  OBVIOUS
<1>2. FiniteSubsetsOf(S) = SUBSET S
  BY FS_FiniteSubsetsOfFinite
<1>3. IsWellFoundedOn(StrictSubsetOrdering(S), FiniteSubsetsOf(S))
  BY FS_StrictSubsetOrderingWellFounded
<1>4. PICK T \in Heads : \A U \in Heads : ~(<<U, T>> \in StrictSubsetOrdering(S))
  <2> HIDE DEF Heads
  <2> QED
    BY <1>1, <1>2, <1>3, WFMin
<1>5. PICK s \in S : T = Before(s)
  OBVIOUS
<1> SUFFICES ASSUME NEW t \in S, place[t] < place[s] PROVE FALSE
  OBVIOUS
<1>6. Before(t) \subseteq Before(s) /\ t \in Before(s) /\ t \notin Before(t)
  OBVIOUS
<1>7. Before(t) \in SUBSET S /\ Before(s) \in SUBSET S /\ Before(t) \in Heads
  OBVIOUS
<1>8. <<Before(t), Before(s)>> \in StrictSubsetOrdering(S)
  <2> HIDE DEF Before
  <2> QED
    BY <1>6, <1>7 DEF StrictSubsetOrdering
<1> QED
  BY <1>4, <1>5, <1>7, <1>8

(* The chats of finitely many sends are finitely many.                     *)
LEMMA ChatsAreFinite ==
  ASSUME NEW S, IsFiniteSet(S) PROVE IsFiniteSet(ChatsOf(S))
<1> DEFINE f == [s \in S |-> ChatOf[s]]
<1>1. f \in Surjection(S, ChatsOf(S))
  BY DEF Surjection, ChatsOf
<1> QED
  BY <1>1, FS_Surjection

SlotInv == Cardinality(activeChats) <= MaxActive /\ WorkConserving

(* A pump overfills nothing and leaves no slot idle.  The started send with*)
(* the last seat found the chats of all the others taken and still a slot; *)
(* the first send left behind has before it only sends whose chats are     *)
(* busy, so with a slot free and its chat idle it would have started.      *)
LEMMA HandOnFillsSlots ==
  ASSUME NEW inTurn, NEW holding, NEW busy,
         inTurn \in [Work -> {"none", "queued", "granted", "working", "over"}],
         seat' \in [Work -> Nat],
         IsFiniteSet({s \in Work : inTurn[s] = "queued"}),
         Seated({s \in Work : inTurn[s] = "queued"}),
         IsFiniteSet(busy), Cardinality(busy) <= MaxActive,
         HandOn(inTurn, holding, busy)
  PROVE  SlotInv'
<1> DEFINE waiting == {s \in Work : inTurn[s] = "queued"}
           started == Starts(waiting, busy)
           Ahead(s) == {x \in waiting : seat'[x] < seat'[s]}
           Taken(s) == busy \cup ChatsOf(Ahead(s))
<1>1. /\ turn' = [s \in Work |-> IF s \in started THEN "granted" ELSE inTurn[s]]
      /\ activeChats' = busy \cup ChatsOf(started)
  BY DEF HandOn
<1>2. /\ started \subseteq waiting /\ waiting \subseteq Work
      /\ \A s \in waiting : s \in started <=> /\ ChatOf[s] \notin Taken(s)
                                              /\ Cardinality(Taken(s)) < MaxActive
  BY DEF Starts
<1>3. IsFiniteSet(waiting) /\ IsFiniteSet(started)
  <2>1. IsFiniteSet(waiting)
    OBVIOUS
  <2> HIDE DEF waiting, started
  <2> QED
    BY <1>2, <2>1, FS_Subset
<1>4. \A s \in waiting : IsFiniteSet(Taken(s))
  <2> TAKE s \in waiting
  <2>1. IsFiniteSet(Ahead(s))
    <3>1. Ahead(s) \in SUBSET waiting
      OBVIOUS
    <3> HIDE DEF Ahead, waiting
    <3> QED
      BY <1>3, <3>1, FS_Subset
  <2>2. IsFiniteSet(ChatsOf(Ahead(s)))
    <3> HIDE DEF Ahead
    <3> QED
      BY <2>1, ChatsAreFinite
  <2> HIDE DEF Ahead
  <2> QED
    BY <2>2, FS_Union
<1>5. IsFiniteSet(activeChats')
  <2> HIDE DEF started
  <2>1. IsFiniteSet(ChatsOf(started))
    BY <1>3, ChatsAreFinite
  <2> QED
    BY <1>1, <2>1, FS_Union
<1>6. Cardinality(activeChats') \in Nat
  BY <1>5, FS_CardinalityType
<1>7. Cardinality(activeChats') <= MaxActive
  <2>1. CASE started = {}
    <3>1. activeChats' = busy
      BY <1>1, <2>1 DEF ChatsOf
    <3> QED
      BY <3>1
  <2>2. CASE started # {}
    <3>1. PICK s \in started : \A t \in started : ~(seat'[t] > seat'[s])
      <4>1. \A t \in started : seat'[t] \in Nat
        BY <1>2
      <4> HIDE DEF started
      <4> QED
        BY <1>3, <2>2, <4>1, LastSeat
    <3>2. s \in waiting /\ \A t \in started : t = s \/ t \in Ahead(s)
      <4>1. s \in waiting
        BY <1>2
      <4>2. ASSUME NEW t \in started, t # s PROVE t \in Ahead(s)
        <5>1. t \in waiting /\ seat'[t] \in Nat /\ seat'[s] \in Nat
          BY <1>2
        <5>2. seat'[t] # seat'[s] /\ ~(seat'[t] > seat'[s])
          BY <3>1, <4>1, <4>2, <5>1 DEF Seated
        <5> QED
          BY <5>1, <5>2
      <4> QED
        BY <4>1, <4>2
    <3>3. activeChats' \subseteq Taken(s) \cup {ChatOf[s]}
      <4> HIDE DEF Ahead, started
      <4> QED
        BY <1>1, <3>2 DEF ChatsOf
    <3>4. IsFiniteSet(Taken(s)) /\ Cardinality(Taken(s)) < MaxActive
      BY <1>2, <1>4, <3>1, <3>2
    <3> DEFINE all == Taken(s) \cup {ChatOf[s]}
    <3>5. IsFiniteSet(all) /\ Cardinality(all) <= MaxActive
      <4> HIDE DEF Taken
      <4>1. Cardinality(Taken(s)) \in Nat
        BY <3>4, FS_CardinalityType
      <4>2. /\ IsFiniteSet(all)
            /\ Cardinality(all) = IF ChatOf[s] \in Taken(s) THEN Cardinality(Taken(s))
                                                          ELSE Cardinality(Taken(s)) + 1
        BY <3>4, FS_AddElement
      <4>3. MaxActive \in Nat
        BY QueueAssumption
      <4> HIDE DEF all
      <4> QED
        BY <3>4, <4>1, <4>2, <4>3
    <3>6. Cardinality(activeChats') <= Cardinality(all)
      <4> HIDE DEF all
      <4> QED
        BY <3>3, <3>5, FS_Subset DEF all
    <3>7. Cardinality(all) \in Nat
      <4> HIDE DEF all
      <4> QED
        BY <3>5, FS_CardinalityType
    <3> HIDE DEF all
    <3> QED
      BY <1>6, <3>5, <3>6, <3>7, QueueAssumption
  <2> QED
    BY <2>1, <2>2
<1>8. WorkConserving'
  <2> DEFINE idle == {s \in waiting : ChatOf[s] \notin activeChats'}
  <2>1. CASE Cardinality(activeChats') = MaxActive
    BY <2>1 DEF WorkConserving
  <2>2. CASE Cardinality(activeChats') # MaxActive
    <3>1. Cardinality(activeChats') < MaxActive
      BY <1>6, <1>7, <2>2, QueueAssumption
    <3>2. SUFFICES ASSUME idle # {} PROVE FALSE
      <4>1. Waiting' \subseteq waiting
        BY <1>1 DEF Waiting
      <4> QED
        BY <4>1 DEF WorkConserving
    <3>3. PICK s \in idle : \A t \in idle : ~(seat'[t] < seat'[s])
      <4>1. IsFiniteSet(idle)
        <5>1. idle \in SUBSET waiting
          OBVIOUS
        <5> HIDE DEF idle, waiting
        <5> QED
          BY <1>3, <5>1, FS_Subset
      <4>2. \A t \in idle : seat'[t] \in Nat
        OBVIOUS
      <4> HIDE DEF idle
      <4> QED
        BY <3>2, <4>1, <4>2, FirstSeat
    <3>4. \A t \in Ahead(s) : ChatOf[t] \in activeChats'
      BY <3>3
    <3>5. Taken(s) \subseteq activeChats'
      <4> HIDE DEF Ahead
      <4> QED
        BY <1>1, <3>4 DEF ChatsOf
    <3>6. Cardinality(Taken(s)) < MaxActive
      <4> HIDE DEF Taken
      <4>1. IsFiniteSet(Taken(s)) /\ Cardinality(Taken(s)) <= Cardinality(activeChats')
        BY <1>5, <3>5, FS_Subset
      <4>2. Cardinality(Taken(s)) \in Nat
        BY <4>1, FS_CardinalityType
      <4> QED
        BY <1>6, <3>1, <4>1, <4>2, QueueAssumption
    <3>7. s \in started
      <4>1. s \in waiting /\ ChatOf[s] \notin Taken(s)
        <5> HIDE DEF Taken
        <5> QED
          BY <3>5
      <4> HIDE DEF Taken, started
      <4> QED
        BY <1>2, <3>6, <4>1
    <3> QED
      <4> HIDE DEF started
      <4> QED
        BY <1>1, <3>7 DEF ChatsOf
  <2> QED
    BY <2>1, <2>2
<1> QED
  BY <1>7, <1>8 DEF SlotInv

(* The retained sends are finitely many, and with them the busy chats.     *)
LEMMA QueueIsFinite ==
  ASSUME QueueInv
  PROVE  /\ \A S \in SUBSET InQueue : IsFiniteSet(S)
         /\ IsFiniteSet(activeChats) /\ Cardinality(activeChats) \in Nat
<1>1. IsFiniteSet(InQueue)
  BY DEF QueueInv, Counted
<1>2. \A S \in SUBSET InQueue : IsFiniteSet(S)
  BY <1>1, FS_Subset
<1>3. Holders \in SUBSET InQueue /\ activeChats = ChatsOf(Holders)
  BY DEF QueueInv, InQueue
<1> QED
  BY <1>2, <1>3, ChatsAreFinite, FS_CardinalityType

(* A release that passes no turn on leaves the slots as they are.          *)
LEMMA ReleaseFillsSlots ==
  ASSUME QueueInv, SlotInv, NEW S \in SUBSET Work, NEW inTurn,
         inTurn \in [Work -> {"none", "queued", "granted", "working", "over"}],
         seat' = seat,
         \A s \in Work : inTurn[s] = "queued" => turn[s] = "queued",
         Release(S, inTurn)
  PROVE  SlotInv'
<1> DEFINE waiting == {s \in Work : inTurn[s] = "queued"}
           busy == activeChats \ ChatsOf(S \cap Holders)
<1>1. waiting \subseteq Waiting
  BY DEF Waiting
<1>2. CASE S \cap Holders = {}
  <2>1. turn' = inTurn /\ activeChats' = activeChats
    BY <1>2 DEF Release
  <2>2. Waiting' \subseteq Waiting
    BY <1>1, <2>1 DEF Waiting
  <2> QED
    BY <2>1, <2>2 DEF SlotInv, WorkConserving
<1>3. CASE S \cap Holders # {}
  <2>1. HandOn(inTurn, Holders \ S, busy)
    BY <1>3 DEF Release
  <2>2. IsFiniteSet(waiting)
    <3>1. waiting \in SUBSET InQueue
      BY <1>1 DEF InQueue
    <3> HIDE DEF waiting
    <3> QED
      BY <3>1, QueueIsFinite
  <2>3. Seated(waiting)
    BY <1>1 DEF Seated, QueueInv
  <2>4. IsFiniteSet(busy) /\ Cardinality(busy) <= MaxActive
    <3>1. /\ IsFiniteSet(activeChats) /\ Cardinality(activeChats) \in Nat
          /\ busy \in SUBSET activeChats
      BY QueueIsFinite
    <3> HIDE DEF busy
    <3>2. /\ IsFiniteSet(busy) /\ Cardinality(busy) <= Cardinality(activeChats)
      BY <3>1, FS_Subset
    <3>3. Cardinality(busy) \in Nat
      BY <3>2, FS_CardinalityType
    <3> QED
      BY <3>1, <3>2, <3>3, QueueAssumption DEF SlotInv
  <2>5. seat' \in [Work -> Nat]
    BY DEF QueueInv, QueueTypeOK
  <2> HIDE DEF busy
  <2> QED
    BY <2>1, <2>2, <2>3, <2>4, <2>5, HandOnFillsSlots
<1> QED
  BY <1>2, <1>3

(* Every step that frees a slot, or adds an entry, pumps.                  *)
LEMMA SlotStep == QueueInv /\ SlotInv /\ [SendNext]_sendVars => SlotInv'
<1> SUFFICES ASSUME QueueInv, SlotInv, [SendNext]_sendVars PROVE SlotInv'
  OBVIOUS
<1> DEFINE Keeps == activeChats' = activeChats /\ Waiting' \subseteq Waiting
<1>1. ASSUME Keeps PROVE SlotInv'
  BY <1>1 DEF SlotInv, WorkConserving
<1>2. turn \in [Work -> {"none", "queued", "granted", "working", "over"}]
  BY DEF QueueInv, QueueTypeOK
<1>3. ASSUME NEW s \in Work, Draft(s) \/ SubmitStale(s) \/ Return(s) PROVE SlotInv'
  BY <1>1, <1>3 DEF Draft, SubmitStale, Return, queueVars, Waiting
<1>4. ASSUME NEW s \in Work, TurnAway(s) \/ Begin(s) PROVE SlotInv'
  BY <1>1, <1>2, <1>4 DEF TurnAway, Begin, Waiting
<1>5. ASSUME NEW s \in Work, Abandon(s) \/ Finish(s) \/ Expire(s) PROVE SlotInv'
  <2>1. PICK inTurn \in {turn, [turn EXCEPT ![s] = "over"]} :
          seat' = seat /\ Release({s}, inTurn)
    BY <1>5 DEF Abandon, Finish, Expire, Leave
  <2>2. /\ inTurn \in [Work -> {"none", "queued", "granted", "working", "over"}]
        /\ \A t \in Work : inTurn[t] = "queued" => turn[t] = "queued"
    BY <1>2
  <2>3. {s} \in SUBSET Work
    OBVIOUS
  <2> QED
    BY <2>1, <2>2, <2>3, ReleaseFillsSlots
<1>6. ASSUME NEW p \in Pauser, CloseAccount(p) PROVE SlotInv'
  <2> DEFINE inTurn == [s \in Work |-> IF s \in Retired \cap Waiting THEN "over" ELSE turn[s]]
  <2>1. seat' = seat /\ Release(Retired, inTurn)
    BY <1>6 DEF CloseAccount, Invalidate
  <2>2. /\ inTurn \in [Work -> {"none", "queued", "granted", "working", "over"}]
        /\ \A t \in Work : inTurn[t] = "queued" => turn[t] = "queued"
    BY <1>2
  <2>3. Retired \in SUBSET Work
    BY DEF Retired, Listeners
  <2> HIDE DEF inTurn
  <2> QED
    BY <2>1, <2>2, <2>3, ReleaseFillsSlots
<1>7. ASSUME NEW s \in Work, Submit(s) PROVE SlotInv'
  <2> DEFINE inTurn == [turn EXCEPT ![s] = "queued"]
             waiting == {t \in Work : inTurn[t] = "queued"}
  <2>1. HandOn(inTurn, Holders, activeChats) /\ turn[s] = "none"
    BY <1>7 DEF Submit, Admit, QueueInv
  <2>2. inTurn \in [Work -> {"none", "queued", "granted", "working", "over"}]
    BY <1>2
  <2>3. waiting = Waiting \cup {s} /\ s \notin Waiting
    BY <1>2, <2>1 DEF Waiting
  <2>4. /\ seat \in [Work -> Nat] /\ nextSeat \in Nat /\ seat' = [seat EXCEPT ![s] = nextSeat]
    BY <1>7 DEF Submit, QueueInv, QueueTypeOK
  <2>5. /\ seat' \in [Work -> Nat] /\ seat'[s] = nextSeat
        /\ \A t \in Waiting : seat'[t] = seat[t] /\ seat[t] < nextSeat /\ seat[t] \in Nat
    BY <2>3, <2>4 DEF QueueInv, Waiting
  <2>6. Seated(waiting)
    BY <2>3, <2>4, <2>5 DEF Seated, QueueInv
  <2>7. IsFiniteSet(waiting)
    <3>1. IsFiniteSet(Waiting)
      BY QueueIsFinite DEF InQueue
    <3> HIDE DEF waiting
    <3> QED
      BY <2>3, <3>1, FS_AddElement
  <2>8. IsFiniteSet(activeChats) /\ Cardinality(activeChats) <= MaxActive
    BY QueueIsFinite DEF SlotInv
  <2> HIDE DEF inTurn
  <2> QED
    BY <2>1, <2>2, <2>5, <2>6, <2>7, <2>8, HandOnFillsSlots
<1>8. CASE UNCHANGED queueVars
  BY <1>1, <1>8 DEF queueVars, Waiting
<1> QED
  BY <1>3, <1>4, <1>5, <1>6, <1>7, <1>8 DEF SendNext, sendVars

(* The empty queue has no one to start.                                    *)
LEMMA SlotInit == SendInit => SlotInv
<1> SUFFICES ASSUME SendInit PROVE SlotInv
  OBVIOUS
<1>1. Waiting = {} /\ activeChats = {}
  BY DEF SendInit, Waiting
<1>2. Cardinality({}) = 0
  BY FS_EmptySet
<1> QED
  BY <1>1, <1>2, QueueAssumption DEF SlotInv, WorkConserving

(* For any sends, chats and limits: each busy chat has one send with a     *)
(* claim on it, no limit is passed and none miscounted, and nobody waits   *)
(* for an account that closed, in acquire, pump and releaseOrdering.       *)
THEOREM SendBooksAgree == SendSpec => []TurnsAgree
<1>1. QueueInv /\ SlotInv => TurnsAgree
  BY DEF QueueInv, SlotInv, TurnsAgree, Counted, InQueue
<1> QED
  BY <1>1, QueueInvariant, SlotInit, SlotStep, PTL DEF SendSpec

(* A send waits only while its chat is busy or every slot is: pump, called *)
(* once per release, always finds whoever may start.                       *)
THEOREM SendSlotsAreUsed == SendSpec => []WorkConserving
<1>1. SlotInv => WorkConserving
  BY DEF SlotInv
<1> QED
  BY <1>1, QueueInvariant, SlotInit, SlotStep, PTL DEF SendSpec

-----------------------------------------------------------------------------
(* The barrier under the queue.                                            *)

(* The barrier stays well typed under the queue.                           *)
LEMMA SendLeaseType == SendSpec => []LeaseTypeOK
<1>1. QueueInv => LeaseTypeOK
  BY DEF QueueInv
<1> QED
  BY <1>1, QueueInvariant, PTL

(* With the queue cancelling and releasing inside the pause, a pause that  *)
(* resolves still leaves no send of the account it closed running.         *)
THEOREM SendsAreDrained == SendSpec => []DrainIsComplete
<1>1. SendInit => LeaseInit
  BY DEF SendInit
<1> QED
  BY <1>1, LeaseInitInvs, DrainStep, DrainInvSuffices, SendGateSteps, SendLeaseType, PTL
  DEF SendSpec

(* A send is admitted by the account it was captured under, however long   *)
(* it then waits for its turn.                                             *)
THEOREM SendsStayInAccount == SendSpec => []AdmittedByItsAccount
<1>1. SendInit => OwnerInv
  BY DEF SendInit, LeaseInit, OwnerInv
<1>2. OwnerInv => AdmittedByItsAccount
  BY DEF OwnerInv, AdmittedByItsAccount
<1> QED
  BY <1>1, <1>2, OwnerStep, SendGateSteps, SendLeaseType, PTL DEF SendSpec

-----------------------------------------------------------------------------
(* Lines.                                                                  *)

(* A line is a sequence of as many entries as it has sends.                *)
LEMMA LineIsSequence ==
  ASSUME NEW S, IsFiniteSet(S), NEW place
  PROVE  /\ Cardinality(S) \in Nat
         /\ DOMAIN InOrder(S, place) = 1..Cardinality(S)
         /\ \E T : InOrder(S, place) \in Seq(T)
         /\ Len(InOrder(S, place)) = Cardinality(S)
         /\ S = {} => InOrder(S, place) = <<>>
<1> DEFINE line == InOrder(S, place)
           T == {line[i] : i \in 1..Cardinality(S)}
<1>1. Cardinality(S) \in Nat
  BY FS_CardinalityType
<1>2. line \in [1..Cardinality(S) -> T]
  BY DEF InOrder
<1> HIDE DEF line
<1>3. line \in Seq(T) /\ Len(line) = Cardinality(S)
  BY <1>1, <1>2
<1>4. S = {} => line = <<>>
  BY <1>3, FS_EmptySet, EmptySeq
<1> QED
  BY <1>1, <1>2, <1>3, <1>4 DEF line

(* The order is that of the seats of the line's own sends.                 *)
LEMMA LineBySeats ==
  ASSUME NEW S, NEW place, NEW other, \A s \in S : other[s] = place[s]
  PROVE  InOrder(S, other) = InOrder(S, place)
<1>1. \A s \in S : UpTo(S, other, s) = UpTo(S, place, s)
  BY DEF UpTo
<1>2. \A i \in 1..Cardinality(S) : Nth(S, other, i) = Nth(S, place, i)
  BY <1>1 DEF Nth
<1> QED
  BY <1>2 DEF InOrder

(* A send with the last seat stands at the end of the line.                *)
LEMMA LastInLine ==
  ASSUME NEW S, IsFiniteSet(S), NEW s, s \notin S, NEW place,
         place[s] \in Nat, \A t \in S : place[t] \in Nat /\ place[t] < place[s]
  PROVE  InOrder(S \cup {s}, place) = Append(InOrder(S, place), s)
<1> DEFINE n == Cardinality(S)
           R == S \cup {s}
<1>1. /\ n \in Nat /\ IsFiniteSet(R) /\ Cardinality(R) = n + 1
      /\ \A t \in S : Cardinality(UpTo(S, place, t)) \in 0..n
  <2>1. \A t \in S : UpTo(S, place, t) \in SUBSET S
    BY DEF UpTo
  <2>2. \A U \in SUBSET S : IsFiniteSet(U) /\ Cardinality(U) <= n /\ Cardinality(U) \in Nat
    BY FS_Subset, FS_CardinalityType
  <2>3. n \in Nat /\ IsFiniteSet(R) /\ Cardinality(R) = n + 1
    BY FS_AddElement, FS_CardinalityType
  <2> QED
    BY <2>1, <2>2, <2>3
<1>2. \A t \in S : UpTo(R, place, t) = UpTo(S, place, t)
  BY DEF UpTo
<1>3. UpTo(R, place, s) = R
  BY DEF UpTo
<1>4. \A i \in 1..n : Nth(R, place, i) = Nth(S, place, i)
  BY <1>1, <1>2, <1>3 DEF Nth
<1>5. Nth(R, place, n + 1) = {s}
  BY <1>1, <1>2, <1>3 DEF Nth
<1> DEFINE old == InOrder(S, place)
           new == InOrder(R, place)
<1>6. /\ \A i \in 1..n : new[i] = old[i]
      /\ new[n + 1] = s
  <2>1. OneOf({s}) = s
    BY DEF OneOf
  <2>2. n + 1 \in 1..Cardinality(R) /\ \A i \in 1..n : i \in 1..Cardinality(R)
    BY <1>1
  <2> HIDE DEF n, R
  <2> QED
    BY <1>4, <1>5, <2>1, <2>2 DEF InOrder, n
<1>7. DOMAIN new = 1..(n + 1) /\ Len(new) = n + 1 /\ DOMAIN old = 1..n /\ Len(old) = n
  BY <1>1, LineIsSequence
<1>8. PICK T, U : old \in Seq(T) /\ new \in Seq(U)
  BY <1>1, LineIsSequence
<1> HIDE DEF old, new, n, R
<1>9. /\ old \in Seq(T \cup U \cup {s}) /\ new \in Seq(T \cup U \cup {s})
  BY <1>8, SeqMonotonic
<1>10. /\ Append(old, s) \in Seq(T \cup U \cup {s})
       /\ Len(Append(old, s)) = n + 1
       /\ \A i \in 1..n : Append(old, s)[i] = old[i]
       /\ Append(old, s)[n + 1] = s
  BY <1>7, <1>9, AppendProperties
<1>11. \A i \in 1..(n + 1) : new[i] = Append(old, s)[i]
  BY <1>1, <1>6, <1>10
<1>12. new = Append(old, s)
  BY <1>7, <1>9, <1>10, <1>11, SeqEqual
<1> QED
  BY <1>12 DEF old, new, R

(* A send with the first seat stands at its head, and goes from there.     *)
LEMMA FirstInLine ==
  ASSUME NEW S, IsFiniteSet(S), NEW s \in S, NEW place,
         \A t \in S : place[t] \in Nat,
         \A t \in S \ {s} : place[s] < place[t]
  PROVE  /\ InOrder(S, place) # <<>>
         /\ Head(InOrder(S, place)) = s
         /\ Tail(InOrder(S, place)) = InOrder(S \ {s}, place)
<1> DEFINE n == Cardinality(S)
           R == S \ {s}
<1>1. /\ n \in Nat \ {0} /\ IsFiniteSet(R) /\ Cardinality(R) = n - 1
      /\ \A U \in SUBSET R : IsFiniteSet(U) /\ Cardinality(U) \in Nat
  <2>1. n \in Nat /\ IsFiniteSet(R) /\ Cardinality(R) = n - 1
    BY FS_RemoveElement, FS_CardinalityType
  <2>2. n # 0
    BY FS_EmptySet
  <2> QED
    BY <2>1, <2>2, FS_Subset, FS_CardinalityType
<1>2. UpTo(S, place, s) = {s} /\ Cardinality({s}) = 1
  BY FS_Singleton DEF UpTo
<1>3. ASSUME NEW t \in R
      PROVE  /\ Cardinality(UpTo(S, place, t)) = Cardinality(UpTo(R, place, t)) + 1
             /\ Cardinality(UpTo(R, place, t)) \in Nat \ {0}
  <2>1. /\ UpTo(S, place, t) = UpTo(R, place, t) \cup {s}
        /\ s \notin UpTo(R, place, t) /\ t \in UpTo(R, place, t)
        /\ UpTo(R, place, t) \in SUBSET R
    BY DEF UpTo
  <2>2. IsFiniteSet(UpTo(R, place, t)) /\ Cardinality(UpTo(R, place, t)) \in Nat
    BY <1>1, <2>1
  <2>3. Cardinality(UpTo(R, place, t)) # 0
    BY <2>1, <2>2, FS_EmptySet
  <2>4. Cardinality(UpTo(R, place, t) \cup {s}) = Cardinality(UpTo(R, place, t)) + 1
    BY <2>1, <2>2, FS_AddElement
  <2> QED
    BY <2>1, <2>2, <2>3, <2>4
<1>4. Nth(S, place, 1) = {s}
  BY <1>2, <1>3 DEF Nth
<1>5. \A i \in 1..(n - 1) : Nth(S, place, i + 1) = Nth(R, place, i)
  <2> SUFFICES ASSUME NEW i \in 1..(n - 1), NEW t
               PROVE  t \in Nth(S, place, i + 1) <=> t \in Nth(R, place, i)
    OBVIOUS
  <2>1. i \in Nat \ {0}
    BY <1>1
  <2>2. CASE t \in R
    BY <1>3, <2>1, <2>2 DEF Nth
  <2>3. CASE t \notin R
    BY <1>2, <2>1, <2>3 DEF Nth
  <2> QED
    BY <2>2, <2>3
<1> DEFINE old == InOrder(S, place)
           new == InOrder(R, place)
<1>6. /\ old[1] = s
      /\ \A i \in 1..(n - 1) : old[i + 1] = new[i]
  <2>1. OneOf({s}) = s
    BY DEF OneOf
  <2>2. 1 \in 1..n /\ \A i \in 1..(n - 1) : i + 1 \in 1..n /\ i \in 1..Cardinality(R)
    BY <1>1
  <2> HIDE DEF n, R
  <2> QED
    BY <1>4, <1>5, <2>1, <2>2 DEF InOrder, n
<1>7. Len(new) = n - 1 /\ Len(old) = n
  BY <1>1, LineIsSequence
<1>8. PICK T, U : old \in Seq(T) /\ new \in Seq(U)
  BY <1>1, LineIsSequence
<1> HIDE DEF old, new, n, R
<1>9. old \in Seq(T \cup U) /\ new \in Seq(T \cup U) /\ old # <<>>
  BY <1>1, <1>7, <1>8, SeqMonotonic, EmptySeq
<1>10. /\ Tail(old) \in Seq(T \cup U) /\ Len(Tail(old)) = n - 1
       /\ \A i \in 1..(n - 1) : Tail(old)[i] = old[i + 1]
  BY <1>7, <1>9, HeadTailProperties
<1>11. Tail(old) = new
  BY <1>6, <1>7, <1>9, <1>10, SeqEqual
<1>12. Head(old) = s
  BY <1>6, <1>9
<1> QED
  BY <1>9, <1>11, <1>12 DEF old, new, R

-----------------------------------------------------------------------------
(* Who holds a turn can still be made to give it up.                       *)
ClaimInv == \A s \in Holders : Current(s) /\ watch[s] = "live"

Queued(inTurn) == {s \in Work : inTurn[s] = "queued"}

(* What a pump does to the sends: who starts waits no more and holds.      *)
LEMMA PumpMoves ==
  ASSUME NEW inTurn, NEW holding \in SUBSET Work, NEW busy,
         HandOn(inTurn, holding, busy)
  PROVE  /\ Starts(Queued(inTurn), busy) \subseteq Queued(inTurn)
         /\ Holders' = holding \cup Starts(Queued(inTurn), busy)
         /\ Waiting' = Queued(inTurn) \ Starts(Queued(inTurn), busy)
<1> DEFINE waiting == Queued(inTurn)
           started == Starts(waiting, busy)
<1>1. started \subseteq waiting
  BY DEF Starts
<1>2. /\ turn' = [s \in Work |-> IF s \in started THEN "granted" ELSE inTurn[s]]
      /\ holds' = [s \in Work |-> s \in holding \cup started]
  BY DEF HandOn, Queued
<1> HIDE DEF started
<1>3. Holders' = holding \cup started
  BY <1>1, <1>2 DEF Holders, Queued
<1>4. Waiting' = waiting \ started
  BY <1>1, <1>2 DEF Waiting, Queued
<1> QED
  BY <1>1, <1>3, <1>4 DEF started

(* A release leaves nobody holding but who held before and who waited.     *)
LEMMA ReleaseMoves ==
  ASSUME NEW S, NEW inTurn, Release(S, inTurn)
  PROVE  Holders' \subseteq (Holders \ S) \cup Queued(inTurn) /\ Waiting' \subseteq Queued(inTurn)
<1>1. CASE S \cap Holders = {}
  BY <1>1 DEF Release, Holders, Waiting, Queued
<1>2. CASE S \cap Holders # {}
  <2> DEFINE holding == Holders \ S
             busy == activeChats \ ChatsOf(S \cap Holders)
  <2>1. HandOn(inTurn, holding, busy) /\ holding \in SUBSET Work
    BY <1>2 DEF Release, Holders
  <2> HIDE DEF busy, holding
  <2>2. Holders' \subseteq holding \cup Queued(inTurn) /\ Waiting' \subseteq Queued(inTurn)
    BY <2>1, PumpMoves
  <2> QED
    BY <2>2 DEF holding
<1> QED
  BY <1>1, <1>2

(* The close of the account finds everyone who waits or holds listening.   *)
LEMMA CloseEmpties ==
  ASSUME QueueInv, ClaimInv, NEW p \in Pauser, CloseAccount(p)
  PROVE  Waiting' = {} /\ Holders' = {}
<1> DEFINE inTurn == [s \in Work |-> IF s \in Retired \cap Waiting THEN "over" ELSE turn[s]]
<1>1. Waiting \subseteq Retired /\ Holders \subseteq Retired
  BY DEF QueueInv, WaitersAreCurrent, ClaimInv, Waiting, Holders, Current, Retired, Listeners
<1>2. Queued(inTurn) = {}
  BY <1>1 DEF Waiting, Queued
<1>3. Release(Retired, inTurn)
  BY DEF CloseAccount, Invalidate
<1> HIDE DEF inTurn
<1> QED
  BY <1>1, <1>2, <1>3, ReleaseMoves

(* No step leaves a claim behind that the close of the account would miss. *)
LEMMA ClaimStep == QueueInv /\ ClaimInv /\ [SendNext]_sendVars => ClaimInv'
<1> SUFFICES ASSUME QueueInv, ClaimInv, [SendNext]_sendVars PROVE ClaimInv'
  OBVIOUS
<1>0. /\ turn \in [Work -> {"none", "queued", "granted", "working", "over"}]
      /\ watch \in [Work -> {"none", "live", "woken", "over"}]
      /\ \A s \in Waiting \cup Holders :
           /\ s \in Work /\ Current(s) /\ watch[s] = "live" /\ stage[s] = "admitted"
  BY DEF QueueInv, QueueTypeOK, LeaseTypeOK, WaitersAreCurrent, ClaimInv, Waiting, Holders,
         Running
<1>1. ASSUME NEW s \in Work, Draft(s) PROVE ClaimInv'
  <2>1. /\ Holders' = Holders /\ stage[s] = "new" /\ UNCHANGED <<gateVars, watch>>
        /\ \A t \in Work : t # s => lease'[t] = lease[t]
    BY <1>1 DEF Draft, Capture, queueVars, Holders, QueueInv, LeaseTypeOK
  <2> QED
    BY <1>0, <2>1 DEF ClaimInv, Current, gateVars
<1>2. ASSUME NEW s \in Work, Submit(s) PROVE ClaimInv'
  <2>1. /\ Current(s) /\ watch' = [watch EXCEPT ![s] = "live"]
        /\ UNCHANGED <<gateVars, lease>>
        /\ HandOn([turn EXCEPT ![s] = "queued"], Holders, activeChats)
    BY <1>2 DEF Submit, Admit, Listen, Current
  <2>2. Holders' \subseteq Holders \cup Waiting \cup {s}
    <3> DEFINE inTurn == [turn EXCEPT ![s] = "queued"]
    <3>1. Queued(inTurn) \subseteq Waiting \cup {s}
      BY <1>0 DEF Waiting, Queued
    <3>2. Holders \in SUBSET Work
      BY DEF Holders
    <3>3. HandOn(inTurn, Holders, activeChats)
      BY <2>1
    <3> HIDE DEF inTurn
    <3> QED
      BY <3>1, <3>2, <3>3, PumpMoves
  <2>3. \A t \in Holders' : t \in Work /\ Current(t) /\ watch'[t] = "live"
    BY <1>0, <2>1, <2>2
  <2> QED
    BY <2>1, <2>3 DEF ClaimInv, Current, gateVars
<1>3. ASSUME NEW s \in Work, TurnAway(s) \/ SubmitStale(s) \/ Return(s) \/ Begin(s)
      PROVE  ClaimInv'
  <2>1. Holders' = Holders /\ UNCHANGED <<gateVars, lease, watch>>
    BY <1>3 DEF TurnAway, Admit, SubmitStale, Refuse, Return, Settle, Begin, Holders,
                queueVars, leaseVars, workVars
  <2> QED
    BY <2>1 DEF ClaimInv, Current, gateVars
<1>4. ASSUME NEW s \in Work, Abandon(s) \/ Finish(s) \/ Expire(s) PROVE ClaimInv'
  <2>1. PICK inTurn \in {turn, [turn EXCEPT ![s] = "over"]} : Release({s}, inTurn)
    BY <1>4 DEF Abandon, Finish, Expire, Leave
  <2>2. /\ UNCHANGED <<gateVars, lease>>
        /\ \A t \in Work : t # s => watch'[t] = watch[t]
        /\ s \notin Waiting
    BY <1>0, <1>4 DEF Abandon, Finish, Expire, Leave, Unlisten, leaseVars, workVars, Waiting,
                      Running
  <2>3. Queued(inTurn) \subseteq Waiting
    BY <1>0 DEF Waiting, Queued
  <2>4. Holders' \subseteq (Holders \cup Waiting) \ {s}
    BY <2>1, <2>2, <2>3, ReleaseMoves
  <2>5. \A t \in Holders' : Current(t) /\ watch'[t] = "live"
    BY <1>0, <2>2, <2>4
  <2> QED
    BY <2>2, <2>5 DEF ClaimInv, Current, gateVars
<1>5. ASSUME NEW p \in Pauser, CloseAccount(p) PROVE ClaimInv'
  BY <1>5, CloseEmpties DEF ClaimInv
<1>6. CASE UNCHANGED <<queueVars, workVars, gateVars>>
  BY <1>6 DEF ClaimInv, Current, gateVars, workVars, queueVars, Holders
<1>7. ASSUME NEW p \in Pauser, Drained(p), UNCHANGED queueVars PROVE ClaimInv'
  BY <1>6, <1>7 DEF Drained
<1>8. CASE Resume /\ UNCHANGED queueVars
  <2>1. Holders = {} /\ Holders' = Holders
    BY <1>8 DEF Resume, ClaimInv, Current, Holders, queueVars
  <2> QED
    BY <2>1 DEF ClaimInv
<1> QED
  BY <1>1, <1>2, <1>3, <1>4, <1>5, <1>6, <1>7, <1>8 DEF SendNext, sendVars, leaseVars

-----------------------------------------------------------------------------
(* The queue as its chats see it.                                          *)

ChatStep(c) ==
  Promise!Join(c) \/ Promise!WalkIn(c) \/ Promise!Pass(c) \/ Promise!Yield(c) \/ Promise!Same(c)

(* A step of the promise takes a step of each chat.                        *)
LEMMA ChatSteps ==
  ASSUME \A c \in Chat : ChatStep(c) PROVE Promise!TurnsNext
  BY DEF ChatStep, Promise!TurnsNext

(* A chat none of whose sends moves sees nothing.                          *)
LEMMA SameChat ==
  ASSUME NEW c \in Chat, LineOf(c)' = LineOf(c), HolderOf(c)' = HolderOf(c),
         \A s \in LineOf(c) : seat'[s] = seat[s]
  PROVE  ChatStep(c)
<1>1. InOrder(LineOf(c), seat') = InOrder(LineOf(c), seat)
  BY LineBySeats
<1> QED
  BY <1>1 DEF ChatStep, Promise!Same

(* The lines are finite, and their seats those of different sends.         *)
LEMMA LinesAreSeated ==
  ASSUME QueueInv, NEW c
  PROVE  /\ IsFiniteSet(LineOf(c))
         /\ LineOf(c) \subseteq Waiting
         /\ \A s \in Waiting : s \in Work /\ seat[s] \in Nat /\ seat[s] < nextSeat
         /\ \A s, t \in Waiting : seat[s] = seat[t] => s = t
<1>1. LineOf(c) \in SUBSET Waiting
  BY DEF LineOf
<1>2. IsFiniteSet(LineOf(c))
  BY <1>1, QueueIsFinite DEF InQueue
<1> QED
  BY <1>1, <1>2 DEF QueueInv, QueueTypeOK, Waiting

(* Of the sends that wait, a new one sets none going but itself: whoever   *)
(* waited before still finds its chat busy or every slot taken.            *)
LEMMA OnlyTheNewStarts ==
  ASSUME QueueInv, SlotInv, NEW s \in Work, Submit(s)
  PROVE  Starts(Waiting \cup {s}, activeChats) \subseteq {s}
<1> SUFFICES ASSUME NEW t \in Waiting, t \in Starts(Waiting \cup {s}, activeChats)
             PROVE  FALSE
  BY DEF Starts
<1> DEFINE ahead == {x \in Waiting \cup {s} : seat'[x] < seat'[t]}
           taken == activeChats \cup ChatsOf(ahead)
<1>1. ChatOf[t] \notin taken /\ Cardinality(taken) < MaxActive
  BY DEF Starts
<1>2. Cardinality(activeChats) = MaxActive
  BY <1>1 DEF SlotInv, WorkConserving
<1>3. IsFiniteSet(taken)
  <2>1. IsFiniteSet(Waiting \cup {s})
    BY QueueIsFinite, FS_AddElement DEF InQueue
  <2>2. ahead \in SUBSET (Waiting \cup {s})
    OBVIOUS
  <2> HIDE DEF ahead
  <2>3. IsFiniteSet(ChatsOf(ahead))
    BY <2>1, <2>2, FS_Subset, ChatsAreFinite
  <2> QED
    BY <2>3, QueueIsFinite, FS_Union
<1>4. Cardinality(activeChats) <= Cardinality(taken) /\ Cardinality(taken) \in Nat
  <2>1. activeChats \in SUBSET taken
    OBVIOUS
  <2> HIDE DEF taken
  <2> QED
    BY <1>3, <2>1, FS_Subset, FS_CardinalityType
<1> HIDE DEF taken
<1> QED
  BY <1>1, <1>2, <1>4, QueueAssumption

(* A new send joins its chat's line, or walks in; no other chat moves.     *)
LEMMA SubmitMovesOneChat ==
  ASSUME QueueInv, SlotInv, NEW s \in Work, Submit(s), NEW c \in Chat
  PROVE  ChatStep(c)
<1> DEFINE inTurn == [turn EXCEPT ![s] = "queued"]
           waiting == Waiting \cup {s}
           started == Starts(waiting, activeChats)
<1>1. /\ HandOn(inTurn, Holders, activeChats)
      /\ turn \in [Work -> {"none", "queued", "granted", "working", "over"}]
      /\ turn[s] = "none"
  BY DEF Submit, Admit, QueueInv, QueueTypeOK
<1>2. Queued(inTurn) = waiting /\ s \notin Waiting /\ Waiting \subseteq Work
  BY <1>1 DEF Queued, Waiting
<1>3. started \subseteq {s}
  BY OnlyTheNewStarts
<1>4. Holders' = Holders \cup started /\ Waiting' = waiting \ started
  <2>1. Holders \in SUBSET Work
    BY DEF Holders
  <2> HIDE DEF inTurn, waiting
  <2> QED
    BY <1>1, <1>2, <2>1, PumpMoves
<1>5. /\ seat'[s] = nextSeat /\ nextSeat \in Nat
      /\ \A t \in Waiting : seat'[t] = seat[t] /\ seat[t] < nextSeat /\ seat[t] \in Nat
  <2>1. seat' = [seat EXCEPT ![s] = nextSeat] /\ seat \in [Work -> Nat] /\ nextSeat \in Nat
    BY DEF Submit, QueueInv, QueueTypeOK
  <2> QED
    BY <1>2, <2>1, LinesAreSeated
<1>6. /\ LineOf(c)' = {t \in Waiting' : ChatOf[t] = c}
      /\ HolderOf(c)' = {t \in Holders' : ChatOf[t] = c}
      /\ \A t \in LineOf(c) : seat'[t] = seat[t]
  BY <1>5 DEF LineOf, HolderOf
<1>7. CASE ChatOf[s] # c
  <2>1. LineOf(c)' = LineOf(c) /\ HolderOf(c)' = HolderOf(c)
    BY <1>2, <1>3, <1>4, <1>6, <1>7 DEF LineOf, HolderOf
  <2> QED
    BY <1>6, <2>1, SameChat
<1>8. CASE ChatOf[s] = c /\ s \in started
  <2>1. ChatOf[s] \notin activeChats \cup ChatsOf({x \in waiting : seat'[x] < seat'[s]})
    BY <1>8 DEF Starts
  <2>2. LineOf(c) = {} /\ HolderOf(c) = {}
    BY <1>5, <1>8, <2>1 DEF LineOf, HolderOf, ChatsOf, QueueInv
  <2>3. LineOf(c)' = {} /\ HolderOf(c)' = {s}
    BY <1>3, <1>4, <1>6, <1>8, <2>2 DEF LineOf, HolderOf
  <2>4. InOrder({}, seat) = <<>> /\ InOrder({}, seat') = <<>>
    BY LineIsSequence, FS_EmptySet
  <2>5. Promise!WalkIn(c)
    BY <1>8, <2>2, <2>3, <2>4 DEF Promise!WalkIn
  <2> QED
    BY <2>5 DEF ChatStep
<1>9. CASE ChatOf[s] = c /\ s \notin started
  <2>1. LineOf(c)' = LineOf(c) \cup {s} /\ HolderOf(c)' = HolderOf(c) /\ s \notin LineOf(c)
    BY <1>2, <1>3, <1>4, <1>6, <1>9 DEF LineOf, HolderOf
  <2>2. /\ IsFiniteSet(LineOf(c)) /\ seat'[s] \in Nat
        /\ \A t \in LineOf(c) : seat'[t] \in Nat /\ seat'[t] < seat'[s]
    BY <1>5, LinesAreSeated DEF LineOf
  <2>3. InOrder(LineOf(c) \cup {s}, seat') = Append(InOrder(LineOf(c), seat'), s)
    BY <2>1, <2>2, LastInLine
  <2>4. InOrder(LineOf(c), seat') = InOrder(LineOf(c), seat)
    BY <1>6, LineBySeats
  <2>5. Promise!Join(c)
    BY <1>9, <2>1, <2>3, <2>4 DEF Promise!Join
  <2> QED
    BY <2>5 DEF ChatStep
<1> QED
  BY <1>7, <1>8, <1>9

(* What a pump starts for a chat is the head of its line.                  *)
LEMMA HeadStarts ==
  ASSUME QueueInv, seat' = seat, NEW busy, NEW c,
         NEW t \in LineOf(c), t \in Starts(Waiting, busy)
  PROVE  /\ \A u \in LineOf(c) \ {t} : seat[t] < seat[u] /\ u \notin Starts(Waiting, busy)
         /\ c \notin busy
<1>1. /\ \A u \in Waiting : u \in Work /\ seat[u] \in Nat
      /\ \A u, v \in Waiting : seat[u] = seat[v] => u = v
  BY LinesAreSeated
<1>2. ASSUME NEW u \in Starts(Waiting, busy), NEW v \in Waiting, ChatOf[v] = ChatOf[u]
      PROVE  ~(seat[v] < seat[u])
  <2>1. ChatOf[u] \notin ChatsOf({x \in Waiting : seat'[x] < seat'[u]})
    BY DEF Starts
  <2> QED
    BY <1>2, <2>1 DEF ChatsOf
<1>3. ChatOf[t] = c /\ t \in Waiting /\ ChatOf[t] \notin busy
  BY DEF LineOf, Starts
<1>4. ASSUME NEW u \in LineOf(c) \ {t} PROVE seat[t] < seat[u] /\ u \notin Starts(Waiting, busy)
  <2>1. u \in Waiting /\ ChatOf[u] = c /\ u # t
    BY DEF LineOf
  <2>2. seat[t] < seat[u]
    BY <1>1, <1>2, <1>3, <2>1
  <2> QED
    BY <1>2, <1>3, <2>1, <2>2
<1> QED
  BY <1>3, <1>4

(* A release by a send that runs is a turn given up or passed on in its    *)
(* chat, and at most a turn taken by the head of the line in any other.    *)
LEMMA ReleaseMovesHeads ==
  ASSUME QueueInv, NEW s \in Running, NEW inTurn, Queued(inTurn) = Waiting,
         seat' = seat, Release({s}, inTurn), NEW c \in Chat
  PROVE  ChatStep(c)
<1>1. CASE s \notin Holders
  <2>1. turn' = inTurn /\ holds' = holds
    BY <1>1 DEF Release
  <2>2. LineOf(c)' = LineOf(c) /\ HolderOf(c)' = HolderOf(c)
    BY <2>1 DEF LineOf, HolderOf, Waiting, Holders, Queued
  <2> QED
    BY <2>2, SameChat
<1>2. CASE s \in Holders
  <2> DEFINE holding == Holders \ {s}
             busy == activeChats \ ChatsOf({s} \cap Holders)
             started == Starts(Waiting, busy)
  <2>1. HandOn(inTurn, holding, busy) /\ holding \in SUBSET Work
    BY <1>2 DEF Release, Holders
  <2>2. /\ started \subseteq Waiting
        /\ Holders' = holding \cup started
        /\ Waiting' = Waiting \ started
    <3> HIDE DEF holding, busy
    <3> QED
      BY <2>1, PumpMoves
  <2>3. \A t \in holding : ChatOf[t] \in busy
    BY DEF QueueInv, OneTurnPerChat, ChatsOf
  <2>4. /\ LineOf(c)' = {t \in Waiting \ started : ChatOf[t] = c}
        /\ HolderOf(c)' = {t \in holding \cup started : ChatOf[t] = c}
    BY <2>2 DEF LineOf, HolderOf
  <2>5. /\ IsFiniteSet(LineOf(c)) /\ LineOf(c) \subseteq Waiting
        /\ \A t \in LineOf(c) : seat[t] \in Nat
    BY LinesAreSeated
  <2>6. ASSUME NEW t \in started, ChatOf[t] = c PROVE ChatStep(c)
    <3>1. t \in LineOf(c)
      BY <2>2, <2>6 DEF LineOf
    <3>2. /\ \A u \in LineOf(c) \ {t} : seat[t] < seat[u] /\ u \notin started
          /\ c \notin busy
      <4> HIDE DEF busy
      <4> QED
        BY <3>1, HeadStarts
    <3>3. LineOf(c)' = LineOf(c) \ {t}
      BY <2>4, <2>6, <3>2 DEF LineOf
    <3>4. HolderOf(c)' = {t}
      BY <2>2, <2>3, <2>4, <2>6, <3>2 DEF LineOf
    <3>5. /\ InOrder(LineOf(c), seat) # <<>>
          /\ Head(InOrder(LineOf(c), seat)) = t
          /\ Tail(InOrder(LineOf(c), seat)) = InOrder(LineOf(c) \ {t}, seat)
      BY <2>5, <3>1, <3>2, FirstInLine
    <3>6. Promise!Pass(c)
      BY <3>3, <3>4, <3>5 DEF Promise!Pass
    <3> QED
      BY <3>6 DEF ChatStep
  <2>7. ASSUME \A t \in started : ChatOf[t] # c PROVE ChatStep(c)
    <3>1. LineOf(c)' = LineOf(c) /\ HolderOf(c)' = HolderOf(c) \ {s}
      BY <2>4, <2>7 DEF LineOf, HolderOf
    <3>2. CASE ChatOf[s] = c
      <4>1. HolderOf(c) = {s}
        BY <1>2, <3>2 DEF HolderOf, QueueInv, OneTurnPerChat
      <4>2. Promise!Yield(c)
        BY <3>1, <4>1 DEF Promise!Yield
      <4> QED
        BY <4>2 DEF ChatStep
    <3>3. CASE ChatOf[s] # c
      BY <3>1, <3>3, SameChat DEF HolderOf
    <3> QED
      BY <3>2, <3>3
  <2> QED
    BY <2>6, <2>7
<1> QED
  BY <1>1, <1>2

(* Every step of the queue is one of the promise, or none.                 *)
LEMMA TurnsStep ==
  QueueInv /\ SlotInv /\ ClaimInv /\ [SendNext]_sendVars =>
    [Promise!TurnsNext]_(Promise!turnVars)
<1> SUFFICES ASSUME QueueInv, SlotInv, ClaimInv, [SendNext]_sendVars
             PROVE  Promise!TurnsNext \/ UNCHANGED Promise!turnVars
  OBVIOUS
<1>0. turn \in [Work -> {"none", "queued", "granted", "working", "over"}]
  BY DEF QueueInv, QueueTypeOK
<1>1. ASSUME Waiting' = Waiting, Holders' = Holders, seat' = seat PROVE Promise!TurnsNext
  <2>1. \A c \in Chat : LineOf(c)' = LineOf(c) /\ HolderOf(c)' = HolderOf(c)
    BY <1>1 DEF LineOf, HolderOf
  <2> QED
    BY <1>1, <2>1, SameChat, ChatSteps
<1>2. ASSUME UNCHANGED queueVars PROVE Promise!TurnsNext
  BY <1>1, <1>2 DEF queueVars, Waiting, Holders
<1>3. ASSUME NEW s \in Work, Submit(s) PROVE Promise!TurnsNext
  BY <1>3, SubmitMovesOneChat, ChatSteps
<1>4. ASSUME NEW s \in Work, Draft(s) \/ SubmitStale(s) \/ Return(s) PROVE Promise!TurnsNext
  BY <1>2, <1>4 DEF Draft, SubmitStale, Return
<1>5. ASSUME NEW s \in Work, TurnAway(s) \/ Begin(s) PROVE Promise!TurnsNext
  <2>1. turn[s] # "queued"
    BY <1>5 DEF TurnAway, Admit, Begin, QueueInv
  <2>2. Waiting' = Waiting /\ Holders' = Holders /\ seat' = seat
    BY <1>0, <1>5, <2>1 DEF TurnAway, Begin, Waiting, Holders
  <2> QED
    BY <1>1, <2>2
<1>6. ASSUME NEW s \in Work, Abandon(s) \/ Finish(s) \/ Expire(s) PROVE Promise!TurnsNext
  <2>1. PICK inTurn \in {turn, [turn EXCEPT ![s] = "over"]} :
          seat' = seat /\ Release({s}, inTurn)
    BY <1>6 DEF Abandon, Finish, Expire, Leave
  <2>2. s \in Running
    BY <1>6 DEF Abandon, Finish, Expire, Running
  <2>3. Queued(inTurn) = Waiting
    BY <1>0, <2>2 DEF Queued, Waiting, Running
  <2> QED
    BY <2>1, <2>2, <2>3, ReleaseMovesHeads, ChatSteps
<1>7. ASSUME NEW p \in Pauser, CloseAccount(p) PROVE Promise!TurnsNext
  <2>1. Waiting' = {} /\ Holders' = {}
    BY <1>7, CloseEmpties
  <2>2. \A c \in Chat : LineOf(c)' = {} /\ HolderOf(c)' = {}
    BY <2>1 DEF LineOf, HolderOf
  <2>3. InOrder({}, seat') = <<>>
    BY LineIsSequence, FS_EmptySet
  <2>4. Promise!Retire
    BY <2>2, <2>3 DEF Promise!Retire
  <2> QED
    BY <2>4 DEF Promise!TurnsNext
<1> QED
  BY <1>2, <1>3, <1>4, <1>5, <1>6, <1>7 DEF SendNext, sendVars

(* The empty queue promises nothing yet.                                   *)
LEMMA TurnsStart == SendInit => Promise!TurnsInit /\ ClaimInv
<1> SUFFICES ASSUME SendInit PROVE Promise!TurnsInit /\ ClaimInv
  OBVIOUS
<1>1. Waiting = {} /\ Holders = {}
  BY DEF SendInit, Waiting, Holders
<1>2. \A c \in Chat : LineOf(c) = {} /\ HolderOf(c) = {}
  BY <1>1 DEF LineOf, HolderOf
<1>3. InOrder({}, seat) = <<>>
  BY LineIsSequence, FS_EmptySet
<1> QED
  BY <1>1, <1>2, <1>3 DEF Promise!TurnsInit, ClaimInv

(* For any sends, chats and limits, whatever slots are free, windows run   *)
(* out or accounts close: acquire, pump and releaseOrdering give each chat *)
(* its turns one at a time and in the order of admission.                  *)
THEOREM ChatsKeepTheirOrder == SendSpec => KeepsChatOrder
  BY TurnsStart, TurnsStep, QueueInitInv, QueueStep, SlotInit, SlotStep, ClaimStep, PTL
  DEF SendSpec, KeepsChatOrder, Promise!TurnsSpec

-----------------------------------------------------------------------------
(* A send that waits or runs can be woken when its account closes.         *)

(* No step of the queue leaves a listener of a retired generation behind.  *)
LEMMA SendDormantStep ==
  ASSUME LeaseTypeOK, DormantInv, [SendNext]_sendVars PROVE DormantInv'
<1> USE DEF LeaseTypeOK, gateVars, workVars, pauseVars, historyVars
<1>1. ASSUME UNCHANGED <<gateVars, lease, stage>>, NEW s \in Work,
             UNCHANGED watch \/ Unlisten(s)
      PROVE  DormantInv'
  BY <1>1 DEF Unlisten, DormantInv, NoDormantSurvivor
<1>2. ASSUME NEW s \in Work, Draft(s) \/ SubmitStale(s) \/ Return(s) \/ TurnAway(s)
      PROVE  DormantInv'
  <2>1. CASE Draft(s)
    BY <2>1, DormantStep DEF Draft, LeaseNext
  <2>2. CASE SubmitStale(s) \/ Return(s)
    BY <2>2, DormantStep DEF SubmitStale, Return, LeaseNext
  <2>3. CASE TurnAway(s)
    BY <2>3, DormantStep DEF TurnAway, LeaseNext
  <2> QED
    BY <1>2, <2>1, <2>2, <2>3
<1>3. ASSUME NEW s \in Work, Submit(s) PROVE DormantInv'
  <2>1. /\ UNCHANGED <<accepting, generation, lease>>
        /\ stage' = [stage EXCEPT ![s] = "admitted"]
        /\ Listen(s)
    BY <1>3 DEF Submit, Admit
  <2> QED
    BY <2>1 DEF Listen, DormantInv, NoDormantSurvivor
<1>4. ASSUME NEW s \in Work, Begin(s) \/ Abandon(s) \/ Finish(s) \/ Expire(s)
      PROVE  DormantInv'
  BY <1>1, <1>4 DEF Begin, Abandon, Finish, Expire, Leave, leaseVars
<1>5. ASSUME NEW p \in Pauser, CloseAccount(p) \/ Drained(p) PROVE DormantInv'
  BY <1>5, DormantStep DEF CloseAccount, LeaseNext
<1>6. CASE Resume
  BY <1>6, DormantStep DEF LeaseNext
<1>7. CASE UNCHANGED sendVars
  BY <1>7, DormantStep DEF sendVars
<1> QED
  BY <1>2, <1>3, <1>4, <1>5, <1>6, <1>7 DEF SendNext

(* No send that waits or runs outlives its generation unheard: whoever is  *)
(* subscribed through onInvalidated can still be woken by the pause.       *)
THEOREM SendsAreWoken == SendSpec => []NoDormantSurvivor
<1>1. SendInit => DormantInv
  BY DEF SendInit, LeaseInit, DormantInv, NoDormantSurvivor
<1>2. DormantInv => NoDormantSurvivor
  BY DEF DormantInv
<1> QED
  BY <1>1, <1>2, SendDormantStep, SendLeaseType, PTL DEF SendSpec

=============================================================================
