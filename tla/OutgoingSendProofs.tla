------------------------ MODULE OutgoingSendProofs ------------------------
(***************************************************************************)
(* One outgoing message for any number of requests, attempts, crashes and  *)
(* retries: no bubble is stranded, no ladder is an orphan, a cancelled     *)
(* message stays hidden, a reported failure sticks, and "sent" is proven.  *)
(***************************************************************************)
EXTENDS OutgoingSend, FiniteSetTheorems, TLAPS

Ladder   == [attempts : 0 .. MaxAttempts, due : BOOLEAN, lease : 0 .. MaxGeneration]
DbRecord == [rows : [Guids -> Bubble], alias : {NoGuid} \union (Guids \ {Temp}),
             ledger : SUBSET Guids, queue : {NoQueue} \union Ladder]
RequestRecord == [at : {"none", "ready", "wire", "ghost", "answered", "done"},
                  answer : 0 .. MaxServerAttempts, before : {"sending", "sent"} \union Failed,
                  auto : BOOLEAN]
AttemptRecord == [generation : 0 .. MaxGeneration, copied : BOOLEAN,
                  failed : {"no", "safe", "unsafe"}]

\* What is typed apart from the tables.
RestTyped ==
  /\ chat \in {"open", "deleting", "deleted"} /\ old \subseteq Guids
  /\ request \in [Generations -> RequestRecord]
  /\ attempt \in [Attempts -> AttemptRecord]
  /\ cycles \in 0 .. MaxCycles /\ crashes \in 0 .. MaxCrashes
  /\ heard \subseteq Attempts /\ cancelled \in BOOLEAN

(***************************************************************************)
(* What holds of the tables alone.  The bubble has one name at a time: its *)
(* temporary guid until an alias replaces it.  Only the named row is sent, *)
(* counted and settled; the others are copies.  A deletion mark is in the  *)
(* ledger.  And the ladder ends with the sending, or with the temporary    *)
(* row's deletion.                                                         *)
(***************************************************************************)
Named(d, x)  == x = Temp \/ x = d.alias
Copy(r)      == r.generation = 0 /\ r.active = NoAttempt /\ ~r.pending /\ r.state \in {"gone", "sent"}

Tables(d) ==
  /\ d \in DbRecord
  /\ d.alias # NoGuid => d.rows[Temp].state = "gone"
  /\ \A x \in Guids :
       /\ d.rows[x].state = "gone" => d.rows[x] = Gone
       /\ ~Named(d, x) => Copy(d.rows[x])
       /\ d.rows[x].hidden = "message" => x \in d.ledger
       /\ Named(d, x) /\ d.rows[x].state = "sent" => d.queue = NoQueue
       /\ d.rows[x].state = "sent" => ~d.rows[x].pending
  /\ d.rows[Temp].hidden = "message" => d.queue = NoQueue

\* A bubble that says "sending" has its ladder, or a purge is about to take it.
Recoverable(d, doomed) ==
  \A x \in Guids : d.rows[x].state = "sending" /\ d.rows[x].hidden = "no"
                     => d.queue # NoQueue \/ x \in doomed

\* A cancelled message shows nothing, and what it is named by is in the ledger.
Silent(d) ==
  /\ \A x \in Guids : d.rows[x].state # "gone" => d.rows[x].hidden # "no"
  /\ Temp \in d.ledger \/ d.alias \in d.ledger

\* The numbers.
LEMMA Numbers ==
  /\ Temp \in Guids /\ NoGuid \notin Guids /\ Temp # NoGuid
  /\ Attempts \subseteq Guids \ {Temp} /\ Temp \notin Attempts
  /\ NoAttempt \notin Attempts /\ NoAttempt \in 0 .. MaxServerAttempts
  /\ Attempts \subseteq 0 .. MaxServerAttempts
  /\ Generations \subseteq 0 .. MaxGeneration /\ 0 \notin Generations
  /\ 0 \in 0 .. MaxGeneration /\ 0 \in 0 .. MaxAttempts /\ 1 \in 0 .. MaxAttempts
  /\ MaxAttempts \in 0 .. MaxAttempts
  BY BoundsAssumption DEF Temp, NoGuid, Guids, Attempts, NoAttempt, Generations

\* Gone and a copy are bubbles.
LEMMA Blanks ==
  /\ Gone \in Bubble /\ Gone.state = "gone" /\ Gone.hidden = "no" /\ Copy(Gone)
  /\ NoQueue \notin Ladder
  BY Numbers, BoundsAssumption DEF Gone, Bubble, Copy, NoQueue, Ladder, Failed, NoAttempt

\* Whoever owns the bubble is there, and bears its name unless it has none.
LEMMA OwnerIsThere ==
  ASSUME NEW d, Tables(d), NEW f \in Guids \union {NoGuid}
  PROVE  /\ Owner(d, f) \in Guids \union {NoGuid}
         /\ Owner(d, f) # NoGuid => d.rows[Owner(d, f)].state # "gone"
         /\ \A x \in Guids : Named(d, x) /\ d.rows[x].state # "gone" => Owner(d, f) = x
         /\ Owner(d, f) # NoGuid =>
              \/ Named(d, Owner(d, f))
              \/ Owner(d, f) = f /\ d.alias = NoGuid /\ d.rows[Temp].state = "gone"
  BY Numbers DEF Owner, There, Tables, DbRecord, Named

-----------------------------------------------------------------------------
(* What each transaction leaves in the tables. *)

\* The ladder is taken away, and nothing else.
LEMMA DequeueFields ==
  ASSUME NEW d \in DbRecord
  PROVE  /\ Dequeue(d) \in DbRecord /\ Dequeue(d).queue = NoQueue
         /\ Dequeue(d).rows = d.rows /\ Dequeue(d).alias = d.alias
         /\ Dequeue(d).ledger = d.ledger
  BY DEF DbRecord, Dequeue

\* The ladder ends unless an error sticks.
LEMMA EndLadderFields ==
  ASSUME NEW d \in DbRecord, NEW sticky \in BOOLEAN
  PROVE  /\ EndLadder(d, sticky) \in DbRecord
         /\ EndLadder(d, sticky).queue = IF sticky THEN d.queue ELSE NoQueue
         /\ EndLadder(d, sticky).rows = d.rows /\ EndLadder(d, sticky).alias = d.alias
         /\ EndLadder(d, sticky).ledger = d.ledger
  BY DequeueFields DEF EndLadder

\* A settled row awaits nothing, and is sent unless an error sticks.
LEMMA SettledFields ==
  ASSUME NEW r \in Bubble, NEW sticky \in BOOLEAN
  PROVE  /\ Settled(r, sticky) \in Bubble /\ ~Settled(r, sticky).pending
         /\ Settled(r, sticky).state = IF sticky THEN r.state ELSE "sent"
         /\ Settled(r, sticky).generation = r.generation
         /\ Settled(r, sticky).active = r.active /\ Settled(r, sticky).hidden = r.hidden
  BY DEF Bubble, Settled

\* One row changes, and perhaps the ladder.
LEMMA RowChange ==
  ASSUME NEW d, Tables(d), NEW e \in DbRecord, NEW x \in Guids, NEW r \in Bubble,
         e.rows = [d.rows EXCEPT ![x] = r], e.alias = d.alias, e.ledger = d.ledger,
         d.rows[x].state # "gone", r.state # "gone", r.hidden = d.rows[x].hidden,
         Named(d, x) \/ Copy(r),
         r.state = "sent" => ~r.pending /\ (Named(d, x) => e.queue = NoQueue),
         d.queue = NoQueue => e.queue = NoQueue \/ (Named(d, x) /\ d.rows[x].hidden = "no")
  PROVE  /\ Tables(e)
         /\ Silent(d) => Silent(e)
<1>1. /\ \A y \in Guids : e.rows[y] = IF y = x THEN r ELSE d.rows[y]
      /\ \A y \in Guids : Named(e, y) <=> Named(d, y)
  BY DEF Tables, DbRecord, Named
<1>2. Temp \in Guids
  BY Numbers
<1>3. e.alias # NoGuid => e.rows[Temp].state = "gone"
  BY <1>1, <1>2 DEF Tables
<1>4. \A y \in Guids :
       /\ e.rows[y].state = "gone" => e.rows[y] = Gone
       /\ ~Named(e, y) => Copy(e.rows[y])
       /\ e.rows[y].hidden = "message" => y \in e.ledger
       /\ e.rows[y].state = "sent" => ~e.rows[y].pending
  BY <1>1 DEF Tables
<1>5. ASSUME NEW y \in Guids, Named(e, y), e.rows[y].state = "sent" PROVE e.queue = NoQueue
  <2>1. CASE y = x
    BY <1>1, <1>5, <2>1
  <2>2. CASE y # x
    <3>1. ~Named(d, x) /\ d.queue = NoQueue
      BY <1>1, <1>5, <2>2, Numbers DEF Tables, Named
    <3> QED
      BY <3>1
  <2> QED
    BY <2>1, <2>2
<1>6. e.rows[Temp].hidden = "message" => e.queue = NoQueue
  BY <1>1, Numbers, Blanks DEF Tables, Named
<1>7. Silent(d) => Silent(e)
  BY <1>1 DEF Silent
<1> QED
  BY <1>3, <1>4, <1>5, <1>6, <1>7 DEF Tables

\* The canonical guid gets the alias, and the deletion mark of either name.
LEMMA HandoverFields ==
  ASSUME NEW d, Tables(d), NEW x \in Attempts
  PROVE  /\ Handover(d, x) \in DbRecord
         /\ Handover(d, x).alias = x /\ Handover(d, x).queue = d.queue
         /\ \A y \in Guids : y # Temp => Handover(d, x).rows[y] = d.rows[y]
         /\ Handover(d, x).rows[Temp] \in
              {d.rows[Temp], [d.rows[Temp] EXCEPT !.hidden = "message"]}
         /\ d.rows[Temp].state = "gone" => Handover(d, x).rows[Temp] = d.rows[Temp]
         /\ \A y \in d.ledger \ {Temp} : y \in Handover(d, x).ledger
         /\ Temp \in d.ledger \/ d.rows[Temp].hidden = "message"
              => x \in Handover(d, x).ledger
         /\ Handover(d, x).rows[Temp].hidden = "message" /\ d.rows[Temp].state # "gone"
              => x \in Handover(d, x).ledger
<1>1. d \in DbRecord /\ x \in Guids /\ Temp \in Guids /\ x # Temp
  BY Numbers DEF Tables
<1>2. CASE d.ledger \cap {Temp, x} = {} /\ d.rows[Temp].hidden # "message"
  BY <1>1, <1>2 DEF Handover, DbRecord
<1>3. CASE ~(d.ledger \cap {Temp, x} = {} /\ d.rows[Temp].hidden # "message")
  <2> DEFINE h == [d EXCEPT !.alias = x, !.ledger = (@ \union {x}) \ {Temp},
                            !.rows[Temp].hidden = IF There(d, Temp) THEN "message" ELSE @]
  <2>1. Handover(d, x) = h
    BY <1>3 DEF Handover
  <2>2. h.alias = x /\ h.queue = d.queue /\ h.ledger = (d.ledger \union {x}) \ {Temp}
    BY <1>1 DEF DbRecord
  <2>3. h.rows = [d.rows EXCEPT ![Temp].hidden =
                    IF There(d, Temp) THEN "message" ELSE d.rows[Temp].hidden]
    BY <1>1 DEF DbRecord
  <2>4. /\ \A y \in Guids : y # Temp => h.rows[y] = d.rows[y]
        /\ h.rows[Temp] = IF There(d, Temp) THEN [d.rows[Temp] EXCEPT !.hidden = "message"]
                                            ELSE d.rows[Temp]
        /\ h.rows \in [Guids -> Bubble]
    BY <1>1, <2>3 DEF DbRecord, Bubble
  <2>5. h \in DbRecord
    BY <1>1, <2>2, <2>4 DEF DbRecord
  <2> HIDE DEF h
  <2> QED
    BY <1>1, <2>1, <2>2, <2>4, <2>5 DEF There
<1> QED
  BY <1>2, <1>3

\* The temporary row becomes the canonical one.
LEMMA PromoteFields ==
  ASSUME NEW d, Tables(d), NEW x \in Attempts, NEW a \in Attempts, NEW sticky \in BOOLEAN,
         d.rows[Temp].state # "gone", sticky => d.rows[Temp].state \in Failed
  PROVE  LET p == Promote(d, a, x, sticky) IN
         /\ Tables(p) /\ (Silent(d) => Silent(p))
         /\ p.alias = x /\ p.queue = (IF sticky THEN d.queue ELSE NoQueue)
         /\ p.rows[Temp] = Gone
         /\ \A y \in Guids : y \notin {Temp, x} => p.rows[y] = d.rows[y]
         /\ p.rows[x].state = (IF sticky THEN d.rows[Temp].state ELSE "sent")
         /\ p.rows[x].generation = d.rows[Temp].generation /\ p.rows[x].active = a
         /\ ~p.rows[x].pending
         /\ p.rows[x].hidden \in {"message", d.rows[Temp].hidden, d.rows[x].hidden}
<1> DEFINE h    == Handover(d, x)
           temp == h.rows[Temp]
           base == IF There(d, x) THEN h.rows[x] ELSE temp
           row  == [Settled(temp, sticky) EXCEPT
                      !.active = a,
                      !.hidden = IF temp.hidden = "message" THEN "message" ELSE base.hidden]
           e    == [h EXCEPT !.rows[x] = row, !.rows[Temp] = Gone]
           p    == EndLadder(e, sticky)
<1>1. p = Promote(d, a, x, sticky)
  BY DEF Promote
<1>2. x \in Guids /\ Temp \in Guids /\ x # Temp /\ d \in DbRecord /\ a \in 0 .. MaxServerAttempts
  BY Numbers DEF Tables
<1>3. /\ h \in DbRecord /\ h.alias = x /\ h.queue = d.queue
      /\ \A y \in Guids : y # Temp => h.rows[y] = d.rows[y]
      /\ temp \in {d.rows[Temp], [d.rows[Temp] EXCEPT !.hidden = "message"]}
      /\ \A y \in d.ledger \ {Temp} : y \in h.ledger
      /\ Temp \in d.ledger \/ d.rows[Temp].hidden = "message" => x \in h.ledger
      /\ temp.hidden = "message" => x \in h.ledger
  BY HandoverFields
<1>4. /\ temp \in Bubble /\ d.rows[x] \in Bubble /\ d.rows[Temp] \in Bubble
      /\ h.rows[x] = d.rows[x]
      /\ temp.state = d.rows[Temp].state /\ temp.generation = d.rows[Temp].generation
      /\ temp.hidden \in {d.rows[Temp].hidden, "message"}
  BY <1>2, <1>3 DEF DbRecord, Bubble
<1> HIDE DEF h, temp
<1>5. base \in Bubble /\ base.hidden \in {d.rows[x].hidden, temp.hidden}
  BY <1>4
<1>6. /\ row \in Bubble /\ row.active = a /\ ~row.pending
      /\ row.generation = d.rows[Temp].generation
      /\ row.state = (IF sticky THEN d.rows[Temp].state ELSE "sent")
      /\ row.hidden = (IF temp.hidden = "message" THEN "message" ELSE base.hidden)
  <2>1. /\ Settled(temp, sticky) \in Bubble /\ ~Settled(temp, sticky).pending
        /\ Settled(temp, sticky).state = (IF sticky THEN temp.state ELSE "sent")
        /\ Settled(temp, sticky).generation = temp.generation
    BY <1>4, SettledFields
  <2> QED
    BY <1>2, <1>4, <1>5, <2>1 DEF Bubble
<1>7. row.hidden \in {"message", d.rows[Temp].hidden, d.rows[x].hidden}
  BY <1>4, <1>5, <1>6
<1>8. row.hidden = "message" => x \in h.ledger
  BY <1>2, <1>3, <1>4, <1>5, <1>6 DEF Tables
<1>9. Silent(d) => row.hidden # "no"
  BY <1>2, <1>4, <1>6 DEF Silent, There
<1> HIDE DEF row, base
<1>10. /\ e \in DbRecord /\ e.alias = x /\ e.queue = d.queue /\ e.ledger = h.ledger
       /\ \A y \in Guids : e.rows[y] = IF y = Temp THEN Gone ELSE IF y = x THEN row
                                       ELSE d.rows[y]
  BY <1>2, <1>3, <1>6, Blanks DEF DbRecord
<1> HIDE DEF e
<1>11. /\ p \in DbRecord /\ p.alias = x /\ p.queue = (IF sticky THEN d.queue ELSE NoQueue)
       /\ p.ledger = h.ledger
       /\ \A y \in Guids : p.rows[y] = IF y = Temp THEN Gone ELSE IF y = x THEN row
                                       ELSE d.rows[y]
  BY <1>10, EndLadderFields
<1> HIDE DEF p
<1>12. d.alias = NoGuid
  BY DEF Tables
<1>13. ASSUME NEW y \in Guids
       PROVE  /\ p.rows[y].state = "gone" => p.rows[y] = Gone
              /\ ~Named(p, y) => Copy(p.rows[y])
              /\ p.rows[y].hidden = "message" => y \in p.ledger
              /\ Named(p, y) /\ p.rows[y].state = "sent" => p.queue = NoQueue
              /\ p.rows[y].state = "sent" => ~p.rows[y].pending
  <2>1. CASE y = Temp
    BY <1>2, <1>11, <2>1, Blanks
  <2>2. CASE y = x
    BY <1>2, <1>6, <1>8, <1>11, <2>2 DEF Named, Failed
  <2>3. CASE y \notin {Temp, x}
    <3>1. p.rows[y] = d.rows[y] /\ ~Named(d, y) /\ ~Named(p, y) /\ y # Temp
      BY <1>11, <1>12, <2>3, Numbers DEF Named
    <3>2. d.rows[y].hidden = "message" => y \in p.ledger
      BY <1>3, <1>11, <3>1 DEF Tables
    <3> QED
      BY <3>1, <3>2 DEF Tables
  <2> QED
    BY <2>1, <2>2, <2>3
<1>14. Tables(p)
  <2>1. p.rows[Temp] = Gone
    BY <1>2, <1>11
  <2> QED
    BY <1>11, <1>13, <2>1, Blanks DEF Tables
<1>15. Silent(d) => Silent(p)
  <2>1. ASSUME Silent(d) PROVE Silent(p)
    <3>1. \A y \in Guids : p.rows[y].state # "gone" => p.rows[y].hidden # "no"
      BY <1>9, <1>11, <2>1, Blanks DEF Silent
    <3>2. Temp \in d.ledger
      BY <1>2, <1>12, <2>1, Numbers DEF Silent, DbRecord
    <3> QED
      BY <1>3, <1>11, <3>1, <3>2 DEF Silent
  <2> QED
    BY <2>1
<1> QED
  BY <1>1, <1>2, <1>6, <1>7, <1>11, <1>14, <1>15

\* The row a success makes of a bubble that is gone.
Reborn(g, a, hidden) == [state |-> "sent", generation |-> g, pending |-> FALSE, active |-> a,
                         hidden |-> hidden]

\* A sent row is born where none was, under the one name there is, and ends the ladder.
LEMMA RebornFields ==
  ASSUME NEW d, Tables(d), NEW e \in DbRecord, NEW x \in Guids, NEW g \in 0 .. MaxGeneration,
         NEW a \in 0 .. MaxServerAttempts, NEW hidden \in {"no", "message", "chat"},
         d.rows[Temp].state = "gone", d.alias # NoGuid => d.alias = x,
         e.alias = IF x = Temp THEN NoGuid ELSE x, e.queue = NoQueue,
         \A y \in Guids : e.rows[y] = IF y = x THEN Reborn(g, a, hidden) ELSE d.rows[y],
         d.ledger \ {Temp} \subseteq e.ledger, hidden = "message" => x \in e.ledger
  PROVE  Tables(e)
<1>1. ASSUME NEW y \in Guids, y # x
      PROVE  /\ e.rows[y].state = "gone" => e.rows[y] = Gone
             /\ ~Named(e, y) => Copy(e.rows[y])
             /\ e.rows[y].hidden = "message" => y \in e.ledger
             /\ e.rows[y].state = "sent" => ~e.rows[y].pending
  <2>1. e.rows[y] = d.rows[y]
    BY <1>1
  <2>2. CASE y = Temp
    BY <2>1, <2>2, Blanks, Numbers DEF Tables
  <2>3. CASE y # Temp
    <3>1. ~Named(d, y)
      BY <1>1, <2>3, Numbers DEF Named
    <3> QED
      BY <1>1, <2>1, <2>3, <3>1 DEF Tables
  <2> QED
    BY <2>2, <2>3
<1>2. /\ e.rows[x].state = "sent" /\ ~e.rows[x].pending /\ Named(e, x)
      /\ e.rows[x].hidden = "message" => x \in e.ledger
  BY Numbers DEF Reborn, Named
<1>3. e.alias # NoGuid => e.rows[Temp].state = "gone"
  BY Numbers
<1> QED
  BY <1>1, <1>2, <1>3 DEF Tables

\* A success gives the bubble back: a sent row of generation g, made by attempt a, under
\* the one name there is, and no ladder.
Birth(d, e, x, a, g) ==
  /\ e.queue = NoQueue /\ e.alias = x
  /\ \E hidden \in {"no", "message", "chat"} : e.rows[x] = Reborn(g, a, hidden)
  /\ \A y \in Guids \ {x} : e.rows[y] = d.rows[y]

\* A success whose bubble is gone.
LEMMA RecreateFields ==
  ASSUME NEW d, Tables(d), NEW x \in Attempts, NEW a \in Attempts, NEW g \in 0 .. MaxGeneration,
         Owner(d, x) = NoGuid
  PROVE  LET e == Recreate(d, a, g, x) IN
         /\ Tables(e) /\ (Silent(d) => Silent(e))
         /\ e = d \/ Birth(d, e, x, a, g)
         /\ d.alias = x => Birth(d, e, x, a, g)
         /\ e.alias # d.alias => Temp \in d.ledger
<1>1. CASE (d.alias = NoGuid /\ Temp \notin d.ledger) \/ d.alias \notin {NoGuid, x}
  BY <1>1, Numbers DEF Recreate
<1>2. CASE ~((d.alias = NoGuid /\ Temp \notin d.ledger) \/ d.alias \notin {NoGuid, x})
  <2> DEFINE h == Handover(d, x)
             hidden == IF x \in h.ledger THEN "message" ELSE "no"
             b == [h EXCEPT !.rows[x] = Reborn(g, a, hidden)]
             e == Dequeue(b)
  <2>1. e = Recreate(d, a, g, x)
    BY <1>2 DEF Recreate, Reborn
  <2>2. x \in Guids /\ Temp \in Guids /\ x # Temp /\ d \in DbRecord /\ a \in 0 .. MaxServerAttempts
    BY Numbers DEF Tables
  <2>3. d.rows[Temp].state = "gone" /\ d.alias \in {NoGuid, x}
    BY <1>2, <2>2, Numbers DEF Owner, There
  <2>4. /\ h \in DbRecord /\ h.alias = x /\ h.queue = d.queue
        /\ \A y \in Guids : h.rows[y] = d.rows[y]
        /\ d.ledger \ {Temp} \subseteq h.ledger
        /\ Temp \in d.ledger => x \in h.ledger
    <3>1. \A y \in Guids : y # Temp => h.rows[y] = d.rows[y]
      BY HandoverFields
    <3>2. h.rows[Temp] = d.rows[Temp]
      BY <2>3, HandoverFields
    <3>3. \A y \in d.ledger \ {Temp} : y \in h.ledger
      BY HandoverFields
    <3>4. h \in DbRecord /\ h.alias = x /\ h.queue = d.queue /\ (Temp \in d.ledger => x \in h.ledger)
      BY HandoverFields
    <3> QED
      BY <3>1, <3>2, <3>3, <3>4
  <2>5. hidden \in {"no", "message", "chat"} /\ (hidden = "message" <=> x \in h.ledger)
        /\ (hidden = "no" <=> x \notin h.ledger)
    OBVIOUS
  <2> HIDE DEF h, hidden
  <2>6. Reborn(g, a, hidden) \in Bubble
    BY <2>2, <2>5 DEF Reborn, Bubble
  <2>7. /\ b \in DbRecord /\ b.alias = x /\ b.ledger = h.ledger
        /\ \A y \in Guids : b.rows[y] = IF y = x THEN Reborn(g, a, hidden) ELSE d.rows[y]
    BY <2>2, <2>4, <2>6 DEF DbRecord
  <2> HIDE DEF b
  <2>8. /\ e \in DbRecord /\ e.alias = x /\ e.ledger = h.ledger /\ e.queue = NoQueue
        /\ \A y \in Guids : e.rows[y] = IF y = x THEN Reborn(g, a, hidden) ELSE d.rows[y]
    BY <2>7, DequeueFields
  <2> HIDE DEF e
  <2>9. Tables(e)
    BY <2>2, <2>3, <2>4, <2>5, <2>8, RebornFields
  <2>10. Silent(d) => Silent(e)
    <3>1. ASSUME Silent(d) PROVE Silent(e)
      <4>1. x \in h.ledger
        BY <2>2, <2>3, <2>4, <3>1, Numbers DEF Silent, DbRecord
      <4>2. Reborn(g, a, hidden).hidden # "no"
        BY <2>5, <4>1 DEF Reborn
      <4> QED
        BY <2>8, <3>1, <4>1, <4>2 DEF Silent
    <3> QED
      BY <3>1
  <2>11. Birth(d, e, x, a, g)
    BY <2>2, <2>5, <2>8 DEF Birth
  <2>12. e.alias # d.alias => Temp \in d.ledger
    BY <1>2, <2>8
  <2> QED
    BY <2>1, <2>9, <2>10, <2>11, <2>12
<1> QED
  BY <1>1, <1>2

\* Or it settles the named row, in its place or under its new name.
Settlement(d, e, o, y, a, sticky) ==
  /\ Named(d, o) /\ Named(e, y) /\ y \in Guids
  /\ e.alias = (IF y = o THEN d.alias ELSE y)
  /\ y # o => o = Temp /\ e.rows[Temp] = Gone
  /\ \A z \in Guids \ {o, y} : e.rows[z] = d.rows[z]
  /\ e.queue = (IF sticky THEN d.queue ELSE NoQueue)
  /\ ~e.rows[y].pending
  /\ e.rows[y].state = (IF sticky THEN d.rows[o].state ELSE "sent")
  /\ e.rows[y].generation = d.rows[o].generation
  /\ e.rows[y].active \in {a, d.rows[o].active}
  /\ e.rows[y].hidden \in {"message", d.rows[o].hidden, d.rows[y].hidden}

\* The row settles where it is.
LEMMA SettleInPlace ==
  ASSUME NEW d, Tables(d), NEW o \in Guids, Named(d, o), d.rows[o].state # "gone",
         NEW a \in Attempts, NEW sticky \in BOOLEAN, sticky => d.rows[o].state \in Failed,
         NEW r, r \in {Settled(d.rows[o], sticky), [Settled(d.rows[o], sticky) EXCEPT !.active = a]},
         NEW e, e = EndLadder([d EXCEPT !.rows[o] = r], sticky)
  PROVE  Tables(e) /\ (Silent(d) => Silent(e)) /\ Settlement(d, e, o, o, a, sticky)
<1>1. d \in DbRecord /\ d.rows[o] \in Bubble /\ a \in 0 .. MaxServerAttempts
  BY Numbers DEF Tables, DbRecord
<1>2. /\ r \in Bubble /\ ~r.pending /\ r.state = (IF sticky THEN d.rows[o].state ELSE "sent")
      /\ r.generation = d.rows[o].generation /\ r.hidden = d.rows[o].hidden
      /\ r.active \in {a, d.rows[o].active}
  <2> DEFINE s == Settled(d.rows[o], sticky)
  <2>1. /\ s \in Bubble /\ ~s.pending /\ s.state = (IF sticky THEN d.rows[o].state ELSE "sent")
        /\ s.generation = d.rows[o].generation /\ s.active = d.rows[o].active
        /\ s.hidden = d.rows[o].hidden
    BY <1>1, SettledFields
  <2> HIDE DEF s
  <2>2. r \in {s, [s EXCEPT !.active = a]}
    BY DEF s
  <2> QED
    BY <1>1, <2>1, <2>2 DEF Bubble
<1> DEFINE b == [d EXCEPT !.rows[o] = r]
<1>3. /\ b \in DbRecord /\ b.rows = [d.rows EXCEPT ![o] = r] /\ b.alias = d.alias
      /\ b.ledger = d.ledger /\ b.queue = d.queue
  BY <1>1, <1>2 DEF DbRecord
<1> HIDE DEF b
<1>4. /\ e \in DbRecord /\ e.rows = [d.rows EXCEPT ![o] = r] /\ e.alias = d.alias
      /\ e.ledger = d.ledger /\ e.queue = IF sticky THEN d.queue ELSE NoQueue
  BY <1>3, EndLadderFields DEF b
<1>5. r.state # "gone" /\ (r.state = "sent" => ~sticky)
  BY <1>2 DEF Failed
<1>6. Tables(e) /\ (Silent(d) => Silent(e))
  BY <1>2, <1>4, <1>5, RowChange
<1>7. \A y \in Guids : e.rows[y] = IF y = o THEN r ELSE d.rows[y]
  BY <1>1, <1>4 DEF DbRecord
<1> QED
  BY <1>2, <1>4, <1>6, <1>7 DEF Settlement, Named

\* A success changes nothing, or a bubble is born again, or the named row settles.
LEMMA ExactFields ==
  ASSUME NEW d, Tables(d), NEW a \in Attempts, NEW g \in 0 .. MaxGeneration,
         NEW x \in Guids, x \in Attempts \/ Owner(d, x) = x, NEW keepError \in BOOLEAN
  PROVE  LET e == Exact(d, a, g, x, keepError)
             o == Owner(d, x)
             r == d.rows[o]
         IN  /\ Tables(e) /\ (Silent(d) => Silent(e))
             /\ \/ e = d
                \/ Owner(d, x) = NoGuid /\ x \in Attempts /\ Birth(d, e, x, a, g)
                     /\ (e.alias # d.alias => Temp \in d.ledger)
                \/ \E y \in Guids, sticky \in BOOLEAN :
                     /\ Settlement(d, e, o, y, a, sticky) /\ y \in {o, x}
                     /\ o # NoGuid /\ ~Stale(r, a, g)
                     /\ sticky <=> r.state \in Failed /\ (~r.pending \/ keepError)
             /\ o = NoGuid /\ d.alias = x => Birth(d, e, x, a, g)
<1> DEFINE o == Owner(d, x)
           r == d.rows[o]
           sticky == r.state \in Failed /\ (~r.pending \/ keepError)
           mine == o \in {Temp, x} /\ (o = Temp /\ x # Temp => d.alias \in {NoGuid, x})
           e == Exact(d, a, g, x, keepError)
<1>1. CASE o = NoGuid
  <2>1. x \in Attempts
    BY <1>1, Numbers
  <2>2. e = Recreate(d, a, g, x)
    BY <1>1 DEF Exact
  <2> QED
    BY <1>1, <2>1, <2>2, RecreateFields
<1>2. CASE o # NoGuid /\ Stale(r, a, g)
  BY <1>2 DEF Exact
<1>3. CASE o # NoGuid /\ ~Stale(r, a, g)
  <2>1. /\ o \in Guids /\ d.rows[o].state # "gone"
        /\ Named(d, o) \/ (o = x /\ d.alias = NoGuid /\ d.rows[Temp].state = "gone")
    BY <1>3, OwnerIsThere
  <2>2. Named(d, o)
    <3>1. ~Copy(r)
      BY <1>3, Numbers DEF Stale, Copy, NoAttempt
    <3> QED
      BY <2>1, <3>1 DEF Tables
  <2>3. sticky \in BOOLEAN /\ (sticky => d.rows[o].state \in Failed)
    OBVIOUS
  <2>4. e = IF ~mine THEN EndLadder([d EXCEPT !.rows[o] = Settled(r, sticky)], sticky)
            ELSE IF o # x THEN Promote(d, a, x, sticky)
            ELSE IF r.pending
                 THEN EndLadder([d EXCEPT !.rows[o] = [Settled(r, sticky) EXCEPT !.active = a]],
                                sticky)
            ELSE d
    BY <1>3 DEF Exact
  <2>5. ASSUME Tables(e), Silent(d) => Silent(e), NEW y \in Guids,
               Settlement(d, e, o, y, a, sticky), y \in {o, x}
        PROVE  /\ Tables(e) /\ (Silent(d) => Silent(e))
               /\ \E z \in Guids, k \in BOOLEAN :
                     /\ Settlement(d, e, o, z, a, k) /\ z \in {o, x}
                     /\ o # NoGuid /\ ~Stale(r, a, g)
                     /\ k <=> r.state \in Failed /\ (~r.pending \/ keepError)
    BY <1>3, <2>3, <2>5
  <2>6. CASE ~mine
    <3>1. e = EndLadder([d EXCEPT !.rows[o] = Settled(r, sticky)], sticky)
      BY <2>4, <2>6
    <3>2. Tables(e) /\ (Silent(d) => Silent(e)) /\ Settlement(d, e, o, o, a, sticky)
      <4> HIDE DEF sticky, e
      <4> QED
        BY <2>1, <2>2, <2>3, <3>1, SettleInPlace
    <3> QED
      BY <1>3, <2>1, <2>5, <3>2
  <2>7. CASE mine /\ o = x /\ r.pending
    <3>1. e = EndLadder([d EXCEPT !.rows[o] = [Settled(r, sticky) EXCEPT !.active = a]], sticky)
      BY <2>4, <2>7
    <3>2. Tables(e) /\ (Silent(d) => Silent(e)) /\ Settlement(d, e, o, o, a, sticky)
      <4> HIDE DEF sticky, e
      <4> QED
        BY <2>1, <2>2, <2>3, <3>1, SettleInPlace
    <3> QED
      BY <1>3, <2>1, <2>5, <3>2
  <2>8. CASE mine /\ o # x
    <3>1. e = Promote(d, a, x, sticky) /\ o = Temp /\ x \in Attempts
      BY <2>4, <2>8
    <3>2. /\ Tables(e) /\ (Silent(d) => Silent(e))
          /\ e.alias = x /\ e.queue = (IF sticky THEN d.queue ELSE NoQueue)
          /\ e.rows[Temp] = Gone
          /\ \A y \in Guids : y \notin {Temp, x} => e.rows[y] = d.rows[y]
          /\ e.rows[x].state = (IF sticky THEN d.rows[Temp].state ELSE "sent")
          /\ e.rows[x].generation = d.rows[Temp].generation /\ e.rows[x].active = a
          /\ ~e.rows[x].pending
          /\ e.rows[x].hidden \in {"message", d.rows[Temp].hidden, d.rows[x].hidden}
      <4> HIDE DEF sticky, e
      <4> QED
        BY <2>1, <2>3, <3>1, PromoteFields
    <3>3. Settlement(d, e, o, x, a, sticky)
      <4>1. x # o /\ Named(e, x)
        BY <2>8, <3>2 DEF Named
      <4> HIDE DEF sticky, e, mine
      <4> QED
        BY <2>2, <3>1, <3>2, <4>1 DEF Settlement
    <3> QED
      BY <1>3, <2>5, <3>2, <3>3
  <2>9. CASE mine /\ o = x /\ ~r.pending
    BY <2>4, <2>9, <1>3
  <2> QED
    BY <2>6, <2>7, <2>8, <2>9
<1> QED
  BY <1>1, <1>2, <1>3

-----------------------------------------------------------------------------
\* The provider's own copy is stored: the row keeps what it says, or is born sent.
LEMMA UpsertFields ==
  ASSUME NEW d, Tables(d), NEW a \in Attempts, NEW past \in BOOLEAN,
         d.alias = a /\ d.rows[a].state = "gone" => d.queue = NoQueue
  PROVE  LET e == Upsert(d, a, past) IN
         /\ Tables(e) /\ (Silent(d) => Silent(e))
         /\ e.alias = d.alias /\ e.queue = d.queue
         /\ \A y \in Guids \ {a} : e.rows[y] = d.rows[y]
         /\ e.rows[a].hidden = "chat" => past \/ d.rows[a].hidden = "chat"
         /\ \/ /\ e.rows[a].state = d.rows[a].state /\ e.rows[a].generation = d.rows[a].generation
               /\ e.rows[a].pending = d.rows[a].pending /\ e.rows[a].active = d.rows[a].active
               /\ e.rows[a].hidden = "no" => d.rows[a].hidden = "no"
            \/ /\ d.rows[a].state = "gone" /\ e.rows[a].state = "sent" /\ Copy(e.rows[a])
<1> DEFINE deleted == d.ledger \cap {Temp, a} # {}
           was     == d.rows[a].hidden
           hidden  == IF deleted \/ was = "message" THEN "message"
                      ELSE IF past THEN "chat" ELSE was
           row     == IF There(d, a) THEN d.rows[a] ELSE [Gone EXCEPT !.state = "sent"]
           new     == [row EXCEPT !.hidden = hidden]
           e       == Upsert(d, a, past)
<1>1. a \in Guids /\ Temp \in Guids /\ a # Temp /\ a # NoGuid /\ d \in DbRecord
  BY Numbers DEF Tables
<1>2. CASE d.alias \notin {NoGuid, a}
  BY <1>2, <1>1 DEF Upsert
<1>3. CASE d.alias \in {NoGuid, a}
  <2>1. e = [d EXCEPT !.rows[a] = new, !.ledger = IF deleted THEN @ \union {a} ELSE @]
    BY <1>3 DEF Upsert
  <2>2. hidden \in {"no", "message", "chat"} /\ d.rows[a] \in Bubble
    BY <1>1 DEF DbRecord, Bubble
  <2>3. row \in Bubble /\ row.state # "gone"
    BY <1>1, <2>2, Blanks DEF There, Bubble
  <2>4. /\ new \in Bubble /\ new.state = row.state /\ new.generation = row.generation
        /\ new.pending = row.pending /\ new.active = row.active /\ new.hidden = hidden
    BY <2>2, <2>3 DEF Bubble
  <2>5. d.rows[a].state = "gone" => Copy(new) /\ new.state = "sent" /\ ~new.pending
    BY <1>1, <2>4, Blanks DEF There, Copy, Gone
  <2>6. d.rows[a].state # "gone" => row = d.rows[a]
    BY <1>1 DEF There
  <2>7. hidden = "message" => deleted \/ a \in d.ledger
    BY <1>1 DEF Tables
  <2>8. /\ hidden = "chat" => past \/ was = "chat"
        /\ hidden = "no" => was = "no" /\ ~deleted
    BY <2>2
  <2>9. Silent(d) => deleted
    BY <1>1, <1>3 DEF Silent, DbRecord, Guids, NoGuid
  <2> HIDE DEF new, row, hidden
  <2>10. /\ e \in DbRecord /\ e.alias = d.alias /\ e.queue = d.queue
         /\ e.ledger = IF deleted THEN d.ledger \union {a} ELSE d.ledger
         /\ \A y \in Guids : e.rows[y] = IF y = a THEN new ELSE d.rows[y]
    <3> HIDE DEF deleted
    <3> DEFINE l == IF deleted THEN d.ledger \union {a} ELSE d.ledger
    <3>1. l \in SUBSET Guids
      BY <1>1 DEF DbRecord
    <3>2. e = [d EXCEPT !.rows[a] = new, !.ledger = l]
      BY <1>1, <2>1 DEF DbRecord
    <3> HIDE DEF l
    <3>3. /\ e \in DbRecord /\ e.alias = d.alias /\ e.queue = d.queue /\ e.ledger = l
          /\ \A y \in Guids : e.rows[y] = IF y = a THEN new ELSE d.rows[y]
      BY <1>1, <2>4, <3>1, <3>2 DEF DbRecord
    <3> QED
      BY <3>3 DEF l
  <2>11a. e = Upsert(d, a, past)
    OBVIOUS
  <2> HIDE DEF e
  <2>11. \A y \in Guids : Named(e, y) <=> Named(d, y)
    BY <2>10 DEF Named
  <2>12. hidden = "message" => a \in e.ledger
    BY <2>7, <2>10
  <2>13. d.ledger \subseteq e.ledger
    BY <2>10
  <2> HIDE DEF deleted
  <2>14. ASSUME NEW y \in Guids
         PROVE  /\ e.rows[y].state = "gone" => e.rows[y] = Gone
                /\ ~Named(e, y) => Copy(e.rows[y])
                /\ e.rows[y].hidden = "message" => y \in e.ledger
                /\ Named(e, y) /\ e.rows[y].state = "sent" => e.queue = NoQueue
                /\ e.rows[y].state = "sent" => ~e.rows[y].pending
    <3>1. CASE y # a
      BY <2>10, <2>11, <2>13, <3>1 DEF Tables
    <3>2. CASE y = a
      <4>1. e.rows[y] = new /\ new.hidden = hidden /\ new.state # "gone"
        BY <2>3, <2>4, <2>10, <3>2
      <4>2. CASE d.rows[a].state = "gone"
        <5>1. Named(e, y) => d.alias = a
          BY <1>1, <2>11, <3>2 DEF Named
        <5> QED
          BY <2>5, <2>10, <2>12, <3>2, <4>1, <4>2, <5>1
      <4>3. CASE d.rows[a].state # "gone"
        <5>1. /\ new.state = d.rows[a].state /\ new.generation = d.rows[a].generation
              /\ new.pending = d.rows[a].pending /\ new.active = d.rows[a].active
          BY <2>4, <2>6, <4>3
        <5> QED
          BY <2>10, <2>11, <2>12, <3>2, <4>1, <5>1, <1>1 DEF Tables, Copy
      <4> QED
        BY <4>2, <4>3
    <3> QED
      BY <3>1, <3>2
  <2>15. Tables(e)
    <3>1. e.rows[Temp] = d.rows[Temp]
      BY <1>1, <2>10
    <3>2. /\ e.alias # NoGuid => e.rows[Temp].state = "gone"
          /\ e.rows[Temp].hidden = "message" => e.queue = NoQueue
      BY <2>10, <3>1 DEF Tables
    <3> QED
      BY <2>10, <2>14, <3>2 DEF Tables
  <2>16. Silent(d) => Silent(e)
    BY <2>4, <2>8, <2>9, <2>10 DEF Silent
  <2> QED
    BY <1>1, <2>4, <2>5, <2>6, <2>8, <2>10, <2>15, <2>16, <2>11a
<1> QED
  BY <1>2, <1>3

-----------------------------------------------------------------------------
(***************************************************************************)
(* The fences of the named row, until a purge takes it: a request that     *)
(* may still be answered is of the row's generation and awaited, attempts  *)
(* and failures are not newer than the row, an awaited row has no failure  *)
(* of its own generation, and a sent one is proven.                        *)
(***************************************************************************)
Proven(r, q, t, h) ==
  \E a \in Attempts : \/ t[a].generation = r.generation
                      \/ t[a].generation > 0 /\ q[r.generation].answer = a
                      \/ a = r.active /\ a \in h

Fence(r, q, t, h) ==
  /\ r.generation \in Generations
  /\ \A g \in Generations :
       /\ q[g].at \in {"ready", "wire"}
            => g = r.generation /\ r.pending /\ r.state = "sending"
       /\ g > r.generation => q[g].at = "none"
  /\ \A a \in Attempts : t[a].generation > 0 =>
       t[a].generation <= r.generation /\ q[t[a].generation].at \notin {"none", "ready", "wire"}
  /\ r.pending /\ r.state \in Failed => q[r.generation].at # "answered"
  /\ r.pending => \A a \in h : t[a].generation < r.generation
  /\ r.active # NoAttempt =>
       /\ t[r.active].generation > 0
       /\ r.state # "sent" => r.active \in h
       /\ r.state = "sending" => t[r.active].generation < r.generation
  /\ r.state = "sent" =>
       Proven(r, q, t, h) /\ (r.active \in h => t[r.active].generation < r.generation)

(***************************************************************************)
(* A bubble that a purge took and a late success gave back is spent: it is *)
(* sent, or failed for good, it awaits nothing, and it is hidden unless    *)
(* its attempt has a copy, whose failure is never one to retry.            *)
(***************************************************************************)
Spent(r, q, t, h) ==
  /\ r.generation \in Generations /\ r.active \in Attempts /\ t[r.active].generation > 0
  /\ ~r.pending /\ r.state \in {"sent"} \union Failed
  /\ r.hidden = "no" => t[r.active].copied
  /\ r.state = "sent" => Proven(r, q, t, h)

Requests   == [Generations -> RequestRecord]
AttemptLog == [Attempts -> AttemptRecord]

\* Requests that only move on, and answers that name an attempt, keep the fences.
LEMMA FenceMoves ==
  ASSUME NEW r \in Bubble, NEW q \in Requests, NEW p \in Requests, NEW t \in AttemptLog,
         NEW h \in SUBSET Attempts, Fence(r, q, t, h),
         \A g \in Generations :
           /\ p[g].at \in {"ready", "wire"} => q[g].at \in {"ready", "wire"}
           /\ p[g].at = "none" <=> q[g].at = "none"
           /\ p[g].at = "answered" => q[g].at \in {"answered", "wire"}
           /\ p[g].answer = q[g].answer \/ (p[g].answer \in Attempts
                                            /\ t[p[g].answer].generation > 0)
  PROVE  Fence(r, p, t, h)
<1>1. r.generation \in Generations
  BY DEF Fence
<1>2. \A a \in Attempts : t[a].generation > 0 =>
        /\ t[a].generation \in Generations /\ t[a].generation <= r.generation
        /\ p[t[a].generation].at \notin {"none", "ready", "wire"}
  BY BoundsAssumption DEF Fence, AttemptLog, AttemptRecord, Generations
<1>3. r.pending /\ r.state \in Failed => p[r.generation].at # "answered"
  BY <1>1 DEF Fence, Failed
<1>4. Proven(r, q, t, h) => Proven(r, p, t, h)
  BY <1>1 DEF Proven
<1> QED
  BY <1>1, <1>2, <1>3, <1>4 DEF Fence

\* So does an attempt the server makes for a request that reached it.
LEMMA FenceAttempt ==
  ASSUME NEW r \in Bubble, NEW q \in Requests, NEW p \in Requests, NEW t \in AttemptLog,
         NEW u \in AttemptLog, NEW h \in SUBSET Attempts, Fence(r, q, t, h),
         NEW n \in Attempts, NEW g \in Generations, q[g].at \in {"wire", "ghost"},
         t[n].generation = 0, n \notin h, u[n].generation = g,
         \A a \in Attempts \ {n} : u[a].generation = t[a].generation,
         p[g].at \in {"answered", "done"}, p[g].at = "answered" => q[g].at = "wire",
         p[g].answer = n,
         \A f \in Generations \ {g} : p[f] = q[f]
  PROVE  Fence(r, p, u, h)
<1>1. r.generation \in Generations
  BY DEF Fence
<1>2. g <= r.generation /\ 0 \notin Generations /\ NoAttempt \notin Attempts
  BY <1>1, Numbers DEF Fence, Generations
<1>3. \A a \in Attempts : u[a].generation > 0 =>
        /\ u[a].generation \in Generations /\ u[a].generation <= r.generation
        /\ p[u[a].generation].at \notin {"none", "ready", "wire"}
  BY <1>2, BoundsAssumption DEF Fence, AttemptLog, AttemptRecord, Generations
<1>4. r.pending /\ r.state \in Failed => p[r.generation].at # "answered"
  BY <1>1 DEF Fence, Failed
<1>5. r.active # NoAttempt => r.active # n /\ r.active \in Attempts
  BY <1>2, BoundsAssumption DEF Fence, Bubble, Attempts, NoAttempt
<1>6. g > 0
  BY BoundsAssumption DEF Generations
<1>7. Proven(r, q, t, h) => Proven(r, p, u, h)
  <2>1. CASE r.generation = g
    BY <2>1 DEF Proven
  <2>2. CASE r.generation # g
    <3>1. p[r.generation] = q[r.generation] /\ r.generation # 0
      BY <1>1, <1>2, <2>2
    <3>2. \A a \in Attempts : t[a].generation = r.generation => u[a].generation = r.generation
      BY <3>1
    <3>3. \A a \in Attempts : t[a].generation > 0 => u[a].generation > 0
      BY <1>6
    <3> QED
      BY <3>1, <3>2, <3>3 DEF Proven
  <2> QED
    BY <2>1, <2>2
<1> QED
  BY <1>1, <1>2, <1>3, <1>4, <1>5, <1>7 DEF Fence

\* Answers that name an attempt, new attempts and new copies leave a spent row spent.
LEMMA SpentMoves ==
  ASSUME NEW r \in Bubble, NEW q \in Requests, NEW p \in Requests, NEW t \in AttemptLog,
         NEW u \in AttemptLog, NEW h \in SUBSET Attempts, Spent(r, q, t, h),
         \A g \in Generations :
           p[g].answer = q[g].answer \/ (p[g].answer \in Attempts
                                         /\ u[p[g].answer].generation > 0),
         \A a \in Attempts : /\ t[a].generation > 0 => u[a].generation = t[a].generation
                             /\ t[a].copied => u[a].copied
  PROVE  Spent(r, p, u, h)
<1>1. r.generation \in Generations /\ r.generation > 0 /\ r.active \in Attempts
  BY BoundsAssumption DEF Spent, Generations
<1>2. Proven(r, q, t, h) => Proven(r, p, u, h)
  <2>1. ASSUME NEW a \in Attempts, t[a].generation = r.generation PROVE Proven(r, p, u, h)
    BY <1>1, <2>1 DEF Proven
  <2>2. ASSUME NEW a \in Attempts, t[a].generation > 0, q[r.generation].answer = a
        PROVE  Proven(r, p, u, h)
    BY <1>1, <2>2 DEF Proven
  <2>3. ASSUME NEW a \in Attempts, a = r.active, a \in h PROVE Proven(r, p, u, h)
    BY <2>3 DEF Proven
  <2> QED
    BY <2>1, <2>2, <2>3 DEF Proven
<1> QED
  BY <1>1, <1>2 DEF Spent

\* What every step may use of the row that has the fences.
LEMMA FenceFacts ==
  ASSUME NEW r \in Bubble, NEW q \in Requests, NEW t \in AttemptLog, NEW h \in SUBSET Attempts,
         Fence(r, q, t, h)
  PROVE  /\ r.generation \in Generations /\ r.generation \in Nat
         /\ r.active # NoAttempt => r.active \in Attempts
         /\ \A a \in Attempts : t[a].generation \in Nat /\ t[a].generation <= r.generation
         /\ \A a \in Attempts : t[a].generation > 0 => t[a].generation \in Generations
         /\ Generations \subseteq Nat /\ NoAttempt \notin Attempts
<1>1. Generations \subseteq Nat /\ NoAttempt \notin Attempts /\ r.generation \in Generations
  BY Numbers, BoundsAssumption DEF Generations, Fence
<1>2. r.active # NoAttempt => r.active \in Attempts
  BY BoundsAssumption DEF Bubble, Attempts, NoAttempt
<1>3. ASSUME NEW a \in Attempts
      PROVE  /\ t[a].generation \in Nat /\ t[a].generation <= r.generation
             /\ t[a].generation > 0 => t[a].generation \in Generations
  <2>1. t[a].generation \in 0 .. MaxGeneration /\ MaxGeneration \in Nat
    BY BoundsAssumption DEF AttemptLog, AttemptRecord
  <2> QED
    BY <1>1, <2>1 DEF Fence, Generations
<1> QED
  BY <1>1, <1>2, <1>3

\* A success settles the row it is for.
LEMMA FenceSettles ==
  ASSUME NEW r \in Bubble, NEW s \in Bubble, NEW q \in Requests, NEW t \in AttemptLog,
         NEW h \in SUBSET Attempts, Fence(r, q, t, h), r.state # "gone",
         NEW a \in Attempts, NEW g \in Generations, NEW sticky \in BOOLEAN,
         t[a].generation > 0, ~Stale(r, a, g),
         \/ g = t[a].generation /\ (sticky <=> r.state \in Failed /\ ~r.pending)
         \/ q[g].answer = a /\ q[g].at = "answered" /\ (sticky <=> r.state \in Failed),
         s.generation = r.generation, ~s.pending, s.active \in {a, r.active},
         s.state = IF sticky THEN r.state ELSE "sent"
  PROVE  Fence(s, q, t, h)
<1>1. /\ r.generation \in Generations /\ r.generation \in Nat
      /\ r.active # NoAttempt => r.active \in Attempts
      /\ \A b \in Attempts : t[b].generation \in Nat /\ t[b].generation <= r.generation
      /\ Generations \subseteq Nat /\ NoAttempt \notin Attempts
  BY FenceFacts
<1>2. \A f \in Generations : q[f].at \notin {"ready", "wire"}
  <2>1. CASE r.pending
    <3>1. g = r.generation
      BY <2>1 DEF Stale
    <3> QED
      BY <3>1, <2>1 DEF Fence
  <2>2. CASE ~r.pending
    BY <2>2 DEF Fence
  <2> QED
    BY <2>1, <2>2
<1>3. CASE r.pending
  <2>1. g = r.generation
    BY <1>3 DEF Stale
  <2>2. ~sticky /\ s.state = "sent"
    BY <1>3, <2>1 DEF Fence
  <2>3. Proven(s, q, t, h)
    BY <2>1 DEF Proven
  <2>4. \A b \in h : t[b].generation < r.generation
    BY <1>3 DEF Fence
  <2>5. s.active # NoAttempt => t[s.active].generation > 0
    BY DEF Fence
  <2> QED
    BY <1>1, <1>2, <2>2, <2>3, <2>4, <2>5 DEF Fence, Failed
<1>4. CASE ~r.pending
  <2>1. s.active = a /\ r.active = a
    BY <1>4 DEF Stale
  <2>2. sticky <=> r.state \in Failed
    BY <1>4
  <2>3. CASE sticky
    BY <1>1, <1>2, <2>1, <2>2, <2>3 DEF Fence, Failed
  <2>4. CASE r.state = "sent"
    BY <1>1, <1>2, <2>1, <2>4 DEF Fence, Failed, Proven
  <2>5. CASE r.state = "sending"
    <3>1. s.state = "sent" /\ a \in h /\ t[a].generation < r.generation
      BY <1>1, <2>1, <2>2, <2>5 DEF Fence, Failed
    <3>2. Proven(s, q, t, h)
      BY <2>1, <3>1 DEF Proven
    <3> QED
      BY <1>1, <1>2, <2>1, <3>1, <3>2 DEF Fence, Failed
  <2> QED
    BY <2>2, <2>3, <2>4, <2>5 DEF Bubble
<1> QED
  BY <1>3, <1>4

\* A request that ends here marks the row it was for.
LEMMA FenceEnds ==
  ASSUME NEW r \in Bubble, NEW s \in Bubble, NEW q \in Requests, NEW t \in AttemptLog,
         NEW h \in SUBSET Attempts, Fence(r, q, t, h), r.state # "sent", s.state \in Failed,
         q[r.generation].at \notin {"ready", "wire", "answered"},
         s.generation = r.generation, s.pending = r.pending, s.active = r.active
  PROVE  Fence(s, q, t, h)
  BY FenceFacts DEF Fence, Failed

\* The server's failure marks it too.
LEMMA FenceFails ==
  ASSUME NEW r \in Bubble, NEW s \in Bubble, NEW q \in Requests, NEW t \in AttemptLog,
         NEW h \in SUBSET Attempts, Fence(r, q, t, h), NEW a \in Attempts,
         t[a].generation > 0, ~Stale(r, a, t[a].generation),
         s.generation = r.generation, ~s.pending, s.active = a, s.state = "serverError"
  PROVE  Fence(s, q, t, h \union {a})
<1>1. \A f \in Generations : q[f].at \notin {"ready", "wire"}
  <2>1. CASE r.pending
    BY <2>1 DEF Fence, Stale
  <2>2. CASE ~r.pending
    BY <2>2 DEF Fence
  <2> QED
    BY <2>1, <2>2
<1> QED
  BY <1>1 DEF Fence, Failed

\* The next generation of a row that was not sent awaits a request of its own.
LEMMA FenceNext ==
  ASSUME NEW r \in Bubble, NEW s \in Bubble, NEW q \in Requests, NEW p \in Requests,
         NEW t \in AttemptLog, NEW h \in SUBSET Attempts, Fence(r, q, t, h), r.state # "sent",
         \A f \in Generations : q[f].at \notin {"ready", "wire"},
         r.generation + 1 \in Generations, s.generation = r.generation + 1, s.pending,
         s.active = r.active, s.state = "sending", p[s.generation].at = "ready",
         \A f \in Generations : f # s.generation => p[f] = q[f]
  PROVE  Fence(s, p, t, h)
<1>1. /\ r.generation \in Generations /\ r.generation \in Nat
      /\ r.active # NoAttempt => r.active \in Attempts
      /\ \A b \in Attempts : t[b].generation \in Nat /\ t[b].generation <= r.generation
      /\ \A b \in Attempts : t[b].generation > 0 => t[b].generation \in Generations
      /\ Generations \subseteq Nat
  BY FenceFacts
<1>2. \A a \in Attempts : t[a].generation > 0 =>
        t[a].generation <= s.generation
          /\ p[t[a].generation].at \notin {"none", "ready", "wire"}
  <2>1. ASSUME NEW a \in Attempts, t[a].generation > 0
        PROVE  t[a].generation # s.generation /\ q[t[a].generation].at \notin {"none", "ready", "wire"}
    BY <1>1, <2>1 DEF Fence
  <2> QED
    BY <1>1, <2>1
<1>3. \A a \in h : t[a].generation < s.generation
  BY <1>1
<1>4. s.active # NoAttempt =>
        t[s.active].generation > 0 /\ s.active \in h /\ t[s.active].generation < s.generation
  BY <1>1 DEF Fence
<1>5. \A g \in Generations :
        /\ p[g].at \in {"ready", "wire"} => g = s.generation /\ s.pending /\ s.state = "sending"
        /\ g > s.generation => p[g].at = "none"
  BY <1>1 DEF Fence
<1> QED
  BY <1>2, <1>3, <1>4, <1>5 DEF Fence, Failed

\* A deferred claim gives the row back as it was.
LEMMA FenceDefers ==
  ASSUME NEW r \in Bubble, NEW s \in Bubble, NEW q \in Requests, NEW t \in AttemptLog,
         NEW h \in SUBSET Attempts, Fence(r, q, t, h), r.state = "sending",
         s.state \in {"sending"} \union Failed,
         \A f \in Generations : q[f].at \notin {"ready", "wire"},
         s.generation = r.generation, ~s.pending, s.active = r.active
  PROVE  Fence(s, q, t, h)
  BY FenceFacts DEF Fence, Failed

-----------------------------------------------------------------------------
(***************************************************************************)
(* The invariant.  A purge dooms what was there at its stamp, and the      *)
(* temporary row.                                                          *)
(***************************************************************************)
Doomed == IF chat = "deleting" THEN old \union {Temp} ELSE {}

ServerInv ==
  /\ \A g \in Generations :
       /\ request[g].before # "sent"
       /\ request[g].answer # NoAttempt => Made(request[g].answer)
       /\ request[g].at = "answered" => request[g].answer # NoAttempt
  /\ \A a \in Attempts :
       /\ attempt[a].copied \/ attempt[a].failed # "no" \/ a \in heard => Made(a)
       /\ attempt[a].copied => attempt[a].failed # "safe"
  /\ \E n \in 0 .. MaxServerAttempts : \A a \in Attempts : Made(a) <=> a <= n

OpenInv ==
  chat = "open" =>
    /\ \E x \in Guids : Named(db, x) /\ db.rows[x].state # "gone"
    /\ \A x \in Guids : db.rows[x].hidden # "chat"

\* The named row of the tables d has its fences, or the chat is gone and it is spent.
Settling(d) ==
  \A x \in Guids : Named(d, x) /\ d.rows[x].state # "gone" =>
    \/ Fence(d.rows[x], request, attempt, heard)
    \/ /\ chat # "open" /\ d.queue = NoQueue
       /\ Spent(d.rows[x], request, attempt, heard)

SendInv ==
  /\ Tables(db) /\ RestTyped /\ Recoverable(db, Doomed) /\ (cancelled => Silent(db))
  /\ ServerInv /\ OpenInv /\ Settling(db)

\* The name of a bubble that is there is its only one.
LEMMA OneName ==
  ASSUME NEW d, Tables(d), NEW x \in Guids, NEW y \in Guids, Named(d, x), Named(d, y),
         d.rows[x].state # "gone", d.rows[y].state # "gone"
  PROVE  x = y
  BY Numbers DEF Tables, Named

\* Only a named row says "sending".
LEMMA SendingIsNamed ==
  ASSUME NEW d, Tables(d), NEW x \in Guids, d.rows[x].state \notin {"gone", "sent"}
  PROVE  Named(d, x)
  BY DEF Tables, Copy

\* The numbers of the attempts made are the first ones.
LEMMA LatestIsLast ==
  ASSUME RestTyped, ServerInv
  PROVE  /\ Latest \in 0 .. MaxServerAttempts
         /\ \A a \in Attempts : Made(a) <=> a <= Latest
<1>1. PICK n \in 0 .. MaxServerAttempts : \A a \in Attempts : Made(a) <=> a <= n
  BY DEF ServerInv
<1>2. MaxServerAttempts \in Nat /\ n \in Nat
  BY BoundsAssumption
<1>3. {a \in Attempts : Made(a)} = 1 .. n
  BY <1>1, <1>2 DEF Attempts
<1>4. Cardinality(1 .. n) = n
  BY <1>2, FS_Interval
<1> QED
  BY <1>1, <1>3, <1>4 DEF Latest

\* A step of the server, of the network or of the process alone.
LEMMA ElsewhereKeeps ==
  ASSUME SendInv, UNCHANGED <<db, chat, old, cancelled>>, RestTyped', ServerInv',
         \A x \in Guids :
           /\ Fence(db.rows[x], request, attempt, heard)
                => Fence(db.rows[x], request', attempt', heard')
           /\ Spent(db.rows[x], request, attempt, heard)
                => Spent(db.rows[x], request', attempt', heard')
  PROVE  SendInv'
  BY DEF SendInv, OpenInv, Settling, Doomed

\* One named row changes, perhaps with its ladder.
LEMMA RowKeeps ==
  ASSUME SendInv, NEW x \in Guids, Named(db, x), db.rows[x].state # "gone",
         NEW r \in Bubble, db' \in DbRecord, db'.rows = [db.rows EXCEPT ![x] = r],
         db'.alias = db.alias, db'.ledger = db.ledger, UNCHANGED <<chat, old, cancelled>>,
         r.state \notin {"gone", "sent"}, r.hidden = db.rows[x].hidden,
         db.queue # NoQueue => db'.queue # NoQueue,
         db.queue = NoQueue => db'.queue = NoQueue \/ db.rows[x].hidden = "no",
         r.state = "sending" => db'.queue # NoQueue,
         RestTyped', ServerInv',
         Fence(db.rows[x], request, attempt, heard) => Fence(r, request', attempt', heard'),
         Spent(db.rows[x], request, attempt, heard) /\ db.queue = NoQueue
           => Spent(r, request', attempt', heard') /\ db'.queue = NoQueue
  PROVE  SendInv'
<1>1. /\ \A y \in Guids : db'.rows[y] = IF y = x THEN r ELSE db.rows[y]
      /\ \A y \in Guids : Named(db', y) <=> Named(db, y)
  BY DEF SendInv, Tables, DbRecord, Named
<1>2. Tables(db') /\ (Silent(db) => Silent(db'))
  <2>1. Tables(db)
    BY DEF SendInv
  <2>2. db.queue = NoQueue => db'.queue = NoQueue \/ (Named(db, x) /\ db.rows[x].hidden = "no")
    OBVIOUS
  <2> QED
    BY <2>1, <2>2, RowChange
<1>3. Recoverable(db', Doomed')
  BY <1>1 DEF SendInv, Recoverable, Doomed
<1>4. OpenInv'
  <2>1. ASSUME chat = "open", NEW y \in Guids PROVE db'.rows[y].hidden # "chat"
    BY <1>1, <2>1 DEF SendInv, OpenInv
  <2>2. Named(db', x) /\ db'.rows[x].state # "gone"
    BY <1>1
  <2> QED
    BY <2>1, <2>2 DEF OpenInv
<1>5. Settling(db)'
  <2>1. ASSUME NEW y \in Guids, Named(db', y), db'.rows[y].state # "gone"
        PROVE  y = x
    BY <1>1, <2>1, OneName DEF SendInv
  <2>2. \/ Fence(r, request', attempt', heard')
        \/ /\ chat # "open" /\ db'.queue = NoQueue
           /\ Spent(r, request', attempt', heard')
    BY DEF SendInv, Settling
  <2> QED
    BY <1>1, <2>1, <2>2 DEF Settling
<1> QED
  BY <1>2, <1>3, <1>4, <1>5 DEF SendInv

\* Only the ladder changes, and it stays one.
LEMMA LadderKeeps ==
  ASSUME SendInv, db' \in DbRecord, db'.rows = db.rows, db'.alias = db.alias,
         db'.ledger = db.ledger, UNCHANGED <<chat, old, cancelled>>,
         db'.queue = NoQueue <=> db.queue = NoQueue, RestTyped', ServerInv',
         \A x \in Guids :
           /\ Fence(db.rows[x], request, attempt, heard)
                => Fence(db.rows[x], request', attempt', heard')
           /\ Spent(db.rows[x], request, attempt, heard)
                => Spent(db.rows[x], request', attempt', heard')
  PROVE  SendInv'
<1>1. \A y \in Guids : Named(db', y) <=> Named(db, y)
  BY DEF Named
<1>2. Tables(db')
  BY <1>1 DEF SendInv, Tables
<1>3. Recoverable(db', Doomed')
  BY DEF SendInv, Recoverable, Doomed
<1>4. Silent(db) => Silent(db')
  BY DEF Silent
<1>5. OpenInv' /\ Settling(db)'
  BY <1>1 DEF SendInv, OpenInv, Settling
<1> QED
  BY <1>2, <1>3, <1>4, <1>5 DEF SendInv

-----------------------------------------------------------------------------
(* The server, the network and the process. *)

\* Requests that only move on, and answers that name an attempt.
LEMMA RequestsMove ==
  ASSUME SendInv, UNCHANGED <<db, chat, old, attempt, heard, cancelled>>,
         request' \in Requests, cycles' \in 0 .. MaxCycles, crashes' \in 0 .. MaxCrashes,
         \A g \in Generations :
           /\ request'[g].at \in {"ready", "wire"} => request[g].at \in {"ready", "wire"}
           /\ request'[g].at = "none" <=> request[g].at = "none"
           /\ request'[g].at = "answered" =>
                request[g].at = "answered" \/ (request[g].at = "wire"
                                               /\ request'[g].answer # NoAttempt)
           /\ request'[g].answer = request[g].answer
                \/ (request'[g].answer \in Attempts /\ Made(request'[g].answer))
           /\ request'[g].before = request[g].before
  PROVE  SendInv'
<1>1. NoAttempt \notin Attempts /\ Tables(db) /\ RestTyped /\ ServerInv
  BY Numbers DEF SendInv
<1>2. RestTyped'
  BY <1>1 DEF RestTyped, Requests
<1>3. ServerInv'
  BY <1>1 DEF ServerInv, Made
<1>4. ASSUME NEW x \in Guids, Fence(db.rows[x], request, attempt, heard)
      PROVE  Fence(db.rows[x], request', attempt', heard')
  <2>1. /\ db.rows[x] \in Bubble /\ request \in Requests /\ attempt \in AttemptLog
        /\ heard \in SUBSET Attempts
    BY <1>1 DEF Tables, DbRecord, RestTyped, Requests, AttemptLog
  <2>2. \A g \in Generations :
           /\ request'[g].at \in {"ready", "wire"} => request[g].at \in {"ready", "wire"}
           /\ request'[g].at = "none" <=> request[g].at = "none"
           /\ request'[g].at = "answered" => request[g].at \in {"answered", "wire"}
           /\ request'[g].answer = request[g].answer
                \/ (request'[g].answer \in Attempts
                    /\ attempt[request'[g].answer].generation > 0)
    BY DEF Made
  <2> QED
    BY <1>4, <2>1, <2>2, FenceMoves
<1>5. ASSUME NEW x \in Guids, Spent(db.rows[x], request, attempt, heard)
      PROVE  Spent(db.rows[x], request', attempt', heard')
  <2>1. /\ db.rows[x] \in Bubble /\ request \in Requests /\ attempt \in AttemptLog
        /\ heard \in SUBSET Attempts
    BY <1>1 DEF Tables, DbRecord, RestTyped, Requests, AttemptLog
  <2>2. \A g \in Generations :
           request'[g].answer = request[g].answer
             \/ (request'[g].answer \in Attempts
                 /\ attempt[request'[g].answer].generation > 0)
    BY DEF Made
  <2>3. Spent(db.rows[x], request', attempt, heard)
    BY <1>5, <2>1, <2>2, SpentMoves
  <2> QED
    BY <2>3
<1> QED
  BY <1>2, <1>3, <1>4, <1>5, ElsewhereKeeps

\* A request that goes out is no nearer an answer.
LEMMA StartKeeps == ASSUME SendInv, NEW g \in Generations, Start(g) PROVE SendInv'
<1>1. RestTyped
  BY DEF SendInv
<1>2. /\ request' \in Requests
      /\ \A f \in Generations :
           IF f = g THEN request[f].at = "ready" /\ request'[f] = [request[f] EXCEPT !.at = "wire"]
           ELSE request'[f] = request[f]
  BY <1>1 DEF Start, RestTyped, Requests, RequestRecord
<1>3. \A f \in Generations :
        /\ request'[f].answer = request[f].answer /\ request'[f].before = request[f].before
        /\ request'[f].at = request[f].at
             \/ (request[f].at = "ready" /\ request'[f].at = "wire")
  BY <1>1, <1>2 DEF RestTyped, RequestRecord
<1> QED
  BY <1>1, <1>2, <1>3, RequestsMove DEF Start, RestTyped

\* A request that ends without a word leaves the tables.
LEMMA AbandonKeeps == ASSUME SendInv, NEW g \in Generations, Abandon(g) PROVE SendInv'
<1>1. RestTyped
  BY DEF SendInv
<1>2. /\ request' \in Requests
      /\ \A f \in Generations :
           IF f = g THEN /\ request[f].at \in {"ready", "wire", "answered"}
                         /\ request'[f].at \in {"ghost", "done"}
                         /\ request'[f].answer = request[f].answer
                         /\ request'[f].before = request[f].before
           ELSE request'[f] = request[f]
  BY <1>1 DEF Abandon, InFlight, RestTyped, Requests, RequestRecord
<1> QED
  BY <1>1, <1>2, RequestsMove DEF Abandon, RestTyped

\* A crash only moves requests on.
LEMMA CrashKeeps == ASSUME SendInv, Crash PROVE SendInv'
<1>1. RestTyped /\ 0 \in 0 .. MaxCycles /\ crashes' \in 0 .. MaxCrashes
  BY BoundsAssumption DEF SendInv, RestTyped, Crash
<1>2. /\ request' \in Requests
      /\ \A f \in Generations :
           /\ request'[f].answer = request[f].answer /\ request'[f].before = request[f].before
           /\ request'[f].at = request[f].at
                \/ (/\ request[f].at \in {"wire", "ready", "answered"}
                    /\ request'[f].at \in {"ghost", "done"})
  BY <1>1 DEF Crash, RestTyped, Requests, RequestRecord
<1> QED
  BY <1>1, <1>2, RequestsMove DEF Crash

\* A replayed attempt is one that was made.
LEMMA ServerReplaysKeeps == ASSUME SendInv, NEW g \in Generations, ServerReplays(g) PROVE SendInv'
<1>1. RestTyped
  BY DEF SendInv
<1>2. Latest \in Attempts /\ Made(Latest)
  <2>1. Latest \in 0 .. MaxServerAttempts /\ \A a \in Attempts : Made(a) <=> a <= Latest
    BY LatestIsLast DEF SendInv
  <2>2. Latest \in Attempts
    BY <2>1, BoundsAssumption DEF ServerReplays, Attempts
  <2> QED
    BY <2>1, <2>2, BoundsAssumption DEF Attempts
<1>3. Latest \in 0 .. MaxServerAttempts /\ Latest # NoAttempt
  BY <1>2, Numbers
<1>4. /\ request' \in Requests
      /\ \A f \in Generations :
           IF f = g THEN /\ \/ request[f].at = "wire" /\ request'[f].at = "answered"
                            \/ request[f].at = "ghost" /\ request'[f].at = "done"
                         /\ request'[f].answer = Latest
                         /\ request'[f].before = request[f].before
           ELSE request'[f] = request[f]
  BY <1>1, <1>3 DEF ServerReplays, Accept, RestTyped, Requests, RequestRecord
<1> QED
  BY <1>1, <1>2, <1>3, <1>4, RequestsMove DEF ServerReplays, RestTyped

\* A new attempt is the next in line, for a request that is out.
LEMMA ServerAttemptsKeeps ==
  ASSUME SendInv, NEW g \in Generations, ServerAttempts(g) PROVE SendInv'
<1> DEFINE n == Latest + 1
<1>1. RestTyped /\ ServerInv /\ Tables(db)
  BY DEF SendInv
<1>2. /\ Latest \in 0 .. MaxServerAttempts /\ \A a \in Attempts : Made(a) <=> a <= Latest
      /\ Latest < MaxServerAttempts
  BY <1>1, LatestIsLast DEF ServerAttempts
<1>3. /\ n \in Attempts /\ ~Made(n) /\ n \in 0 .. MaxServerAttempts /\ n # NoAttempt
      /\ \A a \in Attempts : a <= n <=> Made(a) \/ a = n
  BY <1>2, BoundsAssumption DEF Attempts, NoAttempt
<1>4. /\ attempt' = [attempt EXCEPT ![n].generation = g]
      /\ request' = [request EXCEPT ![g].at = IF @ = "wire" THEN "answered" ELSE "done",
                                    ![g].answer = n]
      /\ request[g].at \in {"wire", "ghost"}
      /\ UNCHANGED <<db, chat, old, cycles, crashes, heard, cancelled>>
  BY DEF ServerAttempts, Accept
<1> HIDE DEF n
<1>5. g \in 0 .. MaxGeneration /\ g > 0
  BY BoundsAssumption DEF Generations
<1>6. /\ attempt' \in AttemptLog /\ attempt'[n].generation = g
      /\ \A a \in Attempts \ {n} : attempt'[a] = attempt[a]
      /\ attempt'[n].copied = attempt[n].copied /\ attempt'[n].failed = attempt[n].failed
  BY <1>1, <1>3, <1>4, <1>5 DEF RestTyped, AttemptLog, AttemptRecord
<1>7. /\ request' \in Requests /\ request'[g].answer = n
      /\ request'[g].before = request[g].before
      /\ request'[g].at \in {"answered", "done"}
      /\ request'[g].at = "answered" => request[g].at = "wire"
      /\ \A f \in Generations \ {g} : request'[f] = request[f]
  BY <1>1, <1>3, <1>4 DEF RestTyped, Requests, RequestRecord
<1>8. \A a \in Attempts : Made(a)' <=> Made(a) \/ a = n
  BY <1>3, <1>5, <1>6 DEF Made
<1>9. RestTyped'
  BY <1>1, <1>4, <1>6, <1>7 DEF RestTyped, Requests, AttemptLog
<1>10. ServerInv'
  <2>1. ASSUME NEW f \in Generations
        PROVE  /\ request'[f].before # "sent"
               /\ request'[f].answer # NoAttempt => Made(request[f].answer)'
               /\ request'[f].at = "answered" => request'[f].answer # NoAttempt
    <3>1. CASE f = g
      BY <1>1, <1>3, <1>7, <1>8, <3>1 DEF ServerInv
    <3>2. CASE f # g
      <4>1. request'[f] = request[f]
        BY <1>7, <3>2
      <4>2. request[f].answer # NoAttempt => request[f].answer \in Attempts
        BY <1>1, BoundsAssumption DEF RestTyped, RequestRecord, Attempts, NoAttempt
      <4> QED
        BY <1>1, <1>8, <4>1, <4>2 DEF ServerInv
    <3> QED
      BY <3>1, <3>2
  <2>2. \A a \in Attempts :
          /\ attempt'[a].copied \/ attempt'[a].failed # "no" \/ a \in heard' => Made(a)'
          /\ attempt'[a].copied => attempt'[a].failed # "safe"
    BY <1>1, <1>4, <1>6, <1>8 DEF ServerInv
  <2>3. \A a \in Attempts : Made(a)' <=> a <= n
    BY <1>3, <1>8
  <2> QED
    BY <1>3, <2>1, <2>2, <2>3 DEF ServerInv
<1>11. ASSUME NEW x \in Guids, Fence(db.rows[x], request, attempt, heard)
       PROVE  Fence(db.rows[x], request', attempt', heard')
  <2>1. /\ db.rows[x] \in Bubble /\ request \in Requests /\ attempt \in AttemptLog
        /\ heard \in SUBSET Attempts /\ heard' = heard
    BY <1>1, <1>4 DEF Tables, DbRecord, RestTyped, Requests, AttemptLog
  <2>2. attempt[n].generation = 0 /\ n \notin heard
    <3>1. attempt[n].generation \in Nat
      BY <1>3, <2>1, BoundsAssumption DEF AttemptLog, AttemptRecord
    <3> QED
      BY <1>1, <1>3, <3>1 DEF ServerInv, Made
  <2>3. \A b \in Attempts \ {n} : attempt'[b].generation = attempt[b].generation
    BY <1>6
  <2>4. request[g].at \in {"wire", "ghost"} /\ n \in Attempts /\ attempt'[n].generation = g
    BY <1>3, <1>4, <1>6
  <2>5. attempt' \in AttemptLog /\ request' \in Requests
    BY <1>6, <1>7
  <2>6. Fence(db.rows[x], request', attempt', heard)
    BY <1>7, <1>11, <2>1, <2>2, <2>3, <2>4, <2>5, FenceAttempt
  <2> QED
    BY <2>1, <2>6
<1>12. ASSUME NEW x \in Guids, Spent(db.rows[x], request, attempt, heard)
       PROVE  Spent(db.rows[x], request', attempt', heard')
  <2>1. /\ db.rows[x] \in Bubble /\ request \in Requests /\ attempt \in AttemptLog
        /\ heard \in SUBSET Attempts /\ heard' = heard
    BY <1>1, <1>4 DEF Tables, DbRecord, RestTyped, Requests, AttemptLog
  <2>2. \A f \in Generations :
          request'[f].answer = request[f].answer
            \/ (request'[f].answer \in Attempts
                /\ attempt'[request'[f].answer].generation > 0)
    BY <1>3, <1>5, <1>6, <1>7
  <2>3. \A b \in Attempts :
          /\ attempt[b].generation > 0 => attempt'[b].generation = attempt[b].generation
          /\ attempt[b].copied => attempt'[b].copied
    BY <1>3, <1>6 DEF Made
  <2>4. Spent(db.rows[x], request', attempt', heard)
    BY <1>6, <1>7, <1>12, <2>1, <2>2, <2>3, SpentMoves
  <2> QED
    BY <2>1, <2>4
<1> QED
  BY <1>4, <1>9, <1>10, <1>11, <1>12, ElsewhereKeeps

\* The attempts only gain a copy or a failure.
LEMMA AttemptsMove ==
  ASSUME SendInv, NEW a \in Attempts, Made(a), attempt' \in AttemptLog,
         UNCHANGED <<db, chat, old, request, cycles, crashes, heard, cancelled>>,
         \A b \in Attempts : /\ attempt'[b].generation = attempt[b].generation
                             /\ b # a => attempt'[b] = attempt[b],
         attempt[a].copied => attempt'[a].copied,
         attempt'[a].copied => attempt'[a].failed # "safe"
  PROVE  SendInv'
<1>1. RestTyped /\ ServerInv /\ Tables(db)
  BY DEF SendInv
<1>2. RestTyped'
  BY <1>1 DEF RestTyped, AttemptLog
<1>3. \A b \in Attempts : Made(b)' <=> Made(b)
  BY DEF Made
<1>4. \A g \in Generations : request[g].answer # NoAttempt => request[g].answer \in Attempts
  BY <1>1, BoundsAssumption DEF RestTyped, RequestRecord, Attempts, NoAttempt
<1>5. ServerInv'
  BY <1>1, <1>3, <1>4 DEF ServerInv
<1>6. ASSUME NEW x \in Guids, Fence(db.rows[x], request, attempt, heard)
      PROVE  Fence(db.rows[x], request', attempt', heard')
  <2>1. /\ db.rows[x] \in Bubble /\ request \in Requests /\ attempt \in AttemptLog
        /\ heard \in SUBSET Attempts
    BY <1>1 DEF Tables, DbRecord, RestTyped, Requests, AttemptLog
  <2>2. db.rows[x].active # NoAttempt => db.rows[x].active \in Attempts
    BY <1>6, <2>1, FenceFacts
  <2>3. UNCHANGED <<request, heard>> /\ \A b \in Attempts : attempt'[b].generation = attempt[b].generation
    OBVIOUS
  <2> QED
    BY <1>6, <2>1, <2>2, <2>3, Numbers DEF Fence, Proven
<1>7. ASSUME NEW x \in Guids, Spent(db.rows[x], request, attempt, heard)
      PROVE  Spent(db.rows[x], request', attempt', heard')
  <2>1. /\ db.rows[x] \in Bubble /\ request \in Requests /\ attempt \in AttemptLog
        /\ heard \in SUBSET Attempts /\ request' = request /\ heard' = heard
    BY <1>1 DEF Tables, DbRecord, RestTyped, Requests, AttemptLog
  <2>2. Spent(db.rows[x], request, attempt', heard)
    BY <1>7, <2>1, SpentMoves
  <2> QED
    BY <2>1, <2>2
<1> QED
  BY <1>2, <1>5, <1>6, <1>7, ElsewhereKeeps

\* A copy is of an attempt that was made.
LEMMA ServerRelaysKeeps == ASSUME SendInv, NEW a \in Attempts, ServerRelays(a) PROVE SendInv'
<1>1. RestTyped
  BY DEF SendInv
<1>2. /\ attempt' \in AttemptLog /\ \A b \in Attempts : b # a => attempt'[b] = attempt[b]
      /\ attempt'[a].generation = attempt[a].generation
      /\ attempt'[a].copied /\ attempt'[a].failed # "safe"
  BY <1>1 DEF RestTyped, ServerRelays, AttemptLog, AttemptRecord
<1> QED
  BY <1>2, AttemptsMove DEF ServerRelays

\* So is a failure.
LEMMA ServerFailsKeeps ==
  ASSUME SendInv, NEW a \in Attempts, NEW how \in {"safe", "unsafe"}, ServerFails(a, how)
  PROVE  SendInv'
<1>1. RestTyped
  BY DEF SendInv
<1>2. /\ attempt' \in AttemptLog /\ \A b \in Attempts : b # a => attempt'[b] = attempt[b]
      /\ attempt'[a].generation = attempt[a].generation
      /\ attempt'[a].copied = attempt[a].copied
      /\ attempt'[a].copied => attempt'[a].failed # "safe"
  BY <1>1 DEF RestTyped, ServerFails, AttemptLog, AttemptRecord
<1> QED
  BY <1>2, AttemptsMove DEF ServerFails

-----------------------------------------------------------------------------
(* Failures and retries: one named row changes, and its ladder. *)

\* The error on the row, and a ladder that is bumped or stays.
LEMMA ErroredFields ==
  ASSUME NEW d \in DbRecord, NEW x \in Guids, NEW code \in Failed
  PROVE  LET e == Errored(d, x, code) IN
         /\ e \in DbRecord /\ e.rows \in {d.rows, [d.rows EXCEPT ![x].state = code]}
         /\ d.rows[x].state # "sent" => e.rows = [d.rows EXCEPT ![x].state = code]
         /\ e.alias = d.alias /\ e.ledger = d.ledger
         /\ e.queue = NoQueue <=> d.queue = NoQueue
<1> DEFINE e == Errored(d, x, code)
<1>1. d.rows[x] \in Bubble /\ [d.rows[x] EXCEPT !.state = code] \in Bubble
  BY DEF DbRecord, Bubble
<1>2. CASE d.queue = NoQueue
  <2>1. CASE d.rows[x].state = "sent"
    <3>1. e = [d EXCEPT !.rows[x].state = d.rows[x].state]
      BY <1>2, <2>1 DEF Errored, HasLadder, DbRecord
    <3>2. e = d
      BY <1>1, <3>1 DEF DbRecord, Bubble
    <3> QED
      BY <2>1, <3>2
  <2>2. CASE d.rows[x].state # "sent"
    <3>1. e = [d EXCEPT !.rows[x].state = code]
      BY <1>2, <2>2 DEF Errored, HasLadder, DbRecord
    <3> QED
      BY <1>1, <1>2, <3>1 DEF DbRecord
  <2> QED
    BY <2>1, <2>2
<1>3. CASE d.queue # NoQueue /\ d.queue.attempts > 0 /\ d.rows[x].state = code
  <2>1. e = d
    BY <1>3 DEF Errored, HasLadder
  <2>2. d.rows = [d.rows EXCEPT ![x].state = code]
    BY <1>1, <1>3 DEF DbRecord, Bubble
  <2> QED
    BY <2>1, <2>2
<1>4. CASE d.queue # NoQueue /\ ~(d.queue.attempts > 0 /\ d.rows[x].state = code)
  <2> DEFINE k == [attempts |-> IF d.queue.attempts < MaxAttempts THEN d.queue.attempts + 1
                                                                   ELSE d.queue.attempts,
                   due |-> FALSE, lease |-> 0]
  <2>1. e = [d EXCEPT !.rows[x].state = code, !.queue = k]
    BY <1>4 DEF Errored, HasLadder
  <2>2. k \in Ladder /\ k # NoQueue
    <3>1. d.queue.attempts \in 0 .. MaxAttempts
      BY <1>4 DEF DbRecord, Ladder
    <3>2. k \in Ladder
      BY <3>1, BoundsAssumption DEF Ladder
    <3> QED
      BY <3>2, Blanks
  <2> HIDE DEF k
  <2> QED
    BY <1>1, <1>4, <2>1, <2>2 DEF DbRecord
<1> QED
  BY <1>2, <1>3, <1>4

\* The owner of the bubble, when there is one, is its named row.
LEMMA OwnerIsNamed ==
  ASSUME NEW d, Tables(d)
  PROVE  LET o == Owner(d, NoGuid) IN
         /\ o = NoGuid \/ (o \in Guids /\ Named(d, o) /\ d.rows[o].state # "gone")
         /\ o = NoGuid => \A x \in Guids : Named(d, x) => d.rows[x].state = "gone"
         /\ \A x \in Guids : Named(d, x) /\ d.rows[x].state # "gone" => o = x
<1>1. NoGuid \in Guids \union {NoGuid}
  OBVIOUS
<1>2. /\ Owner(d, NoGuid) \in Guids \union {NoGuid}
      /\ Owner(d, NoGuid) # NoGuid => d.rows[Owner(d, NoGuid)].state # "gone"
      /\ \A x \in Guids : Named(d, x) /\ d.rows[x].state # "gone" => Owner(d, NoGuid) = x
      /\ Owner(d, NoGuid) # NoGuid => Named(d, Owner(d, NoGuid))
  BY <1>1, OwnerIsThere
<1> QED
  BY <1>2, Numbers

\* The request of g ends.
LEMMA RequestEnds ==
  ASSUME RestTyped, ServerInv, NEW g \in Generations, request[g].at \in {"ready", "wire", "answered"},
         \/ request' = [request EXCEPT ![g].at = "done"]
         \/ request' = [request EXCEPT ![g].at = IF @ = "wire" THEN "ghost" ELSE "done"],
         UNCHANGED <<attempt, heard>>
  PROVE  /\ request' \in Requests /\ ServerInv'
         /\ request'[g].at \in {"ghost", "done"}
         /\ request'[g].answer = request[g].answer /\ request'[g].before = request[g].before
         /\ \A f \in Generations \ {g} : request'[f] = request[f]
         /\ \A f \in Generations :
              /\ request'[f].at \in {"ready", "wire"} => request[f].at \in {"ready", "wire"}
              /\ request'[f].at = "none" <=> request[f].at = "none"
              /\ request'[f].at = "answered" => request[f].at \in {"answered", "wire"}
              /\ request'[f].answer = request[f].answer
         /\ \A r \in Bubble :
              /\ Fence(r, request, attempt, heard) => Fence(r, request', attempt', heard')
              /\ Spent(r, request, attempt, heard) => Spent(r, request', attempt', heard')
<1>1. /\ request' \in Requests /\ request'[g].at \in {"ghost", "done"}
      /\ request'[g].answer = request[g].answer /\ request'[g].before = request[g].before
      /\ \A f \in Generations \ {g} : request'[f] = request[f]
  BY DEF RestTyped, Requests, RequestRecord
<1>2. /\ \A f \in Generations :
           /\ request'[f].at \in {"ready", "wire"} => request[f].at \in {"ready", "wire"}
           /\ request'[f].at = "none" <=> request[f].at = "none"
           /\ request'[f].at = "answered" => request[f].at \in {"answered", "wire"}
           /\ request'[f].answer = request[f].answer
  BY <1>1
<1>3. ServerInv'
  <2>1. \A f \in Generations :
          /\ request'[f].before = request[f].before /\ request'[f].answer = request[f].answer
          /\ request'[f].at = "answered" => request[f].at = "answered"
    BY <1>1
  <2>2. attempt' = attempt /\ heard' = heard
    OBVIOUS
  <2> QED
    BY <2>1, <2>2 DEF ServerInv, Made
<1>4. ASSUME NEW r \in Bubble, Fence(r, request, attempt, heard)
      PROVE  Fence(r, request', attempt', heard')
  <2>1. /\ request \in Requests /\ attempt \in AttemptLog /\ heard \in SUBSET Attempts
        /\ attempt' = attempt /\ heard' = heard
    BY DEF RestTyped, Requests, AttemptLog
  <2>2. Fence(r, request', attempt, heard)
    BY <1>1, <1>2, <1>4, <2>1, FenceMoves
  <2> QED
    BY <2>1, <2>2
<1>5. ASSUME NEW r \in Bubble, Spent(r, request, attempt, heard)
      PROVE  Spent(r, request', attempt', heard')
  <2>1. /\ request \in Requests /\ attempt \in AttemptLog /\ heard \in SUBSET Attempts
        /\ attempt' = attempt /\ heard' = heard
    BY DEF RestTyped, Requests, AttemptLog
  <2>2. Spent(r, request', attempt, heard)
    BY <1>1, <1>2, <1>5, <2>1, SpentMoves
  <2> QED
    BY <2>1, <2>2
<1> QED
  BY <1>1, <1>2, <1>3, <1>4, <1>5

\* A local failure marks the awaited row, whose request has then ended.
LEMMA FailLocallyKeeps == ASSUME SendInv, NEW g \in Generations, FailLocally(g) PROVE SendInv'
<1> DEFINE o == Owner(db, NoGuid)
           mine == o # NoGuid /\ db.rows[o].pending /\ db.rows[o].generation = g
<1>1. Tables(db) /\ RestTyped /\ ServerInv /\ db \in DbRecord
  BY DEF SendInv, Tables
<1>2. /\ request[g].at \in {"ready", "wire", "answered"}
      /\ request' = [request EXCEPT ![g].at = IF @ = "wire" THEN "ghost" ELSE "done"]
      /\ db' = (IF mine THEN Errored(db, o, "localError") ELSE db)
      /\ UNCHANGED <<chat, old, attempt, cycles, crashes, heard, cancelled>>
  BY DEF FailLocally, InFlight
<1>3. /\ request' \in Requests /\ ServerInv' /\ request'[g].at \in {"ghost", "done"}
      /\ \A r \in Bubble :
           /\ Fence(r, request, attempt, heard) => Fence(r, request', attempt', heard')
           /\ Spent(r, request, attempt, heard) => Spent(r, request', attempt', heard')
  BY <1>1, <1>2, RequestEnds
<1>4. RestTyped'
  BY <1>1, <1>2, <1>3 DEF RestTyped, Requests
<1>5. \A x \in Guids : db.rows[x] \in Bubble
  BY <1>1 DEF DbRecord
<1>6. CASE ~mine
  BY <1>2, <1>3, <1>4, <1>5, <1>6, ElsewhereKeeps
<1>7. CASE mine
  <2>1. o \in Guids /\ Named(db, o) /\ db.rows[o].state # "gone"
    BY <1>1, <1>7, OwnerIsNamed
  <2>2. db.rows[o].state # "sent" /\ db.rows[o].pending /\ db.rows[o].generation = g
    BY <1>1, <1>7, <2>1 DEF Tables
  <2> DEFINE r == [db.rows[o] EXCEPT !.state = "localError"]
  <2>3. /\ r \in Bubble /\ r.state = "localError" /\ r.hidden = db.rows[o].hidden
        /\ r.generation = g /\ r.pending = db.rows[o].pending /\ r.active = db.rows[o].active
    BY <1>5, <2>1, <2>2 DEF Bubble, Failed
  <2>4. /\ db' \in DbRecord /\ db'.rows = [db.rows EXCEPT ![o] = r]
        /\ db'.alias = db.alias /\ db'.ledger = db.ledger
        /\ db'.queue = NoQueue <=> db.queue = NoQueue
    <3>1. db' = Errored(db, o, "localError")
      BY <1>2, <1>7
    <3> HIDE DEF o
    <3> QED
      BY <1>1, <2>1, <2>2, <3>1, ErroredFields DEF Failed
  <2> HIDE DEF o, r
  <2>5. Fence(db.rows[o], request, attempt, heard) => Fence(r, request', attempt', heard')
    <3>1. /\ attempt \in AttemptLog /\ heard \in SUBSET Attempts
          /\ attempt' = attempt /\ heard' = heard
      BY <1>1, <1>2 DEF RestTyped, AttemptLog
    <3>2. ASSUME Fence(db.rows[o], request, attempt, heard)
          PROVE  Fence(r, request', attempt, heard)
      <4>1. Fence(db.rows[o], request', attempt, heard)
        BY <1>3, <1>5, <2>1, <3>1, <3>2
      <4>2. r.state \in Failed /\ request'[db.rows[o].generation].at \notin {"ready", "wire", "answered"}
        BY <1>3, <2>2, <2>3 DEF Failed
      <4> QED
        BY <1>3, <1>5, <2>1, <2>2, <2>3, <3>1, <4>1, <4>2, FenceEnds
    <3> QED
      BY <3>1, <3>2
  <2>6. ~Spent(db.rows[o], request, attempt, heard)
    BY <2>2 DEF Spent
  <2>7. r.state \notin {"gone", "sent", "sending"}
    BY <2>3
  <2> QED
    BY <1>2, <1>3, <1>4, <2>1, <2>3, <2>4, <2>5, <2>6, <2>7, RowKeeps
<1> QED
  BY <1>6, <1>7

\* A withdrawn claim gives the row back what it said before.
LEMMA DeferKeeps == ASSUME SendInv, NEW g \in Generations, Defer(g) PROVE SendInv'
<1> DEFINE o == Owner(db, NoGuid)
           mine == /\ db.queue.lease = g
                   /\ o # NoGuid
                   /\ db.rows[o].state = "sending" /\ db.rows[o].pending
                   /\ db.rows[o].generation = g
<1>1. Tables(db) /\ RestTyped /\ ServerInv /\ db \in DbRecord
  BY DEF SendInv, Tables
<1>2. /\ request[g].at = "ready" /\ request' = [request EXCEPT ![g].at = "done"]
      /\ db' = (IF mine THEN [db EXCEPT !.queue.due = TRUE, !.queue.lease = 0,
                                        !.rows[o].state = request[g].before,
                                        !.rows[o].pending = FALSE]
                ELSE db)
      /\ UNCHANGED <<chat, old, attempt, cycles, crashes, heard, cancelled>>
  BY DEF Defer
<1>3. /\ request' \in Requests /\ ServerInv' /\ request'[g].at \in {"ghost", "done"}
      /\ \A f \in Generations \ {g} : request'[f] = request[f]
      /\ \A r \in Bubble :
           /\ Fence(r, request, attempt, heard) => Fence(r, request', attempt', heard')
           /\ Spent(r, request, attempt, heard) => Spent(r, request', attempt', heard')
  BY <1>1, <1>2, RequestEnds
<1>4. RestTyped'
  BY <1>1, <1>2, <1>3 DEF RestTyped, Requests
<1>5. \A x \in Guids : db.rows[x] \in Bubble
  BY <1>1 DEF DbRecord
<1>6. CASE ~mine
  BY <1>2, <1>3, <1>4, <1>5, <1>6, ElsewhereKeeps
<1>7. CASE mine
  <2>1. o \in Guids /\ Named(db, o) /\ db.rows[o].state # "gone"
    BY <1>1, <1>7, OwnerIsNamed
  <2>2. db.rows[o].state = "sending" /\ db.rows[o].pending /\ db.rows[o].generation = g
    BY <1>7
  <2>3. request[g].before \in {"sending"} \union Failed
    BY <1>1 DEF RestTyped, RequestRecord, ServerInv
  <2>4. db.queue \in Ladder
    <3>1. db.queue # NoQueue
      BY <1>7, Numbers DEF NoQueue
    <3> QED
      BY <1>1, <3>1 DEF DbRecord
  <2> DEFINE r == [db.rows[o] EXCEPT !.state = request[g].before, !.pending = FALSE]
             k == [db.queue EXCEPT !.due = TRUE, !.lease = 0]
  <2>5. /\ r \in Bubble /\ r.state = request[g].before /\ r.hidden = db.rows[o].hidden
        /\ r.generation = g /\ ~r.pending /\ r.active = db.rows[o].active
    BY <1>5, <2>1, <2>2, <2>3 DEF Bubble, Failed
  <2>6. k \in Ladder /\ k # NoQueue
    <3>1. k \in Ladder
      BY <2>4, Numbers DEF Ladder
    <3> QED
      BY <3>1, Blanks
  <2>7. db' = [db EXCEPT !.queue = k, !.rows[o] = r]
    BY <1>1, <1>2, <1>7, <2>1, <2>4 DEF DbRecord, Ladder, Bubble
  <2>8. r.state \notin {"gone", "sent"}
    BY <2>3, <2>5 DEF Failed
  <2> HIDE DEF o, r, k
  <2>9. /\ db' \in DbRecord /\ db'.rows = [db.rows EXCEPT ![o] = r] /\ db'.queue = k
        /\ db'.alias = db.alias /\ db'.ledger = db.ledger
    BY <1>1, <2>1, <2>5, <2>6, <2>7 DEF DbRecord
  <2>10. Fence(db.rows[o], request, attempt, heard) => Fence(r, request', attempt', heard')
    <3>1. /\ attempt \in AttemptLog /\ heard \in SUBSET Attempts
          /\ attempt' = attempt /\ heard' = heard
      BY <1>1, <1>2 DEF RestTyped, AttemptLog
    <3>2. ASSUME Fence(db.rows[o], request, attempt, heard)
          PROVE  Fence(r, request', attempt, heard)
      <4>1. Fence(db.rows[o], request', attempt, heard)
        BY <1>3, <1>5, <2>1, <3>1, <3>2
      <4>2. \A f \in Generations : request'[f].at \notin {"ready", "wire"}
        BY <1>3, <2>2, <4>1 DEF Fence
      <4> QED
        BY <1>3, <1>5, <2>1, <2>2, <2>3, <2>5, <3>1, <4>1, <4>2, FenceDefers
    <3> QED
      BY <3>1, <3>2
  <2>11. ~Spent(db.rows[o], request, attempt, heard)
    BY <2>2 DEF Spent
  <2> QED
    BY <1>2, <1>3, <1>4, <2>1, <2>4, <2>5, <2>6, <2>8, <2>9, <2>10, <2>11, Blanks, RowKeeps
<1> QED
  BY <1>6, <1>7

\* A ladder that is given up is still one.
LEMMA GiveUpFields ==
  ASSUME NEW d \in DbRecord
  PROVE  /\ GiveUp(d) \in DbRecord /\ GiveUp(d).rows = d.rows /\ GiveUp(d).alias = d.alias
         /\ GiveUp(d).ledger = d.ledger /\ (GiveUp(d).queue = NoQueue <=> d.queue = NoQueue)
<1>1. CASE d.queue = NoQueue
  BY <1>1 DEF GiveUp, HasLadder
<1>2. CASE d.queue # NoQueue
  <2> DEFINE k == [d.queue EXCEPT !.attempts = MaxAttempts]
  <2>1. d.queue \in Ladder
    BY <1>2 DEF DbRecord
  <2>2. k \in Ladder /\ k # NoQueue
    <3>1. k \in Ladder
      BY <2>1, Numbers DEF Ladder
    <3> QED
      BY <3>1, Blanks
  <2>3. GiveUp(d) = [d EXCEPT !.queue = k]
    BY <1>2 DEF GiveUp, HasLadder, DbRecord
  <2> HIDE DEF k
  <2> QED
    BY <1>2, <2>2, <2>3 DEF DbRecord
<1> QED
  BY <1>1, <1>2

\* A retired re-send marks the named row; its ladder stays, capped.
LEMMA RetireKeeps == ASSUME SendInv, NEW g \in Generations, Retire(g) PROVE SendInv'
<1> DEFINE hit(x) == x \in {Temp, db.alias} /\ db.rows[x].state \notin {"gone", "sent"}
           rows == [x \in Guids |-> IF hit(x) THEN [db.rows[x] EXCEPT !.state = "localError"]
                                              ELSE db.rows[x]]
           given == GiveUp(db)
<1>1. Tables(db) /\ RestTyped /\ ServerInv /\ db \in DbRecord
  BY DEF SendInv, Tables
<1>2. /\ request[g].at = "ready" /\ request' = [request EXCEPT ![g].at = "done"]
      /\ db' = [given EXCEPT !.rows = rows]
      /\ UNCHANGED <<chat, old, attempt, cycles, crashes, heard, cancelled>>
  BY DEF Retire
<1>3. /\ request' \in Requests /\ ServerInv' /\ request'[g].at \in {"ghost", "done"}
      /\ \A r \in Bubble :
           /\ Fence(r, request, attempt, heard) => Fence(r, request', attempt', heard')
           /\ Spent(r, request, attempt, heard) => Spent(r, request', attempt', heard')
  BY <1>1, <1>2, RequestEnds
<1>4. RestTyped'
  BY <1>1, <1>2, <1>3 DEF RestTyped, Requests
<1>5. \A x \in Guids : db.rows[x] \in Bubble /\ [db.rows[x] EXCEPT !.state = "localError"] \in Bubble
  BY <1>1 DEF DbRecord, Bubble, Failed
<1>6. rows \in [Guids -> Bubble]
  BY <1>5
<1>7. /\ given \in DbRecord /\ given.alias = db.alias /\ given.ledger = db.ledger
      /\ given.queue = NoQueue <=> db.queue = NoQueue
  BY <1>1, GiveUpFields
<1>8. /\ db' \in DbRecord /\ db'.rows = rows /\ db'.alias = db.alias /\ db'.ledger = db.ledger
      /\ db'.queue = NoQueue <=> db.queue = NoQueue
  <2> HIDE DEF rows, given
  <2> QED
    BY <1>2, <1>6, <1>7 DEF DbRecord
<1>9. \A x \in Guids : hit(x) => Named(db, x)
  BY DEF Named
<1>10. CASE \E x \in Guids : hit(x)
  <2>1. PICK o \in Guids : hit(o)
    BY <1>10
  <2>2. Named(db, o) /\ db.rows[o].state \notin {"gone", "sent"}
    BY <1>9, <2>1
  <2>3. \A x \in Guids : hit(x) => x = o
    BY <1>1, <1>9, <2>2, OneName
  <2> DEFINE r == [db.rows[o] EXCEPT !.state = "localError"]
  <2>4. /\ r \in Bubble /\ r.state = "localError" /\ r.hidden = db.rows[o].hidden
        /\ r.generation = db.rows[o].generation /\ r.pending = db.rows[o].pending
        /\ r.active = db.rows[o].active
    BY <1>5 DEF Bubble
  <2>5. db'.rows = [db.rows EXCEPT ![o] = r]
    BY <1>1, <1>8, <2>1, <2>3 DEF DbRecord
  <2> HIDE DEF r
  <2>6. Fence(db.rows[o], request, attempt, heard) => Fence(r, request', attempt', heard')
    <3>1. /\ attempt \in AttemptLog /\ heard \in SUBSET Attempts
          /\ attempt' = attempt /\ heard' = heard
      BY <1>1, <1>2 DEF RestTyped, AttemptLog
    <3>2. ASSUME Fence(db.rows[o], request, attempt, heard)
          PROVE  Fence(r, request', attempt, heard)
      <4>1. Fence(db.rows[o], request', attempt, heard)
        BY <1>3, <1>5, <3>1, <3>2
      <4>2. g = db.rows[o].generation
        BY <1>2, <3>2 DEF Fence
      <4> QED
        BY <1>3, <1>5, <2>2, <2>4, <3>1, <4>1, <4>2, FenceEnds DEF Failed
    <3> QED
      BY <3>1, <3>2
  <2>7. Spent(db.rows[o], request, attempt, heard) => Spent(r, request', attempt', heard')
    <3>1. ASSUME Spent(db.rows[o], request, attempt, heard)
          PROVE  Spent(r, request', attempt', heard')
      <4>1. Spent(db.rows[o], request', attempt', heard')
        BY <1>3, <1>5, <3>1
      <4> QED
        BY <2>4, <4>1 DEF Spent, Failed
    <3> QED
      BY <3>1
  <2> QED
    BY <1>2, <1>3, <1>4, <1>8, <2>2, <2>4, <2>5, <2>6, <2>7, RowKeeps
<1>11. CASE ~\E x \in Guids : hit(x)
  <2>1. db'.rows = db.rows
    BY <1>1, <1>8, <1>11 DEF DbRecord
  <2> HIDE DEF rows, given, hit
  <2> QED
    BY <1>2, <1>3, <1>4, <1>5, <1>8, <2>1, LadderKeeps
<1> QED
  BY <1>10, <1>11

\* A ladder that falls due is still there.
LEMMA ElapseKeeps == ASSUME SendInv, Elapse PROVE SendInv'
<1>1. RestTyped /\ ServerInv /\ db \in DbRecord
  BY DEF SendInv, Tables
<1>2. /\ db.queue # NoQueue /\ db' = [db EXCEPT !.queue.due = TRUE]
      /\ UNCHANGED <<chat, old, request, attempt, cycles, crashes, heard, cancelled>>
  BY DEF Elapse, HasLadder
<1>3. db.queue \in Ladder /\ [db.queue EXCEPT !.due = TRUE] \in Ladder
  BY <1>1, <1>2 DEF DbRecord, Ladder
<1>4. /\ db' \in DbRecord /\ db'.rows = db.rows /\ db'.alias = db.alias
      /\ db'.ledger = db.ledger /\ db'.queue = [db.queue EXCEPT !.due = TRUE]
  BY <1>1, <1>2, <1>3 DEF DbRecord
<1>5. RestTyped' /\ ServerInv'
  BY <1>1, <1>2 DEF RestTyped, ServerInv, Made
<1> QED
  BY <1>2, <1>3, <1>4, <1>5, Blanks, LadderKeeps

\* The next generation of the row that owns the bubble, with its ladder.
LEMMA NextGenerationKeeps ==
  ASSUME SendInv, NEW d \in DbRecord, d.rows = db.rows, d.alias = db.alias, d.ledger = db.ledger,
         d.queue \in Ladder, db.queue # NoQueue, NEW o \in Guids, Named(db, o),
         db.rows[o].state # "gone", NEW auto \in BOOLEAN, NextGeneration(d, o, auto),
         Fence(db.rows[o], request, attempt, heard)
           => \A f \in Generations : request[f].at \notin {"ready", "wire"},
         UNCHANGED <<chat, old, attempt, cycles, crashes, heard, cancelled>>
  PROVE  SendInv'
<1> DEFINE g == db.rows[o].generation + 1
           r == [db.rows[o] EXCEPT !.state = "sending", !.pending = TRUE, !.generation = g]
           k == [d.queue EXCEPT !.lease = g]
           new == [at |-> "ready", answer |-> NoAttempt, before |-> db.rows[o].state,
                   auto |-> auto]
<1>1. Tables(db) /\ RestTyped /\ ServerInv /\ db \in DbRecord /\ db.rows[o] \in Bubble
  BY DEF SendInv, Tables, DbRecord
<1>2. /\ db.rows[o].generation \in 1 .. MaxGeneration - 1
      /\ db' = [d EXCEPT !.rows[o].state = "sending", !.rows[o].pending = TRUE,
                         !.rows[o].generation = g, !.queue.lease = g]
      /\ request' = [request EXCEPT ![g] = new]
  BY DEF NextGeneration
<1>3. g \in Generations /\ g \in 0 .. MaxGeneration
  BY <1>2, BoundsAssumption DEF Generations
<1>4. db.rows[o].state \in {"sending"} \union Failed
  BY <1>1 DEF Tables, Bubble
<1>5. /\ db'.alias = d.alias /\ db'.ledger = d.ledger
      /\ db'.queue = k /\ db'.rows = [d.rows EXCEPT ![o] = r]
      /\ db' = [rows |-> db'.rows, alias |-> db'.alias, ledger |-> db'.ledger,
                queue |-> db'.queue]
  <2>1. d = [rows |-> db.rows, alias |-> d.alias, ledger |-> d.ledger, queue |-> d.queue]
    BY DEF DbRecord
  <2>2. db.rows \in [Guids -> Bubble]
    BY <1>1 DEF DbRecord
  <2> QED
    BY <1>1, <1>2, <2>1, <2>2 DEF Bubble, Ladder
<1>6. /\ r \in Bubble /\ r.state = "sending" /\ r.hidden = db.rows[o].hidden
      /\ r.generation = g /\ r.pending /\ r.active = db.rows[o].active
  BY <1>1, <1>3 DEF Bubble
<1>7. k \in Ladder /\ k # NoQueue
  <2>1. k \in Ladder
    BY <1>3 DEF Ladder
  <2> QED
    BY <2>1, Blanks
<1>8. new \in RequestRecord /\ new.at = "ready" /\ new.answer = NoAttempt /\ new.before # "sent"
  BY <1>4, Numbers DEF RequestRecord, Failed
<1> HIDE DEF r, k, new
<1>9. /\ db' \in DbRecord /\ db'.rows = [db.rows EXCEPT ![o] = r] /\ db'.queue = k
      /\ db'.alias = db.alias /\ db'.ledger = db.ledger
  BY <1>5, <1>6, <1>7 DEF DbRecord
<1>10. /\ request' \in Requests /\ request'[g] = new
       /\ \A f \in Generations : f # g => request'[f] = request[f]
  BY <1>1, <1>2, <1>3, <1>8 DEF RestTyped, Requests
<1>11. RestTyped'
  BY <1>1, <1>10 DEF RestTyped, Requests
<1>12. ServerInv'
  <2>1. \A f \in Generations :
          \/ request'[f] = request[f]
          \/ request'[f].before # "sent" /\ request'[f].answer = NoAttempt /\ request'[f].at = "ready"
    BY <1>8, <1>10
  <2>2. attempt' = attempt /\ heard' = heard
    OBVIOUS
  <2> QED
    BY <1>1, <2>1, <2>2 DEF ServerInv, Made
<1>13. ASSUME Fence(db.rows[o], request, attempt, heard)
       PROVE  Fence(r, request', attempt', heard')
  <2>1. /\ request \in Requests /\ attempt \in AttemptLog /\ heard \in SUBSET Attempts
        /\ attempt' = attempt /\ heard' = heard
    BY <1>1 DEF RestTyped, Requests, AttemptLog
  <2>2. \A f \in Generations : request[f].at \notin {"ready", "wire"}
    BY <1>13
  <2>3. db.rows[o].state # "sent" /\ request'[r.generation].at = "ready"
    BY <1>1, <1>6, <1>8, <1>10 DEF Tables
  <2>4. \A f \in Generations : f # r.generation => request'[f] = request[f]
    BY <1>6, <1>10
  <2>5. db.rows[o].generation + 1 \in Generations /\ r.generation = db.rows[o].generation + 1
    BY <1>3, <1>6
  <2> HIDE DEF g
  <2>6. Fence(r, request', attempt, heard)
    BY <1>1, <1>6, <1>10, <1>13, <2>1, <2>2, <2>3, <2>4, <2>5, FenceNext
  <2> QED
    BY <2>1, <2>6
<1>14. r.state \notin {"gone", "sent"}
  BY <1>6
<1> QED
  BY <1>6, <1>7, <1>9, <1>11, <1>12, <1>13, <1>14, RowKeeps

\* A claim takes the named row to its next generation, or caps an orphan.
LEMMA ClaimKeeps == ASSUME SendInv, Claim PROVE SendInv'
<1> DEFINE o == Owner(db, NoGuid)
           d == [db EXCEPT !.queue.due = FALSE]
<1>1. Tables(db) /\ RestTyped /\ ServerInv /\ db \in DbRecord
  BY DEF SendInv, Tables
<1>2. /\ db.queue # NoQueue
      /\ \A f \in Generations : request[f].at \notin {"ready", "wire"}
      /\ IF o = NoGuid THEN db' = GiveUp(db) /\ UNCHANGED request
                       ELSE NextGeneration(d, o, TRUE)
      /\ UNCHANGED <<chat, old, attempt, cycles, crashes, heard, cancelled>>
  BY DEF Claim, HasLadder, InFlight
<1>3. CASE o = NoGuid
  <2>1. RestTyped' /\ ServerInv'
    BY <1>1, <1>2, <1>3 DEF RestTyped, ServerInv, Made
  <2>2. /\ db' \in DbRecord /\ db'.rows = db.rows /\ db'.alias = db.alias
        /\ db'.ledger = db.ledger /\ (db'.queue = NoQueue <=> db.queue = NoQueue)
    BY <1>1, <1>2, <1>3, GiveUpFields
  <2>3. UNCHANGED <<chat, old, cancelled, request, attempt, heard>>
    BY <1>2, <1>3
  <2> QED
    BY <2>1, <2>2, <2>3, LadderKeeps
<1>4. CASE o # NoGuid
  <2>1. o \in Guids /\ Named(db, o) /\ db.rows[o].state # "gone"
    BY <1>1, <1>4, OwnerIsNamed
  <2>2. db.queue \in Ladder
    BY <1>1, <1>2 DEF DbRecord
  <2>3. /\ d \in DbRecord /\ d.rows = db.rows /\ d.alias = db.alias /\ d.ledger = db.ledger
        /\ d.queue \in Ladder
    <3>1. [db.queue EXCEPT !.due = FALSE] \in Ladder
      BY <2>2 DEF Ladder
    <3> QED
      BY <1>1, <3>1 DEF DbRecord
  <2>4. NextGeneration(d, o, TRUE)
    BY <1>2, <1>4
  <2> HIDE DEF o, d
  <2> QED
    BY <1>2, <2>1, <2>3, <2>4, NextGenerationKeeps
<1> QED
  BY <1>3, <1>4

\* So does Try Again, whose row has no request out.
LEMMA TryAgainKeeps == ASSUME SendInv, NEW x \in Guids, TryAgain(x) PROVE SendInv'
<1> DEFINE d == [db EXCEPT !.queue.attempts = 0, !.queue.due = FALSE]
<1>1. Tables(db) /\ db \in DbRecord
  BY DEF SendInv, Tables
<1>2. /\ db.queue # NoQueue /\ Named(db, x) /\ db.rows[x].state \in Failed
      /\ NextGeneration(d, Owner(db, NoGuid), FALSE)
      /\ UNCHANGED <<chat, old, attempt, cycles, crashes, heard, cancelled>>
  BY DEF TryAgain, HasLadder, Named
<1>3. db.rows[x].state # "gone" /\ db.rows[x].state # "sending"
  BY <1>2 DEF Failed
<1>4. Owner(db, NoGuid) = x
  BY <1>1, <1>2, <1>3, OwnerIsNamed
<1>5. /\ d \in DbRecord /\ d.rows = db.rows /\ d.alias = db.alias /\ d.ledger = db.ledger
      /\ d.queue \in Ladder
  <2>1. db.queue \in Ladder
    BY <1>1, <1>2 DEF DbRecord
  <2>2. [db.queue EXCEPT !.attempts = 0, !.due = FALSE] \in Ladder
    BY <2>1, Numbers DEF Ladder
  <2>3. d = [db EXCEPT !.queue = [db.queue EXCEPT !.attempts = 0, !.due = FALSE]]
    BY <1>1, <2>1 DEF DbRecord, Ladder
  <2> HIDE DEF d
  <2> QED
    BY <1>1, <2>2, <2>3 DEF DbRecord
<1>6. Fence(db.rows[x], request, attempt, heard)
        => \A f \in Generations : request[f].at \notin {"ready", "wire"}
  BY <1>3 DEF Fence
<1> HIDE DEF d
<1> QED
  BY <1>2, <1>3, <1>4, <1>5, <1>6, NextGenerationKeeps

\* A server failure marks the row it is fenced by; a rebuilt ladder is of a visible one.
LEMMA DeliverFailureKeeps == ASSUME SendInv, NEW a \in Attempts, DeliverFailure(a) PROVE SendInv'
<1> DEFINE o == Owner(db, NoGuid)
           b == [db EXCEPT !.rows[o].active = a, !.rows[o].pending = FALSE]
           d == Errored(b, o, "serverError")
           marked == [d EXCEPT !.rows[o].state = "serverError"]
<1>1. Tables(db) /\ RestTyped /\ ServerInv /\ db \in DbRecord
  BY DEF SendInv, Tables
<1>2. attempt[a].failed # "no" /\ Made(a)
  BY <1>1 DEF DeliverFailure, ServerInv
<1>3. CASE o = NoGuid
  <2>1. /\ db' = (IF db.alias # NoGuid THEN Dequeue(db) ELSE db)
        /\ UNCHANGED <<chat, old, request, attempt, cycles, crashes, heard, cancelled>>
    BY <1>3 DEF DeliverFailure
  <2>2. RestTyped' /\ ServerInv'
    BY <1>1, <2>1 DEF RestTyped, ServerInv, Made
  <2>3. \A x \in Guids : Named(db, x) => db.rows[x].state = "gone"
    BY <1>1, <1>3, OwnerIsNamed
  <2>4. /\ db' \in DbRecord /\ db'.rows = db.rows /\ db'.alias = db.alias
        /\ db'.ledger = db.ledger /\ db'.queue \in {db.queue, NoQueue}
    BY <1>1, <2>1, DequeueFields
  <2>5. Tables(db') /\ Recoverable(db', Doomed') /\ (Silent(db) => Silent(db'))
    <3>1. \A x \in Guids : Named(db', x) <=> Named(db, x)
      BY <2>4 DEF Named
    <3>2. Tables(db')
      BY <1>1, <2>4, <3>1 DEF Tables
    <3>3. \A x \in Guids : db'.rows[x].state # "sending"
      BY <1>1, <2>3, <2>4, SendingIsNamed
    <3> QED
      BY <2>4, <3>2, <3>3 DEF Recoverable, Silent
  <2>6. chat # "open"
    BY <2>3 DEF SendInv, OpenInv
  <2>7. Settling(db)'
    BY <2>3, <2>4 DEF Settling, Named
  <2> QED
    BY <2>1, <2>2, <2>5, <2>6, <2>7 DEF SendInv, OpenInv
<1>4. CASE o # NoGuid
  <2>1. o \in Guids /\ Named(db, o) /\ db.rows[o].state # "gone" /\ db.rows[o] \in Bubble
    BY <1>1, <1>4, OwnerIsNamed DEF DbRecord
  <2>2. /\ ~Stale(db.rows[o], a, attempt[a].generation)
        /\ \/ db' = marked /\ UNCHANGED cycles
           \/ /\ MayRebuild(d, o, attempt[a].failed = "safe")
              /\ db' = [marked EXCEPT !.queue = RebuiltLadder]
              /\ cycles' = cycles + 1
        /\ heard' = heard \union {a}
        /\ UNCHANGED <<chat, old, request, attempt, crashes, cancelled>>
    BY <1>4 DEF DeliverFailure
  <2> DEFINE r == [db.rows[o] EXCEPT !.active = a, !.pending = FALSE, !.state = "serverError"]
  <2>3. a \in 0 .. MaxServerAttempts
    BY Numbers
  <2>4. /\ r \in Bubble /\ r.state = "serverError" /\ r.hidden = db.rows[o].hidden
        /\ r.generation = db.rows[o].generation /\ ~r.pending /\ r.active = a
    BY <2>1, <2>3 DEF Bubble, Failed
  <2>5. /\ b \in DbRecord /\ b.alias = db.alias /\ b.ledger = db.ledger /\ b.queue = db.queue
        /\ b.rows = [db.rows EXCEPT ![o] = [db.rows[o] EXCEPT !.active = a, !.pending = FALSE]]
    <3>1. [db.rows[o] EXCEPT !.active = a, !.pending = FALSE] \in Bubble
      BY <2>1, <2>3 DEF Bubble
    <3>2. b = [db EXCEPT !.rows[o] = [db.rows[o] EXCEPT !.active = a, !.pending = FALSE]]
      BY <1>1, <2>1 DEF DbRecord, Bubble
    <3> HIDE DEF b, o
    <3> QED
      BY <1>1, <2>1, <3>1, <3>2 DEF DbRecord
  <2> HIDE DEF b, o
  <2>6. /\ d \in DbRecord /\ d.alias = db.alias /\ d.ledger = db.ledger
        /\ d.rows \in {b.rows, [b.rows EXCEPT ![o].state = "serverError"]}
        /\ d.queue = NoQueue <=> db.queue = NoQueue
    BY <2>1, <2>5, ErroredFields DEF Failed
  <2> HIDE DEF d
  <2>7. /\ [d.rows EXCEPT ![o].state = "serverError"] = [db.rows EXCEPT ![o] = r]
        /\ d.rows[o].hidden = db.rows[o].hidden
        /\ [db.rows EXCEPT ![o] = r] \in [Guids -> Bubble]
    <3> DEFINE m == [db.rows[o] EXCEPT !.active = a, !.pending = FALSE]
    <3>1. /\ [m EXCEPT !.state = "serverError"] = r /\ [r EXCEPT !.state = "serverError"] = r
          /\ m.hidden = db.rows[o].hidden /\ r.hidden = db.rows[o].hidden
      BY <2>1 DEF Bubble
    <3>2. b.rows = [db.rows EXCEPT ![o] = m] /\ db.rows \in [Guids -> Bubble]
      BY <1>1, <2>5 DEF DbRecord
    <3> HIDE DEF m, r
    <3>3. [b.rows EXCEPT ![o].state = "serverError"] = [db.rows EXCEPT ![o] = r]
      BY <2>1, <3>1, <3>2
    <3>4. [[db.rows EXCEPT ![o] = r] EXCEPT ![o].state = "serverError"] = [db.rows EXCEPT ![o] = r]
      BY <2>1, <3>1, <3>2
    <3>5. d.rows[o].hidden = db.rows[o].hidden
      BY <2>1, <2>6, <3>1, <3>2, <3>3
    <3> QED
      BY <2>4, <2>6, <3>2, <3>3, <3>4, <3>5
  <2> HIDE DEF r
  <2>8. /\ marked \in DbRecord /\ marked.rows = [db.rows EXCEPT ![o] = r]
        /\ marked.alias = db.alias /\ marked.ledger = db.ledger /\ marked.queue = d.queue
    <3>1. marked = [d EXCEPT !.rows = [db.rows EXCEPT ![o] = r]]
      BY <2>6, <2>7 DEF DbRecord
    <3> QED
      BY <2>6, <2>7, <3>1 DEF DbRecord
  <2> HIDE DEF marked
  <2>9. /\ db' \in DbRecord /\ db'.rows = [db.rows EXCEPT ![o] = r]
        /\ db'.alias = db.alias /\ db'.ledger = db.ledger
        /\ db.queue # NoQueue => db'.queue # NoQueue
        /\ db.queue = NoQueue => db'.queue = NoQueue \/ db.rows[o].hidden = "no"
        /\ cycles' \in 0 .. MaxCycles
    <3>1. CASE db' = marked /\ UNCHANGED cycles
      BY <1>1, <2>6, <2>8, <3>1 DEF RestTyped
    <3>2. CASE /\ MayRebuild(d, o, attempt[a].failed = "safe")
               /\ db' = [marked EXCEPT !.queue = RebuiltLadder]
               /\ cycles' = cycles + 1
      <4>1. RebuiltLadder \in Ladder /\ RebuiltLadder # NoQueue
        <5>1. RebuiltLadder \in Ladder
          BY Numbers DEF RebuiltLadder, Ladder
        <5> QED
          BY <5>1, Blanks
      <4>2. db.rows[o].hidden = "no" /\ cycles < MaxCycles
        BY <2>7, <3>2 DEF MayRebuild
      <4>3. cycles' \in 0 .. MaxCycles
        BY <1>1, <3>2, <4>2, BoundsAssumption DEF RestTyped
      <4>4. /\ db' \in DbRecord /\ db'.rows = marked.rows /\ db'.alias = marked.alias
            /\ db'.ledger = marked.ledger /\ db'.queue = RebuiltLadder
        BY <2>8, <3>2, <4>1 DEF DbRecord
      <4> QED
        BY <2>8, <4>1, <4>2, <4>3, <4>4
    <3> QED
      BY <2>2, <3>1, <3>2
  <2>10. RestTyped'
    BY <1>1, <2>2, <2>9 DEF RestTyped
  <2>11. ServerInv'
    <3>1. UNCHANGED <<request, attempt>>
      BY <2>2
    <3>2. \A b2 \in Attempts : b2 \in heard' => b2 \in heard \/ b2 = a
      BY <2>2
    <3> QED
      BY <1>1, <1>2, <3>1, <3>2 DEF ServerInv, Made
  <2>12. ASSUME Fence(db.rows[o], request, attempt, heard)
         PROVE  Fence(r, request', attempt', heard')
    <3>1. /\ request \in Requests /\ attempt \in AttemptLog /\ heard \in SUBSET Attempts
          /\ attempt' = attempt /\ request' = request /\ heard' = heard \union {a}
      BY <1>1, <2>2 DEF RestTyped, Requests, AttemptLog
    <3>2. Fence(r, request, attempt, heard \union {a})
      BY <1>2, <2>1, <2>2, <2>4, <2>12, <3>1, FenceFails DEF Made
    <3> QED
      BY <3>1, <3>2
  <2>13. r.state \notin {"gone", "sent"} /\ r.state # "sending"
    BY <2>4
  <2>14. ASSUME Spent(db.rows[o], request, attempt, heard), db.queue = NoQueue
         PROVE  Spent(r, request', attempt', heard') /\ db'.queue = NoQueue
    <3>1. db.rows[o].active = a
      BY <2>2, <2>14 DEF Spent, Stale
    <3>2. Spent(r, request', attempt', heard')
      BY <2>2, <2>4, <2>14, <3>1 DEF Spent, Failed
    <3>3. ~MayRebuild(d, o, attempt[a].failed = "safe")
      BY <1>1, <2>7, <2>14, <3>1 DEF MayRebuild, Spent, ServerInv
    <3>4. db'.queue = NoQueue
      BY <2>2, <2>6, <2>8, <2>14, <3>3
    <3> QED
      BY <3>2, <3>4
  <2> QED
    BY <2>1, <2>2, <2>4, <2>9, <2>10, <2>11, <2>12, <2>13, <2>14, RowKeeps
<1> QED
  BY <1>3, <1>4

-----------------------------------------------------------------------------
(* Successes. *)

\* What holds of the tables e that a success leaves while the chat is there.
Open(e) ==
  /\ \E x \in Guids : Named(e, x) /\ e.rows[x].state # "gone"
  /\ \A x \in Guids : e.rows[x].hidden # "chat"

\* A bubble given back is spent.
LEMMA RebornIsSpent ==
  ASSUME NEW g \in Generations, NEW a \in Attempts, NEW q \in Requests, NEW t \in AttemptLog,
         NEW h \in SUBSET Attempts, NEW hidden \in {"no", "message", "chat"},
         t[a].generation > 0, t[a].generation = g \/ q[g].answer = a,
         hidden = "no" => t[a].copied
  PROVE  Spent(Reborn(g, a, hidden), q, t, h)
  BY DEF Spent, Reborn, Proven

\* A success of its own attempt leaves a spent row spent.
LEMMA SpentSettles ==
  ASSUME NEW r \in Bubble, NEW s \in Bubble, NEW q \in Requests, NEW t \in AttemptLog,
         NEW h \in SUBSET Attempts, Spent(r, q, t, h),
         NEW a \in Attempts, NEW g \in Generations, NEW sticky \in BOOLEAN, ~Stale(r, a, g),
         sticky <=> r.state \in Failed,
         s.generation = r.generation, ~s.pending, s.active \in {a, r.active},
         s.state = IF sticky THEN r.state ELSE "sent",
         s.hidden = "no" => t[a].copied \/ r.hidden = "no"
  PROVE  Spent(s, q, t, h)
<1>1. r.active = a /\ s.active = a
  BY DEF Spent, Stale
<1>2. s.state = "sent" => r.state = "sent"
  BY DEF Spent, Failed
<1>3. Proven(r, q, t, h) => Proven(s, q, t, h)
  BY <1>1 DEF Proven
<1> QED
  BY <1>1, <1>2, <1>3 DEF Spent, Failed

\* A success leaves the tables whole and the named row fenced or spent.
LEMMA ExactKeeps ==
  ASSUME SendInv, NEW a \in Attempts, Made(a), NEW g \in Generations, NEW x \in Guids,
         x \in Attempts \/ Owner(db, x) = x, NEW keepError \in BOOLEAN,
         \/ g = attempt[a].generation /\ ~keepError /\ attempt[a].copied
         \/ request[g].answer = a /\ request[g].at = "answered" /\ keepError /\ Owner(db, x) = x
  PROVE  LET e == Exact(db, a, g, x, keepError) IN
         /\ Tables(e) /\ Recoverable(e, Doomed) /\ (cancelled => Silent(e))
         /\ chat = "open" => Open(e)
         /\ Settling(e)
         /\ e.alias = x => e.rows[x].state # "gone"
<1> DEFINE e == Exact(db, a, g, x, keepError)
           o == Owner(db, x)
           r == db.rows[o]
<1>1. Tables(db) /\ RestTyped /\ ServerInv /\ db \in DbRecord
  BY DEF SendInv, Tables
<1>2. g \in 0 .. MaxGeneration
  BY Numbers
<1>3. /\ Tables(e) /\ (Silent(db) => Silent(e))
      /\ \/ e = db
         \/ o = NoGuid /\ x \in Attempts /\ Birth(db, e, x, a, g)
              /\ (e.alias # db.alias => Temp \in db.ledger)
         \/ \E y \in Guids, sticky \in BOOLEAN :
              /\ Settlement(db, e, o, y, a, sticky) /\ y \in {o, x}
              /\ o # NoGuid /\ ~Stale(r, a, g)
              /\ sticky <=> r.state \in Failed /\ (~r.pending \/ keepError)
      /\ o = NoGuid /\ db.alias = x => Birth(db, e, x, a, g)
  BY <1>1, <1>2, ExactFields
<1>4. cancelled => Silent(e)
  BY <1>3 DEF SendInv
<1>5. /\ o \in Guids \union {NoGuid}
      /\ \A y \in Guids : Named(db, y) /\ db.rows[y].state # "gone" => o = y
      /\ o # NoGuid => db.rows[o].state # "gone"
  BY <1>1, OwnerIsThere
<1> HIDE DEF e, o
<1>6. CASE e = db
  <2>1. e.alias = x => e.rows[x].state # "gone"
    <3>1. ASSUME db.alias = x, db.rows[x].state = "gone" PROVE o = NoGuid
      <4>1. db.rows[Temp].state = "gone" /\ x # NoGuid
        BY <1>1, <3>1, Numbers DEF Tables
      <4> QED
        BY <3>1, <4>1, Numbers DEF o, Owner, There
    <3>2. o = NoGuid /\ db.alias = x => db.rows[x].state # "gone"
      BY <1>3, <1>6 DEF Birth, Reborn
    <3> QED
      BY <1>6, <3>1, <3>2
  <2>2. chat = "open" => Open(e)
    BY <1>6 DEF SendInv, OpenInv, Open
  <2>3. Recoverable(e, Doomed) /\ Settling(e)
    BY <1>6 DEF SendInv
  <2> QED
    BY <1>3, <1>4, <2>1, <2>2, <2>3 DEF e
<1>7. CASE o = NoGuid /\ x \in Attempts /\ Birth(db, e, x, a, g)
  <2>1. \A y \in Guids : Named(db, y) => db.rows[y].state = "gone"
    BY <1>5, <1>7, Numbers
  <2>2. \A y \in Guids : db.rows[y].state # "sending"
    BY <1>1, <2>1, SendingIsNamed
  <2>3. \A y \in Guids : e.rows[y].state # "sending"
    BY <1>7, <2>2 DEF Birth, Reborn
  <2>4. chat # "open"
    BY <2>1 DEF SendInv, OpenInv
  <2>5. e.rows[x].state # "gone"
    BY <1>7 DEF Birth, Reborn
  <2>6. Settling(e)
    <3>1. PICK hidden \in {"no", "message", "chat"} : e.rows[x] = Reborn(g, a, hidden)
      BY <1>7 DEF Birth
    <3>2. x # o
      BY <1>7, Numbers
    <3>3. attempt[a].generation > 0 /\ attempt[a].copied /\ g = attempt[a].generation
      BY <1>5, <1>7, <3>2 DEF Made, o
    <3>4. Spent(e.rows[x], request, attempt, heard)
      BY <1>1, <3>1, <3>3, RebornIsSpent DEF RestTyped, Requests, AttemptLog
    <3>5. ASSUME NEW y \in Guids, Named(e, y), e.rows[y].state # "gone" PROVE y = x
      BY <1>7, <2>1, <3>5, Numbers DEF Birth, Named
    <3>6. e.queue = NoQueue
      BY <1>7 DEF Birth
    <3> QED
      BY <2>4, <3>4, <3>5, <3>6 DEF Settling
  <2> QED
    BY <1>3, <1>4, <2>3, <2>4, <2>5, <2>6 DEF e, Recoverable
<1>8. CASE \E y \in Guids, sticky \in BOOLEAN :
             /\ Settlement(db, e, o, y, a, sticky) /\ y \in {o, x}
             /\ o # NoGuid /\ ~Stale(r, a, g)
             /\ sticky <=> r.state \in Failed /\ (~r.pending \/ keepError)
  <2>1. PICK y \in Guids, sticky \in BOOLEAN :
             /\ Settlement(db, e, o, y, a, sticky) /\ y \in {o, x}
             /\ o # NoGuid /\ ~Stale(r, a, g)
             /\ sticky <=> r.state \in Failed /\ (~r.pending \/ keepError)
    BY <1>8
  <2>2. /\ o \in Guids /\ r.state # "gone" /\ Named(db, o) /\ Named(e, y)
        /\ y # o => o = Temp /\ e.rows[Temp] = Gone /\ e.alias = y
        /\ y = o => e.alias = db.alias
        /\ \A z \in Guids \ {o, y} : e.rows[z] = db.rows[z]
        /\ ~e.rows[y].pending /\ e.rows[y].generation = r.generation
        /\ e.rows[y].state = (IF sticky THEN r.state ELSE "sent")
        /\ e.rows[y].active \in {a, r.active}
        /\ e.rows[y].hidden \in {"message", r.hidden, db.rows[y].hidden}
    BY <1>5, <2>1 DEF Settlement
  <2>3. e.rows[y].state \in Failed \union {"sent"}
    BY <2>1, <2>2
  <2>4. ASSUME NEW z \in Guids, z # y
        PROVE  e.rows[z].state # "sending" /\ (Named(e, z) => e.rows[z].state = "gone")
    <3>1. CASE z = o
      BY <2>2, <2>4, <3>1, Blanks
    <3>2. CASE z # o
      <4>1. e.rows[z] = db.rows[z]
        BY <2>2, <2>4, <3>2
      <4>2. Named(db, z) => db.rows[z].state = "gone"
        BY <1>5, <3>2
      <4>3. db.rows[z].state # "sending"
        BY <1>1, <4>2, SendingIsNamed
      <4>4. Named(e, z) => db.rows[z].state = "gone"
        BY <1>3, <2>2, <2>3, <2>4, <3>2, <4>1, OneName DEF Failed
      <4> QED
        BY <4>1, <4>3, <4>4
    <3> QED
      BY <3>1, <3>2
  <2>5. Recoverable(e, Doomed)
    BY <2>3, <2>4 DEF Recoverable, Failed
  <2>6. Named(e, y) /\ e.rows[y].state # "gone"
    BY <2>2, <2>3 DEF Failed
  <2>7. ASSUME chat = "open" PROVE Open(e)
    <3>1. \A z \in Guids : db.rows[z].hidden # "chat"
      BY <2>7 DEF SendInv, OpenInv
    <3>2. e.rows[y].hidden # "chat"
      BY <2>2, <3>1
    <3>3. ASSUME NEW z \in Guids, z # y PROVE e.rows[z].hidden # "chat"
      BY <2>2, <3>1, <3>3, Blanks
    <3> QED
      BY <2>6, <3>2, <3>3 DEF Open
  <2>8. Settling(e)
    <3>1. /\ request \in Requests /\ attempt \in AttemptLog /\ heard \in SUBSET Attempts
          /\ r \in Bubble /\ e.rows[y] \in Bubble
      BY <1>1, <1>3, <2>2 DEF RestTyped, Requests, AttemptLog, Tables, DbRecord
    <3>2. attempt[a].generation > 0 /\ ~Stale(r, a, g) /\ r.state # "gone"
      BY <2>1, <2>2 DEF Made
    <3>3. CASE Fence(r, request, attempt, heard)
      <4>1. \/ g = attempt[a].generation /\ (sticky <=> r.state \in Failed /\ ~r.pending)
            \/ request[g].answer = a /\ request[g].at = "answered" /\ (sticky <=> r.state \in Failed)
        BY <2>1
      <4>2. Fence(e.rows[y], request, attempt, heard)
        BY <2>2, <3>1, <3>2, <3>3, <4>1, FenceSettles
      <4> QED
        BY <2>4, <4>2 DEF Settling
    <3>4. CASE /\ chat # "open" /\ db.queue = NoQueue
               /\ Spent(r, request, attempt, heard)
      <4>1. sticky <=> r.state \in Failed
        BY <2>1, <3>4 DEF Spent
      <4>2. e.rows[y].hidden = "no" => attempt[a].copied \/ r.hidden = "no"
        <5>1. CASE attempt[a].copied
          BY <5>1
        <5>2. CASE ~attempt[a].copied
          BY <2>1, <2>2, <5>2 DEF o
        <5> QED
          BY <5>1, <5>2
      <4>3. Spent(e.rows[y], request, attempt, heard)
        BY <2>2, <3>1, <3>2, <3>4, <4>1, <4>2, SpentSettles
      <4>4. e.queue = NoQueue
        BY <2>1, <3>4 DEF Settlement
      <4> QED
        BY <2>4, <3>4, <4>3, <4>4 DEF Settling
    <3> QED
      BY <2>2, <3>3, <3>4 DEF SendInv, Settling
  <2>9. e.alias = x => e.rows[x].state # "gone"
    <3>1. ASSUME e.alias = x, e.rows[x].state = "gone" PROVE FALSE
      <4>1. e.rows[y].state # "gone" /\ Named(e, y) /\ y # x
        BY <2>2, <2>3, <3>1 DEF Failed
      <4>2. y = Temp
        BY <3>1, <4>1 DEF Named
      <4> QED
        BY <1>3, <3>1, <4>1, <4>2, Numbers DEF Tables
    <3> QED
      BY <3>1
  <2> QED
    BY <1>3, <1>4, <2>5, <2>7, <2>8, <2>9 DEF e
<1> QED
  BY <1>3, <1>6, <1>7, <1>8


\* A success is recorded: the tables hold together, and the fences follow.
LEMMA SuccessKeeps ==
  ASSUME SendInv, UNCHANGED <<chat, old, cancelled>>, RestTyped', ServerInv',
         Tables(db'), Recoverable(db', Doomed), cancelled => Silent(db'),
         chat = "open" => Open(db'), Settling(db'),
         \A r \in Bubble :
           /\ Fence(r, request, attempt, heard) => Fence(r, request', attempt', heard')
           /\ Spent(r, request, attempt, heard) => Spent(r, request', attempt', heard')
  PROVE  SendInv'
<1>1. \A x \in Guids : db'.rows[x] \in Bubble
  BY DEF Tables, DbRecord
<1>2. OpenInv' /\ Settling(db)'
  BY <1>1 DEF OpenInv, Open, Settling
<1>3. Doomed' = Doomed
  BY DEF Doomed
<1> QED
  BY <1>2, <1>3 DEF SendInv

\* The ladder can always be taken away.
LEMMA DequeueKeeps ==
  ASSUME NEW d, Tables(d)
  PROVE  Tables(Dequeue(d)) /\ (Silent(d) => Silent(Dequeue(d)))
<1>1. d \in DbRecord
  BY DEF Tables
<1> QED
  BY <1>1, DequeueFields DEF Tables, Silent, Named

\* Without an owner nothing is being sent.
LEMMA NobodySends ==
  ASSUME NEW d, Tables(d), Owner(d, NoGuid) = NoGuid
  PROVE  \A x \in Guids : d.rows[x].state \in {"gone", "sent"}
  BY OwnerIsNamed, SendingIsNamed

\* The acknowledgement settles the named row, or gives a purged one back, hidden.
LEMMA AcknowledgeKeeps ==
  ASSUME SendInv, NEW g \in Generations, Acknowledge(g)
  PROVE  SendInv'
<1> DEFINE a == request[g].answer
           o == Owner(db, NoGuid)
<1>1. Tables(db) /\ RestTyped /\ ServerInv /\ db \in DbRecord
  BY DEF SendInv, Tables
<1>2. a \in Attempts /\ Made(a) /\ request[g].at = "answered"
  <2>1. a \in 0 .. MaxServerAttempts /\ a # NoAttempt /\ Made(a) /\ request[g].at = "answered"
    BY <1>1 DEF Acknowledge, ServerInv, RestTyped, RequestRecord
  <2> QED
    BY <2>1, BoundsAssumption DEF Attempts, NoAttempt
<1>3. /\ request' \in Requests /\ ServerInv'
      /\ \A r \in Bubble :
           /\ Fence(r, request, attempt, heard) => Fence(r, request', attempt', heard')
           /\ Spent(r, request, attempt, heard) => Spent(r, request', attempt', heard')
  <2>1. /\ request' = [request EXCEPT ![g].at = "done"] /\ UNCHANGED <<attempt, heard>>
    BY DEF Acknowledge
  <2> QED
    BY <1>1, <1>2, <2>1, RequestEnds
<1>4. RestTyped' /\ UNCHANGED <<chat, old, cancelled>>
  BY <1>1, <1>3 DEF RestTyped, Acknowledge, Requests
<1>5. db' = Acknowledged(db, a, g)
  BY DEF Acknowledge
<1>6. CASE o # NoGuid
  <2>1. o \in Guids /\ Owner(db, o) = o
    <3>1. o \in Guids /\ Named(db, o) /\ db.rows[o].state # "gone"
      BY <1>1, <1>6, OwnerIsNamed
    <3> QED
      BY <1>1, <3>1, OwnerIsThere
  <2>2. db' = Exact(db, a, g, o, TRUE)
    BY <1>5, <1>6 DEF Acknowledged
  <2>3. /\ Tables(db') /\ Recoverable(db', Doomed) /\ (cancelled => Silent(db'))
        /\ chat = "open" => Open(db')
        /\ Settling(db')
    BY <1>2, <2>1, <2>2, ExactKeeps
  <2> QED
    BY <1>3, <1>4, <2>3, SuccessKeeps
<1>7. CASE o = NoGuid
  <2>1. \A x \in Guids : Named(db, x) => db.rows[x].state = "gone"
    BY <1>1, <1>7, OwnerIsNamed
  <2>2. chat # "open"
    BY <2>1 DEF SendInv, OpenInv
  <2>3. \A x \in Guids : db.rows[x].state \in {"gone", "sent"}
    BY <1>1, <1>7, NobodySends
  <2>4. CASE db.alias # NoGuid
    <3>1. db' = Dequeue(db)
      BY <1>5, <1>7, <2>4 DEF Acknowledged
    <3>2. Tables(db') /\ (cancelled => Silent(db'))
      BY <1>1, <3>1, DequeueKeeps DEF SendInv
    <3>3. Recoverable(db', Doomed)
      BY <1>1, <2>3, <3>1, DequeueFields DEF Recoverable
    <3>4. Settling(db')
      BY <1>1, <2>1, <3>1, DequeueFields DEF Settling, Named
    <3> QED
      BY <1>3, <1>4, <2>2, <3>2, <3>3, <3>4, SuccessKeeps
  <2>5. CASE db.alias = NoGuid
    <3> DEFINE hidden == IF Temp \in db.ledger THEN "message" ELSE "chat"
               e == [db EXCEPT !.rows[Temp] = Reborn(g, a, hidden)]
    <3>1. db' = Dequeue(e)
      BY <1>5, <1>7, <2>5 DEF Acknowledged, Reborn
    <3>2. Temp \in Guids /\ g \in 0 .. MaxGeneration /\ a \in 0 .. MaxServerAttempts
      BY <1>2, Numbers
    <3>3. e \in DbRecord /\ e.alias = NoGuid /\ e.ledger = db.ledger
          /\ \A y \in Guids : e.rows[y] = IF y = Temp THEN Reborn(g, a, hidden) ELSE db.rows[y]
      BY <1>1, <2>5, <3>2 DEF DbRecord, Reborn, Bubble
    <3>4. /\ db' \in DbRecord /\ db'.alias = NoGuid /\ db'.ledger = db.ledger
          /\ db'.queue = NoQueue
          /\ \A y \in Guids : db'.rows[y] = IF y = Temp THEN Reborn(g, a, hidden) ELSE db.rows[y]
      BY <3>1, <3>3, DequeueFields
    <3>5. Tables(db')
      <4>1. db.rows[Temp].state = "gone"
        BY <2>1, <3>2 DEF Named
      <4>2. hidden \in {"no", "message", "chat"} /\ (hidden = "message" => Temp \in db'.ledger)
        BY <3>4
      <4> HIDE DEF hidden, a, e
      <4> QED
        BY <1>1, <2>5, <3>2, <3>4, <4>1, <4>2, RebornFields
    <3>6. Recoverable(db', Doomed)
      BY <2>3, <3>4 DEF Recoverable, Reborn
    <3>7. cancelled => Silent(db')
      BY <2>5, <3>4 DEF SendInv, Silent, Reborn
    <3>8. Settling(db')
      <4>1. hidden \in {"no", "message", "chat"} /\ hidden # "no"
        OBVIOUS
      <4>2. db'.rows[Temp] = Reborn(g, a, hidden) /\ db'.queue = NoQueue /\ db'.alias = NoGuid
        BY <3>2, <3>4
      <4> HIDE DEF hidden, e
      <4>3. Spent(db'.rows[Temp], request, attempt, heard)
        BY <1>1, <1>2, <4>1, <4>2, RebornIsSpent DEF Made, RestTyped, Requests, AttemptLog
      <4>4. \A y \in Guids : Named(db', y) => y = Temp
        BY <4>2, Numbers DEF Named
      <4> QED
        BY <2>2, <4>2, <4>3, <4>4 DEF Settling
    <3> QED
      BY <1>3, <1>4, <2>2, <3>5, <3>6, <3>7, <3>8, SuccessKeeps
  <2> QED
    BY <2>4, <2>5
<1> QED
  BY <1>6, <1>7

\* The live copy settles the named row, then is stored beside it or over it.
LEMMA DeliverSuccessKeeps ==
  ASSUME SendInv, NEW a \in Attempts, DeliverSuccess(a)
  PROVE  SendInv'
<1> DEFINE g == attempt[a].generation
           e == Exact(db, a, g, a, FALSE)
<1>1. Tables(db) /\ RestTyped /\ ServerInv
  BY DEF SendInv
<1>2. Made(a) /\ a \in Guids /\ g \in Generations
  <2>1. Made(a) /\ a \in Guids /\ g \in 0 .. MaxGeneration
    BY <1>1, Numbers DEF DeliverSuccess, ServerInv, RestTyped, AttemptRecord
  <2> QED
    BY <2>1, BoundsAssumption DEF Made, Generations
<1>3. /\ Tables(e) /\ Recoverable(e, Doomed) /\ (cancelled => Silent(e))
      /\ chat = "open" => Open(e)
      /\ Settling(e)
      /\ e.alias = a => e.rows[a].state # "gone"
  BY <1>2, ExactKeeps DEF DeliverSuccess
<1>4. PICK past \in {FALSE, chat # "open"} : db' = Upsert(e, a, past)
  BY DEF DeliverSuccess
<1>5. past \in BOOLEAN /\ (chat = "open" => ~past)
  OBVIOUS
<1> HIDE DEF e
<1>6. /\ Tables(db') /\ (Silent(e) => Silent(db'))
      /\ db'.alias = e.alias /\ db'.queue = e.queue
      /\ \A y \in Guids \ {a} : db'.rows[y] = e.rows[y]
      /\ db'.rows[a].hidden = "chat" => past \/ e.rows[a].hidden = "chat"
      /\ \/ /\ db'.rows[a].state = e.rows[a].state
            /\ db'.rows[a].generation = e.rows[a].generation
            /\ db'.rows[a].pending = e.rows[a].pending /\ db'.rows[a].active = e.rows[a].active
            /\ db'.rows[a].hidden = "no" => e.rows[a].hidden = "no"
         \/ /\ e.rows[a].state = "gone" /\ db'.rows[a].state = "sent" /\ Copy(db'.rows[a])
  BY <1>3, <1>4, <1>5, UpsertFields
<1>7. Recoverable(db', Doomed)
  BY <1>3, <1>6 DEF Recoverable
<1>8. ASSUME chat = "open" PROVE Open(db')
  <2>1. Open(e) /\ ~past
    BY <1>3, <1>5, <1>8
  <2>2. \A x \in Guids : Named(db', x) <=> Named(e, x)
    BY <1>6 DEF Named
  <2>3. PICK x \in Guids : Named(e, x) /\ e.rows[x].state # "gone"
    BY <2>1 DEF Open
  <2>4. Named(db', x) /\ db'.rows[x].state # "gone"
    BY <1>6, <2>2, <2>3
  <2>5. \A y \in Guids : db'.rows[y].hidden # "chat"
    BY <1>6, <2>1 DEF Open
  <2> QED
    BY <2>4, <2>5 DEF Open
<1>9. Settling(db')
  <2>1. ASSUME NEW y \in Guids, Named(db', y), db'.rows[y].state # "gone"
        PROVE  \/ Fence(db'.rows[y], request, attempt, heard)
               \/ /\ chat # "open" /\ db'.queue = NoQueue
                  /\ Spent(db'.rows[y], request, attempt, heard)
    <3>1. Named(e, y) /\ (y = a => e.alias = a)
      BY <1>2, <1>6, <2>1, Numbers DEF Named
    <3>2. /\ db'.rows[y].state = e.rows[y].state /\ db'.rows[y].generation = e.rows[y].generation
          /\ db'.rows[y].pending = e.rows[y].pending /\ db'.rows[y].active = e.rows[y].active
          /\ db'.rows[y].hidden = "no" => e.rows[y].hidden = "no"
      BY <1>3, <1>6, <3>1
    <3>3. \/ Fence(e.rows[y], request, attempt, heard)
          \/ /\ chat # "open" /\ e.queue = NoQueue
             /\ Spent(e.rows[y], request, attempt, heard)
      BY <1>3, <2>1, <3>1, <3>2 DEF Settling
    <3>4. Fence(e.rows[y], request, attempt, heard) => Fence(db'.rows[y], request, attempt, heard)
      BY <3>2 DEF Fence, Proven
    <3>5. Spent(e.rows[y], request, attempt, heard) => Spent(db'.rows[y], request, attempt, heard)
      BY <3>2 DEF Spent, Proven
    <3> QED
      BY <1>6, <3>3, <3>4, <3>5
  <2> QED
    BY <2>1 DEF Settling
<1>10. UNCHANGED <<chat, old, request, attempt, cycles, crashes, heard, cancelled>>
  BY DEF DeliverSuccess
<1>11. RestTyped' /\ ServerInv'
  BY <1>1, <1>10 DEF RestTyped, ServerInv, Made
<1> QED
  BY <1>3, <1>6, <1>7, <1>8, <1>9, <1>10, <1>11, SuccessKeeps
-----------------------------------------------------------------------------
(* Deletions. *)

\* A deletion mark on guid t, by itself or with the ladder's end.
LEMMA MarkedFields ==
  ASSUME NEW d, Tables(d), NEW x \in Guids, x = Temp \/ Shown(d, x),
         x = Temp => There(d, x) \/ d.alias # NoGuid
  PROVE  LET e == Discarded(d, x)
             t == IF There(d, x) THEN x ELSE d.alias
         IN  /\ e \in DbRecord /\ t \in Guids /\ (x = Temp => Named(d, t))
             /\ e.alias = d.alias /\ e.ledger = d.ledger \union {t}
             /\ e.queue = IF x = Temp THEN NoQueue ELSE d.queue
             /\ \A y \in Guids :
                  e.rows[y] = IF y = t /\ There(d, t)
                              THEN [d.rows[y] EXCEPT !.hidden = "message"] ELSE d.rows[y]
             /\ t = Temp => x = Temp
<1> DEFINE t == IF There(d, x) THEN x ELSE d.alias
           b == IF x = Temp THEN Dequeue(d) ELSE d
<1>1. d \in DbRecord /\ Temp \in Guids /\ NoGuid \notin Guids
  BY Numbers DEF Tables
<1>2. /\ b \in DbRecord /\ b.rows = d.rows /\ b.alias = d.alias /\ b.ledger = d.ledger
      /\ b.queue = IF x = Temp THEN NoQueue ELSE d.queue
  BY <1>1, DequeueFields
<1>3. t \in Guids /\ (x = Temp => Named(d, t)) /\ (t = Temp => x = Temp)
  BY <1>1 DEF DbRecord, Named, Shown
<1>4. Discarded(d, x) = MarkDeleted(b, t)
  BY DEF Discarded
<1>5. There(b, t) <=> There(d, t)
  BY <1>2 DEF There
<1> HIDE DEF b, t
<1>6. /\ MarkDeleted(b, t) \in DbRecord /\ MarkDeleted(b, t).alias = b.alias
      /\ MarkDeleted(b, t).queue = b.queue /\ MarkDeleted(b, t).ledger = b.ledger \union {t}
      /\ \A y \in Guids :
           MarkDeleted(b, t).rows[y] = IF y = t /\ There(b, t)
                                       THEN [b.rows[y] EXCEPT !.hidden = "message"] ELSE b.rows[y]
  <2> DEFINE h == IF There(b, t) THEN "message" ELSE b.rows[t].hidden
             e == [b EXCEPT !.ledger = @ \union {t}, !.rows[t].hidden = h]
  <2>1. MarkDeleted(b, t) = e
    BY DEF MarkDeleted
  <2>2. b.rows \in [Guids -> Bubble] /\ b.rows[t] \in Bubble
    BY <1>2, <1>3 DEF DbRecord
  <2>3. h \in {"no", "message", "chat"}
    BY <2>2 DEF Bubble
  <2> HIDE DEF h
  <2>4. [b.rows[t] EXCEPT !.hidden = h] \in Bubble
    BY <2>2, <2>3 DEF Bubble
  <2>5. /\ e.rows = [b.rows EXCEPT ![t] = [b.rows[t] EXCEPT !.hidden = h]]
        /\ e.ledger = b.ledger \union {t} /\ e.alias = b.alias /\ e.queue = b.queue
        /\ e \in DbRecord
    BY <1>2, <1>3, <2>2, <2>4 DEF DbRecord
  <2>6. ~There(b, t) => [b.rows[t] EXCEPT !.hidden = h] = b.rows[t]
    BY <2>2 DEF h, Bubble
  <2>7. There(b, t) => h = "message"
    BY DEF h
  <2> QED
    BY <1>3, <2>1, <2>2, <2>5, <2>6, <2>7
<1>7. \A y \in Guids :
        Discarded(d, x).rows[y] = IF y = t /\ There(d, t)
                                  THEN [d.rows[y] EXCEPT !.hidden = "message"] ELSE d.rows[y]
  BY <1>2, <1>4, <1>5, <1>6
<1> QED
  BY <1>2, <1>3, <1>4, <1>6, <1>7 DEF t

\* A deletion keeps a named bubble in the chat, marked, and ends its ladder with it.
LEMMA DiscardKeeps ==
  ASSUME SendInv, NEW x \in Guids, Discard(x)
  PROVE  SendInv'
<1> DEFINE t == IF There(db, x) THEN x ELSE db.alias
<1>1. Tables(db) /\ RestTyped /\ ServerInv /\ Temp \in Guids
  BY Numbers DEF SendInv
<1>2. /\ db' \in DbRecord /\ t \in Guids /\ (x = Temp => Named(db, t))
      /\ db'.alias = db.alias /\ db'.ledger = db.ledger \union {t}
      /\ db'.queue = IF x = Temp THEN NoQueue ELSE db.queue
      /\ \A y \in Guids :
           db'.rows[y] = IF y = t /\ There(db, t)
                         THEN [db.rows[y] EXCEPT !.hidden = "message"] ELSE db.rows[y]
      /\ t = Temp => x = Temp
  BY <1>1, MarkedFields DEF Discard, Shown
<1>3. \A y \in Guids :
        /\ db'.rows[y].state = db.rows[y].state /\ db'.rows[y].generation = db.rows[y].generation
        /\ db'.rows[y].pending = db.rows[y].pending /\ db'.rows[y].active = db.rows[y].active
        /\ y # t \/ db.rows[y].state = "gone" => db'.rows[y] = db.rows[y]
        /\ y = t /\ db.rows[y].state # "gone" => db'.rows[y].hidden = "message"
        /\ Named(db', y) <=> Named(db, y)
  <2>1. \A y \in Guids : db.rows[y] \in Bubble
    BY <1>1 DEF Tables, DbRecord
  <2> HIDE DEF t
  <2> QED
    BY <1>2, <2>1 DEF There, Bubble, Named
<1> HIDE DEF t
<1>4. Tables(db')
  <2>1. db'.alias # NoGuid => db'.rows[Temp].state = "gone"
    BY <1>1, <1>2, <1>3 DEF Tables
  <2>2. ASSUME NEW y \in Guids
        PROVE  /\ db'.rows[y].state = "gone" => db'.rows[y] = Gone
               /\ ~Named(db', y) => Copy(db'.rows[y])
               /\ db'.rows[y].hidden = "message" => y \in db'.ledger
               /\ Named(db', y) /\ db'.rows[y].state = "sent" => db'.queue = NoQueue
               /\ db'.rows[y].state = "sent" => ~db'.rows[y].pending
    BY <1>1, <1>2, <1>3 DEF Tables, Copy
  <2>3. db'.rows[Temp].hidden = "message" => db'.queue = NoQueue
    BY <1>1, <1>2, <1>3 DEF Tables
  <2> QED
    BY <1>2, <2>1, <2>2, <2>3 DEF Tables
<1>5. Doomed' = Doomed /\ chat = "open" /\ UNCHANGED <<chat, old, request, attempt, heard>>
  BY DEF Discard, Doomed
<1>6. ASSUME NEW y \in Guids, db'.rows[y].state = "sending", db'.rows[y].hidden = "no"
      PROVE  db'.queue # NoQueue
  <2>1. db.rows[y].state = "sending" /\ db.rows[y].hidden = "no" /\ y # t
    BY <1>3, <1>6
  <2>2. db.queue # NoQueue
    BY <1>5, <2>1 DEF SendInv, Recoverable, Doomed
  <2>3. ASSUME x = Temp PROVE FALSE
    <3>1. Named(db, y) /\ Named(db, t)
      BY <1>1, <1>2, <2>1, <2>3, SendingIsNamed
    <3>2. db.rows[t].state = "gone"
      BY <1>1, <1>2, <2>1, <3>1, OneName
    <3>3. ~There(db, x)
      BY <3>2 DEF There, t
    <3>4. t = db.alias /\ y = Temp
      BY <3>1, <3>3, <2>1 DEF t, Named
    <3> QED
      BY <2>1, <2>3, <3>3, <3>4 DEF There
  <2> QED
    BY <1>2, <2>2, <2>3
<1>7. PICK w \in Guids : Named(db', w) /\ db'.rows[w].state # "gone"
  BY <1>3, <1>5 DEF SendInv, OpenInv
<1>8. \A y \in Guids : db'.rows[y].hidden # "chat"
  <2>1. \A y \in Guids : db.rows[y].hidden # "chat"
    BY <1>5 DEF SendInv, OpenInv
  <2> QED
    BY <1>3, <2>1
<1>9. cancelled' => Silent(db')
  <2>1. CASE cancelled
    BY <1>2, <1>3, <2>1 DEF SendInv, Silent
  <2>2. CASE \A y \in Guids : ~Shown(db', y)
    <3>1. \A y \in Guids : db'.rows[y].state # "gone" => db'.rows[y].hidden # "no"
      BY <2>2 DEF Shown, There
    <3>2. db'.rows[w].hidden = "message"
      BY <1>2, <1>7, <1>8, <3>1 DEF DbRecord, Bubble
    <3>3. w \in db'.ledger
      BY <1>4, <3>2 DEF Tables
    <3> QED
      BY <1>7, <3>1, <3>3 DEF Silent, Named
  <2> QED
    BY <2>1, <2>2 DEF Discard
<1>10. OpenInv' /\ Settling(db)'
  <2>1. ASSUME NEW y \in Guids, Named(db', y), db'.rows[y].state # "gone"
        PROVE  Fence(db'.rows[y], request, attempt, heard)
    <3>1. Fence(db.rows[y], request, attempt, heard)
      BY <1>3, <1>5, <2>1 DEF SendInv, Settling
    <3> QED
      BY <1>3, <3>1 DEF Fence, Proven
  <2> QED
    BY <1>5, <1>7, <1>8, <2>1 DEF OpenInv, Settling
<1>11. RestTyped' /\ ServerInv'
  <2>1. cancelled' \in BOOLEAN /\ UNCHANGED <<cycles, crashes>>
    BY <1>1 DEF Discard, RestTyped
  <2> QED
    BY <1>1, <1>5, <2>1 DEF RestTyped, ServerInv, Made
<1>12. Recoverable(db', Doomed')
  BY <1>6 DEF Recoverable
<1> QED
  BY <1>4, <1>9, <1>10, <1>11, <1>12 DEF SendInv

\* The stamp dooms what it finds.
LEMMA DeleteChatKeeps == ASSUME SendInv, DeleteChat PROVE SendInv'
<1>1. Tables(db) /\ RestTyped /\ ServerInv /\ db \in DbRecord
  BY DEF SendInv, Tables
<1>2. /\ db' = Dequeue(db) /\ chat' = "deleting" /\ old' = {x \in Guids : There(db, x)}
      /\ UNCHANGED <<request, attempt, cycles, crashes, heard, cancelled>>
  BY DEF DeleteChat
<1>3. Tables(db') /\ (cancelled' => Silent(db'))
  BY <1>1, <1>2, DequeueKeeps DEF SendInv
<1>4. Recoverable(db', Doomed')
  BY <1>1, <1>2, DequeueFields DEF Recoverable, Doomed, There
<1>5. RestTyped' /\ ServerInv' /\ OpenInv'
  BY <1>1, <1>2 DEF RestTyped, ServerInv, OpenInv, Made
<1>6. Settling(db)'
  <2>1. \A x \in Guids : Named(db', x) <=> Named(db, x)
    BY <1>1, <1>2, DequeueFields DEF Named
  <2>2. db'.rows = db.rows /\ chat = "open" /\ UNCHANGED <<request, attempt, heard>>
    BY <1>1, <1>2, DequeueFields DEF DeleteChat
  <2> QED
    BY <2>1, <2>2 DEF SendInv, Settling
<1> QED
  BY <1>3, <1>4, <1>5, <1>6 DEF SendInv

\* The purge takes what is doomed, and what it leaves was not.
LEMMA PurgeRowsKeeps == ASSUME SendInv, PurgeRows PROVE SendInv'
<1>1. Tables(db) /\ RestTyped /\ ServerInv /\ db \in DbRecord /\ Temp \in Guids
  BY Numbers DEF SendInv, Tables
<1>2. PICK later \in SUBSET (Guids \ (old \union {Temp})) :
        db' = [db EXCEPT !.rows = [x \in Guids |-> IF x \in later THEN db.rows[x] ELSE Gone]]
  BY DEF PurgeRows
<1>3. /\ chat = "deleting" /\ chat' = "deleted"
      /\ UNCHANGED <<old, request, attempt, cycles, crashes, heard, cancelled>>
  BY DEF PurgeRows
<1>4. /\ db' \in DbRecord /\ db'.alias = db.alias /\ db'.ledger = db.ledger
      /\ db'.queue = db.queue
      /\ \A x \in Guids : db'.rows[x] = IF x \in later THEN db.rows[x] ELSE Gone
  BY <1>1, <1>2, Blanks DEF DbRecord
<1>5. Tables(db')
  <2>1. \A x \in Guids : Named(db', x) <=> Named(db, x)
    BY <1>4 DEF Named
  <2>2. db'.rows[Temp] = Gone
    BY <1>1, <1>4
  <2>3. ASSUME NEW y \in Guids
        PROVE  /\ db'.rows[y].state = "gone" => db'.rows[y] = Gone
               /\ ~Named(db', y) => Copy(db'.rows[y])
               /\ db'.rows[y].hidden = "message" => y \in db'.ledger
               /\ Named(db', y) /\ db'.rows[y].state = "sent" => db'.queue = NoQueue
               /\ db'.rows[y].state = "sent" => ~db'.rows[y].pending
    BY <1>1, <1>4, <2>1, Blanks DEF Tables
  <2> QED
    BY <1>4, <2>2, <2>3, Blanks DEF Tables
<1>6. Recoverable(db', Doomed')
  <2>1. ASSUME NEW y \in Guids, db'.rows[y].state = "sending", db'.rows[y].hidden = "no"
        PROVE  db'.queue # NoQueue
    <3>1. y \in later /\ db'.rows[y] = db.rows[y]
      BY <1>4, <2>1, Blanks
    <3>2. y \notin Doomed
      BY <1>2, <1>3, <3>1 DEF Doomed
    <3> QED
      BY <1>4, <2>1, <3>1, <3>2 DEF SendInv, Recoverable
  <2> QED
    BY <2>1 DEF Recoverable
<1>7. cancelled' => Silent(db')
  BY <1>3, <1>4, Blanks DEF SendInv, Silent
<1>8. RestTyped' /\ ServerInv' /\ OpenInv'
  BY <1>1, <1>3 DEF RestTyped, ServerInv, OpenInv, Made
<1>9. Settling(db)'
  <2>1. \A x \in Guids : Named(db', x) <=> Named(db, x)
    BY <1>4 DEF Named
  <2>2. \A x \in Guids : db'.rows[x].state # "gone" => db'.rows[x] = db.rows[x]
    BY <1>4, Blanks
  <2> QED
    BY <1>3, <1>4, <2>1, <2>2 DEF SendInv, Settling
<1> QED
  BY <1>5, <1>6, <1>7, <1>8, <1>9 DEF SendInv
-----------------------------------------------------------------------------
(* The invariant holds. *)

\* It holds when the optimistic insert has committed.
LEMMA SendInit == Init => SendInv
<1> SUFFICES ASSUME Init PROVE SendInv
  OBVIOUS
<1> DEFINE first == [Gone EXCEPT !.state = "sending", !.generation = 1, !.pending = TRUE]
<1>1. 1 \in Generations /\ 1 \in 0 .. MaxGeneration /\ Temp \in Guids /\ Temp # NoGuid
  BY Numbers, BoundsAssumption DEF Generations
<1>2. /\ first \in Bubble /\ first.state = "sending" /\ first.generation = 1 /\ first.pending
      /\ first.active = NoAttempt /\ first.hidden = "no"
  BY <1>1, Blanks DEF Gone, Bubble
<1> HIDE DEF first
<1>3. /\ db.alias = NoGuid /\ db.ledger = {} /\ db.queue \in Ladder
      /\ db = [rows |-> db.rows, alias |-> NoGuid, ledger |-> {}, queue |-> db.queue]
      /\ db.rows = [x \in Guids |-> IF x = Temp THEN first ELSE Gone]
  BY Numbers DEF Init, Ladder, first
<1>4. db \in DbRecord
  <2>1. db.rows \in [Guids -> Bubble]
    BY <1>2, <1>3, Blanks
  <2> QED
    BY <1>3, <2>1 DEF DbRecord
<1>5. Tables(db)
  BY <1>1, <1>2, <1>3, <1>4, Blanks DEF Tables, Named
<1>6. Recoverable(db, Doomed)
  BY <1>3, Blanks DEF Recoverable
<1>7. /\ request = [g \in Generations |->
                      [at |-> IF g = 1 THEN "ready" ELSE "none", answer |-> NoAttempt,
                       before |-> "sending", auto |-> FALSE]]
      /\ attempt = [a \in Attempts |-> [generation |-> 0, copied |-> FALSE, failed |-> "no"]]
      /\ chat = "open" /\ old = {} /\ cycles = 0 /\ crashes = 0 /\ heard = {} /\ cancelled = FALSE
  BY DEF Init
<1>8. RestTyped
  <2>1. request \in [Generations -> RequestRecord]
    BY <1>7, Numbers DEF RequestRecord
  <2>2. attempt \in [Attempts -> AttemptRecord]
    BY <1>7, Numbers DEF AttemptRecord
  <2>3. cycles \in 0 .. MaxCycles /\ crashes \in 0 .. MaxCrashes
    BY <1>7, BoundsAssumption
  <2> QED
    BY <1>7, <2>1, <2>2, <2>3 DEF RestTyped
<1>9. ServerInv
  <2>1. \A a \in Attempts : ~Made(a) /\ (Made(a) <=> a <= 0) /\ ~attempt[a].copied
    BY <1>7, BoundsAssumption DEF Made, Attempts
  <2>2. 0 \in 0 .. MaxServerAttempts
    BY BoundsAssumption
  <2> QED
    BY <1>7, <2>1, <2>2 DEF ServerInv
<1>10. Fence(first, request, attempt, heard)
  BY <1>1, <1>2, <1>7 DEF Fence, Proven, Failed, Generations
<1>11. OpenInv /\ Settling(db)
  BY <1>1, <1>2, <1>3, <1>10, Blanks DEF OpenInv, Settling, Named
<1> QED
  BY <1>5, <1>6, <1>7, <1>8, <1>9, <1>11 DEF SendInv

\* Every step keeps it.
LEMMA SendStep == SendInv /\ [Next]_vars => SendInv'
<1> SUFFICES ASSUME SendInv, [Next]_vars PROVE SendInv'
  OBVIOUS
<1>1. ASSUME NEW g \in Generations, Start(g) PROVE SendInv'
  BY <1>1, StartKeeps
<1>2. ASSUME NEW g \in Generations, Acknowledge(g) PROVE SendInv'
  BY <1>2, AcknowledgeKeeps
<1>3. ASSUME NEW g \in Generations, FailLocally(g) PROVE SendInv'
  BY <1>3, FailLocallyKeeps
<1>4. ASSUME NEW g \in Generations, Abandon(g) PROVE SendInv'
  BY <1>4, AbandonKeeps
<1>5. ASSUME NEW g \in Generations, Defer(g) PROVE SendInv'
  BY <1>5, DeferKeeps
<1>6. ASSUME NEW g \in Generations, Retire(g) PROVE SendInv'
  BY <1>6, RetireKeeps
<1>7. ASSUME NEW g \in Generations, ServerReplays(g) PROVE SendInv'
  BY <1>7, ServerReplaysKeeps
<1>8. ASSUME NEW g \in Generations, ServerAttempts(g) PROVE SendInv'
  BY <1>8, ServerAttemptsKeeps
<1>9. ASSUME NEW a \in Attempts, ServerRelays(a) PROVE SendInv'
  BY <1>9, ServerRelaysKeeps
<1>10. ASSUME NEW a \in Attempts, NEW how \in {"safe", "unsafe"}, ServerFails(a, how)
       PROVE  SendInv'
  BY <1>10, ServerFailsKeeps
<1>11. ASSUME NEW a \in Attempts, DeliverSuccess(a) PROVE SendInv'
  BY <1>11, DeliverSuccessKeeps
<1>12. ASSUME NEW a \in Attempts, DeliverFailure(a) PROVE SendInv'
  BY <1>12, DeliverFailureKeeps
<1>13. CASE Elapse
  BY <1>13, ElapseKeeps
<1>14. CASE Claim
  BY <1>14, ClaimKeeps
<1>15. ASSUME NEW x \in Guids, TryAgain(x) PROVE SendInv'
  BY <1>15, TryAgainKeeps
<1>16. ASSUME NEW x \in Guids, Discard(x) PROVE SendInv'
  BY <1>16, DiscardKeeps
<1>17. CASE DeleteChat
  BY <1>17, DeleteChatKeeps
<1>18. CASE PurgeRows
  BY <1>18, PurgeRowsKeeps
<1>19. CASE Crash
  BY <1>19, CrashKeeps
<1>20. CASE UNCHANGED vars
  <2>1. /\ UNCHANGED <<db, chat, old, cancelled>> /\ RestTyped' /\ ServerInv'
        /\ UNCHANGED <<request, attempt, heard>>
    BY <1>20 DEF vars, SendInv, RestTyped, ServerInv, Made
  <2> QED
    BY <2>1, ElsewhereKeeps
<1> QED
  BY <1>1, <1>2, <1>3, <1>4, <1>5, <1>6, <1>7, <1>8, <1>9, <1>10, <1>11, <1>12, <1>13,
     <1>14, <1>15, <1>16, <1>17, <1>18, <1>19, <1>20 DEF Next, Finish

\* So it holds for ever.
LEMMA SendInvariant == Spec => []SendInv
  BY SendInit, SendStep, PTL DEF Spec
-----------------------------------------------------------------------------
(***************************************************************************)
(* Nothing is stranded (countOutgoingQueueHealth, strandedSending): for    *)
(* every number of requests, attempts, crashes and retries, a visible      *)
(* bubble that says "sending" has a queue row to recover it.               *)
(***************************************************************************)
THEOREM NoBubbleIsStranded == Spec => []NothingStranded
<1>1. ASSUME SendInv PROVE NothingStranded
  BY <1>1 DEF SendInv, Recoverable, Doomed, NothingStranded, Shown, There, HasLadder
<1> QED
  BY <1>1, SendInvariant, PTL

(***************************************************************************)
(* No ladder is an orphan (orphanQueueRows), and every variable has its    *)
(* type: while the chat is there a queue row finds its bubble, and finds   *)
(* it attempt-aware; a message shown as sent has no queue row to send it   *)
(* again.                                                                  *)
(***************************************************************************)
THEOREM LaddersAreOwned == Spec => []LadderHasBubble
<1>1. ASSUME SendInv PROVE LadderHasBubble
  <2> DEFINE o == Owner(db, NoGuid)
  <2>1. Tables(db) /\ RestTyped /\ OpenInv /\ Settling(db)
    BY <1>1 DEF SendInv
  <2>2. TypeOK
    BY <2>1 DEF Tables, DbRecord, Ladder, RestTyped, RequestRecord, AttemptRecord, TypeOK
  <2>3. /\ o = NoGuid \/ (o \in Guids /\ Named(db, o) /\ db.rows[o].state # "gone")
        /\ \A x \in Guids : Named(db, x) /\ db.rows[x].state # "gone" => o = x
    BY <2>1, OwnerIsNamed
  <2>4. ASSUME chat = "open" PROVE o # NoGuid /\ db.rows[o].generation > 0
    <3>1. o \in Guids /\ Fence(db.rows[o], request, attempt, heard)
      BY <2>1, <2>3, <2>4, Numbers DEF OpenInv, Settling
    <3> QED
      BY <3>1, Numbers, BoundsAssumption DEF Fence, Generations
  <2>5. HasLadder(db) /\ o # NoGuid => db.rows[o].state # "sent"
    BY <2>1, <2>3 DEF Tables, HasLadder
  <2> QED
    BY <2>2, <2>4, <2>5 DEF LadderHasBubble
<1> QED
  BY <1>1, SendInvariant, PTL

(***************************************************************************)
(* Cancelling is final (markMessageDeleted, discardOutgoing): a message    *)
(* whose last bubble a discard took shows none again, and a deleted        *)
(* optimistic bubble has no ladder again, whatever arrives later.          *)
(***************************************************************************)
THEOREM CancellingIsFinal == Spec => []CancelledIsFinal
<1>1. ASSUME SendInv PROVE CancelledIsFinal
  BY <1>1 DEF SendInv, Tables, Silent, CancelledIsFinal, Shown, There, HasLadder
<1> QED
  BY <1>1, SendInvariant, PTL

(***************************************************************************)
(* A reported failure sticks (reconcileExactOutgoingAttemptSuccessCore,    *)
(* applyServerSendError): only a newer generation turns the bubble of a    *)
(* failed attempt to sent, in whatever order answer, echo and failure      *)
(* arrive.                                                                 *)
(***************************************************************************)
THEOREM FailuresStick == Spec => []FailureSticks
<1>1. ASSUME SendInv PROVE FailureSticks
  <2>1. SUFFICES ASSUME chat = "open", NEW x \in Guids, db.rows[x].state = "sent",
                        db.rows[x].active \in heard
                 PROVE  attempt[db.rows[x].active].generation < db.rows[x].generation
    BY DEF FailureSticks
  <2>2. db.rows[x].active # NoAttempt
    BY <1>1, <2>1, Numbers DEF SendInv, RestTyped
  <2>3. Named(db, x)
    BY <1>1, <2>2 DEF SendInv, Tables, Copy
  <2> QED
    BY <1>1, <2>1, <2>3 DEF SendInv, Settling, Fence
<1> QED
  BY <1>1, SendInvariant, PTL

(***************************************************************************)
(* "Sent" is proven, with the chat there or deleted: the server made an    *)
(* attempt for the row's own generation, or answered its request, or the   *)
(* row still carries the failed attempt whose echo came after a withdrawn  *)
(* claim (reconcileOutgoingAttemptAck, Stale).                             *)
(***************************************************************************)
THEOREM SentMeansAttempted == Spec => []SentIsProven
<1>1. ASSUME SendInv PROVE SentIsProven
  <2>1. SUFFICES ASSUME NEW x \in Guids, db.rows[x].state = "sent",
                        db.rows[x].generation > 0
                 PROVE  Proven(db.rows[x], request, attempt, heard)
    BY DEF SentIsProven, Proven, Made
  <2>2. Named(db, x)
    BY <1>1, <2>1 DEF SendInv, Tables, Copy
  <2> QED
    BY <1>1, <2>1, <2>2 DEF SendInv, Settling, Fence, Spent
<1> QED
  BY <1>1, SendInvariant, PTL
=============================================================================
