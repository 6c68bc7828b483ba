------------------------ MODULE IncomingJournalProofs ------------------------
(***************************************************************************)
(* What IncomingJournal guarantees for every set of events and ordering    *)
(* keys and every bound on attempts, capacities, callbacks and upsets:     *)
(* no domain write follows the commit that applies an event, all are made  *)
(* in the order of arrival and that one by the owner of the row, nothing   *)
(* is presented before it, nothing is completed that was not dealt with,   *)
(* and the account's own flights leave no row without a wake.              *)
(***************************************************************************)
EXTENDS IncomingJournal, FiniteSetTheorems, TLAPS

Table == [Event -> Row \cup {Absent}]

Live(t)     == {e \in Event : t[e] # Absent}
LoggedIn(l) == {l[i].event : i \in {j \in DOMAIN l : l[j].applied}}

-----------------------------------------------------------------------------
(* The inductive invariant. *)

(* The rows: a lease was an attempt, a receipt is what is not pending, and *)
(* ids go up as tickets do.                                                *)
RowOK(t, n) ==
  /\ \A e \in Live(t) :
       /\ t[e].token # NoToken => t[e].attempts >= 1
       /\ t[e].state = "pending" <=> t[e].receipt = "none"
       /\ t[e].id < n
  /\ \A d, e \in Live(t) : d # e => t[d].id # t[e].id
  /\ \A d, e \in Live(t) : t[d].id < t[e].id => t[d].ticket < t[e].ticket

(* An event that was applied (it is in L) still has its row, which says    *)
(* so, or can no longer be redelivered: no receipt is evicted before its   *)
(* event has expired (it is in x).  What was presented or turned away is   *)
(* in D.                                                                   *)
OnceOK(t, x, L, D) ==
  /\ \A e \in L : e \in x \/ (t[e] # Absent /\ (t[e].state = "pending" => t[e].applied))
  /\ \A e \in Live(t) :
       /\ t[e].receipt = "evictable" => e \in x
       /\ e \in x => t[e].state # "pending"
       /\ t[e].applied => e \in L
       /\ t[e].state = "completed" => e \in D

(* The row of whatever has committed is there until the event expires, and *)
(* a row that is still to be applied is newer than the log of its key, but *)
(* for what was committed of itself.                                       *)
LogOK(t, l, x) ==
  /\ \A i \in DOMAIN l :
       l[i].event \in x \/ (t[l[i].event] # Absent /\ t[l[i].event].ticket = l[i].ticket)
  /\ \A e \in Live(t), i \in DOMAIN l :
       t[e].state = "pending" /\ ~t[e].applied /\ OrderOf[l[i].event] = OrderOf[e]
         => l[i].ticket < t[e].ticket \/ l[i].event = e

(* What waits in the intake is newer than the table and the log, and what  *)
(* arrives is newer than all of it.                                        *)
IntakeOK(t, l, q, c) ==
  /\ \A i, j \in DOMAIN q : i < j => q[i].ticket < q[j].ticket
  /\ \A i \in DOMAIN q :
       /\ q[i].ticket <= c
       /\ \A e \in Live(t) : t[e].ticket < q[i].ticket
       /\ \A j \in DOMAIN l : l[j].ticket < q[i].ticket
  /\ \A e \in Live(t) : t[e].ticket <= c
  /\ \A j \in DOMAIN l : l[j].ticket <= c

(* What the delivery d may still commit, with or without its lease: it has *)
(* not been applied, and everything else of its key that was committed is  *)
(* older, and everything still to be applied newer.                        *)
CommitOK(d, t, l, x, q, c) ==
  d # Nothing /\ d.phase = "apply" =>
    /\ d.event \notin LoggedIn(l)
    /\ d.event \in x \/ (t[d.event] # Absent /\ t[d.event].ticket = d.ticket)
    /\ \A i \in DOMAIN l : l[i].event = d.event => l[i].ticket = d.ticket
    /\ \A i \in DOMAIN l : OrderOf[l[i].event] = OrderOf[d.event]
                             => l[i].ticket < d.ticket \/ l[i].event = d.event
    /\ \A e \in Live(t) :
         /\ t[e].state = "pending" /\ ~t[e].applied /\ OrderOf[e] = OrderOf[d.event]
         /\ e # d.event
         => d.ticket < t[e].ticket
    /\ d.ticket <= c /\ \A i \in DOMAIN q : d.ticket < q[i].ticket

(* What the delivery d is about to present has been applied, or its flight *)
(* has latched that its guard was closed (rv); where it ended, the event   *)
(* was presented (it is in S) or turned away (in T).                       *)
DeliveryOK(d, L, S, T, rv) ==
  d # Nothing =>
    /\ d.phase = "present" => rv \/ d.event \in L
    /\ d.phase = "returned" => d.event \in S
    /\ d.phase = "refused" => d.event \in T

(* Only a flight delivers and latches, and what passed its deadline is     *)
(* revoked; there are no more such handlers than upsets, so a lease token  *)
(* is always left.                                                         *)
HandlersOK ==
  /\ delivery # Nothing => flight.at = "delivering"
  /\ flight.at = "idle" => ~revoked
  /\ \A a \in detached : ~a.live
  /\ IsFiniteSet(detached) /\ Cardinality(detached) <= upsets

(* While the last flight and all admissions since were the account's, a    *)
(* flight that saw its guard closed, or that is about to arm no timer      *)
(* beside a pending row, is followed by a kick of the account.             *)
Followed == wanted \/ "account" \in kicking
WakeOK ==
  last = "account" =>
    /\ flight.at # "idle" => flight.context = "account"
    /\ mode = "foreground" /\ flight.at # "idle" /\ revoked => Followed
    /\ mode = "foreground" /\ flight.at = "arming" /\ ~flight.wake
         /\ Pending(row) # {} => Followed

TableInv ==
  /\ RowOK(row, nextId)
  /\ OnceOK(row, expired, LoggedIn(log), shown \cup turned)
  /\ LogOK(row, log, expired)
  /\ IntakeOK(row, log, intake, copies)
  /\ shown \subseteq LoggedIn(log)
  /\ AppliedLast /\ AppliesInArrivalOrder

FlightInv ==
  /\ DeliveryOK(delivery, LoggedIn(log), shown, turned, revoked)
  /\ CommitOK(delivery, row, log, expired, intake, copies)
  /\ HandlersOK

WakeInv == WakeOK /\ AccountFlightsWake

JournalInv == TypeOK /\ TableInv /\ FlightInv /\ WakeInv

-----------------------------------------------------------------------------
(* How a table may wear. *)

(* A row that goes on, or ends; it is completed only when e is in D.       *)
Later(e, r, s, D) ==
  /\ s.id = r.id /\ s.ticket = r.ticket /\ s.applied = r.applied
  /\ s.state = "pending" => r.state = "pending"
  /\ s.state = "completed" => r.state = "completed" \/ e \in D
  /\ s.state = "pending" <=> s.receipt = "none"
  /\ s.receipt = "evictable" => r.receipt = "evictable"
  /\ s.token # NoToken => s.attempts >= 1

(* A row leaves the table only when its receipt may be evicted. *)
Wears(t, u, D) ==
  \A e \in Event :
    \/ u[e] = t[e]
    \/ t[e] # Absent /\ u[e] = Absent /\ t[e].receipt = "evictable"
    \/ t[e] # Absent /\ u[e] # Absent /\ Later(e, t[e], u[e], D)

(* Of some rows one has the least id. *)
LEMMA LeastId ==
  ASSUME NEW S \in SUBSET Event, S # {}, NEW t, \A s \in S : t[s].id \in Nat
  PROVE  \E s \in S : \A d \in S : ~(t[d].id < t[s].id)
<1> DEFINE Below(s) == {d \in S : t[d].id < t[s].id}
           Belows == {Below(s) : s \in S}
<1>0. IsFiniteSet(S)
  BY JournalAssumption, FS_Subset
<1>1. Belows \subseteq SUBSET S /\ Belows # {}
  OBVIOUS
<1>2. IsWellFoundedOn(StrictSubsetOrdering(S), SUBSET S)
  BY <1>0, FS_FiniteSubsetsOfFinite, FS_StrictSubsetOrderingWellFounded
<1>3. PICK B \in Belows : \A C \in Belows : ~(<<C, B>> \in StrictSubsetOrdering(S))
  <2> HIDE DEF Belows
  <2> QED
    BY <1>1, <1>2, WFMin
<1>4. PICK s \in S : B = Below(s)
  OBVIOUS
<1> SUFFICES ASSUME NEW d \in S, t[d].id < t[s].id PROVE FALSE
  OBVIOUS
<1>5. /\ Below(d) \subseteq Below(s) /\ d \in Below(s) /\ d \notin Below(d)
      /\ Below(d) \in SUBSET S /\ Below(s) \in SUBSET S /\ Below(d) \in Belows
  OBVIOUS
<1>6. <<Below(d), Below(s)>> \in StrictSubsetOrdering(S)
  <2> HIDE DEF Below
  <2> QED
    BY <1>5 DEF StrictSubsetOrdering
<1> QED
  BY <1>3, <1>4, <1>5, <1>6

(* Where a row is pending, some row is the head of its ordering key.       *)
LEMMA SomeHead ==
  ASSUME NEW t \in Table, Pending(t) # {} PROVE Heads(t) # {}
<1> DEFINE U == {e \in Pending(t) : ~t[e].applied}
<1>1. \A e \in Pending(t) : e \in Event /\ t[e].id \in Nat /\ t[e].applied \in BOOLEAN
  BY DEF Pending, Is, Table, Row
<1>2. CASE U # {}
  <2>1. PICK u \in U : \A d \in U : ~(t[d].id < t[u].id)
    BY <1>1, <1>2, LeastId
  <2>2. Head1(t, u) /\ Head2(t, u)
    BY <2>1 DEF Head1, Head2, Older
  <2> QED
    BY <2>1, <2>2 DEF Heads
<1>3. CASE U = {}
  <2>1. PICK u \in Pending(t) : \A d \in Pending(t) : ~(t[d].id < t[u].id)
    BY <1>1, LeastId
  <2>2. Head1(t, u) /\ Head2(t, u)
    BY <1>3, <2>1 DEF Head1, Head2, Older
  <2> QED
    BY <2>1, <2>2 DEF Heads
<1> QED
  BY <1>2, <1>3

(* A table that wears loses no guard: everything about its rows holds on.  *)
LEMMA WearsKeeps ==
  ASSUME NEW t \in Table, NEW u \in Table, NEW n, NEW x, NEW L \in SUBSET Event,
         NEW D, Wears(t, u, D), RowOK(t, n), OnceOK(t, x, L, D)
  PROVE  /\ RowOK(u, n) /\ OnceOK(u, x, L, D)
         /\ Live(u) \subseteq Live(t) /\ Pending(u) \subseteq Pending(t)
         /\ \A e \in Live(u) : /\ u[e].id = t[e].id /\ u[e].ticket = t[e].ticket
                               /\ u[e].applied = t[e].applied
<1>1. /\ Live(u) \subseteq Live(t) /\ Pending(u) \subseteq Pending(t)
      /\ \A e \in Live(u) : /\ u[e].id = t[e].id /\ u[e].ticket = t[e].ticket
                            /\ u[e].applied = t[e].applied
  BY DEF Wears, Later, Live, Pending, Is
<1>2. RowOK(u, n)
  <2>1. ASSUME NEW e \in Live(u)
        PROVE  /\ u[e].token # NoToken => u[e].attempts >= 1
               /\ u[e].state = "pending" <=> u[e].receipt = "none"
               /\ u[e].id < n
    BY <1>1, <2>1 DEF Wears, Later, Live, RowOK
  <2> QED
    BY <1>1, <2>1 DEF RowOK
<1>3. OnceOK(u, x, L, D)
  <2>1. ASSUME NEW e \in L, e \notin x
        PROVE  u[e] # Absent /\ (u[e].state = "pending" => u[e].applied)
    BY <2>1 DEF OnceOK, Wears, Later, Live
  <2>2. ASSUME NEW e \in Live(u)
        PROVE  /\ u[e].receipt = "evictable" => e \in x
               /\ e \in x => u[e].state # "pending"
               /\ u[e].applied => e \in L
               /\ u[e].state = "completed" => e \in D
    BY <1>1, <2>2 DEF Wears, Later, Live, OnceOK
  <2> QED
    BY <2>1, <2>2 DEF OnceOK
<1> QED
  BY <1>1, <1>2, <1>3

(* Neither the log nor a delivery is worse off.                            *)
LEMMA WearsLog ==
  ASSUME NEW t \in Table, NEW u \in Table, NEW D, Wears(t, u, D), NEW x, NEW L,
         OnceOK(t, x, L, D), NEW l, NEW q, NEW c, NEW d \in Attempt \cup {Nothing},
         \A i \in DOMAIN l : l[i].event \in Event
  PROVE  /\ LogOK(t, l, x) => LogOK(u, l, x)
         /\ IntakeOK(t, l, q, c) => IntakeOK(u, l, q, c)
         /\ CommitOK(d, t, l, x, q, c) => CommitOK(d, u, l, x, q, c)
<1>1. /\ Live(u) \subseteq Live(t)
      /\ \A e \in Live(u) : /\ u[e].ticket = t[e].ticket /\ u[e].applied = t[e].applied
                            /\ u[e].state = "pending" => t[e].state = "pending"
  BY DEF Wears, Later, Live
<1>2. \A e \in Event : e \in x \/ t[e] = Absent \/ (u[e] # Absent /\ u[e].ticket = t[e].ticket)
  BY DEF Wears, Later, Live, OnceOK
<1>3. d # Nothing => d.event \in Event
  BY DEF Attempt
<1>4. LogOK(t, l, x) => LogOK(u, l, x)
  BY <1>1, <1>2 DEF LogOK
<1>5. IntakeOK(t, l, q, c) => IntakeOK(u, l, q, c)
  BY <1>1 DEF IntakeOK
<1>6. CommitOK(d, t, l, x, q, c) => CommitOK(d, u, l, x, q, c)
  BY <1>1, <1>2, <1>3 DEF CommitOK
<1> QED
  BY <1>4, <1>5, <1>6

LEMMA WearsOn ==
  ASSUME NEW t \in Table, NEW u \in Table, NEW v \in Table, NEW D,
         Wears(t, u, D), Wears(u, v, D)
  PROVE  Wears(t, v, D)
  BY DEF Wears, Later

-----------------------------------------------------------------------------
(* What the operations on the table do to it. *)

LEMMA SpentRow ==
  ASSUME NEW r \in Row, NEW s \in {"completed", "poisoned"}
  PROVE  /\ Spent(r, s) \in Row
         /\ Spent(r, s).id = r.id /\ Spent(r, s).ticket = r.ticket
         /\ Spent(r, s).applied = r.applied /\ Spent(r, s).state = s
         /\ Spent(r, s).token = NoToken /\ Spent(r, s).receipt = "guarding"
  BY DEF Spent, Row

LEMMA SpentLater ==
  ASSUME NEW r \in Row, r.state = "pending", NEW s \in {"completed", "poisoned"},
         NEW D, NEW e, s = "completed" => e \in D
  PROVE  Later(e, r, Spent(r, s), D)
  BY SpentRow DEF Later

LEMMA TerminalizedWears ==
  ASSUME NEW t \in Table, NEW D
  PROVE  Terminalized(t) \in Table /\ Wears(t, Terminalized(t), D)
<1> DEFINE u == Terminalized(t)
<1>1. ASSUME NEW e \in Event
      PROVE  /\ u[e] \in Row \cup {Absent}
             /\ \/ u[e] = t[e]
                \/ /\ t[e] # Absent /\ t[e].state = "pending" /\ u[e] = Spent(t[e], "poisoned")
                   /\ u[e] \in Row /\ u[e].state = "poisoned" /\ Later(e, t[e], u[e], D)
  <2>1. u[e] = IF Is(t, e, "pending") /\ ~t[e].leased /\ (t[e].late \/ Exhausted(t[e]))
               THEN Spent(t[e], "poisoned") ELSE t[e]
    BY DEF Terminalized
  <2>2. t[e] \in Row \cup {Absent}
    BY DEF Table
  <2>3. CASE Is(t, e, "pending")
    <3>1. t[e] \in Row /\ t[e].state = "pending"
      BY <2>2, <2>3 DEF Is
    <3> QED
      BY <2>1, <3>1, SpentRow, SpentLater, NoRecords DEF Table
  <2> QED
    BY <2>1, <2>2, <2>3
<1>2. u \in Table
  BY <1>1 DEF Table, Terminalized
<1>3. Wears(t, u, D)
  BY <1>1, NoRecords DEF Wears
<1> QED
  BY <1>2, <1>3

LEMMA TrimmedWears ==
  ASSUME NEW t \in Table, NEW u \in Trimmed(t), NEW D
  PROVE  u \in Table /\ Wears(t, u, D)
<1>1. PICK R \in SUBSET Evictable(t) : u = [e \in Event |-> IF e \in R THEN Absent ELSE t[e]]
  BY DEF Trimmed
<1>2. \A e \in Event : e \in R => t[e] # Absent /\ t[e].receipt = "evictable"
  BY DEF Evictable
<1>3. \A e \in Event : u[e] = IF e \in R THEN Absent ELSE t[e]
  BY <1>1
<1>4. u \in Table
  BY <1>1 DEF Table
<1> QED
  BY <1>2, <1>3, <1>4 DEF Wears

LEMMA MaintainedWears ==
  ASSUME NEW t \in Table, NEW u \in Maintained(t), NEW D
  PROVE  u \in Table /\ Wears(t, u, D)
<1>1. Terminalized(t) \in Table /\ Wears(t, Terminalized(t), D)
  BY TerminalizedWears
<1>2. u \in Table /\ Wears(Terminalized(t), u, D)
  BY <1>1, TrimmedWears DEF Maintained
<1> QED
  BY <1>1, <1>2, WearsOn

LEMMA MadeRoomWears ==
  ASSUME NEW t \in Table, NEW u \in MadeRoom(t), NEW D
  PROVE  /\ u \in Table /\ Wears(t, u, D)
         /\ \A e \in Event : t[e] = Absent => u[e] = Absent
<1>1. CASE u = t
  BY <1>1 DEF Wears
<1>2. CASE \E e \in Evictable(t) : u = [t EXCEPT ![e] = Absent]
  <2>1. PICK d \in Evictable(t) : u = [t EXCEPT ![d] = Absent]
    BY <1>2
  <2>2. d \in Event /\ t[d] # Absent /\ t[d].receipt = "evictable"
    BY <2>1 DEF Evictable
  <2>3. \A e \in Event : u[e] = IF e = d THEN Absent ELSE t[e]
    BY <2>1 DEF Table
  <2>4. u \in Table
    BY <2>1 DEF Table
  <2> QED
    BY <2>2, <2>3, <2>4 DEF Wears
<1> QED
  BY <1>1, <1>2 DEF MadeRoom

(* One row goes on or ends. *)
LEMMA OneLater ==
  ASSUME NEW t \in Table, NEW e \in Event, NEW s \in Row, NEW D,
         t[e] # Absent, Later(e, t[e], s, D)
  PROVE  [t EXCEPT ![e] = s] \in Table /\ Wears(t, [t EXCEPT ![e] = s], D)
<1> DEFINE u == [t EXCEPT ![e] = s]
<1>1. u \in Table /\ \A d \in Event : u[d] = IF d = e THEN s ELSE t[d]
  BY DEF Table
<1>2. Wears(t, u, D)
  BY <1>1, NoRecords DEF Wears
<1> QED
  BY <1>1, <1>2

(* A settlement. *)
LEMMA SettledWears ==
  ASSUME row \in Table, delivery \in Attempt, NEW r, NEW terminal \in BOOLEAN,
         NEW u \in Settled(r, terminal), NEW D,
         Owns(delivery) => r \in Row /\ Later(delivery.event, row[delivery.event], r, D)
  PROVE  u \in Table /\ Wears(row, u, D)
<1> DEFINE e == delivery.event
           t == [row EXCEPT ![e] = r]
<1>0. e \in Event /\ Wears(row, row, D)
  BY DEF Attempt, Wears
<1>1. CASE ~Owns(delivery)
  BY <1>0, <1>1, TrimmedWears DEF Settled
<1>2. CASE Owns(delivery)
  <2>1. row[e] # Absent
    BY <1>2 DEF Owns, Is
  <2>2. t \in Table /\ Wears(row, t, D)
    BY <1>0, <1>2, <2>1, OneLater
  <2>3. u = t \/ u \in Trimmed(t)
    BY <1>2 DEF Settled
  <2> HIDE DEF t
  <2>4. CASE u \in Trimmed(t)
    BY <2>2, <2>4, TrimmedWears, WearsOn
  <2> QED
    BY <2>2, <2>3, <2>4
<1> QED
  BY <1>1, <1>2

(* A lease token is left for the next claim. *)
LEMMA TokenLeft ==
  ASSUME NEW t \in Table, IsFiniteSet(detached), Cardinality(detached) <= upsets,
         upsets \in 0 .. MaxUpsets
  PROVE  \E k \in Token : k \notin TokensInUse(t)
<1> DEFINE A == {t[e].token : e \in {d \in Event : t[d] # Absent}}
           B == {a.token : a \in detached}
           R == {d \in Event : t[d] # Absent}
           f == [e \in R |-> t[e].token]
           g == [a \in detached |-> a.token]
<1>1. /\ IsFiniteSet(R) /\ Cardinality(R) <= Cardinality(Event)
  BY JournalAssumption, FS_Subset
<1>2. f \in Surjection(R, A) /\ g \in Surjection(detached, B)
  BY DEF Surjection
<1>3. /\ IsFiniteSet(A) /\ Cardinality(A) <= Cardinality(R)
      /\ IsFiniteSet(B) /\ Cardinality(B) <= Cardinality(detached)
  BY <1>1, <1>2, FS_Surjection
<1>4. /\ IsFiniteSet(A \cup B)
      /\ Cardinality(A \cup B) = Cardinality(A) + Cardinality(B) - Cardinality(A \cap B)
      /\ IsFiniteSet(A \cap B)
  BY <1>3, FS_Union, FS_Intersection
<1>5. /\ Cardinality(A) \in Nat /\ Cardinality(B) \in Nat /\ Cardinality(A \cap B) \in Nat
      /\ Cardinality(R) \in Nat /\ Cardinality(Event) \in Nat
      /\ Cardinality(detached) \in Nat /\ Cardinality(Token) \in Nat
      /\ Cardinality(A \cup B) \in Nat
  BY <1>1, <1>3, <1>4, JournalAssumption, FS_CardinalityType
<1>6. Cardinality(A \cup B) < Cardinality(Token)
  <2> HIDE DEF A, B, R
  <2> QED
    BY <1>1, <1>3, <1>4, <1>5, JournalAssumption
<1>7. ~(Token \subseteq A \cup B)
  <2> HIDE DEF A, B
  <2> QED
    BY <1>4, <1>5, <1>6, FS_Subset
<1> QED
  BY <1>7 DEF TokensInUse

-----------------------------------------------------------------------------
(* What is kept by actions that leave most alone. *)

LEMMA Typed ==
  ASSUME TypeOK
  PROVE  /\ row \in Table /\ nextId \in Nat
         /\ LoggedIn(log) \in SUBSET Event
         /\ \A i \in DOMAIN log : /\ log[i].ticket \in Nat /\ log[i].event \in Event
                                  /\ log[i].applied \in BOOLEAN
         /\ \A e \in Live(row) : row[e] \in Row
         /\ \A i \in DOMAIN intake : intake[i] \in Arrival
<1>1. row \in Table /\ nextId \in Nat
  BY DEF TypeOK, Table
<1>2. \A i \in DOMAIN log : log[i] \in Commit
  BY DEF TypeOK
<1>3. \A i \in DOMAIN intake : intake[i] \in Arrival
  BY DEF TypeOK
<1>4. \A e \in Live(row) : row[e] \in Row
  BY <1>1 DEF Table, Live
<1> QED
  BY <1>1, <1>2, <1>3, <1>4 DEF LoggedIn, Commit

LEMMA TableFrame ==
  ASSUME TableInv,
         UNCHANGED <<row, nextId, intake, copies, expired, log, shown, turned>>
  PROVE  TableInv'
  BY DEF TableInv, AppliedLast, AppliesInArrivalOrder

LEMMA TableWears ==
  ASSUME TypeOK, TableInv, row' \in Table, Wears(row, row', shown \cup turned),
         UNCHANGED <<nextId, intake, copies, expired, log, shown, turned>>
  PROVE  TableInv' /\ Pending(row') \subseteq Pending(row)
<1>1. /\ row \in Table /\ LoggedIn(log) \in SUBSET Event /\ delivery \in Attempt \cup {Nothing}
      /\ \A i \in DOMAIN log : log[i].event \in Event
  BY Typed DEF TypeOK
<1>2. /\ RowOK(row', nextId) /\ OnceOK(row', expired, LoggedIn(log), shown \cup turned)
      /\ Pending(row') \subseteq Pending(row)
  BY <1>1, WearsKeeps DEF TableInv
<1>3. LogOK(row', log, expired) /\ IntakeOK(row', log, intake, copies)
  BY <1>1, WearsLog DEF TableInv
<1>4. AppliedLast' /\ AppliesInArrivalOrder' /\ shown \subseteq LoggedIn(log)
  BY DEF TableInv, AppliedLast, AppliesInArrivalOrder
<1> QED
  BY <1>2, <1>3, <1>4 DEF TableInv

(* ... and the delivery that it leaves alone keeps what it needs.          *)
LEMMA CommitWears ==
  ASSUME TypeOK, TableInv, FlightInv, row' \in Table, Wears(row, row', shown \cup turned),
         UNCHANGED <<delivery, log, expired, intake, copies>>
  PROVE  CommitOK(delivery, row', log, expired, intake, copies)
<1>1. /\ row \in Table /\ LoggedIn(log) \in SUBSET Event /\ delivery \in Attempt \cup {Nothing}
      /\ \A i \in DOMAIN log : log[i].event \in Event
  BY Typed DEF TypeOK
<1> QED
  BY <1>1, WearsLog DEF TableInv, FlightInv

(* A flight ends: the wake that was asked for follows. *)
LEMMA EndedFlight ==
  ASSUME TypeOK, WakeInv, NEW limit \in BOOLEAN, EndFlight(limit), flight.at # "idle",
         UNCHANGED <<mode, last>>, Pending(row') \subseteq Pending(row),
         mode = "foreground" /\ last = "account" /\ Pending(row) # {}
           => limit \/ Followed \/ timer' = "account"
  PROVE  WakeInv' /\ flight' = Grounded /\ revoked' = FALSE /\ wanted' = FALSE
         /\ kicking' \in SUBSET Context
<1>1. flight'.at = "idle" /\ revoked' = FALSE /\ flight' = Grounded /\ wanted' = FALSE
  BY DEF EndFlight, Grounded
<1>2. kicking' \in SUBSET Context
  BY DEF TypeOK, EndFlight, Context
<1>3. WakeOK'
  BY <1>1 DEF WakeOK
<1>4. AccountFlightsWake'
  <2> SUFFICES ASSUME mode = "foreground", last = "account", Pending(row) # {},
                      timer' # "account"
               PROVE  "account" \in kicking'
    BY DEF AccountFlightsWake, Waking
  <2>1. flight.context = "account"
    BY DEF WakeInv, WakeOK
  <2>2. limit \/ wanted \/ "account" \in kicking
    BY DEF Followed
  <2> QED
    BY <2>1, <2>2 DEF EndFlight, CanScheduleWake
<1> QED
  BY <1>1, <1>2, <1>3, <1>4 DEF WakeInv

LEMMA Idle ==
  Grounded \in [at : {"idle", "claiming", "looking", "arming", "delivering"},
                context : Context \cup {"gone"}, wake : BOOLEAN]
  BY DEF Grounded, Context

-----------------------------------------------------------------------------
(* The intake and the wakes. *)

LEMMA ReceiveStep ==
  ASSUME JournalInv, NEW e \in Event, Receive(e) PROVE JournalInv'
<1>1. PICK c \in {"account", "bounded"} :
        /\ bounded' = (bounded \/ c = "bounded")
        /\ intake' = Append(intake, [event |-> e, ticket |-> copies + 1, context |-> c,
                                    locked |-> mode = "locked"])
  BY DEF Receive
<1> DEFINE a == [event |-> e, ticket |-> copies + 1, context |-> c, locked |-> mode = "locked"]
<1>2. TypeOK /\ TableInv /\ FlightInv /\ WakeInv
  BY DEF JournalInv
<1>3. copies \in Nat /\ copies' = copies + 1 /\ copies' \in 0 .. MaxCopies
  BY <1>2, JournalAssumption DEF TypeOK, Receive
<1>4. a \in Arrival /\ intake \in Seq(Arrival)
  BY <1>2, <1>3 DEF Arrival, Context, TypeOK
<1>5. /\ intake' \in Seq(Arrival) /\ Len(intake') = Len(intake) + 1
      /\ \A i \in DOMAIN intake' : intake'[i] = IF i = Len(intake) + 1 THEN a ELSE intake[i]
      /\ DOMAIN intake' = 1 .. Len(intake) + 1 /\ DOMAIN intake = 1 .. Len(intake)
      /\ Len(intake) \in Nat
  <2> HIDE DEF a
  <2> QED
    BY <1>1, <1>4 DEF a
<1>6. TypeOK'
  BY <1>1, <1>2, <1>3, <1>5 DEF TypeOK, Receive, tableVars, flightVars, wakeVars, histVars
<1>7. IntakeOK(row, log, intake', copies')
  <2>1. /\ \A x \in Live(row) : row[x].ticket \in Nat
        /\ \A i \in DOMAIN log : log[i].ticket \in Nat
        /\ \A i \in DOMAIN intake : intake[i].ticket \in Nat
    BY <1>2, Typed DEF Row, Arrival
  <2>2. a.ticket = copies + 1
    OBVIOUS
  <2>3. IntakeOK(row, log, intake, copies)
    BY <1>2 DEF TableInv
  <2> HIDE DEF a
  <2> QED
    BY <1>3, <1>5, <2>1, <2>2, <2>3 DEF IntakeOK
<1>8. TableInv'
  BY <1>2, <1>7 DEF TableInv, AppliedLast, AppliesInArrivalOrder, Receive, tableVars, histVars
<1>9. CommitOK(delivery, row, log, expired, intake', copies')
  <2>1. CommitOK(delivery, row, log, expired, intake, copies)
    BY <1>2 DEF FlightInv
  <2>2. delivery # Nothing => delivery.ticket \in Nat
    BY <1>2 DEF TypeOK, Attempt
  <2>3. a.ticket = copies + 1
    OBVIOUS
  <2> HIDE DEF a
  <2> QED
    BY <1>3, <1>5, <2>1, <2>2, <2>3 DEF CommitOK
<1>10. FlightInv' /\ WakeInv'
  BY <1>2, <1>9 DEF FlightInv, WakeInv, HandlersOK, WakeOK, AccountFlightsWake, Waking, Followed,
     Receive, tableVars, flightVars, wakeVars, histVars
<1> QED
  BY <1>6, <1>8, <1>10 DEF JournalInv

LEMMA KickStep ==
  ASSUME JournalInv, NEW c \in Context, Kick(c) PROVE JournalInv'
<1>1. TypeOK /\ TableInv /\ FlightInv /\ WakeInv
  BY DEF JournalInv
<1>2. kicking' = kicking \ {c} /\ kicking' \in SUBSET Context
  BY <1>1 DEF Kick, TypeOK
<1>3. /\ UNCHANGED <<row, nextId, intake, copies, expired, log, shown, turned>>
      /\ UNCHANGED <<revoked, delivery, detached, mode, bounded, provider, upsets, retryOwed>>
  BY DEF Kick, tableVars, hostVars, inputVars
<1>4. TableInv'
  BY <1>1, <1>3, TableFrame
<1>5. CASE mode = "locked"
  <2>1. UNCHANGED <<flight, wanted, timer, last>>
    BY <1>5 DEF Kick
  <2>2. TypeOK' /\ FlightInv'
    BY <1>1, <1>2, <1>3, <2>1 DEF TypeOK, FlightInv, HandlersOK
  <2>3. WakeInv'
    BY <1>1, <1>3, <1>5, <2>1 DEF WakeInv, WakeOK, AccountFlightsWake
  <2> QED
    BY <1>4, <2>2, <2>3 DEF JournalInv
<1>6. CASE mode # "locked" /\ flight.at # "idle"
  <2>1. wanted' = TRUE /\ UNCHANGED <<flight, timer, last>>
    BY <1>6 DEF Kick, Joined
  <2>2. TypeOK' /\ FlightInv'
    BY <1>1, <1>2, <1>3, <2>1 DEF TypeOK, FlightInv, HandlersOK
  <2>3. WakeInv'
    BY <1>1, <1>3, <1>6, <2>1 DEF WakeInv, WakeOK, Followed, AccountFlightsWake, Waking
  <2> QED
    BY <1>4, <2>2, <2>3 DEF JournalInv
<1>7. CASE mode # "locked" /\ flight.at = "idle"
  <2>1. /\ flight' = [at |-> "claiming", context |-> c, wake |-> FALSE]
        /\ wanted' = FALSE /\ timer' = "none" /\ last' = c
    BY <1>7 DEF Kick
  <2>2. TypeOK'
    BY <1>1, <1>2, <1>3, <2>1 DEF TypeOK, Context
  <2>3. delivery = Nothing
    BY <1>1, <1>7 DEF FlightInv, HandlersOK
  <2>4. FlightInv'
    BY <1>1, <1>3, <2>1, <2>3 DEF FlightInv, HandlersOK, DeliveryOK, CommitOK
  <2>5. WakeInv'
    BY <1>1, <1>3, <1>7, <2>1 DEF WakeInv, WakeOK, AccountFlightsWake, Waking, FlightInv,
       HandlersOK
  <2> QED
    BY <1>4, <2>2, <2>4, <2>5 DEF JournalInv
<1> QED
  BY <1>5, <1>6, <1>7

-----------------------------------------------------------------------------
(* An event is persisted. *)

LEMMA TailOf ==
  ASSUME NEW A, NEW q \in Seq(A), q # <<>>
  PROVE  /\ Tail(q) \in Seq(A) /\ Head(q) \in A /\ Head(q) = q[1] /\ 1 \in DOMAIN q
         /\ DOMAIN q = 1 .. Len(q) /\ DOMAIN Tail(q) = 1 .. Len(q) - 1 /\ Len(q) \in Nat
         /\ \A i \in DOMAIN Tail(q) : i + 1 \in DOMAIN q /\ Tail(q)[i] = q[i + 1]
  OBVIOUS

LEMMA TailIntake ==
  ASSUME NEW q \in Seq(Arrival), q # <<>>, NEW t, NEW l, NEW c, NEW d, NEW x
  PROVE  /\ IntakeOK(t, l, q, c) => IntakeOK(t, l, Tail(q), c)
         /\ CommitOK(d, t, l, x, q, c) => CommitOK(d, t, l, x, Tail(q), c)
<1>1. /\ DOMAIN q = 1 .. Len(q) /\ DOMAIN Tail(q) = 1 .. Len(q) - 1 /\ Len(q) \in Nat
      /\ \A i \in DOMAIN Tail(q) : i + 1 \in DOMAIN q /\ Tail(q)[i] = q[i + 1]
  BY TailOf
<1>2. ASSUME IntakeOK(t, l, q, c) PROVE IntakeOK(t, l, Tail(q), c)
  <2>1. \A i, j \in DOMAIN Tail(q) : i < j => Tail(q)[i].ticket < Tail(q)[j].ticket
    BY <1>1, <1>2 DEF IntakeOK
  <2> QED
    BY <1>1, <1>2, <2>1 DEF IntakeOK
<1>3. CommitOK(d, t, l, x, q, c) => CommitOK(d, t, l, x, Tail(q), c)
  BY <1>1 DEF CommitOK
<1> QED
  BY <1>2, <1>3

LEMMA FreshRow ==
  ASSUME NEW a \in Arrival, nextId \in Nat, MaxAttempts \in Nat
  PROVE  /\ Fresh(a) \in Row /\ Fresh(a).id = nextId /\ Fresh(a).ticket = a.ticket
         /\ Fresh(a).token = NoToken /\ Fresh(a).applied = FALSE
         /\ Fresh(a).state = "pending" /\ Fresh(a).receipt = "none"
  BY DEF Fresh, Row, Arrival

(* A row is added to the table. *)
LEMMA AddedRow ==
  ASSUME NEW t \in Table, NEW u \in Table, NEW e \in Event, NEW s \in Row, NEW n \in Nat,
         t[e] = Absent, u[e] = s, \A d \in Event : d # e => u[d] = t[d],
         RowOK(t, n), s.id = n, s.token = NoToken,
         s.state = "pending" <=> s.receipt = "none",
         \A d \in Live(t) : t[d].ticket < s.ticket
  PROVE  RowOK(u, n + 1)
<1>1. \A d \in Live(u) : d # e => d \in Live(t) /\ u[d] = t[d]
  BY DEF Live
<1>2. \A d \in Live(t) : t[d].id \in Nat /\ t[d].ticket \in Nat /\ t[d].id < n
  BY DEF Live, Table, Row, RowOK
<1>3. s.ticket \in Nat
  BY DEF Row
<1>4. ASSUME NEW d \in Live(u)
      PROVE  /\ u[d].token # NoToken => u[d].attempts >= 1
             /\ u[d].state = "pending" <=> u[d].receipt = "none"
             /\ u[d].id < n + 1
  <2>1. CASE d = e
    BY <2>1
  <2>2. CASE d # e
    BY <1>1, <1>2, <2>2 DEF RowOK
  <2> QED
    BY <2>1, <2>2
<1>5. ASSUME NEW c \in Live(u), NEW d \in Live(u)
      PROVE  /\ c # d => u[c].id # u[d].id
             /\ u[c].id < u[d].id => u[c].ticket < u[d].ticket
  <2>1. CASE c # e /\ d # e
    BY <1>1, <2>1 DEF RowOK
  <2>2. CASE c = e /\ d # e
    BY <1>1, <1>2, <1>3, <2>2
  <2>3. CASE c # e /\ d = e
    BY <1>1, <1>2, <1>3, <2>3
  <2>4. CASE c = e /\ d = e
    BY <1>2, <1>3, <2>4
  <2> QED
    BY <2>1, <2>2, <2>3, <2>4
<1> QED
  BY <1>4, <1>5 DEF RowOK

(* The head of the intake becomes a row: pending, unless it is poisoned.   *)
LEMMA Admission ==
  ASSUME TypeOK, intake # <<>>, NEW a, a = Head(intake),
         NEW t \in Table, t[a.event] = Absent,
         RowOK(t, nextId), OnceOK(t, expired, LoggedIn(log), shown \cup turned),
         LogOK(t, log, expired),
         IntakeOK(t, log, intake, copies),
         CommitOK(delivery, t, log, expired, intake, copies),
         NEW s \in Row, s.id = nextId, s.ticket = a.ticket, ~s.applied,
         s.token = NoToken,
         \/ s.state = "pending" /\ s.receipt = "none" /\ a.event \notin expired
         \/ s.state = "poisoned" /\ s.receipt = "guarding",
         NEW u, u = [t EXCEPT ![a.event] = s]
  PROVE  /\ u \in Table /\ RowOK(u, nextId + 1)
         /\ OnceOK(u, expired, LoggedIn(log), shown \cup turned)
         /\ LogOK(u, log, expired)
         /\ IntakeOK(u, log, Tail(intake), copies)
         /\ CommitOK(delivery, u, log, expired, Tail(intake), copies)
<1> DEFINE e == a.event
<1>1. /\ intake \in Seq(Arrival) /\ a \in Arrival /\ e \in Event /\ nextId \in Nat
      /\ a = intake[1] /\ 1 \in DOMAIN intake
  <2>1. intake \in Seq(Arrival) /\ nextId \in Nat
    BY DEF TypeOK
  <2>2. a \in Arrival /\ a = intake[1] /\ 1 \in DOMAIN intake
    BY <2>1, TailOf
  <2> QED
    BY <2>1, <2>2 DEF Arrival
<1>2. u \in Table /\ \A d \in Event : u[d] = IF d = e THEN s ELSE t[d]
  BY <1>1 DEF Table
<1>3. /\ s # Absent /\ e \in Live(u) /\ e \notin Live(t)
      /\ \A d \in Live(u) : d \in Event /\ (d # e => d \in Live(t) /\ u[d] = t[d])
      /\ u[e] = s /\ t[e] = Absent /\ \A d \in Live(t) : d \in Live(u) /\ u[d] = t[d]
  BY <1>1, <1>2, NoRecords DEF Live
<1>4. \A d \in Live(t) : t[d] \in Row /\ t[d].id < nextId /\ t[d].ticket < s.ticket
  BY <1>1 DEF RowOK, IntakeOK, Table, Live
<1>5. \A d \in Live(t) : t[d].id \in Nat /\ t[d].ticket \in Nat
  BY <1>4 DEF Row
<1>6. s.id \in Nat /\ s.ticket \in Nat
  BY DEF Row
<1> HIDE DEF e
<1>7. RowOK(u, nextId + 1)
  <2>1. \A d \in Event : d # e => u[d] = t[d]
    BY <1>2
  <2>2. u[e] = s /\ t[e] = Absent /\ \A d \in Live(t) : t[d].ticket < s.ticket
    BY <1>3, <1>4
  <2>3. s.state = "pending" <=> s.receipt = "none"
    OBVIOUS
  <2> QED
    BY <1>1, <1>2, <2>1, <2>2, <2>3, AddedRow
<1>8. OnceOK(u, expired, LoggedIn(log), shown \cup turned)
  <2>1. ASSUME NEW d \in LoggedIn(log), d \notin expired
        PROVE  u[d] # Absent /\ (u[d].state = "pending" => u[d].applied)
    <3>1. t[d] # Absent /\ (t[d].state = "pending" => t[d].applied) /\ d \in Event
      BY <2>1, Typed DEF OnceOK
    <3> QED
      BY <1>2, <1>3, <3>1
  <2>2. ASSUME NEW d \in Live(u)
        PROVE  /\ u[d].receipt = "evictable" => d \in expired
               /\ d \in expired => u[d].state # "pending"
               /\ u[d].applied => d \in LoggedIn(log)
               /\ u[d].state = "completed" => d \in shown \cup turned
    <3>1. CASE d = e
      BY <1>3, <3>1 DEF e
    <3>2. CASE d # e
      BY <1>3, <3>2 DEF OnceOK
    <3> QED
      BY <3>1, <3>2
  <2> QED
    BY <2>1, <2>2 DEF OnceOK
<1>9. LogOK(u, log, expired)
  <2>1. \A i \in DOMAIN log : log[i].event \in Event
    BY Typed
  <2>2. \A i \in DOMAIN log :
          log[i].event \in expired
            \/ (u[log[i].event] # Absent /\ u[log[i].event].ticket = log[i].ticket)
    BY <1>2, <1>3, <2>1 DEF LogOK
  <2>3. \A i \in DOMAIN log : log[i].ticket < s.ticket
    BY <1>1 DEF IntakeOK
  <2>4. ASSUME NEW d \in Live(u), NEW i \in DOMAIN log,
               u[d].state = "pending", ~u[d].applied, OrderOf[log[i].event] = OrderOf[d]
        PROVE  log[i].ticket < u[d].ticket \/ log[i].event = d
    <3>1. CASE d = e
      BY <1>3, <2>3, <3>1
    <3>2. CASE d # e
      BY <1>3, <2>4, <3>2 DEF LogOK
    <3> QED
      BY <3>1, <3>2
  <2> QED
    BY <2>2, <2>4 DEF LogOK
<1>10. IntakeOK(u, log, Tail(intake), copies)
  <2>1. IntakeOK(t, log, Tail(intake), copies)
    BY <1>1, TailIntake
  <2>2. /\ DOMAIN intake = 1 .. Len(intake) /\ DOMAIN Tail(intake) = 1 .. Len(intake) - 1
        /\ \A i \in DOMAIN Tail(intake) : i + 1 \in DOMAIN intake /\ Tail(intake)[i] = intake[i + 1]
        /\ Len(intake) \in Nat
    BY <1>1, TailOf
  <2>3. \A i \in DOMAIN Tail(intake) : s.ticket < Tail(intake)[i].ticket
    BY <1>1, <2>2 DEF IntakeOK
  <2>4. s.ticket <= copies
    BY <1>1 DEF IntakeOK
  <2> QED
    BY <1>3, <2>1, <2>3, <2>4 DEF IntakeOK
<1>11. CommitOK(delivery, u, log, expired, Tail(intake), copies)
  <2> SUFFICES ASSUME delivery # Nothing, delivery.phase = "apply"
               PROVE  CommitOK(delivery, u, log, expired, Tail(intake), copies)
    BY DEF CommitOK
  <2>1. CommitOK(delivery, t, log, expired, Tail(intake), copies)
    BY <1>1, TailIntake
  <2>2. delivery.event \in Event
    BY DEF TypeOK, Attempt
  <2>3. \/ delivery.event \in expired
        \/ u[delivery.event] # Absent /\ u[delivery.event].ticket = delivery.ticket
    BY <1>2, <1>3, <2>1, <2>2 DEF CommitOK
  <2>4. delivery.ticket < s.ticket
    BY <1>1 DEF CommitOK
  <2>5. ASSUME NEW d \in Live(u), u[d].state = "pending", ~u[d].applied,
               OrderOf[d] = OrderOf[delivery.event], d # delivery.event
        PROVE  delivery.ticket < u[d].ticket
    <3>1. CASE d = e
      BY <1>3, <2>4, <3>1
    <3>2. CASE d # e
      BY <1>3, <2>1, <2>5, <3>2 DEF CommitOK
    <3> QED
      BY <3>1, <3>2
  <2> QED
    BY <2>1, <2>3, <2>5 DEF CommitOK
<1> QED
  BY <1>2, <1>7, <1>8, <1>9, <1>10, <1>11

LEMMA PersistStep ==
  ASSUME JournalInv, Persist PROVE JournalInv'
<1> DEFINE a == Head(intake)
           L == LoggedIn(log)
<1>1. /\ TypeOK /\ TableInv /\ FlightInv /\ WakeInv
      /\ intake \in Seq(Arrival) /\ intake # <<>> /\ intake' = Tail(intake)
      /\ intake' \in Seq(Arrival) /\ a \in Arrival /\ row \in Table /\ nextId \in Nat
      /\ a.event \in Event /\ L \in SUBSET Event
  BY TailOf, Typed DEF JournalInv, Persist, TypeOK, Arrival
<1>2. /\ UNCHANGED <<flight, revoked, delivery, detached, wanted, timer, mode, bounded,
                     provider, upsets, copies, expired, retryOwed, log, shown, turned>>
  BY DEF Persist, flightVars, hostVars
<1> HIDE DEF a, L
<1>3. /\ RowOK(row, nextId) /\ OnceOK(row, expired, L, shown \cup turned)
      /\ LogOK(row, log, expired)
      /\ IntakeOK(row, log, intake, copies)
      /\ CommitOK(delivery, row, log, expired, intake, copies)
  BY <1>1 DEF TableInv, FlightInv, L
<1>4. /\ AppliedLast' /\ AppliesInArrivalOrder' /\ HandlersOK' /\ shown \subseteq L
      /\ DeliveryOK(delivery, L, shown, turned, revoked)
  BY <1>1, <1>2 DEF TableInv, FlightInv, AppliedLast, AppliesInArrivalOrder, HandlersOK, L
<1>5. CASE UNCHANGED <<row, nextId, kicking, last>>
  <2>1. UNCHANGED <<row, nextId, kicking, last>>
    BY <1>5
  <2>2. TypeOK'
    BY <1>1, <1>2, <2>1 DEF TypeOK
  <2>3. TableInv' /\ FlightInv'
    BY <1>1, <1>2, <1>3, <1>4, <2>1, TailIntake DEF TableInv, FlightInv, L
  <2>4. WakeInv'
    BY <1>1, <1>2, <2>1 DEF WakeInv, WakeOK, Followed, AccountFlightsWake, Waking
  <2> QED
    BY <2>2, <2>3, <2>4 DEF JournalInv
<1>6. ASSUME Admits(a),
             \E t \in Maintained(row), stillborn \in {a.event \in expired, TRUE} :
               /\ row' \in IF t[a.event] # Absent THEN {t} ELSE Offered(t, a, stillborn)
               /\ nextId' = IF t[a.event] = Absent /\ row'[a.event] # Absent
                            THEN nextId + 1 ELSE nextId
               /\ kicking' = IF a.locked THEN kicking ELSE kicking \cup {a.context}
               /\ last' = IF last = "account" THEN a.context ELSE last
      PROVE  JournalInv'
  <2>1. PICK t \in Maintained(row), stillborn \in {a.event \in expired, TRUE} :
          /\ row' \in IF t[a.event] # Absent THEN {t} ELSE Offered(t, a, stillborn)
          /\ nextId' = IF t[a.event] = Absent /\ row'[a.event] # Absent
                       THEN nextId + 1 ELSE nextId
          /\ kicking' = IF a.locked THEN kicking ELSE kicking \cup {a.context}
          /\ last' = IF last = "account" THEN a.context ELSE last
    BY <1>6
  <2>2. a.context \in Context /\ (mode = "foreground" => ~a.locked)
    BY <1>1, <1>6 DEF Admits, Arrival
  <2>3. WakeInv'
    BY <1>1, <1>2, <2>1, <2>2 DEF WakeInv, WakeOK, Followed, AccountFlightsWake, Waking
  <2>4. kicking' \in SUBSET Context /\ last' \in {"account", "bounded", "failed"}
    BY <1>1, <2>1, <2>2 DEF TypeOK, Context
  <2>5. t \in Table /\ Wears(row, t, shown \cup turned)
    BY <1>1, MaintainedWears
  <2>6. \A u \in Table : Wears(row, u, shown \cup turned) =>
          /\ RowOK(u, nextId) /\ OnceOK(u, expired, L, shown \cup turned)
          /\ LogOK(u, log, expired) /\ IntakeOK(u, log, intake, copies)
          /\ CommitOK(delivery, u, log, expired, intake, copies)
    <3> TAKE u \in Table
    <3> HAVE Wears(row, u, shown \cup turned)
    <3>1. RowOK(u, nextId) /\ OnceOK(u, expired, L, shown \cup turned)
      BY <1>1, <1>3, WearsKeeps
    <3>2. delivery \in Attempt \cup {Nothing} /\ \A i \in DOMAIN log : log[i].event \in Event
      BY <1>1, Typed DEF TypeOK
    <3>3. /\ LogOK(u, log, expired) /\ IntakeOK(u, log, intake, copies)
          /\ CommitOK(delivery, u, log, expired, intake, copies)
      BY <1>1, <1>3, <3>2, WearsLog
    <3> QED
      BY <3>1, <3>3
  <2>7. /\ row' \in Table /\ nextId' \in Nat
        /\ RowOK(row', nextId') /\ OnceOK(row', expired, L, shown \cup turned)
        /\ LogOK(row', log, expired)
        /\ IntakeOK(row', log, intake', copies)
        /\ CommitOK(delivery, row', log, expired, intake', copies)
    <3>1. CASE t[a.event] # Absent
      <4>1. row' = t /\ nextId' = nextId
        BY <2>1, <3>1
      <4> QED
        BY <1>1, <2>5, <2>6, <4>1, TailIntake
    <3>2. CASE t[a.event] = Absent
      <4>1. row' \in Offered(t, a, stillborn)
        BY <2>1, <3>2
      <4>2. PICK room \in MadeRoom(t) :
              row' = IF Full(room) THEN room
                     ELSE [room EXCEPT ![a.event] =
                             IF stillborn \/ Cardinality(Pending(room)) >= PendingCapacity
                             THEN Spent(Fresh(a), "poisoned") ELSE Fresh(a)]
        BY <4>1 DEF Offered
      <4>3. /\ room \in Table /\ Wears(row, room, shown \cup turned)
            /\ room[a.event] = Absent
        BY <1>1, <2>5, <3>2, MadeRoomWears, WearsOn
      <4>4. CASE row' = room
        <5>1. nextId' = nextId
          BY <2>1, <4>3, <4>4
        <5> QED
          BY <1>1, <2>6, <4>3, <4>4, <5>1, TailIntake
      <4>5. ASSUME NEW s \in {Fresh(a), Spent(Fresh(a), "poisoned")},
                   row' = [room EXCEPT ![a.event] = s],
                   a.event \in expired => s = Spent(Fresh(a), "poisoned")
            PROVE  /\ row' \in Table /\ nextId' \in Nat
                   /\ RowOK(row', nextId') /\ OnceOK(row', expired, L, shown \cup turned)
                   /\ LogOK(row', log, expired) /\ IntakeOK(row', log, intake', copies)
                   /\ CommitOK(delivery, row', log, expired, intake', copies)
        <5>1. /\ Fresh(a) \in Row /\ Fresh(a).id = nextId /\ Fresh(a).ticket = a.ticket
              /\ Fresh(a).token = NoToken /\ Fresh(a).applied = FALSE
              /\ Fresh(a).state = "pending" /\ Fresh(a).receipt = "none"
          BY <1>1, FreshRow, JournalAssumption
        <5>2. /\ s \in Row /\ s.id = nextId /\ s.ticket = a.ticket /\ ~s.applied
              /\ s.token = NoToken
              /\ \/ s.state = "pending" /\ s.receipt = "none" /\ a.event \notin expired
                 \/ s.state = "poisoned" /\ s.receipt = "guarding"
          BY <4>5, <5>1, SpentRow
        <5>3. row'[a.event] = s /\ s # Absent
          BY <1>1, <4>3, <4>5, <5>2, NoRecords DEF Table
        <5>4. nextId' = nextId + 1
          BY <2>1, <3>2, <5>3
        <5>5. /\ RowOK(room, nextId) /\ OnceOK(room, expired, L, shown \cup turned)
              /\ LogOK(room, log, expired)
              /\ IntakeOK(room, log, intake, copies)
              /\ CommitOK(delivery, room, log, expired, intake, copies)
          BY <2>6, <4>3
        <5>6. /\ row' \in Table /\ RowOK(row', nextId + 1)
              /\ OnceOK(row', expired, L, shown \cup turned)
              /\ LogOK(row', log, expired) /\ IntakeOK(row', log, Tail(intake), copies)
              /\ CommitOK(delivery, row', log, expired, Tail(intake), copies)
          BY <1>1, <4>3, <4>5, <5>2, <5>5, Admission DEF a, L
        <5> QED
          BY <1>1, <5>4, <5>6
      <4>6. a.event \in expired => stillborn
        BY <2>1
      <4>7. CASE row' # room
        <5>1. \/ /\ row' = [room EXCEPT ![a.event] = Fresh(a)] /\ a.event \notin expired
              \/ row' = [room EXCEPT ![a.event] = Spent(Fresh(a), "poisoned")]
          BY <4>2, <4>6, <4>7
        <5> QED
          BY <4>5, <5>1
      <4> QED
        BY <4>4, <4>7
    <3> QED
      BY <3>1, <3>2
  <2>8. TypeOK'
    BY <1>1, <1>2, <2>4, <2>7 DEF TypeOK, Table
  <2>9. TableInv' /\ FlightInv'
    BY <1>2, <1>4, <2>7 DEF TableInv, FlightInv, L
  <2> QED
    BY <2>3, <2>8, <2>9 DEF JournalInv
<1> QED
  BY <1>5, <1>6 DEF Persist, a, tableVars

-----------------------------------------------------------------------------
(* The worker claims a row, or arms its timer. *)

LeasedTo(t, e, k) ==
  [t EXCEPT ![e].attempts = @ + 1, ![e].token = k, ![e].leased = TRUE]

LEMMA ClaimedRow ==
  ASSUME NEW t \in Table, NEW e \in Claimable(t), NEW k \in Token, NEW D, NEW n,
         RowOK(t, n)
  PROVE  LET u == LeasedTo(t, e, k)
         IN  /\ u \in Table /\ Wears(t, u, D)
             /\ \A d \in Event : /\ (t[d] = Absent <=> u[d] = Absent)
                                 /\ t[d] # Absent => /\ u[d].id = t[d].id
                                                     /\ u[d].state = t[d].state
                                                     /\ u[d].applied = t[d].applied
<1> DEFINE u == LeasedTo(t, e, k)
           s == [[[t[e] EXCEPT !.attempts = @ + 1] EXCEPT !.token = k] EXCEPT !.leased = TRUE]
<1>1. /\ e \in Event /\ t[e] \in Row /\ t[e] # Absent /\ t[e].state = "pending"
      /\ t[e].attempts + 1 \in 0 .. MaxAttempts /\ t[e].attempts + 1 >= 1
      /\ t[e].receipt = "none"
  <2>1. e \in Event /\ t[e] # Absent /\ t[e].state = "pending" /\ ~Exhausted(t[e])
    BY DEF Claimable, Heads, Pending, Is
  <2>2. t[e] \in Row /\ t[e].receipt = "none"
    BY <2>1 DEF Table, RowOK, Live
  <2> QED
    BY <2>1, <2>2, JournalAssumption DEF Row, Exhausted
<1>2. s \in Row /\ s.id = t[e].id /\ s.ticket = t[e].ticket /\ s.applied = t[e].applied
      /\ s.state = t[e].state /\ s.receipt = t[e].receipt /\ s.attempts = t[e].attempts + 1
  BY <1>1 DEF Row
<1>3. Later(e, t[e], s, D)
  BY <1>1, <1>2 DEF Later
<1>4. u = [t EXCEPT ![e] = s]
  BY <1>1 DEF Table, LeasedTo
<1> HIDE DEF s, u
<1>5. u \in Table /\ Wears(t, u, D)
  <2>1. [t EXCEPT ![e] = s] \in Table /\ Wears(t, [t EXCEPT ![e] = s], D)
    BY <1>1, <1>2, <1>3, OneLater
  <2> QED
    BY <1>4, <2>1
<1>6. \A d \in Event : u[d] = IF d = e THEN s ELSE t[d]
  BY <1>4 DEF Table
<1> QED
  BY <1>1, <1>2, <1>5, <1>6, NoRecords DEF u

LEMMA ClaimStep ==
  ASSUME JournalInv, Claim PROVE JournalInv'
<1> DEFINE L == LoggedIn(log)
           D == shown \cup turned
<1>1. /\ TypeOK /\ TableInv /\ FlightInv /\ WakeInv
      /\ row \in Table /\ nextId \in Nat /\ L \in SUBSET Event
      /\ \A i \in DOMAIN log : log[i].event \in Event
  BY Typed DEF JournalInv
<1>2. /\ UNCHANGED <<nextId, revoked, detached, wanted, timer, kicking, mode, bounded, provider,
                     upsets, intake, copies, expired, retryOwed, log, shown, last>>
      /\ flight.at = "claiming"
  BY DEF Claim, wakeVars, hostVars, inputVars
<1>3. delivery = Nothing
  BY <1>1, <1>2 DEF FlightInv, HandlersOK
<1>4. PICK t \in Maintained(row) :
        LET first == {e \in Claimable(t) : \A d \in Claimable(t) : t[e].ticket <= t[d].ticket}
        IN  IF first = {}
            THEN /\ row' = t /\ flight' = [flight EXCEPT !.at = "looking"]
                 /\ UNCHANGED <<delivery, turned>>
            ELSE \E e \in first :
                   LET k == CHOOSE k \in Token : k \notin TokensInUse(t)
                   IN  /\ row' = [t EXCEPT ![e].attempts = @ + 1, ![e].token = k,
                                          ![e].leased = TRUE]
                       /\ delivery' = [event |-> e, ticket |-> t[e].ticket, token |-> k,
                                       live |-> TRUE,
                                       phase |-> IF t[e].applied THEN "present" ELSE "apply"]
                       /\ turned' = turned \ {e}
                       /\ flight' = [flight EXCEPT !.at = "delivering"]
  BY DEF Claim
<1>5. t \in Table /\ Wears(row, t, D)
  BY <1>1, MaintainedWears
<1>6. /\ RowOK(t, nextId) /\ OnceOK(t, expired, L, D)
      /\ LogOK(t, log, expired) /\ IntakeOK(t, log, intake, copies)
  BY <1>1, <1>5, WearsKeeps, WearsLog DEF TableInv
<1> HIDE DEF L, D
<1>7. ASSUME NEW at \in {"looking", "delivering"}, flight' = [flight EXCEPT !.at = at],
             row' \in Table, Pending(row') \subseteq Pending(row),
             turned' \in SUBSET Event, RowOK(row', nextId),
             OnceOK(row', expired, L, shown \cup turned'), LogOK(row', log, expired),
             IntakeOK(row', log, intake, copies),
             delivery' \in Attempt \cup {Nothing}, delivery' # Nothing => at = "delivering",
             DeliveryOK(delivery', L, shown, turned', revoked),
             CommitOK(delivery', row', log, expired, intake, copies)
      PROVE  JournalInv'
  <2>1. flight'.at = at /\ flight'.context = flight.context /\ flight'.wake = flight.wake
    BY <1>1, <1>7 DEF TypeOK
  <2>2. TypeOK'
    BY <1>1, <1>2, <1>7 DEF TypeOK, Table
  <2>3. TableInv'
    BY <1>1, <1>2, <1>7 DEF TableInv, AppliedLast, AppliesInArrivalOrder, L
  <2>4. FlightInv'
    BY <1>1, <1>2, <1>7, <2>1 DEF FlightInv, HandlersOK, L
  <2>5. WakeInv'
    BY <1>1, <1>2, <1>7, <2>1 DEF WakeInv, WakeOK, Followed, AccountFlightsWake, Waking
  <2> QED
    BY <2>2, <2>3, <2>4, <2>5 DEF JournalInv
<1>8. Pending(t) \subseteq Pending(row)
  BY <1>1, <1>5, WearsKeeps DEF TableInv, L, D
<1>9. CASE /\ row' = t /\ flight' = [flight EXCEPT !.at = "looking"]
           /\ UNCHANGED <<delivery, turned>>
  <2>1. turned' \in SUBSET Event /\ delivery' = Nothing
    BY <1>1, <1>3, <1>9 DEF TypeOK
  <2>2. /\ DeliveryOK(delivery', L, shown, turned', revoked)
        /\ CommitOK(delivery', row', log, expired, intake, copies)
    BY <2>1 DEF DeliveryOK, CommitOK
  <2> QED
    BY <1>5, <1>6, <1>7, <1>8, <1>9, <2>1, <2>2 DEF D
<1>10. ASSUME NEW e \in Claimable(t), NEW k, k = CHOOSE x \in Token : x \notin TokensInUse(t),
              row' = [t EXCEPT ![e].attempts = @ + 1, ![e].token = k, ![e].leased = TRUE],
              delivery' = [event |-> e, ticket |-> t[e].ticket, token |-> k, live |-> TRUE,
                           phase |-> IF t[e].applied THEN "present" ELSE "apply"],
              turned' = turned \ {e},
              flight' = [flight EXCEPT !.at = "delivering"]
       PROVE  JournalInv'
  <2>1. k \in Token
    BY <1>1, <1>5, <1>10, TokenLeft DEF TypeOK, FlightInv, HandlersOK
  <2>2. /\ e \in Event /\ e \in Pending(t) /\ e \in Live(t) /\ t[e] \in Row
        /\ t[e].state = "pending" /\ Head1(t, e)
    BY <1>5 DEF Claimable, Heads, Pending, Is, Live, Table
  <2>3. e \notin expired /\ (t[e].applied <=> e \in L) /\ t[e].ticket \in Nat
    BY <1>6, <2>2 DEF OnceOK, Row
  <2>4. turned' \in SUBSET Event /\ OnceOK(t, expired, L, shown \cup turned')
    <3>1. turned' \in SUBSET Event
      BY <1>1, <1>10 DEF TypeOK
    <3>2. \A d \in Live(t) : t[d].state = "completed" => d \in shown \cup turned'
      BY <1>6, <1>10, <2>2 DEF OnceOK, D
    <3> QED
      BY <1>6, <3>1, <3>2 DEF OnceOK
  <2>5. /\ row' \in Table /\ Wears(t, row', shown \cup turned')
    <3>1. LET u == LeasedTo(t, e, k) IN u \in Table /\ Wears(t, u, shown \cup turned')
      BY <1>5, <1>6, <2>1, ClaimedRow
    <3>2. row' = LeasedTo(t, e, k)
      BY <1>10 DEF LeasedTo
    <3> QED
      BY <3>1, <3>2
  <2>6. /\ delivery' \in Attempt /\ delivery'.event = e /\ delivery'.ticket = t[e].ticket
        /\ \/ delivery'.phase = "present" /\ t[e].applied
           \/ delivery'.phase = "apply" /\ ~t[e].applied
    BY <1>10, <2>1, <2>2, <2>3 DEF Attempt
  <2>7. CommitOK(delivery', t, log, expired, intake, copies)
    <3> SUFFICES ASSUME ~t[e].applied PROVE CommitOK(delivery', t, log, expired, intake, copies)
      BY <2>6 DEF CommitOK
    <3>1. e \notin LoggedIn(log) /\ t[e] # Absent
      BY <2>2, <2>3 DEF L, Live
    <3>2. \A i \in DOMAIN log : log[i].event = e => log[i].ticket = t[e].ticket
      BY <1>6, <2>3 DEF LogOK
    <3>3. \A i \in DOMAIN log : OrderOf[log[i].event] = OrderOf[e]
                                  => log[i].ticket < t[e].ticket \/ log[i].event = e
      BY <1>6, <2>2 DEF LogOK
    <3>4. ASSUME NEW d \in Live(t), t[d].state = "pending", ~t[d].applied,
                 OrderOf[d] = OrderOf[e], d # e
          PROVE  t[e].ticket < t[d].ticket
      <4>1. d \in Pending(t) /\ t[d].id \in Nat /\ t[e].id \in Nat
        BY <1>5, <2>2, <3>4 DEF Pending, Is, Live, Table, Row
      <4>2. ~(t[d].id < t[e].id) /\ t[d].id # t[e].id
        BY <1>6, <2>2, <3>4, <4>1 DEF Head1, Older, RowOK
      <4> QED
        BY <1>6, <2>2, <4>1, <4>2 DEF RowOK
    <3>5. t[e].ticket <= copies /\ \A i \in DOMAIN intake : t[e].ticket < intake[i].ticket
      BY <1>6, <2>2 DEF IntakeOK
    <3> QED
      BY <2>6, <3>1, <3>2, <3>3, <3>4, <3>5 DEF CommitOK
  <2>8. DeliveryOK(delivery', L, shown, turned', revoked)
    BY <2>3, <2>6 DEF DeliveryOK
  <2>9. /\ RowOK(row', nextId) /\ OnceOK(row', expired, L, shown \cup turned')
        /\ Pending(row') \subseteq Pending(t)
    BY <1>1, <1>5, <1>6, <2>4, <2>5, WearsKeeps
  <2>10. /\ LogOK(row', log, expired) /\ IntakeOK(row', log, intake, copies)
         /\ CommitOK(delivery', row', log, expired, intake, copies)
    BY <1>1, <1>5, <1>6, <2>4, <2>5, <2>6, <2>7, WearsLog
  <2> QED
    BY <1>7, <1>8, <1>10, <2>4, <2>5, <2>6, <2>8, <2>9, <2>10
<1> QED
  BY <1>4, <1>9, <1>10

LEMMA LookStep ==
  ASSUME JournalInv, Look PROVE JournalInv'
<1>1. TypeOK /\ TableInv /\ FlightInv /\ WakeInv /\ row \in Table
  BY Typed DEF JournalInv
<1>2. UNCHANGED <<row, nextId, revoked, delivery, detached, wanted, timer, kicking, mode,
                  bounded, provider, upsets, intake, copies, expired, retryOwed,
                  log, shown, turned, last>>
  BY DEF Look, tableVars, wakeVars, hostVars, inputVars, histVars
<1>3. /\ flight.at = "looking"
      /\ flight' = [flight EXCEPT !.at = "arming",
                                  !.wake = CanScheduleWake /\ WakeFor(row) # {}]
  BY DEF Look
<1>4. /\ flight'.at = "arming" /\ flight'.context = flight.context
      /\ flight'.wake = (CanScheduleWake /\ WakeFor(row) # {})
      /\ flight'.wake \in BOOLEAN
  BY <1>1, <1>3 DEF TypeOK
<1>5. TypeOK'
  BY <1>1, <1>2, <1>3, <1>4 DEF TypeOK
<1>6. TableInv'
  BY <1>1, <1>2, TableFrame
<1>7. FlightInv'
  BY <1>1, <1>2, <1>3, <1>4 DEF FlightInv, HandlersOK, DeliveryOK, CommitOK
<1>8. mode = "foreground" /\ Pending(row) # {} => flight'.wake
  BY <1>1, <1>4, SomeHead DEF CanScheduleWake, WakeFor
<1>9. WakeInv'
  BY <1>1, <1>2, <1>3, <1>4, <1>8 DEF WakeInv, WakeOK, Followed, AccountFlightsWake, Waking
<1> QED
  BY <1>5, <1>6, <1>7, <1>9 DEF JournalInv

LEMMA ArmStep ==
  ASSUME JournalInv, Arm PROVE JournalInv'
<1>1. TypeOK /\ TableInv /\ FlightInv /\ WakeInv /\ row \in Table
  BY Typed DEF JournalInv
<1>2. UNCHANGED <<row, nextId, delivery, detached, mode,
                  bounded, provider, upsets, intake, copies, expired, retryOwed,
                  log, shown, turned, last>>
  BY DEF Arm, tableVars, hostVars, inputVars, histVars
<1>3. /\ flight.at = "arming" /\ EndFlight(FALSE)
      /\ timer' = IF flight.wake /\ CanScheduleWake THEN flight.context ELSE timer
      /\ flight.context # "gone"
  BY DEF Arm, FlightOpen
<1>4. mode = "foreground" /\ last = "account" /\ Pending(row) # {}
        => Followed \/ timer' = "account"
  BY <1>1, <1>3 DEF WakeInv, WakeOK, CanScheduleWake
<1>5. /\ WakeInv' /\ flight' = Grounded /\ revoked' = FALSE /\ wanted' = FALSE
      /\ kicking' \in SUBSET Context
  BY <1>1, <1>2, <1>3, <1>4, EndedFlight
<1>6. TypeOK'
  <2>1. timer' \in Context \cup {"none"}
    BY <1>1, <1>3 DEF TypeOK
  <2> QED
    BY <1>1, <1>2, <1>5, <2>1, Idle DEF TypeOK
<1>7. TableInv'
  BY <1>1, <1>2, TableFrame
<1>8. delivery = Nothing
  BY <1>1, <1>3 DEF FlightInv, HandlersOK
<1>9. FlightInv'
  BY <1>1, <1>2, <1>5, <1>8 DEF FlightInv, HandlersOK, DeliveryOK, CommitOK
<1> QED
  BY <1>5, <1>6, <1>7, <1>9 DEF JournalInv

LEMMA FireStep ==
  ASSUME JournalInv, Fire PROVE JournalInv'
<1>1. TypeOK /\ TableInv /\ FlightInv /\ WakeInv
  BY DEF JournalInv
<1>2. UNCHANGED <<row, nextId, flight, revoked, delivery, detached, wanted, mode,
                  bounded, provider, upsets, intake, copies, expired, retryOwed,
                  log, shown, turned, last>>
  BY DEF Fire, tableVars, flightVars, hostVars, inputVars, histVars
<1>3. /\ timer # "none" /\ timer' = "none"
      /\ kicking' = IF CanScheduleWake THEN kicking \cup {timer} ELSE kicking
  BY DEF Fire
<1>4. TypeOK'
  BY <1>1, <1>2, <1>3 DEF TypeOK
<1>5. TableInv'
  BY <1>1, <1>2, TableFrame
<1>6. FlightInv'
  BY <1>1, <1>2 DEF FlightInv, HandlersOK
<1>7. WakeInv'
  BY <1>1, <1>2, <1>3 DEF WakeInv, WakeOK, Followed, AccountFlightsWake, Waking, CanScheduleWake
<1> QED
  BY <1>4, <1>5, <1>6, <1>7 DEF JournalInv

LEMMA AbortStep ==
  ASSUME JournalInv, Abort PROVE JournalInv'
<1>1. TypeOK /\ TableInv /\ FlightInv /\ WakeInv
  BY DEF JournalInv
<1>2. /\ UNCHANGED <<row, nextId, detached, timer, mode, bounded, provider, upsets, intake, copies,
                     expired, retryOwed, log, shown, turned>>
      /\ delivery' = Nothing /\ flight.at # "idle" /\ EndFlight(FALSE)
      /\ (~FlightOpen /\ UNCHANGED last) \/ last' = "failed"
  BY DEF Abort, tableVars, hostVars, inputVars
<1>3. /\ flight' = Grounded /\ revoked' = FALSE /\ wanted' = FALSE /\ flight'.at = "idle"
      /\ kicking' \in SUBSET Context
  BY <1>1, <1>2 DEF EndFlight, Grounded, TypeOK, Context
<1>4. TypeOK'
  BY <1>1, <1>2, <1>3, Idle DEF TypeOK
<1>5. TableInv'
  BY <1>1, <1>2, TableFrame
<1>6. FlightInv'
  BY <1>1, <1>2, <1>3 DEF FlightInv, HandlersOK, DeliveryOK, CommitOK
<1>7. CASE last' = "failed"
  <2>1. WakeInv'
    BY <1>7 DEF WakeInv, WakeOK, AccountFlightsWake
  <2> QED
    BY <1>4, <1>5, <1>6, <2>1 DEF JournalInv
<1>8. CASE ~FlightOpen /\ UNCHANGED last
  <2>1. mode = "foreground" /\ last = "account" => Followed
    BY <1>1, <1>2, <1>8 DEF WakeInv, WakeOK, FlightOpen
  <2>2. WakeInv'
    BY <1>1, <1>2, <1>8, <2>1, EndedFlight
  <2> QED
    BY <1>4, <1>5, <1>6, <2>2 DEF JournalInv
<1> QED
  BY <1>2, <1>7, <1>8

-----------------------------------------------------------------------------
(* The handlers. *)

(* Only the delivery of the flight has authority. *)
LEMMA RevokedIsIdle ==
  ASSUME JournalInv, NEW a \in detached
  PROVE  ~Apply(a) /\ ~Owe(a) /\ ~Present(a)
  BY DEF JournalInv, FlightInv, HandlersOK, Apply, Owe, Present, AttemptOpen

LEMMA Appended ==
  ASSUME NEW A, NEW l \in Seq(A), NEW x \in A
  PROVE  /\ Append(l, x) \in Seq(A)
         /\ DOMAIN l = 1 .. Len(l) /\ DOMAIN Append(l, x) = 1 .. Len(l) + 1 /\ Len(l) \in Nat
         /\ \A i \in DOMAIN Append(l, x) :
              Append(l, x)[i] = IF i = Len(l) + 1 THEN x ELSE l[i]
  OBVIOUS

(* Writes of the delivery commit: with the checkpoint that applies its     *)
(* event (b), or before it.                                                *)
LEMMA CommitStep ==
  ASSUME JournalInv, delivery # Nothing, delivery.phase = "apply",
         NEW b \in BOOLEAN, Committed(delivery, b), b => Owns(delivery), row' \in Table,
         \A d \in Event : row'[d] = IF b /\ d = delivery.event
                                    THEN [row[d] EXCEPT !.applied = TRUE] ELSE row[d],
         UNCHANGED <<nextId, intake, copies, expired, shown, turned>>
  PROVE  /\ TableInv' /\ log' \in Seq(Commit) /\ Pending(row') = Pending(row)
         /\ b => delivery.event \in LoggedIn(log')
<1> DEFINE e == delivery.event
           k == delivery.ticket
           L == LoggedIn(log)
           x == [event |-> e, ticket |-> k, applied |-> b]
<1>1. /\ TypeOK /\ TableInv /\ FlightInv /\ row \in Table /\ L \in SUBSET Event
      /\ delivery \in Attempt /\ log \in Seq(Commit)
      /\ \A i \in DOMAIN log : log[i].ticket \in Nat /\ log[i].event \in Event
  BY Typed DEF JournalInv, TypeOK
<1>2. /\ e \in Event /\ k \in Nat /\ x \in Commit
      /\ x.event = e /\ x.ticket = k /\ x.applied = b
  BY <1>1 DEF Attempt, Commit
<1>3. /\ RowOK(row, nextId) /\ OnceOK(row, expired, L, shown \cup turned)
      /\ LogOK(row, log, expired) /\ IntakeOK(row, log, intake, copies) /\ shown \subseteq L
      /\ AppliedLast /\ AppliesInArrivalOrder
      /\ CommitOK(delivery, row, log, expired, intake, copies)
  BY <1>1 DEF TableInv, FlightInv
<1>4. /\ e \notin L
      /\ e \in expired \/ (row[e] # Absent /\ row[e].ticket = k)
      /\ \A i \in DOMAIN log : log[i].event = e => log[i].ticket = k
      /\ \A i \in DOMAIN log : OrderOf[log[i].event] = OrderOf[e]
                                 => log[i].ticket < k \/ log[i].event = e
      /\ \A d \in Live(row) :
           /\ row[d].state = "pending" /\ ~row[d].applied /\ OrderOf[d] = OrderOf[e] /\ d # e
           => k < row[d].ticket
      /\ k <= copies /\ \A i \in DOMAIN intake : k < intake[i].ticket
  BY <1>3 DEF CommitOK
<1>5. b => /\ e \in Live(row) /\ row[e].state = "pending" /\ e \notin expired
           /\ row[e].ticket = k
  <2>1. b => e \in Live(row) /\ row[e].state = "pending"
    BY <1>2 DEF Owns, Is, Live
  <2> QED
    BY <1>3, <1>4, <2>1 DEF OnceOK
<1>6. log' = Append(log, x)
  BY DEF Committed
<1> HIDE DEF x, k
<1>7. /\ log' \in Seq(Commit)
      /\ DOMAIN log = 1 .. Len(log) /\ DOMAIN log' = 1 .. Len(log) + 1 /\ Len(log) \in Nat
      /\ \A i \in DOMAIN log' : log'[i] = IF i = Len(log) + 1 THEN x ELSE log[i]
  BY <1>1, <1>2, <1>6, Appended
<1>8. /\ \A i \in DOMAIN log : i \in DOMAIN log' /\ log'[i] = log[i]
      /\ Len(log) + 1 \in DOMAIN log' /\ log'[Len(log) + 1] = x
      /\ \A i \in DOMAIN log' : (i \in DOMAIN log /\ log'[i] = log[i]) \/ i = Len(log) + 1
  BY <1>7
<1>9. LoggedIn(log') = IF b THEN L \cup {e} ELSE L
  BY <1>2, <1>8 DEF LoggedIn
<1>10. /\ Live(row') = Live(row) /\ Pending(row') = Pending(row)
       /\ \A d \in Live(row) : /\ row'[d].id = row[d].id /\ row'[d].ticket = row[d].ticket
                               /\ row'[d].state = row[d].state
                               /\ row'[d].receipt = row[d].receipt
                               /\ row'[d].token = row[d].token
                               /\ row'[d].attempts = row[d].attempts
                               /\ row'[d].applied = ((b /\ d = e) \/ row[d].applied)
  <2> DEFINE s == [row[e] EXCEPT !.applied = TRUE]
  <2>1. b => /\ s \in Row /\ s # Absent /\ s.applied = TRUE
             /\ s.id = row[e].id /\ s.ticket = row[e].ticket /\ s.state = row[e].state
             /\ s.receipt = row[e].receipt /\ s.token = row[e].token
             /\ s.attempts = row[e].attempts
    <3> SUFFICES ASSUME b
                 PROVE  /\ s \in Row /\ s # Absent /\ s.applied = TRUE
                        /\ s.id = row[e].id /\ s.ticket = row[e].ticket
                        /\ s.state = row[e].state /\ s.receipt = row[e].receipt
                        /\ s.token = row[e].token /\ s.attempts = row[e].attempts
      OBVIOUS
    <3>1. row[e] \in Row
      BY <1>1, <1>2, <1>5 DEF Table, Live
    <3>2. s \in Row
      BY <3>1 DEF Row
    <3> QED
      BY <3>1, <3>2, NoRecords DEF Row
  <2>2. (b => row'[e] = s) /\ \A d \in Event : ~b \/ d # e => row'[d] = row[d]
    BY <1>2
  <2> HIDE DEF s
  <2>3. \A d \in Event : row'[d] # Absent <=> row[d] # Absent
    BY <1>5, <2>1, <2>2 DEF Live
  <2>4. \A d \in Live(row) : row[d].applied \in BOOLEAN
    BY <1>1 DEF Live, Table, Row
  <2>5. \A d \in Live(row) : /\ row'[d].id = row[d].id /\ row'[d].ticket = row[d].ticket
                             /\ row'[d].state = row[d].state
                             /\ row'[d].receipt = row[d].receipt
                             /\ row'[d].token = row[d].token
                             /\ row'[d].attempts = row[d].attempts
                             /\ row'[d].applied = ((b /\ d = e) \/ row[d].applied)
    BY <2>1, <2>2, <2>4 DEF Live
  <2>6. Live(row') = Live(row)
    BY <2>3 DEF Live
  <2>7. Pending(row') = Pending(row)
    BY <2>3, <2>5 DEF Live, Pending, Is
  <2> QED
    BY <2>5, <2>6, <2>7
<1>11. RowOK(row', nextId')
  BY <1>3, <1>10 DEF RowOK
<1>12. OnceOK(row', expired', LoggedIn(log'), shown' \cup turned')
  <2>1. ASSUME NEW d \in LoggedIn(log'), d \notin expired
        PROVE  row'[d] # Absent /\ (row'[d].state = "pending" => row'[d].applied)
    <3>1. d \in Live(row) /\ ((b /\ d = e) \/ (row[d].state = "pending" => row[d].applied))
      BY <1>1, <1>3, <1>5, <1>9, <2>1 DEF OnceOK, Live
    <3> QED
      BY <1>10, <3>1 DEF Live
  <2>2. ASSUME NEW d \in Live(row')
        PROVE  /\ row'[d].receipt = "evictable" => d \in expired
               /\ d \in expired => row'[d].state # "pending"
               /\ row'[d].applied => d \in LoggedIn(log')
               /\ row'[d].state = "completed" => d \in shown \cup turned
    <3>1. /\ d \in Live(row) /\ row'[d].receipt = row[d].receipt
          /\ row'[d].state = row[d].state /\ (row'[d].applied => (b /\ d = e) \/ row[d].applied)
      BY <1>10, <2>2
    <3> QED
      BY <1>3, <1>9, <3>1 DEF OnceOK
  <2> QED
    BY <2>1, <2>2 DEF OnceOK
<1>13. LogOK(row', log', expired')
  <2>1. ASSUME NEW i \in DOMAIN log'
        PROVE  \/ log'[i].event \in expired
               \/ row'[log'[i].event] # Absent /\ row'[log'[i].event].ticket = log'[i].ticket
    <3>1. CASE i \in DOMAIN log /\ log'[i] = log[i]
      <4>1. \/ log[i].event \in expired
            \/ log[i].event \in Live(row) /\ row[log[i].event].ticket = log[i].ticket
        BY <1>1, <1>3, <3>1 DEF LogOK, Live
      <4> QED
        BY <1>10, <3>1, <4>1 DEF Live
    <3>2. CASE i = Len(log) + 1
      <4>1. e \in expired \/ (e \in Live(row) /\ row[e].ticket = k)
        BY <1>2, <1>4 DEF Live
      <4> QED
        BY <1>2, <1>8, <1>10, <3>2, <4>1 DEF Live
    <3> QED
      BY <1>8, <3>1, <3>2
  <2>2. ASSUME NEW d \in Live(row'), NEW i \in DOMAIN log', row'[d].state = "pending",
               ~row'[d].applied, OrderOf[log'[i].event] = OrderOf[d]
        PROVE  log'[i].ticket < row'[d].ticket \/ log'[i].event = d
    <3>1. /\ d \in Live(row) /\ row[d].state = "pending" /\ ~row[d].applied
          /\ row'[d].ticket = row[d].ticket
      BY <1>10, <2>2
    <3>2. CASE i \in DOMAIN log /\ log'[i] = log[i]
      BY <1>3, <2>2, <3>1, <3>2 DEF LogOK
    <3>3. CASE i = Len(log) + 1
      BY <1>2, <1>4, <1>8, <2>2, <3>1, <3>3
    <3> QED
      BY <1>8, <3>2, <3>3
  <2> QED
    BY <2>1, <2>2 DEF LogOK
<1>14. IntakeOK(row', log', intake', copies')
  <2>1. \A j \in DOMAIN log' : (j \in DOMAIN log /\ log'[j] = log[j]) \/ log'[j].ticket = k
    BY <1>2, <1>8
  <2> QED
    BY <1>3, <1>4, <1>10, <2>1 DEF IntakeOK
<1>15. shown' \subseteq LoggedIn(log')
  BY <1>3, <1>9
<1>16. AppliedLast'
  <2> SUFFICES ASSUME NEW i \in DOMAIN log', NEW j \in DOMAIN log', i < j,
                      log'[i].event = log'[j].event
               PROVE  ~log'[i].applied /\ log'[i].ticket = log'[j].ticket
    BY DEF AppliedLast
  <2>1. i \in DOMAIN log /\ log'[i] = log[i]
    BY <1>7, <1>8
  <2>2. CASE j \in DOMAIN log /\ log'[j] = log[j]
    BY <1>3, <2>1, <2>2 DEF AppliedLast
  <2>3. CASE j = Len(log) + 1
    <3>1. log[i].event = e
      BY <1>2, <1>8, <2>1, <2>3
    <3>2. ~log[i].applied
      BY <1>4, <2>1, <3>1 DEF LoggedIn
    <3> QED
      BY <1>2, <1>4, <1>8, <2>1, <2>3, <3>1, <3>2
  <2> QED
    BY <1>8, <2>2, <2>3
<1>17. AppliesInArrivalOrder'
  <2> SUFFICES ASSUME NEW i \in DOMAIN log', NEW j \in DOMAIN log', i < j,
                      OrderOf[log'[i].event] = OrderOf[log'[j].event]
               PROVE  log'[i].ticket <= log'[j].ticket
    BY DEF AppliesInArrivalOrder
  <2>1. i \in DOMAIN log /\ log'[i] = log[i]
    BY <1>7, <1>8
  <2>2. CASE j \in DOMAIN log /\ log'[j] = log[j]
    BY <1>3, <2>1, <2>2 DEF AppliesInArrivalOrder
  <2>3. CASE j = Len(log) + 1
    BY <1>1, <1>2, <1>4, <1>8, <2>1, <2>3
  <2> QED
    BY <1>8, <2>2, <2>3
<1>18. TableInv'
  BY <1>11, <1>12, <1>13, <1>14, <1>15, <1>16, <1>17 DEF TableInv
<1> QED
  BY <1>7, <1>9, <1>10, <1>18

LEMMA ApplyStep ==
  ASSUME JournalInv, Apply(delivery) PROVE JournalInv'
<1> DEFINE e == delivery.event
<1>1. TypeOK /\ TableInv /\ FlightInv /\ WakeInv /\ row \in Table
  BY Typed DEF JournalInv
<1>2. /\ UNCHANGED <<nextId, flight, revoked, detached, wanted, timer, kicking, mode, bounded,
                     provider, upsets, intake, copies, expired, retryOwed, shown, turned, last>>
      /\ delivery # Nothing /\ delivery.phase = "apply" /\ Owns(delivery)
      /\ row' = [row EXCEPT ![e].applied = TRUE]
      /\ Committed(delivery, TRUE)
      /\ delivery' = [delivery EXCEPT !.phase = "present"]
  BY DEF Apply, Checkpointed, Advance, wakeVars, hostVars, inputVars
<1>3. delivery \in Attempt /\ e \in Event /\ e \in Live(row) /\ row[e] \in Row
  BY <1>1, <1>2 DEF TypeOK, Attempt, Owns, Is, Live, Table
<1>4. delivery' \in Attempt /\ delivery'.event = e /\ delivery'.phase = "present"
  BY <1>2, <1>3 DEF Attempt
<1>5. /\ row' \in Table
      /\ \A d \in Event : row'[d] = IF d = e THEN [row[e] EXCEPT !.applied = TRUE] ELSE row[d]
  BY <1>1, <1>2, <1>3 DEF Table, Row
<1>6. /\ TableInv' /\ log' \in Seq(Commit) /\ Pending(row') = Pending(row)
      /\ e \in LoggedIn(log')
  BY <1>2, <1>5, CommitStep
<1>7. FlightInv'
  BY <1>1, <1>2, <1>4, <1>6 DEF FlightInv, HandlersOK, DeliveryOK, CommitOK
<1>8. WakeInv'
  BY <1>1, <1>2, <1>6 DEF WakeInv, WakeOK, Followed, AccountFlightsWake, Waking
<1>9. TypeOK'
  <2> HIDE DEF e
  <2> QED
    BY <1>1, <1>2, <1>4, <1>5, <1>6 DEF TypeOK, Table
<1> QED
  BY <1>6, <1>7, <1>8, <1>9 DEF JournalInv

LEMMA OweStep ==
  ASSUME JournalInv, Owe(delivery) PROVE JournalInv'
<1>1. TypeOK /\ TableInv /\ FlightInv /\ WakeInv /\ row \in Table
  BY Typed DEF JournalInv
<1>2. /\ UNCHANGED <<row, nextId, flight, revoked, detached, wanted, timer, kicking, mode, bounded,
                     provider, intake, copies, expired, retryOwed, shown, turned, last>>
      /\ delivery # Nothing /\ delivery.phase = "apply"
      /\ upsets < MaxUpsets /\ upsets' = upsets + 1
      /\ Committed(delivery, FALSE)
      /\ delivery' = [delivery EXCEPT !.phase = "owing"]
  BY DEF Owe, Upset, Advance, tableVars, wakeVars, inputVars
<1>3. delivery' \in Attempt /\ delivery'.phase = "owing"
  BY <1>1, <1>2 DEF TypeOK, Attempt
<1>4. TableInv' /\ log' \in Seq(Commit)
  BY <1>1, <1>2, CommitStep
<1>5. upsets \in Nat /\ upsets' \in 0 .. MaxUpsets
  BY <1>1, <1>2, JournalAssumption DEF TypeOK
<1>6. FlightInv'
  BY <1>1, <1>2, <1>3, <1>5, FS_CardinalityType
  DEF FlightInv, HandlersOK, DeliveryOK, CommitOK
<1>7. WakeInv'
  BY <1>1, <1>2 DEF WakeInv, WakeOK, Followed, AccountFlightsWake, Waking
<1>8. TypeOK'
  BY <1>1, <1>2, <1>3, <1>4, <1>5 DEF TypeOK
<1> QED
  BY <1>4, <1>6, <1>7, <1>8 DEF JournalInv

LEMMA RefuseStep ==
  ASSUME JournalInv, Refuse PROVE JournalInv'
<1>1. TypeOK /\ TableInv /\ FlightInv /\ WakeInv
  BY DEF JournalInv
<1>2. /\ UNCHANGED <<row, nextId, flight, detached, wanted, timer, kicking, mode, bounded,
                     provider, upsets, intake, copies, expired, retryOwed, log, shown, turned,
                     last>>
      /\ delivery # Nothing /\ ~FlightOpen /\ revoked' = TRUE
      /\ delivery' = [delivery EXCEPT !.phase = "present"]
  BY DEF Refuse, SeenClosed, Advance, tableVars, wakeVars, hostVars, inputVars, histVars
<1>3. delivery' \in Attempt /\ delivery'.phase = "present" /\ flight.at = "delivering"
  BY <1>1, <1>2 DEF TypeOK, Attempt, FlightInv, HandlersOK
<1>4. TypeOK'
  BY <1>1, <1>2, <1>3 DEF TypeOK
<1>5. TableInv'
  BY <1>1, <1>2, TableFrame
<1>6. FlightInv'
  BY <1>1, <1>2, <1>3 DEF FlightInv, HandlersOK, DeliveryOK, CommitOK
<1>7. WakeInv'
  BY <1>1, <1>2, <1>3 DEF WakeInv, WakeOK, Followed, AccountFlightsWake, Waking, FlightOpen
<1> QED
  BY <1>4, <1>5, <1>6, <1>7 DEF JournalInv

(* What becomes of the delivery in hand says no more than was done.        *)
LEMMA DealtStep ==
  ASSUME JournalInv, delivery # Nothing, NEW f \in {"returned", "refused", "unsure"},
         delivery' = [delivery EXCEPT !.phase = f],
         shown' \subseteq LoggedIn(log), shown' \in SUBSET Event, turned' \in SUBSET Event,
         shown \subseteq shown', turned \subseteq turned',
         f = "returned" => delivery.event \in shown',
         f = "refused" => delivery.event \in turned',
         UNCHANGED <<row, nextId, flight, revoked, detached, wanted, timer, kicking, mode,
                     bounded, provider, upsets, intake, copies, expired, retryOwed, log, last>>
  PROVE  JournalInv'
<1>1. TypeOK /\ TableInv /\ FlightInv /\ WakeInv
  BY DEF JournalInv
<1>2. delivery' \in Attempt /\ delivery'.phase = f /\ delivery'.event = delivery.event
  BY <1>1 DEF TypeOK, Attempt
<1>3. TypeOK'
  BY <1>1, <1>2 DEF TypeOK
<1>4. OnceOK(row, expired, LoggedIn(log), shown' \cup turned')
  BY <1>1 DEF TableInv, OnceOK
<1>5. TableInv'
  BY <1>1, <1>4 DEF TableInv, AppliedLast, AppliesInArrivalOrder
<1>6. FlightInv'
  BY <1>1, <1>2 DEF FlightInv, HandlersOK, DeliveryOK, CommitOK
<1>7. WakeInv'
  BY <1>1 DEF WakeInv, WakeOK, Followed, AccountFlightsWake, Waking
<1> QED
  BY <1>3, <1>5, <1>6, <1>7 DEF JournalInv

LEMMA PresentStep ==
  ASSUME JournalInv, Present(delivery) PROVE JournalInv'
<1>1. TypeOK /\ TableInv /\ FlightInv
  BY DEF JournalInv
<1>2. /\ UNCHANGED <<row, nextId, flight, revoked, detached, wanted, timer, kicking, mode,
                     bounded, provider, upsets, intake, copies, expired, retryOwed, log, turned,
                     last>>
      /\ delivery # Nothing /\ delivery.phase = "present" /\ ~revoked
      /\ delivery' = [delivery EXCEPT !.phase = "returned"]
      /\ shown' = shown \cup {delivery.event}
  BY DEF Present, AttemptOpen, FlightOpen, Advance, tableVars, wakeVars, hostVars, inputVars
<1>3. delivery.event \in LoggedIn(log) /\ delivery.event \in Event
  BY <1>1, <1>2 DEF FlightInv, DeliveryOK, TypeOK, Attempt
<1>4. /\ shown' \subseteq LoggedIn(log) /\ shown' \in SUBSET Event /\ turned' \in SUBSET Event
  BY <1>1, <1>2, <1>3 DEF TableInv, TypeOK
<1> QED
  BY <1>2, <1>4, DealtStep

LEMMA TurnAwayStep ==
  ASSUME JournalInv, TurnAway PROVE JournalInv'
<1>1. TypeOK /\ TableInv
  BY DEF JournalInv
<1>2. /\ UNCHANGED <<row, nextId, flight, revoked, detached, wanted, timer, kicking, mode,
                     bounded, provider, upsets, intake, copies, expired, retryOwed, log, shown,
                     last>>
      /\ delivery # Nothing /\ delivery' = [delivery EXCEPT !.phase = "refused"]
      /\ turned' = turned \cup {delivery.event}
  BY DEF TurnAway, Advance, tableVars, wakeVars, hostVars, inputVars
<1>3. /\ shown' \subseteq LoggedIn(log) /\ shown' \in SUBSET Event /\ turned' \in SUBSET Event
  BY <1>1, <1>2 DEF TableInv, TypeOK, Attempt
<1> QED
  BY <1>2, <1>3, DealtStep

LEMMA DoubtStep ==
  ASSUME JournalInv, Doubt PROVE JournalInv'
<1>1. TypeOK /\ TableInv
  BY DEF JournalInv
<1>2. /\ UNCHANGED <<row, nextId, flight, revoked, detached, wanted, timer, kicking, mode,
                     bounded, provider, upsets, intake, copies, expired, retryOwed, log, shown,
                     turned, last>>
      /\ delivery # Nothing /\ delivery' = [delivery EXCEPT !.phase = "unsure"]
  BY DEF Doubt, Advance, tableVars, wakeVars, hostVars, inputVars, histVars
<1>3. /\ shown' \subseteq LoggedIn(log) /\ shown' \in SUBSET Event /\ turned' \in SUBSET Event
  BY <1>1, <1>2 DEF TableInv, TypeOK
<1> QED
  BY <1>2, <1>3, DealtStep

LEMMA DetachedEndsStep ==
  ASSUME JournalInv, NEW a \in detached, DetachedEnds(a) PROVE JournalInv'
<1>1. TypeOK /\ TableInv /\ FlightInv /\ WakeInv
  BY DEF JournalInv
<1>2. /\ UNCHANGED <<row, nextId, flight, revoked, delivery, wanted, timer, kicking, mode,
                     bounded, provider, upsets, intake, copies, expired, retryOwed,
                     log, shown, turned, last>>
      /\ detached' = detached \ {a}
  BY DEF DetachedEnds, tableVars, wakeVars, hostVars, inputVars, histVars
<1>3. IsFiniteSet(detached') /\ Cardinality(detached') <= Cardinality(detached)
      /\ Cardinality(detached) \in Nat /\ Cardinality(detached') \in Nat
  BY <1>1, <1>2, FS_Subset, FS_CardinalityType DEF FlightInv, HandlersOK
<1>4. TypeOK'
  BY <1>1, <1>2 DEF TypeOK
<1>5. TableInv'
  BY <1>1, <1>2, TableFrame
<1>6. FlightInv'
  BY <1>1, <1>2, <1>3 DEF FlightInv, HandlersOK, TypeOK
<1>7. WakeInv'
  BY <1>1, <1>2 DEF WakeInv, WakeOK, Followed, AccountFlightsWake, Waking
<1> QED
  BY <1>4, <1>5, <1>6, <1>7 DEF JournalInv

-----------------------------------------------------------------------------
(* The settlements. *)

LEMMA RescheduledRow ==
  ASSUME NEW r \in Row, r.state = "pending", r.receipt = "none", NEW D, NEW e
  PROVE  /\ Rescheduled(r) \in Row /\ Later(e, r, Rescheduled(r), D)
         /\ Rescheduled(r).token = NoToken /\ Rescheduled(r).attempts = r.attempts
  BY DEF Rescheduled, Row, Later

(* What each settlement makes of a row that the delivery owns. *)
LEMMA SettledRow ==
  ASSUME JournalInv, delivery # Nothing, Owns(delivery)
  PROVE  LET r == row[delivery.event]
             OK(s) == s \in Row /\ Later(delivery.event, r, s, shown \cup turned)
         IN  /\ delivery.phase \in Processed => OK(Completed(r))
             /\ OK(Failed(r)) /\ OK(Spent(r, "poisoned")) /\ OK(Deferred(r))
<1> DEFINE e == delivery.event
           r == row[e]
           D == shown \cup turned
<1>1. TypeOK /\ TableInv /\ FlightInv /\ row \in Table /\ delivery \in Attempt
  BY Typed DEF JournalInv, TypeOK
<1>2. /\ e \in Event /\ e \in Live(row) /\ r \in Row /\ r.state = "pending"
      /\ r.token = delivery.token /\ delivery.token # NoToken
  BY <1>1, JournalAssumption DEF Attempt, Owns, Is, Live, Table
<1>3. r.receipt = "none" /\ r.attempts >= 1 /\ r.attempts \in 0 .. MaxAttempts
  BY <1>1, <1>2 DEF TableInv, RowOK, Row
<1>4. delivery.phase \in Processed => e \in D
  BY <1>1, <1>2 DEF FlightInv, DeliveryOK, Processed
<1> HIDE DEF r, e, D
<1>5. delivery.phase \in Processed
        => Completed(r) \in Row /\ Later(e, r, Completed(r), D)
  BY <1>2, <1>4, SpentRow, SpentLater DEF Completed
<1>6. Spent(r, "poisoned") \in Row /\ Later(e, r, Spent(r, "poisoned"), D)
  BY <1>2, SpentRow, SpentLater
<1>7. /\ Rescheduled(r) \in Row /\ Later(e, r, Rescheduled(r), D)
      /\ Rescheduled(r).token = NoToken /\ Rescheduled(r).attempts = r.attempts
  BY <1>2, <1>3, RescheduledRow
<1>8. Failed(r) \in Row /\ Later(e, r, Failed(r), D)
  BY <1>6, <1>7 DEF Failed
<1>9. Deferred(r) \in Row /\ Later(e, r, Deferred(r), D)
  <2> DEFINE s == Rescheduled(r)
             d == [s EXCEPT !.attempts = @ - 1]
  <2>1. s \in Row /\ Later(e, r, s, D) /\ s.token = NoToken /\ s.attempts = r.attempts
    BY <1>7
  <2> HIDE DEF s
  <2>2. s.attempts - 1 \in 0 .. MaxAttempts
    BY <1>3, <2>1, JournalAssumption
  <2>3. /\ d \in Row /\ d.token = s.token /\ d.id = s.id /\ d.ticket = s.ticket
        /\ d.applied = s.applied /\ d.state = s.state /\ d.receipt = s.receipt
    BY <2>1, <2>2 DEF Row
  <2>4. Later(e, r, d, D)
    BY <2>1, <2>3 DEF Later
  <2>5. Deferred(r) = IF r.late THEN Spent(r, "poisoned") ELSE d
    BY DEF Deferred, s
  <2> HIDE DEF d
  <2> QED
    BY <1>6, <2>3, <2>4, <2>5
<1> QED
  BY <1>5, <1>6, <1>8, <1>9 DEF r, e, D

(* After a settlement the flight claims again or ends at its limit.        *)
LEMMA FinishStep ==
  ASSUME JournalInv, delivery # Nothing, NEW r, NEW terminal \in BOOLEAN,
         Finish(r, terminal),
         Owns(delivery) => /\ r \in Row
                           /\ Later(delivery.event, row[delivery.event], r, shown \cup turned),
         detached' \in SUBSET Attempt, \A a \in detached' : ~a.live,
         IsFiniteSet(detached'), Cardinality(detached') <= upsets',
         upsets' \in 0 .. MaxUpsets, retryOwed' \in BOOLEAN
  PROVE  JournalInv'
<1>1. /\ TypeOK /\ TableInv /\ FlightInv /\ WakeInv /\ row \in Table
      /\ flight.at = "delivering"
  BY Typed DEF JournalInv, FlightInv, HandlersOK
<1>2. /\ UNCHANGED <<nextId, timer, mode, bounded, provider, intake, copies, expired,
                     log, shown, turned, last>>
      /\ delivery' = Nothing /\ NextRow /\ row' \in Settled(r, terminal) /\ ~revoked
  BY DEF Finish, FlightOpen, inputVars, histVars
<1>3. row' \in Table /\ Wears(row, row', shown \cup turned)
  BY <1>1, <1>2, SettledWears DEF TypeOK
<1>4. TableInv' /\ Pending(row') \subseteq Pending(row)
  BY <1>1, <1>2, <1>3, TableWears
<1>5. ASSUME flight' \in [at : {"idle", "claiming", "looking", "arming", "delivering"},
                          context : Context \cup {"gone"}, wake : BOOLEAN],
             flight'.at # "delivering", revoked' = FALSE,
             wanted' \in BOOLEAN, kicking' \in SUBSET Context, WakeInv'
      PROVE  JournalInv'
  <2>1. TypeOK'
    BY <1>1, <1>2, <1>3, <1>5 DEF TypeOK, Table
  <2>2. FlightInv'
    BY <1>2, <1>5 DEF FlightInv, HandlersOK, DeliveryOK, CommitOK
  <2> QED
    BY <1>4, <1>5, <2>1, <2>2 DEF JournalInv
<1>6. CASE /\ flight' = [flight EXCEPT !.at = "claiming"]
           /\ UNCHANGED <<revoked, wanted, kicking>>
  <2>1. /\ flight' \in [at : {"idle", "claiming", "looking", "arming", "delivering"},
                       context : Context \cup {"gone"}, wake : BOOLEAN]
        /\ flight'.at = "claiming" /\ flight'.context = flight.context
    BY <1>1, <1>6 DEF TypeOK
  <2>2. WakeInv'
    BY <1>1, <1>2, <1>6, <2>1 DEF WakeInv, WakeOK, Followed, AccountFlightsWake, Waking
  <2> QED
    BY <1>1, <1>2, <1>5, <1>6, <2>1, <2>2 DEF TypeOK
<1>7. CASE EndFlight(TRUE)
  <2>1. /\ WakeInv' /\ flight' = Grounded /\ revoked' = FALSE /\ wanted' = FALSE
        /\ kicking' \in SUBSET Context
    BY <1>1, <1>2, <1>4, <1>7, EndedFlight
  <2>2. flight'.at = "idle"
    BY <2>1 DEF Grounded
  <2> QED
    BY <1>5, <2>1, <2>2, Idle
<1> QED
  BY <1>2, <1>6, <1>7 DEF NextRow

LEMMA SettleStep ==
  ASSUME JournalInv, Settle PROVE JournalInv'
<1> DEFINE r == row[delivery.event]
           OK(s) == s \in Row /\ Later(delivery.event, r, s, shown \cup turned)
<1>1. /\ TypeOK /\ HandlersOK /\ detached \in SUBSET Attempt /\ upsets \in 0 .. MaxUpsets
      /\ retryOwed \in BOOLEAN
  BY DEF JournalInv, FlightInv, TypeOK
<1>2. delivery # Nothing
  BY DEF Settle, Complete, Fail, Poison, Defer, Timeout
<1>3. Owns(delivery) => /\ delivery.phase \in Processed => OK(Completed(r))
                        /\ OK(Failed(r)) /\ OK(Spent(r, "poisoned")) /\ OK(Deferred(r))
  BY <1>2, SettledRow
<1>4. ASSUME NEW s, NEW terminal \in BOOLEAN, Finish(s, terminal), Owns(delivery) => OK(s),
             UNCHANGED <<detached, upsets>>, retryOwed' \in BOOLEAN
      PROVE  JournalInv'
  <2>1. /\ detached' \in SUBSET Attempt /\ (\A a \in detached' : ~a.live)
        /\ IsFiniteSet(detached') /\ Cardinality(detached') <= upsets'
        /\ upsets' \in 0 .. MaxUpsets
    BY <1>1, <1>4 DEF HandlersOK
  <2> QED
    BY <1>2, <1>4, <2>1, FinishStep
<1> HIDE DEF OK
<1>5. CASE Complete
  <2>1. /\ delivery.phase \in Processed /\ Finish(Completed(r), TRUE)
        /\ UNCHANGED <<detached, retryOwed, upsets>>
    BY <1>5 DEF Complete
  <2> QED
    BY <1>1, <1>3, <1>4, <2>1
<1>6. CASE Fail
  BY <1>1, <1>3, <1>4, <1>6 DEF Fail
<1>7. CASE Poison
  BY <1>1, <1>3, <1>4, <1>7 DEF Poison
<1>8. CASE Defer
  <2>1. retryOwed' \in BOOLEAN /\ Finish(Deferred(r), FALSE) /\ UNCHANGED <<detached, upsets>>
    BY <1>1, <1>8 DEF Defer, Is
  <2> QED
    BY <1>3, <1>4, <2>1
<1>9. CASE Timeout
  <2>1. /\ Finish(Failed(r), FALSE) /\ detached' = detached \cup {Revoked(delivery)}
        /\ upsets < MaxUpsets /\ upsets' = upsets + 1 /\ retryOwed' = retryOwed
    BY <1>9 DEF Timeout, Upset
  <2>2. Revoked(delivery) \in Attempt /\ ~Revoked(delivery).live
    BY <1>1, <1>2 DEF Revoked, TypeOK, Attempt
  <2>3. upsets' \in 0 .. MaxUpsets
    BY <1>1, <2>1, JournalAssumption
  <2>4. IsFiniteSet(detached') /\ Cardinality(detached') <= upsets'
    <3>1. /\ IsFiniteSet(detached) /\ Cardinality(detached) <= upsets
          /\ Cardinality(detached) \in Nat
      BY <1>1, FS_CardinalityType DEF HandlersOK
    <3>2. /\ IsFiniteSet(detached')
          /\ Cardinality(detached') = IF Revoked(delivery) \in detached
                                      THEN Cardinality(detached) ELSE Cardinality(detached) + 1
      BY <2>1, <3>1, FS_AddElement
    <3> QED
      BY <1>1, <2>1, <3>1, <3>2
  <2>5. detached' \in SUBSET Attempt /\ \A a \in detached' : ~a.live
    BY <1>1, <2>1, <2>2 DEF HandlersOK
  <2>6. Owns(delivery) => /\ Failed(r) \in Row
                          /\ Later(delivery.event, row[delivery.event], Failed(r),
                                   shown \cup turned)
    BY <1>3 DEF OK
  <2> QED
    BY <1>1, <1>2, <2>1, <2>3, <2>4, <2>5, <2>6, FinishStep
<1> QED
  BY <1>5, <1>6, <1>7, <1>8, <1>9 DEF Settle

-----------------------------------------------------------------------------
(* The host and the clock. *)

LEMMA HostStep ==
  ASSUME JournalInv, Host PROVE JournalInv'
<1>1. TypeOK /\ TableInv /\ FlightInv /\ WakeInv
  BY DEF JournalInv
<1>2. CASE RetryRecovered
  <2>1. /\ UNCHANGED <<row, nextId, flight, revoked, delivery, detached, wanted, timer, mode,
                       provider, upsets, intake, copies, expired, log, shown, turned, last>>
        /\ retryOwed' = FALSE /\ bounded' = TRUE /\ kicking' = kicking \cup {"bounded"}
    BY <1>2 DEF RetryRecovered, tableVars, flightVars, inputVars, histVars
  <2>2. TypeOK'
    <3>1. kicking' \in SUBSET Context /\ bounded' \in BOOLEAN /\ retryOwed' \in BOOLEAN
      BY <1>1, <2>1 DEF TypeOK, Context
    <3>2. UNCHANGED <<row, nextId, flight, revoked, delivery, detached, wanted, timer, mode,
                      provider, upsets, intake, copies, expired, log, shown, turned, last>>
      BY <2>1
    <3> QED
      BY <1>1, <3>1, <3>2 DEF TypeOK
  <2>3. TableInv'
    BY <1>1, <2>1, TableFrame
  <2>4. FlightInv'
    BY <1>1, <2>1 DEF FlightInv, HandlersOK
  <2>5. WakeInv'
    BY <1>1, <2>1 DEF WakeInv, WakeOK, Followed, AccountFlightsWake, Waking
  <2> QED
    BY <2>2, <2>3, <2>4, <2>5 DEF JournalInv
<1>3. CASE ContextEnds
  <2>1. /\ UNCHANGED <<row, nextId, revoked, delivery, detached, wanted, mode,
                       provider, upsets, copies,
                       expired, retryOwed, log, shown, turned>>
        /\ bounded' = FALSE /\ kicking' = kicking \ {"bounded"}
        /\ flight' = [flight EXCEPT !.context = IF @ = "bounded" THEN "gone" ELSE @]
        /\ timer' = IF timer = "bounded" THEN "none" ELSE timer
        /\ intake' = [i \in DOMAIN intake |->
                       [intake[i] EXCEPT !.context = IF @ = "bounded" THEN "gone" ELSE @]]
        /\ last' = IF "bounded" \in kicking THEN "failed" ELSE last
    BY <1>3 DEF ContextEnds, tableVars
  <2>2. /\ flight' \in [at : {"idle", "claiming", "looking", "arming", "delivering"},
                        context : Context \cup {"gone"}, wake : BOOLEAN]
        /\ flight'.at = flight.at /\ flight'.wake = flight.wake
        /\ flight.context = "account" => flight'.context = "account"
    BY <1>1, <2>1 DEF TypeOK
  <2>3. /\ intake' \in Seq(Arrival) /\ DOMAIN intake' = DOMAIN intake
        /\ \A i \in DOMAIN intake : intake'[i].ticket = intake[i].ticket
    <3>1. intake \in Seq(Arrival)
      BY <1>1 DEF TypeOK
    <3>2. \A i \in DOMAIN intake : /\ intake[i] \in Arrival /\ intake'[i] \in Arrival
                                   /\ intake'[i].ticket = intake[i].ticket
      <4> TAKE i \in DOMAIN intake
      <4>1. intake[i] \in Arrival
        BY <3>1
      <4>2. intake'[i] = [intake[i] EXCEPT !.context = IF @ = "bounded" THEN "gone" ELSE @]
        BY <2>1
      <4> QED
        BY <4>1, <4>2 DEF Arrival
    <3>3. DOMAIN intake' = 1 .. Len(intake) /\ Len(intake) \in Nat
          /\ intake' = [i \in 1 .. Len(intake) |-> intake'[i]]
      BY <2>1, <3>1
    <3>4. intake' \in [1 .. Len(intake) -> Arrival]
      BY <3>1, <3>2, <3>3
    <3>5. intake' \in Seq(Arrival)
      BY <3>3, <3>4
    <3> QED
      BY <2>1, <3>2, <3>5
  <2>4. TypeOK'
    BY <1>1, <2>1, <2>2, <2>3 DEF TypeOK
  <2>5. IntakeOK(row, log, intake', copies)
    <3>1. IntakeOK(row, log, intake, copies)
      BY <1>1 DEF TableInv
    <3> QED
      BY <2>3, <3>1 DEF IntakeOK
  <2>6. TableInv'
    BY <1>1, <2>1, <2>5 DEF TableInv, AppliedLast, AppliesInArrivalOrder
  <2>7. FlightInv'
    <3>1. CommitOK(delivery, row, log, expired, intake', copies)
      BY <1>1, <2>3 DEF FlightInv, CommitOK
    <3> QED
      BY <1>1, <2>1, <2>2, <3>1 DEF FlightInv, HandlersOK
  <2>8. last' = "account" => last = "account"
    BY <2>1
  <2>9. WakeInv'
    BY <1>1, <2>1, <2>2, <2>8 DEF WakeInv, WakeOK, Followed, AccountFlightsWake, Waking
  <2> QED
    BY <2>4, <2>6, <2>7, <2>9 DEF JournalInv
<1>4. CASE Leave
  <2>1. /\ UNCHANGED <<row, nextId, flight, revoked, delivery, detached, wanted, timer, kicking,
                       bounded, provider, intake, copies, expired, retryOwed,
                       log, shown, turned, last>>
        /\ mode' \in {"background", "locked"} /\ upsets < MaxUpsets /\ upsets' = upsets + 1
    BY <1>4 DEF Leave, Upset, tableVars, flightVars, wakeVars, inputVars, histVars
  <2>2. upsets \in Nat /\ upsets' \in 0 .. MaxUpsets
    BY <1>1, <2>1, JournalAssumption DEF TypeOK
  <2>3. TypeOK'
    BY <1>1, <2>1, <2>2 DEF TypeOK
  <2>4. TableInv'
    BY <1>1, <2>1, TableFrame
  <2>5. FlightInv'
    BY <1>1, <2>1, <2>2, FS_CardinalityType DEF FlightInv, HandlersOK
  <2>6. WakeInv'
    BY <1>1, <2>1 DEF WakeInv, WakeOK, AccountFlightsWake
  <2> QED
    BY <2>3, <2>4, <2>5, <2>6 DEF JournalInv
<1>5. CASE Foreground
  <2>1. /\ UNCHANGED <<row, nextId, flight, revoked, delivery, detached, wanted, timer, bounded,
                       provider, upsets, intake, copies, expired, retryOwed,
                       log, shown, turned, last>>
        /\ mode' = "foreground" /\ kicking' = kicking \cup {"account"}
    BY <1>5 DEF Foreground, tableVars, flightVars, inputVars, histVars
  <2>2. TypeOK'
    BY <1>1, <2>1 DEF TypeOK, Context
  <2>3. TableInv'
    BY <1>1, <2>1, TableFrame
  <2>4. FlightInv'
    BY <1>1, <2>1 DEF FlightInv, HandlersOK
  <2>5. WakeInv'
    BY <1>1, <2>1 DEF WakeInv, WakeOK, Followed, AccountFlightsWake, Waking
  <2> QED
    BY <2>2, <2>3, <2>4, <2>5 DEF JournalInv
<1>6. CASE Crash
  <2>1. /\ UNCHANGED <<row, nextId, copies, expired, log, shown, turned, last>>
        /\ intake' = <<>> /\ flight' = Grounded /\ revoked' = FALSE /\ delivery' = Nothing
        /\ detached' = {} /\ wanted' = FALSE /\ timer' = "none" /\ kicking' = {}
        /\ mode' = "background" /\ bounded' = FALSE /\ retryOwed' = FALSE
        /\ provider' = Unknown /\ upsets < MaxUpsets /\ upsets' = upsets + 1
    BY <1>6 DEF Crash, Upset, tableVars, histVars
  <2>2. upsets' \in 0 .. MaxUpsets
    BY <1>1, <2>1, JournalAssumption DEF TypeOK
  <2>3. TypeOK'
    <3>1. intake' \in Seq(Arrival) /\ delivery' \in Attempt \cup {Nothing}
      BY <2>1
    <3>2. /\ UNCHANGED <<row, nextId, copies, expired, log, shown, turned, last>>
          /\ flight' = Grounded /\ revoked' = FALSE
          /\ detached' = {} /\ wanted' = FALSE /\ timer' = "none" /\ kicking' = {}
          /\ mode' = "background" /\ bounded' = FALSE /\ retryOwed' = FALSE
          /\ provider' = Unknown
      BY <2>1
    <3> QED
      BY <1>1, <2>2, <3>1, <3>2, Idle DEF TypeOK
  <2>4. IntakeOK(row, log, <<>>, copies)
    BY <1>1 DEF TableInv, IntakeOK
  <2>5. TableInv'
    BY <1>1, <2>1, <2>4 DEF TableInv, AppliedLast, AppliesInArrivalOrder
  <2>6. FlightInv'
    BY <2>1, <2>2, FS_EmptySet DEF FlightInv, HandlersOK, DeliveryOK, CommitOK
  <2>7. WakeInv'
    BY <2>1 DEF WakeInv, WakeOK, AccountFlightsWake, Grounded
  <2> QED
    BY <2>3, <2>5, <2>6, <2>7 DEF JournalInv
<1>7. CASE PairingChanges
  <2>1. /\ UNCHANGED <<row, nextId, flight, revoked, delivery, detached, wanted, timer, kicking,
                       mode, bounded, intake, copies, expired, retryOwed, log, shown, turned,
                       last>>
        /\ provider' \in Epoch \cup {Unknown}
        /\ (upsets < MaxUpsets /\ upsets' = upsets + 1) \/ upsets' = upsets
    BY <1>7 DEF PairingChanges, Upset, tableVars, flightVars, wakeVars, histVars, inputVars
  <2>2. upsets \in Nat /\ upsets' \in 0 .. MaxUpsets /\ upsets <= upsets'
    BY <1>1, <2>1, JournalAssumption DEF TypeOK
  <2>3. TypeOK'
    BY <1>1, <2>1, <2>2 DEF TypeOK
  <2>4. TableInv'
    BY <1>1, <2>1, TableFrame
  <2>5. FlightInv'
    BY <1>1, <2>1, <2>2, FS_CardinalityType DEF FlightInv, HandlersOK, TypeOK
  <2>6. WakeInv'
    BY <1>1, <2>1 DEF WakeInv, WakeOK, Followed, AccountFlightsWake, Waking
  <2> QED
    BY <2>3, <2>4, <2>5, <2>6 DEF JournalInv
<1> QED
  BY <1>2, <1>3, <1>4, <1>5, <1>6, <1>7 DEF Host

LEMMA TimeStep ==
  ASSUME JournalInv, NEW e \in Event, Time(e) PROVE JournalInv'
<1>1. /\ TypeOK /\ TableInv /\ FlightInv /\ WakeInv /\ row \in Table /\ upsets \in Nat
  BY Typed DEF JournalInv, TypeOK
<1>2. UNCHANGED <<nextId, flight, revoked, delivery, detached, wanted, timer, kicking, mode,
                  bounded, provider, intake, copies, retryOwed, log, shown, turned, last>>
  BY DEF Time, LeaseLapses, BackoffEnds, Expires, ReceiptAges, Mark, flightVars, wakeVars,
     histVars
<1>3. upsets' \in 0 .. MaxUpsets /\ upsets <= upsets'
  BY <1>1, JournalAssumption
  DEF Time, LeaseLapses, BackoffEnds, Expires, ReceiptAges, Upset, TypeOK
<1>4. HandlersOK'
  BY <1>1, <1>2, <1>3, FS_CardinalityType DEF FlightInv, HandlersOK
<1>5. Pending(row') \subseteq Pending(row) => WakeInv'
  BY <1>1, <1>2 DEF WakeInv, WakeOK, Followed, AccountFlightsWake, Waking
<1>6. CASE LeaseLapses(e) \/ BackoffEnds(e) \/ Expires(e)
  <2>1. PICK s : /\ row' = [row EXCEPT ![e] = s] /\ expired' = expired
                 /\ \/ s = [row[e] EXCEPT !.leased = FALSE]
                    \/ s = [row[e] EXCEPT !.due = TRUE]
                    \/ s = [row[e] EXCEPT !.late = TRUE]
                 /\ Is(row, e, "pending")
    BY <1>6 DEF LeaseLapses, BackoffEnds, Expires, Mark
  <2>2. row[e] \in Row /\ row[e] # Absent /\ e \in Live(row) /\ row[e].state = "pending"
    BY <1>1, <2>1 DEF Is, Table, Live
  <2>3. /\ s \in Row /\ s.id = row[e].id /\ s.ticket = row[e].ticket
        /\ s.applied = row[e].applied /\ s.state = row[e].state /\ s.receipt = row[e].receipt
        /\ s.token = row[e].token /\ s.attempts = row[e].attempts
    BY <2>1, <2>2 DEF Row
  <2>4. Later(e, row[e], s, shown \cup turned)
    BY <1>1, <2>2, <2>3 DEF TableInv, RowOK, Later
  <2>5. /\ row' \in Table /\ Wears(row, row', shown \cup turned)
    <3>1. LET u == [row EXCEPT ![e] = s]
          IN  u \in Table /\ Wears(row, u, shown \cup turned)
      BY <1>1, <2>2, <2>3, <2>4, OneLater
    <3> QED
      BY <2>1, <3>1
  <2>6. expired' = expired
    BY <2>1
  <2>7. TableInv' /\ Pending(row') \subseteq Pending(row)
    BY <1>1, <1>2, <2>5, <2>6, TableWears
  <2>8. CommitOK(delivery, row', log, expired, intake, copies)
    BY <1>1, <1>2, <2>5, <2>6, CommitWears
  <2>9. TypeOK'
    BY <1>1, <1>2, <1>3, <2>5, <2>6 DEF TypeOK, Table
  <2>10. FlightInv'
    BY <1>1, <1>2, <1>4, <2>6, <2>8 DEF FlightInv
  <2> QED
    BY <1>5, <2>7, <2>9, <2>10 DEF JournalInv
<1>7. CASE ReceiptAges(e)
  <2> DEFINE s == [row[e] EXCEPT !.receipt = "evictable"]
  <2>1. /\ row[e] # Absent /\ row[e].receipt = "guarding"
        /\ expired' = expired \cup {e} /\ row' = [row EXCEPT ![e] = s]
    BY <1>7 DEF ReceiptAges, Mark
  <2>2. row[e] \in Row /\ e \in Live(row) /\ row[e].state # "pending"
    BY <1>1, <2>1 DEF Table, Live, TableInv, RowOK
  <2>3. /\ s \in Row /\ s # Absent /\ s.id = row[e].id /\ s.ticket = row[e].ticket
        /\ s.applied = row[e].applied /\ s.state = row[e].state /\ s.receipt = "evictable"
        /\ s.token = row[e].token /\ s.attempts = row[e].attempts
    BY <2>2, NoRecords DEF Row
  <2> HIDE DEF s
  <2>4. row' \in Table /\ \A d \in Event : row'[d] = IF d = e THEN s ELSE row[d]
    BY <1>1, <2>1, <2>3 DEF Table
  <2>5. /\ Live(row') = Live(row) /\ Pending(row') = Pending(row) /\ e \notin Pending(row)
        /\ \A d \in Pending(row) : row'[d] = row[d]
    BY <2>1, <2>2, <2>3, <2>4 DEF Live, Pending, Is
  <2>6. \A d \in Live(row) : /\ row'[d].id = row[d].id /\ row'[d].ticket = row[d].ticket
                             /\ row'[d].applied = row[d].applied
                             /\ row'[d].state = row[d].state /\ row'[d].token = row[d].token
                             /\ row'[d].attempts = row[d].attempts
                             /\ d # e => row'[d].receipt = row[d].receipt
                             /\ d = e => row'[d].receipt = "evictable"
    BY <2>3, <2>4 DEF Live
  <2>7. RowOK(row', nextId)
    <3>1. RowOK(row, nextId)
      BY <1>1 DEF TableInv
    <3>2. \A d \in Live(row') : row'[d].state = "pending" <=> row'[d].receipt = "none"
      BY <2>2, <2>5, <2>6, <3>1 DEF RowOK
    <3> QED
      BY <2>5, <2>6, <3>1, <3>2 DEF RowOK
  <2>8. OnceOK(row', expired', LoggedIn(log), shown \cup turned)
    <3>1. OnceOK(row, expired, LoggedIn(log), shown \cup turned) /\ LoggedIn(log) \in SUBSET Event
      BY <1>1, Typed DEF TableInv
    <3>2. ASSUME NEW d \in LoggedIn(log), d \notin expired'
          PROVE  row'[d] # Absent /\ (row'[d].state = "pending" => row'[d].applied)
      BY <2>1, <2>4, <3>1, <3>2 DEF OnceOK
    <3>3. ASSUME NEW d \in Live(row')
          PROVE  /\ row'[d].receipt = "evictable" => d \in expired'
                 /\ d \in expired' => row'[d].state # "pending"
                 /\ row'[d].applied => d \in LoggedIn(log)
                 /\ row'[d].state = "completed" => d \in shown \cup turned
      <4>1. d \in Live(row) /\ d \in expired' <=> (d \in expired \/ d = e)
        BY <2>1, <2>5
      <4> QED
        BY <2>2, <2>5, <2>6, <3>1, <4>1 DEF OnceOK
    <3> QED
      BY <3>1, <3>2, <3>3 DEF OnceOK
  <2>9. LogOK(row', log, expired') /\ IntakeOK(row', log, intake, copies)
    <3>1. /\ LogOK(row, log, expired) /\ IntakeOK(row, log, intake, copies)
          /\ \A i \in DOMAIN log : log[i].event \in Event
      BY <1>1, Typed DEF TableInv
    <3>2. \A i \in DOMAIN log :
            log[i].event \in expired'
              \/ (row'[log[i].event] # Absent /\ row'[log[i].event].ticket = log[i].ticket)
      BY <2>1, <2>4, <3>1 DEF LogOK
    <3>3. LogOK(row', log, expired')
      BY <2>5, <2>6, <3>1, <3>2 DEF LogOK
    <3> QED
      BY <2>5, <2>6, <3>1, <3>3 DEF IntakeOK
  <2>10. TableInv'
    BY <1>1, <1>2, <2>7, <2>8, <2>9 DEF TableInv, AppliedLast, AppliesInArrivalOrder
  <2>11. CommitOK(delivery, row', log, expired', intake, copies)
    <3> SUFFICES ASSUME delivery # Nothing, delivery.phase = "apply"
                 PROVE  CommitOK(delivery, row', log, expired', intake, copies)
      BY DEF CommitOK
    <3>1. delivery.event \in Event /\ CommitOK(delivery, row, log, expired, intake, copies)
      BY <1>1 DEF TypeOK, Attempt, FlightInv
    <3>2. \/ delivery.event \in expired'
          \/ row'[delivery.event] # Absent /\ row'[delivery.event].ticket = delivery.ticket
      BY <2>1, <2>4, <3>1 DEF CommitOK
    <3> QED
      BY <2>5, <2>6, <3>1, <3>2 DEF CommitOK
  <2>12. TypeOK'
    BY <1>1, <1>2, <1>3, <2>1, <2>4 DEF TypeOK, Table
  <2>13. FlightInv'
    BY <1>1, <1>2, <1>4, <2>11 DEF FlightInv
  <2> QED
    BY <1>5, <2>5, <2>10, <2>12, <2>13 DEF JournalInv
<1> QED
  BY <1>6, <1>7 DEF Time

-----------------------------------------------------------------------------
(* The theorems. *)

LEMMA InitInv == Init => JournalInv
<1> SUFFICES ASSUME Init PROVE JournalInv
  OBVIOUS
<1>1. TypeOK
  <2>1. /\ row \in [Event -> Row \cup {Absent}] /\ intake \in Seq(Arrival)
        /\ delivery \in Attempt \cup {Nothing} /\ kicking \in SUBSET Context
    BY DEF Init, Context
  <2>2. log \in Seq(Commit)
    BY DEF Init
  <2>3. 0 \in 0 .. MaxCopies /\ 0 \in 0 .. MaxUpsets
    BY JournalAssumption
  <2> QED
    BY <2>1, <2>2, <2>3, Idle DEF Init, TypeOK
<1>2. Live(row) = {} /\ Pending(row) = {} /\ DOMAIN log = {} /\ DOMAIN intake = {}
  BY DEF Init, Live, Pending, Is
<1>3. LoggedIn(log) = {}
  BY <1>2 DEF LoggedIn
<1>4. TableInv
  BY <1>2, <1>3 DEF TableInv, RowOK, OnceOK, LogOK, IntakeOK, AppliedLast, AppliesInArrivalOrder,
     Init
<1>5. FlightInv
  BY FS_EmptySet DEF FlightInv, DeliveryOK, CommitOK, HandlersOK, Init
<1>6. WakeInv
  BY <1>2 DEF WakeInv, WakeOK, AccountFlightsWake, Init, Grounded
<1> QED
  BY <1>1, <1>4, <1>5, <1>6 DEF JournalInv

LEMMA NextInv == JournalInv /\ [Next]_vars => JournalInv'
<1> SUFFICES ASSUME JournalInv, [Next]_vars PROVE JournalInv'
  OBVIOUS
<1>1. ASSUME NEW e \in Event, Receive(e) \/ Time(e) PROVE JournalInv'
  BY <1>1, ReceiveStep, TimeStep
<1>2. ASSUME NEW c \in Context, Kick(c) PROVE JournalInv'
  BY <1>2, KickStep
<1>3. ASSUME NEW a \in detached, Apply(a) \/ Owe(a) \/ Present(a) \/ DetachedEnds(a)
      PROVE  JournalInv'
  BY <1>3, RevokedIsIdle, DetachedEndsStep
<1>4. CASE Persist \/ Fire \/ Abort \/ Host
  BY <1>4, PersistStep, FireStep, AbortStep, HostStep
<1>5. CASE Worker
  BY <1>5, ClaimStep, LookStep, ArmStep, ApplyStep, OweStep, RefuseStep, TurnAwayStep, DoubtStep,
     PresentStep, SettleStep
  DEF Worker, Handler
<1>6. CASE UNCHANGED vars
  <2>1. UNCHANGED <<row, nextId, intake, copies, expired, log, shown, turned>>
    BY <1>6 DEF vars, tableVars, inputVars, histVars
  <2>2. UNCHANGED <<flight, revoked, delivery, detached, wanted, timer, kicking, mode, bounded,
                    provider, upsets, retryOwed, last>>
    BY <1>6 DEF vars, flightVars, wakeVars, hostVars, histVars
  <2>3. TypeOK'
    BY <2>1, <2>2 DEF JournalInv, TypeOK
  <2>4. TableInv'
    BY <2>1, TableFrame DEF JournalInv
  <2>5. FlightInv'
    BY <2>1, <2>2 DEF JournalInv, FlightInv, HandlersOK
  <2>6. WakeInv'
    BY <2>1, <2>2 DEF JournalInv, WakeInv, WakeOK, Followed, AccountFlightsWake, Waking
  <2> QED
    BY <2>3, <2>4, <2>5, <2>6 DEF JournalInv
<1> QED
  BY <1>1, <1>2, <1>3, <1>4, <1>5, <1>6 DEF Next

LEMMA JournalInvariant == Spec => []JournalInv
  BY InitInv, NextInv, PTL DEF Spec

(* However often an event is redelivered, retried, timed out, deferred or  *)
(* restored after a crash, the commit that applies it is its last and so   *)
(* its only one, and what is committed before it is of the same receipt.   *)
THEOREM NothingCommitsAfterApplied == Spec => []AppliedLast
<1>1. JournalInv => AppliedLast
  BY DEF JournalInv, TableInv
<1> QED
  BY <1>1, JournalInvariant, PTL

(* The events of one ordering key change the database in the order of      *)
(* their callbacks, also by what they commit before they are applied,      *)
(* through backoffs, deferrals, timeouts and crashes.                      *)
THEOREM WritesFollowArrival == Spec => []AppliesInArrivalOrder
<1>1. JournalInv => AppliesInArrivalOrder
  BY DEF JournalInv, TableInv
<1> QED
  BY <1>1, JournalInvariant, PTL

(* Nothing is presented before its domain writes are durable.              *)
THEOREM PresentedIsDurable == Spec => []NotifiedIsApplied
<1>1. JournalInv => NotifiedIsApplied
  BY DEF JournalInv, TableInv, NotifiedIsApplied, AppliedIn, LoggedIn
<1> QED
  BY <1>1, JournalInvariant, PTL

(* No event is lost behind a completed receipt: it was applied and         *)
(* presented, or its delivery was told to drop it, and never completed     *)
(* because a guard was closed, a lease lost or a pairing unknown; no row   *)
(* spends more attempts than it has, and the journal is typed.             *)
THEOREM CompletedWasDealtWith == Spec => []CompletedIsDone
<1>1. JournalInv => CompletedIsDone
  BY DEF JournalInv, TableInv, OnceOK, CompletedIsDone, AppliedIn, LoggedIn, Is, Live
<1> QED
  BY <1>1, JournalInvariant, PTL

(* The account's own flights and admissions leave no pending row in the    *)
(* foreground without a flight, a timer or a kick.                         *)
THEOREM AccountLeavesNoRowAsleep == Spec => []AccountFlightsWake
<1>1. JournalInv => AccountFlightsWake
  BY DEF JournalInv, WakeInv
<1> QED
  BY <1>1, JournalInvariant, PTL

(* Every effect is the work of the delivery the flight is making now, and  *)
(* the commit that applies an event that of the holder of its row's lease. *)
THEOREM OnlyTheOwnerActs == Spec => EffectsByOwner
<1> DEFINE Act == /\ log' # log \/ shown' # shown => delivery # Nothing /\ delivery' # delivery
                  /\ log' # log /\ log'[Len(log')].applied => Owns(delivery)
<1>1. JournalInv /\ [Next]_vars => [Act]_vars
  <2> SUFFICES ASSUME JournalInv, Next PROVE Act
    BY DEF vars
  <2>1. ASSUME NEW a, a = delivery, Apply(a) PROVE Act
    <3>1. /\ a # Nothing /\ a.phase = "apply" /\ Owns(a)
          /\ delivery' = [a EXCEPT !.phase = "present"]
          /\ a \in Attempt
      BY <2>1 DEF Apply, Advance, JournalInv, TypeOK
    <3>2. delivery'.phase = "present"
      BY <3>1 DEF Attempt
    <3> QED
      BY <2>1, <3>1, <3>2
  <2>1a. ASSUME NEW a, a = delivery, Owe(a) PROVE Act
    <3>1. /\ a # Nothing /\ a.phase = "apply" /\ delivery' = [a EXCEPT !.phase = "owing"]
          /\ a \in Attempt /\ log \in Seq(Commit) /\ shown' = shown
          /\ log' = Append(log, [event |-> a.event, ticket |-> a.ticket, applied |-> FALSE])
      BY <2>1a DEF Owe, Committed, Advance, JournalInv, TypeOK
    <3>2. delivery'.phase = "owing"
      BY <3>1 DEF Attempt
    <3>3. ~log'[Len(log')].applied
      <4> DEFINE x == [event |-> a.event, ticket |-> a.ticket, applied |-> FALSE]
      <4>1. x \in Commit /\ ~x.applied
        BY <3>1 DEF Attempt, Commit
      <4> HIDE DEF x
      <4>2. log' = Append(log, x) /\ log'[Len(log')] = x
        BY <3>1, <4>1 DEF x
      <4> QED
        BY <4>1, <4>2
    <3> QED
      BY <2>1a, <3>1, <3>2, <3>3
  <2>2. ASSUME NEW a, a = delivery, Present(a) PROVE Act
    <3>1. /\ a # Nothing /\ a.phase = "present" /\ delivery' = [a EXCEPT !.phase = "returned"]
          /\ a \in Attempt /\ log' = log
      BY <2>2 DEF Present, Advance, JournalInv, TypeOK
    <3>2. delivery'.phase = "returned"
      BY <3>1 DEF Attempt
    <3> QED
      BY <2>2, <3>1, <3>2
  <2>3. ASSUME UNCHANGED <<log, shown>> PROVE Act
    BY <2>3
  <2> HIDE DEF Act
  <2>4. ASSUME NEW e \in Event, Receive(e) \/ Time(e) PROVE Act
    BY <2>3, <2>4 DEF Receive, Time, LeaseLapses, BackoffEnds, Expires, ReceiptAges, Mark, histVars
  <2>5. ASSUME NEW c \in Context, Kick(c) PROVE Act
    BY <2>3, <2>5 DEF Kick
  <2>6. ASSUME NEW a \in detached, Apply(a) \/ Owe(a) \/ Present(a) \/ DetachedEnds(a)
        PROVE  Act
    BY <2>3, <2>6, RevokedIsIdle DEF DetachedEnds, histVars
  <2>7. CASE Persist \/ Fire \/ Abort
    BY <2>3, <2>7 DEF Persist, Fire, Abort, histVars
  <2>8. CASE Host
    BY <2>3, <2>8 DEF Host, RetryRecovered, ContextEnds, Leave, Foreground, Crash, PairingChanges,
     histVars
  <2>9. CASE Claim \/ Look \/ Arm \/ Refuse \/ TurnAway \/ Doubt
    BY <2>3, <2>9 DEF Claim, Look, Arm, Refuse, TurnAway, Doubt, histVars
  <2>10. CASE Settle
    BY <2>3, <2>10 DEF Settle, Complete, Fail, Poison, Defer, Timeout, Finish, histVars
  <2> QED
    BY <2>1, <2>1a, <2>2, <2>4, <2>5, <2>6, <2>7, <2>8, <2>9, <2>10 DEF Next, Worker, Handler
<1> QED
  BY <1>1, JournalInvariant, PTL DEF Spec, EffectsByOwner

=============================================================================
