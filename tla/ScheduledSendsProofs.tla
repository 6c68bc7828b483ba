------------------------ MODULE ScheduledSendsProofs ------------------------
(***************************************************************************)
(* Scheduled messages, for any letters, runs, screens and bounds: what a   *)
(* run has claimed stays its own to move, and once a recovery is cached no *)
(* row is left sending by a run that is gone; and, as long as no two calls *)
(* of the owner's are about the same letter, a turn goes out once, what    *)
(* was withdrawn does not go out, and what was promised is not lost.       *)
(***************************************************************************)
EXTENDS ScheduledSends, TLAPS

Status == {"pending", "sending", "sent", "error"}

RowRecord ==
  [letter : Letter, kind : Kind, turn : Turn, version : Version, at : Slot,
   on : Item \cup {None}, status : Status, attempts : 0 .. MaxAttempts]

MacRecord ==
  [letter : Letter \cup {None}, kind : Kind, version : Version, at : Slot,
   state : {"none", "pending", "sent", "failed", "removed"}]

SyncRecord ==
  [stage : {"off", "exposed", "merging"}, exposed : SUBSET (Nat \X Item),
   list : SUBSET (Item \X {"pending", "sent", "failed"}), left : SUBSET Item,
   prunes : BOOLEAN]

Stage == {"none", "insert", "create", "lost", "timedOut", "editor", "list", "replace",
          "recreate", "patch", "withdraw", "drop"}

OpRecord ==
  [stage : Stage, letter : Letter \cup {None}, version : Version, kind : Kind,
   turn : Turn, at : Slot, row : Nat, wasAt : Slot, wasOn : Item \cup {None},
   on : Item \cup {None}, resolves : BOOLEAN]

RunRecord == [stage : {"off", "waiting", "firing"}, claim : Claimed \cup {None}]

\* A row at time t: only its own turn is due by its time, a row of the Mac's is not
\* the phone's to send, and one that is being sent is the phone's, due, and has an
\* attempt left.
FitRow(x, t) ==
  /\ x \in RowRecord
  /\ x.turn <= x.at /\ x.at <= t + 1
  /\ x.on # None => x.turn = 0 /\ x.attempts = 0
  /\ x.status \in {"pending", "sending"} => x.attempts < MaxAttempts
  /\ x.status = "sending" => x.on = None /\ x.at <= t

\* An item at time t: one that was created is of a letter.
FitItem(x, t) ==
  /\ x \in MacRecord
  /\ x.state # "none" => x.letter \in Letter
  /\ x.at <= t + 1

\* A call at time t: it carries what its screen was opened on, and what it moves
\* between the Mac and the phone has not had a second turn.
FitOp(o, t) ==
  /\ o \in OpRecord
  /\ o.stage # "none" => o.letter \in Letter
  /\ o.turn <= o.wasAt /\ o.wasAt <= t + 1 /\ o.at <= t + 1
  /\ o.wasOn # None => o.turn = 0
  /\ o.stage = "editor" => o.on = None
  /\ o.stage \in {"replace", "recreate", "withdraw"} => o.wasOn # None
  /\ o.stage \in {"replace", "recreate", "patch"} => o.turn <= o.at
  /\ o.stage = "patch" /\ o.wasOn = None => o.on = None

TableInv ==
  /\ nextRow \in 1 .. MaxRow + 1 /\ now \in 0 .. MaxNow
  /\ Id \subseteq 1 .. nextRow - 1
  /\ \A i \in Id : FitRow(rows[i], now)

MacInv == mac \in [Item -> MacRecord] /\ \A i \in Item : FitItem(mac[i], now)

OpInv == op \in [Hand -> OpRecord] /\ \A h \in Hand : FitOp(op[h], now)

\* What is left to merge is in the list the Mac gave.
SyncInv ==
  /\ sync \in SyncRecord
  /\ \A i \in sync.left :
       /\ mac[i].state # "none"
       /\ \E e \in sync.list : e[1] = i

\* A run is in line once from its start to its end, and beyond its wait it has the
\* turn.
LineInv ==
  /\ run \in [Run -> RunRecord] /\ current \in [Run -> BOOLEAN] /\ recovered \in BOOLEAN
  /\ line \in Seq(Run)
  /\ \A m, n \in 1 .. Len(line) : line[m] = line[n] => m = n
  /\ \A r \in Run : run[r].stage # "off" <=> \E n \in 1 .. Len(line) : line[n] = r
  /\ \A r \in Run : run[r].stage = "firing" => HasTurn(r)
  /\ \A r \in Run : run[r].claim # None => run[r].stage = "firing"

ClaimInv ==
  /\ \A r \in Run : run[r].claim # None => Held(run[r].claim.row)
  /\ recovered => Stuck \subseteq ClaimedRows \cup stuck

Inv == TableInv /\ MacInv /\ OpInv /\ SyncInv /\ LineInv /\ ClaimInv

-----------------------------------------------------------------------------
(* What a step leaves alone.                                                 *)

\* Rows that are being sent are what they were, and no other is.
SendingKept ==
  /\ \A i \in Id : rows[i].status = "sending" => i \in DOMAIN rows' /\ rows'[i] = rows[i]
  /\ \A i \in DOMAIN rows' : rows'[i].status = "sending" => i \in Id /\ rows'[i] = rows[i]

\* What the Mac has created stays created.
ItemsKept == \A i \in Item : mac[i].state # "none" => mac'[i].state # "none"

LEMMA Items == Item \subseteq Nat /\ None \notin Item
  BY ScheduledAssumption DEF Item

\* The table is sound when every row is one it had or is sound itself.
LEMMA TableKeeps ==
  ASSUME TableInv, UNCHANGED <<nextRow, now>>, DOMAIN rows' \subseteq Id,
         \A i \in DOMAIN rows' : rows'[i] = rows[i] \/ FitRow(rows'[i], now)
  PROVE  TableInv'
  BY DEF TableInv, Id, FitRow

\* Claims hold while the rows that are being sent stay.
LEMMA ClaimsKeep ==
  ASSUME ClaimInv, SendingKept, UNCHANGED <<run, recovered, stuck>>
  PROVE  ClaimInv'
  BY DEF ClaimInv, SendingKept, Held, Local, Stuck, ClaimedRows, Id

LEMMA LineKeeps ==
  ASSUME LineInv, UNCHANGED <<run, current, recovered, line>> PROVE LineInv'
  BY DEF LineInv, HasTurn

LEMMA SyncKeeps ==
  ASSUME SyncInv, ItemsKept, UNCHANGED sync PROVE SyncInv'
  BY DEF SyncInv, ItemsKept, SyncRecord

\* A call of the owner's changes the table, the Mac and itself.
LEMMA OwnerKeeps ==
  ASSUME Inv, UNCHANGED ownerRest, TableInv', MacInv', OpInv', SendingKept, ItemsKept
  PROVE  Inv'
  BY ClaimsKeep, LineKeeps, SyncKeeps DEF Inv, ownerRest, runVars

\* A call that touches only itself.
LEMMA OnlyItself ==
  ASSUME Inv, UNCHANGED <<rows, nextRow, mac, ownerRest>>, OpInv' PROVE Inv'
<1>1. TableInv' /\ MacInv'
  BY DEF Inv, TableInv, MacInv, ownerRest, Id, FitRow, FitItem
<1>2. SendingKept /\ ItemsKept
  BY DEF SendingKept, ItemsKept, Id
<1> QED
  BY <1>1, <1>2, OwnerKeeps

-----------------------------------------------------------------------------
(* The calls of the owner.                                                   *)

LEMMA NoOpFits == ASSUME Inv PROVE FitOp(NoOp, now)
  BY ScheduledAssumption DEF FitOp, OpRecord, NoOp, Stage, Kind, Turn, Slot, Version, Item,
     Inv, TableInv

\* One call becomes what is sound, the others stay.
LEMMA OpKeeps ==
  ASSUME Inv, NEW h \in Hand, NEW o, FitOp(o, now), op' = [op EXCEPT ![h] = o], now' = now
  PROVE  OpInv'
<1>1. o \in OpRecord
  BY DEF FitOp
<1>2. op' \in [Hand -> OpRecord] /\ \A g \in Hand : op'[g] = IF g = h THEN o ELSE op[g]
  BY <1>1 DEF Inv, OpInv
<1> QED
  BY <1>2 DEF Inv, OpInv, FitOp

LEMMA DoneKeeps == ASSUME Inv, NEW h \in Hand, Done(h), now' = now PROVE OpInv'
  BY NoOpFits, OpKeeps DEF Done

\* A call that moves to a stage whose conditions it meets.
LEMMA StepKeeps ==
  ASSUME Inv, NEW h \in Hand, NEW stage \in Stage, Step(h, stage), now' = now,
         op[h].stage # "none", stage # "editor",
         stage \in {"replace", "recreate", "withdraw"} => op[h].wasOn # None,
         stage \in {"replace", "recreate", "patch"} => op[h].turn <= op[h].at,
         stage = "patch" /\ op[h].wasOn = None => op[h].on = None
  PROVE  OpInv'
<1> DEFINE o == [op[h] EXCEPT !.stage = stage]
<1>1. FitOp(op[h], now)
  BY DEF Inv, OpInv
<1>2. FitOp(o, now)
  BY <1>1 DEF FitOp, OpRecord
<1>3. op' = [op EXCEPT ![h] = o]
  BY DEF Step
<1> HIDE DEF o
<1> QED
  BY <1>2, <1>3, OpKeeps

\* The Mac creates an item it had not.
LEMMA Creates ==
  ASSUME Inv, NEW o, FitOp(o, now), o.stage # "none", MacCreates(o), now' = now
  PROVE  MacInv' /\ ItemsKept /\ Fresh \in Item
<1> DEFINE new == [letter |-> o.letter, kind |-> o.kind, version |-> o.version, at |-> o.at,
                   state |-> "pending"]
<1>1. Fresh \in Unused
  BY DEF MacCreates, Fresh
<1>2. Fresh \in Item
  BY <1>1 DEF Unused
<1>3. FitItem(new, now) /\ new.state = "pending" /\ new \in MacRecord
  BY DEF FitOp, FitItem, OpRecord, MacRecord
<1>4. mac' = [mac EXCEPT ![Fresh] = new]
  BY DEF MacCreates
<1> HIDE DEF new
<1>5. /\ mac' \in [Item -> MacRecord]
      /\ \A i \in Item : mac'[i] = IF i = Fresh THEN new ELSE mac[i]
  BY <1>2, <1>3, <1>4 DEF Inv, MacInv
<1>6. MacInv'
  BY <1>3, <1>5 DEF Inv, MacInv, FitItem
<1>7. ItemsKept
  BY <1>3, <1>5 DEF ItemsKept
<1> QED
  BY <1>2, <1>6, <1>7

\* An item moves to another state than none.
LEMMA Settles ==
  ASSUME Inv, NEW i \in Item, NEW s \in {"sent", "failed", "removed"}, mac[i].state # "none",
         mac' = [mac EXCEPT ![i].state = s], now' = now
  PROVE  MacInv' /\ ItemsKept
<1> DEFINE new == [mac[i] EXCEPT !.state = s]
<1>1. FitItem(mac[i], now) /\ mac[i].letter \in Letter
  BY DEF Inv, MacInv, FitItem
<1>2. FitItem(new, now) /\ new.state # "none" /\ new \in MacRecord
  BY <1>1 DEF FitItem, MacRecord
<1>3. mac' = [mac EXCEPT ![i] = new]
  OBVIOUS
<1> HIDE DEF new
<1>4. /\ mac' \in [Item -> MacRecord]
      /\ \A j \in Item : mac'[j] = IF j = i THEN new ELSE mac[j]
  BY <1>2, <1>3 DEF Inv, MacInv
<1>5. MacInv'
  BY <1>2, <1>4 DEF Inv, MacInv, FitItem
<1>6. ItemsKept
  BY <1>2, <1>4 DEF ItemsKept
<1> QED
  BY <1>5, <1>6

LEMMA SameMac == ASSUME Inv, UNCHANGED <<mac, now>> PROVE MacInv' /\ ItemsKept
  BY DEF Inv, MacInv, FitItem, ItemsKept

LEMMA SameTable ==
  ASSUME Inv, UNCHANGED <<rows, nextRow, now>> PROVE TableInv' /\ SendingKept
  BY DEF Inv, TableInv, SendingKept, FitRow, Id

LEMMA ScheduleKeeps ==
  ASSUME Inv, NEW h \in Hand, NEW l \in Letter, NEW kind \in Kind, Schedule(h, l, kind)
  PROVE  Inv'
<1> DEFINE o == [NoOp EXCEPT !.stage = IF kind = "repeat" THEN "insert" ELSE "create",
                             !.letter = l, !.kind = kind, !.at = now + 1]
<1>1. FitOp(o, now)
  <2>1. now + 1 \in Slot /\ now \in Nat
    BY ScheduledAssumption DEF Slot, Inv, TableInv
  <2>2. FitOp(NoOp, now) /\ NoOp.turn = 0 /\ NoOp.wasAt = 0 /\ NoOp.wasOn = None
    BY NoOpFits DEF NoOp
  <2> DEFINE stage == IF kind = "repeat" THEN "insert" ELSE "create"
  <2>3. stage \in {"insert", "create"}
    OBVIOUS
  <2> HIDE DEF stage
  <2> DEFINE new == [NoOp EXCEPT !.stage = stage, !.letter = l, !.kind = kind, !.at = now + 1]
  <2>4. /\ new \in OpRecord /\ new.stage = stage /\ new.letter = l /\ new.at = now + 1
        /\ new.turn = 0 /\ new.wasAt = 0 /\ new.wasOn = None
    BY <2>1, <2>2, <2>3 DEF FitOp, OpRecord, Stage
  <2>5. FitOp(new, now)
    <3> HIDE DEF new
    <3> QED
      BY <2>1, <2>3, <2>4 DEF FitOp
  <2> QED
    BY <2>5 DEF stage
<1>2. op' = [op EXCEPT ![h] = o] /\ UNCHANGED <<rows, nextRow, mac, ownerRest>>
  BY DEF Schedule
<1> HIDE DEF o
<1>3. OpInv'
  BY <1>1, <1>2, OpKeeps DEF ownerRest
<1> QED
  BY <1>2, <1>3, OnlyItself

\* What every call of a hand finds: its own soundness.
LEMMA HandFits ==
  ASSUME Inv, NEW h \in Hand PROVE FitOp(op[h], now) /\ op[h] \in OpRecord
  BY DEF Inv, OpInv, FitOp

\* A call that takes an item with it to a stage of its own.
LEMMA TakesItem ==
  ASSUME Inv, NEW h \in Hand, NEW stage \in {"insert", "patch"}, NEW on \in Item \cup {None},
         op[h].stage \notin {"none"}, now' = now,
         stage = "patch" => op[h].turn <= op[h].at /\ op[h].wasOn # None,
         op' = [op EXCEPT ![h].stage = stage, ![h].on = on]
  PROVE  OpInv'
<1> DEFINE o == [op[h] EXCEPT !.stage = stage, !.on = on]
<1>1. FitOp(op[h], now) /\ op[h] \in OpRecord
  BY HandFits
<1>2. FitOp(o, now)
  BY <1>1 DEF FitOp, OpRecord, Stage
<1>3. op' = [op EXCEPT ![h] = o]
  BY DEF Inv, OpInv
<1> HIDE DEF o
<1> QED
  BY <1>2, <1>3, OpKeeps

LEMMA CreateKeeps == ASSUME Inv, NEW h \in Hand, Create(h) PROVE Inv'
<1>1. op[h].stage = "create" /\ UNCHANGED <<rows, nextRow, ownerRest>> /\ now' = now
  BY DEF Create, ownerRest
<1>2. FitOp(op[h], now)
  BY HandFits
<1>3. MacInv' /\ ItemsKept /\ (MacCreates(op[h]) => Fresh \in Item)
  BY <1>1, <1>2, Creates, SameMac DEF Create
<1>4. OpInv'
  <2>1. CASE MacCreates(op[h]) /\ op' = [op EXCEPT ![h].stage = "insert", ![h].on = Fresh]
    BY <1>1, <1>3, <2>1, TakesItem
  <2>2. CASE Done(h)
    BY <1>1, <2>2, DoneKeeps
  <2>3. CASE Step(h, "insert") \/ Step(h, "lost") \/ Step(h, "timedOut")
    BY <1>1, <2>3, StepKeeps DEF Stage
  <2> QED
    BY <2>1, <2>2, <2>3 DEF Create
<1> QED
  BY <1>1, <1>3, <1>4, SameTable, OwnerKeeps

LEMMA LookKeeps == ASSUME Inv, NEW h \in Hand, Look(h) PROVE Inv'
<1>1. /\ op[h].stage \in {"lost", "timedOut"} /\ now' = now
      /\ UNCHANGED <<rows, nextRow, mac, ownerRest>>
  BY DEF Look, ownerRest
<1>2. OpInv'
  <2>1. ASSUME NEW i \in Copies(h), op' = [op EXCEPT ![h].stage = "insert", ![h].on = i]
        PROVE  OpInv'
    <3>1. i \in Item \cup {None}
      BY DEF Copies, Listed
    <3> QED
      BY <1>1, <2>1, <3>1, TakesItem
  <2>2. CASE Step(h, "insert")
    BY <1>1, <2>2, StepKeeps DEF Stage
  <2>3. CASE Done(h)
    BY <1>1, <2>3, DoneKeeps
  <2> QED
    BY <2>1, <2>2, <2>3 DEF Look
<1> QED
  BY <1>1, <1>2, OnlyItself

\* A new row that is sound, and is not being sent.
LEMMA Inserts ==
  ASSUME Inv, NEW x, FitRow(x, now), x.status # "sending", Insert(x), now' = now
  PROVE  TableInv' /\ SendingKept
<1>1. /\ nextRow \notin Id /\ nextRow' = nextRow + 1 /\ nextRow <= MaxRow
      /\ DOMAIN rows' = Id \cup {nextRow} /\ rows'[nextRow] = x
      /\ \A i \in Id : rows'[i] = rows[i]
  BY ScheduledAssumption DEF Insert, Inv, TableInv
<1>2. TableInv'
  BY <1>1, ScheduledAssumption DEF Inv, TableInv, Id, FitRow
<1>3. SendingKept
  BY <1>1 DEF SendingKept
<1> QED
  BY <1>2, <1>3

LEMMA InsertRowKeeps == ASSUME Inv, NEW h \in Hand, InsertRow(h) PROVE Inv'
<1> DEFINE o == op[h]
           x == [letter |-> o.letter, kind |-> o.kind, turn |-> 0, attempts |-> 0,
                 version |-> 0, at |-> o.at, on |-> o.on, status |-> "pending"]
<1>1. o.stage = "insert" /\ Insert(x) /\ Done(h) /\ UNCHANGED <<mac, ownerRest>> /\ now' = now
  BY DEF InsertRow, ownerRest
<1>2. FitRow(x, now) /\ x.status = "pending"
  BY <1>1, HandFits, ScheduledAssumption
  DEF FitRow, FitOp, OpRecord, RowRecord, Status, Turn, Version, Slot
<1> HIDE DEF x
<1>3. TableInv' /\ SendingKept
  BY <1>1, <1>2, Inserts
<1> QED
  BY <1>1, <1>3, SameMac, DoneKeeps, OwnerKeeps

LEMMA OpenKeeps ==
  ASSUME Inv, NEW h \in Hand, NEW i \in Id, NEW stage \in {"editor", "list"}, Open(h, i, stage)
  PROVE  Inv'
<1> DEFINE o == [NoOp EXCEPT !.stage = stage, !.letter = rows[i].letter, !.row = i,
                    !.turn = rows[i].turn, !.wasAt = rows[i].at,
                    !.wasOn = rows[i].on]
<1>1. FitOp(o, now)
  <2>1. FitRow(rows[i], now) /\ i \in Nat
    BY ScheduledAssumption DEF Inv, TableInv
  <2>2. FitOp(NoOp, now) /\ NoOp.at = 0 /\ NoOp.on = None /\ now \in Nat
    BY NoOpFits DEF NoOp, Inv, TableInv
  <2> QED
    BY <2>1, <2>2 DEF FitOp, OpRecord, FitRow, RowRecord, Stage
<1>2. op' = [op EXCEPT ![h] = o] /\ UNCHANGED <<rows, nextRow, mac, ownerRest>>
  BY DEF Open
<1> HIDE DEF o
<1>3. OpInv'
  BY <1>1, <1>2, OpKeeps DEF ownerRest
<1> QED
  BY <1>2, <1>3, OnlyItself

LEMMA EditKeeps ==
  ASSUME Inv, NEW h \in Hand, NEW at \in Slot, NEW kind \in Kind, Edit(h, at, kind)
  PROVE  Inv'
<1> DEFINE o == op[h]
           new == [o EXCEPT !.stage = IF o.wasOn = None THEN "patch" ELSE "replace",
                            !.version = rows[o.row].version + 1,
                            !.at = at, !.kind = kind]
<1>1. o.stage = "editor" /\ UNCHANGED <<rows, nextRow, mac, ownerRest>> /\ now' = now
  BY DEF Edit, ownerRest
<1>2. OpInv'
  <2>1. CASE Done(h)
    BY <1>1, <2>1, DoneKeeps
  <2>2. CASE SameOccurrence(h) /\ rows[o.row].version < MaxVersion /\ at \in {o.wasAt, now + 1}
             /\ op' = [op EXCEPT ![h] = new]
    <3>1. FitOp(o, now) /\ o \in OpRecord
      BY HandFits
    <3>2. rows[o.row].version + 1 \in Version
      BY <2>2, ScheduledAssumption
      DEF SameOccurrence, Inv, TableInv, FitRow, RowRecord, Version
    <3>3. (IF o.wasOn = None THEN "patch" ELSE "replace") \in Stage
      BY DEF Stage
    <3>4. now \in Nat /\ o.turn <= at /\ at <= now + 1 /\ o.on = None
      BY <1>1, <2>2, <3>1, ScheduledAssumption DEF FitOp, Inv, TableInv, OpRecord, Turn, Slot
    <3>5. FitOp(new, now)
      BY <1>1, <3>1, <3>2, <3>3, <3>4 DEF FitOp, OpRecord
    <3> HIDE DEF new
    <3> QED
      BY <1>1, <2>2, <3>5, OpKeeps
  <2> QED
    BY <2>1, <2>2 DEF Edit
<1> QED
  BY <1>1, <1>2, OnlyItself

\* A removal, whatever came of it.
LEMMA Removal ==
  ASSUME Inv, NEW h \in Hand, NEW stage \in {"recreate", "patch", "drop"}, Remove(h, stage),
         op[h].wasOn # None, op[h].stage # "none", now' = now,
         stage \in {"recreate", "patch"} => op[h].turn <= op[h].at
  PROVE  MacInv' /\ ItemsKept /\ OpInv'
<1>1. op[h].wasOn \in Item
  BY HandFits DEF OpRecord
<1>2. MacInv' /\ ItemsKept
  BY <1>1, Settles, SameMac DEF Remove, MacRemoves
<1>3. OpInv'
  BY DoneKeeps, StepKeeps DEF Remove, Stage
<1> QED
  BY <1>2, <1>3

LEMMA ReplaceKeeps == ASSUME Inv, NEW h \in Hand, Replace(h) PROVE Inv'
<1>1. /\ op[h].stage = "replace" /\ UNCHANGED <<rows, nextRow, ownerRest>> /\ now' = now
      /\ Remove(h, IF op[h].kind = "repeat" THEN "patch" ELSE "recreate")
  BY DEF Replace, ownerRest
<1>2. op[h].wasOn # None /\ op[h].turn <= op[h].at
  BY <1>1, HandFits DEF FitOp
<1>3. (IF op[h].kind = "repeat" THEN "patch" ELSE "recreate") \in {"recreate", "patch", "drop"}
  OBVIOUS
<1>4. MacInv' /\ ItemsKept /\ OpInv'
  BY <1>1, <1>2, <1>3, Removal
<1> QED
  BY <1>1, <1>4, SameTable, OwnerKeeps

LEMMA RecreateKeeps == ASSUME Inv, NEW h \in Hand, Recreate(h) PROVE Inv'
<1>1. op[h].stage = "recreate" /\ UNCHANGED <<rows, nextRow, ownerRest>> /\ now' = now
  BY DEF Recreate, ownerRest
<1>2. FitOp(op[h], now) /\ op[h].wasOn # None /\ op[h].turn <= op[h].at /\ op[h] \in OpRecord
  BY <1>1, HandFits DEF FitOp
<1>3. MacInv' /\ ItemsKept /\ (MacCreates(op[h]) => Fresh \in Item)
  BY <1>1, <1>2, Creates, SameMac DEF Recreate
<1>4. OpInv'
  <2>1. CASE MacCreates(op[h]) /\ op' = [op EXCEPT ![h].stage = "patch", ![h].on = Fresh]
    BY <1>1, <1>2, <1>3, <2>1, TakesItem
  <2>2. CASE op' = [op EXCEPT ![h].stage = "patch", ![h].resolves = FALSE]
    <3> DEFINE o == [op[h] EXCEPT !.stage = "patch", !.resolves = FALSE]
    <3>1. /\ o \in OpRecord /\ o.stage = "patch"
          /\ o.letter = op[h].letter /\ o.turn = op[h].turn /\ o.at = op[h].at
          /\ o.wasAt = op[h].wasAt /\ o.wasOn = op[h].wasOn
      BY <1>2 DEF OpRecord, Stage
    <3>2. op' = [op EXCEPT ![h] = o]
      BY <2>2 DEF Inv, OpInv
    <3> HIDE DEF o
    <3>3. FitOp(o, now)
      BY <1>1, <1>2, <3>1 DEF FitOp
    <3> QED
      BY <1>1, <3>2, <3>3, OpKeeps
  <2> QED
    BY <2>1, <2>2 DEF Recreate
<1> QED
  BY <1>1, <1>3, <1>4, SameTable, OwnerKeeps

\* A pending row that becomes a sound one which is not being sent either.
LEMMA Rewrites ==
  ASSUME Inv, NEW i \in Id, NEW x, FitRow(x, now), x.status # "sending",
         rows[i].status # "sending", rows' = [rows EXCEPT ![i] = x],
         UNCHANGED <<nextRow, now>>
  PROVE  TableInv' /\ SendingKept
<1>1. /\ DOMAIN rows' = Id /\ rows'[i] = x
      /\ \A j \in Id : j # i => rows'[j] = rows[j]
  BY DEF Id
<1>2. TableInv'
  BY <1>1, TableKeeps DEF Inv
<1>3. SendingKept
  BY <1>1 DEF SendingKept
<1> QED
  BY <1>2, <1>3

LEMMA PatchKeeps == ASSUME Inv, NEW h \in Hand, Patch(h) PROVE Inv'
<1> DEFINE o == op[h]
           x == [rows[o.row] EXCEPT !.turn = o.turn, !.version = o.version, !.at = o.at,
                                    !.on = o.on, !.kind = o.kind]
<1>1. o.stage = "patch" /\ Done(h) /\ UNCHANGED <<nextRow, mac, ownerRest>> /\ now' = now
  BY DEF Patch, ownerRest
<1>2. TableInv' /\ SendingKept
  <2>1. CASE ~SameOccurrence(h)
    BY <1>1, <2>1, SameTable DEF Patch
  <2>2. CASE SameOccurrence(h)
    <3>1. o.row \in Id /\ rows[o.row].status = "pending" /\ rows[o.row].on = o.wasOn
      BY <2>2 DEF SameOccurrence
    <3>2. FitRow(rows[o.row], now) /\ FitOp(o, now) /\ o \in OpRecord /\ rows[o.row] \in RowRecord
      BY <3>1, HandFits DEF Inv, TableInv, FitRow
    <3>3. x \in RowRecord /\ x.status = "pending" /\ x.attempts = rows[o.row].attempts
          /\ x.on = o.on /\ x.turn = o.turn /\ x.at = o.at
      BY <1>1, <3>1, <3>2 DEF FitOp, OpRecord, RowRecord
    <3>4. rows' = [rows EXCEPT ![o.row] = x]
      BY <2>2 DEF Patch
    <3> HIDE DEF x
    <3>5. FitRow(x, now)
      BY <1>1, <3>1, <3>2, <3>3 DEF FitRow, FitOp
    <3> QED
      BY <1>1, <3>1, <3>3, <3>4, <3>5, Rewrites
  <2> QED
    BY <2>1, <2>2
<1> QED
  BY <1>1, <1>2, SameMac, DoneKeeps, OwnerKeeps

LEMMA CancelKeeps == ASSUME Inv, NEW h \in Hand, Cancel(h) PROVE Inv'
<1>1. op[h].stage = "list" /\ UNCHANGED <<rows, nextRow, mac, ownerRest>> /\ now' = now
  BY DEF Cancel, ownerRest
<1>2. OpInv'
  <2>1. CASE Done(h)
    BY <1>1, <2>1, DoneKeeps
  <2>2. CASE Step(h, IF op[h].wasOn = None THEN "drop" ELSE "withdraw")
    <3>1. CASE op[h].wasOn = None
      BY <1>1, <2>2, <3>1, StepKeeps DEF Stage
    <3>2. CASE op[h].wasOn # None
      BY <1>1, <2>2, <3>2, StepKeeps DEF Stage
    <3> QED
      BY <3>1, <3>2
  <2> QED
    BY <2>1, <2>2 DEF Cancel
<1> QED
  BY <1>1, <1>2, OnlyItself

LEMMA WithdrawKeeps == ASSUME Inv, NEW h \in Hand, Withdraw(h) PROVE Inv'
<1>1. op[h].stage = "withdraw" /\ UNCHANGED <<rows, nextRow, ownerRest>> /\ now' = now
  BY DEF Withdraw, ownerRest
<1>2. op[h].wasOn # None
  BY <1>1, HandFits DEF FitOp
<1>3. MacInv' /\ ItemsKept /\ OpInv'
  <2>1. CASE Remove(h, "drop")
    BY <1>1, <1>2, <2>1, Removal
  <2>2. CASE Step(h, "drop") /\ UNCHANGED mac
    BY <1>1, <2>2, StepKeeps, SameMac DEF Stage
  <2> QED
    BY <2>1, <2>2 DEF Withdraw
<1> QED
  BY <1>1, <1>3, SameTable, OwnerKeeps

\* Rows that are not being sent are deleted.
LEMMA Deletes ==
  ASSUME Inv, NEW S, \A i \in S \cap Id : rows[i].status # "sending", Delete(S),
         UNCHANGED <<nextRow, now>>
  PROVE  TableInv' /\ SendingKept
<1>1. DOMAIN rows' = Id \ S /\ \A i \in Id \ S : rows'[i] = rows[i]
  BY DEF Delete
<1> QED
  BY <1>1, TableKeeps DEF Inv, SendingKept

LEMMA DropKeeps == ASSUME Inv, NEW h \in Hand, Drop(h) PROVE Inv'
<1>1. Done(h) /\ UNCHANGED <<nextRow, mac, ownerRest>> /\ now' = now
  BY DEF Drop, ownerRest
<1>2. TableInv' /\ SendingKept
  BY <1>1, SameTable, Deletes DEF Drop, SameOccurrence
<1> QED
  BY <1>1, <1>2, SameMac, DoneKeeps, OwnerKeeps

LEMMA ClearKeeps == ASSUME Inv, NEW i \in Id, Clear(i) PROVE Inv'
<1>1. /\ UNCHANGED <<nextRow, mac, op, ownerRest>> /\ now' = now
      /\ Delete({i}) /\ rows[i].status # "sending"
  BY DEF Clear, ownerRest
<1>2. TableInv' /\ SendingKept
  BY <1>1, Deletes
<1>3. OpInv'
  BY <1>1 DEF Inv, OpInv, FitOp
<1> QED
  BY <1>1, <1>2, <1>3, SameMac, OwnerKeeps

LEMMA OwnerStepKeeps == ASSUME Inv, NEW h \in Hand, OwnerStep(h) PROVE Inv'
  BY ScheduleKeeps, CreateKeeps, LookKeeps, InsertRowKeeps, OpenKeeps, EditKeeps, ReplaceKeeps,
     RecreateKeeps, PatchKeeps, CancelKeeps, WithdrawKeeps, DropKeeps
  DEF OwnerStep

-----------------------------------------------------------------------------
(* The reconciliation.                                                       *)

\* A merge or a prune changes the table and itself.
LEMMA SyncStepKeeps ==
  ASSUME Inv, UNCHANGED syncRest, TableInv', SendingKept, SyncInv' PROVE Inv'
<1>1. MacInv'
  BY SameMac DEF syncRest
<1>2. OpInv' /\ LineInv' /\ ClaimInv'
  BY ClaimsKeep, LineKeeps DEF Inv, OpInv, FitOp, syncRest, runVars
<1> QED
  BY <1>1, <1>2 DEF Inv

LEMMA NoSyncFits == NoSync \in SyncRecord /\ NoSync.left = {}
  BY DEF NoSync, SyncRecord

LEMMA ExposeKeeps == ASSUME Inv, Expose PROVE Inv'
<1>1. UNCHANGED <<rows, nextRow, syncRest>> /\ now' = now
  BY DEF Expose, syncRest
<1>2. Exposure \in SUBSET (Nat \X Item)
  <2>1. ASSUME NEW i \in Id, ~Local(i) PROVE <<i, rows[i].on>> \in Nat \X Item
    BY <2>1, ScheduledAssumption DEF Local, Inv, TableInv, FitRow, RowRecord
  <2> QED
    BY <2>1 DEF Exposure
<1>3. sync' \in SyncRecord /\ sync'.left = {}
  BY <1>2, NoSyncFits DEF Expose, SyncRecord
<1> QED
  BY <1>1, <1>3, SameTable, SyncStepKeeps DEF SyncInv

LEMMA FetchKeeps == ASSUME Inv, Fetch PROVE Inv'
<1>1. UNCHANGED <<rows, nextRow, syncRest>> /\ now' = now /\ mac' = mac
  BY DEF Fetch, syncRest
<1>2. SyncInv'
  <2>1. CASE sync' = NoSync
    BY <2>1, NoSyncFits DEF SyncInv
  <2>2. ASSUME NEW others \in BOOLEAN,
               sync' = [sync EXCEPT !.stage = "merging", !.left = Listed,
                          !.list = {<<i, mac[i].state>> : i \in Listed},
                          !.prunes = others \/ Listed # {}]
        PROVE  SyncInv'
    <3> DEFINE list == {<<i, mac[i].state>> : i \in Listed}
               prunes == others \/ Listed # {}
    <3>1. Listed \subseteq Item /\ \A i \in Listed : mac[i].state \in {"pending", "sent", "failed"}
      BY DEF Listed
    <3>2. list \in SUBSET (Item \X {"pending", "sent", "failed"}) /\ prunes \in BOOLEAN
      BY <3>1
    <3>3. \A i \in Listed : \E e \in list : e[1] = i
      <4> TAKE i \in Listed
      <4> WITNESS <<i, mac[i].state>> \in list
      <4> QED
        OBVIOUS
    <3>4. sync' = [sync EXCEPT !.stage = "merging", !.left = Listed, !.list = list,
                               !.prunes = prunes]
      BY <2>2
    <3> HIDE DEF list, prunes
    <3>5. sync' \in SyncRecord /\ sync'.left = Listed /\ sync'.list = list
      BY <3>1, <3>2, <3>4 DEF Inv, SyncInv, SyncRecord
    <3> QED
      BY <1>1, <3>1, <3>3, <3>5 DEF SyncInv
  <2> QED
    BY <2>1, <2>2 DEF Fetch
<1> QED
  BY <1>1, <1>2, SameTable, SyncStepKeeps

\* One item fewer to merge, or one exposure fewer to prune.
LEMMA SyncShrinks ==
  ASSUME Inv, NEW left \in SUBSET sync.left, NEW exposed \in SUBSET sync.exposed,
         sync' = [sync EXCEPT !.left = left] \/ sync' = [sync EXCEPT !.exposed = exposed],
         UNCHANGED mac
  PROVE  SyncInv'
  BY DEF Inv, SyncInv, SyncRecord

LEMMA MergeKeeps == ASSUME Inv, NEW i \in Item, Merge(i) PROVE Inv'
<1> DEFINE e == CHOOSE x \in sync.list : x[1] = i
           state == StatusOf(e[2])
<1>1. /\ i \in sync.left /\ sync' = [sync EXCEPT !.left = @ \ {i}]
      /\ UNCHANGED syncRest /\ now' = now /\ mac' = mac
  BY DEF Merge, syncRest
<1>2. SyncInv'
  <2>1. sync' = [sync EXCEPT !.left = sync.left \ {i}]
    BY <1>1
  <2> QED
    BY <1>1, <2>1, SyncShrinks
<1>3. state \in {"pending", "sent", "error"}
  <2>1. e \in sync.list
    BY <1>1 DEF Inv, SyncInv
  <2>2. e \in Item \X {"pending", "sent", "failed"}
    BY <2>1 DEF Inv, SyncInv, SyncRecord
  <2> QED
    BY <2>2 DEF StatusOf
<1>4. FitItem(mac[i], now) /\ mac[i].letter \in Letter
  BY <1>1 DEF Inv, SyncInv, MacInv, FitItem
<1> HIDE DEF e
<1>5. TableInv' /\ SendingKept
  <2>1. ASSUME NEW r \in Id, rows[r].on = i,
               rows' = [rows EXCEPT ![r] =
                   [@ EXCEPT !.version = mac[i].version, !.at = mac[i].at,
                             !.status = state]],
               UNCHANGED nextRow
        PROVE  TableInv' /\ SendingKept
    <3> DEFINE x == [rows[r] EXCEPT !.version = mac[i].version, !.at = mac[i].at,
                                    !.status = state]
    <3>1. FitRow(rows[r], now) /\ rows[r] \in RowRecord /\ i # None
      BY Items DEF Inv, TableInv, FitRow
    <3>2. /\ x \in RowRecord /\ x.status = state /\ x.on = i /\ x.at = mac[i].at
          /\ x.turn = 0 /\ x.attempts = 0
      BY <1>3, <1>4, <2>1, <3>1 DEF FitRow, FitItem, MacRecord, RowRecord, Status
    <3>3. rows' = [rows EXCEPT ![r] = x]
      BY <2>1
    <3> HIDE DEF x, state
    <3>4. FitRow(x, now) /\ x.status # "sending" /\ rows[r].status # "sending"
      BY <1>3, <1>4, <2>1, <3>1, <3>2, ScheduledAssumption
      DEF FitRow, FitItem, MacRecord, Slot, Inv, TableInv
    <3> QED
      BY <1>1, <2>1, <3>3, <3>4, Rewrites
  <2>2. CASE Insert(RowOf(i, state))
    <3> DEFINE x == RowOf(i, state)
    <3>1. FitRow(x, now) /\ x.status = state
      <4> HIDE DEF state
      <4> QED
        BY <1>3, <1>4, Items, ScheduledAssumption
        DEF FitRow, FitItem, MacRecord, RowRecord, RowOf, Status, Turn, Version, Slot
    <3> HIDE DEF x
    <3> QED
      BY <1>1, <1>3, <2>2, <3>1, Inserts DEF x
  <2>3. CASE UNCHANGED <<rows, nextRow>>
    BY <1>1, <2>3, SameTable
  <2> QED
    BY <2>1, <2>2, <2>3 DEF Merge, e
<1> QED
  BY <1>1, <1>2, <1>5, SyncStepKeeps

LEMMA PruneKeeps == ASSUME Inv, NEW e \in sync.exposed, Prune(e) PROVE Inv'
<1>1. /\ Delete(PruneExact(e)) /\ sync' = [sync EXCEPT !.exposed = sync.exposed \ {e}]
      /\ UNCHANGED <<nextRow, syncRest>> /\ now' = now /\ mac' = mac
  BY DEF Prune, syncRest
<1>2. SyncInv'
  BY <1>1, SyncShrinks
<1>3. \A i \in PruneExact(e) \cap Id : rows[i].status # "sending"
  <2>1. e[2] # None
    BY Items DEF Inv, SyncInv, SyncRecord
  <2> QED
    BY <2>1 DEF PruneExact, Inv, TableInv, FitRow
<1> QED
  BY <1>1, <1>2, <1>3, Deletes, SyncStepKeeps

LEMMA EndSyncKeeps == ASSUME Inv, EndSync PROVE Inv'
  BY NoSyncFits, SameTable, SyncStepKeeps DEF EndSync, SyncInv, syncRest

LEMMA ReconciliationKeeps == ASSUME Inv, SyncStep PROVE Inv'
  BY ExposeKeeps, FetchKeeps, MergeKeeps, PruneKeeps, EndSyncKeeps DEF SyncStep

-----------------------------------------------------------------------------
(* The runs.                                                                 *)

\* A run changes the table, the line and its claims.
LEMMA RunKeeps ==
  ASSUME Inv, UNCHANGED runRest, TableInv', LineInv', ClaimInv' PROVE Inv'
  BY DEF Inv, runRest, MacInv, FitItem, OpInv, FitOp, SyncInv, SyncRecord

\* Only the first in line is past its wait, and it alone has a claim.
LEMMA OneFires ==
  ASSUME Inv, NEW r \in Run, NEW q \in Run, run[r].stage = "firing" \/ HasTurn(r),
         run[q].stage = "firing"
  PROVE  r = q
  BY DEF Inv, LineInv, HasTurn

LEMMA EnterKeeps == ASSUME Inv, NEW r \in Run, Enter(r) PROVE Inv'
<1> USE DEF Inv
<1> DEFINE new == [NoRun EXCEPT !.stage = "waiting"]
<1>1. /\ run[r].stage = "off" /\ line' = Append(line, r) /\ run' = [run EXCEPT ![r] = new]
      /\ current' = [current EXCEPT ![r] = TRUE]
      /\ UNCHANGED <<rows, recovered, stuck, runRest>> /\ now' = now /\ nextRow' = nextRow
  BY DEF Enter, runRest
<1>2. new \in RunRecord /\ new.stage = "waiting" /\ new.claim = None
  BY DEF RunRecord, NoRun
<1> HIDE DEF new
<1>3. run' \in [Run -> RunRecord] /\ \A q \in Run : run'[q] = IF q = r THEN new ELSE run[q]
  BY <1>1, <1>2 DEF LineInv
<1>4. run[r].claim = None
  BY <1>1 DEF LineInv
<1>5. /\ line' \in Seq(Run) /\ Len(line') = Len(line) + 1 /\ Len(line) \in Nat
      /\ \A n \in 1 .. Len(line') : line'[n] = IF n = Len(line) + 1 THEN r ELSE line[n]
  BY <1>1 DEF LineInv
<1>6. ~ \E n \in 1 .. Len(line) : line[n] = r
  BY <1>1 DEF LineInv
<1>7. LineInv'
  <2>1. current' \in [Run -> BOOLEAN] /\ recovered' \in BOOLEAN
    BY <1>1 DEF LineInv
  <2>2. \A m, n \in 1 .. Len(line') : line'[m] = line'[n] => m = n
    BY <1>5, <1>6 DEF LineInv
  <2>3. \A q \in Run : run'[q].stage # "off" <=> \E n \in 1 .. Len(line') : line'[n] = q
    BY <1>2, <1>3, <1>5 DEF LineInv
  <2>4. \A q \in Run : run'[q].stage = "firing" => HasTurn(q)'
    <3> SUFFICES ASSUME NEW q \in Run, run'[q].stage = "firing" PROVE HasTurn(q)'
      OBVIOUS
    <3>1. line # <<>> /\ Head(line) = q
      BY <1>2, <1>3 DEF LineInv, HasTurn
    <3> QED
      BY <1>1, <3>1 DEF HasTurn, LineInv
  <2>5. \A q \in Run : run'[q].claim # None => run'[q].stage = "firing"
    BY <1>2, <1>3 DEF LineInv
  <2> QED
    BY <1>3, <1>5, <2>1, <2>2, <2>3, <2>4, <2>5 DEF LineInv
<1>8. ClaimInv'
  BY <1>1, <1>2, <1>3, <1>4 DEF ClaimInv, Held, Local, Stuck, ClaimedRows, Id
<1> QED
  BY <1>1, <1>7, <1>8, SameTable, RunKeeps

LEMMA LapseKeeps == ASSUME Inv, NEW r \in Run, Lapse(r) PROVE Inv'
<1>1. /\ current' = [current EXCEPT ![r] = FALSE]
      /\ UNCHANGED <<rows, line, run, recovered, stuck, runRest>> /\ now' = now
      /\ nextRow' = nextRow
  BY DEF Lapse, runRest
<1>2. current' \in [Run -> BOOLEAN]
  BY <1>1 DEF Inv, LineInv
<1>3. LineInv'
  BY <1>1, <1>2 DEF Inv, LineInv, HasTurn
<1> QED
  BY <1>1, <1>3, SameTable, ClaimsKeep, RunKeeps DEF Inv

\* The run whose turn it is leaves: it is off, it holds nothing, and the others are
\* where they were.
LEMMA Leaves ==
  ASSUME Inv, NEW r \in Run, HasTurn(r), Leave(r), recovered' \in BOOLEAN
  PROVE  /\ LineInv'
         /\ run'[r].claim = None
         /\ \A q \in Run \ {r} : run'[q] = run[q] /\ run[q].claim = None
<1> USE DEF Inv
<1>1. run' = [run EXCEPT ![r] = NoRun] /\ line' = Tail(line) /\ UNCHANGED current
  BY DEF Leave
<1>2. NoRun \in RunRecord /\ NoRun.stage = "off" /\ NoRun.claim = None
  BY DEF NoRun, RunRecord
<1>3. run' \in [Run -> RunRecord] /\ \A q \in Run : run'[q] = IF q = r THEN NoRun ELSE run[q]
  BY <1>1, <1>2 DEF LineInv
<1>4. /\ line' \in Seq(Run) /\ Len(line') = Len(line) - 1 /\ Len(line) \in Nat \ {0}
      /\ line[1] = r
      /\ \A n \in 1 .. Len(line') : line'[n] = line[n + 1]
  BY <1>1 DEF LineInv, HasTurn
<1>5. \A q \in Run \ {r} : run[q].stage # "firing" /\ run[q].claim = None
  BY OneFires DEF LineInv
<1>6. LineInv'
  <2>1. \A m, n \in 1 .. Len(line') : line'[m] = line'[n] => m = n
    <3> SUFFICES ASSUME NEW m \in 1 .. Len(line'), NEW n \in 1 .. Len(line'), line'[m] = line'[n]
                 PROVE  m = n
      OBVIOUS
    <3>1. line[m + 1] = line[n + 1] /\ m + 1 \in 1 .. Len(line) /\ n + 1 \in 1 .. Len(line)
      BY <1>4
    <3>2. m + 1 = n + 1
      BY <3>1 DEF LineInv
    <3> QED
      BY <3>2, <1>4
  <2>2. \A q \in Run : run'[q].stage # "off" <=> \E n \in 1 .. Len(line') : line'[n] = q
    <3> TAKE q \in Run
    <3>1. CASE q = r
      <4> SUFFICES ASSUME NEW n \in 1 .. Len(line'), line'[n] = r PROVE FALSE
        BY <1>2, <1>3, <3>1
      <4>1. line[n + 1] = line[1] /\ n + 1 \in 1 .. Len(line) /\ 1 \in 1 .. Len(line)
        BY <1>4
      <4>2. n + 1 = 1
        BY <4>1 DEF LineInv
      <4> QED
        BY <4>2, <1>4
    <3>2. CASE q # r
      <4>1. run'[q].stage # "off" <=> \E n \in 1 .. Len(line) : line[n] = q
        BY <1>3, <3>2 DEF LineInv
      <4>2. ASSUME NEW n \in 1 .. Len(line), line[n] = q
            PROVE  \E m \in 1 .. Len(line') : line'[m] = q
        <5>1. n # 1
          BY <1>4, <3>2, <4>2
        <5>2. n - 1 \in 1 .. Len(line') /\ line'[n - 1] = line[n - 1 + 1] /\ n - 1 + 1 = n
          BY <1>4, <5>1
        <5> QED
          BY <4>2, <5>2
      <4>3. ASSUME NEW m \in 1 .. Len(line'), line'[m] = q
            PROVE  \E n \in 1 .. Len(line) : line[n] = q
        <5>1. line[m + 1] = q /\ m + 1 \in 1 .. Len(line)
          BY <1>4, <4>3
        <5> QED
          BY <5>1
      <4> QED
        BY <4>1, <4>2, <4>3
    <3> QED
      BY <3>1, <3>2
  <2>3. \A q \in Run : run'[q].stage # "firing" /\ run'[q].claim = None
    BY <1>2, <1>3, <1>5
  <2>4. current' \in [Run -> BOOLEAN]
    BY <1>1 DEF LineInv
  <2> QED
    BY <1>3, <1>4, <2>1, <2>2, <2>3, <2>4 DEF LineInv
<1> QED
  BY <1>2, <1>3, <1>5, <1>6

\* Rows that were being sent are pending again.
LEMMA Resets ==
  ASSUME Inv, NEW S \in SUBSET Stuck, Reset(S), UNCHANGED <<nextRow, now>>
  PROVE  /\ TableInv'
         /\ DOMAIN rows' = Id
         /\ Stuck' = Stuck \ S
<1> USE DEF Inv
<1>1. /\ DOMAIN rows' = Id
      /\ \A i \in Id : rows'[i] = IF i \in S THEN [rows[i] EXCEPT !.status = "pending"] ELSE rows[i]
  BY DEF Reset
<1>2. ASSUME NEW i \in S PROVE FitRow([rows[i] EXCEPT !.status = "pending"], now)
  <2> DEFINE x == [rows[i] EXCEPT !.status = "pending"]
  <2>1. FitRow(rows[i], now) /\ rows[i].status = "sending" /\ rows[i] \in RowRecord
    BY DEF Stuck, TableInv, FitRow
  <2>2. /\ x \in RowRecord /\ x.status = "pending" /\ x.turn = rows[i].turn /\ x.at = rows[i].at
        /\ x.on = rows[i].on /\ x.attempts = rows[i].attempts
    BY <2>1 DEF RowRecord, Status
  <2> HIDE DEF x
  <2>3. FitRow(x, now)
    BY <2>1, <2>2 DEF FitRow
  <2> QED
    BY <2>3 DEF x
<1>3. TableInv'
  BY <1>1, <1>2, TableKeeps
<1>4. Stuck' = Stuck \ S
  <2>1. \A i \in Id : rows[i] \in RowRecord
    BY DEF TableInv, FitRow
  <2>2. \A i \in S : i \in Id /\ rows'[i].status = "pending"
    BY <1>1, <2>1 DEF Stuck, RowRecord
  <2>3. \A i \in Id \ S : rows'[i] = rows[i]
    BY <1>1
  <2> QED
    BY <1>1, <2>2, <2>3 DEF Stuck, Local, Id
<1> QED
  BY <1>1, <1>3, <1>4

LEMMA RecoverKeeps == ASSUME Inv, NEW r \in Run, Recover(r) PROVE Inv'
<1> USE DEF Inv
<1>1. /\ run[r].stage = "waiting" /\ HasTurn(r) /\ UNCHANGED runRest
      /\ nextRow' = nextRow /\ now' = now
  BY DEF Recover, runRest
<1>2. \A q \in Run : run[q].claim = None
  BY <1>1, OneFires DEF LineInv
<1>3. CASE /\ Reset(IF recovered THEN {} ELSE Stuck)
           /\ recovered' = TRUE /\ run' = [run EXCEPT ![r].stage = "firing"]
           /\ UNCHANGED <<line, current>>
  <2> DEFINE S == IF recovered THEN {} ELSE Stuck
  <2>1. TableInv' /\ Stuck' = Stuck \ S /\ stuck' = stuck \ S
    <3>1. S \in SUBSET Stuck /\ Reset(S)
      BY <1>3
    <3> HIDE DEF S
    <3> QED
      BY <1>1, <3>1, Resets DEF Reset
  <2>2. /\ run' \in [Run -> RunRecord] /\ run'[r].stage = "firing" /\ run'[r].claim = None
        /\ \A q \in Run \ {r} : run'[q] = run[q]
    BY <1>2, <1>3 DEF LineInv, RunRecord
  <2>3. LineInv'
    BY <1>1, <1>2, <1>3, <2>2 DEF LineInv, HasTurn
  <2>4. Stuck' \subseteq stuck'
    <3>1. CASE recovered
      BY <1>2, <2>1, <3>1 DEF ClaimInv, ClaimedRows
    <3>2. CASE ~recovered
      BY <2>1, <3>2
    <3> QED
      BY <3>1, <3>2
  <2>5. ClaimInv'
    BY <1>2, <2>2, <2>4 DEF ClaimInv
  <2> QED
    BY <1>1, <2>1, <2>3, <2>5, RunKeeps
<1>4. ASSUME ~recovered, NEW S \in SUBSET Stuck, Reset(S), UNCHANGED recovered, Leave(r)
      PROVE  Inv'
  <2>1. TableInv'
    BY <1>1, <1>4, Resets
  <2>2. LineInv' /\ \A q \in Run : run'[q].claim = None
    BY <1>1, <1>4, Leaves DEF LineInv
  <2>3. ClaimInv'
    BY <1>4, <2>2 DEF ClaimInv
  <2> QED
    BY <1>1, <2>1, <2>2, <2>3, RunKeeps
<1> QED
  BY <1>3, <1>4 DEF Recover

LEMMA ClaimKeeps == ASSUME Inv, NEW r \in Run, NEW i \in Id, Claim(r, i) PROVE Inv'
<1> USE DEF Inv
<1> DEFINE c == [row |-> i, letter |-> rows[i].letter, turn |-> rows[i].turn,
                 version |-> rows[i].version, kind |-> rows[i].kind]
           x == [rows[i] EXCEPT !.status = "sending"]
<1>1. /\ run[r].stage = "firing" /\ run[r].claim = None /\ Due(i)
      /\ rows' = [rows EXCEPT ![i] = x] /\ run' = [run EXCEPT ![r].claim = c]
      /\ UNCHANGED <<line, current, recovered, stuck, runRest>>
      /\ nextRow' = nextRow /\ now' = now
  BY DEF Claim, Firing, runRest
<1>2. FitRow(rows[i], now) /\ rows[i] \in RowRecord /\ i \in Nat
  BY ScheduledAssumption DEF TableInv, FitRow
<1>3. c \in Claimed /\ c # None /\ c.row = i
  BY <1>2, NoRecords DEF Claimed, RowRecord
<1>4. /\ x \in RowRecord /\ x.status = "sending" /\ x.turn = rows[i].turn /\ x.at = rows[i].at
      /\ x.on = rows[i].on /\ x.attempts = rows[i].attempts
  BY <1>2 DEF RowRecord, Status
<1> HIDE DEF c, x
<1>5. FitRow(x, now)
  BY <1>1, <1>2, <1>4 DEF FitRow, Due, Local
<1>6. DOMAIN rows' = Id /\ rows'[i] = x /\ \A j \in Id \ {i} : rows'[j] = rows[j]
  BY <1>1 DEF Id
<1>7. TableInv'
  BY <1>1, <1>5, <1>6, TableKeeps
<1>8. /\ run' \in [Run -> RunRecord] /\ run'[r].stage = "firing" /\ run'[r].claim = c
      /\ \A q \in Run \ {r} : run'[q] = run[q] /\ run[q].claim = None
  <2>1. \A q \in Run \ {r} : run[q].claim = None
    BY <1>1, OneFires DEF LineInv
  <2> QED
    BY <1>1, <1>3, <2>1 DEF LineInv, RunRecord
<1>9. LineInv'
  BY <1>1, <1>8 DEF LineInv, HasTurn
<1>10. ClaimInv'
  <2>1. Held(i)'
    BY <1>1, <1>4, <1>6 DEF Held, Local, Due, Id
  <2>2. Stuck' \subseteq Stuck \cup {i}
    BY <1>6 DEF Stuck, Local, Id
  <2>3. ClaimedRows = {} /\ ClaimedRows' = {i}
    BY <1>1, <1>3, <1>8 DEF ClaimedRows
  <2> QED
    BY <1>1, <1>3, <1>8, <2>1, <2>2, <2>3 DEF ClaimInv
<1> QED
  BY <1>1, <1>7, <1>9, <1>10, RunKeeps

\* A run puts down its claim, on a row that it moves on or leaves stuck.
LEMMA PutsDown ==
  ASSUME Inv, NEW r \in Run, run[r].claim # None, MoveOn(r),
         UNCHANGED <<line, current, recovered>>,
         DOMAIN rows' = Id,
         \A i \in Id : i # run[r].claim.row => rows'[i] = rows[i],
         stuck \subseteq stuck',
         \/ rows'[run[r].claim.row].status # "sending"
         \/ run[r].claim.row \in stuck'
  PROVE  LineInv' /\ ClaimInv'
<1> USE DEF Inv
<1>1. run' = [run EXCEPT ![r].claim = None] /\ run[r].stage = "firing"
  BY DEF MoveOn, LineInv
<1>2. /\ run' \in [Run -> RunRecord] /\ run'[r].stage = "firing" /\ run'[r].claim = None
      /\ \A q \in Run \ {r} : run'[q] = run[q] /\ run[q].claim = None
  <2>1. \A q \in Run \ {r} : run[q].claim = None
    BY <1>1, OneFires DEF LineInv
  <2> QED
    BY <1>1, <2>1 DEF LineInv, RunRecord
<1>3. LineInv'
  BY <1>1, <1>2 DEF LineInv, HasTurn
<1>4. ClaimedRows \subseteq {run[r].claim.row}
  BY <1>2 DEF ClaimedRows
<1>5. Stuck' \subseteq Stuck \cup {run[r].claim.row}
  BY DEF Stuck, Local, Id
<1>6. run[r].claim.row \in Stuck' => run[r].claim.row \in stuck'
  BY DEF Stuck
<1>7. ClaimInv'
  BY <1>2, <1>4, <1>5, <1>6 DEF ClaimInv
<1> QED
  BY <1>3, <1>7

\* What a run with a claim finds: the row is its own to move.
LEMMA HoldsRow ==
  ASSUME Inv, NEW r \in Run, run[r].claim # None
  PROVE  /\ run[r].claim.row \in Id /\ Held(run[r].claim.row)
         /\ FitRow(rows[run[r].claim.row], now) /\ rows[run[r].claim.row] \in RowRecord
         /\ rows[run[r].claim.row].status = "sending" /\ rows[run[r].claim.row].on = None
         /\ HasTurn(r)
  BY DEF Inv, ClaimInv, Held, Local, TableInv, FitRow, LineInv

\* The claimed row becomes a sound one that is not being sent.
LEMMA Released ==
  ASSUME Inv, NEW r \in Run, run[r].claim # None, MoveOn(r),
         UNCHANGED <<line, current, recovered, stuck, runRest>>,
         NEW x, FitRow(x, now), x.status # "sending",
         rows' = [rows EXCEPT ![run[r].claim.row] = x]
  PROVE  Inv'
<1>1. run[r].claim.row \in Id /\ now' = now /\ nextRow' = nextRow
  BY HoldsRow DEF runRest
<1>2. /\ DOMAIN rows' = Id /\ rows'[run[r].claim.row] = x
      /\ \A i \in Id : i # run[r].claim.row => rows'[i] = rows[i]
  BY <1>1 DEF Id
<1>3. TableInv'
  BY <1>1, <1>2, TableKeeps DEF Inv
<1>4. LineInv' /\ ClaimInv'
  BY <1>2, PutsDown
<1> QED
  BY <1>3, <1>4, RunKeeps

LEMMA HandOverKeeps == ASSUME Inv, NEW r \in Run, HandOver(r) PROVE Inv'
<1> DEFINE c == run[r].claim
           old == rows[c.row]
           again == [old EXCEPT !.status = "pending", !.at = now + 1, !.turn = old.turn + 1,
                                !.attempts = 0]
           over == [old EXCEPT !.status = "sent"]
<1>1. /\ c # None /\ MoveOn(r) /\ UNCHANGED <<line, current, recovered, stuck, runRest>>
  BY DEF HandOver, Claiming
<1>2. /\ c.row \in Id /\ Held(c.row) /\ FitRow(old, now) /\ old \in RowRecord
      /\ old.status = "sending" /\ old.on = None
  BY <1>1, HoldsRow
<1>3. /\ c.kind = "repeat" => rows' = [rows EXCEPT ![c.row] = again]
      /\ c.kind # "repeat" => rows' = [rows EXCEPT ![c.row] = over]
  BY <1>2 DEF HandOver
<1>4. /\ again \in RowRecord /\ again.status = "pending" /\ again.at = now + 1 /\ again.on = None
      /\ again.turn = old.turn + 1 /\ again.attempts = 0 /\ old.turn <= now
      /\ now \in Nat
  <2>1. old.turn <= now /\ now + 1 \in Slot /\ old.turn + 1 \in Turn /\ now \in Nat
    BY <1>2, ScheduledAssumption DEF FitRow, RowRecord, Slot, Turn, Inv, TableInv
  <2> DEFINE at == now + 1
             turn == old.turn + 1
             attempts == 0
             x == [old EXCEPT !.status = "pending", !.at = at, !.turn = turn,
                              !.attempts = attempts]
  <2> HIDE DEF at, turn, attempts
  <2>2. /\ x \in RowRecord /\ x.status = "pending" /\ x.at = at /\ x.on = old.on
        /\ x.turn = turn /\ x.attempts = attempts
    <3>1. at \in Slot /\ turn \in Turn /\ attempts \in 0 .. MaxAttempts
      BY <2>1, ScheduledAssumption DEF at, turn, attempts
    <3> QED
      BY <1>2, <3>1 DEF RowRecord, Status
  <2>3. again = x
    BY DEF at, turn, attempts
  <2> QED
    BY <1>2, <2>1, <2>2, <2>3 DEF at, turn, attempts
<1>5. /\ over \in RowRecord /\ over.status = "sent" /\ over.at = old.at /\ over.on = None
      /\ over.turn = old.turn
  BY <1>2 DEF RowRecord, Status
<1> HIDE DEF again, over
<1>6. FitRow(again, now) /\ FitRow(over, now)
  BY <1>2, <1>4, <1>5, ScheduledAssumption DEF FitRow, RowRecord, Turn
<1>7. CASE c.kind = "repeat"
  BY <1>1, <1>3, <1>4, <1>6, <1>7, Released
<1>8. CASE c.kind # "repeat"
  BY <1>1, <1>3, <1>5, <1>6, <1>8, Released
<1> QED
  BY <1>7, <1>8

LEMMA DeferKeeps == ASSUME Inv, NEW r \in Run, Defer(r) PROVE Inv'
<1> DEFINE c == run[r].claim
           old == rows[c.row]
           x == [old EXCEPT !.status = "pending"]
<1>1. /\ c # None /\ MoveOn(r) /\ UNCHANGED <<line, current, recovered, stuck, runRest>>
  BY DEF Defer, Claiming
<1>2. /\ Held(c.row) /\ FitRow(old, now) /\ old \in RowRecord /\ old.status = "sending"
  BY <1>1, HoldsRow
<1>3. rows' = [rows EXCEPT ![c.row] = x]
  BY <1>2 DEF Defer
<1>4. /\ x \in RowRecord /\ x.status = "pending" /\ x.at = old.at /\ x.on = old.on
      /\ x.turn = old.turn /\ x.attempts = old.attempts
  BY <1>2 DEF RowRecord, Status
<1> HIDE DEF x
<1>5. FitRow(x, now)
  BY <1>2, <1>4 DEF FitRow
<1> QED
  BY <1>1, <1>3, <1>4, <1>5, Released

LEMMA FailKeeps == ASSUME Inv, NEW r \in Run, Fail(r) PROVE Inv'
<1> DEFINE c == run[r].claim
           old == rows[c.row]
           status == IF old.attempts + 1 >= MaxAttempts THEN "error" ELSE "pending"
           x == [old EXCEPT !.attempts = old.attempts + 1, !.status = status]
<1>1. /\ c # None /\ MoveOn(r) /\ UNCHANGED <<line, current, recovered, stuck, runRest>>
  BY DEF Fail, Claiming
<1>2. /\ Held(c.row) /\ FitRow(old, now) /\ old \in RowRecord /\ old.status = "sending"
      /\ old.on = None
  BY <1>1, HoldsRow
<1>3. rows' = [rows EXCEPT ![c.row] = x]
  BY <1>2 DEF Fail
<1>4. /\ status \in {"error", "pending"} /\ old.attempts + 1 \in 0 .. MaxAttempts
      /\ status = "pending" => old.attempts + 1 < MaxAttempts
  BY <1>2, ScheduledAssumption DEF FitRow, RowRecord
<1> HIDE DEF status
<1>5. /\ x \in RowRecord /\ x.status = status /\ x.at = old.at /\ x.on = old.on
      /\ x.turn = old.turn /\ x.attempts = old.attempts + 1
  BY <1>2, <1>4 DEF RowRecord, Status
<1> HIDE DEF x
<1>6. FitRow(x, now)
  BY <1>2, <1>4, <1>5 DEF FitRow
<1> QED
  BY <1>1, <1>3, <1>4, <1>5, <1>6, Released

LEMMA StickKeeps == ASSUME Inv, NEW r \in Run, Stick(r) PROVE Inv'
<1> USE DEF Inv
<1>1. /\ run[r].claim # None /\ stuck' = stuck \cup {run[r].claim.row}
      /\ UNCHANGED <<rows, recovered, runRest>> /\ now' = now /\ nextRow' = nextRow
  BY DEF Stick, Claiming, runRest
<1>2. TableInv'
  BY <1>1, SameTable
<1>3. LineInv' /\ ClaimInv'
  <2>1. CASE MoveOn(r) /\ UNCHANGED <<line, current>>
    BY <1>1, <2>1, PutsDown, HoldsRow DEF Id
  <2>2. CASE Leave(r)
    <3>1. /\ LineInv' /\ \A q \in Run : run'[q].claim = None
          /\ \A q \in Run \ {r} : run[q].claim = None
      BY <1>1, <2>2, Leaves, HoldsRow DEF LineInv
    <3>2. ClaimedRows \subseteq {run[r].claim.row} /\ Stuck' = Stuck
      BY <1>1, <3>1 DEF ClaimedRows, Stuck, Local, Id
    <3> QED
      BY <1>1, <3>1, <3>2 DEF ClaimInv
  <2> QED
    BY <2>1, <2>2 DEF Stick
<1> QED
  BY <1>1, <1>2, <1>3, RunKeeps

LEMMA FinishKeeps == ASSUME Inv, NEW r \in Run, Finish(r) PROVE Inv'
<1> USE DEF Inv
<1>1. /\ recovered' = RecoveryAfter(r) /\ Leave(r) /\ UNCHANGED <<rows, stuck, runRest>>
      /\ now' = now /\ nextRow' = nextRow /\ HasTurn(r)
  BY DEF Finish, Firing, runRest, LineInv
<1>2. recovered' \in BOOLEAN
  BY <1>1 DEF RecoveryAfter, LineInv
<1>3. /\ LineInv' /\ \A q \in Run : run'[q].claim = None
      /\ \A q \in Run \ {r} : run[q].claim = None
  BY <1>1, <1>2, Leaves
<1>4. ClaimInv'
  <2> SUFFICES ASSUME recovered' PROVE Stuck' \subseteq stuck'
    BY <1>3 DEF ClaimInv
  <2>1. recovered /\ run[r].claim = None
    BY <1>1 DEF RecoveryAfter, Finish, Firing
  <2>2. ClaimedRows = {} /\ Stuck' = Stuck
    BY <1>1, <1>3, <2>1 DEF ClaimedRows, Stuck, Local, Id
  <2> QED
    BY <1>1, <2>1, <2>2 DEF ClaimInv
<1> QED
  BY <1>1, <1>3, <1>4, SameTable, RunKeeps

LEMMA RunStepKeeps == ASSUME Inv, NEW r \in Run, RunStep(r) PROVE Inv'
  BY EnterKeeps, LapseKeeps, RecoverKeeps, ClaimKeeps, HandOverKeeps, DeferKeeps, FailKeeps,
     StickKeeps, FinishKeeps
  DEF RunStep

-----------------------------------------------------------------------------
(* The Mac, the clock and the end of the process.                            *)

LEMMA MacFiresKeeps == ASSUME Inv, NEW i \in Item, MacFires(i) PROVE Inv'
<1>1. /\ UNCHANGED <<rows, nextRow, now, runVars, sync, op>> /\ mac[i].state = "pending"
      /\ \/ mac' = [mac EXCEPT ![i].state = "sent"]
         \/ mac' = [mac EXCEPT ![i].state = "failed"]
  BY DEF MacFires
<1>2. MacInv' /\ ItemsKept
  BY <1>1, Settles
<1>3. OpInv'
  BY <1>1 DEF Inv, OpInv, FitOp
<1> QED
  BY <1>1, <1>2, <1>3, SameTable, OwnerKeeps DEF ownerRest

LEMMA TickKeeps == ASSUME Inv, Tick PROVE Inv'
<1> USE DEF Inv
<1>1. /\ now < MaxNow /\ now' = now + 1 /\ UNCHANGED <<rows, nextRow, mac, runVars, sync, op>>
  BY DEF Tick
<1>2. now \in Nat /\ now' \in 0 .. MaxNow
  BY <1>1, ScheduledAssumption DEF TableInv
<1>3. TableInv'
  <2>1. \A i \in Id : FitRow(rows[i], now + 1)
    <3> TAKE i \in Id
    <3>1. FitRow(rows[i], now) /\ rows[i].at \in Int
      BY ScheduledAssumption DEF TableInv, FitRow, RowRecord, Slot
    <3> QED
      BY <1>2, <3>1 DEF FitRow
  <2> QED
    BY <1>1, <1>2, <2>1 DEF TableInv, Id
<1>4. MacInv'
  <2>1. \A i \in Item : FitItem(mac[i], now + 1)
    <3> TAKE i \in Item
    <3>1. FitItem(mac[i], now) /\ mac[i].at \in Int
      BY ScheduledAssumption DEF MacInv, FitItem, MacRecord, Slot
    <3> QED
      BY <1>2, <3>1 DEF FitItem
  <2> QED
    BY <1>1, <2>1 DEF MacInv
<1>5. OpInv'
  <2>1. \A h \in Hand : FitOp(op[h], now + 1)
    <3> TAKE h \in Hand
    <3>1. FitOp(op[h], now) /\ op[h].at \in Int /\ op[h].wasAt \in Int
      BY ScheduledAssumption DEF OpInv, FitOp, OpRecord, Slot
    <3> QED
      BY <1>2, <3>1 DEF FitOp
  <2> QED
    BY <1>1, <2>1 DEF OpInv
<1>6. SyncInv' /\ LineInv'
  BY <1>1, LineKeeps DEF SyncInv, SyncRecord, runVars
<1>7. ClaimInv'
  BY <1>1, ClaimsKeep DEF SendingKept, runVars, Id
<1> QED
  BY <1>3, <1>4, <1>5, <1>6, <1>7

LEMMA CrashKeeps == ASSUME Inv, Crash PROVE Inv'
<1> USE DEF Inv
<1>1. /\ line' = <<>> /\ run' = [r \in Run |-> NoRun]
      /\ current' = [r \in Run |-> TRUE] /\ recovered' = FALSE
      /\ sync' = NoSync /\ op' = [h \in Hand |-> NoOp]
      /\ UNCHANGED <<rows, nextRow, mac, now>>
  BY DEF Crash
<1>2. TableInv' /\ MacInv'
  BY <1>1, SameTable, SameMac
<1>3. OpInv'
  <2>1. FitOp(NoOp, now) /\ NoOp \in OpRecord
    BY NoOpFits DEF FitOp
  <2> QED
    BY <1>1, <2>1 DEF OpInv
<1>4. SyncInv'
  BY <1>1, NoSyncFits DEF SyncInv
<1>5. LineInv' /\ ClaimInv'
  <2>1. NoRun \in RunRecord /\ NoRun.stage = "off" /\ NoRun.claim = None
    BY DEF NoRun, RunRecord
  <2>2. \A r \in Run : run'[r] = NoRun
    BY <1>1
  <2>3. /\ run' \in [Run -> RunRecord] /\ current' \in [Run -> BOOLEAN]
        /\ recovered' \in BOOLEAN
    BY <1>1, <2>1
  <2>4. line' \in Seq(Run) /\ Len(line') = 0
    BY <1>1
  <2> QED
    BY <1>1, <2>1, <2>2, <2>3, <2>4 DEF LineInv, ClaimInv
<1> QED
  BY <1>2, <1>3, <1>4, <1>5

-----------------------------------------------------------------------------
(* The invariant holds throughout.                                           *)

LEMMA InitInv == Init => Inv
<1> SUFFICES ASSUME Init PROVE Inv
  OBVIOUS
<1>1. Id = {}
  BY DEF Init, Id
<1>2. TableInv
  BY <1>1, ScheduledAssumption DEF Init, TableInv
<1>3. MacInv
  <2>1. FitItem(NoItem, 0) /\ NoItem \in MacRecord
    BY ScheduledAssumption DEF FitItem, NoItem, MacRecord, Kind, Version, Slot
  <2> QED
    BY <2>1 DEF Init, MacInv
<1>4. OpInv
  <2>1. FitOp(NoOp, 0) /\ NoOp \in OpRecord
    BY ScheduledAssumption
    DEF FitOp, OpRecord, NoOp, Stage, Kind, Turn, Slot, Version, Item
  <2> QED
    BY <2>1 DEF Init, OpInv
<1>5. SyncInv
  BY NoSyncFits DEF Init, SyncInv
<1>6. LineInv
  <2>1. NoRun \in RunRecord /\ NoRun.stage = "off" /\ NoRun.claim = None
    BY DEF NoRun, RunRecord
  <2>2. \A r \in Run : run[r] = NoRun
    BY DEF Init
  <2>3. run \in [Run -> RunRecord] /\ current \in [Run -> BOOLEAN] /\ recovered \in BOOLEAN
    BY <2>1 DEF Init
  <2>4. line \in Seq(Run) /\ Len(line) = 0
    BY DEF Init
  <2> QED
    BY <2>1, <2>2, <2>3, <2>4 DEF LineInv
<1>7. ClaimInv
  BY <1>1 DEF Init, ClaimInv, NoRun, Stuck
<1> QED
  BY <1>2, <1>3, <1>4, <1>5, <1>6, <1>7 DEF Inv

LEMMA NextInv == Inv /\ [Next]_vars => Inv'
<1> SUFFICES ASSUME Inv, [Next]_vars PROVE Inv'
  OBVIOUS
<1>1. CASE UNCHANGED vars
  BY <1>1, SameMac, OnlyItself DEF vars, runVars, ownerRest, Inv, OpInv, FitOp
<1>2. CASE Next
  BY <1>2, RunStepKeeps, ReconciliationKeeps, OwnerStepKeeps, ClearKeeps, MacFiresKeeps, TickKeeps,
     CrashKeeps
  DEF Next
<1> QED
  BY <1>1, <1>2

LEMMA InvImpliesClaims == Inv => ClaimsAccounted
<1> SUFFICES ASSUME Inv PROVE ClaimsAccounted
  OBVIOUS
<1>1. TypeOK
  BY DEF Inv, TableInv, MacInv, FitRow, FitItem, RowRecord, MacRecord, Status, TypeOK
<1>2. \A r, q \in Run : run[r].claim # None /\ run[q].claim # None => r = q
  BY OneFires DEF Inv, LineInv
<1> QED
  BY <1>1, <1>2 DEF Inv, ClaimInv, ClaimsAccounted

\* For any letters, runs, screens and bounds: the row a run has claimed is that run's
\* alone and still its own to move, whatever the owner, the reconciliation and other
\* runs do around it, and once a recovery is cached no row is left sending by a run that
\* is gone, unless the store refused to release it (scheduleService.ts:99, 219).
THEOREM ClaimsStayAccounted == Spec => []ClaimsAccounted
<1>1. Spec => []Inv
  BY InitInv, NextInv, PTL DEF Spec
<1> QED
  BY <1>1, InvImpliesClaims, PTL

-----------------------------------------------------------------------------
(***************************************************************************)
(* Letters: as long as no two calls are about the same one, at most one    *)
(* holder, the newest, has anything left to send of a letter, whatever the *)
(* runs, the reconciliation, crashes and lost answers do.                  *)
(***************************************************************************)

\* A call is about one letter, and no other call is about that letter meanwhile.
Apart ==
  \A g, h \in Hand :
    op[g].stage # "none" /\ op[h].stage # "none" /\ op[g].letter = op[h].letter => g = h

ItemsOf(l) == {i \in Item : mac[i].state # "none" /\ mac[i].letter = l}
RowsOf(l) == {i \in Id : rows[i].letter = l}

\* What may still go out: a row of the phone's own, or an item the Mac has not fired.
Active(l) == {i \in RowsOf(l) : Local(i) /\ rows[i].status \in {"pending", "sending"}}
Pending(l) == {i \in ItemsOf(l) : mac[i].state = "pending"}

Unsent(l) == \A k \in Turn : went[l][k] = 0

\* Nobody has anything to send of the letter, and no turn of it went out.
Idle(l) == Active(l) = {} /\ Pending(l) = {} /\ Unsent(l)

\* Of a letter only what is being scheduled exists.
Blank(l) == ItemsOf(l) = {} /\ RowsOf(l) = {} /\ Unsent(l)
Newborn(l) == floor[l] = 0 /\ l \notin promised /\ Active(l) = {}

\* The items of a letter are older than a version.
Older(l, v) == \A i \in ItemsOf(l) : mac[i].version < v

\* The item is the only one of its letter.
Only(l, i) == ItemsOf(l) = {i} /\ mac[i].version = 0 /\ i \in Listed

\* The item is the newest of its letter, and no other is pending.
Newest(l, i, v) ==
  /\ i \in ItemsOf(l) /\ mac[i].version = v /\ mac[i].state # "removed"
  /\ Active(l) = {} /\ Pending(l) \subseteq {i}
  /\ \A j \in ItemsOf(l) \ {i} : mac[j].version < v

\* At most one holder of a letter, the newest, has anything left to send.
SoleInv(l) ==
  /\ \A i, j \in Active(l) : i = j
  /\ \A i \in Active(l) :
       /\ Pending(l) = {} /\ Older(l, rows[i].version)
       /\ floor[l] <= rows[i].version
       /\ \A k \in Turn : k >= rows[i].turn => went[l][k] = 0
  /\ \A i \in Pending(l) :
       /\ Unsent(l) /\ Newest(l, i, mac[i].version)
       /\ floor[l] <= mac[i].version
  /\ \A k \in Turn : went[l][k] <= 1
  /\ l \notin stale

\* What a call knows of its letter at each stage.
Begun(l, o) ==
  /\ Newborn(l)
  /\ o.stage = "create" => Blank(l)
  /\ o.stage = "insert" => IF o.on = None THEN Blank(l) ELSE Only(l, o.on)
  /\ o.stage \in {"lost", "timedOut"} =>
       Blank(l) \/ \E i \in Item : Only(l, i) /\ mac[i].at = o.at

Scheduling == {"create", "insert", "lost", "timedOut"}
ByRow == {"editor", "list", "replace", "recreate", "patch", "withdraw", "drop"}

\* The row a screen was opened on is nobody else's to rewrite.
RowHeld(o) ==
  /\ o.row < nextRow
  /\ o.wasOn # None => o.wasOn \in ItemsOf(o.letter)
  /\ o.row \in Id =>
       /\ rows[o.row].letter = o.letter /\ rows[o.row].on = o.wasOn
       /\ o.wasOn = None =>
            /\ rows[o.row].at >= o.wasAt
            /\ rows[o.row].at = o.wasAt => rows[o.row].turn = o.turn
            /\ o.stage = "patch" => rows[o.row].version < o.version

Moved(l, o) ==
  /\ o.stage = "replace" => mac[o.wasOn].version < o.version
  /\ o.stage = "recreate" \/ (o.stage = "patch" /\ o.wasOn # None) => floor[l] <= o.version
  /\ o.stage = "recreate" \/ (o.stage = "patch" /\ o.wasOn # None /\ o.on = None) =>
       Idle(l) /\ Older(l, o.version)
  /\ o.stage = "patch" /\ o.on # None => Newest(l, o.on, o.version)
  /\ o.stage = "drop" /\ o.wasOn # None => mac[o.wasOn].state # "pending"

CallInv(h) ==
  LET o == op[h] IN
  /\ o.stage \in ByRow => RowHeld(o)
  /\ o.stage \in Scheduling => o.version = 0 /\ o.wasOn = None
  /\ o.stage \in {"create", "lost", "timedOut", "editor", "replace", "recreate"} => o.on = None
  /\ o.stage \in {"insert", "patch"} /\ o.on # None =>
       o.on \in ItemsOf(o.letter) /\ mac[o.on].version = o.version
  /\ o.letter \notin unsure =>
       /\ o.stage \in Scheduling => Begun(o.letter, o)
       /\ o.stage \in ByRow => Moved(o.letter, o)

\* A row of the Mac's shows the version of its item; a claim is of its row.
ShownInv ==
  \A i \in Id : ~Local(i) =>
    /\ rows[i].on \in ItemsOf(rows[i].letter)
    /\ mac[rows[i].on].version = rows[i].version

ClaimedInv ==
  \A r \in Run : run[r].claim # None =>
    LET c == run[r].claim IN
    /\ rows[c.row].letter = c.letter /\ rows[c.row].turn = c.turn
    /\ rows[c.row].version = c.version

\* An item that was exposed and is not in the list was removed before the Mac answered.
AbsentInv ==
  \A e \in sync.exposed :
    /\ e[2] \in Item /\ mac[e[2]].state # "none"
    /\ sync.stage = "merging" /\ (\A x \in sync.list : x[1] # e[2]) => mac[e[2]].state = "removed"

\* A call has the letter's item in hand, between the Mac and the phone.
MovesItem(o) == o.stage \in {"recreate", "patch", "drop"} /\ o.wasOn # None

\* The owner sees the letter: its row is the phone's own, or its item is still the Mac's.
Shown(l) == \E i \in RowsOf(l) : Local(i) \/ mac[rows[i].on].state # "removed"
Moving(l) ==
  \E h \in Hand :
    /\ op[h].letter = l
    /\ op[h].stage \in {"recreate", "patch", "drop"} /\ op[h].wasOn # None

HistoryTyped ==
  /\ went \in [Letter -> [Turn -> 0 .. 2]] /\ floor \in [Letter -> Nat]
  /\ promised \subseteq Letter /\ stale \subseteq Letter

Promise(l) == l \in promised \ unsure => Shown(l) \/ Moving(l)

LetterInv ==
  /\ HistoryTyped /\ ShownInv /\ ClaimedInv /\ AbsentInv
  /\ \A l \in Letter \ unsure : SoleInv(l)
  /\ \A h \in Hand : CallInv(h)
  /\ \A l \in Letter : Promise(l)

-----------------------------------------------------------------------------
(* What leaves a letter as it was.                                           *)

\* A step that gives nobody anything of the letter to send: it may only take rows away
\* that cannot go out any more, or show an item that is there already.
Calm(l) ==
  /\ ItemsOf(l)' = ItemsOf(l) /\ \A i \in ItemsOf(l) : mac'[i] = mac[i]
  /\ \A i \in RowsOf(l)' :
       \/ i \notin Id /\ i = nextRow /\ ~Local(i)' /\ ItemsOf(l) # {}
       \/ /\ i \in RowsOf(l) /\ rows'[i].on = rows[i].on
          /\ Local(i) =>
               /\ rows'[i].at = rows[i].at /\ rows'[i].turn = rows[i].turn
               /\ rows'[i].version = rows[i].version
               /\ rows'[i].status \in {"pending", "sending"} =>
                    rows[i].status \in {"pending", "sending"}
  /\ l \in promised' =>
       \A i \in RowsOf(l) : Local(i) \/ mac[rows[i].on].state # "removed" => i \in RowsOf(l)'
  /\ went'[l] = went[l] /\ floor'[l] = floor[l]
  /\ l \in stale' => l \in stale
  /\ l \in promised' => l \in promised
  /\ l \in unsure => l \in unsure'

\* A calm step leaves the holders of a letter what they were.
LEMMA CalmActive ==
  ASSUME NEW l, Calm(l)
  PROVE  /\ \A i \in Active(l)' : /\ i \in Active(l) /\ rows'[i].version = rows[i].version
                                  /\ rows'[i].turn = rows[i].turn
         /\ Pending(l)' = Pending(l)
         /\ Unsent(l)' <=> Unsent(l)
  BY DEF Calm, Active, Pending, RowsOf, Local, ItemsOf, Unsent

\* The newest item stays the newest.
LEMMA CalmNewest ==
  ASSUME NEW l, NEW i, NEW v, Calm(l), Newest(l, i, v) PROVE Newest(l, i, v)'
<1>1. i \in ItemsOf(l)' /\ mac'[i] = mac[i]
  BY DEF Calm, Newest
<1> QED
  BY <1>1, CalmActive DEF Newest, Calm

\* The one holder stays the one holder.
LEMMA CalmSole == ASSUME NEW l, Calm(l), SoleInv(l) PROVE SoleInv(l)'
<1>1. \A i \in Pending(l)' : Newest(l, i, mac[i].version)' /\ mac'[i] = mac[i]
  <2> TAKE i \in Pending(l)'
  <2>1. i \in Pending(l) /\ mac'[i] = mac[i]
    BY CalmActive DEF Calm, Pending
  <2>2. Newest(l, i, mac[i].version)
    BY <2>1 DEF SoleInv
  <2> QED
    BY <2>1, <2>2, CalmNewest DEF Newest, Active, Pending, ItemsOf
<1>2. \A v : Older(l, v) => Older(l, v)'
  BY DEF Calm, Older
<1>3. \A i \in Active(l)' : Older(l, rows[i].version)'
  BY <1>2, CalmActive DEF SoleInv, Older
<1> QED
  BY <1>1, <1>3, CalmActive DEF SoleInv, Calm

\* The only item of a letter stays the only one.
LEMMA CalmOnly == ASSUME NEW l, NEW i \in Item, Calm(l), Only(l, i) PROVE Only(l, i)'
  BY DEF Calm, Only, Listed

\* What there is nothing of stays so.
LEMMA CalmBlank == ASSUME NEW l, Calm(l), Blank(l) PROVE Blank(l)'
  BY CalmActive DEF Calm, Blank, RowsOf

\* Rows keep their letters, and a new one gets an id nobody had.
Steady ==
  /\ nextRow <= nextRow'
  /\ \A i \in Id' : IF i \in Id THEN rows'[i].letter = rows[i].letter ELSE i = nextRow

\* Ids, versions, turns and times are numbers.
LEMMA Numbers ==
  ASSUME Inv
  PROVE  /\ nextRow \in Nat /\ now \in Nat /\ Id \subseteq Nat /\ \A i \in Id : i < nextRow
         /\ \A i \in Id : /\ rows[i].letter \in Letter /\ rows[i].turn \in Nat
                          /\ rows[i].turn \in Turn
                          /\ rows[i].version \in Nat /\ rows[i].at \in Nat
         /\ \A i \in Item : mac[i].version \in Nat
         /\ \A h \in Hand : /\ op[h].row \in Nat /\ op[h].version \in Nat /\ op[h].turn \in Nat
                            /\ op[h].wasAt \in Nat /\ op[h].at \in Nat
                            /\ op[h].stage # "none" => op[h].letter \in Letter
  BY ScheduledAssumption
  DEF Inv, TableInv, FitRow, RowRecord, MacInv, MacRecord, OpInv, FitOp, OpRecord, Turn, Version, Slot

\* The row a screen was opened on stays its own.
LEMMA CalmHeld ==
  ASSUME Inv, Steady, nextRow' \in Nat, NEW h \in Hand, Calm(op[h].letter), op'[h] = op[h],
         RowHeld(op[h])
  PROVE  RowHeld(op[h])'
<1> DEFINE o == op[h]
<1>1. o.row < nextRow' /\ o.row # nextRow
  BY Numbers DEF Steady, RowHeld
<1>2. o.wasOn # None => o.wasOn \in ItemsOf(o.letter)'
  BY DEF Calm, RowHeld
<1>3. ASSUME o.row \in Id'
      PROVE  /\ rows'[o.row].letter = o.letter /\ rows'[o.row].on = o.wasOn
             /\ o.wasOn = None =>
                  /\ rows'[o.row].at >= o.wasAt
                  /\ rows'[o.row].at = o.wasAt => rows'[o.row].turn = o.turn
                  /\ o.stage = "patch" => rows'[o.row].version < o.version
  <2>1. o.row \in Id /\ rows'[o.row].letter = rows[o.row].letter
    BY <1>1, <1>3 DEF Steady
  <2>2. o.row \in RowsOf(o.letter)'
    BY <1>3, <2>1 DEF RowHeld, RowsOf
  <2> QED
    BY <2>1, <2>2 DEF RowHeld, Calm, Local
<1> QED
  BY <1>1, <1>2, <1>3 DEF RowHeld

\* What a call knows of the versions stays true.
LEMMA CalmMoved ==
  ASSUME NEW l, NEW o, Calm(l), o.wasOn # None => o.wasOn \in ItemsOf(l), Moved(l, o),
         o.stage = "replace" => o.wasOn # None
  PROVE  /\ o.stage = "replace" => mac'[o.wasOn].version < o.version
         /\ o.stage = "recreate" \/ (o.stage = "patch" /\ o.wasOn # None) => floor'[l] <= o.version
         /\ o.stage = "recreate" \/ (o.stage = "patch" /\ o.wasOn # None /\ o.on = None) =>
              Idle(l)' /\ Older(l, o.version)'
         /\ o.stage = "patch" /\ o.on # None => Newest(l, o.on, o.version)'
         /\ o.stage = "drop" /\ o.wasOn # None => mac'[o.wasOn].state # "pending"
<1>1. Idle(l) => Idle(l)'
  BY CalmActive DEF Idle
<1>2. Older(l, o.version) => Older(l, o.version)'
  BY DEF Calm, Older
<1>3. Newest(l, o.on, o.version) => Newest(l, o.on, o.version)'
  BY CalmNewest
<1>4. o.wasOn # None => mac'[o.wasOn] = mac[o.wasOn]
  BY DEF Calm
<1>5. floor'[l] = floor[l]
  BY DEF Calm
<1> QED
  BY <1>1, <1>2, <1>3, <1>4, <1>5 DEF Moved

\* A call is no worse for a calm step of its letter.
LEMMA CalmCall ==
  ASSUME Inv, Steady, nextRow' \in Nat, NEW h \in Hand, Calm(op[h].letter), op'[h] = op[h],
         CallInv(h)
  PROVE  CallInv(h)'
<1> DEFINE o == op[h]
           l == op[h].letter
<1>1. ASSUME o.stage \in ByRow PROVE RowHeld(o)'
  BY <1>1, CalmHeld DEF CallInv
<1>2. ASSUME l \notin unsure', o.stage \in Scheduling PROVE Begun(l, o)'
  <2>1. Begun(l, o)
    BY <1>2 DEF CallInv, Calm
  <2>2. Newborn(l)'
    BY <2>1, CalmActive DEF Begun, Newborn, Calm
  <2>3. (Blank(l) => Blank(l)') /\ \A i \in Item : Only(l, i) => Only(l, i)'
    BY CalmBlank, CalmOnly
  <2>4. \A i \in Item : Only(l, i) => mac'[i] = mac[i]
    BY DEF Only, Calm
  <2>5. o.stage = "insert" /\ o.on # None => o.on \in Item
    BY DEF Inv, OpInv, OpRecord
  <2> QED
    BY <2>1, <2>2, <2>3, <2>4, <2>5 DEF Begun
<1>3. ASSUME l \notin unsure', o.stage \in ByRow PROVE Moved(l, o)'
  <2>1. Moved(l, o) /\ RowHeld(o)
    BY <1>3 DEF CallInv, Calm
  <2>2. o.stage = "replace" => o.wasOn # None
    BY DEF Inv, OpInv, FitOp
  <2> QED
    BY <2>1, <2>2, CalmMoved DEF Moved, RowHeld
<1>4. o.stage \in {"insert", "patch"} /\ o.on # None =>
        o.on \in ItemsOf(l)' /\ mac'[o.on].version = o.version
  BY DEF CallInv, Calm
<1> QED
  BY <1>1, <1>2, <1>3, <1>4 DEF CallInv

\* A letter that is shown is shown after a calm step.
LEMMA CalmShown ==
  ASSUME Inv, ShownInv, NEW l, Calm(l), l \in promised', Shown(l) PROVE Shown(l)'
<1>1. PICK i \in RowsOf(l) : Local(i) \/ mac[rows[i].on].state # "removed"
  BY DEF Shown
<1>2. i \in RowsOf(l)' /\ rows'[i].on = rows[i].on
  BY <1>1 DEF Calm, RowsOf
<1>3. ~Local(i) => mac'[rows[i].on] = mac[rows[i].on]
  BY <1>1 DEF ShownInv, Calm, RowsOf
<1> QED
  BY <1>1, <1>2, <1>3 DEF Shown, Local

\* A promise holds, as long as the call that moves the letter goes on.
LEMMA CalmPromise ==
  ASSUME Inv, ShownInv, NEW l, Calm(l), Promise(l), Moving(l) => Moving(l)' PROVE Promise(l)'
<1>1. l \in promised' \ unsure' => l \in promised \ unsure
  BY DEF Calm
<1> QED
  BY <1>1, CalmShown DEF Promise

\* The letter invariant, one letter and one call at a time.
LEMMA Assemble ==
  ASSUME Inv, LetterInv, Steady, nextRow' \in Nat, HistoryTyped', ShownInv', ClaimedInv', AbsentInv',
         \A l \in Letter : Calm(l) \/ ((l \notin unsure' => SoleInv(l)') /\ Promise(l)'),
         \A g \in Hand :
           CallInv(g)' \/ (op'[g] = op[g] /\ (op[g].stage = "none" \/ Calm(op[g].letter))),
         \A g \in Hand, m \in Letter : MovesItem(op[g]) /\ op[g].letter = m =>
           m \in unsure' \/ Promise(m)' \/ (op'[g].letter = m /\ MovesItem(op'[g]))
  PROVE  LetterInv'
<1>1. ASSUME NEW l \in Letter \ unsure' PROVE SoleInv(l)'
  BY CalmSole DEF LetterInv, Calm
<1>2. ASSUME NEW l \in Letter PROVE Promise(l)'
  <2>1. CASE Calm(l)
    <3>1. CASE l \notin promised' \ unsure' \/ Promise(l)'
      BY <3>1 DEF Promise
    <3>2. CASE l \in promised' \ unsure' /\ ~Promise(l)'
      <4>1. Moving(l) => Moving(l)'
        BY <2>1, <3>2 DEF Moving, MovesItem
      <4> QED
        BY <2>1, <4>1, CalmPromise DEF LetterInv
    <3> QED
      BY <3>1, <3>2
  <2> QED
    BY <2>1
<1>3. ASSUME NEW g \in Hand PROVE CallInv(g)'
  <2>1. CASE op'[g] = op[g] /\ op[g].stage = "none"
    BY <2>1 DEF CallInv, ByRow, Scheduling
  <2>2. CASE op'[g] = op[g] /\ Calm(op[g].letter)
    BY <2>2, CalmCall DEF LetterInv
  <2> QED
    BY <2>1, <2>2
<1> QED
  BY <1>1, <1>2, <1>3 DEF LetterInv

\* Nothing happens to the table, the Mac and the history.
LEMMA StillCalm ==
  ASSUME UNCHANGED <<rows, nextRow, mac, went, floor>>, Inv, promised' \subseteq promised,
         stale' \subseteq stale, unsure \subseteq unsure', promised' = promised
  PROVE  Steady /\ nextRow' \in Nat /\ \A l : Calm(l)
<1>1. nextRow' \in Nat /\ nextRow <= nextRow'
  BY Numbers
<1>2. \A l : ItemsOf(l)' = ItemsOf(l) /\ RowsOf(l)' = RowsOf(l)
  BY DEF ItemsOf, RowsOf, Id
<1> QED
  BY <1>1, <1>2 DEF Steady, Calm, Id, RowsOf

\* The rows of the Mac's show what they showed.
LEMMA StillShown == ASSUME ShownInv, UNCHANGED <<rows, mac>> PROVE ShownInv'
  BY DEF ShownInv, ItemsOf, Local, Id

\* What was absent from the list is removed, and stays so.
LEMMA StillAbsent ==
  ASSUME AbsentInv, UNCHANGED sync, \A i \in Item : mac[i].state # "none" => mac'[i].state # "none",
         \A i \in Item : mac[i].state = "removed" => mac'[i].state = "removed"
  PROVE  AbsentInv'
  BY DEF AbsentInv

\* Steps of a run: rows are claimed, released and retired, and nothing else.
LEMMA RunCalm ==
  ASSUME Inv, LetterInv, UNCHANGED <<nextRow, mac, sync, op, historyVars>>, DOMAIN rows' = Id,
         \A i \in Id :
           /\ rows'[i].letter = rows[i].letter /\ rows'[i].on = rows[i].on
           /\ rows'[i].at = rows[i].at /\ rows'[i].turn = rows[i].turn
           /\ rows'[i].version = rows[i].version
           /\ rows'[i].status \in {"pending", "sending"} =>
                rows[i].status \in {"pending", "sending"},
         ClaimedInv'
  PROVE  LetterInv'
<1>1. Id' = Id /\ nextRow' \in Nat /\ nextRow <= nextRow'
  BY Numbers DEF Id
<1>2. \A l : ItemsOf(l)' = ItemsOf(l) /\ RowsOf(l)' = RowsOf(l)
  BY <1>1 DEF ItemsOf, RowsOf
<1>3. \A l : Calm(l)
  BY <1>1, <1>2 DEF Calm, historyVars, RowsOf
<1>4. Steady
  BY <1>1 DEF Steady
<1>5. ShownInv'
  BY <1>1 DEF LetterInv, ShownInv, Local, ItemsOf
<1>6. AbsentInv' /\ HistoryTyped'
  BY StillAbsent DEF LetterInv, HistoryTyped, historyVars
<1>7. \A g \in Hand : MovesItem(op[g]) => op'[g].letter = op[g].letter /\ MovesItem(op'[g])
  OBVIOUS
<1> QED
  BY <1>1, <1>3, <1>4, <1>5, <1>6, <1>7, Assemble

\* A claim is of a row of the table, the phone's own, and being sent.
LEMMA ClaimedRow ==
  ASSUME Inv, NEW r \in Run, run[r].claim # None
  PROVE  /\ run[r].claim \in Claimed /\ run[r].claim.row \in Id
         /\ rows[run[r].claim.row].status = "sending" /\ Local(run[r].claim.row)
         /\ run[r].claim.letter \in Letter /\ run[r].claim.turn \in Turn
  BY DEF Inv, LineInv, ClaimInv, RunRecord, Held, Claimed

\* Claims that are not new are of rows that keep what the claim says.
LEMMA ClaimedStays ==
  ASSUME Inv, LetterInv,
         \A q \in Run : run'[q].claim = None \/ run'[q].claim = run[q].claim,
         \A i \in Id : rows[i].status = "sending" =>
            /\ rows'[i].letter = rows[i].letter /\ rows'[i].turn = rows[i].turn
            /\ rows'[i].version = rows[i].version
  PROVE  ClaimedInv'
  BY ClaimedRow DEF LetterInv, ClaimedInv

\* The claims after a run has put down or taken one, or has ended.
LEMMA RunFields ==
  ASSUME Inv, NEW r \in Run, NEW x, run' = [run EXCEPT ![r].claim = x]
  PROVE  \A q \in Run : run'[q].claim = IF q = r THEN x ELSE run[q].claim
  BY DEF Inv, LineInv, RunRecord

\* A run that ends has no claim.
LEMMA LeaveFields ==
  ASSUME Inv, NEW r \in Run, run' = [run EXCEPT ![r] = NoRun]
  PROVE  \A q \in Run : run'[q].claim = None \/ run'[q].claim = run[q].claim
  BY DEF Inv, LineInv, NoRun

\* A run that gets in line touches no row.
LEMMA EnterLetters == ASSUME Inv, LetterInv, NEW r \in Run, Enter(r) PROVE LetterInv'
<1>1. \A q \in Run : run'[q].claim = None \/ run'[q].claim = run[q].claim
  BY DEF Enter, Inv, LineInv, NoRun
<1>2. ClaimedInv'
  BY <1>1, ClaimedStays DEF Enter
<1> QED
  BY <1>2, RunCalm DEF Enter, runRest, Id

\* A run that lapses touches no row.
LEMMA LapseLetters == ASSUME Inv, LetterInv, NEW r \in Run, Lapse(r) PROVE LetterInv'
<1>1. ClaimedInv'
  BY ClaimedStays DEF Lapse
<1> QED
  BY <1>1, RunCalm DEF Lapse, runRest, Id

\* A release puts rows back, and nothing else.
LEMMA ResetRows ==
  ASSUME Inv, NEW S \in SUBSET Stuck, Reset(S)
  PROVE  /\ DOMAIN rows' = Id
         /\ \A i \in Id :
              /\ rows'[i].letter = rows[i].letter /\ rows'[i].on = rows[i].on
              /\ rows'[i].at = rows[i].at /\ rows'[i].turn = rows[i].turn
              /\ rows'[i].version = rows[i].version
              /\ rows'[i].status \in {"pending", "sending"} =>
                   rows[i].status \in {"pending", "sending"}
  BY DEF Reset, Stuck, Inv, TableInv, FitRow, RowRecord

\* A recovery puts rows back that were being sent.
LEMMA RecoverLetters == ASSUME Inv, LetterInv, NEW r \in Run, Recover(r) PROVE LetterInv'
<1>1. PICK S \in SUBSET Stuck : Reset(S)
  BY DEF Recover
<1>2. \A q \in Run : run'[q].claim = None \/ run'[q].claim = run[q].claim
  <2>1. CASE run' = [run EXCEPT ![r].stage = "firing"]
    BY <2>1 DEF Inv, LineInv, RunRecord
  <2> QED
    BY <2>1, LeaveFields DEF Recover, Leave
<1>3. ClaimedInv'
  BY <1>1, <1>2, ResetRows, ClaimedStays
<1> QED
  BY <1>1, <1>3, ResetRows, RunCalm DEF Recover, runRest

\* A claim is of the row as it is.
LEMMA ClaimLetters ==
  ASSUME Inv, LetterInv, NEW r \in Run, NEW i \in Id, Claim(r, i) PROVE LetterInv'
<1>1. /\ DOMAIN rows' = Id /\ Due(i)
      /\ \A j \in Id : rows'[j] = IF j = i THEN [rows[i] EXCEPT !.status = "sending"] ELSE rows[j]
  BY DEF Claim, Id
<1>2. \A j \in Id :
        /\ rows'[j].letter = rows[j].letter /\ rows'[j].on = rows[j].on
        /\ rows'[j].at = rows[j].at /\ rows'[j].turn = rows[j].turn
        /\ rows'[j].version = rows[j].version
        /\ rows'[j].status \in {"pending", "sending"} =>
             rows[j].status \in {"pending", "sending"}
  BY <1>1 DEF Due, Inv, TableInv, FitRow, RowRecord
<1>3. ClaimedInv'
  <2> DEFINE c == [row |-> i, letter |-> rows[i].letter, turn |-> rows[i].turn,
                   version |-> rows[i].version, kind |-> rows[i].kind]
  <2>1. run' = [run EXCEPT ![r].claim = c]
    BY DEF Claim
  <2>2. c.row = i /\ c.letter = rows[i].letter /\ c.turn = rows[i].turn /\ c.version = rows[i].version
    OBVIOUS
  <2> HIDE DEF c
  <2>4. \A q \in Run : run'[q].claim = IF q = r THEN c ELSE run[q].claim
    BY <2>1, RunFields
  <2>3. \A q \in Run \ {r} : run[q].claim # None => run[q].claim.row \in Id
    BY ClaimedRow
  <2> QED
    BY <1>2, <2>2, <2>3, <2>4 DEF LetterInv, ClaimedInv
<1> QED
  BY <1>1, <1>2, <1>3, RunCalm DEF Claim, runRest

\* A claimed row is put down with another status.
LEMMA PutDown ==
  ASSUME Inv, LetterInv, NEW r \in Run, Claiming(r),
         \A q \in Run : run'[q].claim = None \/ run'[q].claim = run[q].claim,
         UNCHANGED <<nextRow, mac, sync, op, historyVars>>, DOMAIN rows' = Id,
         \A j \in Id \ {run[r].claim.row} : rows'[j] = rows[j],
         rows'[run[r].claim.row].letter = rows[run[r].claim.row].letter,
         rows'[run[r].claim.row].on = rows[run[r].claim.row].on,
         rows'[run[r].claim.row].at = rows[run[r].claim.row].at,
         rows'[run[r].claim.row].turn = rows[run[r].claim.row].turn,
         rows'[run[r].claim.row].version = rows[run[r].claim.row].version
  PROVE  LetterInv'
<1> DEFINE i == run[r].claim.row
<1>1. i \in Id /\ rows[i].status = "sending"
  BY ClaimedRow DEF Claiming
<1>2. \A j \in Id :
        /\ rows'[j].letter = rows[j].letter /\ rows'[j].on = rows[j].on
        /\ rows'[j].at = rows[j].at /\ rows'[j].turn = rows[j].turn
        /\ rows'[j].version = rows[j].version
        /\ rows'[j].status \in {"pending", "sending"} =>
             rows[j].status \in {"pending", "sending"}
  BY <1>1
<1>3. ClaimedInv'
  BY <1>2, ClaimedStays
<1> QED
  BY <1>2, <1>3, RunCalm

\* A deferral puts the row back.
LEMMA DeferLetters == ASSUME Inv, LetterInv, NEW r \in Run, Defer(r) PROVE LetterInv'
<1> DEFINE i == run[r].claim.row
<1>1. i \in Id /\ rows[i] \in RowRecord /\ Claiming(r) /\ Held(i)
  BY ClaimedRow DEF Defer, Claiming, Inv, TableInv, FitRow, ClaimInv
<1>2. rows' = [rows EXCEPT ![i].status = "pending"]
  BY <1>1 DEF Defer
<1>3. /\ DOMAIN rows' = Id /\ \A j \in Id \ {i} : rows'[j] = rows[j]
      /\ rows'[i] = [rows[i] EXCEPT !.status = "pending"]
  BY <1>1, <1>2 DEF Id
<1>4. \A q \in Run : run'[q].claim = None \/ run'[q].claim = run[q].claim
  BY RunFields DEF Defer, MoveOn
<1> QED
  BY <1>1, <1>3, <1>4, PutDown DEF Defer, runRest, RowRecord

\* A refusal puts it back or retires it.
LEMMA FailLetters == ASSUME Inv, LetterInv, NEW r \in Run, Fail(r) PROVE LetterInv'
<1> DEFINE i == run[r].claim.row
           attempts == rows[i].attempts + 1
           status == IF attempts >= MaxAttempts THEN "error" ELSE "pending"
<1>1. i \in Id /\ rows[i] \in RowRecord /\ Claiming(r) /\ Held(i)
  BY ClaimedRow DEF Fail, Claiming, Inv, TableInv, FitRow, ClaimInv
<1>2. rows' = [rows EXCEPT ![i] = [rows[i] EXCEPT !.attempts = attempts, !.status = status]]
  BY <1>1 DEF Fail
<1> HIDE DEF attempts, status
<1>3. /\ DOMAIN rows' = Id /\ \A j \in Id \ {i} : rows'[j] = rows[j]
      /\ rows'[i] = [rows[i] EXCEPT !.attempts = attempts, !.status = status]
  BY <1>1, <1>2 DEF Id
<1>4. \A q \in Run : run'[q].claim = None \/ run'[q].claim = run[q].claim
  BY RunFields DEF Fail, MoveOn
<1> QED
  BY <1>1, <1>3, <1>4, PutDown DEF Fail, runRest, RowRecord

\* A release the store refuses leaves it where it is.
LEMMA StickLetters == ASSUME Inv, LetterInv, NEW r \in Run, Stick(r) PROVE LetterInv'
<1>1. CASE MoveOn(r)
  <2>1. \A q \in Run : run'[q].claim = None \/ run'[q].claim = run[q].claim
    BY <1>1, RunFields DEF MoveOn
  <2> QED
    BY <2>1, PutDown DEF Stick, runRest, Id
<1>2. CASE Leave(r)
  <2>1. \A q \in Run : run'[q].claim = None \/ run'[q].claim = run[q].claim
    BY <1>2, LeaveFields DEF Leave
  <2> QED
    BY <2>1, PutDown DEF Stick, runRest, Id
<1> QED
  BY <1>1, <1>2 DEF Stick

\* A run that ends leaves the rows as they are.
LEMMA FinishLetters == ASSUME Inv, LetterInv, NEW r \in Run, Finish(r) PROVE LetterInv'
<1>1. \A q \in Run : run'[q].claim = None \/ run'[q].claim = run[q].claim
  BY LeaveFields DEF Finish, Leave
<1>2. ClaimedInv'
  BY <1>1, ClaimedStays DEF Finish
<1> QED
  BY <1>2, RunCalm DEF Finish, runRest, Id

\* A turn goes out: it had not, so it has once.
LEMMA GoesOut ==
  ASSUME LetterInv, NEW l \in Letter, NEW k \in Turn, NEW v \in Nat, GoOut(l, k, v)
  PROVE  /\ HistoryTyped' /\ UNCHANGED <<floor, promised, unsure>>
         /\ \A m \in Letter \ {l} : went'[m] = went[m] /\ (m \in stale' => m \in stale)
         /\ \A n \in Turn \ {k} : went'[l][n] = went[l][n]
         /\ went[l][k] = 0 => went'[l][k] = 1
         /\ floor[l] <= v => stale' = stale
<1>1. /\ went \in [Letter -> [Turn -> 0 .. 2]] /\ floor \in [Letter -> Nat]
      /\ promised \subseteq Letter /\ stale \subseteq Letter
  BY DEF LetterInv, HistoryTyped
<1>2. /\ went' = [went EXCEPT ![l][k] = IF went[l][k] = 2 THEN 2 ELSE went[l][k] + 1]
      /\ stale' = (IF v < floor[l] THEN stale \cup {l} ELSE stale)
      /\ UNCHANGED <<floor, promised, unsure>>
  BY DEF GoOut
<1> DEFINE w == IF went[l][k] = 2 THEN 2 ELSE went[l][k] + 1
<1>3. w \in 0 .. 2 /\ (went[l][k] = 0 => w = 1)
  BY <1>1
<1>4. went' = [went EXCEPT ![l][k] = w]
  BY <1>2
<1> HIDE DEF w
<1>5. went' \in [Letter -> [Turn -> 0 .. 2]]
  BY <1>1, <1>3, <1>4
<1> QED
  BY <1>1, <1>2, <1>3, <1>4, <1>5 DEF HistoryTyped

\* A row that was being sent went out, and is done or waits for its next turn.
LEMMA Sends ==
  ASSUME Inv, LetterInv, NEW i \in Id, NEW l \in Letter, NEW k \in Turn, NEW v \in Nat,
         rows[i].letter = l, rows[i].turn = k, rows[i].version = v,
         rows[i].status = "sending", rows[i].on = None, rows[i].at <= now,
         GoOut(l, k, v), UNCHANGED <<nextRow, mac, sync, op>>,
         DOMAIN rows' = Id, \A j \in Id \ {i} : rows'[j] = rows[j],
         rows'[i].letter = l, rows'[i].on = None, rows'[i].version = v,
         \/ rows'[i].status = "sent" /\ rows'[i].at = rows[i].at /\ rows'[i].turn = k
         \/ rows'[i].at = now + 1 /\ rows'[i].turn = k + 1,
         ClaimedInv'
  PROVE  LetterInv'
<1>1. /\ HistoryTyped' /\ UNCHANGED <<floor, promised, unsure>>
      /\ \A m \in Letter \ {l} : went'[m] = went[m] /\ (m \in stale' => m \in stale)
      /\ \A n \in Turn \ {k} : went'[l][n] = went[l][n]
      /\ went[l][k] = 0 => went'[l][k] = 1
      /\ floor[l] <= v => stale' = stale
  BY GoesOut
<1>2. Id' = Id
  BY DEF Id
<1>3. Steady /\ nextRow' \in Nat
  BY <1>2, Numbers DEF Steady
<1>4. \A m : ItemsOf(m)' = ItemsOf(m) /\ RowsOf(m)' = RowsOf(m)
  BY <1>2 DEF ItemsOf, RowsOf
<1>5. ShownInv'
  BY <1>2 DEF LetterInv, ShownInv, ItemsOf, Local
<1>6. ASSUME NEW m \in Letter \ {l} PROVE Calm(m)
  <2>1. \A j \in RowsOf(m) : rows'[j] = rows[j]
    BY DEF RowsOf
  <2> QED
    BY <1>1, <1>4, <2>1 DEF Calm
<1>7. AbsentInv'
  BY StillAbsent DEF LetterInv
<1>8. i \in Active(l)
  BY DEF Active, RowsOf, Local
<1>9. ASSUME l \notin unsure PROVE SoleInv(l)'
  <2>1. SoleInv(l)
    BY <1>9 DEF LetterInv
  <2>2. Active(l) = {i} /\ Pending(l) = {} /\ Older(l, v) /\ floor[l] <= v
        /\ (\A n \in Turn : n >= k => went[l][n] = 0) /\ \A n \in Turn : went[l][n] <= 1
    BY <1>8, <2>1 DEF SoleInv
  <2>3. Pending(l)' = {} /\ Older(l, v)'
    BY <1>4, <2>2 DEF Pending, Older
  <2>4. Active(l)' \subseteq {i}
    BY <1>2, <2>2 DEF Active, RowsOf, Local
  <2>5. \A n \in Turn : n \in Int
    BY ScheduledAssumption DEF Turn
  <2>6. \A n \in Turn : went'[l][n] <= 1
    BY <1>1, <2>2, <2>5
  <2>7. ASSUME i \in Active(l)' PROVE \A n \in Turn : n >= rows'[i].turn => went'[l][n] = 0
    <3>1. rows'[i].turn = k + 1
      BY <2>7 DEF Active
    <3> QED
      BY <1>1, <2>2, <2>5, <3>1
  <2>8. l \notin stale' /\ floor'[l] <= v
    BY <1>1, <2>1, <2>2 DEF SoleInv
  <2> QED
    BY <2>3, <2>4, <2>6, <2>7, <2>8 DEF SoleInv
<1>10. Promise(l)'
  BY <1>2 DEF Promise, Shown, RowsOf, Local
<1>11. ASSUME NEW g \in Hand, op[g].stage # "none", op[g].letter = l PROVE CallInv(g)'
  <2> DEFINE o == op[g]
  <2>1. CallInv(g) /\ op'[g] = op[g]
    BY DEF LetterInv
  <2>2. ASSUME o.stage \in ByRow PROVE RowHeld(o)'
    <3>1. RowHeld(o)
      BY <2>1, <2>2 DEF CallInv
    <3>2. o.wasOn # None => o.wasOn \in ItemsOf(o.letter)'
      BY <1>4, <3>1 DEF RowHeld
    <3>3. CASE o.row = i
      <4>1. o.wasOn = None /\ rows[i].at >= o.wasAt /\ (rows[i].at = o.wasAt => k = o.turn)
            /\ (o.stage = "patch" => v < o.version)
        BY <3>1, <3>3 DEF RowHeld
      <4> QED
        BY <1>2, <1>3, <3>1, <3>2, <3>3, <4>1, <1>11, Numbers DEF RowHeld
    <3>4. CASE o.row # i
      BY <1>2, <3>1, <3>2, <3>4 DEF RowHeld
    <3> QED
      BY <3>3, <3>4
  <2>3. l \notin unsure => o.stage \notin Scheduling
    BY <1>8, <1>11, <2>1 DEF CallInv, Begun, Newborn
  <2>4. ASSUME l \notin unsure, o.stage \in ByRow PROVE Moved(l, o)'
    <3>1. Moved(l, o)
      BY <1>11, <2>1, <2>4 DEF CallInv
    <3>2. ~Idle(l) /\ ~Newest(l, o.on, o.version)
      BY <1>8 DEF Idle, Newest
    <3> QED
      BY <1>1, <3>1, <3>2 DEF Moved
  <2>5. o.stage \in {"insert", "patch"} /\ o.on # None =>
        o.on \in ItemsOf(o.letter)' /\ mac'[o.on].version = o.version
    BY <1>4, <2>1 DEF CallInv
  <2>6. o.stage \in Scheduling => o.version = 0 /\ o.wasOn = None
    BY <2>1 DEF CallInv
  <2>7. o.stage \in {"create", "lost", "timedOut", "editor", "replace", "recreate"} => o.on = None
    BY <2>1 DEF CallInv
  <2> QED
    BY <1>1, <1>11, <2>1, <2>2, <2>3, <2>4, <2>5, <2>6, <2>7 DEF CallInv
<1> QED
  <2>1. \A m \in Letter : Calm(m) \/ ((m \notin unsure' => SoleInv(m)') /\ Promise(m)')
    BY <1>1, <1>6, <1>9, <1>10
  <2>2. \A g \in Hand : CallInv(g)' \/ (op'[g] = op[g] /\ (op[g].stage = "none" \/ Calm(op[g].letter)))
    BY <1>6, <1>11, Numbers
  <2>3. \A g \in Hand : op'[g] = op[g]
    OBVIOUS
  <2> QED
    BY <1>1, <1>3, <1>5, <1>7, <2>1, <2>2, <2>3, Assemble

\* The hand-over is such a step: its claim is of the row as it was read.
LEMMA HandOverLetters == ASSUME Inv, LetterInv, NEW r \in Run, HandOver(r) PROVE LetterInv'
<1>1. PICK c \in Claimed : c = run[r].claim
  BY ClaimedRow DEF HandOver, Claiming
<1>2. PICK i \in Id : i = c.row
  BY <1>1, ClaimedRow DEF HandOver, Claiming
<1>3. /\ c.letter \in Letter /\ c.turn \in Turn /\ c.version \in Nat
      /\ rows[i].status = "sending" /\ rows[i].on = None /\ rows[i] \in RowRecord /\ rows[i].at <= now
      /\ rows[i].letter = c.letter /\ rows[i].turn = c.turn /\ rows[i].version = c.version
  BY <1>1, <1>2, ClaimedRow, Numbers
  DEF HandOver, Claiming, LetterInv, ClaimedInv, Inv, TableInv, FitRow, Local, Claimed
<1>4. /\ GoOut(c.letter, c.turn, c.version) /\ MoveOn(r) /\ UNCHANGED <<nextRow, mac, now, sync, op>>
      /\ rows' = [rows EXCEPT ![i] =
           IF c.kind = "repeat"
             THEN [rows[i] EXCEPT !.status = "pending", !.at = now + 1,
                                  !.turn = rows[i].turn + 1, !.attempts = 0]
             ELSE [rows[i] EXCEPT !.status = "sent"]]
  BY <1>1, <1>2, <1>3 DEF HandOver, runRest, Held, Local
<1>5. /\ DOMAIN rows' = Id /\ \A j \in Id \ {i} : rows'[j] = rows[j]
      /\ rows'[i] = IF c.kind = "repeat"
                      THEN [rows[i] EXCEPT !.status = "pending", !.at = now + 1,
                                           !.turn = rows[i].turn + 1, !.attempts = 0]
                      ELSE [rows[i] EXCEPT !.status = "sent"]
  BY <1>4 DEF Id
<1>6. /\ rows'[i].letter = c.letter /\ rows'[i].on = None /\ rows'[i].version = c.version
      /\ \/ rows'[i].status = "sent" /\ rows'[i].at = rows[i].at /\ rows'[i].turn = c.turn
         \/ rows'[i].at = now + 1 /\ rows'[i].turn = c.turn + 1
  BY <1>3, <1>5 DEF RowRecord
<1>7. ClaimedInv'
  <2>1. \A q \in Run \ {r} : run[q].claim = None
    BY <1>1, OneFires DEF Inv, LineInv, HandOver, Claiming
  <2>2. \A q \in Run : run'[q].claim = IF q = r THEN None ELSE run[q].claim
    BY <1>4, RunFields DEF MoveOn
  <2> QED
    BY <2>1, <2>2 DEF ClaimedInv
<1> QED
  BY <1>3, <1>4, <1>5, <1>6, <1>7, Sends

\* The reconciliation takes rows away that nothing stands behind, and shows what is there.
LEMMA SyncCalm ==
  ASSUME Inv, LetterInv, UNCHANGED syncRest, Steady, nextRow' \in Nat, \A l : Calm(l),
         \A i \in Id : Local(i) => i \in Id' /\ rows'[i] = rows[i],
         ShownInv', AbsentInv'
  PROVE  LetterInv'
<1>1. ClaimedInv'
  BY ClaimedRow DEF LetterInv, ClaimedInv, syncRest, runVars
<1>2. HistoryTyped'
  BY DEF LetterInv, HistoryTyped, syncRest, historyVars
<1>3. \A g \in Hand : op'[g] = op[g]
  BY DEF syncRest
<1> QED
  BY <1>1, <1>2, <1>3, Assemble

\* A reconciliation that changes no row leaves every letter as it was.
LEMMA SyncStill ==
  ASSUME Inv, LetterInv, UNCHANGED <<rows, nextRow, syncRest>>, AbsentInv' PROVE LetterInv'
<1>1. Steady /\ nextRow' \in Nat /\ \A l : Calm(l)
  BY StillCalm DEF syncRest, historyVars
<1>2. ShownInv'
  BY StillShown DEF LetterInv, syncRest
<1> QED
  BY <1>1, <1>2, SyncCalm DEF Id

\* The request: every row of the Mac's has an item that exists.
LEMMA ExposeLetters == ASSUME Inv, LetterInv, Expose PROVE LetterInv'
<1>1. sync'.exposed = Exposure /\ sync'.stage = "exposed" /\ UNCHANGED mac
  BY DEF Expose, NoSync, syncRest
<1>2. \A e \in Exposure : e[2] \in Item /\ mac[e[2]].state # "none"
  <2>1. \A i \in Id : ~Local(i) => rows[i].on \in Item /\ mac[rows[i].on].state # "none"
    BY DEF LetterInv, ShownInv, ItemsOf
  <2> QED
    BY <2>1 DEF Exposure
<1> QED
  BY <1>1, <1>2, SyncStill DEF AbsentInv, Expose

\* The answer: an item that is not in the list was removed.
LEMMA FetchLetters == ASSUME Inv, LetterInv, Fetch PROVE LetterInv'
<1>1. UNCHANGED <<rows, nextRow, syncRest, mac>>
  BY DEF Fetch, syncRest
<1>2. CASE sync' = NoSync
  BY <1>1, <1>2, SyncStill DEF AbsentInv, NoSync
<1>3. CASE sync'.exposed = sync.exposed /\ sync'.list = {<<i, mac[i].state>> : i \in Listed}
  <2>1. ASSUME NEW e \in sync.exposed, \A x \in sync'.list : x[1] # e[2]
        PROVE  mac[e[2]].state = "removed"
    <3>1. e[2] \in Item /\ mac[e[2]].state # "none"
      BY DEF LetterInv, AbsentInv
    <3>2. e[2] \notin Listed
      <4> SUFFICES ASSUME e[2] \in Listed PROVE FALSE
        OBVIOUS
      <4>1. <<e[2], mac[e[2]].state>> \in sync'.list
        BY <1>3
      <4> QED
        BY <2>1, <4>1
    <3> QED
      BY <3>1, <3>2 DEF Listed, Inv, MacInv, FitItem, MacRecord
  <2> QED
    BY <1>1, <1>3, <2>1, SyncStill DEF LetterInv, AbsentInv
<1>4. sync' = NoSync \/
      (sync'.exposed = sync.exposed /\ sync'.list = {<<i, mac[i].state>> : i \in Listed})
  BY DEF Fetch, Inv, SyncInv, SyncRecord
<1> QED
  BY <1>2, <1>3, <1>4

\* A row is made for an item that is there.
LEMMA Imports ==
  ASSUME Inv, LetterInv, NEW i \in Item, NEW status, mac[i].state # "none",
         Insert(RowOf(i, status)), UNCHANGED syncRest, AbsentInv'
  PROVE  LetterInv'
<1>1. /\ Id' = Id \cup {nextRow} /\ nextRow' = nextRow + 1 /\ nextRow \notin Id
      /\ \A r \in Id : rows'[r] = rows[r]
      /\ rows'[nextRow] = RowOf(i, status)
  BY Numbers DEF Insert, Id
<1>2. mac' = mac /\ went' = went /\ floor' = floor /\ promised' = promised /\ unsure' = unsure
      /\ stale' = stale
  BY DEF syncRest, historyVars
<1>3. i # None /\ i \in ItemsOf(mac[i].letter)
  BY Items DEF ItemsOf
<1>4. \A l : ItemsOf(l)' = ItemsOf(l)
  BY <1>2 DEF ItemsOf
<1>5. ASSUME NEW l PROVE Calm(l)
  <2>1. RowsOf(l)' = RowsOf(l) \cup (IF mac[i].letter = l THEN {nextRow} ELSE {})
    BY <1>1 DEF RowsOf, RowOf
  <2>2. rows'[nextRow].on # None
    BY <1>1, <1>3 DEF RowOf
  <2> QED
    BY <1>1, <1>2, <1>3, <1>4, <2>1, <2>2 DEF Calm, RowsOf, Local
<1>6. Steady /\ nextRow' \in Nat
  BY <1>1, Numbers DEF Steady
<1>7. ShownInv'
  BY <1>1, <1>2, <1>3, <1>4 DEF LetterInv, ShownInv, Local, RowOf
<1> QED
  BY <1>1, <1>5, <1>6, <1>7, SyncCalm

\* A row of an item is brought up to date.
LEMMA Updates ==
  ASSUME Inv, LetterInv, NEW i \in Item, NEW r \in Id, NEW status, rows[r].on = i,
         rows' = [rows EXCEPT ![r] = [@ EXCEPT !.version = mac[i].version, !.at = mac[i].at,
                                               !.status = status]],
         UNCHANGED <<nextRow, syncRest>>, AbsentInv'
  PROVE  LetterInv'
<1>1. /\ Id' = Id /\ \A j \in Id \ {r} : rows'[j] = rows[j]
      /\ rows'[r] = [rows[r] EXCEPT !.version = mac[i].version, !.at = mac[i].at,
                                    !.status = status]
  BY DEF Id
<1>2. rows'[r].letter = rows[r].letter /\ rows'[r].on = i /\ rows'[r].version = mac[i].version
  <2> DEFINE x == [rows[r] EXCEPT !.version = mac[i].version, !.at = mac[i].at,
                                  !.status = status]
  <2>1. rows[r] \in RowRecord
    BY DEF Inv, TableInv, FitRow
  <2>2. x.letter = rows[r].letter /\ x.on = rows[r].on /\ x.version = mac[i].version
    BY <2>1 DEF RowRecord
  <2>3. rows'[r] = x
    BY <1>1
  <2> HIDE DEF x
  <2> QED
    BY <2>2, <2>3
<1>3. mac' = mac /\ went' = went /\ floor' = floor /\ promised' = promised /\ unsure' = unsure
      /\ stale' = stale
  BY DEF syncRest, historyVars
<1>4. i # None
  BY Items
<1>5. \A l : ItemsOf(l)' = ItemsOf(l) /\ RowsOf(l)' = RowsOf(l)
  BY <1>1, <1>2, <1>3 DEF ItemsOf, RowsOf
<1>6. ASSUME NEW l PROVE Calm(l)
  BY <1>1, <1>2, <1>3, <1>4, <1>5 DEF Calm, RowsOf, Local
<1>7. Steady /\ nextRow' \in Nat
  BY <1>1, <1>2, Numbers DEF Steady
<1>8. ShownInv'
  BY <1>1, <1>2, <1>3, <1>5 DEF LetterInv, ShownInv, Local
<1> QED
  BY <1>1, <1>4, <1>6, <1>7, <1>8, SyncCalm DEF Local

\* A row is brought up to date, or made for an item nobody here knew.
LEMMA MergeLetters == ASSUME Inv, LetterInv, NEW i \in Item, Merge(i) PROVE LetterInv'
<1>1. mac[i].state # "none" /\ mac' = mac /\ UNCHANGED syncRest
  BY DEF Merge, Inv, SyncInv, syncRest
<1>2. AbsentInv'
  <2>1. sync'.exposed = sync.exposed /\ sync'.list = sync.list /\ sync'.stage = sync.stage
    BY DEF Merge, Inv, SyncInv, SyncRecord
  <2> QED
    BY <1>1, <2>1 DEF LetterInv, AbsentInv
<1>3. PICK status : status = StatusOf((CHOOSE e \in sync.list : e[1] = i)[2])
  OBVIOUS
<1>4. CASE UNCHANGED <<rows, nextRow>>
  BY <1>1, <1>2, <1>4, SyncStill
<1>5. CASE Insert(RowOf(i, status))
  BY <1>1, <1>2, <1>5, Imports
<1>6. CASE \E r \in Id :
             /\ rows[r].on = i /\ UNCHANGED nextRow
             /\ rows' = [rows EXCEPT ![r] =
                  [@ EXCEPT !.version = mac[i].version, !.at = mac[i].at, !.status = status]]
  BY <1>1, <1>2, <1>6, Updates
<1> QED
  BY <1>3, <1>4, <1>5, <1>6 DEF Merge

\* The row that is pruned shows an item the Mac has removed.
LEMMA PruneLetters == ASSUME Inv, LetterInv, NEW e \in sync.exposed, Prune(e) PROVE LetterInv'
<1>1. /\ mac' = mac /\ went' = went /\ floor' = floor /\ promised' = promised
      /\ unsure' = unsure /\ stale' = stale /\ nextRow' = nextRow /\ UNCHANGED syncRest
  BY DEF Prune, syncRest, historyVars
<1>2. e[2] \in Item /\ mac[e[2]].state = "removed"
  BY DEF Prune, Absent, LetterInv, AbsentInv
<1>3. AbsentInv'
  <2>1. sync'.exposed \subseteq sync.exposed /\ sync'.list = sync.list /\ sync'.stage = sync.stage
    BY DEF Prune, Inv, SyncInv, SyncRecord
  <2> QED
    BY <1>1, <2>1 DEF LetterInv, AbsentInv
<1>4. /\ Id' = Id \ PruneExact(e) /\ \A j \in Id' : rows'[j] = rows[j]
      /\ \A r \in PruneExact(e) : rows[r].on = e[2] /\ rows[r].on # None
  BY <1>2, Items DEF Prune, Delete, PruneExact, Id
<1>5. \A l : ItemsOf(l)' = ItemsOf(l) /\ RowsOf(l)' = RowsOf(l) \ PruneExact(e)
  BY <1>1, <1>4 DEF ItemsOf, RowsOf
<1>6. ASSUME NEW l PROVE Calm(l)
  <2>1. \A i \in RowsOf(l) : Local(i) \/ mac[rows[i].on].state # "removed" => i \in RowsOf(l)'
    BY <1>2, <1>4, <1>5 DEF Local
  <2> QED
    BY <1>1, <1>4, <1>5, <2>1 DEF Calm, RowsOf, Local
<1>7. Steady /\ nextRow' \in Nat
  BY <1>1, <1>4, Numbers DEF Steady
<1>8. ShownInv'
  BY <1>1, <1>4, <1>5 DEF LetterInv, ShownInv, Local
<1> QED
  BY <1>1, <1>3, <1>4, <1>6, <1>7, <1>8, SyncCalm DEF Local

\* The reconciliation ends.
LEMMA EndSyncLetters == ASSUME Inv, LetterInv, EndSync PROVE LetterInv'
  BY SyncStill DEF EndSync, AbsentInv, NoSync

-----------------------------------------------------------------------------
(* The owner's calls.                                                        *)

\* One call becomes x, the others stay.
LEMMA CallFields ==
  ASSUME Inv, NEW h \in Hand, NEW x, op' = [op EXCEPT ![h] = x]
  PROVE  op'[h] = x /\ \A g \in Hand \ {h} : op'[g] = op[g]
  BY DEF Inv, OpInv

\* A call that goes on keeps what it has in hand.
LEMMA StepFields ==
  ASSUME Inv, NEW h \in Hand, NEW s, Step(h, s)
  PROVE  /\ op'[h].stage = s /\ op'[h].letter = op[h].letter /\ op'[h].version = op[h].version
         /\ op'[h].turn = op[h].turn /\ op'[h].at = op[h].at /\ op'[h].row = op[h].row
         /\ op'[h].wasAt = op[h].wasAt /\ op'[h].wasOn = op[h].wasOn /\ op'[h].on = op[h].on
         /\ op'[h].kind = op[h].kind
         /\ \A g \in Hand \ {h} : op'[g] = op[g]
<1> DEFINE x == [op[h] EXCEPT !.stage = s]
<1>1. op[h] \in OpRecord
  BY DEF Inv, OpInv
<1>2. /\ x.stage = s /\ x.letter = op[h].letter /\ x.version = op[h].version
      /\ x.turn = op[h].turn /\ x.at = op[h].at /\ x.row = op[h].row
      /\ x.wasAt = op[h].wasAt /\ x.wasOn = op[h].wasOn /\ x.on = op[h].on
      /\ x.kind = op[h].kind
  BY <1>1 DEF OpRecord
<1>3. op' = [op EXCEPT ![h] = x]
  BY DEF Step
<1> HIDE DEF x
<1> QED
  BY <1>2, <1>3, CallFields

\* A call that has ended knows nothing.
LEMMA DoneFields ==
  ASSUME Inv, NEW h \in Hand, Done(h)
  PROVE  CallInv(h)' /\ \A g \in Hand \ {h} : op'[g] = op[g]
<1>1. op'[h] = NoOp /\ \A g \in Hand \ {h} : op'[g] = op[g]
  BY CallFields DEF Done
<1> QED
  BY <1>1 DEF CallInv, NoOp, ByRow, Scheduling

\* A call that only looks, or loses track of its letter.
LEMMA Looks ==
  ASSUME Inv, LetterInv, NEW h \in Hand, UNCHANGED <<rows, nextRow, mac, ownerRest>>,
         UNCHANGED historyVars \/ \E l : Unsure(l),
         \A g \in Hand \ {h} : op'[g] = op[g], CallInv(h)',
         MovesItem(op[h]) => op[h].letter \in unsure'
  PROVE  LetterInv'
<1>1. /\ went' = went /\ floor' = floor /\ promised' = promised /\ stale' = stale
      /\ unsure \subseteq unsure'
  BY DEF historyVars, Unsure
<1>2. Steady /\ nextRow' \in Nat /\ \A l : Calm(l)
  BY <1>1, StillCalm
<1>3. ShownInv' /\ HistoryTyped'
  BY <1>1, StillShown DEF LetterInv, HistoryTyped
<1>4. AbsentInv'
  BY StillAbsent DEF LetterInv, ownerRest
<1>5. ClaimedInv'
  BY DEF LetterInv, ClaimedInv, ownerRest, runVars
<1>6. \A g \in Hand : CallInv(g)' \/ (op'[g] = op[g] /\ (op[g].stage = "none" \/ Calm(op[g].letter)))
  BY <1>2
<1>7. \A g \in Hand, m \in Letter : MovesItem(op[g]) /\ op[g].letter = m =>
        m \in unsure' \/ Promise(m)' \/ (op'[g].letter = m /\ MovesItem(op'[g]))
  OBVIOUS
<1> QED
  BY <1>2, <1>3, <1>4, <1>5, <1>6, <1>7, Assemble

\* The calls that touch neither the table nor the Mac.
LEMMA ScheduleLetters ==
  ASSUME Inv, LetterInv, NEW h \in Hand, NEW l \in Letter, NEW kind \in Kind, Schedule(h, l, kind)
  PROVE  LetterInv'
<1> DEFINE x == [NoOp EXCEPT !.stage = IF kind = "repeat" THEN "insert" ELSE "create",
                             !.letter = l, !.kind = kind, !.at = now + 1]
<1>1. /\ x.stage \in {"insert", "create"} /\ x.letter = l /\ x.version = 0 /\ x.wasOn = None
      /\ x.on = None
  BY DEF NoOp
<1>2. op' = [op EXCEPT ![h] = x] /\ op[h].stage = "none" /\ l \notin Asked
  BY DEF Schedule
<1> HIDE DEF x
<1>3. op'[h] = x /\ \A g \in Hand \ {h} : op'[g] = op[g]
  BY <1>2, CallFields
<1>4. UNCHANGED <<rows, nextRow, mac, historyVars, ownerRest>>
  BY DEF Schedule
<1>5. /\ RowsOf(l) = {} /\ ItemsOf(l) = {} /\ l \notin promised
      /\ ~\E k \in Turn : went[l][k] > 0 \/ floor[l] > 0
  BY <1>2 DEF Asked, RowsOf, ItemsOf
<1>6. Unsent(l) /\ floor[l] = 0
  <2>1. \A k \in Turn : went[l][k] \in 0 .. 2
    BY DEF LetterInv, HistoryTyped
  <2>2. floor[l] \in Nat /\ 0 \in Turn
    BY ScheduledAssumption DEF LetterInv, HistoryTyped, Turn
  <2> QED
    BY <1>5, <2>1, <2>2 DEF Unsent
<1>7. Blank(l)' /\ Newborn(l)'
  <2>1. RowsOf(l)' = {} /\ ItemsOf(l)' = {}
    BY <1>4, <1>5 DEF RowsOf, ItemsOf, Id
  <2>2. Unsent(l)' /\ floor'[l] = 0 /\ l \notin promised'
    BY <1>4, <1>5, <1>6 DEF Unsent, historyVars
  <2> QED
    BY <2>1, <2>2 DEF Blank, Newborn, Active
<1>8. CallInv(h)'
  BY <1>1, <1>3, <1>7 DEF CallInv, Begun, Scheduling, ByRow
<1> QED
  BY <1>2, <1>3, <1>4, <1>8, Looks DEF MovesItem

\* A look at the list finds the only item there can be, or none.
LEMMA LookLetters == ASSUME Inv, LetterInv, NEW h \in Hand, Look(h) PROVE LetterInv'
<1>1. /\ op[h].stage \in {"lost", "timedOut"} /\ UNCHANGED <<rows, nextRow, mac, ownerRest>>
      /\ UNCHANGED historyVars \/ \E l : Unsure(l)
      /\ CallInv(h)
  BY DEF Look, LetterInv
<1>2. op[h].version = 0 /\ op[h].wasOn = None /\ op[h].on = None
  BY <1>1 DEF CallInv, Scheduling
<1>3. CASE Done(h)
  BY <1>1, <1>3, DoneFields, Looks DEF MovesItem
<1>4. CASE Step(h, "insert") /\ Unsure(op[h].letter)
  <2>1. CallInv(h)'
    BY <1>2, <1>4, StepFields DEF CallInv, Scheduling, ByRow, Unsure
  <2> QED
    BY <1>1, <1>4, <2>1, StepFields, Looks DEF MovesItem
<1>5. ASSUME NEW i \in Copies(h), op' = [op EXCEPT ![h].stage = "insert", ![h].on = i],
             UNCHANGED historyVars
      PROVE  LetterInv'
  <2> PICK l : l = op[h].letter
    OBVIOUS
  <2> DEFINE x == [op[h] EXCEPT !.stage = "insert", !.on = i]
  <2>1. /\ x.stage = "insert" /\ x.letter = l /\ x.version = 0 /\ x.wasOn = None /\ x.on = i
    BY <1>2 DEF Inv, OpInv, OpRecord
  <2>2. op' = [op EXCEPT ![h] = x]
    BY <1>5
  <2> HIDE DEF x
  <2>3. op'[h] = x /\ \A g \in Hand \ {h} : op'[g] = op[g]
    BY <2>2, CallFields
  <2>4. i # None => i \in Listed /\ mac[i].letter = l /\ mac[i].version = 0 /\ i \in Item
    BY <1>2 DEF Copies, Listed
  <2>5. i = None => \A j \in Listed : ~(mac[j].letter = l /\ mac[j].version = 0 /\ mac[j].at = op[h].at)
    BY <1>2, Items DEF Copies, Listed
  <2>6. i # None => i \in ItemsOf(l)
    BY <2>4 DEF Listed, ItemsOf
  <2>7. Begun(l, op[h]) => IF i = None THEN Blank(l) ELSE Only(l, i)
    BY <1>1, <2>4, <2>5, <2>6 DEF Begun, Only, Blank, ItemsOf
  <2>8. UNCHANGED <<rows, mac, went, floor, promised, unsure>>
    BY <1>1, <1>5 DEF historyVars
  <2>9. /\ Blank(l) => Blank(l)'
        /\ Newborn(l) => Newborn(l)'
        /\ \A j : Only(l, j) => Only(l, j)'
    <3>1. ItemsOf(l)' = ItemsOf(l) /\ RowsOf(l)' = RowsOf(l) /\ Active(l)' = Active(l)
          /\ Listed' = Listed
      BY <2>8 DEF ItemsOf, RowsOf, Id, Active, Local, Listed
    <3> QED
      BY <2>8, <3>1 DEF Blank, Newborn, Only, Unsent
  <2>10. CallInv(h)'
    BY <1>1, <2>1, <2>3, <2>4, <2>6, <2>7, <2>8, <2>9
    DEF CallInv, Begun, Scheduling, ByRow, ItemsOf
  <2> QED
    BY <1>1, <1>5, <2>3, <2>10, Looks DEF MovesItem
<1> QED
  BY <1>3, <1>4, <1>5 DEF Look

\* A screen is opened on a row, and nobody else rewrites it.
LEMMA OpenLetters ==
  ASSUME Inv, LetterInv, NEW h \in Hand, NEW i \in Id, NEW stage \in {"editor", "list"},
         Open(h, i, stage)
  PROVE  LetterInv'
<1> DEFINE x == [NoOp EXCEPT !.stage = stage, !.letter = rows[i].letter, !.row = i,
                             !.turn = rows[i].turn, !.wasAt = rows[i].at,
                             !.wasOn = rows[i].on]
<1>1. /\ x.stage = stage /\ x.letter = rows[i].letter /\ x.row = i /\ x.turn = rows[i].turn
      /\ x.wasAt = rows[i].at /\ x.wasOn = rows[i].on /\ x.on = None
  BY DEF NoOp
<1>2. op' = [op EXCEPT ![h] = x] /\ op[h].stage = "none"
  BY DEF Open
<1> HIDE DEF x
<1>3. op'[h] = x /\ \A g \in Hand \ {h} : op'[g] = op[g]
  BY <1>2, CallFields
<1>4. UNCHANGED <<rows, nextRow, mac, historyVars, ownerRest>>
  BY DEF Open
<1>5. rows[i].on # None => rows[i].on \in ItemsOf(rows[i].letter)
  BY DEF LetterInv, ShownInv, Local
<1>6. i < nextRow /\ rows[i].at \in Nat
  BY Numbers
<1>7. CallInv(h)'
  BY <1>1, <1>3, <1>4, <1>5, <1>6
  DEF CallInv, Scheduling, ByRow, RowHeld, Moved, ItemsOf, Id
<1> QED
  BY <1>2, <1>3, <1>4, <1>7, Looks DEF MovesItem

\* What a call knows of the row it was opened on, when nothing has happened since.
LEMMA RowStays ==
  ASSUME Inv, UNCHANGED <<rows, nextRow, mac>>, NEW h \in Hand, RowHeld(op[h]),
         op'[h].row = op[h].row, op'[h].letter = op[h].letter, op'[h].wasOn = op[h].wasOn,
         op'[h].wasAt = op[h].wasAt, op'[h].turn = op[h].turn,
         op'[h].stage = "patch" /\ op[h].wasOn = None /\ op[h].row \in Id =>
           rows[op[h].row].version < op'[h].version
  PROVE  RowHeld(op[h])'
  BY DEF RowHeld, ItemsOf, Id

\* An edit begins on the occurrence that was opened, with the next version.
LEMMA EditLetters ==
  ASSUME Inv, LetterInv, NEW h \in Hand, NEW at \in Slot, NEW kind \in Kind \ {"file"},
         Edit(h, at, kind)
  PROVE  LetterInv'
<1> PICK l : l = op[h].letter
  OBVIOUS
<1>1. /\ op[h].stage = "editor" /\ UNCHANGED <<rows, nextRow, mac, historyVars, ownerRest>>
      /\ CallInv(h)
  BY DEF Edit, LetterInv
<1>2. CASE Done(h)
  BY <1>1, <1>2, DoneFields, Looks DEF MovesItem
<1>3. CASE ~Done(h)
  <2> DEFINE s == IF op[h].wasOn = None THEN "patch" ELSE "replace"
             x == [op[h] EXCEPT !.stage = s, !.version = rows[op[h].row].version + 1,
                                !.at = at, !.kind = kind]
  <2>1. SameOccurrence(h) /\ op' = [op EXCEPT ![h] = x]
    BY <1>3 DEF Edit
  <2>2. /\ x.stage = s /\ x.letter = l /\ x.version = rows[op[h].row].version + 1
        /\ x.turn = op[h].turn /\ x.row = op[h].row /\ x.wasAt = op[h].wasAt
        /\ x.wasOn = op[h].wasOn /\ x.on = op[h].on
    BY DEF Inv, OpInv, OpRecord
  <2> HIDE DEF x
  <2>3. op'[h] = x /\ \A g \in Hand \ {h} : op'[g] = op[g]
    BY <2>1, CallFields
  <2>4. /\ op[h].row \in Id /\ rows[op[h].row].version \in Nat
        /\ rows[op[h].row].on = op[h].wasOn /\ RowHeld(op[h]) /\ op[h].on = None
    BY <1>1, <2>1, Numbers DEF SameOccurrence, CallInv, ByRow
  <2>5. RowHeld(op[h])'
    BY <1>1, <2>2, <2>3, <2>4, RowStays
  <2>6. op[h].wasOn # None => mac[op[h].wasOn].version < x.version
    BY <2>2, <2>4 DEF LetterInv, ShownInv, Local
  <2>7. CallInv(h)'
    BY <1>1, <2>2, <2>3, <2>4, <2>5, <2>6 DEF CallInv, Scheduling, ByRow, Moved
  <2> QED
    BY <1>1, <2>3, <2>7, Looks DEF MovesItem
<1> QED
  BY <1>2, <1>3

\* A cancellation asks the Mac for its item, or goes straight to the row.
LEMMA CancelLetters == ASSUME Inv, LetterInv, NEW h \in Hand, Cancel(h) PROVE LetterInv'
<1>1. /\ op[h].stage = "list" /\ UNCHANGED <<rows, nextRow, mac, historyVars, ownerRest>>
      /\ CallInv(h) /\ RowHeld(op[h])
  BY DEF Cancel, LetterInv, CallInv, ByRow
<1>2. CASE Done(h)
  BY <1>1, <1>2, DoneFields, Looks DEF MovesItem
<1>3. CASE Step(h, IF op[h].wasOn = None THEN "drop" ELSE "withdraw")
  <2>1. RowHeld(op[h])'
    BY <1>1, <1>3, StepFields, RowStays
  <2>2. CallInv(h)'
    BY <1>1, <1>3, <2>1, StepFields DEF CallInv, Scheduling, ByRow, Moved
  <2> QED
    BY <1>1, <1>3, <2>2, StepFields, Looks DEF MovesItem
<1> QED
  BY <1>2, <1>3 DEF Cancel

-----------------------------------------------------------------------------
(* What the owner's calls do on the Mac.                                     *)

\* No other call is about the letter.
LEMMA Alone ==
  ASSUME Apart, NEW h \in Hand, op[h].stage # "none", NEW g \in Hand \ {h}, op[g].stage # "none"
  PROVE  op[g].letter # op[h].letter
  BY DEF Apart

\* A call changes what there is of its letter, and no other letter.
LEMMA Moves ==
  ASSUME Inv, LetterInv, Apart, NEW h \in Hand, op[h].stage # "none", NEW l \in Letter,
         l = op[h].letter, \A g \in Hand \ {h} : op'[g] = op[g], UNCHANGED ownerRest,
         Steady, nextRow' \in Nat, HistoryTyped', ShownInv',
         \A r \in Run : run[r].claim # None => rows'[run[r].claim.row] = rows[run[r].claim.row],
         \A i \in Item : mac[i].state # "none" => mac'[i].state # "none",
         \A i \in Item : mac[i].state = "removed" => mac'[i].state = "removed",
         \A m \in Letter \ {l} : Calm(m),
         l \notin unsure' => SoleInv(l)', Promise(l)', CallInv(h)'
  PROVE  LetterInv'
<1>1. ClaimedInv'
  BY DEF LetterInv, ClaimedInv, ownerRest, runVars
<1>2. AbsentInv'
  BY StillAbsent DEF LetterInv, ownerRest
<1>3. \A g \in Hand : CallInv(g)' \/ (op'[g] = op[g] /\ (op[g].stage = "none" \/ Calm(op[g].letter)))
  BY Alone, Numbers
<1>4. \A g \in Hand, m \in Letter : MovesItem(op[g]) /\ op[g].letter = m =>
        m \in unsure' \/ Promise(m)' \/ (op'[g].letter = m /\ MovesItem(op'[g]))
  OBVIOUS
<1>5. \A m \in Letter : Calm(m) \/ ((m \notin unsure' => SoleInv(m)') /\ Promise(m)')
  OBVIOUS
<1> QED
  BY <1>1, <1>2, <1>3, <1>4, <1>5, Assemble

\* Other letters, when the table stays and the Mac changes an item of this one.
LEMMA MacCalm ==
  ASSUME Inv, LetterInv, NEW l, NEW i \in Item, UNCHANGED <<rows, nextRow>>,
         \A j \in Item \ {i} : mac'[j] = mac[j], mac[i].state = "none" \/ mac[i].letter = l,
         mac'[i].letter = l, UNCHANGED <<went, floor, promised, stale>>, unsure \subseteq unsure'
  PROVE  Steady /\ nextRow' \in Nat /\ HistoryTyped' /\ \A m \in Letter \ {l} : Calm(m)
<1>1. Steady /\ nextRow' \in Nat /\ Id' = Id
  BY Numbers DEF Steady, Id
<1>2. HistoryTyped'
  BY DEF LetterInv, HistoryTyped
<1>3. ASSUME NEW m \in Letter \ {l} PROVE Calm(m)
  <2>1. ItemsOf(m)' = ItemsOf(m) /\ i \notin ItemsOf(m)
    BY DEF ItemsOf
  <2>2. RowsOf(m)' = RowsOf(m)
    BY <1>1 DEF RowsOf
  <2>3. \A j \in ItemsOf(m) : mac'[j] = mac[j]
    BY <2>1 DEF ItemsOf
  <2> QED
    BY <2>1, <2>2, <2>3 DEF Calm, RowsOf
<1> QED
  BY <1>1, <1>2, <1>3

\* The Mac has one item more.
LEMMA NewItem ==
  ASSUME Inv, LetterInv, NEW o, o.letter \in Letter, MacCreates(o)
  PROVE  /\ Fresh \in Item /\ Fresh # None /\ mac[Fresh].state = "none"
         /\ mac'[Fresh].letter = o.letter /\ mac'[Fresh].version = o.version
         /\ mac'[Fresh].at = o.at /\ mac'[Fresh].state = "pending"
         /\ \A j \in Item \ {Fresh} : mac'[j] = mac[j]
         /\ ItemsOf(o.letter)' = ItemsOf(o.letter) \cup {Fresh} /\ Fresh \notin ItemsOf(o.letter)
         /\ UNCHANGED rows => ShownInv'
<1>1. Fresh \in Unused
  BY DEF MacCreates, Fresh
<1>2. Fresh \in Item /\ Fresh # None /\ mac[Fresh].state = "none"
  BY <1>1, Items DEF Unused
<1>3. /\ mac'[Fresh].letter = o.letter /\ mac'[Fresh].version = o.version
      /\ mac'[Fresh].at = o.at /\ mac'[Fresh].state = "pending"
      /\ \A j \in Item \ {Fresh} : mac'[j] = mac[j]
  BY <1>2 DEF MacCreates, Inv, MacInv
<1>4. ItemsOf(o.letter)' = ItemsOf(o.letter) \cup {Fresh} /\ Fresh \notin ItemsOf(o.letter)
  BY <1>2, <1>3 DEF ItemsOf
<1>5. ASSUME UNCHANGED rows PROVE ShownInv'
  <2>1. \A i \in Id : ~Local(i) => rows[i].on # Fresh /\ rows[i].on \in Item
    BY <1>2 DEF LetterInv, ShownInv, ItemsOf
  <2> QED
    BY <1>3, <1>5, <2>1 DEF LetterInv, ShownInv, ItemsOf, Local, Id
<1> QED
  BY <1>2, <1>3, <1>4, <1>5

\* The first item of a letter is the only one who may send it.
LEMMA FirstItem ==
  ASSUME Inv, LetterInv, NEW h \in Hand, op[h].stage = "create", MacCreates(op[h]),
         NEW l \in Letter, l = op[h].letter, NEW i, i = Fresh, UNCHANGED <<rows, nextRow, historyVars>>
  PROVE  /\ i \in Item /\ i # None
         /\ mac'[i].version = op[h].version /\ mac'[i].at = op[h].at
         /\ i \in ItemsOf(l)'
         /\ \A j \in Item \ {i} : mac'[j] = mac[j]
         /\ mac[i].state = "none"
         /\ Steady /\ nextRow' \in Nat /\ HistoryTyped' /\ ShownInv'
         /\ \A m \in Letter \ {l} : Calm(m)
         /\ l \notin unsure => Only(l, i)' /\ Newborn(l)' /\ SoleInv(l)'
         /\ Promise(l)'
<1>1. /\ i \in Item /\ i # None /\ mac[i].state = "none"
      /\ mac'[i].letter = l /\ mac'[i].version = op[h].version
      /\ mac'[i].at = op[h].at /\ mac'[i].state = "pending"
      /\ \A j \in Item \ {i} : mac'[j] = mac[j]
      /\ ItemsOf(l)' = ItemsOf(l) \cup {i} /\ ShownInv'
  BY NewItem
<1>2. UNCHANGED <<went, floor, promised, unsure, stale>>
  BY DEF historyVars
<1>3. Steady /\ nextRow' \in Nat /\ HistoryTyped' /\ \A m \in Letter \ {l} : Calm(m)
  BY <1>1, <1>2, MacCalm
<1>4. CallInv(h)
  BY DEF LetterInv
<1>5. ASSUME l \notin unsure
      PROVE  Only(l, i)' /\ Newborn(l)' /\ SoleInv(l)' /\ l \notin promised
  <2>1. Newborn(l) /\ Blank(l) /\ op[h].version = 0 /\ SoleInv(l)
    BY <1>4, <1>5 DEF CallInv, Begun, Scheduling, LetterInv
  <2>2. ItemsOf(l)' = {i} /\ mac'[i].version = 0
    BY <1>1, <2>1 DEF Blank
  <2>3. Only(l, i)'
    BY <1>1, <2>2 DEF Only, Listed
  <2>4. RowsOf(l)' = {} /\ Unsent(l)'
    BY <1>2, <2>1 DEF Blank, RowsOf, Id, Unsent
  <2>5. Active(l)' = {}
    BY <2>4 DEF Active
  <2>6. Newborn(l)'
    BY <1>2, <2>1, <2>5 DEF Newborn
  <2>7. Pending(l)' = {i}
    BY <1>1, <2>2 DEF Pending
  <2>8. Newest(l, i, 0)'
    BY <1>1, <2>2, <2>5, <2>7 DEF Newest
  <2>9. floor'[l] <= mac'[i].version /\ l \notin stale'
    BY <1>2, <2>1, <2>2 DEF Newborn, SoleInv
  <2>10. \A k \in Turn : went'[l][k] <= 1
    BY <1>2, <2>1 DEF SoleInv
  <2>11. SoleInv(l)'
    BY <2>2, <2>4, <2>5, <2>7, <2>8, <2>9, <2>10 DEF SoleInv
  <2> QED
    BY <2>1, <2>3, <2>6, <2>11 DEF Newborn
<1>6. Promise(l)'
  BY <1>2, <1>5 DEF Promise
<1> QED
  BY <1>1, <1>2, <1>3, <1>5, <1>6

\* A schedule's create, answered, refused or lost.
LEMMA CreateLetters == ASSUME Inv, LetterInv, Apart, NEW h \in Hand, Create(h) PROVE LetterInv'
<1> PICK l : l = op[h].letter
  OBVIOUS
<1>1. /\ op[h].stage = "create" /\ UNCHANGED <<rows, nextRow, historyVars, ownerRest>>
      /\ l \in Letter /\ CallInv(h)
  BY Numbers DEF Create, LetterInv
<1>2. op[h].version = 0 /\ op[h].wasOn = None /\ op[h].on = None
  BY <1>1 DEF CallInv, Scheduling
<1>3. ASSUME MacCreates(op[h]), \A g \in Hand \ {h} : op'[g] = op[g],
             CallInv(h)'
      PROVE  LetterInv'
  <2>1. /\ Fresh \in Item /\ mac[Fresh].state = "none"
        /\ \A j \in Item \ {Fresh} : mac'[j] = mac[j] /\ Fresh \in ItemsOf(l)'
        /\ Steady /\ nextRow' \in Nat /\ HistoryTyped' /\ ShownInv'
        /\ \A m \in Letter \ {l} : Calm(m)
        /\ l \notin unsure => SoleInv(l)'
        /\ Promise(l)'
    BY <1>1, <1>3, FirstItem
  <2>2. \A i \in Item : /\ mac[i].state # "none" => mac'[i].state # "none"
                        /\ mac[i].state = "removed" => mac'[i].state = "removed"
    BY <2>1
  <2>3. l \notin unsure' => SoleInv(l)'
    BY <1>1, <2>1 DEF historyVars
  <2> QED
    BY <1>1, <1>3, <2>1, <2>2, <2>3, Moves
<1>4. CASE Done(h)
  <2>1. CallInv(h)' /\ \A g \in Hand \ {h} : op'[g] = op[g]
    BY <1>4, DoneFields
  <2>2. CASE UNCHANGED mac
    BY <1>1, <1>2, <2>1, <2>2, Looks DEF MovesItem
  <2>3. CASE MacCreates(op[h])
    BY <1>3, <2>1, <2>3
  <2> QED
    BY <1>4, <2>2, <2>3 DEF Create
<1>5. ASSUME NEW s \in {"insert", "lost", "timedOut"}, Step(h, s), UNCHANGED mac
      PROVE  LetterInv'
  <2>1. ASSUME l \notin unsure' PROVE Blank(l)' /\ Newborn(l)'
    <3>1. Blank(l) /\ Newborn(l)
      BY <1>1, <2>1 DEF CallInv, Begun, Scheduling, historyVars
    <3>2. ItemsOf(l)' = ItemsOf(l) /\ RowsOf(l)' = RowsOf(l) /\ Active(l)' = Active(l)
      BY <1>1, <1>5 DEF ItemsOf, RowsOf, Id, Active, Local
    <3> QED
      BY <1>1, <3>1, <3>2 DEF Blank, Newborn, Unsent, historyVars
  <2>2. CallInv(h)'
    BY <1>2, <1>5, <2>1, StepFields DEF CallInv, Begun, Scheduling, ByRow
  <2> QED
    BY <1>1, <1>2, <1>5, <2>2, StepFields, Looks DEF MovesItem
<1>6. ASSUME NEW s \in {"lost", "timedOut"}, Step(h, s), MacCreates(op[h]) PROVE LetterInv'
  <2>1. \E i \in Item : mac'[i].at = op[h].at /\ (l \notin unsure => Only(l, i)' /\ Newborn(l)')
    BY <1>1, <1>6, FirstItem
  <2>2. /\ op'[h].stage = s /\ op'[h].letter = l /\ op'[h].version = 0 /\ op'[h].wasOn = None
        /\ op'[h].on = None /\ op'[h].at = op[h].at
        /\ \A g \in Hand \ {h} : op'[g] = op[g]
    BY <1>2, <1>6, StepFields
  <2>3. l \notin unsure' => Begun(l, op[h])'
    BY <1>1, <2>1, <2>2 DEF Begun, historyVars
  <2>4. CallInv(h)'
    BY <1>6, <2>2, <2>3 DEF CallInv, Scheduling, ByRow
  <2> QED
    BY <1>3, <1>6, <2>2, <2>4
<1>7. ASSUME MacCreates(op[h]), op' = [op EXCEPT ![h].stage = "insert", ![h].on = Fresh]
      PROVE  LetterInv'
  <2> DEFINE x == [op[h] EXCEPT !.stage = "insert", !.on = Fresh]
  <2>1. x.stage = "insert" /\ x.on = Fresh /\ x.letter = l /\ x.version = 0 /\ x.wasOn = None
    BY <1>2 DEF Inv, OpInv, OpRecord
  <2>2. op' = [op EXCEPT ![h] = x]
    BY <1>7
  <2> HIDE DEF x
  <2>3. op'[h] = x /\ \A g \in Hand \ {h} : op'[g] = op[g]
    BY <2>2, CallFields
  <2>4. PICK i \in Item : i = Fresh
    BY <1>1, <1>7, FirstItem
  <2>5. /\ l \notin unsure => Only(l, i)' /\ Newborn(l)'
        /\ i # None /\ mac'[i].version = 0 /\ i \in ItemsOf(l)'
    BY <1>1, <1>2, <1>7, <2>4, FirstItem
  <2>6. l \notin unsure' => Begun(l, op[h])'
    BY <1>1, <2>1, <2>3, <2>4, <2>5 DEF Begun, historyVars
  <2>7. CallInv(h)'
    BY <2>1, <2>3, <2>4, <2>5, <2>6 DEF CallInv, Scheduling, ByRow
  <2> QED
    BY <1>3, <1>7, <2>3, <2>7
<1> QED
  BY <1>4, <1>5, <1>6, <1>7 DEF Create

\* The row of a schedule: the one holder of its letter, or the only item's.
LEMMA InsertRowLetters ==
  ASSUME Inv, LetterInv, Apart, NEW h \in Hand, InsertRow(h) PROVE LetterInv'
<1> PICK l : l = op[h].letter
  OBVIOUS
<1> PICK n : n = nextRow
  OBVIOUS
<1> PICK v : v = op[h].on
  OBVIOUS
<1> DEFINE x == [letter |-> l, kind |-> op[h].kind, turn |-> 0, attempts |-> 0,
                 version |-> 0, at |-> op[h].at, on |-> v, status |-> "pending"]
<1>1. /\ op[h].stage = "insert" /\ Done(h) /\ UNCHANGED <<mac, went, floor, unsure, stale, ownerRest>>
      /\ promised' = IF floor[l] = 0 THEN promised \cup {l} ELSE promised
      /\ Insert(x) /\ l \in Letter
  BY Numbers DEF InsertRow
<1>2. x.letter = l /\ x.version = 0 /\ x.on = v /\ x.status = "pending" /\ x.turn = 0
  OBVIOUS
<1> HIDE DEF x
<1>3. n \notin Id /\ nextRow \in Nat /\ Id \subseteq Nat
  BY Numbers
<1>4. /\ Id' = Id \cup {n} /\ rows'[n] = x /\ \A i \in Id : rows'[i] = rows[i]
      /\ nextRow' = n + 1
  BY <1>1, <1>3 DEF Insert, Id
<1>5. Steady /\ nextRow' \in Nat
  BY <1>3, <1>4 DEF Steady
<1>6. \A m : ItemsOf(m)' = ItemsOf(m)
  BY <1>1 DEF ItemsOf
<1>7. /\ RowsOf(l)' = RowsOf(l) \cup {n}
      /\ \A m \in Letter \ {l} : RowsOf(m)' = RowsOf(m)
  BY <1>2, <1>3, <1>4 DEF RowsOf
<1>8. \A m \in Letter \ {l} : Calm(m)
  BY <1>1, <1>4, <1>6, <1>7 DEF Calm, RowsOf
<1>9. CallInv(h) /\ HistoryTyped /\ ShownInv
  BY DEF LetterInv
<1>10. HistoryTyped'
  BY <1>1, <1>9 DEF HistoryTyped
<1>11. v # None => v \in ItemsOf(l) /\ mac[v].version = 0
  BY <1>1, <1>9 DEF CallInv, Scheduling
<1>12. ShownInv'
  BY <1>1, <1>2, <1>4, <1>6, <1>9, <1>11 DEF ShownInv, Local
<1>13. ASSUME l \notin unsure PROVE SoleInv(l)' /\ Shown(l)'
  <2>1. Newborn(l) /\ SoleInv(l) /\ IF v = None THEN Blank(l) ELSE Only(l, v)
    BY <1>1, <1>9, <1>13 DEF CallInv, Begun, Scheduling, LetterInv
  <2>2. Pending(l)' = Pending(l) /\ (Unsent(l)' <=> Unsent(l))
    BY <1>1, <1>6 DEF Pending, Unsent
  <2>3. (\A k \in Turn : went'[l][k] <= 1) /\ l \notin stale' /\ floor'[l] = 0
    BY <1>1, <2>1 DEF SoleInv, Newborn
  <2>4. CASE v = None
    <3>1. ItemsOf(l)' = {} /\ Pending(l)' = {} /\ RowsOf(l)' = {n} /\ Unsent(l)'
      BY <1>6, <1>7, <2>1, <2>2, <2>4 DEF Blank, Pending
    <3>2. Active(l)' = {n}
      BY <1>2, <1>4, <2>4, <3>1 DEF Active, Local
    <3>3. SoleInv(l)'
      BY <1>2, <1>4, <2>3, <3>1, <3>2 DEF SoleInv, Older, Unsent
    <3>4. Shown(l)'
      BY <1>2, <1>4, <2>4, <3>1 DEF Shown, Local
    <3> QED
      BY <3>3, <3>4
  <2>5. CASE v # None
    <3>1. Active(l)' = {}
      BY <1>2, <1>3, <1>4, <1>7, <2>1, <2>5 DEF Newborn, Active, Local, RowsOf
    <3>2. \A i \in Pending(l) : Unsent(l) /\ Newest(l, i, mac[i].version) /\ floor[l] <= mac[i].version
      BY <2>1 DEF SoleInv
    <3>3. \A i \in Pending(l)' : Newest(l, i, mac[i].version)'
      BY <1>1, <1>6, <2>2, <3>1, <3>2 DEF Newest
    <3>4. SoleInv(l)'
      BY <1>1, <2>2, <2>3, <3>1, <3>2, <3>3 DEF SoleInv
    <3>5. mac'[v].state # "removed"
      BY <1>1, <2>1, <2>5 DEF Only, Listed
    <3>6. Shown(l)'
      BY <1>2, <1>4, <1>7, <3>5 DEF Shown
    <3> QED
      BY <3>4, <3>6
  <2> QED
    BY <2>4, <2>5
<1>14. Promise(l)'
  BY <1>1, <1>13 DEF Promise
<1>15. CallInv(h)' /\ \A g \in Hand \ {h} : op'[g] = op[g]
  BY <1>1, DoneFields
<1>16. \A r \in Run : run[r].claim # None => rows'[run[r].claim.row] = rows[run[r].claim.row]
  BY <1>4, ClaimedRow
<1> QED
  BY <1>1, <1>5, <1>8, <1>10, <1>12, <1>13, <1>14, <1>15, <1>16, Moves

\* The Mac removes the item a screen was opened on: nobody has anything left to send.
LEMMA Removed ==
  ASSUME Inv, LetterInv, NEW h \in Hand, RowHeld(op[h]), NEW i, i = op[h].wasOn, i # None,
         NEW l \in Letter, l = op[h].letter, mac[i].state = "pending", MacRemoves(i),
         UNCHANGED <<rows, nextRow, went, floor, promised, stale>>, unsure \subseteq unsure'
  PROVE  /\ i \in Item /\ Steady /\ nextRow' \in Nat /\ HistoryTyped' /\ ShownInv'
         /\ \A m \in Letter \ {l} : Calm(m)
         /\ ItemsOf(l)' = ItemsOf(l) /\ mac'[i].state = "removed"
         /\ \A j \in Item : /\ mac[j].state # "none" => mac'[j].state # "none"
                            /\ mac[j].state = "removed" => mac'[j].state = "removed"
                            /\ mac'[j].version = mac[j].version
         /\ l \notin unsure =>
              /\ Idle(l)' /\ SoleInv(l)' /\ floor'[l] <= mac[i].version
              /\ \A j \in ItemsOf(l) : mac[j].version <= mac[i].version
<1>1. i \in ItemsOf(l) /\ i \in Item
  BY DEF RowHeld, ItemsOf
<1>2. /\ mac'[i].state = "removed" /\ mac'[i].letter = l /\ mac'[i].version = mac[i].version
      /\ mac[i].letter = l
      /\ \A j \in Item \ {i} : mac'[j] = mac[j]
  <2> DEFINE x == [mac[i] EXCEPT !.state = "removed"]
  <2>1. x.state = "removed" /\ x.letter = l /\ x.version = mac[i].version /\ mac[i].letter = l
    BY <1>1 DEF Inv, MacInv, MacRecord, ItemsOf
  <2>2. mac' = [mac EXCEPT ![i] = x]
    BY DEF MacRemoves
  <2> HIDE DEF x
  <2> QED
    BY <1>1, <2>1, <2>2 DEF Inv, MacInv
<1>3. Steady /\ nextRow' \in Nat /\ HistoryTyped' /\ \A m \in Letter \ {l} : Calm(m)
  BY <1>1, <1>2, MacCalm
<1>4. \A j \in Item : /\ mac[j].state # "none" => mac'[j].state # "none"
                      /\ mac[j].state = "removed" => mac'[j].state = "removed"
                      /\ mac'[j].version = mac[j].version /\ mac'[j].letter = mac[j].letter
                      /\ mac'[j].state # "none" => mac[j].state # "none"
  BY <1>2
<1>5. \A m : ItemsOf(m)' = ItemsOf(m)
  BY <1>4 DEF ItemsOf
<1>6. ShownInv'
  BY <1>4, <1>5 DEF LetterInv, ShownInv, Local, Id, ItemsOf
<1>7. ASSUME l \notin unsure
      PROVE  /\ Idle(l)' /\ SoleInv(l)' /\ floor'[l] <= mac[i].version
             /\ \A j \in ItemsOf(l) : mac[j].version <= mac[i].version
  <2>1. SoleInv(l) /\ i \in Pending(l)
    BY <1>1, <1>7 DEF LetterInv, Pending
  <2>2. /\ Unsent(l) /\ floor[l] <= mac[i].version /\ Active(l) = {} /\ Pending(l) \subseteq {i}
        /\ \A j \in ItemsOf(l) \ {i} : mac[j].version < mac[i].version
    BY <2>1 DEF SoleInv, Newest
  <2>3. Pending(l)' = {}
    BY <1>2, <1>5, <2>2 DEF Pending, ItemsOf
  <2>4. Active(l)' = {} /\ Unsent(l)'
    BY <2>2 DEF Active, RowsOf, Local, Id, Unsent
  <2>5. (\A k \in Turn : went'[l][k] <= 1) /\ l \notin stale'
    BY <2>1 DEF SoleInv
  <2>6. mac[i].version \in Nat /\ \A j \in ItemsOf(l) : mac[j].version \in Nat
    BY <1>1, Numbers DEF ItemsOf
  <2>7. \A j \in ItemsOf(l) : mac[j].version <= mac[i].version
    BY <2>2, <2>6
  <2>8. SoleInv(l)'
    BY <2>3, <2>4, <2>5 DEF SoleInv
  <2> QED
    BY <2>2, <2>3, <2>4, <2>7, <2>8 DEF Idle
<1> QED
  BY <1>1, <1>2, <1>3, <1>4, <1>5, <1>6, <1>7

\* A removal ends the call, or lets it go on with nothing on the Mac to send.
LEMMA RemovalLetters ==
  ASSUME Inv, LetterInv, Apart, NEW h \in Hand, op[h].stage \in {"replace", "withdraw"},
         NEW s \in {"patch", "recreate", "drop"}, Remove(h, s),
         op[h].stage = "replace" <=> s # "drop",
         UNCHANGED <<rows, nextRow, ownerRest>>
  PROVE  LetterInv'
<1> PICK l : l = op[h].letter
  OBVIOUS
<1> PICK i : i = op[h].wasOn
  OBVIOUS
<1>1. /\ l \in Letter /\ CallInv(h) /\ RowHeld(op[h]) /\ i # None /\ ~MovesItem(op[h])
      /\ (s = "recreate" => op[h].on = None) /\ (s = "patch" => op[h].on = None)
  BY Numbers DEF LetterInv, CallInv, ByRow, Inv, OpInv, FitOp, MovesItem
<1>2. CASE UNCHANGED <<mac, historyVars>> /\ Done(h)
  BY <1>1, <1>2, DoneFields, Looks
<1>3. ASSUME mac[i].state = "pending", MacRemoves(i),
             UNCHANGED <<went, floor, promised, stale>>, unsure \subseteq unsure',
             \A g \in Hand \ {h} : op'[g] = op[g], CallInv(h)', Promise(l)'
      PROVE  LetterInv'
  <2>1. /\ Steady /\ nextRow' \in Nat /\ HistoryTyped' /\ ShownInv'
        /\ \A m \in Letter \ {l} : Calm(m)
        /\ \A j \in Item : /\ mac[j].state # "none" => mac'[j].state # "none"
                           /\ mac[j].state = "removed" => mac'[j].state = "removed"
        /\ l \notin unsure => SoleInv(l)'
    BY <1>1, <1>3, Removed
  <2>2. l \notin unsure' => SoleInv(l)'
    BY <1>3, <2>1
  <2> QED
    BY <1>1, <1>3, <2>1, <2>2, Moves
<1>4. CASE mac[i].state = "pending" /\ MacRemoves(i) /\ Done(h) /\ Unsure(l)
  <2>1. UNCHANGED <<went, floor, promised, stale>> /\ unsure \subseteq unsure' /\ l \in unsure'
    BY <1>4 DEF Unsure
  <2>2. Promise(l)'
    BY <2>1 DEF Promise
  <2> QED
    BY <1>3, <1>4, <2>1, <2>2, DoneFields
<1>5. CASE mac[i].state = "pending" /\ MacRemoves(i) /\ Step(h, s) /\ UNCHANGED historyVars
  <2>1. UNCHANGED <<went, floor, promised, stale>> /\ unsure' = unsure
    BY <1>5 DEF historyVars
  <2>2. /\ ItemsOf(l)' = ItemsOf(l) /\ mac'[i].state = "removed" /\ i \in Item
        /\ \A j \in Item : mac'[j].version = mac[j].version
        /\ l \notin unsure =>
              /\ Idle(l)' /\ floor'[l] <= mac[i].version
              /\ \A j \in ItemsOf(l) : mac[j].version <= mac[i].version
    BY <1>1, <1>5, <2>1, Removed
  <2>3. /\ op'[h].stage = s /\ op'[h].letter = l /\ op'[h].version = op[h].version
        /\ op'[h].turn = op[h].turn /\ op'[h].at = op[h].at /\ op'[h].row = op[h].row
        /\ op'[h].wasAt = op[h].wasAt /\ op'[h].wasOn = i /\ op'[h].on = op[h].on
        /\ \A g \in Hand \ {h} : op'[g] = op[g]
    BY <1>5, StepFields
  <2>4. RowHeld(op[h])'
    BY <1>1, <2>2, <2>3 DEF RowHeld, Id
  <2>5. ASSUME l \notin unsure, s # "drop"
        PROVE  floor'[l] <= op[h].version /\ Idle(l)' /\ Older(l, op[h].version)'
    <3>1. mac[i].version < op[h].version
      BY <1>1, <2>5 DEF CallInv, Moved, ByRow
    <3>2. /\ mac[i].version \in Nat /\ op[h].version \in Nat /\ floor'[l] \in Nat
          /\ \A j \in ItemsOf(l) : mac[j].version \in Nat /\ j \in Item
      BY <2>1, <2>2, Numbers DEF LetterInv, HistoryTyped, ItemsOf
    <3>3. floor'[l] <= op[h].version /\ \A j \in ItemsOf(l) : mac[j].version < op[h].version
      BY <2>2, <2>5, <3>1, <3>2
    <3>4. Older(l, op[h].version)'
      BY <2>2, <2>3, <3>2, <3>3 DEF Older
    <3> QED
      BY <2>2, <2>5, <3>3, <3>4
  <2>6. l \notin unsure => Moved(l, op[h])'
    BY <1>1, <2>2, <2>3, <2>5 DEF Moved
  <2>7. CallInv(h)'
    BY <1>1, <2>1, <2>3, <2>4, <2>6 DEF CallInv, Scheduling, ByRow
  <2>8. Moving(l)'
    BY <1>1, <2>3 DEF Moving
  <2> QED
    BY <1>3, <1>5, <2>1, <2>3, <2>7, <2>8 DEF Promise
<1> QED
  BY <1>2, <1>4, <1>5 DEF Remove

\* An edit and a cancellation ask the Mac to remove the item first.
LEMMA ReplaceLetters == ASSUME Inv, LetterInv, Apart, NEW h \in Hand, Replace(h) PROVE LetterInv'
<1> DEFINE s == IF op[h].kind = "repeat" THEN "patch" ELSE "recreate"
<1>1. s \in {"patch", "recreate", "drop"} /\ s # "drop"
  OBVIOUS
<1>2. op[h].stage = "replace" /\ Remove(h, s) /\ UNCHANGED <<rows, nextRow, ownerRest>>
  BY DEF Replace
<1> HIDE DEF s
<1> QED
  BY <1>1, <1>2, RemovalLetters

\* A cancellation goes on when the item is gone.
LEMMA WithdrawLetters == ASSUME Inv, LetterInv, Apart, NEW h \in Hand, Withdraw(h) PROVE LetterInv'
<1>1. op[h].stage = "withdraw" /\ UNCHANGED <<rows, nextRow, ownerRest>>
  BY DEF Withdraw
<1>2. CASE Remove(h, "drop")
  BY <1>1, <1>2, RemovalLetters
<1>3. CASE mac[op[h].wasOn].state # "pending" /\ Step(h, "drop") /\ UNCHANGED <<mac, historyVars>>
  <2>1. CallInv(h) /\ RowHeld(op[h])
    BY <1>1 DEF LetterInv, CallInv, ByRow
  <2>2. RowHeld(op[h])'
    BY <1>1, <1>3, <2>1, StepFields, RowStays
  <2>3. CallInv(h)'
    BY <1>1, <1>3, <2>1, <2>2, StepFields DEF CallInv, Scheduling, ByRow, Moved
  <2> QED
    BY <1>1, <1>3, <2>3, StepFields, Looks DEF MovesItem
<1> QED
  BY <1>2, <1>3 DEF Withdraw

\* An item takes the place of one that was removed: it is the newest of its letter, and
\* the only one pending.
LEMMA Recreated ==
  ASSUME Inv, LetterInv, NEW h \in Hand, op[h].stage = "recreate", MacCreates(op[h]),
         NEW l \in Letter, l = op[h].letter, NEW i, i = Fresh, NEW v, v = op[h].version,
         UNCHANGED <<rows, nextRow, went, floor, promised, stale>>, unsure \subseteq unsure'
  PROVE  /\ i \in Item /\ i # None /\ mac[i].state = "none" /\ mac'[i].version = v
         /\ i \in ItemsOf(l)' /\ ItemsOf(l) \subseteq ItemsOf(l)'
         /\ \A j \in Item \ {i} : mac'[j] = mac[j]
         /\ Steady /\ nextRow' \in Nat /\ HistoryTyped' /\ ShownInv'
         /\ \A m \in Letter \ {l} : Calm(m)
         /\ l \notin unsure => Newest(l, i, v)' /\ SoleInv(l)' /\ floor'[l] <= v
<1>1. /\ i \in Item /\ i # None /\ mac[i].state = "none"
      /\ mac'[i].letter = l /\ mac'[i].version = v /\ mac'[i].state = "pending"
      /\ \A j \in Item \ {i} : mac'[j] = mac[j]
      /\ ItemsOf(l)' = ItemsOf(l) \cup {i} /\ i \notin ItemsOf(l) /\ ShownInv'
  BY NewItem
<1>2. Steady /\ nextRow' \in Nat /\ HistoryTyped' /\ \A m \in Letter \ {l} : Calm(m)
  BY <1>1, MacCalm
<1>3. ASSUME l \notin unsure PROVE Newest(l, i, v)' /\ SoleInv(l)' /\ floor'[l] <= v
  <2>1. Moved(l, op[h]) /\ SoleInv(l)
    BY <1>3 DEF LetterInv, CallInv, ByRow
  <2>2. floor[l] <= v /\ Idle(l) /\ Older(l, v)
    BY <2>1 DEF Moved
  <2>3. Active(l)' = {} /\ Unsent(l)'
    BY <2>2 DEF Idle, Active, RowsOf, Local, Id, Unsent
  <2>4. \A j \in ItemsOf(l) : mac'[j] = mac[j]
    BY <1>1 DEF ItemsOf
  <2>5. Pending(l)' = {i}
    BY <1>1, <2>2, <2>4 DEF Pending, Idle
  <2>6. Newest(l, i, v)'
    BY <1>1, <2>2, <2>3, <2>4, <2>5 DEF Newest, Older
  <2>7. (\A k \in Turn : went'[l][k] <= 1) /\ l \notin stale' /\ floor'[l] <= v
    BY <2>1, <2>2 DEF SoleInv
  <2>8. SoleInv(l)'
    BY <1>1, <2>3, <2>5, <2>6, <2>7 DEF SoleInv
  <2> QED
    BY <2>6, <2>7, <2>8
<1> QED
  BY <1>1, <1>2, <1>3

\* The edit's new item, or the letter taken over by the phone.
LEMMA RecreateLetters ==
  ASSUME Inv, LetterInv, Apart, NEW h \in Hand, Recreate(h) PROVE LetterInv'
<1> PICK l : l = op[h].letter
  OBVIOUS
<1> PICK v : v = op[h].version
  OBVIOUS
<1>1. /\ op[h].stage = "recreate" /\ UNCHANGED <<rows, nextRow, ownerRest>>
      /\ l \in Letter /\ CallInv(h) /\ RowHeld(op[h]) /\ op[h].wasOn # None /\ op[h].on = None
  BY Numbers DEF Recreate, LetterInv, CallInv, ByRow, Inv, OpInv, FitOp
<1>2. ASSUME NEW i, MacCreates(op[h]), op' = [op EXCEPT ![h].stage = "patch", ![h].on = i],
             i = Fresh, UNCHANGED historyVars
      PROVE  LetterInv'
  <2> DEFINE x == [op[h] EXCEPT !.stage = "patch", !.on = i]
  <2>1. /\ x.stage = "patch" /\ x.on = i /\ x.letter = l /\ x.version = v
        /\ x.turn = op[h].turn /\ x.row = op[h].row /\ x.wasAt = op[h].wasAt
        /\ x.wasOn = op[h].wasOn
    BY DEF Inv, OpInv, OpRecord
  <2>2. op' = [op EXCEPT ![h] = x]
    BY <1>2
  <2> HIDE DEF x
  <2>3. op'[h] = x /\ \A g \in Hand \ {h} : op'[g] = op[g]
    BY <2>2, CallFields
  <2>4. UNCHANGED <<went, floor, promised, stale>> /\ unsure' = unsure
    BY <1>2 DEF historyVars
  <2>5. /\ i \in Item /\ i # None /\ mac[i].state = "none" /\ mac'[i].version = v
        /\ i \in ItemsOf(l)' /\ ItemsOf(l) \subseteq ItemsOf(l)'
        /\ \A j \in Item \ {i} : mac'[j] = mac[j]
        /\ Steady /\ nextRow' \in Nat /\ HistoryTyped' /\ ShownInv'
        /\ \A m \in Letter \ {l} : Calm(m)
        /\ l \notin unsure => Newest(l, i, v)' /\ SoleInv(l)' /\ floor'[l] <= v
    BY <1>1, <1>2, <2>4, Recreated
  <2>6. RowHeld(op[h])'
    BY <1>1, <2>1, <2>3, <2>5 DEF RowHeld, Id
  <2>7. l \notin unsure => Moved(l, op[h])'
    BY <1>1, <2>1, <2>3, <2>5 DEF Moved
  <2>8. CallInv(h)'
    BY <2>1, <2>3, <2>4, <2>5, <2>6, <2>7 DEF CallInv, Scheduling, ByRow
  <2>9. Promise(l)'
    BY <1>1, <2>1, <2>3 DEF Promise, Moving
  <2>10. \A j \in Item : /\ mac[j].state # "none" => mac'[j].state # "none"
                         /\ mac[j].state = "removed" => mac'[j].state = "removed"
    BY <2>5
  <2> QED
    BY <1>1, <2>3, <2>4, <2>5, <2>8, <2>9, <2>10, Moves
<1>3. ASSUME op' = [op EXCEPT ![h].stage = "patch", ![h].resolves = FALSE],
             \/ UNCHANGED <<mac, historyVars>>
             \/ MacCreates(op[h]) /\ Unsure(l)
      PROVE  LetterInv'
  <2> DEFINE x == [op[h] EXCEPT !.stage = "patch", !.resolves = FALSE]
  <2>1. /\ x.stage = "patch" /\ x.on = None /\ x.letter = l /\ x.version = v
        /\ x.turn = op[h].turn /\ x.row = op[h].row /\ x.wasAt = op[h].wasAt
        /\ x.wasOn = op[h].wasOn
    BY <1>1 DEF Inv, OpInv, OpRecord
  <2>2. op' = [op EXCEPT ![h] = x]
    BY <1>3
  <2> HIDE DEF x
  <2>3. op'[h] = x /\ \A g \in Hand \ {h} : op'[g] = op[g]
    BY <2>2, CallFields
  <2>4. Promise(l)'
    BY <1>1, <2>1, <2>3 DEF Promise, Moving
  <2>5. CASE UNCHANGED <<mac, historyVars>>
    <3>1. UNCHANGED <<went, floor, promised, stale>> /\ unsure' = unsure
      BY <2>5 DEF historyVars
    <3>2. Steady /\ nextRow' \in Nat /\ \A m : Calm(m)
      BY <1>1, <2>5, <3>1, StillCalm
    <3>3. l \notin unsure' => SoleInv(l)'
      BY <1>1, <3>1, <3>2, CalmSole DEF LetterInv
    <3>4. HistoryTyped' /\ ShownInv'
      BY <1>1, <2>5, <3>1, StillShown DEF LetterInv, HistoryTyped
    <3>5. RowHeld(op[h])'
      BY <1>1, <2>1, <2>3, <2>5, RowStays
    <3>6. ASSUME l \notin unsure' PROVE Moved(l, op[h])'
      <4>1. Idle(l) /\ Older(l, v) /\ floor[l] <= v
        BY <1>1, <3>1, <3>6 DEF CallInv, Moved, ByRow
      <4>2. ItemsOf(l)' = ItemsOf(l) /\ Idle(l)'
        BY <3>2, <4>1, CalmActive DEF Idle, Calm
      <4>3. Older(l, v)'
        BY <2>5, <4>1, <4>2 DEF Older
      <4> QED
        BY <2>1, <2>3, <3>1, <4>1, <4>2, <4>3 DEF Moved
    <3>7. CallInv(h)'
      BY <2>1, <2>3, <3>5, <3>6 DEF CallInv, Scheduling, ByRow
    <3> QED
      BY <1>1, <2>3, <2>4, <2>5, <3>2, <3>3, <3>4, <3>7, Moves
  <2>6. CASE MacCreates(op[h]) /\ Unsure(l)
    <3>1. /\ UNCHANGED <<went, floor, promised, stale>>
          /\ unsure \subseteq unsure' /\ l \in unsure'
      BY <2>6 DEF Unsure
    <3>2. \E i : /\ i \in Item /\ mac[i].state = "none"
                 /\ ItemsOf(l) \subseteq ItemsOf(l)'
                 /\ \A j \in Item \ {i} : mac'[j] = mac[j]
                 /\ Steady /\ nextRow' \in Nat /\ HistoryTyped' /\ ShownInv'
                 /\ \A m \in Letter \ {l} : Calm(m)
      BY <1>1, <2>6, <3>1, Recreated
    <3>3. RowHeld(op[h])'
      BY <1>1, <2>1, <2>3, <3>2 DEF RowHeld, Id
    <3>4. CallInv(h)'
      BY <2>1, <2>3, <3>1, <3>3 DEF CallInv, Scheduling, ByRow
    <3>5. \A j \in Item : /\ mac[j].state # "none" => mac'[j].state # "none"
                          /\ mac[j].state = "removed" => mac'[j].state = "removed"
      BY <3>2
    <3> QED
      BY <1>1, <2>3, <2>4, <3>1, <3>2, <3>4, <3>5, Moves
  <2> QED
    BY <1>3, <2>5, <2>6
<1> QED
  BY <1>2, <1>3 DEF Recreate

-----------------------------------------------------------------------------
(* What the owner's calls do to the table.                                   *)

\* Other letters, when one row of this one is written or goes.
LEMMA RowCalm ==
  ASSUME Inv, LetterInv, NEW l, NEW r \in Id, rows[r].letter = l, rows[r].status # "sending",
         UNCHANGED <<nextRow, mac, went, stale, unsure>>, Id' = Id \/ Id' = Id \ {r},
         \A i \in Id \ {r} : rows'[i] = rows[i], r \in Id' => rows'[r].letter = l,
         \A m \in Letter \ {l} : floor'[m] = floor[m] /\ (m \in promised' => m \in promised)
  PROVE  /\ Steady /\ nextRow' \in Nat /\ \A m \in Letter \ {l} : Calm(m)
         /\ \A q \in Run : run[q].claim # None => rows'[run[q].claim.row] = rows[run[q].claim.row]
<1>1. Steady /\ nextRow' \in Nat
  BY Numbers DEF Steady
<1>2. ASSUME NEW m \in Letter \ {l} PROVE Calm(m)
  <2>1. ItemsOf(m)' = ItemsOf(m) /\ RowsOf(m)' = RowsOf(m)
    BY DEF ItemsOf, RowsOf
  <2>2. \A i \in RowsOf(m) : rows'[i] = rows[i]
    BY DEF RowsOf
  <2> QED
    BY <2>1, <2>2 DEF Calm, RowsOf
<1>3. \A q \in Run : run[q].claim # None => rows'[run[q].claim.row] = rows[run[q].claim.row]
  BY ClaimedRow
<1> QED
  BY <1>1, <1>2, <1>3

\* The row an edit rewrites is the one holder of its letter, or shows the one item.
LEMMA Rewritten ==
  ASSUME Inv, LetterInv, NEW h \in Hand, op[h].stage = "patch", NEW l \in Letter \ unsure,
         l = op[h].letter, NEW r \in Id, r = op[h].row, NEW v \in Nat, v = op[h].version,
         NEW i, i = op[h].on, rows[r].status = "pending", rows[r].at = op[h].wasAt,
         rows[r].on = op[h].wasOn, Id' = Id, \A j \in Id \ {r} : rows'[j] = rows[j],
         rows'[r].letter = l, rows'[r].status = "pending", rows'[r].turn = op[h].turn,
         rows'[r].version = v, rows'[r].on = i, UNCHANGED <<mac, went, stale>>,
         floor'[l] = floor[l] \/ floor'[l] = v
  PROVE  SoleInv(l)' /\ Shown(l)'
<1>1. RowHeld(op[h]) /\ Moved(l, op[h]) /\ SoleInv(l) /\ rows[r].letter = l
  BY DEF LetterInv, CallInv, ByRow, RowHeld
<1>2. ItemsOf(l)' = ItemsOf(l) /\ Pending(l)' = Pending(l) /\ (Unsent(l)' <=> Unsent(l))
  BY DEF ItemsOf, Pending, Unsent
<1>3. (\A k \in Turn : went'[l][k] <= 1) /\ l \notin stale' /\ r \in RowsOf(l)'
  BY <1>1 DEF SoleInv, RowsOf
<1>4. \A w \in Nat : Older(l, w) => Older(l, w)'
  BY <1>2 DEF Older
<1>5. CASE i = None
  <2>1. /\ Active(l) \subseteq {r} /\ Pending(l) = {} /\ floor[l] <= v
        /\ Older(l, v) /\ \A k \in Turn : k >= op[h].turn => went[l][k] = 0
    <3>1. CASE op[h].wasOn # None
      BY <1>1, <1>5, <3>1 DEF Moved, Idle, Unsent
    <3>2. CASE op[h].wasOn = None
      <4>1. r \in Active(l) /\ rows[r].turn = op[h].turn /\ rows[r].version < v
        BY <1>1, <3>2 DEF Active, RowsOf, Local, RowHeld
      <4>2. /\ Active(l) = {r} /\ Pending(l) = {} /\ Older(l, rows[r].version)
            /\ floor[l] <= rows[r].version /\ \A k \in Turn : k >= op[h].turn => went[l][k] = 0
        BY <1>1, <4>1 DEF SoleInv
      <4>3. /\ rows[r].version \in Nat /\ floor[l] \in Nat
            /\ \A j \in ItemsOf(l) : mac[j].version \in Nat
        BY Numbers DEF LetterInv, HistoryTyped, ItemsOf
      <4> QED
        BY <4>1, <4>2, <4>3 DEF Older
    <3> QED
      BY <3>1, <3>2
  <2>2. Active(l)' = {r}
    BY <1>3, <1>5, <2>1 DEF Active, RowsOf, Local
  <2>3. floor'[l] <= v
    BY <2>1
  <2>4. SoleInv(l)'
    BY <1>2, <1>3, <1>4, <2>1, <2>2, <2>3 DEF SoleInv, Older
  <2> QED
    BY <1>3, <1>5, <2>4 DEF Shown, Local
<1>6. CASE i # None
  <2>1. Newest(l, i, v) /\ floor[l] <= v
    BY <1>1, <1>6 DEF Moved, Inv, OpInv, FitOp
  <2>2. Active(l)' = {}
    BY <1>3, <1>6, <2>1 DEF Active, RowsOf, Local, Newest
  <2>3. \A j \in Pending(l) : j = i /\ Unsent(l)
    BY <1>1, <2>1 DEF SoleInv, Newest
  <2>4. Newest(l, i, v)'
    BY <1>2, <2>1, <2>2 DEF Newest
  <2>5. floor'[l] <= v /\ mac'[i].version = v
    BY <2>1 DEF Newest
  <2>6. \A j \in Pending(l)' :
          Unsent(l)' /\ Newest(l, j, v)' /\ mac'[j].version = v /\ floor'[l] <= v
    BY <1>2, <2>3, <2>4, <2>5
  <2>7. SoleInv(l)'
    BY <1>3, <2>2, <2>6 DEF SoleInv, Newest
  <2> QED
    BY <1>3, <2>1, <2>7 DEF Shown, Newest
<1> QED
  BY <1>5, <1>6

\* The edit's commit: the occurrence that was opened, or nothing.
LEMMA PatchLetters == ASSUME Inv, LetterInv, Apart, NEW h \in Hand, Patch(h) PROVE LetterInv'
<1> PICK l : l = op[h].letter
  OBVIOUS
<1> PICK r : r = op[h].row
  OBVIOUS
<1> PICK v : v = op[h].version
  OBVIOUS
<1> PICK i : i = op[h].on
  OBVIOUS
<1>1. /\ op[h].stage = "patch" /\ Done(h) /\ UNCHANGED <<nextRow, mac, ownerRest>>
      /\ l \in Letter /\ v \in Nat /\ CallInv(h) /\ RowHeld(op[h])
  BY Numbers DEF Patch, LetterInv, CallInv, ByRow
<1>2. CallInv(h)' /\ \A g \in Hand \ {h} : op'[g] = op[g]
  BY <1>1, DoneFields
<1>3. CASE ~SameOccurrence(h)
  <2>1. UNCHANGED rows /\ (UNCHANGED historyVars \/ Unsure(l))
        /\ (op[h].wasOn # None => Unsure(l))
    BY <1>3 DEF Patch
  <2> QED
    BY <1>1, <1>2, <2>1, Looks DEF MovesItem, Unsure
<1>4. CASE SameOccurrence(h)
  <2>1. /\ r \in Id /\ rows[r].status = "pending" /\ rows[r].at = op[h].wasAt
        /\ rows[r].on = op[h].wasOn /\ rows[r] \in RowRecord /\ rows[r].letter = l
    BY <1>1, <1>4 DEF SameOccurrence, RowHeld, Inv, TableInv, FitRow
  <2> DEFINE x == [rows[r] EXCEPT !.turn = op[h].turn, !.version = v, !.at = op[h].at,
                                  !.on = i, !.kind = op[h].kind]
  <2>2. /\ x.letter = l /\ x.status = "pending" /\ x.turn = op[h].turn /\ x.version = v
        /\ x.on = i
    BY <2>1 DEF RowRecord
  <2>3. /\ rows' = [rows EXCEPT ![r] = x] /\ UNCHANGED <<went, unsure, stale>>
        /\ \/ floor' = [floor EXCEPT ![l] = v] /\ promised' = promised \cup {l}
           \/ UNCHANGED <<floor, promised>>
    BY <1>4 DEF Patch
  <2> HIDE DEF x
  <2>4. Id' = Id /\ rows'[r] = x /\ \A j \in Id \ {r} : rows'[j] = rows[j]
    BY <2>1, <2>3 DEF Id
  <2>5. HistoryTyped /\ ShownInv
    BY DEF LetterInv
  <2>6. /\ floor'[l] = floor[l] \/ floor'[l] = v
        /\ \A m \in Letter \ {l} : floor'[m] = floor[m] /\ (m \in promised' => m \in promised)
        /\ HistoryTyped'
    BY <1>1, <2>3, <2>5 DEF HistoryTyped
  <2>7. /\ Steady /\ nextRow' \in Nat /\ \A m \in Letter \ {l} : Calm(m)
        /\ \A q \in Run : run[q].claim # None => rows'[run[q].claim.row] = rows[run[q].claim.row]
    BY <1>1, <2>1, <2>2, <2>3, <2>4, <2>6, RowCalm
  <2>8. i # None => i \in ItemsOf(l) /\ mac[i].version = v
    BY <1>1 DEF CallInv
  <2>9. ShownInv'
    <3>1. \A m : ItemsOf(m)' = ItemsOf(m)
      BY <1>1 DEF ItemsOf
    <3> QED
      BY <1>1, <2>2, <2>4, <2>5, <2>8, <3>1 DEF ShownInv, Local
  <2>10. l \notin unsure => SoleInv(l)' /\ Shown(l)'
    BY <1>1, <2>1, <2>2, <2>3, <2>4, <2>6, Rewritten
  <2>11. Promise(l)' /\ (l \notin unsure' => SoleInv(l)')
    BY <2>3, <2>10 DEF Promise
  <2> QED
    BY <1>1, <1>2, <2>6, <2>7, <2>9, <2>11, Moves
<1> QED
  BY <1>3, <1>4

\* The cancellation's: whoever is left holds a later version.
LEMMA DropLetters == ASSUME Inv, LetterInv, Apart, NEW h \in Hand, Drop(h) PROVE LetterInv'
<1> PICK l : l = op[h].letter
  OBVIOUS
<1> PICK r : r = op[h].row
  OBVIOUS
<1>1. /\ op[h].stage = "drop" /\ Done(h) /\ UNCHANGED <<nextRow, mac, ownerRest>>
      /\ l \in Letter /\ CallInv(h) /\ RowHeld(op[h])
  BY Numbers DEF Drop, LetterInv, CallInv, ByRow
<1>2. CallInv(h)' /\ \A g \in Hand \ {h} : op'[g] = op[g]
  BY <1>1, DoneFields
<1>3. CASE ~SameOccurrence(h)
  <2>1. UNCHANGED rows /\ (UNCHANGED historyVars \/ Unsure(l))
        /\ (op[h].wasOn # None => Unsure(l))
    BY <1>3 DEF Drop
  <2> QED
    BY <1>1, <1>2, <2>1, Looks DEF MovesItem, Unsure
<1>4. CASE SameOccurrence(h)
  <2>1. /\ r \in Id /\ rows[r].status = "pending" /\ rows[r].on = op[h].wasOn
        /\ rows[r].letter = l /\ rows[r].version \in Nat
    BY <1>1, <1>4, Numbers DEF SameOccurrence, RowHeld
  <2> PICK v \in Nat : v = rows[r].version + 1
    BY <2>1
  <2>2. /\ floor' = [floor EXCEPT ![l] = v] /\ promised' = promised \ {l}
        /\ Delete({r}) /\ UNCHANGED <<went, unsure, stale>>
    BY <1>4 DEF Drop
  <2>3. Id' = Id \ {r} /\ \A j \in Id \ {r} : rows'[j] = rows[j]
    BY <2>2 DEF Delete, Id
  <2>4. HistoryTyped /\ ShownInv
    BY DEF LetterInv
  <2>5. /\ floor'[l] = v
        /\ \A m \in Letter \ {l} : floor'[m] = floor[m] /\ (m \in promised' => m \in promised)
        /\ HistoryTyped'
    BY <1>1, <2>2, <2>4 DEF HistoryTyped
  <2>6. /\ Steady /\ nextRow' \in Nat /\ \A m \in Letter \ {l} : Calm(m)
        /\ \A q \in Run : run[q].claim # None => rows'[run[q].claim.row] = rows[run[q].claim.row]
    BY <1>1, <2>1, <2>2, <2>3, <2>5, RowCalm
  <2>7. \A m : ItemsOf(m)' = ItemsOf(m)
    BY <1>1 DEF ItemsOf
  <2>8. ShownInv'
    BY <1>1, <2>3, <2>4, <2>7 DEF ShownInv, Local
  <2>9. ASSUME l \notin unsure PROVE SoleInv(l)'
    <3>1. SoleInv(l) /\ Moved(l, op[h])
      BY <1>1, <2>9 DEF LetterInv, CallInv, ByRow
    <3>2. Pending(l)' = Pending(l) /\ (Unsent(l)' <=> Unsent(l))
      BY <1>1, <2>2, <2>7 DEF Pending, Unsent
    <3>3. (\A k \in Turn : went'[l][k] <= 1) /\ l \notin stale'
      BY <2>2, <3>1 DEF SoleInv
    <3>4. CASE op[h].wasOn = None
      <4>1. r \in Active(l)
        BY <2>1, <3>4 DEF Active, RowsOf, Local
      <4>2. Active(l) = {r} /\ Pending(l) = {}
        BY <3>1, <4>1 DEF SoleInv
      <4>3. Active(l)' = {}
        BY <2>3, <4>2 DEF Active, RowsOf, Local
      <4> QED
        BY <3>2, <3>3, <4>2, <4>3 DEF SoleInv
    <3>5. CASE op[h].wasOn # None
      <4> PICK w : w = op[h].wasOn
        OBVIOUS
      <4>1. /\ w \in ItemsOf(l) /\ w \in Item /\ mac[w].version = rows[r].version
            /\ mac[w].state # "pending"
        BY <1>1, <2>1, <2>4, <3>1, <3>5 DEF ShownInv, Local, Moved, ItemsOf, RowHeld
      <4>2. Active(l)' = Active(l) /\ \A i \in Active(l) : rows'[i] = rows[i]
        BY <2>1, <2>3, <3>5 DEF Active, RowsOf, Local
      <4>3. \A i \in Active(l) :
              /\ Pending(l) = {} /\ Older(l, rows[i].version) /\ rows[i].version \in Nat
              /\ mac[w].version < rows[i].version
              /\ \A k \in Turn : k >= rows[i].turn => went[l][k] = 0
        BY <3>1, <4>1, Numbers DEF SoleInv, Older, Active, RowsOf
      <4>4. \A i \in Pending(l) :
              /\ Unsent(l) /\ Newest(l, i, mac[i].version) /\ mac[i].version \in Nat
              /\ mac[w].version < mac[i].version
        <5> TAKE i \in Pending(l)
        <5>1. Unsent(l) /\ Newest(l, i, mac[i].version) /\ i # w
          BY <3>1, <4>1 DEF SoleInv, Pending
        <5> QED
          BY <4>1, <5>1, Numbers DEF Newest, ItemsOf
      <4>5. \A i \in Active(l) : floor'[l] <= rows[i].version /\ Older(l, rows[i].version)'
        BY <1>1, <2>1, <2>5, <2>7, <4>1, <4>2, <4>3 DEF Older
      <4>6. \A i \in Pending(l) : floor'[l] <= mac[i].version /\ Newest(l, i, mac[i].version)'
        BY <1>1, <2>1, <2>5, <2>7, <3>2, <4>1, <4>2, <4>4 DEF Newest
      <4> QED
        BY <1>1, <2>2, <3>1, <3>2, <3>3, <4>2, <4>3, <4>4, <4>5, <4>6 DEF SoleInv
    <3> QED
      BY <3>4, <3>5
  <2>10. Promise(l)' /\ (l \notin unsure' => SoleInv(l)')
    BY <2>2, <2>9 DEF Promise
  <2> QED
    BY <1>1, <1>2, <2>5, <2>6, <2>8, <2>10, Moves
<1> QED
  BY <1>3, <1>4

\* A row that is cleared from the history was nobody's to send.
LEMMA ClearLetters == ASSUME Inv, LetterInv, NEW i \in Id, Clear(i) PROVE LetterInv'
<1>1. /\ rows[i].status \in {"sent", "error"} /\ Delete({i})
      /\ promised' = promised \ {rows[i].letter}
      /\ UNCHANGED <<nextRow, mac, op, went, floor, unsure, stale, ownerRest>>
  BY DEF Clear
<1>2. Id' = Id \ {i} /\ \A j \in Id \ {i} : rows'[j] = rows[j]
  BY <1>1 DEF Delete, Id
<1>3. Steady /\ nextRow' \in Nat
  BY <1>1, <1>2, Numbers DEF Steady
<1>4. \A m : ItemsOf(m)' = ItemsOf(m) /\ RowsOf(m)' = RowsOf(m) \ {i}
  BY <1>1, <1>2 DEF ItemsOf, RowsOf
<1>5. \A m : Calm(m)
  BY <1>1, <1>2, <1>4 DEF Calm, RowsOf
<1>6. HistoryTyped' /\ ShownInv'
  BY <1>1, <1>2, <1>4 DEF LetterInv, HistoryTyped, ShownInv, Local
<1>7. \A q \in Run : run[q].claim # None => run[q].claim.row \in Id \ {i}
  BY <1>1, ClaimedRow
<1>8. ClaimedInv'
  BY <1>1, <1>2, <1>7 DEF LetterInv, ClaimedInv, ownerRest, runVars
<1>9. AbsentInv'
  BY <1>1, StillAbsent DEF LetterInv, ownerRest
<1>10. \A g \in Hand : op'[g] = op[g]
  BY <1>1
<1> QED
  BY <1>3, <1>5, <1>6, <1>8, <1>9, <1>10, Assemble

-----------------------------------------------------------------------------
(* The Mac fires an item, and time goes by.                                  *)

\* What a call knows of the letter survives the item's firing.
LEMMA FiresUnderCall ==
  ASSUME Inv, LetterInv, NEW i \in Item, mac[i].state = "pending", NEW l \in Letter,
         mac[i].letter = l, UNCHANGED <<rows, nextRow, op, floor, promised, unsure>>,
         \A j \in Item \ {i} : mac'[j] = mac[j], mac'[i].letter = l,
         mac'[i].version = mac[i].version, mac'[i].at = mac[i].at,
         mac'[i].state \in {"sent", "failed"}, NEW g \in Hand, op[g].letter = l
  PROVE  CallInv(g)'
<1> DEFINE o == op[g]
<1>1. CallInv(g) /\ op'[g] = o /\ i \in ItemsOf(l) /\ i \in Pending(l)
  BY DEF LetterInv, ItemsOf, Pending
<1>2. /\ ItemsOf(l)' = ItemsOf(l) /\ RowsOf(l)' = RowsOf(l) /\ Active(l)' = Active(l)
      /\ Listed' = Listed /\ Pending(l)' \subseteq Pending(l) /\ Id' = Id
  BY DEF ItemsOf, RowsOf, Active, Local, Listed, Pending, Id
<1>3. \A j \in Item : /\ mac'[j].version = mac[j].version /\ mac'[j].at = mac[j].at
                      /\ mac'[j].state = "pending" => mac[j].state = "pending"
                      /\ mac'[j].state = "removed" => mac[j].state = "removed"
  OBVIOUS
<1>4. \A j \in ItemsOf(l) : j \in Item
  BY DEF ItemsOf
<1>5. ASSUME o.stage \in ByRow PROVE RowHeld(o)'
  <2>1. RowHeld(o)
    BY <1>1, <1>5 DEF CallInv
  <2> QED
    BY <1>2, <2>1 DEF RowHeld
<1>6. ASSUME l \notin unsure, o.stage \in Scheduling PROVE Begun(l, o)'
  <2>1. Begun(l, o) /\ ~Blank(l)
    BY <1>1, <1>6 DEF CallInv, Blank
  <2>2. \A j \in Item : Only(l, j) => Only(l, j)'
    BY <1>2, <1>3 DEF Only
  <2>3. Newborn(l)'
    BY <1>2, <2>1 DEF Begun, Newborn
  <2>4. o.stage = "insert" /\ o.on # None => o.on \in Item
    BY DEF Inv, OpInv, OpRecord
  <2> QED
    BY <1>3, <2>1, <2>2, <2>3, <2>4 DEF Begun
<1>7. ASSUME l \notin unsure, o.stage \in ByRow PROVE Moved(l, o)'
  <2>1. Moved(l, o) /\ ~Idle(l) /\ RowHeld(o)
    BY <1>1, <1>7 DEF CallInv, Idle
  <2>2. o.stage = "replace" => o.wasOn # None
    BY DEF Inv, OpInv, FitOp
  <2>3. o.wasOn # None => o.wasOn \in Item
    BY <1>4, <2>1 DEF RowHeld
  <2>4. Newest(l, o.on, o.version) => Newest(l, o.on, o.version)'
    BY <1>2, <1>3, <1>4 DEF Newest
  <2> QED
    BY <1>3, <2>1, <2>2, <2>3, <2>4 DEF Moved
<1>8. o.stage \in {"insert", "patch"} /\ o.on # None =>
        o.on \in ItemsOf(l)' /\ mac'[o.on].version = o.version
  BY <1>1, <1>2, <1>3, <1>4 DEF CallInv
<1> QED
  BY <1>1, <1>5, <1>6, <1>7, <1>8 DEF CallInv

\* The Mac fires the newest item, or fails to.
LEMMA MacFiresLetters == ASSUME Inv, LetterInv, NEW i \in Item, MacFires(i) PROVE LetterInv'
<1> PICK l : l = mac[i].letter
  OBVIOUS
<1> PICK v : v = mac[i].version
  OBVIOUS
<1>1. /\ mac[i].state = "pending" /\ UNCHANGED <<rows, nextRow, runVars, sync, op>>
      /\ l \in Letter /\ v \in Nat /\ 0 \in Turn
  BY Numbers, ScheduledAssumption DEF MacFires, Inv, MacInv, FitItem, Turn
<1>2. PICK s \in {"sent", "failed"} :
        /\ mac' = [mac EXCEPT ![i].state = s]
        /\ (s = "sent" /\ GoOut(l, 0, v)) \/ UNCHANGED historyVars
  BY DEF MacFires
<1>3. /\ mac'[i].state = s /\ mac'[i].letter = l /\ mac'[i].version = v /\ mac'[i].at = mac[i].at
      /\ \A j \in Item \ {i} : mac'[j] = mac[j]
  <2> DEFINE x == [mac[i] EXCEPT !.state = s]
  <2>1. x.state = s /\ x.letter = l /\ x.version = v /\ x.at = mac[i].at
    BY DEF Inv, MacInv, MacRecord
  <2>2. mac' = [mac EXCEPT ![i] = x]
    BY <1>2
  <2> HIDE DEF x
  <2> QED
    BY <2>1, <2>2 DEF Inv, MacInv
<1>4. /\ HistoryTyped' /\ UNCHANGED <<floor, promised, unsure>>
      /\ \A m \in Letter \ {l} : went'[m] = went[m] /\ (m \in stale' => m \in stale)
      /\ \A n \in Turn \ {0} : went'[l][n] = went[l][n]
      /\ went[l][0] = 0 => went'[l][0] <= 1
      /\ floor[l] <= v => stale' = stale
  <2>1. CASE GoOut(l, 0, v)
    BY <1>1, <2>1, GoesOut
  <2>2. CASE UNCHANGED historyVars
    BY <2>2 DEF historyVars, LetterInv, HistoryTyped
  <2> QED
    BY <1>2, <2>1, <2>2
<1>5. \A m : ItemsOf(m)' = ItemsOf(m) /\ RowsOf(m)' = RowsOf(m)
  BY <1>1, <1>3 DEF ItemsOf, RowsOf, Id
<1>6. Steady /\ nextRow' \in Nat
  BY <1>1, Numbers DEF Steady, Id
<1>7. ASSUME NEW m \in Letter \ {l} PROVE Calm(m)
  <2>1. \A j \in ItemsOf(m) : mac'[j] = mac[j]
    BY <1>3 DEF ItemsOf
  <2> QED
    BY <1>1, <1>4, <1>5, <2>1 DEF Calm, RowsOf
<1>8. \A j \in Item : /\ mac[j].state # "none" => mac'[j].state # "none"
                      /\ mac[j].state = "removed" <=> mac'[j].state = "removed"
                      /\ mac'[j].version = mac[j].version
  BY <1>1, <1>3
<1>9. ShownInv' /\ ClaimedInv'
  BY <1>1, <1>5, <1>8 DEF LetterInv, ShownInv, ClaimedInv, Local, Id, ItemsOf, runVars
<1>10. AbsentInv'
  BY <1>1, <1>8, StillAbsent DEF LetterInv
<1>11. ASSUME l \notin unsure PROVE SoleInv(l)'
  <2>1. SoleInv(l) /\ i \in Pending(l)
    BY <1>1, <1>11 DEF LetterInv, Pending, ItemsOf
  <2>2. Unsent(l) /\ Active(l) = {} /\ Pending(l) \subseteq {i} /\ floor[l] <= v
    BY <2>1 DEF SoleInv, Newest
  <2>3. Active(l)' = {} /\ Pending(l)' = {}
    BY <1>1, <1>3, <1>5, <2>2 DEF Active, Local, Pending, ItemsOf
  <2>4. \A k \in Turn : went'[l][k] <= 1
    BY <1>1, <1>4, <2>2 DEF Unsent
  <2> QED
    BY <1>4, <2>1, <2>2, <2>3, <2>4 DEF SoleInv
<1>12. Promise(l)'
  <2>1. Promise(l) /\ ShownInv
    BY <1>1 DEF LetterInv
  <2>2. Shown(l) => Shown(l)'
    <3>1. \A j \in RowsOf(l) : ~Local(j) => rows[j].on \in Item
      BY <2>1 DEF ShownInv, ItemsOf, RowsOf
    <3> QED
      BY <1>1, <1>5, <1>8, <3>1 DEF Shown, Local
  <2> QED
    BY <1>1, <1>4, <2>1, <2>2 DEF Promise, Moving
<1>13. \A g \in Hand : op[g].letter = l => CallInv(g)'
  BY <1>1, <1>3, <1>4, FiresUnderCall
<1>14. \A g \in Hand : CallInv(g)' \/ (op'[g] = op[g] /\ (op[g].stage = "none" \/ Calm(op[g].letter)))
  BY <1>1, <1>7, <1>13, Numbers
<1>15. \A m \in Letter : Calm(m) \/ ((m \notin unsure' => SoleInv(m)') /\ Promise(m)')
  BY <1>4, <1>7, <1>11, <1>12
<1>16. \A g \in Hand : op'[g] = op[g]
  BY <1>1
<1> QED
  BY <1>4, <1>6, <1>9, <1>10, <1>14, <1>15, <1>16, Assemble

\* Nothing happens to what the letters are about.
LEMMA IdleLetters ==
  ASSUME Inv, LetterInv, UNCHANGED <<rows, nextRow, mac, run, sync, op, historyVars>>
  PROVE  LetterInv'
<1>1. ClaimedInv'
  BY DEF LetterInv, ClaimedInv
<1> QED
  BY <1>1, RunCalm DEF Id

\* A call that was moving an item between the Mac and the phone is lost with the process,
\* and so is track of its letter.
LEMMA CrashLetters == ASSUME Inv, LetterInv, Crash PROVE LetterInv'
<1>1. /\ UNCHANGED <<rows, nextRow, mac, went, floor, promised, stale>>
      /\ unsure \subseteq unsure' /\ \A h \in Hand : op'[h] = NoOp
      /\ \A h \in Hand : MovesItem(op[h]) => op[h].letter \in unsure'
      /\ \A r \in Run : run'[r] = NoRun
      /\ sync' = NoSync
  BY DEF Crash, MovesItem
<1>2. Steady /\ nextRow' \in Nat /\ \A l : Calm(l)
  BY <1>1, StillCalm
<1>3. ShownInv' /\ HistoryTyped' /\ ClaimedInv' /\ AbsentInv'
  BY <1>1, StillShown DEF LetterInv, HistoryTyped, ClaimedInv, AbsentInv, NoSync, NoRun
<1>4. \A h \in Hand : CallInv(h)'
  BY <1>1 DEF CallInv, NoOp, ByRow, Scheduling
<1>5. \A g \in Hand, m \in Letter : MovesItem(op[g]) /\ op[g].letter = m => m \in unsure'
  BY <1>1
<1> QED
  BY <1>2, <1>3, <1>4, <1>5, Assemble

-----------------------------------------------------------------------------
(* The letters, over every step.                                             *)

\* Nothing has been asked for yet.
LEMMA InitLetters == Init => LetterInv
<1> SUFFICES ASSUME Init PROVE LetterInv
  OBVIOUS
<1>1. Id = {} /\ \A l : RowsOf(l) = {} /\ Active(l) = {} /\ ItemsOf(l) = {} /\ Pending(l) = {}
  BY DEF Init, Id, RowsOf, Active, ItemsOf, Pending, NoItem
<1>2. /\ \A l \in Letter : floor[l] = 0 /\ \A k \in Turn : went[l][k] = 0
      /\ promised = {} /\ unsure = {} /\ stale = {}
      /\ \A h \in Hand : op[h] = NoOp
      /\ \A r \in Run : run[r] = NoRun
      /\ sync = NoSync
  BY DEF Init
<1>3. HistoryTyped
  BY DEF Init, HistoryTyped
<1>4. ShownInv /\ ClaimedInv /\ AbsentInv
  BY <1>1, <1>2 DEF ShownInv, ClaimedInv, AbsentInv, NoSync, NoRun
<1>5. \A l \in Letter : SoleInv(l) /\ Promise(l)
  BY <1>1, <1>2 DEF SoleInv, Promise
<1>6. \A h \in Hand : CallInv(h)
  BY <1>2 DEF CallInv, NoOp, ByRow, Scheduling
<1> QED
  BY <1>3, <1>4, <1>5, <1>6 DEF LetterInv

\* The steps of a run.
LEMMA RunStepLetters == ASSUME Inv, LetterInv, NEW r \in Run, RunStep(r) PROVE LetterInv'
  BY EnterLetters, LapseLetters, RecoverLetters, ClaimLetters, HandOverLetters, DeferLetters,
     FailLetters, StickLetters, FinishLetters DEF RunStep

\* The steps of the owner's calls.
LEMMA OwnerStepLetters ==
  ASSUME Inv, LetterInv, Apart, NEW h \in Hand, OwnerStep(h) PROVE LetterInv'
  BY ScheduleLetters, CreateLetters, LookLetters, InsertRowLetters, OpenLetters, EditLetters,
     ReplaceLetters, RecreateLetters, PatchLetters, CancelLetters, WithdrawLetters, DropLetters
  DEF OwnerStep

\* Every step, as long as no two calls are about the same letter.
LEMMA NextLetters == Inv /\ LetterInv /\ Apart /\ [Next]_vars => LetterInv'
<1> SUFFICES ASSUME Inv, LetterInv, Apart, [Next]_vars PROVE LetterInv'
  OBVIOUS
<1>1. CASE \E r \in Run : RunStep(r)
  BY <1>1, RunStepLetters
<1>2. CASE SyncStep
  BY <1>2, ExposeLetters, FetchLetters, MergeLetters, PruneLetters, EndSyncLetters DEF SyncStep
<1>3. CASE \E h \in Hand : OwnerStep(h)
  BY <1>3, OwnerStepLetters
<1>4. CASE \E i \in Id : Clear(i)
  BY <1>4, ClearLetters
<1>5. CASE \E i \in Item : MacFires(i)
  BY <1>5, MacFiresLetters
<1>6. CASE Tick
  BY <1>6, IdleLetters DEF Tick, runVars
<1>7. CASE Crash
  BY <1>7, CrashLetters
<1>8. CASE UNCHANGED vars
  BY <1>8, IdleLetters DEF vars, runVars
<1> QED
  BY <1>1, <1>2, <1>3, <1>4, <1>5, <1>6, <1>7, <1>8 DEF Next

\* The invariant of the letters, as long as no two calls are about the same letter.
LEMMA LettersHold == Spec /\ []Apart => [](Inv /\ LetterInv)
<1>1. Init => Inv /\ LetterInv
  BY InitInv, InitLetters
<1>2. Inv /\ LetterInv /\ Apart /\ [Next]_vars => (Inv /\ LetterInv)'
  BY NextInv, NextLetters
<1> QED
  BY <1>1, <1>2, PTL DEF Spec

\* From phone or Mac, a turn of a letter goes out once: at most one holder of the letter
\* has anything left to send, and it is not sent before (scheduleService.ts:219,
\* scheduledSends.ts:213).
THEOREM TurnsGoOutOnce == Spec /\ []Apart => []OncePerTurn
<1>1. LetterInv => OncePerTurn
  BY DEF LetterInv, SoleInv, OncePerTurn
<1> QED
  BY <1>1, LettersHold, PTL

\* The holder is at the letter's newest version, so what was cancelled or edited away is
\* nobody's to send (scheduledSends.ts:127, 213).
THEOREM WithdrawnStaysIn == Spec /\ []Apart => []NothingWithdrawnGoesOut
<1>1. LetterInv => NothingWithdrawnGoesOut
  BY DEF LetterInv, HistoryTyped, SoleInv, NothingWithdrawnGoesOut
<1> QED
  BY <1>1, LettersHold, PTL

\* A letter the owner was told is scheduled keeps its row, or is in a call's hands
\* (scheduledSends.ts:324).
THEOREM PromisedIsShown == Spec /\ []Apart => []NothingIsLost
<1>1. LetterInv => NothingIsLost
  BY DEF LetterInv, HistoryTyped, Promise, Shown, Moving, NothingIsLost, RowsOf, Local
<1> QED
  BY <1>1, LettersHold, PTL
\* With one screen no two calls meet: all three hold, with no condition on the behaviour.
THEOREM OneScreen ==
  ASSUME \A g, h \in Hand : g = h
  PROVE  Spec => [](OncePerTurn /\ NothingWithdrawnGoesOut /\ NothingIsLost)
<1>1. Apart
  BY DEF Apart
<1>2. LetterInv => OncePerTurn /\ NothingWithdrawnGoesOut /\ NothingIsLost
  BY DEF LetterInv, HistoryTyped, SoleInv, Promise, Shown, Moving, OncePerTurn,
     NothingWithdrawnGoesOut, NothingIsLost, RowsOf, Local
<1> QED
  BY <1>1, <1>2, LettersHold, PTL

=============================================================================
