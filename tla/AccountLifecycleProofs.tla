----------------------- MODULE AccountLifecycleProofs -----------------------
(****************************************************************************)
(* The account for any servers: a forgotten account does not come back, a   *)
(* published session is one account's with its own rows, no live bearer is  *)
(* orphaned, and nothing late lands on what connect() has published.        *)
(****************************************************************************)
EXTENDS AccountLifecycle, TLAPS

StoreTyped ==
    /\ marker \in BOOLEAN /\ hint \in BOOLEAN
    /\ rows \subseteq Account /\ syncing \subseteq Account
    /\ gone \subseteq Account /\ held \subseteq Account /\ kept \in Maybe
    /\ late \subseteq {"forgotten", "wipe"}
Session == {"none", "writing", "active", "forgotten"}
VaultTyped == vault \in [sess : Session, addr : Maybe, pw : Maybe, tomb : BOOLEAN]
LiveTyped == live \in Pair
ConnPc == {"idle", "wait", "gate", "clean", "overlap", "candidate", "opening"}
ConnTyped == conn \in [pc : ConnPc, acct : Maybe, ok : BOOLEAN, clean : BOOLEAN]
CandPc == {"none", "check", "sess", "reread", "addr", "pw", "tomb", "active"}
CandTyped == cand \in [pc : CandPc, acct : Maybe, tomb : BOOLEAN]
ForgetPc == {"idle", "join", "cand", "mark", "drop", "drain", "sync", "wipe", "end"}
ForgetTyped ==
    forget \in [pc : ForgetPc, public : BOOLEAN, waive : BOOLEAN, marked : BOOLEAN,
                drained : BOOLEAN, failed : BOOLEAN, bearer : Maybe]
FinPc == {"none", "capture", "revoke", "tomb", "mark", "drop", "bare"}
FinTyped ==
    fin \in [pc : FinPc, targets : SUBSET Account, waive : BOOLEAN, marked : BOOLEAN,
             late : BOOLEAN]
BootPc == {"due", "pair", "open", "verify", "join", "up"}
BootTyped == boot \in [pc : BootPc, sess : Session, pair : Pair]

\* A candidate that has written to the store.
Writing == {"reread", "addr", "pw", "tomb", "active"}

\* A boot that has read the store.
Reading == {"pair", "open", "verify"}

\* A connect() in flight that nobody has revoked.
Asking == conn.pc # "idle" /\ conn.ok

\* Whatever is stored, or may still be stored, is of that account.
Mine(a) == rows \subseteq {a} /\ syncing \subseteq {a}

\* Nothing is left of any account.
Swept == rows = {} /\ syncing = {} /\ held = {}

\* What a Forget run past its wait for an earlier one is at.
Sweeping == {"cand", "mark", "drop", "drain", "sync", "wipe", "end"}

\* Each flow has the account it works for.
ShapeInv ==
    /\ live = NoSession \/ \E a \in Account : live = Of(a)
    /\ conn.pc # "idle" => conn.acct \in Account
    /\ cand.pc # "none" => cand.acct \in Account
    /\ conn.pc = "candidate" => cand.pc # "none" /\ cand.acct = conn.acct
    /\ conn.pc \in {"wait", "gate", "clean", "overlap", "opening"} => cand.pc = "none"
    /\ forget.pc = "idle" => ~forget.public /\ ~forget.marked
    /\ fin.pc = "none" => ~fin.late

\* Which flow excludes which.
FlowInv ==
    /\ Asking => boot.pc = "up" /\ live = NoSession
    /\ boot.pc \in Reading => forget.pc = "idle"
    /\ boot.pc # "up" => live = NoSession
    /\ forget.pc # "idle" => live = NoSession
    /\ Asking /\ conn.pc \in {"gate", "candidate", "opening"} =>
         forget.pc = "idle" /\ fin.pc = "none" /\ late = {}
    /\ live # NoSession => cand.pc \notin Writing
    /\ boot.pc \in Reading /\ boot.sess \in {"none", "active"} => cand.pc \notin Writing

\* What a Forget run and its retirement of bearers have behind them.
SweepInv ==
    /\ forget.marked => marker
    /\ fin.pc # "none" /\ ~fin.late => forget.pc \in {"sync", "wipe", "end"}
    /\ forget.pc \in {"cand", "mark", "drop", "drain"} => fin.pc = "none"
    /\ forget.pc = "join" => forget.drained
    /\ forget.pc \in Sweeping /\ ~forget.failed =>
         /\ late = {} /\ ~fin.late /\ forget.drained
    /\ forget.pc \in Sweeping \ {"cand"} /\ forget.drained => cand.pc = "none"
    /\ forget.pc \in {"sync", "wipe", "end"} /\ ~forget.failed /\ fin.pc = "none" =>
         vault.tomb /\ held = {}
    /\ forget.pc \in {"wipe", "end"} /\ ~forget.failed => syncing = {}
    /\ forget.pc = "end" /\ ~forget.failed => rows = {}
    /\ fin.pc \in {"revoke", "tomb", "mark", "drop", "bare"} => cand.pc = "none"
    /\ fin.pc = "revoke" => held \subseteq fin.targets
    /\ fin.pc \in {"tomb", "mark", "drop", "bare"} => held = {}
    /\ fin.pc \in {"mark", "drop", "bare"} => vault.tomb

\* A pair of two accounts is never usable, and a candidate overwrites it in an order
\* that a start can tell.
VaultInv ==
    /\ vault.addr # None /\ vault.pw # None /\ vault.addr # vault.pw =>
         vault.sess \in {"writing", "forgotten"}
    /\ cand.pc \in Writing => vault.sess \in {"writing", "forgotten"}
    /\ cand.pc \in {"pw", "tomb", "active"} => vault.addr \in {cand.acct, None}
    /\ cand.pc \in {"tomb", "active"} => vault.pw \in {cand.acct, None}
    /\ Current /\ cand.pc \in {"pw", "tomb", "active"} => vault.addr = cand.acct
    /\ Current /\ cand.pc \in {"tomb", "active"} => vault.pw = cand.acct
    /\ Current /\ cand.pc \in {"addr", "pw"} => vault.tomb = cand.tomb
    /\ Current /\ cand.pc = "active" => ~vault.tomb
    /\ Asking /\ conn.pc = "opening" =>
         ~marker /\ ~vault.tomb /\ vault.sess = "active" /\ Saved = Of(conn.acct)

\* A pair that may be published, as a start that read sess sees it, is of an account
\* that is not gone and owns what is stored.
Sound(sess) ==
    Kind(sess) = "ready" =>
        vault.addr = vault.pw /\ vault.addr \notin gone /\ Mine(vault.addr)

ReadyInv ==
    /\ Sound(vault.sess)
    /\ boot.pc \in Reading => Sound(boot.sess)
    /\ boot.pc \in {"open", "verify"} => boot.sess \in {"none", "active"}

\* Who may be published, or may write the pair, is not gone and finds no other's rows.
OwnInv ==
    /\ live # NoSession => Mine(live.pw) /\ live.pw \notin gone
    /\ live # NoSession /\ Kind(vault.sess) = "ready" => Saved = live
    /\ Asking => conn.acct \notin gone
    /\ Asking /\ conn.pc = "opening" => Mine(conn.acct)
    /\ cand.pc # "none" /\ cand.acct \in gone => marker
    /\ cand.pc \in Writing => Mine(cand.acct)
    /\ Current => Mine(conn.acct)
    /\ hint /\ live = NoSession => Swept
    /\ Asking /\ conn.clean => Swept
    /\ cand.pc # "none" => held \subseteq {cand.acct}
    /\ \A a \in held : Saved = Of(a)

\* What connect() published is in the store, and nothing that could change it runs.
KeptInv ==
    kept # None =>
        /\ ~marker /\ ~vault.tomb /\ vault.sess = "active" /\ Saved = Of(kept)
        /\ forget.pc = "idle" /\ fin.pc = "none" /\ late = {}
        /\ cand.pc = "none" /\ conn.pc = "idle"
        /\ boot.pc # "join" /\ (boot.pc = "up" => live # NoSession)
        /\ boot.pc \in Reading => boot.sess = "active"

Inv ==
    /\ TypeOK /\ ShapeInv /\ FlowInv /\ SweepInv /\ VaultInv /\ ReadyInv /\ OwnInv /\ KeptInv

-----------------------------------------------------------------------------
(* The types, one variable at a time.                                        *)

\* The type invariant, taken apart.
LEMMA TypeParts ==
  TypeOK => /\ StoreTyped /\ VaultTyped /\ LiveTyped /\ ConnTyped
            /\ CandTyped /\ ForgetTyped /\ FinTyped /\ BootTyped
  BY DEF TypeOK, StoreTyped, VaultTyped, LiveTyped, ConnTyped, CandTyped, ForgetTyped, FinTyped,
         BootTyped, Session, ConnPc, CandPc, ForgetPc, FinPc, BootPc

\* The type invariant of the next state, put together.
LEMMA TypeNext ==
  ASSUME StoreTyped', VaultTyped', LiveTyped', ConnTyped', CandTyped', ForgetTyped', FinTyped',
         BootTyped'
  PROVE  TypeOK'
  BY DEF TypeOK, StoreTyped, VaultTyped, LiveTyped, ConnTyped, CandTyped, ForgetTyped, FinTyped,
         BootTyped, Session, ConnPc, CandPc, ForgetPc, FinPc, BootPc

\* What each flow is before it starts has its type.
LEMMA Nothing ==
  /\ NoSession \in Pair
  /\ NoConn \in [pc : ConnPc, acct : Maybe, ok : BOOLEAN, clean : BOOLEAN]
  /\ NoCand \in [pc : CandPc, acct : Maybe, tomb : BOOLEAN]
  /\ NoForget \in [pc : ForgetPc, public : BOOLEAN, waive : BOOLEAN, marked : BOOLEAN,
                    drained : BOOLEAN, failed : BOOLEAN, bearer : Maybe]
  /\ NoFin \in [pc : FinPc, targets : SUBSET Account, waive : BOOLEAN, marked : BOOLEAN,
                 late : BOOLEAN]
  /\ \A pc \in BootPc : BootAt(pc) \in [pc : BootPc, sess : Session, pair : Pair]
  BY DEF NoSession, Pair, Maybe, NoConn, NoCand, NoForget, NoFin, BootAt, ConnPc, CandPc,
     ForgetPc,
         FinPc, BootPc, Session

\* A pair of one account is typed.
LEMMA OfTyped == \A a \in Maybe : Of(a) \in Pair
  BY DEF Of, Pair

\* A run that begins is typed, and publishes nothing.
LEMMA BeginTypes ==
  ASSUME TypeOK, NEW public \in BOOLEAN, NEW waive \in BOOLEAN, BeginForget(public, waive)
  PROVE  /\ marker' \in BOOLEAN /\ hint' \in BOOLEAN /\ gone' \subseteq Account
         /\ LiveTyped' /\ ForgetTyped'
<1>1. marker' \in BOOLEAN /\ hint' \in BOOLEAN /\ gone' \subseteq Account
  BY TypeParts DEF BeginForget, StoreTyped
<1>2. LiveTyped'
  BY Nothing DEF BeginForget, LiveTyped
<1>3. ForgetTyped'
  <2> DEFINE pc == IF Quarantined THEN "join" ELSE "cand"
  <2>1. PICK marked \in BOOLEAN :
          forget' = [NoForget EXCEPT !.pc = pc, !.public = public, !.waive = waive,
                                     !.marked = marked, !.bearer = live.pw]
    BY DEF BeginForget
  <2>2. pc \in ForgetPc /\ live.pw \in Maybe
    BY TypeParts DEF ForgetPc, LiveTyped, Pair
  <2> HIDE DEF pc
  <2> QED
    BY <2>1, <2>2, Nothing DEF ForgetTyped
<1> QED
  BY <1>1, <1>2, <1>3

\* A run that moves keeps what it began with.
LEMMA StepTypes ==
  ASSUME TypeOK, NEW pc \in ForgetPc, NEW failed \in BOOLEAN, ForgetStep(pc, failed)
  PROVE  ForgetTyped' /\ ConnTyped' /\ BootTyped' /\ hint' = hint /\ gone' = gone
<1>1. (forget.failed \/ failed) \in BOOLEAN
  OBVIOUS
<1>2. ForgetTyped'
  BY <1>1, TypeParts DEF ForgetStep, ForgetTyped
<1> QED
  BY <1>2, TypeParts DEF ForgetStep, ConnTyped, BootTyped

\* A run that ends moves whoever waits for it.
LEMMA EndTypes ==
  ASSUME TypeOK, NEW ok \in BOOLEAN, ForgetEnds(ok)
  PROVE  /\ hint' \in BOOLEAN /\ gone' \subseteq Account
         /\ ForgetTyped' /\ ConnTyped' /\ BootTyped'
<1>1. hint' \in BOOLEAN /\ gone' \subseteq Account
  BY TypeParts DEF ForgetEnds, StoreTyped
<1>2. ForgetTyped'
  BY Nothing DEF ForgetEnds, ForgetTyped
<1>3. ConnTyped'
  BY TypeParts, Nothing DEF ForgetEnds, ConnTyped, ConnPc
<1>4. BootTyped'
  BY TypeParts, Nothing DEF ForgetEnds, BootTyped, BootPc
<1> QED
  BY <1>1, <1>2, <1>3, <1>4

\* A candidate that stops, or goes on.
LEMMA StopTypes == ASSUME TypeOK, CandidateStops PROVE CandTyped' /\ ConnTyped'
  BY TypeParts, Nothing DEF CandidateStops, CandTyped, ConnTyped

LEMMA GoOnTypes ==
  ASSUME TypeOK, NEW pc \in CandPc, GoOn(pc) PROVE CandTyped' /\ ConnTyped'
<1>1. CASE Current
  BY <1>1, TypeParts DEF GoOn, CandTyped, ConnTyped
<1>2. CASE ~Current
  BY <1>2, StopTypes DEF GoOn
<1> QED
  BY <1>1, <1>2

\* A retirement that moves, or ends.
LEMMA FinStepTypes ==
  ASSUME TypeOK, NEW pc \in FinPc, FinStep(pc) PROVE FinTyped' /\ ForgetTyped'
  BY TypeParts DEF FinStep, FinTyped, ForgetTyped

LEMMA FinEndsTypes ==
  ASSUME TypeOK, NEW bad \in BOOLEAN, FinEnds(bad) PROVE FinTyped' /\ ForgetTyped'
<1>1. (forget.failed \/ bad) \in BOOLEAN
  OBVIOUS
<1>2. ForgetTyped'
  BY <1>1, TypeParts DEF FinEnds, ForgetTyped
<1> QED
  BY <1>2, Nothing DEF FinEnds, FinTyped

\* The keys that go leave the rest of the store typed.
LEMMA ClearTypes ==
  ASSUME TypeOK, NEW keys \in SUBSET {"addr", "pw"}
  PROVE  Cleared(keys) \in [sess : Session, addr : Maybe, pw : Maybe, tomb : BOOLEAN]
<1>1. (IF "addr" \in keys THEN None ELSE vault.addr) \in Maybe
  BY TypeParts DEF VaultTyped, Maybe
<1>2. (IF "pw" \in keys THEN None ELSE vault.pw) \in Maybe
  BY TypeParts DEF VaultTyped, Maybe
<1> QED
  BY <1>1, <1>2, TypeParts DEF VaultTyped, Cleared

LEMMA TargetTypes == ASSUME TypeOK, NEW b \in Maybe PROVE Targets(b) \subseteq Account
  BY TypeParts DEF Targets, VaultTyped, Maybe

\* disconnect() starts a public run, or makes the run in flight public.
LEMMA DisconnectTypes == ASSUME TypeOK, Disconnect PROVE TypeOK'
<1>1. CASE forget.pc = "idle"
  <2>1. BeginForget(TRUE, FALSE)
    BY <1>1 DEF Disconnect
  <2> QED
    BY <1>1, <2>1, BeginTypes, TypeParts, TypeNext, Nothing
    DEF Disconnect, PublicForget, StoreTyped, VaultTyped, ConnTyped, CandTyped, FinTyped,
        BootTyped, BootPc, Maybe
<1>2. CASE forget.pc # "idle"
  <2>1. ForgetTyped'
    BY <1>2, TypeParts DEF Disconnect, ForgetTyped
  <2> QED
    BY <1>2, <2>1, TypeParts, TypeNext, Nothing
    DEF Disconnect, PublicForget, StoreTyped, VaultTyped, LiveTyped, ConnTyped, CandTyped,
        FinTyped, BootTyped, BootPc, Maybe
<1> QED
  BY <1>1, <1>2

\* The gate that passes makes a candidate for its own account.
LEMMA GatePassesTypes == ASSUME TypeOK, GatePasses PROVE TypeOK'
<1>1. CandTyped'
  <2>1. [NoCand EXCEPT !.pc = "check", !.acct = conn.acct]
          \in [pc : CandPc, acct : Maybe, tomb : BOOLEAN]
    BY TypeParts, Nothing DEF ConnTyped, CandPc
  <2> QED
    BY <2>1, TypeParts DEF GatePasses, CandTyped
<1>2. ConnTyped'
  BY TypeParts DEF GatePasses, ConnTyped, ConnPc
<1> QED
  BY <1>1, <1>2, TypeParts, TypeNext DEF GatePasses, durable, history, StoreTyped, VaultTyped,
     LiveTyped, ForgetTyped, FinTyped, BootTyped

\* The checked candidate has seen the tombstone.
LEMMA CandidateCheckedTypes == ASSUME TypeOK, CandidateChecked PROVE TypeOK'
<1>1. CandTyped' /\ ConnTyped'
  <2>1. CASE Current
    BY <2>1, TypeParts DEF CandidateChecked, GoOn, CandTyped, VaultTyped, ConnTyped, CandPc
  <2>2. CASE ~Current
    BY <2>2, StopTypes DEF CandidateChecked
  <2> QED
    BY <2>1, <2>2
<1> QED
  BY <1>1, TypeParts, TypeNext DEF CandidateChecked, durable, history, StoreTyped, VaultTyped,
     LiveTyped, ForgetTyped, FinTyped, BootTyped

\* The drained run hands the bearers over to the retirement.
LEMMA DrainedTypes == ASSUME TypeOK, Drained PROVE TypeOK'
<1>1. FinTyped'
  <2>1. Targets(forget.bearer) \subseteq Account
    BY TypeParts, TargetTypes DEF ForgetTyped
  <2> QED
    BY <2>1, TypeParts DEF Drained, FinTyped, ForgetTyped, FinPc
<1>2. ForgetTyped' /\ ConnTyped' /\ BootTyped' /\ hint' = hint /\ gone' = gone
  BY StepTypes DEF Drained, ForgetPc
<1> QED
  BY <1>1, <1>2, TypeParts, TypeNext DEF Drained, durable, StoreTyped, VaultTyped, LiveTyped,
     CandTyped

\* A run past its deadline leaves them to the late retirement.
LEMMA DrainDeadlineTypes == ASSUME TypeOK, DrainDeadline PROVE TypeOK'
<1>1. FinTyped'
  <2>1. {forget.bearer} \ {None} \subseteq Account
    BY TypeParts DEF ForgetTyped, Maybe
  <2> QED
    BY <2>1, TypeParts DEF DrainDeadline, FinTyped, ForgetTyped, FinPc
<1>2. ForgetTyped' /\ ConnTyped' /\ BootTyped' /\ hint' = hint /\ gone' = gone
  BY StepTypes DEF DrainDeadline, ForgetPc
<1> QED
  BY <1>1, <1>2, TypeParts, TypeNext DEF DrainDeadline, durable, StoreTyped, VaultTyped,
     LiveTyped, CandTyped

\* The late retirement reads the store again for every bearer it has.
LEMMA LateCaptureTypes == ASSUME TypeOK, LateCapture PROVE TypeOK'
<1>1. FinTyped'
  <2> DEFINE all == UNION {Targets(a) : a \in fin.targets \cup {None}}
  <2>1. all \subseteq Account
    BY TypeParts, TargetTypes DEF FinTyped, Maybe
  <2>2. fin' = [fin EXCEPT !.pc = "revoke", !.targets = all]
    BY DEF LateCapture
  <2> HIDE DEF all
  <2> QED
    BY <2>1, <2>2, TypeParts DEF FinTyped, FinPc
<1> QED
  BY <1>1, TypeParts, TypeNext DEF LateCapture, durable, history, StoreTyped, VaultTyped,
     LiveTyped, ForgetTyped, CandTyped, ConnTyped, BootTyped

\* A start waits for the run, or reads the state of the session.
LEMMA BootStartsTypes == ASSUME TypeOK, BootStarts PROVE TypeOK'
<1>1. BootTyped'
  <2>1. BootAt("join") \in [pc : BootPc, sess : Session, pair : Pair]
    BY Nothing DEF BootPc
  <2>2. BootAt("pair") \in [pc : BootPc, sess : Session, pair : Pair]
    BY Nothing DEF BootPc
  <2>3. [BootAt("pair") EXCEPT !.sess = vault.sess] \in [pc : BootPc, sess : Session, pair : Pair]
    BY <2>2, TypeParts DEF VaultTyped
  <2> QED
    BY <2>1, <2>3 DEF BootStarts, BootTyped
<1> QED
  BY <1>1, TypeParts, TypeNext DEF BootStarts, durable, history, StoreTyped, VaultTyped,
     LiveTyped, ForgetTyped, CandTyped, ConnTyped, FinTyped

\* A start that finds the pair keeps it.
LEMMA BootReadyTypes == ASSUME TypeOK, BootReady PROVE TypeOK'
<1>1. BootTyped'
  <2>1. Saved \in Pair
    BY TypeParts DEF VaultTyped, Saved, Pair
  <2> QED
    BY <2>1, TypeParts DEF BootReady, BootTyped, BootPc
<1> QED
  BY <1>1, TypeParts, TypeNext DEF BootReady, durable, history, StoreTyped, VaultTyped,
     LiveTyped, ForgetTyped, CandTyped, ConnTyped, FinTyped

\* A start publishes the pair it has kept.
LEMMA BootPublishesTypes == ASSUME TypeOK, BootPublishes PROVE TypeOK'
<1>1. boot.pair \in Pair /\ boot.pair.pw \in Account
  <2>1. boot.pair \in Pair
    BY TypeParts DEF BootTyped
  <2>2. Saved.pw \in Account
    BY TypeParts DEF BootPublishes, Kind, VaultTyped, Saved, Maybe
  <2> QED
    BY <2>1, <2>2 DEF BootPublishes
<1>2. LiveTyped' /\ StoreTyped'
  BY <1>1, TypeParts DEF BootPublishes, durable, history, LiveTyped, StoreTyped
<1>3. BootTyped'
  BY Nothing DEF BootPublishes, BootTyped, BootPc
<1> QED
  BY <1>2, <1>3, TypeParts, TypeNext DEF BootPublishes, durable, VaultTyped, ForgetTyped,
     CandTyped, ConnTyped, FinTyped

\* A row is of an account that syncs, or of the published one.
LEMMA AccountWritesTypes == ASSUME TypeOK, AccountWrites PROVE TypeOK'
<1>1. syncing \cup ({live.pw} \ {None}) \subseteq Account
  BY TypeParts DEF StoreTyped, LiveTyped, Pair, Maybe
<1>2. StoreTyped'
  BY <1>1, TypeParts DEF AccountWrites, flows, history, StoreTyped
<1> QED
  BY <1>2, TypeParts, TypeNext DEF AccountWrites, flows, VaultTyped, LiveTyped, ForgetTyped,
     CandTyped, ConnTyped, FinTyped, BootTyped

\* Where a run begins, and what it has done in that turn.
LEMMA BeginsAt ==
  ASSUME TypeOK, NEW public \in BOOLEAN, NEW waive \in BOOLEAN, BeginForget(public, waive)
  PROVE  /\ forget'.pc = IF Quarantined THEN "join" ELSE "cand"
         /\ forget'.public = public /\ forget'.waive = waive /\ forget'.marked \in BOOLEAN
         /\ forget'.drained /\ ~forget'.failed /\ (forget'.marked => marker')
         /\ (marker => marker')
         /\ (gone' = gone \/ (public /\ gone' = Account /\ marker'))
  BY DEF BeginForget, NoForget

\* disconnect(): the accounts of the flows, and what the run has behind it.
LEMMA DisconnectShape == ASSUME Inv, Disconnect PROVE ShapeInv' /\ SweepInv'
<1>1. CASE forget.pc = "idle"
  <2>1. BeginForget(TRUE, FALSE)
    BY <1>1 DEF Disconnect
  <2> QED
    BY <1>1, <2>1, BeginsAt DEF Disconnect, PublicForget, BeginForget, Inv, ShapeInv, SweepInv,
       FlowInv, Quarantined, Sweeping, NoSession, Of, TypeOK
<1>2. CASE forget.pc # "idle"
  <2>1. /\ forget'.pc = forget.pc /\ forget'.marked = forget.marked
        /\ forget'.failed = forget.failed
        /\ forget'.drained = forget.drained
    BY <1>2 DEF Disconnect, Inv, TypeOK
  <2>2. SweepInv'
    BY <1>2, <2>1 DEF Disconnect, PublicForget, Inv, SweepInv, Sweeping
  <2> QED
    BY <1>2, <2>1, <2>2 DEF Disconnect, PublicForget, Inv, ShapeInv, Of
<1> QED
  BY <1>1, <1>2

\* A gate that cleans up first: the same.
LEMMA GateCleansShape == ASSUME Inv, GateCleans PROVE ShapeInv' /\ SweepInv'
<1>0. conn'.pc = "clean" /\ conn'.acct = conn.acct /\ conn'.ok
  BY DEF GateCleans, Inv, TypeOK
<1>1. CASE forget.pc = "idle"
  <2>1. BeginForget(FALSE, FALSE)
    BY <1>1 DEF GateCleans
  <2> QED
    BY <1>0, <1>1, <2>1, BeginsAt DEF GateCleans, BeginForget, Inv, ShapeInv, SweepInv, FlowInv,
       Quarantined, Sweeping, NoSession, Of, Asking, TypeOK
<1>2. CASE forget.pc # "idle"
  BY <1>0, <1>2 DEF GateCleans, Inv, ShapeInv, SweepInv, Sweeping, Of
<1> QED
  BY <1>1, <1>2

\* A gate that passes: a pair found ready is of the account asked for, and otherwise what is
\* left of an account has been swept, so the candidate may write.
LEMMA GatePassesShape == ASSUME Inv, GatePasses PROVE ShapeInv' /\ VaultInv' /\ OwnInv'
<1>0. /\ forget.pc = "idle"
      /\ conn'.pc = "candidate" /\ conn'.acct = conn.acct /\ conn'.ok /\ conn'.clean = conn.clean
      /\ cand'.pc = "check" /\ cand'.acct = conn.acct
  BY DEF GatePasses, Inv, TypeOK, FlowInv, Asking, NoCand
<1>1. ShapeInv'
  BY <1>0 DEF GatePasses, Inv, ShapeInv, durable, history, Of
<1>2. VaultInv'
  BY <1>0 DEF GatePasses, Inv, VaultInv, Writing, durable, history, Asking, Current
<1>3. conn.acct \notin gone /\ held \subseteq {conn.acct}
  BY DEF GatePasses, Inv, OwnInv, NeedsCleanup, Asking, Swept, FlowInv, Saved, Of, ShapeInv, Kind
<1>4. OwnInv'
  BY <1>0, <1>3 DEF GatePasses, Inv, OwnInv, durable, history, Writing, Asking, Current, Mine,
     Saved, Of, Kind, Swept, FlowInv, ShapeInv, NeedsCleanup, ReadyInv, Sound
<1> QED
  BY <1>1, <1>2, <1>4

\* The candidate goes on only under the connect() that is waiting for it.
LEMMA CandidateCheckedShape == ASSUME Inv, CandidateChecked PROVE ShapeInv' /\ VaultInv' /\ OwnInv'
<1>1. CASE Current
  <2>1. cand'.pc = "sess" /\ cand'.acct = cand.acct /\ cand'.tomb = vault.tomb /\ conn' = conn
    BY <1>1 DEF CandidateChecked, Inv, TypeOK
  <2>2. ShapeInv'
    BY <2>1 DEF CandidateChecked, Inv, ShapeInv, durable, history, Of
  <2>3. VaultInv'
    BY <1>1, <2>1 DEF CandidateChecked, Inv, ShapeInv, VaultInv, Writing, durable, history,
       Asking, Current, Saved, Of
  <2>4. OwnInv'
    BY <2>1 DEF CandidateChecked, Inv, OwnInv, durable, history, Writing, Asking, Current, Mine,
       Saved, Of, Kind, Swept
  <2> QED
    BY <2>2, <2>3, <2>4
<1>2. CASE ~Current
  BY <1>2 DEF CandidateChecked, CandidateStops, NoCand, NoConn, Inv, ShapeInv, VaultInv, OwnInv,
     durable, history, Writing, Asking, Current, Mine, Saved, Of, Kind, Swept
<1> QED
  BY <1>1, <1>2

\* The tombstone goes; the pair written before it is the candidate's.
LEMMA DroppedTombstoneVault == ASSUME Inv, DroppedTombstone PROVE VaultInv'
<1>0. vault'.sess = vault.sess /\ vault'.addr = vault.addr /\ vault'.pw = vault.pw /\ ~vault'.tomb
  BY DEF DroppedTombstone, Inv, TypeOK
<1>1. CASE Current
  <2>1. cand'.pc = "active" /\ cand'.acct = cand.acct /\ conn' = conn
    BY <1>1 DEF DroppedTombstone, GoOn, Inv, TypeOK
  <2> QED
    BY <1>0, <1>1, <2>1 DEF DroppedTombstone, Inv, VaultInv, Writing, Asking, Current
<1>2. CASE ~Current
  <2>1. cand'.pc = "none" /\ conn'.pc # "opening"
    BY <1>2 DEF DroppedTombstone, GoOn, CandidateStops, NoCand, NoConn, Inv, ShapeInv
  <2> QED
    BY <1>0, <2>1 DEF DroppedTombstone, Inv, VaultInv, Writing, Asking, Current
<1> QED
  BY <1>1, <1>2

\* A run that waited for an earlier one starts with nothing left behind.
LEMMA JoinedSweep == ASSUME Inv, Joined PROVE SweepInv'
<1>1. /\ forget'.pc = "cand" /\ forget'.marked = forget.marked /\ forget'.failed = forget.failed
      /\ forget'.drained = forget.drained
  BY DEF Joined, ForgetStep, Inv, TypeOK
<1> QED
  BY <1>1 DEF Joined, Quarantined, durable, Inv, SweepInv, Sweeping, ForgetStep

\* Every bearer in custody is among those the retirement reads from the store.
LEMMA HeldTargets == ASSUME Inv, NEW b PROVE held \subseteq Targets(b)
<1> SUFFICES ASSUME NEW a \in held PROVE a \in Targets(b)
  OBVIOUS
<1>1. a # None
  BY NoneIsNoAccount DEF Inv, TypeOK
<1>2. vault.addr = a /\ vault.pw = a
  BY DEF Inv, OwnInv, Saved, Of
<1> QED
  BY <1>1, <1>2 DEF Targets

\* The retirement has every bearer in custody in hand.
LEMMA DrainedSweep == ASSUME Inv, Drained PROVE SweepInv'
<1>1. /\ forget'.pc = "sync" /\ forget'.marked = forget.marked /\ forget'.failed = forget.failed
      /\ forget'.drained = forget.drained
  BY DEF Drained, ForgetStep, Inv, TypeOK
<1>2. held \subseteq Targets(forget.bearer)
  BY HeldTargets
<1>3. fin'.pc = "revoke" /\ fin'.targets = Targets(forget.bearer) /\ ~fin'.late
  BY DEF Drained
<1> QED
  BY <1>1, <1>2, <1>3 DEF Drained, durable, Inv, SweepInv, Sweeping

\* So has the late one.
LEMMA LateCaptureSweep == ASSUME Inv, LateCapture PROVE SweepInv'
<1> DEFINE all == UNION {Targets(a) : a \in fin.targets \cup {None}}
<1>1. held \subseteq all
  <2>1. Targets(None) \subseteq all
    OBVIOUS
  <2>2. held \subseteq Targets(None)
    BY HeldTargets
  <2> QED
    BY <2>1, <2>2
<1>2. fin'.pc = "revoke" /\ fin'.targets = all /\ fin'.late = fin.late
  BY DEF LateCapture, Inv, TypeOK
<1> HIDE DEF all
<1> QED
  BY <1>1, <1>2 DEF LateCapture, durable, history, Inv, SweepInv, Sweeping

\* The tombstone is written when no candidate is at work and nothing is being opened.
LEMMA TombstonedVault == ASSUME Inv, Tombstoned PROVE VaultInv'
<1>1. /\ vault'.tomb /\ vault'.sess = vault.sess
      /\ vault'.addr = vault.addr /\ vault'.pw = vault.pw
  BY DEF Tombstoned, Inv, TypeOK
<1>2. cand.pc = "none"
  BY DEF Tombstoned, Inv, SweepInv
<1>3. ~(Asking /\ conn.pc = "opening")
  BY DEF Tombstoned, Inv, FlowInv
<1> QED
  BY <1>1, <1>2, <1>3 DEF Tombstoned, history, Inv, VaultInv, Writing, Asking, Current

\* disconnect() revokes whoever asks, in the turn that starts the run or joins it; whom it
\* makes gone, the marker covers.
LEMMA DisconnectAt ==
  ASSUME Inv, Disconnect
  PROVE  /\ ~conn'.ok /\ conn'.pc = conn.pc /\ kept' = None
         /\ boot' = boot \/ boot'.pc = "join"
         /\ live' = NoSession /\ (hint' => hint /\ live = NoSession)
         /\ (marker => marker') /\ (gone' = gone \/ marker') /\ forget'.pc # "idle"
<1>1. ~conn'.ok /\ conn'.pc = conn.pc /\ kept' = None
  BY DEF Disconnect, PublicForget, Inv, TypeOK
<1>2. boot' = boot \/ boot'.pc = "join"
  BY DEF Disconnect, PublicForget, BootAt
<1>3. CASE forget.pc = "idle"
  BY <1>1, <1>2, <1>3, BeginsAt DEF Disconnect, BeginForget, Inv
<1>4. CASE forget.pc # "idle"
  <2>1. live = NoSession /\ (forget.marked => marker) /\ forget'.pc = forget.pc
    BY <1>4 DEF Disconnect, Inv, FlowInv, SweepInv, TypeOK
  <2> QED
    BY <1>1, <1>2, <1>4, <2>1 DEF Disconnect
<1> QED
  BY <1>3, <1>4

\* A run the gate starts makes no account gone, and the gate waits for it.
LEMMA GateCleansAt ==
  ASSUME Inv, GateCleans, forget.pc = "idle"
  PROVE  /\ conn'.pc = "clean" /\ conn'.acct = conn.acct /\ conn'.ok /\ conn'.clean = conn.clean
         /\ live = NoSession /\ live' = NoSession /\ ~hint' /\ (marker => marker') /\ gone' = gone
<1>1. conn'.pc = "clean" /\ conn'.acct = conn.acct /\ conn'.ok /\ conn'.clean = conn.clean
  BY DEF GateCleans, Inv, TypeOK
<1> QED
  BY <1>1 DEF GateCleans, BeginForget, Inv, FlowInv, Asking

\* disconnect().
LEMMA DisconnectKeeps == ASSUME Inv, Disconnect PROVE Inv'
<1>1. TypeOK'
  BY DisconnectTypes DEF Inv
<1>2. ShapeInv' /\ SweepInv'
  BY DisconnectShape
<1>3. FlowInv'
  BY DisconnectAt DEF Disconnect, Inv, FlowInv, Asking, Reading, Writing
<1>4. VaultInv'
  BY DisconnectAt DEF Disconnect, Inv, VaultInv, Asking, Current, Writing
<1>5. ReadyInv'
  BY DisconnectAt DEF Disconnect, Inv, ReadyInv, Reading, Sound, Kind, Mine
<1>6. OwnInv'
  BY DisconnectAt DEF Disconnect, Inv, OwnInv, Asking, Current, Writing, Mine, Swept, Saved, Of,
     Kind
<1>7. KeptInv'
  BY DisconnectAt DEF Disconnect, Inv, KeptInv, Asking
<1> QED
  BY <1>1, <1>2, <1>3, <1>4, <1>5, <1>6, <1>7 DEF Inv

\* Forget on this phone only.
LEMMA ForgetHereKeeps == ASSUME Inv, ForgetHere PROVE Inv'
<1>1. TypeOK'
  <2>1. VaultTyped' /\ CandTyped' /\ FinTyped'
    BY TypeParts DEF Inv, ForgetHere, BeginForget, PublicForget, VaultTyped, CandTyped, FinTyped
  <2>2. ConnTyped'
    BY TypeParts, Nothing, BeginTypes DEF ForgetHere, PublicForget, ConnTyped, Maybe, Pair,
       ConnPc, CandPc, ForgetPc, FinPc, BootPc, Session, Inv
  <2>3. ForgetTyped'
    BY TypeParts, Nothing, BeginTypes DEF ForgetHere, PublicForget, ForgetTyped, Maybe, Pair,
       ConnPc, CandPc, ForgetPc, FinPc, BootPc, Session, Inv
  <2>4. BootTyped'
    BY TypeParts, Nothing, BeginTypes DEF ForgetHere, PublicForget, BootTyped, Maybe, Pair,
       ConnPc, CandPc, ForgetPc, FinPc, BootPc, Session, Inv
  <2>5. StoreTyped'
    BY TypeParts, Nothing, BeginTypes DEF ForgetHere, PublicForget, StoreTyped, Maybe, Pair,
       ConnPc, CandPc, ForgetPc, FinPc, BootPc, Session, Inv
  <2>6. LiveTyped'
    BY TypeParts, Nothing, BeginTypes DEF ForgetHere, PublicForget, LiveTyped, Maybe, Pair,
       ConnPc, CandPc, ForgetPc, FinPc, BootPc, Session, Inv
  <2> QED
    BY <2>1, <2>2, <2>3, <2>4, <2>5, <2>6, TypeNext
<1>2. ShapeInv'
  BY NoneIsNoAccount DEF Inv, ShapeInv, ForgetHere, PublicForget, BeginForget, BootAt, NoForget,
     Quarantined, Of
<1>3. FlowInv'
  BY NoneIsNoAccount DEF Inv, FlowInv, ForgetHere, PublicForget, BeginForget, BootAt, NoForget,
     Quarantined, Asking, Reading, Writing
<1>4. SweepInv'
  BY NoneIsNoAccount DEF Inv, SweepInv, ForgetHere, BeginForget, BootAt, NoForget, Quarantined,
     Sweeping
<1>5. VaultInv'
  BY NoneIsNoAccount DEF Inv, VaultInv, ForgetHere, PublicForget, BeginForget, BootAt, NoForget,
     Quarantined, Writing, Current, Asking, Saved, Of
<1>6. ReadyInv'
  BY NoneIsNoAccount DEF Inv, ReadyInv, ForgetHere, PublicForget, BeginForget, BootAt, NoForget,
     Quarantined, Sound, Reading, Kind, Mine, TypeOK, Maybe, Pair
<1>7. OwnInv'
  BY NoneIsNoAccount DEF Inv, OwnInv, ForgetHere, PublicForget, BeginForget, BootAt, NoForget,
     Quarantined, Mine, Kind, Saved, Asking, Writing, Current, Swept, Of, TypeOK, Maybe, Pair
<1>8. KeptInv'
  BY NoneIsNoAccount DEF Inv, KeptInv, ForgetHere, PublicForget, BeginForget, BootAt, NoForget,
     Quarantined, Saved, Of, Reading
<1> QED
  BY <1>1, <1>2, <1>3, <1>4, <1>5, <1>6, <1>7, <1>8 DEF Inv

\* connect(): the account asked for is no longer gone.
LEMMA ConnectKeeps == ASSUME Inv, NEW a \in Account, Connect(a) PROVE Inv'
<1>1. TypeOK'
  BY TypeParts, Nothing, TypeNext DEF Inv, Connect, durable, StoreTyped, Maybe, Pair, ConnPc,
     CandPc, ForgetPc, FinPc, BootPc, Session, VaultTyped, LiveTyped, ConnTyped, CandTyped,
     ForgetTyped, FinTyped, BootTyped
<1>2. SweepInv'
  BY DEF Inv, Connect, durable, SweepInv
<1>3. ShapeInv'
  BY NoneIsNoAccount DEF Inv, ShapeInv, Connect, durable, Of
<1>4. FlowInv'
  BY NoneIsNoAccount DEF Inv, FlowInv, Connect, Quarantined, durable, Asking, Reading, Writing,
     SweepInv, Sweeping
<1>5. VaultInv'
  BY NoneIsNoAccount DEF Inv, VaultInv, Connect, durable, Writing, Current, Asking, Saved, Of
<1>6. ReadyInv'
  BY NoneIsNoAccount DEF Inv, ReadyInv, Connect, durable, Sound, Reading, Kind, Mine
<1>7. OwnInv'
  BY NoneIsNoAccount DEF Inv, OwnInv, Connect, durable, Mine, Kind, Saved, Asking, Writing,
     Current, Swept, Of
<1>8. KeptInv'
  BY NoneIsNoAccount DEF Inv, KeptInv, Connect, durable, Saved, Of, Reading
<1> QED
  BY <1>1, <1>2, <1>3, <1>4, <1>5, <1>6, <1>7, <1>8 DEF Inv

\* The gate starts a run of its own, and waits for it.
LEMMA GateCleansKeeps == ASSUME Inv, GateCleans PROVE Inv'
<1>1. TypeOK'
  <2>1. ConnTyped'
    BY TypeParts, Nothing, BeginTypes DEF GateCleans, ConnTyped, Maybe, Pair, ConnPc, CandPc,
       ForgetPc, FinPc, BootPc, Session, Inv
  <2>2. CandTyped'
    BY TypeParts, Nothing, BeginTypes DEF GateCleans, CandTyped, Maybe, Pair, ConnPc, CandPc,
       ForgetPc, FinPc, BootPc, Session, Inv
  <2>3. ForgetTyped'
    BY TypeParts, Nothing, BeginTypes DEF GateCleans, ForgetTyped, Maybe, Pair, ConnPc, CandPc,
       ForgetPc, FinPc, BootPc, Session, Inv
  <2>4. FinTyped'
    BY TypeParts, Nothing, BeginTypes DEF GateCleans, FinTyped, Maybe, Pair, ConnPc, CandPc,
       ForgetPc, FinPc, BootPc, Session, Inv
  <2>5. BootTyped'
    BY TypeParts, Nothing, BeginTypes DEF GateCleans, BootTyped, Maybe, Pair, ConnPc, CandPc,
       ForgetPc, FinPc, BootPc, Session, Inv
  <2>6. VaultTyped'
    BY TypeParts, Nothing, BeginTypes DEF GateCleans, VaultTyped, Maybe, Pair, ConnPc, CandPc,
       ForgetPc, FinPc, BootPc, Session, Inv
  <2>7. StoreTyped'
    BY TypeParts, Nothing, BeginTypes DEF GateCleans, StoreTyped, Maybe, Pair, ConnPc, CandPc,
       ForgetPc, FinPc, BootPc, Session, Inv
  <2>8. LiveTyped'
    BY TypeParts, Nothing, BeginTypes DEF GateCleans, LiveTyped, Maybe, Pair, ConnPc, CandPc,
       ForgetPc, FinPc, BootPc, Session, Inv
  <2> QED
    BY <2>1, <2>2, <2>3, <2>4, <2>5, <2>6, <2>7, <2>8, TypeNext
<1>2. ShapeInv' /\ SweepInv'
  BY GateCleansShape
<1>3. FlowInv'
  <2>1. CASE forget.pc = "idle"
    BY <2>1, GateCleansAt DEF GateCleans, Inv, FlowInv, Asking, Reading, Writing
  <2>2. CASE forget.pc # "idle"
    BY <2>2 DEF GateCleans, Inv, FlowInv, Asking, Reading, Writing
  <2> QED
    BY <2>1, <2>2
<1>4. VaultInv'
  <2>1. CASE forget.pc = "idle"
    BY <2>1, GateCleansAt DEF GateCleans, Inv, VaultInv, Asking, Current, Writing
  <2>2. CASE forget.pc # "idle"
    BY <2>2 DEF GateCleans, Inv, VaultInv, Asking, Current, Of, Saved, Writing
  <2> QED
    BY <2>1, <2>2
<1>5. ReadyInv'
  <2>1. CASE forget.pc = "idle"
    BY <2>1, GateCleansAt DEF GateCleans, Inv, ReadyInv, Reading, Sound, Kind, Mine
  <2>2. CASE forget.pc # "idle"
    BY <2>2 DEF GateCleans, Inv, ReadyInv, Kind, Mine, Reading, Sound
  <2> QED
    BY <2>1, <2>2
<1>6. OwnInv'
  <2>1. CASE forget.pc = "idle"
    BY <2>1, GateCleansAt DEF GateCleans, Inv, OwnInv, Asking, Current, Writing, Mine, Swept,
       Saved, Of, Kind
  <2>2. CASE forget.pc # "idle"
    BY <2>2 DEF GateCleans, Inv, OwnInv, Asking, Current, Kind, Mine, Of, Saved, Swept, Writing
  <2> QED
    BY <2>1, <2>2
<1>7. KeptInv'
  <2>1. CASE forget.pc = "idle"
    BY <2>1, GateCleansAt DEF GateCleans, Inv, KeptInv, Asking
  <2>2. CASE forget.pc # "idle"
    BY <2>2 DEF GateCleans, Inv, KeptInv, Of, Reading, Saved
  <2> QED
    BY <2>1, <2>2
<1> QED
  BY <1>1, <1>2, <1>3, <1>4, <1>5, <1>6, <1>7 DEF Inv

\* The gate passes.
LEMMA GatePassesKeeps == ASSUME Inv, GatePasses PROVE Inv'
<1>1. TypeOK'
  BY GatePassesTypes DEF Inv
<1>2. ShapeInv' /\ VaultInv' /\ OwnInv'
  BY GatePassesShape
<1>3. ReadyInv'
  BY DEF Inv, GatePasses, durable, history, ReadyInv, Sound, Kind, Mine
<1>4. FlowInv'
  BY NoneIsNoAccount DEF Inv, FlowInv, GatePasses, Saved, Of, NoCand, durable, history, Asking,
     NoSession, Reading, Writing
<1>5. SweepInv'
  BY NoneIsNoAccount DEF Inv, SweepInv, GatePasses, Saved, Of, NoCand, durable, history,
     Sweeping, NoSession, FlowInv, Asking, Reading, Writing
<1>6. KeptInv'
  BY NoneIsNoAccount DEF Inv, KeptInv, GatePasses, Saved, Of, NoCand, durable, history,
     NoSession, Reading
<1> QED
  BY <1>1, <1>2, <1>3, <1>4, <1>5, <1>6 DEF Inv

\* connect() gives up, and leaves the candidate behind.
LEMMA ConnectGivesUpKeeps == ASSUME Inv, NEW pc \in ConnectPhases, ConnectGivesUp(pc) PROVE Inv'
<1>1. TypeOK'
  BY TypeParts, Nothing, TypeNext DEF Inv, ConnectGivesUp, durable, history, StoreTyped, Maybe,
     Pair, ConnPc, CandPc, ForgetPc, FinPc, BootPc, Session, VaultTyped, LiveTyped, ConnTyped,
     CandTyped, ForgetTyped, FinTyped, BootTyped
<1>2. SweepInv' /\ ReadyInv'
  BY DEF Inv, ConnectGivesUp, durable, history, SweepInv, ReadyInv, Sound, Kind, Mine
<1>3. ShapeInv'
  BY NoneIsNoAccount DEF Inv, ShapeInv, ConnectGivesUp, NoConn, history, ConnectPhases,
     NoSession, Of
<1>4. FlowInv'
  BY NoneIsNoAccount DEF Inv, FlowInv, ConnectGivesUp, NoConn, history, ConnectPhases, Asking,
     NoSession, Reading, Writing
<1>5. VaultInv'
  BY NoneIsNoAccount DEF Inv, VaultInv, ConnectGivesUp, NoConn, durable, history, ConnectPhases,
     Writing, Current, Asking, Saved, Of
<1>6. OwnInv'
  BY NoneIsNoAccount DEF Inv, OwnInv, ConnectGivesUp, NoConn, durable, history, ConnectPhases,
     NoSession, Mine, Kind, Saved, Asking, Writing, Current, Swept, Of
<1>7. KeptInv'
  BY NoneIsNoAccount DEF Inv, KeptInv, ConnectGivesUp, history, ConnectPhases, Saved, Of,
     NoSession, Reading
<1> QED
  BY <1>1, <1>2, <1>3, <1>4, <1>5, <1>6, <1>7 DEF Inv

\* connect() publishes the pair its candidate wrote.
LEMMA ConnectPublishesKeeps == ASSUME Inv, ConnectPublishes PROVE Inv'
<1>1. TypeOK'
  BY TypeParts, Nothing, OfTyped, TypeNext DEF Inv, ConnectPublishes, durable, StoreTyped,
     Maybe, Pair, ConnPc, CandPc, ForgetPc, FinPc, BootPc, Session, VaultTyped, LiveTyped,
     ConnTyped, CandTyped, ForgetTyped, FinTyped, BootTyped, ShapeInv
<1>2. ShapeInv'
  BY NoneIsNoAccount DEF Inv, ShapeInv, ConnectPublishes, NoConn, durable, NoSession
<1>3. FlowInv'
  BY NoneIsNoAccount DEF Inv, FlowInv, ConnectPublishes, NoConn, durable, Asking, NoSession,
     Reading, Writing, VaultInv, Current, Saved
<1>4. SweepInv'
  BY NoneIsNoAccount DEF Inv, SweepInv, ConnectPublishes, durable, Sweeping, NoSession, FlowInv,
     Asking, Reading, Writing
<1>5. VaultInv'
  BY NoneIsNoAccount DEF Inv, VaultInv, ConnectPublishes, NoConn, durable, Writing, Current,
     Asking, Saved
<1>6. ReadyInv'
  BY NoneIsNoAccount DEF Inv, ReadyInv, ConnectPublishes, Of, durable, Sound, Reading, Kind,
     Mine, Asking, Writing, VaultInv, Current, Saved
<1>7. OwnInv'
  BY NoneIsNoAccount DEF Inv, OwnInv, ConnectPublishes, Of, NoConn, durable, NoSession, Mine,
     Kind, Saved, Asking, Writing, Current, Swept, ShapeInv, VaultInv
<1>8. KeptInv'
  BY NoneIsNoAccount DEF Inv, KeptInv, ConnectPublishes, Of, NoConn, durable, Saved, NoSession,
     Reading, ShapeInv, FlowInv, Asking, Writing, VaultInv, Current
<1> QED
  BY <1>1, <1>2, <1>3, <1>4, <1>5, <1>6, <1>7, <1>8 DEF Inv

\* The candidate fails.
LEMMA CandidateFailsKeeps == ASSUME Inv, CandidateFails PROVE Inv'
<1>1. TypeOK'
  BY TypeParts, Nothing, StopTypes, TypeNext DEF Inv, CandidateFails, durable, history,
     StoreTyped, Maybe, Pair, ConnPc, CandPc, ForgetPc, FinPc, BootPc, Session, VaultTyped,
     LiveTyped, ConnTyped, CandTyped, ForgetTyped, FinTyped, BootTyped
<1>2. ReadyInv'
  BY DEF Inv, CandidateFails, durable, history, ReadyInv, Sound, Kind, Mine
<1>3. ShapeInv'
  BY NoneIsNoAccount DEF Inv, ShapeInv, CandidateFails, CandidateStops, history, NoCand, NoConn,
     NoSession, Of
<1>4. FlowInv'
  BY NoneIsNoAccount DEF Inv, FlowInv, CandidateFails, CandidateStops, history, NoCand, NoConn,
     Asking, NoSession, Reading, Writing
<1>5. SweepInv'
  BY NoneIsNoAccount DEF Inv, SweepInv, CandidateFails, durable, history, NoCand, NoConn,
     Sweeping
<1>6. VaultInv'
  BY NoneIsNoAccount DEF Inv, VaultInv, CandidateFails, CandidateStops, durable, history,
     NoCand, NoConn, Writing, Current, Asking, Saved, Of
<1>7. OwnInv'
  BY NoneIsNoAccount DEF Inv, OwnInv, CandidateFails, CandidateStops, durable, history, NoCand,
     NoConn, NoSession, Mine, Kind, Saved, Asking, Writing, Current, Swept, Of
<1>8. KeptInv'
  BY NoneIsNoAccount DEF Inv, KeptInv, CandidateFails, history, NoCand, NoConn, Saved, Of,
     NoSession, Reading
<1> QED
  BY <1>1, <1>2, <1>3, <1>4, <1>5, <1>6, <1>7, <1>8 DEF Inv

\* The server's answer.
LEMMA CandidateCheckedKeeps == ASSUME Inv, CandidateChecked PROVE Inv'
<1>1. TypeOK'
  BY CandidateCheckedTypes DEF Inv
<1>2. ShapeInv' /\ VaultInv' /\ OwnInv'
  BY CandidateCheckedShape
<1>3. ReadyInv'
  BY DEF Inv, CandidateChecked, durable, history, ReadyInv, Sound, Kind, Mine
<1>4. FlowInv'
  BY NoneIsNoAccount DEF Inv, FlowInv, CandidateChecked, Current, CandidateStops, durable,
     history, NoCand, NoConn, Asking, NoSession, Reading, Writing
<1>5. SweepInv'
  BY NoneIsNoAccount DEF Inv, SweepInv, CandidateChecked, durable, history, NoCand, NoConn,
     Sweeping
<1>6. KeptInv'
  BY NoneIsNoAccount DEF Inv, KeptInv, CandidateChecked, durable, history, NoCand, NoConn,
     Saved, Of, NoSession, Reading
<1> QED
  BY <1>1, <1>2, <1>3, <1>4, <1>5, <1>6 DEF Inv

\* The store is claimed: from here no start takes the pair for a session.
LEMMA WroteWritingKeeps == ASSUME Inv, WroteWriting PROVE Inv'
<1>1. TypeOK'
  BY TypeParts, Nothing, GoOnTypes, TypeNext DEF Inv, WroteWriting, history, StoreTyped, Maybe,
     Pair, ConnPc, CandPc, ForgetPc, FinPc, BootPc, Session, VaultTyped, LiveTyped, ConnTyped,
     CandTyped, ForgetTyped, FinTyped, BootTyped
<1>2. ShapeInv'
  BY NoneIsNoAccount DEF Inv, ShapeInv, WroteWriting, GoOn, Current, CandidateStops, NoCand,
     NoConn, NoSession, Of, TypeOK, Maybe, Pair
<1>3. FlowInv'
  BY NoneIsNoAccount DEF Inv, FlowInv, WroteWriting, GoOn, Current, CandidateStops, NoCand,
     NoConn, Asking, NoSession, Reading, Writing
<1>4. SweepInv'
  BY NoneIsNoAccount DEF Inv, SweepInv, WroteWriting, Current, CandidateStops, NoCand, NoConn,
     Sweeping
<1>5. VaultInv'
  BY NoneIsNoAccount DEF Inv, VaultInv, WroteWriting, GoOn, Current, CandidateStops, NoCand,
     NoConn, Writing, Asking, Saved, Of, NoSession, TypeOK, Maybe, Pair, ShapeInv
<1>6. ReadyInv'
  BY NoneIsNoAccount DEF Inv, ReadyInv, WroteWriting, history, Current, CandidateStops, NoCand,
     NoConn, Sound, Reading, Kind, Mine
<1>7. OwnInv'
  BY NoneIsNoAccount DEF Inv, OwnInv, WroteWriting, GoOn, history, Current, CandidateStops,
     NoCand, NoConn, NoSession, Mine, Kind, Saved, Asking, Writing, Swept, Of, TypeOK, Maybe,
     Pair, ShapeInv
<1>8. KeptInv'
  BY NoneIsNoAccount DEF Inv, KeptInv, WroteWriting, history, Current, CandidateStops, NoCand,
     NoConn, Saved, Of, NoSession, Reading
<1> QED
  BY <1>1, <1>2, <1>3, <1>4, <1>5, <1>6, <1>7, <1>8 DEF Inv

\* The journal is read again.
LEMMA RereadJournalKeeps == ASSUME Inv, RereadJournal PROVE Inv'
<1>1. TypeOK'
  BY TypeParts, Nothing, TypeNext DEF Inv, RereadJournal, durable, history, StoreTyped, Maybe,
     Pair, ConnPc, CandPc, ForgetPc, FinPc, BootPc, Session, VaultTyped, LiveTyped, ConnTyped,
     CandTyped, ForgetTyped, FinTyped, BootTyped
<1>2. ReadyInv'
  BY DEF Inv, RereadJournal, durable, history, ReadyInv, Sound, Kind, Mine
<1>3. ShapeInv'
  BY NoneIsNoAccount DEF Inv, ShapeInv, RereadJournal, NoSession, Of
<1>4. FlowInv'
  BY NoneIsNoAccount DEF Inv, FlowInv, RereadJournal, Asking, NoSession, Reading, Writing
<1>5. SweepInv'
  BY NoneIsNoAccount DEF Inv, SweepInv, RereadJournal, durable, Sweeping
<1>6. VaultInv'
  BY NoneIsNoAccount DEF Inv, VaultInv, RereadJournal, durable, Writing, Current, Asking, Saved,
     Of
<1>7. OwnInv'
  BY NoneIsNoAccount DEF Inv, OwnInv, RereadJournal, durable, history, NoSession, Mine, Kind,
     Saved, Asking, Writing, Current, Swept, Of
<1>8. KeptInv'
  BY NoneIsNoAccount DEF Inv, KeptInv, RereadJournal, history, Saved, Of, NoSession, Reading
<1> QED
  BY <1>1, <1>2, <1>3, <1>4, <1>5, <1>6, <1>7, <1>8 DEF Inv

\* The address.
LEMMA WroteAddressKeeps == ASSUME Inv, WroteAddress PROVE Inv'
<1>1. TypeOK'
  BY TypeParts, Nothing, GoOnTypes, TypeNext DEF Inv, WroteAddress, history, StoreTyped, Maybe,
     Pair, ConnPc, CandPc, ForgetPc, FinPc, BootPc, Session, VaultTyped, LiveTyped, ConnTyped,
     CandTyped, ForgetTyped, FinTyped, BootTyped, ShapeInv
<1>2. ShapeInv'
  BY NoneIsNoAccount DEF Inv, ShapeInv, WroteAddress, GoOn, Current, CandidateStops, NoCand,
     NoConn, NoSession, Of, TypeOK, Maybe, Pair
<1>3. FlowInv'
  BY NoneIsNoAccount DEF Inv, FlowInv, WroteAddress, GoOn, Current, CandidateStops, NoCand,
     NoConn, Asking, NoSession, Reading, Writing
<1>4. SweepInv'
  BY NoneIsNoAccount DEF Inv, SweepInv, WroteAddress, Current, CandidateStops, NoCand, NoConn,
     Sweeping
<1>5. VaultInv'
  BY NoneIsNoAccount DEF Inv, VaultInv, WroteAddress, GoOn, Current, CandidateStops, NoCand,
     NoConn, Writing, Asking, Saved, Of, TypeOK, Maybe, Pair
<1>6. ReadyInv'
  BY NoneIsNoAccount DEF Inv, ReadyInv, WroteAddress, Current, CandidateStops, NoCand, NoConn,
     Sound, Reading, Kind, Mine, NoSession, Of, FlowInv, Asking, Writing, VaultInv, Saved
<1>7. OwnInv'
  BY NoneIsNoAccount DEF Inv, OwnInv, WroteAddress, GoOn, history, Current, CandidateStops,
     NoCand, NoConn, NoSession, Mine, Kind, Saved, Asking, Writing, Swept, Of, TypeOK, Maybe,
     Pair, VaultInv
<1>8. KeptInv'
  BY NoneIsNoAccount DEF Inv, KeptInv, WroteAddress, history, Current, CandidateStops, NoCand,
     NoConn, Saved, Of, NoSession, Reading
<1> QED
  BY <1>1, <1>2, <1>3, <1>4, <1>5, <1>6, <1>7, <1>8 DEF Inv

\* The password.
LEMMA WrotePasswordKeeps == ASSUME Inv, WrotePassword PROVE Inv'
<1>1. TypeOK'
  BY TypeParts, Nothing, GoOnTypes, TypeNext DEF Inv, WrotePassword, history, StoreTyped, Maybe,
     Pair, ConnPc, CandPc, ForgetPc, FinPc, BootPc, Session, VaultTyped, LiveTyped, ConnTyped,
     CandTyped, ForgetTyped, FinTyped, BootTyped, ShapeInv
<1>2. ShapeInv'
  BY NoneIsNoAccount DEF Inv, ShapeInv, WrotePassword, GoOn, Current, CandidateStops, NoCand,
     NoConn, NoSession, Of, TypeOK, Maybe, Pair
<1>3. FlowInv'
  BY NoneIsNoAccount DEF Inv, FlowInv, WrotePassword, GoOn, Current, CandidateStops, NoCand,
     NoConn, Asking, NoSession, Reading, Writing
<1>4. SweepInv'
  BY NoneIsNoAccount DEF Inv, SweepInv, WrotePassword, Current, CandidateStops, NoCand, NoConn,
     Sweeping
<1>5. VaultInv'
  BY NoneIsNoAccount DEF Inv, VaultInv, WrotePassword, GoOn, Current, CandidateStops, NoCand,
     NoConn, Writing, Asking, Saved, Of, TypeOK, Maybe, Pair
<1>6. ReadyInv'
  BY NoneIsNoAccount DEF Inv, ReadyInv, WrotePassword, history, Current, CandidateStops, NoCand,
     NoConn, Sound, Reading, Kind, Mine, NoSession, Of, Asking, Writing, VaultInv, Saved,
     OwnInv, Swept
<1>7. OwnInv'
  BY NoneIsNoAccount DEF Inv, OwnInv, WrotePassword, GoOn, history, Current, CandidateStops,
     NoCand, NoConn, NoSession, Mine, Kind, Saved, Asking, Writing, Swept, Of, TypeOK, Maybe,
     Pair, VaultInv
<1>8. KeptInv'
  BY NoneIsNoAccount DEF Inv, KeptInv, WrotePassword, history, Current, CandidateStops, NoCand,
     NoConn, Saved, Of, NoSession, Reading
<1> QED
  BY <1>1, <1>2, <1>3, <1>4, <1>5, <1>6, <1>7, <1>8 DEF Inv

\* The tombstone.
LEMMA DroppedTombstoneKeeps == ASSUME Inv, DroppedTombstone PROVE Inv'
<1>1. TypeOK'
  <2>1. StoreTyped' /\ LiveTyped' /\ ForgetTyped' /\ FinTyped' /\ BootTyped'
    BY TypeParts DEF Inv, DroppedTombstone, CandidateStops, GoOn, history, StoreTyped,
       LiveTyped, ForgetTyped, FinTyped, BootTyped
  <2>2. ConnTyped'
    BY TypeParts, Nothing, GoOnTypes DEF DroppedTombstone, history, ConnTyped, Maybe, Pair,
       ConnPc, CandPc, ForgetPc, FinPc, BootPc, Session, Inv
  <2>3. CandTyped'
    BY TypeParts, Nothing, GoOnTypes DEF DroppedTombstone, history, CandTyped, Maybe, Pair,
       ConnPc, CandPc, ForgetPc, FinPc, BootPc, Session, Inv
  <2>4. VaultTyped'
    BY TypeParts, Nothing, GoOnTypes DEF DroppedTombstone, history, VaultTyped, Maybe, Pair,
       ConnPc, CandPc, ForgetPc, FinPc, BootPc, Session, Inv
  <2> QED
    BY <2>1, <2>2, <2>3, <2>4, TypeNext
<1>2. VaultInv'
  BY DroppedTombstoneVault
<1>3. ShapeInv'
  BY NoneIsNoAccount DEF Inv, ShapeInv, DroppedTombstone, GoOn, Current, CandidateStops, NoCand,
     NoConn, NoSession, Of, TypeOK, Maybe, Pair
<1>4. FlowInv'
  BY NoneIsNoAccount DEF Inv, FlowInv, DroppedTombstone, GoOn, Current, CandidateStops, NoCand,
     NoConn, Asking, NoSession, Reading, Writing
<1>5. SweepInv'
  BY NoneIsNoAccount DEF Inv, SweepInv, DroppedTombstone, Current, CandidateStops, NoCand,
     NoConn, Sweeping
<1>6. ReadyInv'
  BY NoneIsNoAccount DEF Inv, ReadyInv, DroppedTombstone, history, Current, CandidateStops,
     NoCand, NoConn, Sound, Reading, Kind, Mine, NoSession, Of, Asking, Writing, VaultInv,
     Saved, OwnInv, Swept
<1>7. OwnInv'
  BY NoneIsNoAccount DEF Inv, OwnInv, DroppedTombstone, GoOn, history, Current, CandidateStops,
     NoCand, NoConn, NoSession, Mine, Kind, Saved, Asking, Writing, Swept, Of, TypeOK, Maybe,
     Pair, VaultInv
<1>8. KeptInv'
  BY NoneIsNoAccount DEF Inv, KeptInv, DroppedTombstone, history, Current, CandidateStops,
     NoCand, NoConn, Saved, Of, NoSession, Reading
<1> QED
  BY <1>1, <1>2, <1>3, <1>4, <1>5, <1>6, <1>7, <1>8 DEF Inv

\* The session is active, and the marker goes with it.
LEMMA WroteActiveKeeps == ASSUME Inv, WroteActive PROVE Inv'
<1>1. TypeOK'
  <2>1. LiveTyped' /\ ForgetTyped' /\ FinTyped' /\ BootTyped'
    BY TypeParts DEF Inv, WroteActive, CandidateStops, history, LiveTyped, ForgetTyped,
       FinTyped, BootTyped
  <2>2. ConnTyped'
    BY TypeParts, Nothing, StopTypes DEF WroteActive, history, ConnTyped, Maybe, Pair, ConnPc,
       CandPc, ForgetPc, FinPc, BootPc, Session, Inv
  <2>3. CandTyped'
    BY TypeParts, Nothing, StopTypes DEF WroteActive, history, CandTyped, Maybe, Pair, ConnPc,
       CandPc, ForgetPc, FinPc, BootPc, Session, Inv
  <2>4. VaultTyped'
    BY TypeParts, Nothing, StopTypes DEF WroteActive, history, VaultTyped, Maybe, Pair, ConnPc,
       CandPc, ForgetPc, FinPc, BootPc, Session, Inv
  <2>5. StoreTyped'
    BY TypeParts, Nothing, StopTypes DEF WroteActive, history, StoreTyped, Maybe, Pair, ConnPc,
       CandPc, ForgetPc, FinPc, BootPc, Session, Inv
  <2> QED
    BY <2>1, <2>2, <2>3, <2>4, <2>5, TypeNext
<1>2. ShapeInv'
  BY NoneIsNoAccount DEF Inv, ShapeInv, WroteActive, Current, NoCand, CandidateStops, history,
     NoConn, NoSession, Of, TypeOK, Maybe, Pair
<1>3. FlowInv'
  BY NoneIsNoAccount DEF Inv, FlowInv, WroteActive, Current, CandidateStops, history, NoConn,
     Asking, NoSession, Reading, Writing
<1>4. SweepInv'
  BY NoneIsNoAccount DEF Inv, SweepInv, WroteActive, Current, CandidateStops, history, NoConn,
     Sweeping, NoSession, ShapeInv, Of, FlowInv, Asking, Reading, Writing
<1>5. VaultInv'
  BY NoneIsNoAccount DEF Inv, VaultInv, WroteActive, Current, NoCand, CandidateStops, history,
     NoConn, Writing, Asking, Saved, Of, NoSession, TypeOK, Maybe, Pair, ShapeInv
<1>6. ReadyInv'
  BY NoneIsNoAccount DEF Inv, ReadyInv, WroteActive, Current, CandidateStops, history, NoConn,
     Sound, Reading, Kind, Mine, NoSession, ShapeInv, Of, Asking, Writing, VaultInv, Saved,
     OwnInv, Swept
<1>7. OwnInv'
  BY NoneIsNoAccount DEF Inv, OwnInv, WroteActive, Current, NoCand, CandidateStops, history,
     NoConn, NoSession, Mine, Kind, Saved, Asking, Writing, Swept, Of, TypeOK, Maybe, Pair,
     FlowInv, Reading
<1>8. KeptInv'
  BY NoneIsNoAccount DEF Inv, KeptInv, WroteActive, CandidateStops, history, NoConn, Saved, Of,
     NoSession, Reading
<1> QED
  BY <1>1, <1>2, <1>3, <1>4, <1>5, <1>6, <1>7, <1>8 DEF Inv

\* The earlier run's late work has settled.
LEMMA JoinedKeeps == ASSUME Inv, Joined PROVE Inv'
<1>1. TypeOK'
  <2>1. /\ StoreTyped' /\ VaultTyped' /\ LiveTyped' /\ ConnTyped' /\ CandTyped' /\ FinTyped'
        /\ BootTyped'
    BY TypeParts DEF Inv, Joined, ForgetStep, durable, StoreTyped, VaultTyped, LiveTyped,
       ConnTyped, CandTyped, FinTyped, BootTyped
  <2>2. ForgetTyped'
    BY TypeParts, Nothing, StepTypes DEF Joined, durable, ForgetTyped, Maybe, Pair, ConnPc,
       CandPc, ForgetPc, FinPc, BootPc, Session, Inv
  <2> QED
    BY <2>1, <2>2, TypeNext
<1>2. SweepInv'
  BY JoinedSweep
<1>3. VaultInv' /\ ReadyInv' /\ OwnInv'
  BY DEF Inv, Joined, durable, VaultInv, Current, Asking, Saved, ReadyInv, Sound, Kind, Mine,
     OwnInv, Swept, ForgetStep
<1>4. ShapeInv'
  BY NoneIsNoAccount DEF Inv, ShapeInv, Joined, ForgetStep, durable, NoSession, Of
<1>5. FlowInv'
  BY NoneIsNoAccount DEF Inv, FlowInv, Joined, ForgetStep, durable, Asking, NoSession, Reading,
     Writing
<1>6. KeptInv'
  BY NoneIsNoAccount DEF Inv, KeptInv, Joined, durable, Saved, Of, NoSession, Reading
<1> QED
  BY <1>1, <1>2, <1>3, <1>4, <1>5, <1>6 DEF Inv

\* It has not, in time.
LEMMA JoinDeadlineKeeps == ASSUME Inv, JoinDeadline PROVE Inv'
<1>1. TypeOK'
  <2>1. VaultTyped' /\ LiveTyped' /\ CandTyped' /\ FinTyped'
    BY TypeParts DEF Inv, JoinDeadline, ForgetEnds, durable, VaultTyped, LiveTyped, CandTyped,
       FinTyped
  <2>2. ConnTyped'
    BY TypeParts, Nothing, EndTypes DEF JoinDeadline, durable, ConnTyped, Maybe, Pair, ConnPc,
       CandPc, ForgetPc, FinPc, BootPc, Session, Inv
  <2>3. ForgetTyped'
    BY TypeParts, Nothing, EndTypes DEF JoinDeadline, durable, ForgetTyped, Maybe, Pair, ConnPc,
       CandPc, ForgetPc, FinPc, BootPc, Session, Inv
  <2>4. BootTyped'
    BY TypeParts, Nothing, EndTypes DEF JoinDeadline, durable, BootTyped, Maybe, Pair, ConnPc,
       CandPc, ForgetPc, FinPc, BootPc, Session, Inv
  <2>5. StoreTyped'
    BY TypeParts, Nothing, EndTypes DEF JoinDeadline, durable, StoreTyped, Maybe, Pair, ConnPc,
       CandPc, ForgetPc, FinPc, BootPc, Session, Inv
  <2> QED
    BY <2>1, <2>2, <2>3, <2>4, <2>5, TypeNext
<1>2. ShapeInv'
  BY NoneIsNoAccount DEF Inv, ShapeInv, JoinDeadline, ForgetEnds, NoForget, NoConn, BootAt,
     NoSession, Of
<1>3. FlowInv'
  BY NoneIsNoAccount DEF Inv, FlowInv, JoinDeadline, ForgetEnds, NoForget, NoConn, BootAt,
     NoSession, Asking, Reading, Writing
<1>4. SweepInv'
  BY NoneIsNoAccount DEF Inv, SweepInv, JoinDeadline, ForgetEnds, durable, NoForget, NoConn,
     BootAt, NoSession, Sweeping
<1>5. VaultInv'
  BY NoneIsNoAccount DEF Inv, VaultInv, JoinDeadline, ForgetEnds, durable, NoForget, NoConn,
     BootAt, NoSession, Writing, Current, Asking, Saved, Of
<1>6. ReadyInv'
  BY NoneIsNoAccount DEF Inv, ReadyInv, JoinDeadline, ForgetEnds, durable, NoForget, NoConn,
     BootAt, NoSession, Sound, Reading, Kind, Mine
<1>7. OwnInv'
  BY NoneIsNoAccount DEF Inv, OwnInv, JoinDeadline, ForgetEnds, durable, NoForget, NoConn,
     BootAt, NoSession, Mine, Kind, Saved, Asking, Writing, Current, Swept, Of, TypeOK, Maybe,
     Pair
<1>8. KeptInv'
  BY NoneIsNoAccount DEF Inv, KeptInv, JoinDeadline, NoForget, NoConn, BootAt, NoSession, Saved,
     Of, Reading
<1> QED
  BY <1>1, <1>2, <1>3, <1>4, <1>5, <1>6, <1>7, <1>8 DEF Inv

\* The candidate is idle.
LEMMA CandidateDrainedKeeps == ASSUME Inv, CandidateDrained PROVE Inv'
<1>1. TypeOK'
  <2>1. /\ StoreTyped' /\ VaultTyped' /\ LiveTyped' /\ ConnTyped' /\ CandTyped' /\ FinTyped'
        /\ BootTyped'
    BY TypeParts DEF Inv, CandidateDrained, ForgetStep, durable, StoreTyped, VaultTyped,
       LiveTyped, ConnTyped, CandTyped, FinTyped, BootTyped
  <2>2. ForgetTyped'
    BY TypeParts, Nothing, StepTypes DEF CandidateDrained, durable, ForgetTyped, Maybe, Pair,
       ConnPc, CandPc, ForgetPc, FinPc, BootPc, Session, Inv
  <2> QED
    BY <2>1, <2>2, TypeNext
<1>2. VaultInv' /\ ReadyInv' /\ OwnInv'
  BY DEF Inv, CandidateDrained, durable, VaultInv, Current, Asking, Saved, ReadyInv, Sound,
     Kind, Mine, OwnInv, Swept, ForgetStep
<1>3. ShapeInv'
  BY NoneIsNoAccount DEF Inv, ShapeInv, CandidateDrained, ForgetStep, NoSession, Of
<1>4. FlowInv'
  BY NoneIsNoAccount DEF Inv, FlowInv, CandidateDrained, ForgetStep, Asking, NoSession, Reading,
     Writing
<1>5. SweepInv'
  BY NoneIsNoAccount DEF Inv, SweepInv, CandidateDrained, ForgetStep, durable, Sweeping, TypeOK,
     Maybe, Pair
<1>6. KeptInv'
  BY NoneIsNoAccount DEF Inv, KeptInv, CandidateDrained, Saved, Of, NoSession, Reading
<1> QED
  BY <1>1, <1>2, <1>3, <1>4, <1>5, <1>6 DEF Inv

\* It is not, in time.
LEMMA CandidateDeadlineKeeps == ASSUME Inv, CandidateDeadline PROVE Inv'
<1>1. TypeOK'
  <2>1. /\ StoreTyped' /\ VaultTyped' /\ LiveTyped' /\ ConnTyped' /\ CandTyped' /\ FinTyped'
        /\ BootTyped'
    BY TypeParts DEF Inv, CandidateDeadline, durable, history, StoreTyped, VaultTyped,
       LiveTyped, ConnTyped, CandTyped, FinTyped, BootTyped
  <2>2. ForgetTyped'
    BY TypeParts, Nothing DEF CandidateDeadline, durable, history, ForgetTyped, Maybe, Pair,
       ConnPc, CandPc, ForgetPc, FinPc, BootPc, Session, Inv
  <2> QED
    BY <2>1, <2>2, TypeNext
<1>2. VaultInv' /\ ReadyInv' /\ OwnInv'
  BY DEF Inv, CandidateDeadline, durable, history, VaultInv, Current, Asking, Saved, ReadyInv,
     Sound, Kind, Mine, OwnInv, Swept
<1>3. ShapeInv'
  BY NoneIsNoAccount DEF Inv, ShapeInv, CandidateDeadline, NoSession, Of
<1>4. FlowInv'
  BY NoneIsNoAccount DEF Inv, FlowInv, CandidateDeadline, Asking, NoSession, Reading, Writing
<1>5. SweepInv'
  BY NoneIsNoAccount DEF Inv, SweepInv, CandidateDeadline, durable, Sweeping
<1>6. KeptInv'
  BY NoneIsNoAccount DEF Inv, KeptInv, CandidateDeadline, history, Saved, Of, NoSession, Reading
<1> QED
  BY <1>1, <1>2, <1>3, <1>4, <1>5, <1>6 DEF Inv

\* The durable gate, or none.
LEMMA MarkedKeeps == ASSUME Inv, Marked PROVE Inv'
<1>1. TypeOK'
  <2>1. StoreTyped' /\ LiveTyped' /\ ConnTyped' /\ CandTyped' /\ FinTyped' /\ BootTyped'
    BY TypeParts DEF Inv, Marked, ForgetStep, StoreTyped, LiveTyped, ConnTyped, CandTyped,
       FinTyped, BootTyped
  <2>2. ForgetTyped'
    BY TypeParts, Nothing, StepTypes DEF Marked, ForgetTyped, Maybe, Pair, ConnPc, CandPc,
       ForgetPc, FinPc, BootPc, Session, Inv
  <2>3. VaultTyped'
    BY TypeParts, Nothing, StepTypes DEF Marked, VaultTyped, Maybe, Pair, ConnPc, CandPc,
       ForgetPc, FinPc, BootPc, Session, Inv
  <2> QED
    BY <2>1, <2>2, <2>3, TypeNext
<1>2. ShapeInv'
  BY NoneIsNoAccount DEF Inv, ShapeInv, Marked, ForgetStep, Of
<1>3. FlowInv'
  BY NoneIsNoAccount DEF Inv, FlowInv, Marked, ForgetStep, Asking, NoSession, Reading, Writing
<1>4. SweepInv'
  BY NoneIsNoAccount DEF Inv, SweepInv, Marked, ForgetStep, Sweeping, TypeOK, Maybe, Pair
<1>5. VaultInv'
  BY NoneIsNoAccount DEF Inv, VaultInv, Marked, ForgetStep, Current, Asking, Saved, Of,
     NoSession, FlowInv, Reading
<1>6. ReadyInv'
  BY NoneIsNoAccount DEF Inv, ReadyInv, Marked, ForgetStep, Sound, Reading, Kind, Mine
<1>7. OwnInv'
  BY NoneIsNoAccount DEF Inv, OwnInv, Marked, ForgetStep, Mine, Kind, Saved, Asking, Writing,
     Current, Swept, Of
<1>8. KeptInv'
  BY NoneIsNoAccount DEF Inv, KeptInv, Marked, Of, NoSession, Reading
<1> QED
  BY <1>1, <1>2, <1>3, <1>4, <1>5, <1>6, <1>7, <1>8 DEF Inv

\* The gate is slow, and the marker stands for it.
LEMMA MarkDeadlineKeeps == ASSUME Inv, MarkDeadline PROVE Inv'
<1>1. TypeOK'
  <2>1. VaultTyped' /\ LiveTyped' /\ ConnTyped' /\ CandTyped' /\ FinTyped' /\ BootTyped'
    BY TypeParts DEF Inv, MarkDeadline, ForgetStep, durable, VaultTyped, LiveTyped, ConnTyped,
       CandTyped, FinTyped, BootTyped
  <2>2. ForgetTyped'
    BY TypeParts, Nothing, StepTypes DEF MarkDeadline, durable, ForgetTyped, Maybe, Pair,
       ConnPc, CandPc, ForgetPc, FinPc, BootPc, Session, Inv
  <2>3. StoreTyped'
    BY TypeParts, Nothing, StepTypes DEF MarkDeadline, durable, StoreTyped, Maybe, Pair, ConnPc,
       CandPc, ForgetPc, FinPc, BootPc, Session, Inv
  <2> QED
    BY <2>1, <2>2, <2>3, TypeNext
<1>2. VaultInv' /\ ReadyInv' /\ OwnInv'
  BY DEF Inv, MarkDeadline, durable, VaultInv, Current, Asking, Saved, ReadyInv, Sound, Kind,
     Mine, OwnInv, Swept, ForgetStep
<1>3. ShapeInv'
  BY NoneIsNoAccount DEF Inv, ShapeInv, MarkDeadline, ForgetStep, NoSession, Of
<1>4. FlowInv'
  BY NoneIsNoAccount DEF Inv, FlowInv, MarkDeadline, ForgetStep, Asking, NoSession, Reading,
     Writing
<1>5. SweepInv'
  BY NoneIsNoAccount DEF Inv, SweepInv, MarkDeadline, ForgetStep, durable, Sweeping, TypeOK,
     Maybe, Pair
<1>6. KeptInv'
  BY NoneIsNoAccount DEF Inv, KeptInv, MarkDeadline, Saved, Of, NoSession, Reading
<1> QED
  BY <1>1, <1>2, <1>3, <1>4, <1>5, <1>6 DEF Inv

\* No gate could be written: the pair goes.
LEMMA DroppedKeeps == ASSUME Inv, Dropped PROVE Inv'
<1>1. TypeOK'
  <2>1. LiveTyped' /\ ConnTyped' /\ CandTyped' /\ FinTyped' /\ BootTyped'
    BY TypeParts DEF Inv, Dropped, ForgetStep, LiveTyped, ConnTyped, CandTyped, FinTyped,
       BootTyped
  <2>2. ForgetTyped'
    BY TypeParts, Nothing, StepTypes, ClearTypes DEF Dropped, ForgetTyped, Maybe, Pair, ConnPc,
       CandPc, ForgetPc, FinPc, BootPc, Session, Inv
  <2>3. VaultTyped'
    BY TypeParts, Nothing, StepTypes, ClearTypes DEF Dropped, VaultTyped, Maybe, Pair, ConnPc,
       CandPc, ForgetPc, FinPc, BootPc, Session, Inv
  <2>4. StoreTyped'
    BY TypeParts, Nothing, StepTypes, ClearTypes DEF Dropped, StoreTyped, Maybe, Pair, ConnPc,
       CandPc, ForgetPc, FinPc, BootPc, Session, Inv
  <2> QED
    BY <2>1, <2>2, <2>3, <2>4, TypeNext
<1>2. ShapeInv'
  BY NoneIsNoAccount DEF Inv, ShapeInv, Dropped, ForgetStep, NoSession, Of
<1>3. FlowInv'
  BY NoneIsNoAccount DEF Inv, FlowInv, Dropped, ForgetStep, Asking, NoSession, Reading, Writing
<1>4. SweepInv'
  BY NoneIsNoAccount DEF Inv, SweepInv, Dropped, ForgetStep, Sweeping, TypeOK, Maybe, Pair
<1>5. VaultInv'
  BY NoneIsNoAccount DEF Inv, VaultInv, Dropped, Cleared, ForgetStep, Writing, Current, Asking,
     Saved, Of, NoSession, FlowInv, Reading
<1>6. ReadyInv'
  BY NoneIsNoAccount DEF Inv, ReadyInv, Dropped, Cleared, ForgetStep, Sound, Reading, Kind, Mine
<1>7. OwnInv'
  BY NoneIsNoAccount DEF Inv, OwnInv, Dropped, Cleared, ForgetStep, NoSession, Mine, Kind,
     Saved, Asking, Writing, Current, Swept, Of
<1>8. KeptInv'
  BY NoneIsNoAccount DEF Inv, KeptInv, Dropped, Saved, Of, NoSession, Reading
<1> QED
  BY <1>1, <1>2, <1>3, <1>4, <1>5, <1>6, <1>7, <1>8 DEF Inv

\* Account work is idle.
LEMMA DrainedKeeps == ASSUME Inv, Drained PROVE Inv'
<1>1. TypeOK'
  BY DrainedTypes DEF Inv
<1>2. SweepInv'
  BY DrainedSweep
<1>3. VaultInv' /\ ReadyInv' /\ OwnInv'
  BY DEF Inv, Drained, durable, VaultInv, Current, Asking, Saved, ReadyInv, Sound, Kind, Mine,
     OwnInv, Swept, ForgetStep
<1>4. ShapeInv'
  BY NoneIsNoAccount DEF Inv, ShapeInv, Drained, ForgetStep, durable, NoSession, Of
<1>5. FlowInv'
  BY NoneIsNoAccount DEF Inv, FlowInv, Drained, ForgetStep, durable, Asking, NoSession, Reading,
     Writing
<1>6. KeptInv'
  BY NoneIsNoAccount DEF Inv, KeptInv, Drained, durable, Saved, Of, NoSession, Reading
<1> QED
  BY <1>1, <1>2, <1>3, <1>4, <1>5, <1>6 DEF Inv

\* It is not, in time.
LEMMA DrainDeadlineKeeps == ASSUME Inv, DrainDeadline PROVE Inv'
<1>1. TypeOK'
  BY DrainDeadlineTypes DEF Inv
<1>2. VaultInv' /\ ReadyInv' /\ OwnInv'
  BY DEF Inv, DrainDeadline, durable, VaultInv, Current, Asking, Saved, ReadyInv, Sound, Kind,
     Mine, OwnInv, Swept, ForgetStep
<1>3. ShapeInv'
  BY NoneIsNoAccount DEF Inv, ShapeInv, DrainDeadline, ForgetStep, NoSession, Of
<1>4. FlowInv'
  BY NoneIsNoAccount DEF Inv, FlowInv, DrainDeadline, ForgetStep, Asking, NoSession, Reading,
     Writing
<1>5. SweepInv'
  BY NoneIsNoAccount DEF Inv, SweepInv, DrainDeadline, ForgetStep, durable, Sweeping, TypeOK,
     Maybe, Pair
<1>6. KeptInv'
  BY NoneIsNoAccount DEF Inv, KeptInv, DrainDeadline, Saved, Of, NoSession, Reading
<1> QED
  BY <1>1, <1>2, <1>3, <1>4, <1>5, <1>6 DEF Inv

\* The store cannot be read.
LEMMA DrainUnreadableKeeps == ASSUME Inv, DrainUnreadable PROVE Inv'
<1>1. TypeOK'
  <2>1. /\ StoreTyped' /\ VaultTyped' /\ LiveTyped' /\ ConnTyped' /\ CandTyped' /\ FinTyped'
        /\ BootTyped'
    BY TypeParts DEF Inv, DrainUnreadable, ForgetStep, durable, StoreTyped, VaultTyped,
       LiveTyped, ConnTyped, CandTyped, FinTyped, BootTyped
  <2>2. ForgetTyped'
    BY TypeParts, Nothing, StepTypes DEF DrainUnreadable, durable, ForgetTyped, Maybe, Pair,
       ConnPc, CandPc, ForgetPc, FinPc, BootPc, Session, Inv
  <2> QED
    BY <2>1, <2>2, TypeNext
<1>2. VaultInv' /\ ReadyInv' /\ OwnInv'
  BY DEF Inv, DrainUnreadable, durable, VaultInv, Current, Asking, Saved, ReadyInv, Sound, Kind,
     Mine, OwnInv, Swept, ForgetStep
<1>3. ShapeInv'
  BY NoneIsNoAccount DEF Inv, ShapeInv, DrainUnreadable, ForgetStep, NoSession, Of
<1>4. FlowInv'
  BY NoneIsNoAccount DEF Inv, FlowInv, DrainUnreadable, ForgetStep, Asking, NoSession, Reading,
     Writing
<1>5. SweepInv'
  BY NoneIsNoAccount DEF Inv, SweepInv, DrainUnreadable, ForgetStep, durable, Sweeping, TypeOK,
     Maybe, Pair
<1>6. KeptInv'
  BY NoneIsNoAccount DEF Inv, KeptInv, DrainUnreadable, Saved, Of, NoSession, Reading
<1> QED
  BY <1>1, <1>2, <1>3, <1>4, <1>5, <1>6 DEF Inv

\* No sync runs.
LEMMA SyncDrainedKeeps == ASSUME Inv, SyncDrained PROVE Inv'
<1>1. TypeOK'
  <2>1. /\ StoreTyped' /\ VaultTyped' /\ LiveTyped' /\ ConnTyped' /\ CandTyped' /\ FinTyped'
        /\ BootTyped'
    BY TypeParts DEF Inv, SyncDrained, ForgetStep, durable, StoreTyped, VaultTyped, LiveTyped,
       ConnTyped, CandTyped, FinTyped, BootTyped
  <2>2. ForgetTyped'
    BY TypeParts, Nothing, StepTypes DEF SyncDrained, durable, ForgetTyped, Maybe, Pair, ConnPc,
       CandPc, ForgetPc, FinPc, BootPc, Session, Inv
  <2> QED
    BY <2>1, <2>2, TypeNext
<1>2. VaultInv' /\ ReadyInv' /\ OwnInv'
  BY DEF Inv, SyncDrained, durable, VaultInv, Current, Asking, Saved, ReadyInv, Sound, Kind,
     Mine, OwnInv, Swept, ForgetStep
<1>3. ShapeInv'
  BY NoneIsNoAccount DEF Inv, ShapeInv, SyncDrained, ForgetStep, NoSession, Of
<1>4. FlowInv'
  BY NoneIsNoAccount DEF Inv, FlowInv, SyncDrained, ForgetStep, Asking, NoSession, Reading,
     Writing
<1>5. SweepInv'
  BY NoneIsNoAccount DEF Inv, SweepInv, SyncDrained, ForgetStep, durable, Sweeping, TypeOK,
     Maybe, Pair
<1>6. KeptInv'
  BY NoneIsNoAccount DEF Inv, KeptInv, SyncDrained, Saved, Of, NoSession, Reading
<1> QED
  BY <1>1, <1>2, <1>3, <1>4, <1>5, <1>6 DEF Inv

\* One does, past the deadline.
LEMMA SyncDeadlineKeeps == ASSUME Inv, SyncDeadline PROVE Inv'
<1>1. TypeOK'
  <2>1. /\ StoreTyped' /\ VaultTyped' /\ LiveTyped' /\ ConnTyped' /\ CandTyped' /\ FinTyped'
        /\ BootTyped'
    BY TypeParts DEF Inv, SyncDeadline, ForgetStep, durable, StoreTyped, VaultTyped, LiveTyped,
       ConnTyped, CandTyped, FinTyped, BootTyped
  <2>2. ForgetTyped'
    BY TypeParts, Nothing, StepTypes DEF SyncDeadline, durable, ForgetTyped, Maybe, Pair,
       ConnPc, CandPc, ForgetPc, FinPc, BootPc, Session, Inv
  <2> QED
    BY <2>1, <2>2, TypeNext
<1>2. VaultInv' /\ ReadyInv' /\ OwnInv'
  BY DEF Inv, SyncDeadline, durable, VaultInv, Current, Asking, Saved, ReadyInv, Sound, Kind,
     Mine, OwnInv, Swept, ForgetStep
<1>3. ShapeInv'
  BY NoneIsNoAccount DEF Inv, ShapeInv, SyncDeadline, ForgetStep, NoSession, Of
<1>4. FlowInv'
  BY NoneIsNoAccount DEF Inv, FlowInv, SyncDeadline, ForgetStep, Asking, NoSession, Reading,
     Writing
<1>5. SweepInv'
  BY NoneIsNoAccount DEF Inv, SweepInv, SyncDeadline, ForgetStep, durable, Sweeping, TypeOK,
     Maybe, Pair
<1>6. KeptInv'
  BY NoneIsNoAccount DEF Inv, KeptInv, SyncDeadline, Saved, Of, NoSession, Reading
<1> QED
  BY <1>1, <1>2, <1>3, <1>4, <1>5, <1>6 DEF Inv

\* The local cache is wiped.
LEMMA WipedKeeps == ASSUME Inv, Wiped PROVE Inv'
<1>1. TypeOK'
  BY TypeParts, Nothing, StepTypes, TypeNext DEF Inv, Wiped, StoreTyped, Maybe, Pair, ConnPc,
     CandPc, ForgetPc, FinPc, BootPc, Session, VaultTyped, LiveTyped, ConnTyped, CandTyped,
     ForgetTyped, FinTyped, BootTyped
<1>2. VaultInv'
  BY DEF Inv, Wiped, VaultInv, Current, Asking, Saved, ForgetStep
<1>3. ShapeInv'
  BY NoneIsNoAccount DEF Inv, ShapeInv, Wiped, ForgetStep, Of
<1>4. FlowInv'
  BY NoneIsNoAccount DEF Inv, FlowInv, Wiped, ForgetStep, Asking, NoSession, Reading, Writing
<1>5. SweepInv'
  BY NoneIsNoAccount DEF Inv, SweepInv, Wiped, ForgetStep, Sweeping, TypeOK, Maybe, Pair
<1>6. ReadyInv'
  BY NoneIsNoAccount DEF Inv, ReadyInv, Wiped, ForgetStep, Sound, Reading, Kind, Mine
<1>7. OwnInv'
  BY NoneIsNoAccount DEF Inv, OwnInv, Wiped, ForgetStep, Mine, Kind, Saved, Asking, Writing,
     Current, Swept, Of
<1>8. KeptInv'
  BY NoneIsNoAccount DEF Inv, KeptInv, Wiped, Of, NoSession, Reading
<1> QED
  BY <1>1, <1>2, <1>3, <1>4, <1>5, <1>6, <1>7, <1>8 DEF Inv

\* It is not, or not yet.
LEMMA WipeFailsKeeps == ASSUME Inv, WipeFails PROVE Inv'
<1>1. TypeOK'
  <2>1. VaultTyped' /\ LiveTyped' /\ ConnTyped' /\ CandTyped' /\ FinTyped' /\ BootTyped'
    BY TypeParts DEF Inv, WipeFails, ForgetStep, durable, VaultTyped, LiveTyped, ConnTyped,
       CandTyped, FinTyped, BootTyped
  <2>2. ForgetTyped'
    BY TypeParts, Nothing, StepTypes DEF WipeFails, durable, ForgetTyped, Maybe, Pair, ConnPc,
       CandPc, ForgetPc, FinPc, BootPc, Session, Inv
  <2>3. StoreTyped'
    BY TypeParts, Nothing, StepTypes DEF WipeFails, durable, StoreTyped, Maybe, Pair, ConnPc,
       CandPc, ForgetPc, FinPc, BootPc, Session, Inv
  <2> QED
    BY <2>1, <2>2, <2>3, TypeNext
<1>2. VaultInv' /\ ReadyInv' /\ OwnInv'
  BY DEF Inv, WipeFails, durable, VaultInv, Current, Asking, Saved, ReadyInv, Sound, Kind, Mine,
     OwnInv, Swept, ForgetStep
<1>3. ShapeInv'
  BY NoneIsNoAccount DEF Inv, ShapeInv, WipeFails, ForgetStep, NoSession, Of
<1>4. FlowInv'
  BY NoneIsNoAccount DEF Inv, FlowInv, WipeFails, ForgetStep, Asking, NoSession, Reading,
     Writing
<1>5. SweepInv'
  BY NoneIsNoAccount DEF Inv, SweepInv, WipeFails, ForgetStep, durable, Sweeping, TypeOK, Maybe,
     Pair
<1>6. KeptInv'
  BY NoneIsNoAccount DEF Inv, KeptInv, WipeFails, Saved, Of, NoSession, Reading
<1> QED
  BY <1>1, <1>2, <1>3, <1>4, <1>5, <1>6 DEF Inv

\* The run ends, with the retirement or without it.
LEMMA ForgetDoneKeeps == ASSUME Inv, ForgetDone PROVE Inv'
<1>1. TypeOK'
  <2>1. VaultTyped' /\ LiveTyped' /\ CandTyped' /\ FinTyped'
    BY TypeParts DEF Inv, ForgetDone, ForgetEnds, durable, VaultTyped, LiveTyped, CandTyped,
       FinTyped
  <2>2. ConnTyped'
    BY TypeParts, Nothing, EndTypes DEF ForgetDone, durable, ConnTyped, Maybe, Pair, ConnPc,
       CandPc, ForgetPc, FinPc, BootPc, Session, Inv
  <2>3. ForgetTyped'
    BY TypeParts, Nothing, EndTypes DEF ForgetDone, durable, ForgetTyped, Maybe, Pair, ConnPc,
       CandPc, ForgetPc, FinPc, BootPc, Session, Inv
  <2>4. BootTyped'
    BY TypeParts, Nothing, EndTypes DEF ForgetDone, durable, BootTyped, Maybe, Pair, ConnPc,
       CandPc, ForgetPc, FinPc, BootPc, Session, Inv
  <2>5. StoreTyped'
    BY TypeParts, Nothing, EndTypes DEF ForgetDone, durable, StoreTyped, Maybe, Pair, ConnPc,
       CandPc, ForgetPc, FinPc, BootPc, Session, Inv
  <2> QED
    BY <2>1, <2>2, <2>3, <2>4, <2>5, TypeNext
<1>2. ShapeInv'
  BY NoneIsNoAccount DEF Inv, ShapeInv, ForgetDone, ForgetEnds, NoForget, NoConn, BootAt,
     NoSession, Of
<1>3. FlowInv'
  BY NoneIsNoAccount DEF Inv, FlowInv, ForgetDone, ForgetEnds, NoForget, NoConn, BootAt,
     NoSession, Asking, Reading, Writing, SweepInv, Sweeping
<1>4. SweepInv'
  BY NoneIsNoAccount DEF Inv, SweepInv, ForgetDone, ForgetEnds, durable, NoForget, NoConn,
     BootAt, NoSession, Sweeping
<1>5. VaultInv'
  BY NoneIsNoAccount DEF Inv, VaultInv, ForgetDone, ForgetEnds, durable, NoForget, NoConn,
     BootAt, NoSession, Writing, Current, Asking, Saved, Of
<1>6. ReadyInv'
  BY NoneIsNoAccount DEF Inv, ReadyInv, ForgetDone, ForgetEnds, durable, NoForget, NoConn,
     BootAt, NoSession, Sound, Reading, Kind, Mine, SweepInv, Sweeping
<1>7. OwnInv'
  BY NoneIsNoAccount DEF Inv, OwnInv, ForgetDone, ForgetEnds, durable, NoForget, NoConn, BootAt,
     NoSession, Mine, Kind, Saved, Asking, Writing, Current, Swept, Of, TypeOK, Maybe, Pair,
     FlowInv, Reading, SweepInv, Sweeping
<1>8. KeptInv'
  BY NoneIsNoAccount DEF Inv, KeptInv, ForgetDone, NoForget, NoConn, BootAt, NoSession, Saved,
     Of, Reading
<1> QED
  BY <1>1, <1>2, <1>3, <1>4, <1>5, <1>6, <1>7, <1>8 DEF Inv

\* The run ends, and the retirement is late.
LEMMA EndDeadlineKeeps == ASSUME Inv, EndDeadline PROVE Inv'
<1>1. TypeOK'
  <2>1. VaultTyped' /\ LiveTyped' /\ CandTyped'
    BY TypeParts DEF Inv, EndDeadline, ForgetEnds, durable, VaultTyped, LiveTyped, CandTyped
  <2>2. ConnTyped'
    BY TypeParts, Nothing, EndTypes DEF EndDeadline, durable, ConnTyped, Maybe, Pair, ConnPc,
       CandPc, ForgetPc, FinPc, BootPc, Session, Inv
  <2>3. ForgetTyped'
    BY TypeParts, Nothing, EndTypes DEF EndDeadline, durable, ForgetTyped, Maybe, Pair, ConnPc,
       CandPc, ForgetPc, FinPc, BootPc, Session, Inv
  <2>4. FinTyped'
    BY TypeParts, Nothing, EndTypes DEF EndDeadline, durable, FinTyped, Maybe, Pair, ConnPc,
       CandPc, ForgetPc, FinPc, BootPc, Session, Inv
  <2>5. BootTyped'
    BY TypeParts, Nothing, EndTypes DEF EndDeadline, durable, BootTyped, Maybe, Pair, ConnPc,
       CandPc, ForgetPc, FinPc, BootPc, Session, Inv
  <2>6. StoreTyped'
    BY TypeParts, Nothing, EndTypes DEF EndDeadline, durable, StoreTyped, Maybe, Pair, ConnPc,
       CandPc, ForgetPc, FinPc, BootPc, Session, Inv
  <2> QED
    BY <2>1, <2>2, <2>3, <2>4, <2>5, <2>6, TypeNext
<1>2. ShapeInv'
  BY NoneIsNoAccount DEF Inv, ShapeInv, EndDeadline, ForgetEnds, NoForget, NoConn, BootAt,
     NoSession, Of
<1>3. FlowInv'
  BY NoneIsNoAccount DEF Inv, FlowInv, EndDeadline, ForgetEnds, NoForget, NoConn, BootAt,
     NoSession, Asking, Reading, Writing
<1>4. SweepInv'
  BY NoneIsNoAccount DEF Inv, SweepInv, EndDeadline, ForgetEnds, durable, NoForget, NoConn,
     BootAt, NoSession, Sweeping
<1>5. VaultInv'
  BY NoneIsNoAccount DEF Inv, VaultInv, EndDeadline, ForgetEnds, durable, NoForget, NoConn,
     BootAt, NoSession, Writing, Current, Asking, Saved, Of
<1>6. ReadyInv'
  BY NoneIsNoAccount DEF Inv, ReadyInv, EndDeadline, ForgetEnds, durable, NoForget, NoConn,
     BootAt, NoSession, Sound, Reading, Kind, Mine
<1>7. OwnInv'
  BY NoneIsNoAccount DEF Inv, OwnInv, EndDeadline, ForgetEnds, durable, NoForget, NoConn,
     BootAt, NoSession, Mine, Kind, Saved, Asking, Writing, Current, Swept, Of, TypeOK, Maybe,
     Pair
<1>8. KeptInv'
  BY NoneIsNoAccount DEF Inv, KeptInv, EndDeadline, NoForget, NoConn, BootAt, NoSession, Saved,
     Of, Reading
<1> QED
  BY <1>1, <1>2, <1>3, <1>4, <1>5, <1>6, <1>7, <1>8 DEF Inv

\* A retirement fails.
LEMMA FinFailsKeeps == ASSUME Inv, FinFails PROVE Inv'
<1>1. TypeOK'
  <2>1. StoreTyped' /\ VaultTyped' /\ LiveTyped' /\ ConnTyped' /\ CandTyped' /\ BootTyped'
    BY TypeParts DEF Inv, FinFails, FinEnds, durable, history, StoreTyped, VaultTyped,
       LiveTyped, ConnTyped, CandTyped, BootTyped
  <2>2. ForgetTyped'
    BY TypeParts, Nothing, FinEndsTypes DEF FinFails, durable, history, ForgetTyped, Maybe,
       Pair, ConnPc, CandPc, ForgetPc, FinPc, BootPc, Session, Inv
  <2>3. FinTyped'
    BY TypeParts, Nothing, FinEndsTypes DEF FinFails, durable, history, FinTyped, Maybe, Pair,
       ConnPc, CandPc, ForgetPc, FinPc, BootPc, Session, Inv
  <2> QED
    BY <2>1, <2>2, <2>3, TypeNext
<1>2. VaultInv' /\ ReadyInv' /\ OwnInv'
  BY DEF Inv, FinFails, durable, history, VaultInv, Current, Asking, Saved, ReadyInv, Sound,
     Kind, Mine, OwnInv, Swept
<1>3. ShapeInv'
  BY NoneIsNoAccount DEF Inv, ShapeInv, FinFails, FinEnds, history, NoFin, NoSession, Of
<1>4. FlowInv'
  BY NoneIsNoAccount DEF Inv, FlowInv, FinFails, FinEnds, history, NoFin, Asking, NoSession,
     Reading, Writing
<1>5. SweepInv'
  BY NoneIsNoAccount DEF Inv, SweepInv, FinFails, FinEnds, durable, history, NoFin, Sweeping,
     TypeOK, Maybe, Pair
<1>6. KeptInv'
  BY NoneIsNoAccount DEF Inv, KeptInv, FinFails, history, NoFin, Saved, Of, NoSession, Reading
<1> QED
  BY <1>1, <1>2, <1>3, <1>4, <1>5, <1>6 DEF Inv

\* The late retirement reads the store.
LEMMA LateCaptureKeeps == ASSUME Inv, LateCapture PROVE Inv'
<1>1. TypeOK'
  BY LateCaptureTypes DEF Inv
<1>2. SweepInv'
  BY LateCaptureSweep
<1>3. VaultInv' /\ ReadyInv' /\ OwnInv'
  BY DEF Inv, LateCapture, durable, history, VaultInv, Current, Asking, Saved, ReadyInv, Sound,
     Kind, Mine, OwnInv, Swept
<1>4. ShapeInv'
  BY NoneIsNoAccount DEF Inv, ShapeInv, LateCapture, history, NoSession, Of
<1>5. FlowInv'
  BY NoneIsNoAccount DEF Inv, FlowInv, LateCapture, history, Asking, NoSession, Reading, Writing
<1>6. KeptInv'
  BY NoneIsNoAccount DEF Inv, KeptInv, LateCapture, history, Saved, Of, NoSession, Reading
<1> QED
  BY <1>1, <1>2, <1>3, <1>4, <1>5, <1>6 DEF Inv

\* The bearers are revoked at their servers, or some are.
LEMMA RevokesKeeps == ASSUME Inv, Revokes PROVE Inv'
<1>1. TypeOK'
  <2>1. VaultTyped' /\ LiveTyped' /\ ConnTyped' /\ CandTyped' /\ BootTyped'
    BY TypeParts DEF Inv, Revokes, FinStep, FinEnds, durable, VaultTyped, LiveTyped, ConnTyped,
       CandTyped, BootTyped
  <2>2. ForgetTyped'
    BY TypeParts, Nothing, FinStepTypes, FinEndsTypes DEF Revokes, durable, ForgetTyped, Maybe,
       Pair, ConnPc, CandPc, ForgetPc, FinPc, BootPc, Session, Inv
  <2>3. FinTyped'
    BY TypeParts, Nothing, FinStepTypes, FinEndsTypes DEF Revokes, durable, FinTyped, Maybe,
       Pair, ConnPc, CandPc, ForgetPc, FinPc, BootPc, Session, Inv
  <2>4. StoreTyped'
    BY TypeParts, Nothing, FinStepTypes, FinEndsTypes DEF Revokes, durable, StoreTyped, Maybe,
       Pair, ConnPc, CandPc, ForgetPc, FinPc, BootPc, Session, Inv
  <2> QED
    BY <2>1, <2>2, <2>3, <2>4, TypeNext
<1>2. VaultInv' /\ ReadyInv'
  BY DEF Inv, Revokes, durable, VaultInv, Current, Asking, Saved, ReadyInv, Sound, Kind, Mine
<1>3. ShapeInv'
  BY NoneIsNoAccount DEF Inv, ShapeInv, Revokes, FinStep, FinEnds, durable, NoFin, NoSession,
     Of, TypeOK, Maybe, Pair
<1>4. FlowInv'
  BY NoneIsNoAccount DEF Inv, FlowInv, Revokes, FinStep, FinEnds, durable, NoFin, Asking,
     NoSession, Reading, Writing, SweepInv, Sweeping
<1>5. SweepInv'
  BY NoneIsNoAccount DEF Inv, SweepInv, Revokes, FinStep, FinEnds, durable, NoFin, Sweeping,
     TypeOK, Maybe, Pair
<1>6. OwnInv'
  BY NoneIsNoAccount DEF Inv, OwnInv, Revokes, durable, NoFin, NoSession, Mine, Kind, Saved,
     Asking, Writing, Current, Swept, Of
<1>7. KeptInv'
  BY NoneIsNoAccount DEF Inv, KeptInv, Revokes, durable, NoFin, Saved, Of, NoSession, Reading
<1> QED
  BY <1>1, <1>2, <1>3, <1>4, <1>5, <1>6, <1>7 DEF Inv

\* The user has waived it.
LEMMA WaivesKeeps == ASSUME Inv, Waives PROVE Inv'
<1>1. TypeOK'
  BY TypeParts, Nothing, FinStepTypes, TypeNext DEF Inv, Waives, durable, StoreTyped, Maybe,
     Pair, ConnPc, CandPc, ForgetPc, FinPc, BootPc, Session, VaultTyped, LiveTyped, ConnTyped,
     CandTyped, ForgetTyped, FinTyped, BootTyped
<1>2. VaultInv' /\ ReadyInv'
  BY DEF Inv, Waives, durable, VaultInv, Current, Asking, Saved, ReadyInv, Sound, Kind, Mine
<1>3. ShapeInv'
  BY NoneIsNoAccount DEF Inv, ShapeInv, Waives, FinStep, NoSession, Of
<1>4. FlowInv'
  BY NoneIsNoAccount DEF Inv, FlowInv, Waives, FinStep, Asking, NoSession, Reading, Writing
<1>5. SweepInv'
  BY NoneIsNoAccount DEF Inv, SweepInv, Waives, FinStep, durable, Sweeping
<1>6. OwnInv'
  BY NoneIsNoAccount DEF Inv, OwnInv, Waives, durable, NoSession, Mine, Kind, Saved, Asking,
     Writing, Current, Swept, Of
<1>7. KeptInv'
  BY NoneIsNoAccount DEF Inv, KeptInv, Waives, Saved, Of, NoSession, Reading
<1> QED
  BY <1>1, <1>2, <1>3, <1>4, <1>5, <1>6, <1>7 DEF Inv

\* The tombstone is written.
LEMMA TombstonedKeeps == ASSUME Inv, Tombstoned PROVE Inv'
<1>1. TypeOK'
  <2>1. StoreTyped' /\ LiveTyped' /\ ConnTyped' /\ CandTyped' /\ ForgetTyped' /\ BootTyped'
    BY TypeParts DEF Inv, Tombstoned, FinStep, history, StoreTyped, LiveTyped, ConnTyped,
       CandTyped, ForgetTyped, BootTyped
  <2>2. FinTyped'
    BY TypeParts, Nothing, FinStepTypes DEF Tombstoned, history, FinTyped, Maybe, Pair, ConnPc,
       CandPc, ForgetPc, FinPc, BootPc, Session, Inv
  <2>3. VaultTyped'
    BY TypeParts, Nothing, FinStepTypes DEF Tombstoned, history, VaultTyped, Maybe, Pair,
       ConnPc, CandPc, ForgetPc, FinPc, BootPc, Session, Inv
  <2> QED
    BY <2>1, <2>2, <2>3, TypeNext
<1>2. VaultInv'
  BY TombstonedVault
<1>3. ShapeInv'
  BY NoneIsNoAccount DEF Inv, ShapeInv, Tombstoned, FinStep, NoSession, Of
<1>4. FlowInv'
  BY NoneIsNoAccount DEF Inv, FlowInv, Tombstoned, FinStep, Asking, NoSession, Reading, Writing
<1>5. SweepInv'
  BY NoneIsNoAccount DEF Inv, SweepInv, Tombstoned, FinStep, history, Sweeping
<1>6. ReadyInv'
  BY NoneIsNoAccount DEF Inv, ReadyInv, Tombstoned, Sound, Reading, Kind, Mine
<1>7. OwnInv'
  BY NoneIsNoAccount DEF Inv, OwnInv, Tombstoned, history, NoSession, Mine, Kind, Saved, Asking,
     Writing, Current, Swept, Of
<1>8. KeptInv'
  BY NoneIsNoAccount DEF Inv, KeptInv, Tombstoned, history, Saved, Of, NoSession, Reading
<1> QED
  BY <1>1, <1>2, <1>3, <1>4, <1>5, <1>6, <1>7, <1>8 DEF Inv

\* The gate is written again.
LEMMA FinMarkedKeeps == ASSUME Inv, FinMarked PROVE Inv'
<1>1. TypeOK'
  BY TypeParts, Nothing, FinStepTypes, TypeNext DEF Inv, FinMarked, history, StoreTyped, Maybe,
     Pair, ConnPc, CandPc, ForgetPc, FinPc, BootPc, Session, VaultTyped, LiveTyped, ConnTyped,
     CandTyped, ForgetTyped, FinTyped, BootTyped
<1>2. ShapeInv'
  BY NoneIsNoAccount DEF Inv, ShapeInv, FinMarked, FinStep, NoSession, Of
<1>3. FlowInv'
  BY NoneIsNoAccount DEF Inv, FlowInv, FinMarked, FinStep, Asking, NoSession, Reading, Writing
<1>4. SweepInv'
  BY NoneIsNoAccount DEF Inv, SweepInv, FinMarked, FinStep, history, Sweeping
<1>5. VaultInv'
  BY NoneIsNoAccount DEF Inv, VaultInv, FinMarked, Writing, Current, Asking, Saved, Of,
     SweepInv, Sweeping
<1>6. ReadyInv'
  BY NoneIsNoAccount DEF Inv, ReadyInv, FinMarked, history, Sound, Reading, Kind, Mine
<1>7. OwnInv'
  BY NoneIsNoAccount DEF Inv, OwnInv, FinMarked, history, NoSession, Mine, Kind, Saved, Asking,
     Writing, Current, Swept, Of
<1>8. KeptInv'
  BY NoneIsNoAccount DEF Inv, KeptInv, FinMarked, history, Saved, Of, NoSession, Reading
<1> QED
  BY <1>1, <1>2, <1>3, <1>4, <1>5, <1>6, <1>7, <1>8 DEF Inv

\* What is left of the pair goes.
LEMMA FinDroppedKeeps == ASSUME Inv, FinDropped PROVE Inv'
<1>1. TypeOK'
  <2>1. StoreTyped' /\ LiveTyped' /\ ConnTyped' /\ CandTyped' /\ BootTyped'
    BY TypeParts DEF Inv, FinDropped, FinEnds, history, StoreTyped, LiveTyped, ConnTyped,
       CandTyped, BootTyped
  <2>2. ForgetTyped'
    BY TypeParts, Nothing, FinEndsTypes, ClearTypes DEF FinDropped, history, ForgetTyped, Maybe,
       Pair, ConnPc, CandPc, ForgetPc, FinPc, BootPc, Session, Inv
  <2>3. FinTyped'
    BY TypeParts, Nothing, FinEndsTypes, ClearTypes DEF FinDropped, history, FinTyped, Maybe,
       Pair, ConnPc, CandPc, ForgetPc, FinPc, BootPc, Session, Inv
  <2>4. VaultTyped'
    BY TypeParts, Nothing, FinEndsTypes, ClearTypes DEF FinDropped, history, VaultTyped, Maybe,
       Pair, ConnPc, CandPc, ForgetPc, FinPc, BootPc, Session, Inv
  <2> QED
    BY <2>1, <2>2, <2>3, <2>4, TypeNext
<1>2. ShapeInv'
  BY NoneIsNoAccount DEF Inv, ShapeInv, FinDropped, FinEnds, history, NoFin, NoSession, Of
<1>3. FlowInv'
  BY NoneIsNoAccount DEF Inv, FlowInv, FinDropped, FinEnds, history, NoFin, Asking, NoSession,
     Reading, Writing
<1>4. SweepInv'
  BY NoneIsNoAccount DEF Inv, SweepInv, FinDropped, Cleared, FinEnds, history, NoFin, Sweeping,
     TypeOK, Maybe, Pair
<1>5. VaultInv'
  BY NoneIsNoAccount DEF Inv, VaultInv, FinDropped, Cleared, history, NoFin, Writing, Current,
     Asking, Saved, Of, SweepInv, Sweeping
<1>6. ReadyInv'
  BY NoneIsNoAccount DEF Inv, ReadyInv, FinDropped, Cleared, history, NoFin, Sound, Reading,
     Kind, Mine
<1>7. OwnInv'
  BY NoneIsNoAccount DEF Inv, OwnInv, FinDropped, Cleared, history, NoFin, NoSession, Mine,
     Kind, Saved, Asking, Writing, Current, Swept, Of, SweepInv, Sweeping
<1>8. KeptInv'
  BY NoneIsNoAccount DEF Inv, KeptInv, FinDropped, history, NoFin, Saved, Of, NoSession, Reading
<1> QED
  BY <1>1, <1>2, <1>3, <1>4, <1>5, <1>6, <1>7, <1>8 DEF Inv

\* A write or a wipe left behind lands.
LEMMA LateLandsKeeps == ASSUME Inv, LateLands PROVE Inv'
<1>1. TypeOK'
  BY TypeParts, Nothing, TypeNext DEF Inv, LateLands, history, StoreTyped, Maybe, Pair, ConnPc,
     CandPc, ForgetPc, FinPc, BootPc, Session, VaultTyped, LiveTyped, ConnTyped, CandTyped,
     ForgetTyped, FinTyped, BootTyped
<1>2. ShapeInv'
  BY NoneIsNoAccount DEF Inv, ShapeInv, LateLands, Of
<1>3. FlowInv'
  BY NoneIsNoAccount DEF Inv, FlowInv, LateLands, Asking, NoSession, Reading, Writing
<1>4. SweepInv'
  BY NoneIsNoAccount DEF Inv, SweepInv, LateLands, history
<1>5. VaultInv'
  BY NoneIsNoAccount DEF Inv, VaultInv, LateLands, Current, Asking, Saved, Of, NoSession,
     FlowInv, Reading
<1>6. ReadyInv'
  BY NoneIsNoAccount DEF Inv, ReadyInv, LateLands, history, Sound, Reading, Kind, Mine
<1>7. OwnInv'
  BY NoneIsNoAccount DEF Inv, OwnInv, LateLands, history, Mine, Kind, Saved, Asking, Writing,
     Current, Swept, Of
<1>8. KeptInv'
  BY NoneIsNoAccount DEF Inv, KeptInv, LateLands, history, Of, NoSession, Reading
<1> QED
  BY <1>1, <1>2, <1>3, <1>4, <1>5, <1>6, <1>7, <1>8 DEF Inv

\* A start.
LEMMA BootStartsKeeps == ASSUME Inv, BootStarts PROVE Inv'
<1>1. TypeOK'
  BY BootStartsTypes DEF Inv
<1>2. ShapeInv' /\ SweepInv' /\ VaultInv' /\ OwnInv'
  BY DEF Inv, BootStarts, durable, history, ShapeInv, SweepInv, VaultInv, Current, Asking,
     Saved, OwnInv, Mine, Kind, Swept
<1>3. FlowInv'
  BY NoneIsNoAccount DEF Inv, FlowInv, BootStarts, BootAt, history, NoSession, Asking, Reading,
     Writing, Of, VaultInv, Current, Saved
<1>4. ReadyInv'
  BY NoneIsNoAccount DEF Inv, ReadyInv, BootStarts, BootAt, durable, history, NoSession, Sound,
     Reading, Kind, Mine
<1>5. KeptInv'
  BY NoneIsNoAccount DEF Inv, KeptInv, BootStarts, BootAt, durable, history, NoSession, Saved,
     Of, Reading
<1> QED
  BY <1>1, <1>2, <1>3, <1>4, <1>5 DEF Inv

\* A start finds a pair.
LEMMA BootReadyKeeps == ASSUME Inv, BootReady PROVE Inv'
<1>1. TypeOK'
  BY BootReadyTypes DEF Inv
<1>2. ShapeInv' /\ SweepInv' /\ VaultInv' /\ OwnInv'
  BY DEF Inv, BootReady, durable, history, ShapeInv, SweepInv, VaultInv, Current, Asking, Saved,
     OwnInv, Mine, Kind, Swept
<1>3. FlowInv'
  BY NoneIsNoAccount DEF Inv, FlowInv, BootReady, durable, history, Asking, NoSession, Reading,
     Writing
<1>4. ReadyInv'
  BY NoneIsNoAccount DEF Inv, ReadyInv, BootReady, Kind, durable, history, Sound, Reading, Mine
<1>5. KeptInv'
  BY NoneIsNoAccount DEF Inv, KeptInv, BootReady, Saved, durable, history, Of, NoSession,
     Reading
<1> QED
  BY <1>1, <1>2, <1>3, <1>4, <1>5 DEF Inv

\* A start finds a session to clean up.
LEMMA BootCleansKeeps == ASSUME Inv, BootCleans PROVE Inv'
<1>1. TypeOK'
  <2>1. VaultTyped' /\ ConnTyped' /\ CandTyped' /\ FinTyped'
    BY TypeParts DEF Inv, BootCleans, BeginForget, VaultTyped, ConnTyped, CandTyped, FinTyped
  <2>2. ForgetTyped'
    BY TypeParts, Nothing, BeginTypes DEF BootCleans, ForgetTyped, Maybe, Pair, ConnPc, CandPc,
       ForgetPc, FinPc, BootPc, Session, Inv
  <2>3. BootTyped'
    BY TypeParts, Nothing, BeginTypes DEF BootCleans, BootTyped, Maybe, Pair, ConnPc, CandPc,
       ForgetPc, FinPc, BootPc, Session, Inv
  <2>4. StoreTyped'
    BY TypeParts, Nothing, BeginTypes DEF BootCleans, StoreTyped, Maybe, Pair, ConnPc, CandPc,
       ForgetPc, FinPc, BootPc, Session, Inv
  <2>5. LiveTyped'
    BY TypeParts, Nothing, BeginTypes DEF BootCleans, LiveTyped, Maybe, Pair, ConnPc, CandPc,
       ForgetPc, FinPc, BootPc, Session, Inv
  <2> QED
    BY <2>1, <2>2, <2>3, <2>4, <2>5, TypeNext
<1>2. ShapeInv'
  BY NoneIsNoAccount DEF Inv, ShapeInv, BootCleans, BeginForget, BootAt, Kind, NoForget,
     Quarantined, NoSession, Of
<1>3. FlowInv'
  BY NoneIsNoAccount DEF Inv, FlowInv, BootCleans, BootSees, BeginForget, BootAt, Kind,
     NoForget, Quarantined, NoSession, Asking, Reading, Writing
<1>4. SweepInv'
  BY NoneIsNoAccount DEF Inv, SweepInv, BootCleans, BeginForget, BootAt, Kind, NoForget,
     Quarantined, NoSession, Sweeping
<1>5. VaultInv'
  BY NoneIsNoAccount DEF Inv, VaultInv, BootCleans, BootSees, BootAt, Kind, NoForget,
     Quarantined, NoSession, Writing, Current, Asking, Saved, Of, FlowInv, Reading
<1>6. ReadyInv'
  BY NoneIsNoAccount DEF Inv, ReadyInv, BootCleans, BeginForget, BootAt, Kind, NoForget,
     Quarantined, NoSession, Sound, Reading, Mine, TypeOK, Maybe, Pair
<1>7. OwnInv'
  BY NoneIsNoAccount DEF Inv, OwnInv, BootCleans, BeginForget, BootAt, Kind, NoForget,
     Quarantined, NoSession, Mine, Saved, Asking, Writing, Current, Swept, Of, TypeOK, Maybe,
     Pair
<1>8. KeptInv'
  BY NoneIsNoAccount DEF Inv, KeptInv, BootCleans, BootSees, BootAt, Kind, NoForget,
     Quarantined, NoSession, Saved, Of, Reading
<1> QED
  BY <1>1, <1>2, <1>3, <1>4, <1>5, <1>6, <1>7, <1>8 DEF Inv

\* A start shows setup.
LEMMA BootShowsSetupKeeps == ASSUME Inv, BootShowsSetup PROVE Inv'
<1>1. TypeOK'
  BY TypeParts, Nothing, TypeNext DEF Inv, BootShowsSetup, durable, history, StoreTyped, Maybe,
     Pair, ConnPc, CandPc, ForgetPc, FinPc, BootPc, Session, VaultTyped, LiveTyped, ConnTyped,
     CandTyped, ForgetTyped, FinTyped, BootTyped
<1>2. ShapeInv' /\ SweepInv' /\ VaultInv' /\ OwnInv'
  BY DEF Inv, BootShowsSetup, durable, history, ShapeInv, SweepInv, VaultInv, Current, Asking,
     Saved, OwnInv, Mine, Kind, Swept
<1>3. FlowInv'
  BY NoneIsNoAccount DEF Inv, FlowInv, BootShowsSetup, BootAt, durable, history, Kind,
     NoSession, Asking, Reading, Writing
<1>4. ReadyInv'
  BY NoneIsNoAccount DEF Inv, ReadyInv, BootShowsSetup, BootAt, durable, history, Kind,
     NoSession, Sound, Reading, Mine
<1>5. KeptInv'
  BY NoneIsNoAccount DEF Inv, KeptInv, BootShowsSetup, BootSees, durable, history, Kind,
     NoSession, Saved, Of, Reading
<1> QED
  BY <1>1, <1>2, <1>3, <1>4, <1>5 DEF Inv

\* The database is open, and the session is as it was.
LEMMA BootOpensKeeps == ASSUME Inv, BootOpens PROVE Inv'
<1>1. TypeOK'
  BY TypeParts, Nothing, TypeNext DEF Inv, BootOpens, durable, history, StoreTyped, Maybe, Pair,
     ConnPc, CandPc, ForgetPc, FinPc, BootPc, Session, VaultTyped, LiveTyped, ConnTyped,
     CandTyped, ForgetTyped, FinTyped, BootTyped
<1>2. ShapeInv' /\ SweepInv' /\ VaultInv' /\ OwnInv'
  BY DEF Inv, BootOpens, durable, history, ShapeInv, SweepInv, VaultInv, Current, Asking, Saved,
     OwnInv, Mine, Kind, Swept
<1>3. FlowInv'
  BY NoneIsNoAccount DEF Inv, FlowInv, BootOpens, Asking, NoSession, Reading, Writing
<1>4. ReadyInv'
  BY NoneIsNoAccount DEF Inv, ReadyInv, BootOpens, durable, history, Sound, Reading, Kind, Mine
<1>5. KeptInv'
  BY NoneIsNoAccount DEF Inv, KeptInv, BootOpens, durable, history, Saved, Of, NoSession,
     Reading
<1> QED
  BY <1>1, <1>2, <1>3, <1>4, <1>5 DEF Inv

\* A start publishes.
LEMMA BootPublishesKeeps == ASSUME Inv, BootPublishes PROVE Inv'
<1>1. TypeOK'
  BY BootPublishesTypes DEF Inv
<1>2. VaultInv'
  BY DEF Inv, BootPublishes, durable, VaultInv, Current, Asking, Saved
<1>3. ShapeInv'
  BY NoneIsNoAccount DEF Inv, ShapeInv, BootPublishes, Saved, BootAt, durable, history,
     NoSession, Of, TypeOK, Maybe, Pair, Reading, ReadyInv, Sound, Mine
<1>4. FlowInv'
  BY NoneIsNoAccount DEF Inv, FlowInv, BootPublishes, Kind, BootAt, durable, history, NoSession,
     Asking, Reading, Writing
<1>5. SweepInv'
  BY NoneIsNoAccount DEF Inv, SweepInv, BootPublishes, BootAt, durable, history, NoSession,
     Sweeping, FlowInv, Asking, Reading, Writing
<1>6. ReadyInv'
  BY NoneIsNoAccount DEF Inv, ReadyInv, BootPublishes, Saved, BootAt, durable, history,
     NoSession, Sound, Reading, Mine
<1>7. OwnInv'
  BY NoneIsNoAccount DEF Inv, OwnInv, BootPublishes, Kind, Saved, BootAt, durable, history,
     NoSession, Mine, Asking, Writing, Current, Swept, Of, FlowInv, Reading, ReadyInv, Sound
<1>8. KeptInv'
  BY NoneIsNoAccount DEF Inv, KeptInv, BootPublishes, Saved, BootAt, durable, history,
     NoSession, Of, Reading
<1> QED
  BY <1>1, <1>2, <1>3, <1>4, <1>5, <1>6, <1>7, <1>8 DEF Inv

\* A start fails, and is retried.
LEMMA BootFailsKeeps == ASSUME Inv, BootFails PROVE Inv'
<1>1. TypeOK'
  BY TypeParts, Nothing, TypeNext DEF Inv, BootFails, durable, history, StoreTyped, Maybe, Pair,
     ConnPc, CandPc, ForgetPc, FinPc, BootPc, Session, VaultTyped, LiveTyped, ConnTyped,
     CandTyped, ForgetTyped, FinTyped, BootTyped
<1>2. ShapeInv' /\ SweepInv' /\ VaultInv' /\ OwnInv'
  BY DEF Inv, BootFails, durable, history, ShapeInv, SweepInv, VaultInv, Current, Asking, Saved,
     OwnInv, Mine, Kind, Swept
<1>3. FlowInv'
  BY NoneIsNoAccount DEF Inv, FlowInv, BootFails, BootAt, history, NoSession, Asking, Reading,
     Writing
<1>4. ReadyInv'
  BY NoneIsNoAccount DEF Inv, ReadyInv, BootFails, BootAt, durable, history, NoSession, Sound,
     Reading, Kind, Mine
<1>5. KeptInv'
  BY NoneIsNoAccount DEF Inv, KeptInv, BootFails, BootAt, durable, history, NoSession, Saved,
     Of, Reading
<1> QED
  BY <1>1, <1>2, <1>3, <1>4, <1>5 DEF Inv

\* Account work writes a row.
LEMMA AccountWritesKeeps == ASSUME Inv, AccountWrites PROVE Inv'
<1>1. TypeOK'
  BY AccountWritesTypes DEF Inv
<1>2. ShapeInv' /\ FlowInv' /\ VaultInv' /\ KeptInv'
  BY DEF Inv, AccountWrites, flows, history, ShapeInv, FlowInv, Asking, VaultInv, Current,
     Saved, KeptInv
<1>3. SweepInv'
  BY NoneIsNoAccount DEF Inv, SweepInv, AccountWrites, flows, history, Sweeping, NoSession,
     FlowInv, Asking, Reading, Writing
<1>4. ReadyInv'
  BY NoneIsNoAccount DEF Inv, ReadyInv, AccountWrites, flows, history, Sound, Reading, Kind,
     Mine, NoSession, Of, FlowInv, Asking, Writing, Current, Saved, OwnInv, Swept
<1>5. OwnInv'
  BY NoneIsNoAccount DEF Inv, OwnInv, AccountWrites, flows, history, NoSession, Mine, Kind,
     Saved, Asking, Writing, Current, Swept, Of, FlowInv, Reading
<1> QED
  BY <1>1, <1>2, <1>3, <1>4, <1>5 DEF Inv

\* A sync ends.
LEMMA SyncEndsKeeps == ASSUME Inv, SyncEnds PROVE Inv'
<1>1. TypeOK'
  BY TypeParts, Nothing, TypeNext DEF Inv, SyncEnds, durable, history, StoreTyped, Maybe, Pair,
     ConnPc, CandPc, ForgetPc, FinPc, BootPc, Session, VaultTyped, LiveTyped, ConnTyped,
     CandTyped, ForgetTyped, FinTyped, BootTyped
<1>2. ShapeInv' /\ FlowInv' /\ VaultInv' /\ KeptInv'
  BY DEF Inv, SyncEnds, durable, history, ShapeInv, FlowInv, Asking, VaultInv, Current, Saved,
     KeptInv
<1>3. SweepInv'
  BY NoneIsNoAccount DEF Inv, SweepInv, SyncEnds, durable, history, Sweeping
<1>4. ReadyInv'
  BY NoneIsNoAccount DEF Inv, ReadyInv, SyncEnds, durable, history, Sound, Reading, Kind, Mine
<1>5. OwnInv'
  BY NoneIsNoAccount DEF Inv, OwnInv, SyncEnds, durable, history, NoSession, Mine, Kind, Saved,
     Asking, Writing, Current, Swept, Of
<1> QED
  BY <1>1, <1>2, <1>3, <1>4, <1>5 DEF Inv

\* The process dies.
LEMMA CrashKeeps == ASSUME Inv, Crash PROVE Inv'
<1>1. TypeOK'
  <2>1. VaultTyped'
    BY TypeParts DEF Inv, Crash, durable, history, VaultTyped
  <2>2. ConnTyped'
    BY TypeParts, Nothing DEF Crash, durable, history, ConnTyped, Maybe, Pair, ConnPc, CandPc,
       ForgetPc, FinPc, BootPc, Session, Inv
  <2>3. CandTyped'
    BY TypeParts, Nothing DEF Crash, durable, history, CandTyped, Maybe, Pair, ConnPc, CandPc,
       ForgetPc, FinPc, BootPc, Session, Inv
  <2>4. ForgetTyped'
    BY TypeParts, Nothing DEF Crash, durable, history, ForgetTyped, Maybe, Pair, ConnPc, CandPc,
       ForgetPc, FinPc, BootPc, Session, Inv
  <2>5. FinTyped'
    BY TypeParts, Nothing DEF Crash, durable, history, FinTyped, Maybe, Pair, ConnPc, CandPc,
       ForgetPc, FinPc, BootPc, Session, Inv
  <2>6. BootTyped'
    BY TypeParts, Nothing DEF Crash, durable, history, BootTyped, Maybe, Pair, ConnPc, CandPc,
       ForgetPc, FinPc, BootPc, Session, Inv
  <2>7. StoreTyped'
    BY TypeParts, Nothing DEF Crash, durable, history, StoreTyped, Maybe, Pair, ConnPc, CandPc,
       ForgetPc, FinPc, BootPc, Session, Inv
  <2>8. LiveTyped'
    BY TypeParts, Nothing DEF Crash, durable, history, LiveTyped, Maybe, Pair, ConnPc, CandPc,
       ForgetPc, FinPc, BootPc, Session, Inv
  <2> QED
    BY <2>1, <2>2, <2>3, <2>4, <2>5, <2>6, <2>7, <2>8, TypeNext
<1>2. ShapeInv'
  BY NoneIsNoAccount DEF Inv, ShapeInv, Crash, NoConn, NoCand, NoForget, NoFin, BootAt, durable,
     history, Of
<1>3. FlowInv'
  BY NoneIsNoAccount DEF Inv, FlowInv, Crash, NoConn, NoCand, NoForget, NoFin, BootAt, durable,
     history, Asking, Reading, Writing
<1>4. SweepInv'
  BY NoneIsNoAccount DEF Inv, SweepInv, Crash, NoCand, NoForget, NoFin, BootAt, durable,
     history, Sweeping
<1>5. VaultInv'
  BY NoneIsNoAccount DEF Inv, VaultInv, Crash, NoConn, NoCand, NoForget, NoFin, BootAt, durable,
     history, Writing, Current, Asking, Saved, Of
<1>6. ReadyInv'
  BY NoneIsNoAccount DEF Inv, ReadyInv, Crash, NoCand, NoForget, NoFin, BootAt, durable,
     history, Sound, Reading, Kind, Mine
<1>7. OwnInv'
  BY NoneIsNoAccount DEF Inv, OwnInv, Crash, NoConn, NoCand, NoForget, NoFin, BootAt, durable,
     history, Mine, Kind, Saved, Asking, Writing, Current, Swept, Of
<1>8. KeptInv'
  BY NoneIsNoAccount DEF Inv, KeptInv, Crash, NoConn, NoCand, NoForget, NoFin, BootAt, durable,
     history, Saved, Of, Reading
<1> QED
  BY <1>1, <1>2, <1>3, <1>4, <1>5, <1>6, <1>7, <1>8 DEF Inv

-----------------------------------------------------------------------------
(* The theorems.                                                             *)

\* A fresh install, or a session saved before its state was, is as it must be.
LEMMA InitInv == Init => Inv
<1> SUFFICES ASSUME Init PROVE Inv
  OBVIOUS
<1> USE NoneIsNoAccount DEF Init, NoConn, NoCand, NoForget, NoFin, BootAt, NoSession
<1>1. TypeOK
  BY DEF TypeOK, Maybe, Pair
<1>2. ShapeInv /\ FlowInv /\ SweepInv
  BY DEF ShapeInv, FlowInv, SweepInv, Asking, Reading, Writing, Sweeping
<1>3. VaultInv
  BY DEF VaultInv, Writing, Asking, Current
<1>4. ReadyInv
  BY DEF ReadyInv, Sound, Kind, Mine, Reading
<1>5. OwnInv
  BY DEF OwnInv, Asking, Current, Writing, Saved, Of, Maybe
<1>6. KeptInv
  BY DEF KeptInv
<1> QED
  BY <1>1, <1>2, <1>3, <1>4, <1>5, <1>6 DEF Inv

\* A step that changes nothing.
LEMMA SameKeeps == ASSUME Inv, UNCHANGED vars PROVE Inv'
<1> USE DEF vars, durable, flows, history
<1>1. TypeOK' /\ ShapeInv' /\ FlowInv' /\ SweepInv'
  BY DEF Inv, TypeOK, ShapeInv, FlowInv, SweepInv, Asking, Reading, Writing, Sweeping, Of
<1>2. VaultInv' /\ ReadyInv'
  BY DEF Inv, VaultInv, ReadyInv, Writing, Reading, Asking, Current, Saved, Of, Sound, Kind, Mine
<1>3. OwnInv' /\ KeptInv'
  BY DEF Inv, OwnInv, KeptInv, Writing, Asking, Current, Saved, Of, Kind, Mine, Swept
<1> QED
  BY <1>1, <1>2, <1>3 DEF Inv

\* Every step keeps the invariant.
LEMMA NextInv == ASSUME Inv, [Next]_vars PROVE Inv'
<1>1. CASE ConnectNext
  BY <1>1, ConnectKeeps, GateCleansKeeps, GatePassesKeeps, ConnectPublishesKeeps,
     ConnectGivesUpKeeps
     DEF ConnectNext
<1>2. CASE CandidateNext
  BY <1>2, CandidateFailsKeeps, CandidateCheckedKeeps, WroteWritingKeeps, RereadJournalKeeps,
     WroteAddressKeeps, WrotePasswordKeeps, DroppedTombstoneKeeps, WroteActiveKeeps
     DEF CandidateNext
<1>3. CASE ForgetNext
  BY <1>3, DisconnectKeeps, ForgetHereKeeps, JoinedKeeps, JoinDeadlineKeeps,
     CandidateDrainedKeeps,
     CandidateDeadlineKeeps, MarkedKeeps, MarkDeadlineKeeps, DroppedKeeps, DrainedKeeps,
     DrainDeadlineKeeps, DrainUnreadableKeeps, SyncDrainedKeeps, SyncDeadlineKeeps, WipedKeeps,
     WipeFailsKeeps, ForgetDoneKeeps, EndDeadlineKeeps
     DEF ForgetNext
<1>4. CASE RetirementNext
  BY <1>4, FinFailsKeeps, LateCaptureKeeps, RevokesKeeps, WaivesKeeps, TombstonedKeeps,
     FinMarkedKeeps, FinDroppedKeeps, LateLandsKeeps
     DEF RetirementNext
<1>5. CASE BootNext
  BY <1>5, BootStartsKeeps, BootReadyKeeps, BootCleansKeeps, BootShowsSetupKeeps, BootOpensKeeps,
     BootPublishesKeeps, BootFailsKeeps
     DEF BootNext
<1> QED
  BY <1>1, <1>2, <1>3, <1>4, <1>5, AccountWritesKeeps, SyncEndsKeeps, CrashKeeps, SameKeeps DEF
     Next

LEMMA AlwaysInv == Spec => []Inv
  BY InitInv, NextInv, PTL DEF Spec

\* A published session is of one account that is not gone, and finds its own rows alone.
LEMMA PublishedSound ==
  ASSUME Inv PROVE ForgottenStaysForgotten /\ OneAccountPublished
<1>1. TypeOK
  BY DEF Inv
<1>2. live # NoSession => \E a \in Account : live = Of(a)
  BY DEF Inv, ShapeInv
<1> QED
  BY <1>1, <1>2 DEF Inv, OwnInv, Mine, Of, ForgottenStaysForgotten, OneAccountPublished

(* Disconnect is final: whatever fails, is late or dies meanwhile, no start  *)
(* and no candidate left behind publishes an account the user has forgotten  *)
(* and not asked for since.                                                  *)
THEOREM ForgottenIsFinal == Spec => []ForgottenStaysForgotten
  BY AlwaysInv, PublishedSound, PTL

(* What start or connect() publishes is one account's pair, and the database *)
(* under it holds no row of another account.                                 *)
THEOREM PublishedIsOneAccount == Spec => []OneAccountPublished
  BY AlwaysInv, PublishedSound, PTL

(* A published bearer stays in the store, whole, until its server has        *)
(* revoked it, the user has waived that, or the fallback drops the pair.     *)
THEOREM BearerIsNeverOrphaned == Spec => []BearerStaysInCustody
<1>1. Inv => BearerStaysInCustody
  BY DEF Inv, OwnInv, BearerStaysInCustody
<1> QED
  BY <1>1, AlwaysInv, PTL

\* What is kept can be restored, and no step takes a row from it.
LEMMA KeptStep ==
  ASSUME Inv, Inv', [Next]_vars, kept # None, kept' = kept
  PROVE  rows \subseteq rows' /\ (Kind(vault.sess) = "ready" /\ Saved = Of(kept))'
<1>1. Kind(vault.sess)' = "ready" /\ Saved' = Of(kept)'
  <2>1. ~marker' /\ ~vault'.tomb /\ vault'.sess = "active" /\ Saved' = Of(kept')
    BY DEF Inv, KeptInv, Of
  <2>2. kept' \in Account /\ vault'.addr = kept' /\ vault'.pw = kept'
    BY <2>1 DEF Inv, TypeOK, Maybe, Saved, Of
  <2> QED
    BY <2>1, <2>2, NoneIsNoAccount DEF Kind, Of
<1>2. forget.pc # "wipe" /\ late = {}
  BY DEF Inv, KeptInv
<1>3. ~Wiped /\ ~LateLands
  BY <1>2 DEF Wiped, LateLands
<1>4. CASE UNCHANGED rows
  BY <1>1, <1>4
<1>5. CASE AccountWrites
  BY <1>1, <1>5 DEF AccountWrites
<1>6. CASE Next /\ ~AccountWrites
  <2>1. ConnectNext => UNCHANGED rows
    BY DEF ConnectNext, Connect, GateCleans, GatePasses, ConnectPublishes, ConnectGivesUp, durable
  <2>2. CandidateNext => UNCHANGED rows
    BY DEF CandidateNext, CandidateFails, CandidateChecked, WroteWriting, RereadJournal,
           WroteAddress, WrotePassword, DroppedTombstone, WroteActive, durable
  <2>3. ForgetNext => UNCHANGED rows
    BY <1>3 DEF ForgetNext, Disconnect, ForgetHere, Joined, JoinDeadline, CandidateDrained,
           CandidateDeadline, Marked, MarkDeadline, Dropped, Drained, DrainDeadline,
           DrainUnreadable, SyncDrained, SyncDeadline, WipeFails, ForgetDone, EndDeadline,
           durable
  <2>4. RetirementNext => UNCHANGED rows
    BY <1>3 DEF RetirementNext, FinFails, LateCapture, Revokes, Waives, Tombstoned, FinMarked,
           FinDropped, durable
  <2>5. BootNext \/ SyncEnds \/ Crash => UNCHANGED rows
    BY DEF BootNext, BootStarts, BootReady, BootCleans, BootShowsSetup, BootOpens,
           BootPublishes, BootFails, SyncEnds, Crash, durable
  <2> QED
    BY <1>1, <1>6, <2>1, <2>2, <2>3, <2>4, <2>5 DEF Next
<1> QED
  BY <1>4, <1>5, <1>6 DEF vars, durable

(* What connect() has published can be restored, and keeps its rows, until   *)
(* the user disconnects it: nothing an earlier attempt or Forget has left    *)
(* behind lands on it, before or after a restart.                            *)
THEOREM PublishedIsKept == Spec => ConnectedIsKept
<1>1. Inv /\ Inv' /\ [Next]_vars =>
        [kept # None /\ kept' = kept =>
           rows \subseteq rows' /\ (Kind(vault.sess) = "ready" /\ Saved = Of(kept))']_vars
  BY KeptStep
<1> QED
  BY <1>1, AlwaysInv, PTL DEF Spec, ConnectedIsKept
=============================================================================
