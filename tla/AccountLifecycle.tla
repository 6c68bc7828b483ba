------------------------- MODULE AccountLifecycle -------------------------
(****************************************************************************)
(* Connecting to a server, disconnecting from it and restoring the saved    *)
(* session at start (services/connect.ts, connection.ts, accountCleanup.ts, *)
(* accountLifecycleState.ts, bootstrap.ts and boot/durableSession.ts).      *)
(*                                                                          *)
(* What survives the process is written one piece at a time: a marker file  *)
(* (synchronous), the keys of a secure store without transactions, and the  *)
(* rows of the encrypted database.  Three flows change them and overlap:    *)
(* Connect, with a candidate whose issued writes land even after a timeout; *)
(* the one Forget run, with its deadlines and what it leaves behind them;   *)
(* and Boot.  A process can die between any two steps.                      *)
(*                                                                          *)
(* The upgrade journal of the store is only ever absent or a revoked        *)
(* tombstone here.  connectionAttemptEpoch is modelled by what it decides:  *)
(* a Forget makes every attempt that captured the epoch stale (conn.ok,     *)
(* boot) and retracts lastSuccessfulForgetEpoch (hint).  An account is its  *)
(* address, its password (a scoped bearer) and its rows.                    *)
(****************************************************************************)
CONSTANTS
    Account,    \* the servers a user may connect to
    None        \* no account: an absent key of the store

ASSUME NoneIsNoAccount == None \notin Account

VARIABLES
    marker,     \* the revocation file exists
    vault,      \* serverSessionState, serverAddress, serverPassword, and the
                \* revoked tombstone of serverCredentialUpgrade
    rows,       \* the accounts with rows in the database
    live,       \* the session the app publishes and works under
    hint,       \* lastSuccessfulForgetEpoch = connectionAttemptEpoch
    conn,       \* the one connect() in flight
    cand,       \* its candidate commit; it outlives a connect() that timed out
    forget,     \* the one Forget run in flight
    fin,        \* the retirement of scoped bearers that run started
    late,       \* other operations that outlived their deadline, quarantined
    boot,       \* the foreground start: due, under way, or up (setup, or a session)
    syncing,    \* the accounts of sync runs that have not unwound
    gone,       \* history: disconnected, and not asked for since
    held,       \* history: bearers of published accounts, not revoked and not waived
    kept        \* history: the account connect() published and nobody disconnected

durable == <<marker, vault, rows>>
flows == <<live, hint, conn, cand, forget, fin, late, boot, syncing>>
history == <<gone, held, kept>>
vars == <<durable, flows, history>>

Maybe == Account \cup {None}
Pair == [addr : Maybe, pw : Maybe]
NoSession == [addr |-> None, pw |-> None]
NoConn == [pc |-> "idle", acct |-> None, ok |-> FALSE, clean |-> FALSE]
NoCand == [pc |-> "none", acct |-> None, tomb |-> FALSE]
NoForget == [pc |-> "idle", public |-> FALSE, waive |-> FALSE, marked |-> FALSE,
             drained |-> TRUE, failed |-> FALSE, bearer |-> None]
NoFin == [pc |-> "none", targets |-> {}, waive |-> FALSE, marked |-> FALSE, late |-> FALSE]
BootAt(pc) == [pc |-> pc, sess |-> "none", pair |-> NoSession]

TypeOK ==
    /\ marker \in BOOLEAN /\ hint \in BOOLEAN
    /\ vault \in [sess : {"none", "writing", "active", "forgotten"},
                  addr : Maybe, pw : Maybe, tomb : BOOLEAN]
    /\ rows \subseteq Account /\ syncing \subseteq Account
    /\ gone \subseteq Account /\ held \subseteq Account /\ kept \in Maybe
    /\ live \in Pair
    /\ conn \in [pc : {"idle", "wait", "gate", "clean", "overlap", "candidate", "opening"},
                 acct : Maybe, ok : BOOLEAN, clean : BOOLEAN]
    /\ cand \in [pc : {"none", "check", "sess", "reread", "addr", "pw", "tomb", "active"},
                 acct : Maybe, tomb : BOOLEAN]
    /\ forget \in [pc : {"idle", "join", "cand", "mark", "drop", "drain", "sync", "wipe", "end"},
                   public : BOOLEAN, waive : BOOLEAN, marked : BOOLEAN,
                   drained : BOOLEAN, failed : BOOLEAN, bearer : Maybe]
    /\ fin \in [pc : {"none", "capture", "revoke", "tomb", "mark", "drop", "bare"},
                targets : SUBSET Account, waive : BOOLEAN, marked : BOOLEAN, late : BOOLEAN]
    /\ late \subseteq {"forgotten", "wipe"}
    /\ boot \in [pc : {"due", "pair", "open", "verify", "join", "up"},
                 sess : {"none", "writing", "active", "forgotten"}, pair : Pair]

\* A fresh install, or a session saved before serverSessionState existed.
Init ==
    /\ marker = FALSE /\ rows = {} /\ live = NoSession /\ hint = FALSE
    /\ vault \in [sess : {"none"}, addr : Maybe, pw : Maybe, tomb : {FALSE}]
    /\ vault.addr = vault.pw
    /\ conn = NoConn /\ cand = NoCand /\ forget = NoForget /\ fin = NoFin
    /\ late = {} /\ boot = BootAt("due") /\ syncing = {} /\ gone = {}
    /\ held = {vault.pw} \ {None} /\ kept = None

\* What inspectDurableServerSession makes of the store: sess was read first.
Kind(sess) ==
    IF marker \/ vault.tomb THEN "revoked"
    ELSE IF sess = "none" /\ vault.addr = None /\ vault.pw = None THEN "empty"
    ELSE IF sess \in {"none", "active"} /\ vault.addr # None /\ vault.pw # None THEN "ready"
    ELSE "cleanup-required"

Saved == [addr |-> vault.addr, pw |-> vault.pw]
Of(a) == [addr |-> a, pw |-> a]

\* Mutant: only writes are quarantined, not the late retirement.
WritesQuarantined == late # {}

Quarantined == late # {} \/ fin.late

-----------------------------------------------------------------------------
(* The start of a Forget run, synchronous: the epoch moves, the session and  *)
(* the boot attempt are revoked, and the marker is written if it can be.     *)

BeginForget(public, waive) ==
    /\ \E marked \in BOOLEAN :
        /\ marker' = (marker \/ marked)
        /\ forget' = [NoForget EXCEPT
                        !.pc = IF Quarantined THEN "join" ELSE "cand",
                        !.public = public, !.waive = waive, !.marked = marked,
                        !.bearer = live.pw]
        /\ gone' = IF public /\ marked THEN Account ELSE gone
    /\ hint' = FALSE
    /\ live' = NoSession

\* startForget(true) revokes the connect() in flight, and starts a boot that
\* joins the run, once.
PublicForget ==
    /\ conn' = [conn EXCEPT !.ok = FALSE]
    /\ boot' = IF forget.public THEN boot ELSE BootAt("join")
    /\ kept' = None

Disconnect ==
    /\ live # NoSession \/ forget.pc # "idle"
    /\ PublicForget
    /\ IF forget.pc = "idle"
       THEN BeginForget(TRUE, FALSE)
       ELSE /\ forget' = [forget EXCEPT !.public = TRUE]
            /\ gone' = IF forget.marked THEN Account ELSE gone
            /\ UNCHANGED <<marker, hint, live>>
    /\ UNCHANGED <<vault, rows, cand, fin, late, syncing, held>>

\* forgetOnThisPhoneOnly, from the setup screen; whether the screen offers it
\* is left free.
ForgetHere ==
    /\ boot.pc = "up" /\ live = NoSession /\ forget.pc = "idle"
    /\ PublicForget
    /\ BeginForget(TRUE, TRUE)
    /\ UNCHANGED <<vault, rows, cand, fin, late, syncing, held>>

-----------------------------------------------------------------------------
(* Connect: the gate.                                                        *)

Connect(a) ==
    /\ conn.pc = "idle" /\ live = NoSession /\ boot.pc = "up"
    /\ ~Quarantined /\ cand.pc = "none"
    /\ conn' = [pc |-> IF forget.pc = "idle" THEN "gate" ELSE "wait",
                acct |-> a, ok |-> TRUE, clean |-> FALSE]
    /\ gone' = gone \ {a}
    /\ UNCHANGED <<durable, live, hint, cand, forget, fin, late, boot, syncing, held, kept>>

NeedsCleanup ==
    /\ Kind(vault.sess) \in {"empty", "revoked", "cleanup-required"}
    /\ ~conn.clean /\ ~hint

GateCleans ==
    /\ conn.pc = "gate" /\ conn.ok /\ NeedsCleanup
    /\ conn' = [conn EXCEPT !.pc = "clean"]
    /\ IF forget.pc = "idle"
       THEN BeginForget(FALSE, FALSE)
       ELSE UNCHANGED <<marker, forget, gone, hint, live>>
    /\ UNCHANGED <<vault, rows, cand, fin, late, boot, syncing, held, kept>>

\* The epoch is captured in the turn that sees no Forget in flight.
GatePasses ==
    /\ conn.pc = "gate" /\ conn.ok /\ ~NeedsCleanup
    /\ Kind(vault.sess) = "ready" => Saved = Of(conn.acct)
    /\ IF forget.pc = "idle"
       THEN /\ conn' = [conn EXCEPT !.pc = "candidate"]
            /\ cand' = [NoCand EXCEPT !.pc = "check", !.acct = conn.acct]
       ELSE /\ conn' = [conn EXCEPT !.pc = "overlap"]
            /\ UNCHANGED cand
    /\ UNCHANGED <<durable, live, hint, forget, fin, late, boot, syncing, history>>

\* A refusal, an unreadable store, a failed open or a deadline.  A candidate
\* is left behind, tracked, and no longer current.
ConnectGivesUp(pc) ==
    /\ conn.pc = pc
    /\ conn' = NoConn
    /\ UNCHANGED <<durable, live, hint, cand, forget, fin, late, boot, syncing, history>>

ConnectPublishes ==
    /\ conn.pc = "opening" /\ conn.ok
    /\ live' = Of(conn.acct)
    /\ syncing' = syncing \cup {conn.acct}
    /\ held' = held \cup {conn.acct} /\ kept' = conn.acct
    /\ conn' = NoConn
    /\ UNCHANGED <<durable, hint, cand, forget, fin, late, boot, gone>>

-----------------------------------------------------------------------------
(* The candidate: each step is one answer of the server or the store, and    *)
(* issues the next call in the same turn.                                    *)

\* Mutant: only the deadline of connect() makes the candidate stale.
InTime == conn.pc = "candidate"

Current == conn.pc = "candidate" /\ conn.ok

CandidateStops ==
    /\ cand' = NoCand
    /\ conn' = IF conn.pc = "candidate" THEN NoConn ELSE conn

GoOn(next) ==
    IF Current
    THEN cand' = [cand EXCEPT !.pc = next] /\ UNCHANGED conn
    ELSE CandidateStops

\* The server refuses, a read or a write is rejected, or the journal changed.
CandidateFails ==
    /\ cand.pc # "none"
    /\ CandidateStops
    /\ UNCHANGED <<durable, live, hint, forget, fin, late, boot, syncing, history>>

\* The server's answer and the preflight read of the upgrade journal.
CandidateChecked ==
    /\ cand.pc = "check"
    /\ IF Current
       THEN cand' = [cand EXCEPT !.pc = "sess", !.tomb = vault.tomb] /\ UNCHANGED conn
       ELSE CandidateStops
    /\ UNCHANGED <<durable, live, hint, forget, fin, late, boot, syncing, history>>

WroteWriting ==
    /\ cand.pc = "sess"
    /\ vault' = [vault EXCEPT !.sess = "writing"]
    /\ GoOn("reread")
    /\ UNCHANGED <<marker, rows, live, hint, forget, fin, late, boot, syncing, history>>

\* The address is issued without another look at the attempt.
RereadJournal ==
    /\ cand.pc = "reread" /\ vault.tomb = cand.tomb
    /\ cand' = [cand EXCEPT !.pc = "addr"]
    /\ UNCHANGED <<durable, live, hint, conn, forget, fin, late, boot, syncing, history>>

WroteAddress ==
    /\ cand.pc = "addr"
    /\ vault' = [vault EXCEPT !.addr = cand.acct]
    /\ GoOn("pw")
    /\ UNCHANGED <<marker, rows, live, hint, forget, fin, late, boot, syncing, history>>

WrotePassword ==
    /\ cand.pc = "pw"
    /\ vault' = [vault EXCEPT !.pw = cand.acct]
    /\ GoOn(IF cand.tomb THEN "tomb" ELSE "active")
    /\ UNCHANGED <<marker, rows, live, hint, forget, fin, late, boot, syncing, history>>

DroppedTombstone ==
    /\ cand.pc = "tomb"
    /\ vault' = [vault EXCEPT !.tomb = FALSE]
    /\ GoOn("active")
    /\ UNCHANGED <<marker, rows, live, hint, forget, fin, late, boot, syncing, history>>

\* `active` lands; the marker goes in the same turn, or its removal throws.
WroteActive ==
    /\ cand.pc = "active"
    /\ vault' = [vault EXCEPT !.sess = "active"]
    /\ \/ /\ Current
          /\ marker' = FALSE
          /\ cand' = NoCand
          /\ conn' = [conn EXCEPT !.pc = "opening"]
       \/ CandidateStops /\ UNCHANGED marker
    /\ UNCHANGED <<rows, live, hint, forget, fin, late, boot, syncing, history>>

-----------------------------------------------------------------------------
(* The Forget run.                                                           *)

\* Everyone who waits for the run goes on with its outcome.  A boot shows
\* setup too when the revocation alone is unfinished.
ForgetEnds(ok) ==
    /\ forget' = NoForget
    /\ hint' = (ok /\ forget.public)
    /\ conn' = IF conn.pc \notin {"wait", "clean", "overlap"} THEN conn
               ELSE IF ok THEN [conn EXCEPT !.pc = "gate", !.clean = TRUE]
               ELSE NoConn
    /\ IF boot.pc = "join"
       THEN \E pc \in IF ok THEN {"up"} ELSE {"up", "due"} : boot' = BootAt(pc)
       ELSE UNCHANGED boot
    /\ gone' = IF ok /\ forget.public
               THEN Account \ (IF conn.ok THEN {conn.acct} ELSE {})
               ELSE gone

ForgetStep(pc, failed) ==
    /\ forget' = [forget EXCEPT !.pc = pc, !.failed = @ \/ failed]
    /\ UNCHANGED <<hint, conn, boot, gone>>

\* A chain an earlier run left behind must settle before this run does more.
Joined ==
    /\ forget.pc = "join" /\ ~Quarantined
    /\ ForgetStep("cand", FALSE)
    /\ UNCHANGED <<durable, live, cand, fin, late, syncing, held, kept>>

JoinDeadline ==
    /\ forget.pc = "join"
    /\ ForgetEnds(FALSE)
    /\ UNCHANGED <<durable, live, cand, fin, late, syncing, held, kept>>

CandidateDrained ==
    /\ forget.pc = "cand" /\ cand.pc = "none"
    /\ ForgetStep("mark", FALSE)
    /\ UNCHANGED <<durable, live, cand, fin, late, syncing, held, kept>>

CandidateDeadline ==
    /\ forget.pc = "cand" /\ cand.pc # "none"
    /\ forget' = [forget EXCEPT !.pc = "mark", !.failed = TRUE, !.drained = FALSE]
    /\ UNCHANGED <<durable, live, hint, conn, cand, fin, late, boot, syncing, history>>

\* retireDurableCredentials: the tuple is kept if one durable gate exists.
Marked ==
    /\ forget.pc = "mark"
    /\ \E wrote \in BOOLEAN :
        /\ vault' = IF wrote THEN [vault EXCEPT !.sess = "forgotten"] ELSE vault
        /\ ForgetStep(IF wrote \/ forget.marked THEN "drain" ELSE "drop", FALSE)
    /\ UNCHANGED <<marker, rows, live, cand, fin, late, syncing, held, kept>>

\* Only a run whose marker stands may leave the write behind.
MarkDeadline ==
    /\ forget.pc = "mark" /\ forget.marked
    /\ late' = late \cup {"forgotten"}
    /\ ForgetStep("drain", TRUE)
    /\ UNCHANGED <<durable, live, cand, fin, syncing, held, kept>>

Cleared(keys) ==
    [vault EXCEPT !.addr = IF "addr" \in keys THEN None ELSE @,
                  !.pw = IF "pw" \in keys THEN None ELSE @]

\* Neither gate could be written: the pair goes, or is overwritten, now.
Dropped ==
    /\ forget.pc = "drop"
    /\ \E keys \in SUBSET {"addr", "pw"} :
        /\ vault' = Cleared(keys)
        /\ held' = IF keys = {} THEN held ELSE {}
        /\ ForgetStep("drain", keys = {})
    /\ UNCHANGED <<marker, rows, live, cand, fin, late, syncing, kept>>

\* captureScopedCredentialRevocationTargets
Targets(bearer) ==
    ({bearer} \cup IF vault.addr # None THEN {vault.pw} ELSE {}) \ {None}

\* Account work and the candidate are idle: the bearers are read and retired
\* beside the rest of the run.
Drained ==
    /\ forget.pc = "drain" /\ forget.drained
    /\ fin' = [pc |-> "revoke", targets |-> Targets(forget.bearer),
               waive |-> forget.waive, marked |-> forget.marked, late |-> FALSE]
    /\ ForgetStep("sync", FALSE)
    /\ UNCHANGED <<durable, live, cand, late, syncing, held, kept>>

\* They are not, or the read is slow: the same chain runs late.
DrainDeadline ==
    /\ forget.pc = "drain"
    /\ fin' = [pc |-> "capture", targets |-> {forget.bearer} \ {None},
               waive |-> forget.waive, marked |-> forget.marked, late |-> TRUE]
    /\ ForgetStep("sync", TRUE)
    /\ UNCHANGED <<durable, live, cand, late, syncing, held, kept>>

DrainUnreadable ==
    /\ forget.pc = "drain" /\ forget.drained
    /\ ForgetStep("sync", TRUE)
    /\ UNCHANGED <<durable, live, cand, fin, late, syncing, held, kept>>

SyncDrained ==
    /\ forget.pc = "sync" /\ syncing = {}
    /\ ForgetStep("wipe", FALSE)
    /\ UNCHANGED <<durable, live, cand, fin, late, syncing, held, kept>>

\* Mutant: the wipe goes on as if the sync had unwound.
SyncIgnored ==
    /\ forget.pc = "sync" /\ syncing # {}
    /\ ForgetStep("wipe", FALSE)
    /\ UNCHANGED <<durable, live, cand, fin, late, syncing, held, kept>>

SyncDeadline ==
    /\ forget.pc = "sync" /\ syncing # {}
    /\ ForgetStep("wipe", TRUE)
    /\ UNCHANGED <<durable, live, cand, fin, late, syncing, held, kept>>

\* wipeLocalCache leaves no row; a step that is not modelled may fail.
Wiped ==
    /\ forget.pc = "wipe"
    /\ rows' = {}
    /\ \E other \in BOOLEAN : ForgetStep("end", other)
    /\ UNCHANGED <<marker, vault, live, cand, fin, late, syncing, held, kept>>

WipeFails ==
    /\ forget.pc = "wipe"
    /\ late' \in {late, late \cup {"wipe"}}
    /\ ForgetStep("end", TRUE)
    /\ UNCHANGED <<durable, live, cand, fin, syncing, held, kept>>

ForgetDone ==
    /\ forget.pc = "end" /\ (fin.pc = "none" \/ fin.late)
    /\ ForgetEnds(~forget.failed)
    /\ UNCHANGED <<durable, live, cand, fin, late, syncing, held, kept>>

EndDeadline ==
    /\ forget.pc = "end" /\ fin.pc # "none" /\ ~fin.late
    /\ fin' = [fin EXCEPT !.late = TRUE]
    /\ ForgetEnds(FALSE)
    /\ UNCHANGED <<durable, live, cand, late, syncing, held, kept>>

-----------------------------------------------------------------------------
(* finishScopedCredentialRetirement, in time or late.                        *)

FinStep(pc) == fin' = [fin EXCEPT !.pc = pc] /\ UNCHANGED forget

FinEnds(bad) ==
    /\ fin' = NoFin
    /\ forget' = IF fin.late THEN forget ELSE [forget EXCEPT !.failed = @ \/ bad]

FinFails ==
    /\ fin.pc # "none"
    /\ FinEnds(TRUE)
    /\ UNCHANGED <<durable, live, hint, conn, cand, late, boot, syncing, history>>

\* The late chain waits for every writer that could still create custody.
LateCapture ==
    /\ fin.pc = "capture" /\ cand.pc = "none" /\ "forgotten" \notin late
    /\ fin' = [fin EXCEPT !.pc = "revoke", !.targets = UNION {Targets(a) : a \in @ \cup {None}}]
    /\ UNCHANGED <<durable, live, hint, conn, cand, forget, late, boot, syncing, history>>

\* Mutant: one confirmed bearer is taken for all of them.
RevokesSome ==
    /\ fin.pc = "revoke" /\ ~fin.waive
    /\ \E revoked \in SUBSET fin.targets :
        /\ held' = held \ revoked
        /\ FinStep("tomb")
    /\ UNCHANGED <<durable, live, hint, conn, cand, late, boot, syncing, gone, kept>>

\* Every bearer is revoked at its server, or some are and the chain stops.
Revokes ==
    /\ fin.pc = "revoke" /\ ~fin.waive
    /\ \E revoked \in SUBSET fin.targets :
        /\ held' = held \ revoked
        /\ IF revoked = fin.targets THEN FinStep("tomb") ELSE FinEnds(TRUE)
    /\ UNCHANGED <<durable, live, hint, conn, cand, late, boot, syncing, gone, kept>>

Waives ==
    /\ fin.pc = "revoke" /\ fin.waive
    /\ held' = held \ fin.targets
    /\ FinStep("tomb")
    /\ UNCHANGED <<durable, live, hint, conn, cand, late, boot, syncing, gone, kept>>

Tombstoned ==
    /\ fin.pc = "tomb"
    /\ vault' = [vault EXCEPT !.tomb = TRUE]
    /\ FinStep("mark")
    /\ UNCHANGED <<marker, rows, live, hint, conn, cand, late, boot, syncing, history>>

FinMarked ==
    /\ fin.pc = "mark"
    /\ \E wrote \in BOOLEAN :
        /\ vault' = IF wrote THEN [vault EXCEPT !.sess = "forgotten"] ELSE vault
        /\ FinStep(IF wrote \/ fin.marked THEN "drop" ELSE "bare")
    /\ UNCHANGED <<marker, rows, live, hint, conn, cand, late, boot, syncing, history>>

\* A pair that no gate covers must lose at least one half; the replaced
\* bearer's record, which is not modelled, may fail to go.
FinDropped ==
    /\ fin.pc \in {"drop", "bare"}
    /\ \E keys \in SUBSET {"addr", "pw"}, other \in BOOLEAN :
        /\ vault' = Cleared(keys)
        /\ FinEnds(other \/ (fin.pc = "bare" /\ keys = {}))
    /\ UNCHANGED <<marker, rows, live, hint, conn, cand, late, boot, syncing, history>>

\* A quarantined write or wipe lands, or fails, at last.
LateLands ==
    /\ \E op \in late, ok \in BOOLEAN :
        /\ late' = late \ {op}
        /\ vault' = IF ok /\ op = "forgotten" THEN [vault EXCEPT !.sess = "forgotten"] ELSE vault
        /\ rows' = IF ok /\ op = "wipe" THEN {} ELSE rows
    /\ UNCHANGED <<marker, live, hint, conn, cand, forget, fin, boot, syncing, history>>

-----------------------------------------------------------------------------
(* Boot.  The store's keys are read one after the other.                     *)

BootStarts ==
    /\ boot.pc = "due"
    /\ IF forget.pc # "idle"
       THEN boot' = BootAt("join")
       ELSE ~marker /\ boot' = [BootAt("pair") EXCEPT !.sess = vault.sess]
    /\ UNCHANGED <<durable, live, hint, conn, cand, forget, fin, late, syncing, history>>

BootReady ==
    /\ boot.pc = "pair" /\ Kind(boot.sess) = "ready"
    /\ boot' = [boot EXCEPT !.pc = "open", !.pair = Saved]
    /\ UNCHANGED <<durable, live, hint, conn, cand, forget, fin, late, syncing, history>>

\* The marker is read before the store.
BootSees(kinds) ==
    \/ boot.pc = "due" /\ marker /\ "revoked" \in kinds
    \/ boot.pc = "pair" /\ Kind(boot.sess) \in kinds

BootCleans ==
    /\ forget.pc = "idle" /\ ~hint /\ BootSees({"revoked", "cleanup-required"})
    /\ BeginForget(FALSE, FALSE)
    /\ boot' = BootAt("join")
    /\ UNCHANGED <<vault, rows, conn, cand, fin, late, syncing, held, kept>>

BootShowsSetup ==
    /\ forget.pc = "idle"
    /\ BootSees({"empty"}) \/ (hint /\ BootSees({"revoked", "cleanup-required"}))
    /\ boot' = BootAt("up")
    /\ UNCHANGED <<durable, live, hint, conn, cand, forget, fin, late, syncing, history>>

\* The database is open and hydrated; the store is read again.
BootOpens ==
    /\ boot.pc = "open" /\ ~marker /\ vault.sess = boot.sess
    /\ boot' = [boot EXCEPT !.pc = "verify"]
    /\ UNCHANGED <<durable, live, hint, conn, cand, forget, fin, late, syncing, history>>

BootPublishes ==
    /\ boot.pc = "verify" /\ Kind(boot.sess) = "ready" /\ Saved = boot.pair
    /\ live' = boot.pair
    /\ syncing' = syncing \cup {boot.pair.pw}
    /\ boot' = BootAt("up")
    /\ UNCHANGED <<durable, hint, conn, cand, forget, fin, late, history>>

\* A stage fails or times out, or the store cannot be read; retried later.
BootFails ==
    /\ boot.pc \in {"pair", "open", "verify", "join"}
    /\ boot' = BootAt("due")
    /\ UNCHANGED <<durable, live, hint, conn, cand, forget, fin, late, syncing, history>>

-----------------------------------------------------------------------------
(* Account work, and the end of the process.                                 *)

\* Guarded writes commit under the live session; a sync run that has not
\* unwound may still write for the session it was started under.
AccountWrites ==
    /\ \E a \in syncing \cup ({live.pw} \ {None}) : rows' = rows \cup {a}
    /\ UNCHANGED <<marker, vault, flows, history>>

SyncEnds ==
    /\ \E a \in syncing : syncing' = syncing \ {a}
    /\ UNCHANGED <<durable, live, hint, conn, cand, forget, fin, late, boot, history>>

Crash ==
    /\ live' = NoSession /\ hint' = FALSE /\ conn' = NoConn /\ cand' = NoCand
    /\ forget' = NoForget /\ fin' = NoFin /\ late' = {} /\ boot' = BootAt("due")
    /\ syncing' = {}
    /\ UNCHANGED <<durable, history>>

ConnectPhases == {"wait", "gate", "clean", "overlap", "candidate", "opening"}

ConnectNext ==
    \/ \E a \in Account : Connect(a)
    \/ GateCleans \/ GatePasses \/ ConnectPublishes
    \/ \E pc \in ConnectPhases : ConnectGivesUp(pc)

CandidateNext ==
    \/ CandidateFails \/ CandidateChecked \/ WroteWriting \/ RereadJournal
    \/ WroteAddress \/ WrotePassword \/ DroppedTombstone \/ WroteActive

ForgetNext ==
    \/ Disconnect \/ ForgetHere
    \/ Joined \/ JoinDeadline \/ CandidateDrained \/ CandidateDeadline
    \/ Marked \/ MarkDeadline \/ Dropped
    \/ Drained \/ DrainDeadline \/ DrainUnreadable
    \/ SyncDrained \/ SyncDeadline \/ Wiped \/ WipeFails \/ ForgetDone \/ EndDeadline

RetirementNext ==
    \/ FinFails \/ LateCapture \/ Revokes \/ Waives \/ Tombstoned \/ FinMarked
    \/ FinDropped \/ LateLands

BootNext ==
    \/ BootStarts \/ BootReady \/ BootCleans \/ BootShowsSetup \/ BootOpens
    \/ BootPublishes \/ BootFails

Next ==
    \/ ConnectNext \/ CandidateNext \/ ForgetNext \/ RetirementNext \/ BootNext
    \/ AccountWrites \/ SyncEnds \/ Crash

Spec == Init /\ [][Next]_vars

-----------------------------------------------------------------------------
(* Properties.                                                               *)

(* Disconnect is final: once the marker is written, or the run reports       *)
(* success, no start and no late candidate publishes an account the user has *)
(* not asked for since -- whatever crashed, timed out or failed meanwhile.   *)
ForgottenStaysForgotten == live # NoSession => live.addr \notin gone /\ live.pw \notin gone

(* What is published is one account's: the address and the password belong   *)
(* together, and no row of another account is left in the database.          *)
OneAccountPublished ==
    /\ TypeOK
    /\ live # NoSession => live.addr = live.pw /\ rows \subseteq {live.pw}

(* The scoped bearer of an account that connect() published stays in the     *)
(* store, whole, until its server has revoked it or the user has waived that *)
(* (one first published by a boot is not followed here); or, with both gates *)
(* broken, until the documented fallback drops the pair.  No later attempt,  *)
(* restart or failed retirement orphans its authority.                       *)
BearerStaysInCustody == \A a \in held : Saved = Of(a)

(* What connect() has published can be restored, and keeps its rows, until   *)
(* the user disconnects it: no quarantined write, wipe or retirement of an   *)
(* earlier attempt or Forget lands on it, before or after a restart.         *)
ConnectedIsKept ==
    [][kept # None /\ kept' = kept =>
        rows \subseteq rows' /\ (Kind(vault.sess) = "ready" /\ Saved = Of(kept))']_vars
=============================================================================
