----------------------------- MODULE WriteQueue -----------------------------
(***************************************************************************)
(* The process-wide write queue of src/db/transaction.ts.                  *)
(*                                                                         *)
(* One SQLite connection is shared by every writer, so transactions are    *)
(* serialised on a chain of promises: a claim takes the current tail as    *)
(* the promise it waits for and leaves a new promise as the tail.  Slot n  *)
(* of the chain waits for slot n - 1 to resolve.                           *)
(*                                                                         *)
(* A caller is one call of withDbTransaction ("tx"), withDbWriteLock       *)
(* ("lock") or captureDbWriteFence ("capture").  A task is one statement   *)
(* registered through runInTransactionContext, and a bystander is an       *)
(* autocommit statement issued on the shared connection by code that never *)
(* joined the queue.  A statement is identified with the actor making it.  *)
(***************************************************************************)
EXTENDS Integers, FiniteSets

CONSTANTS
  Caller,      \* the calls made on the queue, each made at most once
  Task,        \* statements registered in a transaction context
  Bystander,   \* autocommit statements made outside the queue
  Fence,       \* write fences a repair captures
  Op,          \* Op[c]: which of the three entry points c is
  Guard,       \* Guard[c]: the commit guard c passes
  Parent,      \* Parent[c]: the caller inside whose callback c is awaited
  Account,     \* the guard that asks whether the account is still current
  NoGuard,     \* no guard given
  None,        \* no caller
  DevBuild     \* __DEV__: a claim that sees nothing move is rejected

ASSUME CallerAssumption ==
  /\ None \notin Caller
  /\ Account \notin Fence /\ NoGuard \notin Fence /\ Account # NoGuard
  /\ Op \in [Caller -> {"tx", "lock", "capture"}]
  /\ Guard \in [Caller -> Fence \cup {Account, NoGuard}]
  /\ Parent \in [Caller -> Caller \cup {None}]
  /\ \A c \in Caller : Op[c] = "lock" => Guard[c] = NoGuard
  /\ \A c \in Caller : Op[c] = "capture" => Guard[c] \in Fence
  /\ \A c, d \in Caller : /\ Op[c] = "capture" /\ Op[d] = "capture"
                          /\ Guard[c] = Guard[d]
                          => c = d
  /\ Caller \cap Task = {} /\ Caller \cap Bystander = {}
  /\ Task \cap Bystander = {}
  /\ DevBuild \in BOOLEAN

VARIABLES
  tail,          \* txQueue: the last slot of the chain
  resolved,      \* slots whose promise has resolved; 0 is Promise.resolve()
  lockReleases,  \* holders that have released
  slot,          \* slot[c]: the slot c claimed, 0 before
  entry,         \* entry[c]: releasesAtEntry
  timer,         \* timer[c]: the wait watchdog
  devArmed,      \* devArmed[c]: the development deadline has not fired
  wedgeReported,
  pc,
  outcome,       \* outcome[c]: how the call ends for its caller
  accepting,     \* accepting[c]: c's context admits new work
  violation,     \* violation[c]: work was offered while c was closing
  ctx,           \* ctx[t]: the transaction t registered in
  status,        \* status[t]
  sql,           \* the caller whose SQL transaction is open
  uncommitted,   \* statements inside the open SQL transaction
  committed,     \* statements that are durable
  issued,        \* statements ever issued: history, read by properties only
  current,       \* the account lease behind the Account guard
  fence          \* fence[f]: DbWriteFenceState, and whether a stranger ran

queueVars == <<tail, resolved, slot, entry>>
watchVars == <<timer, devArmed, wedgeReported>>
ctxVars   == <<accepting, violation, ctx, status>>
dataVars  == <<sql, uncommitted, committed, issued>>
vars == <<queueVars, watchVars, ctxVars, dataVars,
          lockReleases, pc, outcome, current, fence>>

PCs == {"idle", "parked", "abandoned", "beginning", "running", "settling",
        "committing", "rollback", "releasing", "done"}

Holding   == {"beginning", "running", "settling", "committing", "rollback", "releasing"}
SqlOpen   == {"running", "settling", "committing", "rollback"}

FenceState == [captured : BOOLEAN, valid : BOOLEAN, expected : Nat, foreign : BOOLEAN]

TypeOK ==
  /\ tail \in Nat
  /\ resolved \subseteq Nat
  /\ lockReleases \in Nat
  /\ slot \in [Caller -> Nat]
  /\ entry \in [Caller -> Nat]
  /\ timer \in [Caller -> {"off", "armed", "warned", "spent"}]
  /\ devArmed \in [Caller -> BOOLEAN]
  /\ wedgeReported \in BOOLEAN
  /\ pc \in [Caller -> PCs]
  /\ outcome \in [Caller -> {"none", "ok", "error"}]
  /\ accepting \in [Caller -> BOOLEAN]
  /\ violation \in [Caller -> BOOLEAN]
  /\ ctx \in [Task -> Caller \cup {None}]
  /\ status \in [Task -> {"new", "running", "ok", "failed", "rejected"}]
  /\ sql \in Caller \cup {None}
  /\ uncommitted \subseteq Caller \cup Task \cup Bystander
  /\ committed \subseteq Caller \cup Task \cup Bystander
  /\ issued \subseteq Caller \cup Task \cup Bystander
  /\ current \in BOOLEAN
  /\ fence \in [Fence -> FenceState]

Init ==
  /\ tail = 0 /\ resolved = {0} /\ lockReleases = 0
  /\ slot = [c \in Caller |-> 0]
  /\ entry = [c \in Caller |-> 0]
  /\ timer = [c \in Caller |-> "off"]
  /\ devArmed = [c \in Caller |-> FALSE]
  /\ wedgeReported = FALSE
  /\ pc = [c \in Caller |-> "idle"]
  /\ outcome = [c \in Caller |-> "none"]
  /\ accepting = [c \in Caller |-> FALSE]
  /\ violation = [c \in Caller |-> FALSE]
  /\ ctx = [t \in Task |-> None]
  /\ status = [t \in Task |-> "new"]
  /\ sql = None /\ uncommitted = {} /\ committed = {} /\ issued = {}
  /\ current = TRUE
  /\ fence = [f \in Fence |-> [captured |-> FALSE, valid |-> FALSE,
                               expected |-> 0, foreign |-> FALSE]]

-----------------------------------------------------------------------------
(* Guards. A fence's commitGuard is its validity and the base guard it was *)
(* captured with, which both repair callers set to the account's lease.    *)

CommitAllowed(g) ==
  CASE g = NoGuard -> TRUE
    [] g = Account -> current
    [] OTHER       -> fence[g].valid /\ current

(* Mutant: a fence is checked for validity only. *)
FenceAdmitsIfValid(g) == g \in Fence => fence[g].valid

(* admitDbWriteFence: no stranger released since the fence last did.       *)
FenceAdmits(g) ==
  g \in Fence => fence[g].valid /\ fence[g].expected = lockReleases

(* armLockWatchdog and the development deadline start with the claim. *)
Arm(c) ==
  /\ entry' = [entry EXCEPT ![c] = lockReleases]
  /\ timer' = [timer EXCEPT ![c] = "armed"]
  /\ devArmed' = [devArmed EXCEPT ![c] = DevBuild]

(* claimWriteLock, up to its first await: synchronous with the call.       *)
Claim(c) ==
  /\ pc[c] = "idle"
  /\ Parent[c] # None => pc[Parent[c]] = "running"
  /\ Op[c] = "tx" /\ Guard[c] \in Fence => fence[Guard[c]].captured
  /\ tail' = tail + 1
  /\ slot' = [slot EXCEPT ![c] = tail + 1]
  /\ Arm(c)
  /\ pc' = [pc EXCEPT ![c] = "parked"]
  /\ UNCHANGED <<resolved, wedgeReported, ctxVars, dataVars, lockReleases,
                 outcome, current, fence>>

(* Mutant: the claim does not await the slot before it. *)
GrantedAtOnce(c) == slot[c] > 0

(* The slot before c's has resolved, so c is next. *)
Granted(c) == slot[c] > 0 /\ slot[c] - 1 \in resolved

(* The watchdog and the deadline are disarmed when the wait ends. *)
Disarm(c) ==
  /\ timer' = [timer EXCEPT ![c] = "off"]
  /\ devArmed' = [devArmed EXCEPT ![c] = FALSE]
  /\ UNCHANGED wedgeReported

(* Strangers to fence f are all holders that do not carry it. *)
MarkForeign(c) ==
  [f \in Fence |-> [fence[f] EXCEPT !.foreign = @ \/ (fence[f].captured /\ Guard[c] # f)]]

(* withDbTransaction once it holds the slot: the fence, then the guard,    *)
(* then BEGIN IMMEDIATE is sent.                                           *)
EnterTx(c) ==
  /\ pc[c] = "parked" /\ Granted(c) /\ Op[c] = "tx"
  /\ Disarm(c)
  /\ LET g == Guard[c]
         m == MarkForeign(c)
     IN \/ /\ FenceAdmits(g) /\ CommitAllowed(g)
           /\ pc' = [pc EXCEPT ![c] = "beginning"]
           /\ fence' = m
           /\ UNCHANGED outcome
        \/ /\ FenceAdmits(g) /\ ~CommitAllowed(g)
           /\ pc' = [pc EXCEPT ![c] = "releasing"]
           /\ outcome' = [outcome EXCEPT ![c] = "error"]
           /\ fence' = m
        \/ /\ ~FenceAdmits(g)
           /\ pc' = [pc EXCEPT ![c] = "releasing"]
           /\ outcome' = [outcome EXCEPT ![c] = "error"]
           /\ fence' = [m EXCEPT ![g].valid = FALSE]
  /\ UNCHANGED <<queueVars, ctxVars, dataVars, lockReleases, current>>

(* withDbWriteLock runs its callback with no SQL transaction of its own. *)
EnterLock(c) ==
  /\ pc[c] = "parked" /\ Granted(c) /\ Op[c] = "lock"
  /\ Disarm(c)
  /\ pc' = [pc EXCEPT ![c] = "running"]
  /\ fence' = MarkForeign(c)
  /\ UNCHANGED <<queueVars, ctxVars, dataVars, lockReleases, outcome, current>>

(* captureDbWriteFence: the base guard, then the fence's state. *)
EnterCapture(c) ==
  /\ pc[c] = "parked" /\ Granted(c) /\ Op[c] = "capture"
  /\ Disarm(c)
  /\ pc' = [pc EXCEPT ![c] = "releasing"]
  /\ outcome' = [outcome EXCEPT ![c] = IF current THEN "ok" ELSE "error"]
  /\ fence' = IF current
              THEN [MarkForeign(c) EXCEPT ![Guard[c]] =
                      [captured |-> TRUE, valid |-> TRUE,
                       expected |-> lockReleases, foreign |-> FALSE]]
              ELSE MarkForeign(c)
  /\ UNCHANGED <<queueVars, ctxVars, dataVars, lockReleases, current>>

(* Mutant: the count at entry is taken for one release too many. *)
NeverStuck(c) == lockReleases < entry[c]

(* Not one holder has released since c joined. *)
NothingMoved(c) == lockReleases = entry[c]

(* The development deadline: a claim that saw no release at all is taken   *)
(* for a nested one and rejected; a claim that saw one waits on for good.  *)
DevDeadline(c) ==
  /\ pc[c] = "parked" /\ devArmed[c] /\ ~Granted(c)
  /\ IF NothingMoved(c)
     THEN /\ pc' = [pc EXCEPT ![c] = "abandoned"]
          /\ outcome' = [outcome EXCEPT ![c] = "error"]
          /\ Disarm(c)
     ELSE /\ devArmed' = [devArmed EXCEPT ![c] = FALSE]
          /\ UNCHANGED <<pc, outcome, timer, wedgeReported>>
  /\ UNCHANGED <<queueVars, ctxVars, dataVars, lockReleases, current, fence>>

(* Mutant: the rejected claim resolves its slot without waiting its turn. *)
PassOnAtOnce(c) ==
  /\ pc[c] = "abandoned"
  /\ resolved' = resolved \cup {slot[c]}
  /\ pc' = [pc EXCEPT ![c] = "done"]
  /\ UNCHANGED <<tail, slot, entry, watchVars, ctxVars, dataVars, lockReleases,
                 outcome, current, fence>>

(* Mutant: the rejected claim keeps its slot. *)
PassOnNothing(c) ==
  /\ pc[c] = "abandoned" /\ Granted(c)
  /\ pc' = [pc EXCEPT ![c] = "done"]
  /\ UNCHANGED <<queueVars, watchVars, ctxVars, dataVars, lockReleases,
                 outcome, current, fence>>

(* prev.then(release): a rejected claim still hands its slot on. It counts *)
(* no release, because it never held the lock.                             *)
PassOn(c) ==
  /\ pc[c] = "abandoned" /\ Granted(c)
  /\ resolved' = resolved \cup {slot[c]}
  /\ pc' = [pc EXCEPT ![c] = "done"]
  /\ UNCHANGED <<tail, slot, entry, watchVars, ctxVars, dataVars, lockReleases,
                 outcome, current, fence>>

(* armLockWatchdog, first stage: a warning only. *)
Warn(c) ==
  /\ pc[c] = "parked" /\ timer[c] = "armed" /\ ~Granted(c)
  /\ timer' = [timer EXCEPT ![c] = "warned"]
  /\ UNCHANGED <<queueVars, devArmed, wedgeReported, ctxVars, dataVars,
                 lockReleases, pc, outcome, current, fence>>

(* Second stage: report only if no holder released since c joined. *)
Escalate(c) ==
  /\ pc[c] = "parked" /\ timer[c] = "warned" /\ ~Granted(c)
  /\ timer' = [timer EXCEPT ![c] = "spent"]
  /\ wedgeReported' = (wedgeReported \/ NothingMoved(c))
  /\ UNCHANGED <<queueVars, devArmed, ctxVars, dataVars, lockReleases, pc,
                 outcome, current, fence>>

-----------------------------------------------------------------------------
(* Statements: one issued while a SQL transaction is open joins it. *)

Write(w) ==
  /\ w \notin issued /\ issued' = issued \cup {w}
  /\ IF sql = None
     THEN committed' = committed \cup {w} /\ UNCHANGED <<uncommitted, sql>>
     ELSE uncommitted' = uncommitted \cup {w} /\ UNCHANGED <<committed, sql>>

(* BEGIN IMMEDIATE answers; the guard is asked again before the callback. *)
Begin(c) ==
  /\ pc[c] = "beginning"
  /\ \/ /\ sql = None
        /\ sql' = c
        /\ IF CommitAllowed(Guard[c])
           THEN /\ pc' = [pc EXCEPT ![c] = "running"]
                /\ accepting' = [accepting EXCEPT ![c] = TRUE]
           ELSE /\ pc' = [pc EXCEPT ![c] = "rollback"]
                /\ UNCHANGED accepting
        /\ UNCHANGED outcome
     \/ /\ pc' = [pc EXCEPT ![c] = "releasing"]
        /\ outcome' = [outcome EXCEPT ![c] = "error"]
        /\ UNCHANGED <<sql, accepting>>
  /\ UNCHANGED <<queueVars, watchVars, violation, ctx, status, uncommitted,
                 committed, issued, lockReleases, current, fence>>

(* The callback's own statement. *)
OwnerWrite(c) ==
  /\ pc[c] = "running"
  /\ Write(c)
  /\ UNCHANGED <<queueVars, watchVars, ctxVars, lockReleases, pc, outcome,
                 current, fence>>

(* A nested claim is awaited: the callback cannot settle before it does. *)
ChildrenSettled(c) ==
  \A d \in Caller : Parent[d] = c => pc[d] \in {"idle", "abandoned", "done"}

(* The callback settles, well or badly, and its context closes at once. *)
OwnerSettle(c) ==
  /\ pc[c] = "running" /\ ChildrenSettled(c)
  /\ \E r \in {"ok", "error"} : outcome' = [outcome EXCEPT ![c] = r]
  /\ accepting' = [accepting EXCEPT ![c] = FALSE]
  /\ pc' = [pc EXCEPT ![c] = IF Op[c] = "tx" THEN "settling" ELSE "releasing"]
  /\ UNCHANGED <<queueVars, watchVars, violation, ctx, status, dataVars,
                 lockReleases, current, fence>>

(* runInTransactionContext: admitted while the owner accepts, latched as a *)
(* violation while it is closing, refused once the context is gone.        *)
Register(t, c) ==
  /\ status[t] = "new" /\ Op[c] = "tx" /\ slot[c] > 0
  /\ pc[c] \in {"running", "settling", "committing", "rollback", "releasing", "done"}
  /\ ctx' = [ctx EXCEPT ![t] = c]
  /\ IF accepting[c]
     THEN status' = [status EXCEPT ![t] = "running"] /\ UNCHANGED violation
     ELSE /\ status' = [status EXCEPT ![t] = "rejected"]
          /\ violation' = [violation EXCEPT ![c] = @ \/ pc[c] = "settling"]
  /\ UNCHANGED <<queueVars, watchVars, accepting, dataVars, lockReleases, pc,
                 outcome, current, fence>>

TaskWrite(t) ==
  /\ status[t] = "running"
  /\ Write(t)
  /\ UNCHANGED <<queueVars, watchVars, ctxVars, lockReleases, pc, outcome,
                 current, fence>>

TaskSettle(t) ==
  /\ status[t] = "running"
  /\ \E r \in {"ok", "failed"} : status' = [status EXCEPT ![t] = r]
  /\ UNCHANGED <<queueVars, watchVars, accepting, violation, ctx, dataVars,
                 lockReleases, pc, outcome, current, fence>>

TasksOf(c, s) == {t \in Task : ctx[t] = c /\ status[t] = s}

(* Mutant: the first task to fail ends the wait, as Promise.all would. *)
SettledOnFirstFailure(c) == TasksOf(c, "running") = {} \/ TasksOf(c, "failed") # {}

(* settleRegisteredTasks (Promise.allSettled): every task has settled. *)
Settled(c) == TasksOf(c, "running") = {}

(* Mutants: a failed task is forgotten; the final guard is skipped. *)
MayCommitWithoutTasks(c) ==
  outcome[c] = "ok" /\ ~violation[c] /\ CommitAllowed(Guard[c])
MayCommitUnguarded(c) ==
  outcome[c] = "ok" /\ ~violation[c] /\ TasksOf(c, "failed") = {}

(* Neither the callback, a late registration nor a task stands against     *)
(* COMMIT, and neither does the final guard.                               *)
MayCommit(c) ==
  /\ outcome[c] = "ok" /\ ~violation[c]
  /\ TasksOf(c, "failed") = {}
  /\ CommitAllowed(Guard[c])

(* The tasks have settled and the context is dropped: COMMIT or ROLLBACK.  *)
ContextSettled(c) ==
  /\ pc[c] = "settling" /\ Settled(c)
  /\ pc' = [pc EXCEPT ![c] = IF MayCommit(c) THEN "committing" ELSE "rollback"]
  /\ UNCHANGED <<queueVars, watchVars, ctxVars, dataVars, lockReleases,
                 outcome, current, fence>>

Commit(c) ==
  /\ pc[c] = "committing"
  /\ \/ /\ committed' = committed \cup uncommitted
        /\ uncommitted' = {} /\ sql' = None /\ UNCHANGED issued
        /\ pc' = [pc EXCEPT ![c] = "releasing"]
     \/ /\ pc' = [pc EXCEPT ![c] = "rollback"]
        /\ UNCHANGED dataVars
  /\ UNCHANGED <<queueVars, watchVars, ctxVars, lockReleases, outcome,
                 current, fence>>

(* ROLLBACK ends the SQL transaction: the code takes a ROLLBACK that fails *)
(* to mean that the engine had already aborted it.                         *)
Rollback(c) ==
  /\ pc[c] = "rollback"
  /\ uncommitted' = {} /\ sql' = None /\ UNCHANGED <<committed, issued>>
  /\ outcome' = [outcome EXCEPT ![c] = "error"]
  /\ pc' = [pc EXCEPT ![c] = "releasing"]
  /\ UNCHANGED <<queueVars, watchVars, ctxVars, lockReleases, current, fence>>

(* The finally block: the slot resolves, the release is counted, and a     *)
(* fence that is still valid expects that count next time.                 *)
Release(c) ==
  /\ pc[c] = "releasing"
  /\ resolved' = resolved \cup {slot[c]}
  /\ lockReleases' = lockReleases + 1
  /\ fence' = [f \in Fence |->
                 IF Guard[c] = f /\ fence[f].valid
                 THEN [fence[f] EXCEPT !.expected = lockReleases + 1]
                 ELSE fence[f]]
  /\ pc' = [pc EXCEPT ![c] = "done"]
  /\ UNCHANGED <<tail, slot, entry, watchVars, ctxVars, dataVars, outcome, current>>

(* A statement that joins whatever transaction happens to be open. *)
PlainWrite(b) ==
  /\ Write(b)
  /\ UNCHANGED <<queueVars, watchVars, ctxVars, lockReleases, pc, outcome,
                 current, fence>>

(* Account teardown retires the lease behind every account guard. *)
Revoke ==
  /\ current /\ current' = FALSE
  /\ UNCHANGED <<queueVars, watchVars, ctxVars, dataVars, lockReleases, pc,
                 outcome, fence>>

-----------------------------------------------------------------------------
Enter(c) == EnterTx(c) \/ EnterLock(c) \/ EnterCapture(c)

(* What the runtime does on its own once a call is made. *)
Progress(c) ==
  \/ Enter(c) \/ Begin(c) \/ OwnerSettle(c) \/ ContextSettled(c)
  \/ Commit(c) \/ Rollback(c) \/ Release(c) \/ PassOn(c)

Timers(c) == DevDeadline(c) \/ Warn(c) \/ Escalate(c)

Next ==
  \/ \E c \in Caller : Claim(c) \/ Progress(c) \/ Timers(c) \/ OwnerWrite(c)
  \/ \E t \in Task : TaskWrite(t) \/ TaskSettle(t) \/ (\E c \in Caller : Register(t, c))
  \/ \E b \in Bystander : PlainWrite(b)
  \/ Revoke

Spec == Init /\ [][Next]_vars

(* Callbacks, tasks and statements settle, and timers fire; nobody is      *)
(* obliged to make a call, to write or to revoke.                          *)
Fairness ==
  /\ \A c \in Caller : WF_vars(Progress(c)) /\ WF_vars(DevDeadline(c))
                       /\ WF_vars(Warn(c)) /\ WF_vars(Escalate(c))
  /\ \A t \in Task : WF_vars(TaskSettle(t))

FairSpec == Spec /\ Fairness

-----------------------------------------------------------------------------
(* Properties. *)

(* At most one caller is between its grant and its release, whatever mix   *)
(* of transactions, write locks, captures and rejected claims is queued.   *)
MutualExclusion ==
  \A c, d \in Caller : pc[c] \in Holding /\ pc[d] \in Holding => c = d

(* A registered task runs only while the SQL transaction open on the       *)
(* connection is the one it registered in: the owner waits for it whether  *)
(* or not anyone awaits it, and even when the callback itself has thrown.  *)
TasksStayInside ==
  \A t \in Task : status[t] = "running" => sql = ctx[t] /\ sql # None

(* A transaction that reported success has every statement of its callback *)
(* and of its tasks durable; one that reported an error has none; and no   *)
(* failed or late task is ever hidden behind a success.                    *)
AllOrNothing ==
  \A c \in Caller : Op[c] = "tx" /\ pc[c] = "done" =>
    IF outcome[c] = "ok"
    THEN /\ TasksOf(c, "failed") = {} /\ ~violation[c]
         /\ ({c} \cup TasksOf(c, "ok")) \cap issued \subseteq committed
    ELSE ({c} \cup TasksOf(c, "ok") \cup TasksOf(c, "failed"))
           \cap (committed \cup uncommitted) = {}

(* Work done under withDbWriteLock never joins a neighbour's transaction,  *)
(* so no rollback can take it back (PRAGMA rekey, cache cleanup).          *)
LockedWritesAreDurable ==
  \A c \in Caller : Op[c] = "lock" => c \notin uncommitted

(* Once the account is revoked, a guarded transaction whose COMMIT was not *)
(* already sent never succeeds, however far it had got.                    *)
RevokedNeverCommits ==
  \A c \in Caller :
    [](/\ ~current /\ Op[c] = "tx" /\ Guard[c] # NoGuard
       /\ pc[c] \notin {"committing", "releasing", "done"}
       => [](outcome[c] # "ok" \/ pc[c] \notin {"committing", "releasing", "done"}))

(* A transaction of a fenced sequence runs only if no stranger has held    *)
(* the queue since the fence was captured.                                 *)
FenceExclusive ==
  \A c \in Caller : Op[c] = "tx" /\ Guard[c] \in Fence /\ pc[c] \in SqlOpen
    => ~fence[Guard[c]].foreign

(* In a release build the watchdog is right both ways.  It reports a wedge *)
(* only if the caller that was next to release when the waiter joined has  *)
(* still not released: a queue that is deep but moving is never called a   *)
(* wedge.  And a claim awaited inside its own holder, which never returns, *)
(* is reported.                                                            *)
WatchdogIsRight ==
  /\ [][\A c \in Caller : timer[c] = "warned" /\ timer'[c] = "spent"
                          /\ ~wedgeReported /\ wedgeReported' =>
          \E d \in Caller : /\ slot[d] = entry[c] + 1 /\ slot[d] < slot[c]
                            /\ pc[d] \in Holding \cup {"parked"}]_vars
  /\ \A c \in Caller : Parent[c] # None /\ pc[c] = "parked" ~> wedgeReported

(* Without a nested claim, or in a development build, whoever joins the    *)
(* queue leaves it: a failure anywhere still hands the lock on.            *)
EveryClaimSettles ==
  \A c \in Caller : pc[c] = "parked" ~> pc[c] = "done"

=============================================================================
