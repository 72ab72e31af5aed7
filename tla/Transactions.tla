------------------------------ MODULE Transactions -----------------------------
(* transaction() of the query client (packages/query, packages/retry): attempts *)
(* of one body, each on a session of its own lease, with hooks, commit,         *)
(* rollback and the retry loop around them, for callers that share one client.  *)
(* The session pool is what SessionPool promises: whoever waits is served, and  *)
(* a dead session that comes back is replaced.                                  *)
EXTENDS Naturals, FiniteSets

CONSTANTS
    Client,         \* concurrent calls of transaction()
    Idempotent,     \* those of them that opted into idempotent retries
    Session,        \* sessions of the pool
    LateHooks,      \* TRUE: another attempt may begin before a body registers its hook
    HookErrors,     \* classes of error rollback and close hooks may throw
    LostAs,         \* classes of error a lost answer to a commit may come as
    MaxFaults       \* bound: failures of every kind

ASSUME TransactionsAssumption ==
    /\ Idempotent \subseteq Client
    /\ LateHooks \in BOOLEAN
    /\ HookErrors \subseteq {"retryable", "conditional", "fatal"}
    /\ LostAs \subseteq {"retryable", "conditional", "fatal"}
    /\ MaxFaults \in Nat

VARIABLES
    phase,      \* where each call's attempt stands
    lease,      \* the session leased to it
    alive,      \* sessions whose signal has not aborted
    error,      \* class of the attempt's error
    died,       \* sessionDiedLastAttempt
    outcome,    \* what the caller was told
    carrier,    \* whose attempt the shared tx function carries
    registered, \* the running body has registered a commit hook
    hooks,      \* commit hooks in the lists of the running attempts, by body
    applied,    \* commits of each call the server has applied
    faults      \* failures so far

attemptVars == <<phase, lease, error, died>>
hookVars == <<carrier, registered, hooks>>
vars == <<attemptVars, alive, outcome, hookVars, applied, faults>>

Class == {"retryable", "conditional", "fatal"}
None == "none"
Idle(s) == \A c \in Client : lease[c] # s
Aborted(c) == outcome[c] = "aborted"
SignalAborted(c) == Aborted(c) \/ lease[c] \notin alive

To(c, next) == phase' = [phase EXCEPT ![c] = next]

Fault ==
    /\ faults < MaxFaults
    /\ faults' = faults + 1

\* isRetryableError and the retry callback.
Retries_Died(c, class) ==
    \/ class = "retryable"
    \/ class = "conditional" /\ c \in Idempotent
    \/ died[c]

Retries(c, class) ==
    \/ class = "retryable"
    \/ class = "conditional" /\ c \in Idempotent
    \/ died[c] /\ c \in Idempotent

Ends_KeepsLease(c, class) ==
    /\ lease' = IF class = None THEN [lease EXCEPT ![c] = None] ELSE lease
    /\ alive' = IF class = None /\ lease[c] # None THEN alive \cup {lease[c]} ELSE alive
    /\ died' = [died EXCEPT ![c] = FALSE]
    /\ IF class # None /\ ~Aborted(c) /\ Retries(c, class)
       THEN To(c, "acquiring") /\ UNCHANGED outcome
       ELSE /\ To(c, "done")
            /\ outcome' = IF Aborted(c) THEN outcome
                          ELSE [outcome EXCEPT ![c] = IF class = None THEN "ok" ELSE "failed"]

\* The end of an attempt: the lease goes back to the pool, the loop decides.
\* None is the class of success. An attempt whose caller has gone ends for itself.
Ends(c, class) ==
    /\ lease' = [lease EXCEPT ![c] = None]
    /\ alive' = IF lease[c] = None THEN alive ELSE alive \cup {lease[c]}
    /\ died' = [died EXCEPT ![c] = FALSE]
    /\ IF class # None /\ ~Aborted(c) /\ Retries(c, class)
       THEN To(c, "acquiring") /\ UNCHANGED outcome
       ELSE /\ To(c, "done")
            /\ outcome' = IF Aborted(c) THEN outcome
                          ELSE [outcome EXCEPT ![c] = IF class = None THEN "ok" ELSE "failed"]

Errs(c, class) == error' = [error EXCEPT ![c] = class]

\* The catch block begins: was it the session?
Catches(c, class) ==
    /\ Errs(c, class)
    /\ died' = [died EXCEPT ![c] = lease[c] \notin alive]
    /\ To(c, "rollbackHooks")
    /\ UNCHANGED <<lease, alive, outcome>>

--------------------------------------------------------------------------------
Start(c) ==
    /\ phase[c] = "idle"
    /\ To(c, "acquiring")
    /\ UNCHANGED <<lease, error, died, alive, outcome, hookVars, applied, faults>>

Acquire(c, s) ==
    /\ phase[c] = "acquiring"
    /\ s \in alive /\ Idle(s)
    /\ lease' = [lease EXCEPT ![c] = s]
    /\ To(c, "beginning")
    /\ UNCHANGED <<error, died, alive, outcome, hookVars, applied, faults>>

\* Failures of acquire and of beginTransaction are outside the try block: the
\* session's death is not looked at.
AcquireFails(c, class) ==
    /\ phase[c] = "acquiring"
    /\ Fault
    /\ Errs(c, class)
    /\ Ends(c, class)
    /\ UNCHANGED <<hookVars, applied>>

\* The transaction is open: its fields go into the function all bodies share,
\* and the body runs up to its first await.
BeginSucceeds(c, early) ==
    /\ phase[c] = "beginning"
    /\ ~SignalAborted(c)
    /\ carrier' = c
    /\ registered' = [registered EXCEPT ![c] = early]
    /\ hooks' = [hooks EXCEPT ![c] = IF early THEN {c} ELSE {}]
    /\ To(c, "body")
    /\ UNCHANGED <<lease, error, died, alive, outcome, applied, faults>>

BeginFails(c, class) ==
    /\ phase[c] = "beginning"
    /\ IF SignalAborted(c) THEN class = "fatal" /\ UNCHANGED faults ELSE Fault
    /\ Errs(c, class)
    /\ Ends(c, class)
    /\ UNCHANGED <<hookVars, applied>>

\* onCommit after an await: tx is the one function, its lists are those of the
\* attempt that began last. A list that has been run is not looked at again.
Registers(c) ==
    /\ phase[c] = "body"
    /\ LateHooks \/ carrier = c
    /\ ~registered[c]
    /\ registered' = [registered EXCEPT ![c] = TRUE]
    /\ hooks' = [hooks EXCEPT ![carrier] = IF phase[carrier] = "body" THEN @ \cup {c} ELSE @]
    /\ UNCHANGED <<attemptVars, carrier, alive, outcome, applied, faults>>

BodyReturns(c) ==
    /\ phase[c] = "body"
    /\ To(c, "commitHooks")
    /\ UNCHANGED <<lease, error, died, alive, outcome, hookVars, applied, faults>>

BodyThrows(c, class) ==
    /\ phase[c] = "body"
    /\ IF SignalAborted(c) THEN class = "fatal" /\ UNCHANGED faults ELSE Fault
    /\ Catches(c, class)
    /\ UNCHANGED <<hookVars, applied>>

CommitHooksRun(c) ==
    /\ phase[c] = "commitHooks"
    /\ To(c, "committing")
    /\ UNCHANGED <<lease, error, died, alive, outcome, hookVars, applied, faults>>

CommitHookThrows(c, class) ==
    /\ phase[c] = "commitHooks"
    /\ Fault
    /\ Catches(c, class)
    /\ UNCHANGED <<hookVars, applied>>

CommitSucceeds(c) ==
    /\ phase[c] = "committing"
    /\ ~SignalAborted(c)
    /\ applied' = [applied EXCEPT ![c] = @ + 1]
    /\ error' = [error EXCEPT ![c] = None]
    /\ To(c, "closeHooks")
    /\ UNCHANGED <<lease, died, alive, outcome, hookVars, faults>>

\* A status other than SUCCESS: the server has not applied the transaction.
CommitRefused(c, class) ==
    /\ phase[c] = "committing"
    /\ ~SignalAborted(c)
    /\ Fault
    /\ Catches(c, class)
    /\ UNCHANGED <<hookVars, applied>>

\* No answer, or UNDETERMINED: it may have been applied. The abort of the signal
\* comes before the call as well as during it.
CommitUnanswered(c, class, stored) ==
    /\ phase[c] = "committing"
    /\ IF SignalAborted(c) THEN class = "fatal" /\ UNCHANGED faults
       ELSE class \in LostAs /\ Fault
    /\ applied' = [applied EXCEPT ![c] = @ + IF stored THEN 1 ELSE 0]
    /\ Catches(c, class)
    /\ UNCHANGED hookVars

\* The rollback is sent and not awaited; what is not committed has no effect.
RollbackHooksRun(c) ==
    /\ phase[c] = "rollbackHooks"
    /\ To(c, "closeHooks")
    /\ UNCHANGED <<lease, error, died, alive, outcome, hookVars, applied, faults>>

RollbackHookThrows(c, class) ==
    /\ phase[c] = "rollbackHooks"
    /\ class \in HookErrors
    /\ Fault
    /\ Errs(c, class)
    /\ To(c, "closeHooks")
    /\ UNCHANGED <<lease, died, alive, outcome, hookVars, applied>>

CloseHooksRun(c) ==
    /\ phase[c] = "closeHooks"
    /\ Ends(c, error[c])
    /\ UNCHANGED <<error, hookVars, applied, faults>>

CloseHookThrows(c, class) ==
    /\ phase[c] = "closeHooks"
    /\ class \in HookErrors
    /\ Fault
    /\ Errs(c, class)
    /\ Ends(c, class)
    /\ UNCHANGED <<hookVars, applied>>

--------------------------------------------------------------------------------
\* The caller's signal: transaction() rejects at once, the attempt goes on.
Abort(c) ==
    /\ phase[c] \notin {"idle", "done"}
    /\ outcome[c] = None
    /\ outcome' = [outcome EXCEPT ![c] = "aborted"]
    /\ To(c, IF phase[c] = "acquiring" THEN "done" ELSE phase[c])
    /\ UNCHANGED <<lease, error, died, alive, hookVars, applied, faults>>

SessionDies(s) ==
    /\ s \in alive
    /\ ~Idle(s)
    /\ Fault
    /\ alive' = alive \ {s}
    /\ UNCHANGED <<attemptVars, outcome, hookVars, applied>>

--------------------------------------------------------------------------------
Init ==
    /\ phase = [c \in Client |-> "idle"]
    /\ lease = [c \in Client |-> None]
    /\ alive = Session
    /\ error = [c \in Client |-> None]
    /\ died = [c \in Client |-> FALSE]
    /\ outcome = [c \in Client |-> None]
    /\ carrier \in Client
    /\ registered = [c \in Client |-> FALSE]
    /\ hooks = [c \in Client |-> {}]
    /\ applied = [c \in Client |-> 0]
    /\ faults = 0

\* The steps of an attempt, the answers of the server among them.
Attempt(c) ==
    \/ \E class \in Class :
         \/ AcquireFails(c, class)
         \/ BeginFails(c, class)
         \/ BodyThrows(c, class)
         \/ CommitHookThrows(c, class)
         \/ CommitRefused(c, class)
         \/ \E stored \in BOOLEAN : CommitUnanswered(c, class, stored)
         \/ RollbackHookThrows(c, class)
         \/ CloseHookThrows(c, class)
    \/ \E early \in BOOLEAN : BeginSucceeds(c, early)
    \/ BodyReturns(c)
    \/ CommitHooksRun(c)
    \/ CommitSucceeds(c)
    \/ RollbackHooksRun(c)
    \/ CloseHooksRun(c)

Next ==
    \/ \E c \in Client :
         \/ Start(c)
         \/ \E s \in Session : Acquire(c, s)
         \/ Attempt(c)
         \/ Registers(c)
         \/ Abort(c)
    \/ \E s \in Session : SessionDies(s)

Spec == Init /\ [][Next]_vars

(* Bodies and hooks return, calls to the server are answered or fail, and the   *)
(* pool serves whoever waits.                                                   *)
Fairness ==
    \A c \in Client :
        /\ WF_vars(Attempt(c))
        /\ SF_vars(\E s \in Session : Acquire(c, s))

FairSpec == Spec /\ Fairness

--------------------------------------------------------------------------------
TypeOK ==
    /\ phase \in [Client -> {"idle", "acquiring", "beginning", "body", "commitHooks",
                             "committing", "rollbackHooks", "closeHooks", "done"}]
    /\ lease \in [Client -> Session \cup {None}]
    /\ alive \subseteq Session
    /\ error \in [Client -> Class \cup {None}]
    /\ died \in [Client -> BOOLEAN]
    /\ outcome \in [Client -> {None, "ok", "failed", "aborted"}]
    /\ carrier \in Client
    /\ registered \in [Client -> BOOLEAN]
    /\ hooks \in [Client -> SUBSET Client]
    /\ applied \in [Client -> Nat]
    /\ faults \in 0..MaxFaults

(* What the caller is told is what happened: success means committed, and a     *)
(* call that did not opt into idempotent retries is never applied twice,        *)
(* whatever was lost and whichever session died on the way.                     *)
Truthful ==
    \A c \in Client :
        /\ outcome[c] = "ok" => applied[c] >= 1
        /\ c \notin Idempotent => applied[c] <= 1

(* Every call of transaction() ends, and its session is back in the pool.       *)
Settles ==
    \A c \in Client :
        (phase[c] # "idle") ~> (phase[c] = "done" /\ lease[c] = None /\ outcome[c] # None)

(* A transaction is committed only after the hooks its body registered have     *)
(* run: a topic writer inside it is flushed by such a hook.                     *)
OwnHooks ==
    \A c \in Client : phase[c] = "committing" /\ registered[c] => c \in hooks[c]

================================================================================
