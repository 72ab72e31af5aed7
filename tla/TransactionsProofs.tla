--------------------------- MODULE TransactionsProofs --------------------------
(* Proofs about Transactions, for every set of callers and sessions and every   *)
(* bound: a transaction that was not declared idempotent is applied at most     *)
(* once, and whoever is told of success had it applied.                         *)
EXTENDS Transactions, TLAPS

(* The classes of error for which the code cannot keep the promise, since they  *)
(* are retried whatever the caller said, come neither from hooks nor in place   *)
(* of a commit's answer.                                                        *)
SafeErrors == "retryable" \notin HookErrors \cup LostAs

\* Where nothing of a transaction that may not be repeated has been applied.
Before == {"idle", "acquiring", "beginning", "body", "commitHooks", "committing"}

\* The steps before the commit's answer find the transaction unapplied; after it
\* an applied one carries an error that ends the loop, or none.
AppliedOnce(c) ==
    c \notin Idempotent =>
        /\ applied[c] <= 1
        /\ phase[c] \in Before => applied[c] = 0
        /\ applied[c] = 1 /\ phase[c] # "done" => error[c] # "retryable"

\* An attempt with no error behind its commit has committed.
SuccessIsCommit(c) ==
    /\ phase[c] = "rollbackHooks" => error[c] # None
    /\ phase[c] = "closeHooks" /\ error[c] = None => applied[c] >= 1
    /\ outcome[c] = "ok" => applied[c] >= 1

CallInv(c) == AppliedOnce(c) /\ SuccessIsCommit(c)

TxInv ==
    /\ TypeOK
    /\ \A c \in Client : CallInv(c)

\* What one call's invariant depends on.
Same(c) ==
    /\ phase'[c] = phase[c]
    /\ error'[c] = error[c]
    /\ outcome'[c] = outcome[c]
    /\ applied'[c] = applied[c]

--------------------------------------------------------------------------------
(* Every step keeps the shape of the state.                                     *)
LEMMA TypeStep == TypeOK /\ [Next]_vars => TypeOK'
<1> USE TransactionsAssumption DEF TypeOK, Class, To, Errs, Fault
<1> SUFFICES ASSUME TypeOK, [Next]_vars PROVE TypeOK'
  OBVIOUS
<1> DEFINE P == {"idle", "acquiring", "beginning", "body", "commitHooks",
                 "committing", "rollbackHooks", "closeHooks", "done"}
<1>1. ASSUME NEW c \in Client, NEW class \in Class \cup {None}, Ends(c, class)
      PROVE  /\ phase' \in [Client -> P]
             /\ lease' \in [Client -> Session \cup {None}]
             /\ alive' \subseteq Session
             /\ died' \in [Client -> BOOLEAN]
             /\ outcome' \in [Client -> {None, "ok", "failed", "aborted"}]
  BY <1>1 DEF Ends
<1>2. ASSUME NEW c \in Client, NEW class \in Class, Catches(c, class)
      PROVE  /\ phase' \in [Client -> P]
             /\ error' \in [Client -> Class \cup {None}]
             /\ died' \in [Client -> BOOLEAN]
             /\ UNCHANGED <<lease, alive, outcome>>
  BY <1>2 DEF Catches
<1>3. ASSUME NEW c \in Client, Attempt(c) PROVE TypeOK'
  <2>1. ASSUME NEW class \in Class,
               \/ AcquireFails(c, class)
               \/ BeginFails(c, class)
               \/ CloseHookThrows(c, class)
        PROVE  TypeOK'
    BY <2>1, <1>1 DEF AcquireFails, BeginFails, CloseHookThrows, hookVars
  <2>2. ASSUME NEW class \in Class,
               \/ BodyThrows(c, class)
               \/ CommitHookThrows(c, class)
               \/ CommitRefused(c, class)
        PROVE  TypeOK'
    BY <2>2, <1>2 DEF BodyThrows, CommitHookThrows, CommitRefused, hookVars
  <2>3. ASSUME NEW class \in Class, NEW stored \in BOOLEAN, CommitUnanswered(c, class, stored)
        PROVE  TypeOK'
    <3>1. applied' \in [Client -> Nat]
      BY <2>3 DEF CommitUnanswered
    <3> QED
      BY <2>3, <3>1, <1>2 DEF CommitUnanswered, hookVars
  <2>4. ASSUME NEW class \in Class, RollbackHookThrows(c, class) PROVE TypeOK'
    BY <2>4 DEF RollbackHookThrows, hookVars
  <2>5. ASSUME NEW early \in BOOLEAN, BeginSucceeds(c, early) PROVE TypeOK'
    BY <2>5 DEF BeginSucceeds
  <2>6. CASE BodyReturns(c)
    BY <2>6 DEF BodyReturns, hookVars
  <2>7. CASE CommitHooksRun(c)
    BY <2>7 DEF CommitHooksRun, hookVars
  <2>8. CASE CommitSucceeds(c)
    BY <2>8 DEF CommitSucceeds, hookVars
  <2>9. CASE RollbackHooksRun(c)
    BY <2>9 DEF RollbackHooksRun, hookVars
  <2>10. CASE CloseHooksRun(c)
    <3>1. error[c] \in Class \cup {None}
      OBVIOUS
    <3> QED
      BY <2>10, <3>1, <1>1 DEF CloseHooksRun, hookVars
  <2> QED
    BY <1>3, <2>1, <2>2, <2>3, <2>4, <2>5, <2>6, <2>7, <2>8, <2>9, <2>10 DEF Attempt
<1>4. ASSUME NEW c \in Client, Start(c) PROVE TypeOK'
  BY <1>4 DEF Start, hookVars
<1>5. ASSUME NEW c \in Client, NEW s \in Session, Acquire(c, s) PROVE TypeOK'
  BY <1>5 DEF Acquire, hookVars
<1>6. ASSUME NEW c \in Client, Registers(c) PROVE TypeOK'
  BY <1>6 DEF Registers, attemptVars
<1>7. ASSUME NEW c \in Client, Abort(c) PROVE TypeOK'
  BY <1>7 DEF Abort, hookVars
<1>8. ASSUME NEW s \in Session, SessionDies(s) PROVE TypeOK'
  BY <1>8 DEF SessionDies, attemptVars, hookVars
<1>9. CASE UNCHANGED vars
  BY <1>9 DEF vars, attemptVars, hookVars
<1> QED
  BY <1>3, <1>4, <1>5, <1>6, <1>7, <1>8, <1>9 DEF Next

--------------------------------------------------------------------------------
(* A step that leaves a call alone keeps its invariant.                         *)
LEMMA SameKeeps ==
    ASSUME NEW c \in Client, CallInv(c), Same(c)
    PROVE  CallInv(c)'
BY DEF CallInv, AppliedOnce, SuccessIsCommit, Same

(* The end of an attempt: only an error that may be retried runs the body again, *)
(* and success is told without one only.                                        *)
LEMMA EndsKeeps ==
    ASSUME TypeOK, NEW c \in Client, NEW class \in Class \cup {None}, CallInv(c),
           Ends(c, class), error'[c] = class, applied'[c] = applied[c],
           class = None => applied[c] >= 1,
           c \notin Idempotent /\ applied[c] = 1 => class # "retryable"
    PROVE  CallInv(c)'
<1> USE DEF TypeOK, Ends, To, Class, None, Aborted
<1>1. /\ phase'[c] \in {"acquiring", "done"}
      /\ phase'[c] = "acquiring" => Retries(c, class)
      /\ outcome'[c] = "ok" => outcome[c] = "ok" \/ class = None
  OBVIOUS
<1>2. applied[c] \in Nat
  OBVIOUS
<1>3. SuccessIsCommit(c)'
  BY <1>1 DEF CallInv, SuccessIsCommit
<1>4. ASSUME c \notin Idempotent PROVE AppliedOnce(c)'
  <2>1. phase'[c] = "acquiring" => class = "retryable"
    BY <1>1, <1>4 DEF Retries
  <2>2. applied[c] <= 1
    BY <1>4 DEF CallInv, AppliedOnce
  <2> QED
    BY <1>1, <1>2, <2>1, <2>2 DEF AppliedOnce, Before
<1> QED
  BY <1>3, <1>4 DEF CallInv, AppliedOnce

(* The catch block: what was applied is known not to be retried.                *)
LEMMA CatchesKeeps ==
    ASSUME TypeOK, NEW c \in Client, NEW class \in Class, CallInv(c),
           Catches(c, class), applied'[c] \in Nat,
           c \notin Idempotent => applied'[c] <= 1,
           c \notin Idempotent /\ applied'[c] = 1 => class # "retryable",
           applied'[c] >= applied[c]
    PROVE  CallInv(c)'
<1>1. /\ phase'[c] = "rollbackHooks"
      /\ error'[c] = class
      /\ outcome'[c] = outcome[c]
      /\ class # None
  BY DEF TypeOK, Catches, To, Errs, Class, None
<1>2. applied[c] \in Nat
  BY DEF TypeOK
<1> QED
  BY <1>1, <1>2 DEF CallInv, AppliedOnce, SuccessIsCommit, Before

--------------------------------------------------------------------------------
(* One step of a call keeps that call's invariant.                              *)
LEMMA AttemptKeeps ==
    ASSUME SafeErrors, TypeOK, NEW c \in Client, CallInv(c), Attempt(c)
    PROVE  CallInv(c)'
<1> USE DEF TypeOK
<1>1. applied[c] \in Nat
  OBVIOUS
<1>2. ASSUME NEW class \in Class,
             \/ AcquireFails(c, class)
             \/ BeginFails(c, class)
      PROVE  CallInv(c)'
  <2>1. /\ Ends(c, class)
        /\ error'[c] = class
        /\ applied'[c] = applied[c]
        /\ phase[c] \in Before
        /\ class # None
    BY <1>2 DEF AcquireFails, BeginFails, Errs, Before, Class, None
  <2>2. c \notin Idempotent => applied[c] = 0
    BY <2>1 DEF CallInv, AppliedOnce
  <2> QED
    BY <2>1, <2>2, EndsKeeps
<1>3. ASSUME NEW class \in Class, CloseHookThrows(c, class) PROVE CallInv(c)'
  <2>1. /\ Ends(c, class)
        /\ error'[c] = class
        /\ applied'[c] = applied[c]
        /\ class # "retryable"
        /\ class # None
    BY <1>3 DEF CloseHookThrows, Errs, SafeErrors, Class, None
  <2> QED
    BY <2>1, EndsKeeps
<1>4. CASE CloseHooksRun(c)
  <2>1. /\ Ends(c, error[c])
        /\ error'[c] = error[c]
        /\ applied'[c] = applied[c]
        /\ phase[c] = "closeHooks"
    BY <1>4 DEF CloseHooksRun
  <2>2. error[c] \in Class \cup {None}
    OBVIOUS
  <2>3. error[c] = None => applied[c] >= 1
    BY <2>1 DEF CallInv, SuccessIsCommit
  <2>4. c \notin Idempotent /\ applied[c] = 1 => error[c] # "retryable"
    BY <2>1 DEF CallInv, AppliedOnce
  <2> QED
    BY <2>1, <2>2, <2>3, <2>4, EndsKeeps
<1>5. ASSUME NEW class \in Class,
             \/ BodyThrows(c, class)
             \/ CommitHookThrows(c, class)
             \/ CommitRefused(c, class)
      PROVE  CallInv(c)'
  <2>1. /\ Catches(c, class)
        /\ applied'[c] = applied[c]
        /\ phase[c] \in Before
    BY <1>5 DEF BodyThrows, CommitHookThrows, CommitRefused, Before
  <2>2. c \notin Idempotent => applied[c] = 0
    BY <2>1 DEF CallInv, AppliedOnce
  <2> QED
    BY <1>1, <2>1, <2>2, CatchesKeeps
<1>6. ASSUME NEW class \in Class, NEW stored \in BOOLEAN, CommitUnanswered(c, class, stored)
      PROVE  CallInv(c)'
  <2>1. /\ Catches(c, class)
        /\ phase[c] \in Before
        /\ class # "retryable"
    BY <1>6 DEF CommitUnanswered, Before, SafeErrors
  <2>2. applied'[c] = applied[c] \/ applied'[c] = applied[c] + 1
    BY <1>6, <1>1 DEF CommitUnanswered
  <2>3. c \notin Idempotent => applied[c] = 0
    BY <2>1 DEF CallInv, AppliedOnce
  <2> QED
    BY <1>1, <2>1, <2>2, <2>3, CatchesKeeps
<1>7. ASSUME NEW class \in Class, RollbackHookThrows(c, class) PROVE CallInv(c)'
  <2>1. /\ phase'[c] = "closeHooks"
        /\ error'[c] = class
        /\ class # "retryable"
        /\ class # None
        /\ applied'[c] = applied[c]
        /\ outcome'[c] = outcome[c]
    BY <1>7 DEF RollbackHookThrows, To, Errs, SafeErrors, Class, None, hookVars
  <2> QED
    BY <2>1 DEF CallInv, AppliedOnce, SuccessIsCommit, Before
<1>8. ASSUME NEW early \in BOOLEAN, BeginSucceeds(c, early) PROVE CallInv(c)'
  <2>1. /\ phase[c] = "beginning"
        /\ phase'[c] = "body"
        /\ UNCHANGED <<error, applied, outcome>>
    BY <1>8 DEF BeginSucceeds, To
  <2> QED
    BY <2>1 DEF CallInv, AppliedOnce, SuccessIsCommit, Before
<1>9. CASE BodyReturns(c)
  <2>1. /\ phase[c] = "body"
        /\ phase'[c] = "commitHooks"
        /\ UNCHANGED <<error, applied, outcome>>
    BY <1>9 DEF BodyReturns, To
  <2> QED
    BY <2>1 DEF CallInv, AppliedOnce, SuccessIsCommit, Before
<1>10. CASE CommitHooksRun(c)
  <2>1. /\ phase[c] = "commitHooks"
        /\ phase'[c] = "committing"
        /\ UNCHANGED <<error, applied, outcome>>
    BY <1>10 DEF CommitHooksRun, To
  <2> QED
    BY <2>1 DEF CallInv, AppliedOnce, SuccessIsCommit, Before
<1>11. CASE CommitSucceeds(c)
  <2>1. /\ phase[c] = "committing"
        /\ phase'[c] = "closeHooks"
        /\ error'[c] = None
        /\ applied'[c] = applied[c] + 1
        /\ UNCHANGED outcome
    BY <1>11 DEF CommitSucceeds, To
  <2>2. c \notin Idempotent => applied[c] = 0
    BY <2>1 DEF CallInv, AppliedOnce, Before
  <2> QED
    BY <1>1, <2>1, <2>2 DEF CallInv, AppliedOnce, SuccessIsCommit, Before, None
<1>12. CASE RollbackHooksRun(c)
  <2>1. /\ phase[c] = "rollbackHooks"
        /\ phase'[c] = "closeHooks"
        /\ UNCHANGED <<error, applied, outcome>>
    BY <1>12 DEF RollbackHooksRun, To
  <2> QED
    BY <2>1 DEF CallInv, AppliedOnce, SuccessIsCommit, Before
<1> QED
  BY <1>2, <1>3, <1>4, <1>5, <1>6, <1>7, <1>8, <1>9, <1>10, <1>11, <1>12 DEF Attempt

(* Nobody else's step touches it.                                               *)
LEMMA OthersKeep ==
    ASSUME TypeOK, NEW c \in Client, NEW d \in Client \ {c}, Attempt(d)
    PROVE  Same(c)
<1> USE DEF TypeOK, Same, To, Errs, hookVars
<1>1. ASSUME NEW class \in Class \cup {None}, Ends(d, class)
      PROVE  phase'[c] = phase[c] /\ outcome'[c] = outcome[c]
  BY <1>1 DEF Ends
<1>2. ASSUME NEW class \in Class, Catches(d, class)
      PROVE  phase'[c] = phase[c] /\ outcome'[c] = outcome[c] /\ error'[c] = error[c]
  BY <1>2 DEF Catches
<1>3. ASSUME NEW class \in Class,
             \/ AcquireFails(d, class)
             \/ BeginFails(d, class)
             \/ CloseHookThrows(d, class)
      PROVE  Same(c)
  BY <1>3, <1>1 DEF AcquireFails, BeginFails, CloseHookThrows
<1>4. ASSUME NEW class \in Class,
             \/ BodyThrows(d, class)
             \/ CommitHookThrows(d, class)
             \/ CommitRefused(d, class)
      PROVE  Same(c)
  BY <1>4, <1>2 DEF BodyThrows, CommitHookThrows, CommitRefused
<1>5. ASSUME NEW class \in Class, NEW stored \in BOOLEAN, CommitUnanswered(d, class, stored)
      PROVE  Same(c)
  BY <1>5, <1>2 DEF CommitUnanswered
<1>6. ASSUME NEW class \in Class, RollbackHookThrows(d, class) PROVE Same(c)
  BY <1>6 DEF RollbackHookThrows
<1>7. ASSUME NEW early \in BOOLEAN, BeginSucceeds(d, early) PROVE Same(c)
  BY <1>7 DEF BeginSucceeds
<1>8. CASE BodyReturns(d) \/ CommitHooksRun(d) \/ CommitSucceeds(d) \/ RollbackHooksRun(d)
  BY <1>8 DEF BodyReturns, CommitHooksRun, CommitSucceeds, RollbackHooksRun
<1>9. CASE CloseHooksRun(d)
  <2>1. error[d] \in Class \cup {None}
    OBVIOUS
  <2> QED
    BY <1>9, <2>1, <1>1 DEF CloseHooksRun
<1> QED
  BY <1>3, <1>4, <1>5, <1>6, <1>7, <1>8, <1>9 DEF Attempt

--------------------------------------------------------------------------------
(* The inductive invariant holds at the start.                                  *)
LEMMA InvInit == Init => TxInv
BY TransactionsAssumption DEF Init, TxInv, TypeOK, CallInv, AppliedOnce, SuccessIsCommit, None,
   Class, Before

(* Every step keeps it.                                                         *)
LEMMA InvStep == ASSUME SafeErrors PROVE TxInv /\ [Next]_vars => TxInv'
<1> SUFFICES ASSUME TxInv, [Next]_vars PROVE TxInv'
  OBVIOUS
<1>1. TypeOK /\ TypeOK'
  BY TypeStep DEF TxInv
<1>2. ASSUME NEW c \in Client PROVE CallInv(c)'
  <2>1. CallInv(c)
    BY DEF TxInv
  <2>2. ASSUME NEW d \in Client, Attempt(d) PROVE CallInv(c)'
    <3>1. CASE c = d
      BY <1>1, <2>1, <2>2, <3>1, AttemptKeeps
    <3>2. CASE c # d
      BY <1>1, <2>1, <2>2, <3>2, OthersKeep, SameKeeps
    <3> QED
      BY <3>1, <3>2
  <2>3. ASSUME NEW d \in Client,
               \/ Start(d)
               \/ \E s \in Session : Acquire(d, s)
        PROVE  CallInv(c)'
    <3>1. /\ \/ phase'[c] = phase[c]
             \/ phase[c] \in Before /\ phase'[c] \in {"acquiring", "beginning"}
          /\ UNCHANGED <<error, outcome, applied>>
      BY <1>1, <2>3 DEF Start, Acquire, To, TypeOK, Before
    <3> QED
      BY <2>1, <3>1 DEF CallInv, AppliedOnce, SuccessIsCommit, Before
  <2>4. ASSUME NEW d \in Client, Registers(d) PROVE CallInv(c)'
    BY <2>1, <2>4, SameKeeps DEF Registers, attemptVars, Same
  <2>5. ASSUME NEW d \in Client, Abort(d) PROVE CallInv(c)'
    <3>1. /\ phase'[c] = phase[c] \/ phase'[c] = "done"
          /\ outcome'[c] = outcome[c] \/ outcome'[c] = "aborted"
          /\ UNCHANGED <<error, applied>>
      BY <1>1, <2>5 DEF Abort, To, TypeOK
    <3> QED
      BY <2>1, <3>1 DEF CallInv, AppliedOnce, SuccessIsCommit, Before
  <2>6. ASSUME NEW s \in Session, SessionDies(s) PROVE CallInv(c)'
    BY <2>1, <2>6, SameKeeps DEF SessionDies, attemptVars, Same
  <2>7. CASE UNCHANGED vars
    BY <2>1, <2>7, SameKeeps DEF vars, attemptVars, Same
  <2> QED
    BY <2>2, <2>3, <2>4, <2>5, <2>6, <2>7 DEF Next
<1> QED
  BY <1>1, <1>2 DEF TxInv

--------------------------------------------------------------------------------
(* The state keeps its shape, for every set of callers and sessions.            *)
THEOREM TransactionsTypeCorrect == Spec => []TypeOK
<1>1. Init => TypeOK
  BY InvInit DEF TxInv
<1> QED
  BY <1>1, TypeStep, PTL DEF Spec

(* Success means committed, and what is not idempotent is applied at most once: *)
(* whichever answers are lost, sessions die and hooks throw, as long as hooks   *)
(* and lost answers do not come as errors the loop always retries.              *)
THEOREM TruthfulHolds == ASSUME SafeErrors PROVE Spec => []Truthful
<1>1. TxInv => Truthful
  BY DEF TxInv, CallInv, AppliedOnce, SuccessIsCommit, Truthful
<1>2. Init => TxInv
  BY InvInit
<1>3. TxInv /\ [Next]_vars => TxInv'
  BY InvStep
<1> QED
  BY <1>1, <1>2, <1>3, PTL DEF Spec

================================================================================
