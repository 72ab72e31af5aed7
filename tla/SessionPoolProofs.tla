------------------------- MODULE SessionPoolProofs -------------------------
(* What SessionPool guarantees for every number of clients, every maxSize,  *)
(* minSize and wait queue cap.                                              *)
EXTENDS SessionPool, FiniteSetTheorems, SequenceTheorems, TLAPS

-----------------------------------------------------------------------------
(* Sequences *)

\* splice(i, 1): what it leaves, position by position.
LEMMA WithoutIndexProps ==
  ASSUME NEW S, NEW seq \in Seq(S), NEW i \in 1 .. Len(seq)
  PROVE  /\ WithoutIndex(seq, i) \in Seq(S)
         /\ Len(WithoutIndex(seq, i)) = Len(seq) - 1
         /\ \A j \in 1 .. (Len(seq) - 1) :
              WithoutIndex(seq, i)[j] = IF j < i THEN seq[j] ELSE seq[j + 1]
<1> DEFINE l == SubSeq(seq, 1, i - 1)
           r == SubSeq(seq, i + 1, Len(seq))
<1>1. /\ l \in Seq(S) /\ Len(l) = i - 1
      /\ \A j \in 1 .. (i - 1) : l[j] = seq[j]
  OBVIOUS
<1>2. /\ r \in Seq(S) /\ Len(r) = Len(seq) - i
      /\ \A j \in 1 .. (Len(seq) - i) : r[j] = seq[i + j]
  OBVIOUS
<1>3. WithoutIndex(seq, i) = l \o r
  BY DEF WithoutIndex
<1> HIDE DEF l, r
<1>4. /\ l \o r \in Seq(S)
      /\ Len(l \o r) = Len(seq) - 1
      /\ \A j \in 1 .. (Len(seq) - 1) :
           (l \o r)[j] = IF j <= i - 1 THEN l[j] ELSE r[j - (i - 1)]
  <2>1. /\ l \o r \in Seq(S)
        /\ Len(l \o r) = Len(l) + Len(r)
        /\ \A j \in 1 .. Len(l) + Len(r) :
             (l \o r)[j] = IF j <= Len(l) THEN l[j] ELSE r[j - Len(l)]
    BY <1>1, <1>2, ConcatProperties, Zenon
  <2>2. Len(l) + Len(r) = Len(seq) - 1
    BY <1>1, <1>2
  <2> QED BY <2>1, <2>2, <1>1
<1>5. ASSUME NEW j \in 1 .. (Len(seq) - 1)
      PROVE  (l \o r)[j] = IF j < i THEN seq[j] ELSE seq[j + 1]
  <2>1. CASE j < i
    BY <2>1, <1>1, <1>4
  <2>2. CASE ~ (j < i)
    <3>1. j - (i - 1) \in 1 .. (Len(seq) - i) /\ i + (j - (i - 1)) = j + 1
      BY <2>2
    <3>2. r[j - (i - 1)] = seq[j + 1]
      BY <3>1, <1>2
    <3> QED BY <2>2, <3>2, <1>4
  <2> QED BY <2>1, <2>2
<1> QED BY <1>3, <1>4, <1>5

\* shift(): the first element and what it leaves, position by position.
LEMMA ShiftProps ==
  ASSUME NEW S, NEW seq \in Seq(S), seq # << >>
  PROVE  /\ Head(seq) \in S /\ Head(seq) = seq[1] /\ 1 \in 1 .. Len(seq)
         /\ Tail(seq) \in Seq(S)
         /\ Len(Tail(seq)) = Len(seq) - 1
         /\ \A j \in 1 .. Len(Tail(seq)) : j + 1 \in 1 .. Len(seq) /\ Tail(seq)[j] = seq[j + 1]
OBVIOUS

\* The stack below position i.
LEMMA PrefixProps ==
  ASSUME NEW S, NEW seq \in Seq(S), NEW i \in 1 .. Len(seq)
  PROVE  /\ SubSeq(seq, 1, i - 1) \in Seq(S)
         /\ Len(SubSeq(seq, 1, i - 1)) = i - 1
         /\ \A j \in 1 .. (i - 1) : SubSeq(seq, 1, i - 1)[j] = seq[j]
OBVIOUS

-----------------------------------------------------------------------------
(* Type correctness *)

LEMMA TypeInit == Init => TypeOK
BY PoolAssumption DEF Init, TypeOK, Life, ClientState

LEMMA TypeStep == TypeOK /\ [Next]_vars => TypeOK'
<1> SUFFICES ASSUME TypeOK, [Next]_vars PROVE TypeOK'
  OBVIOUS
<1> USE PoolAssumption DEF TypeOK, Life, ClientState, poolVars, sessionVars, clientVars
<1>1. ASSUME NEW c \in Client, AcquireIdle(c) PROVE TypeOK'
  BY <1>1 DEF AcquireIdle, DroppedAbove
<1>2. ASSUME NEW c \in Client, AcquireGrow(c) PROVE TypeOK'
  BY <1>2 DEF AcquireGrow, StartGrow, Opening, Drained, Fresh
<1>3. ASSUME NEW c \in Client, AcquireWait(c) PROVE TypeOK'
  BY <1>3 DEF AcquireWait, Drained
<1>4. ASSUME NEW c \in Client, AcquireRejected(c) PROVE TypeOK'
  BY <1>4 DEF AcquireRejected, Drained
<1>5. ASSUME NEW c \in Client, AbortWait(c) PROVE TypeOK'
  BY <1>5, WithoutIndexProps DEF AbortWait
<1>6. ASSUME NEW c \in Client, Granted(c) PROVE TypeOK'
  BY <1>6 DEF Granted
<1>7. ASSUME NEW c \in Client, ReleaseDead(c) PROVE TypeOK'
  BY <1>7 DEF ReleaseDead
<1>8. ASSUME NEW c \in Client, ReleaseIntoClosed(c) PROVE TypeOK'
  BY <1>8 DEF ReleaseIntoClosed, PublishClosed, Killed
<1>9. ASSUME NEW c \in Client, ReleaseToWaiter(c) PROVE TypeOK'
  <2>1. waiters # << >> /\ lease[c] \in Session
    BY <1>9, PoolAssumption DEF ReleaseToWaiter
  <2>2. /\ Head(waiters) \in Client /\ Tail(waiters) \in Seq(Client)
        /\ Len(Tail(waiters)) = Len(waiters) - 1
    BY <2>1, ShiftProps
  <2>3. pc' \in [Client -> ClientState] /\ lease' \in [Client -> Session \cup {NoSession}]
    BY <1>9, <2>1, <2>2 DEF ReleaseToWaiter
  <2>4. waiters' \in Seq(Client) /\ Len(waiters') <= MaxWaiters
    BY <1>9, <2>1, <2>2 DEF ReleaseToWaiter
  <2> QED BY <1>9, <2>3, <2>4 DEF ReleaseToWaiter
<1>10. ASSUME NEW c \in Client, ReleaseToIdle(c) PROVE TypeOK'
  BY <1>10 DEF ReleaseToIdle
<1>11. ASSUME NEW s \in Session, OpenSucceeds(s) PROVE TypeOK'
  BY <1>11 DEF OpenSucceeds
<1>12. ASSUME NEW s \in Session, OpenFails(s) PROVE TypeOK'
  BY <1>12 DEF OpenFails
<1>13. ASSUME NEW s \in Session, GrowResolves(s) PROVE TypeOK'
  BY <1>13 DEF GrowResolves
<1>14. ASSUME NEW s \in Session, GrowFindsClosed(s) PROVE TypeOK'
  BY <1>14 DEF GrowFindsClosed, Killed, OwnerGivesUp
<1>15. ASSUME NEW s \in Session, GrowRejects(s) PROVE TypeOK'
  BY <1>15 DEF GrowRejects, OwnerGivesUp
<1>16. ASSUME NEW s \in Session, Park(s) PROVE TypeOK'
  <2>1. CASE ParkClosed(s)
    BY <2>1 DEF ParkClosed
  <2>2. CASE ParkToWaiter(s)
    <3>1. /\ Head(waiters) \in Client /\ Tail(waiters) \in Seq(Client)
          /\ Len(Tail(waiters)) = Len(waiters) - 1
      BY <2>2, ShiftProps DEF ParkToWaiter
    <3>2. waiters' \in Seq(Client) /\ Len(waiters') <= MaxWaiters
      BY <2>2, <3>1 DEF ParkToWaiter
    <3> QED BY <2>2, <3>1, <3>2 DEF ParkToWaiter
  <2>3. CASE ParkIdle(s)
    BY <2>3 DEF ParkIdle
  <2> QED BY <1>16, <2>1, <2>2, <2>3 DEF Park
<1>17. ASSUME NEW s \in Session, BreakUnbound(s) PROVE TypeOK'
  BY <1>17 DEF BreakUnbound
<1>18. ASSUME NEW s \in Session, Evict(s) PROVE TypeOK'
  <2>1. PICK P \in SUBSET Fresh, W \in SUBSET Fresh :
          EvictStarting(s, P, W)
    BY <1>18 DEF Evict, EvictStarting
  <2>2. P \subseteq Session /\ W \subseteq Session
    BY DEF Fresh
  <2>3. P # {} => waiters # << >>
    <3>1. IsFiniteSet(P)
      BY <2>2, FS_Subset, PoolAssumption
    <3>2. PumpSize(Survivors(s)) # 0 => waiters # << >>
      BY DEF PumpSize
    <3> QED BY <2>1, <3>1, <3>2, FS_EmptySet DEF EvictStarting
  <2>4. available' \in Seq(Session)
    BY <2>1, WithoutIndexProps DEF EvictStarting
  <2>5. CASE P = {}
    BY <2>1, <2>2, <2>4, <2>5 DEF EvictStarting, Survivors
  <2>6. CASE P # {}
    <3>1. /\ Head(waiters) \in Client /\ Tail(waiters) \in Seq(Client)
          /\ Len(Tail(waiters)) = Len(waiters) - 1
      BY <2>3, <2>6, ShiftProps
    <3>2. waiters' \in Seq(Client) /\ Len(waiters') <= MaxWaiters
      BY <2>1, <2>6, <3>1 DEF EvictStarting
    <3>3. owner' \in [Session -> Client \cup {Warmup}] /\ pc' \in [Client -> ClientState]
      BY <2>1, <2>6, <3>1 DEF EvictStarting
    <3> QED BY <2>1, <2>2, <2>4, <3>2, <3>3 DEF EvictStarting, Survivors
  <2> QED BY <2>5, <2>6
<1>19. ASSUME Close PROVE TypeOK'
  BY <1>19 DEF Close
<1>20. ASSUME CloseSweeps PROVE TypeOK'
  BY <1>20 DEF CloseSweeps, PublishClosed, Killed
<1>21. CASE UNCHANGED vars
  BY <1>21 DEF vars
<1> QED
  BY <1>1, <1>2, <1>3, <1>4, <1>5, <1>6, <1>7, <1>8, <1>9, <1>10, <1>11, <1>12, <1>13,
     <1>14, <1>15, <1>16, <1>17, <1>18, <1>19, <1>20, <1>21
  DEF Next, Acquire, Release, Settle, Resume

\* TypeOK: the state keeps its shape, and #waiters never exceeds its cap.
THEOREM TypeCorrect == Spec => []TypeOK
<1>1. TypeOK /\ [Next]_vars => TypeOK'
  BY TypeStep
<1> QED BY TypeInit, <1>1, PTL DEF Spec

-----------------------------------------------------------------------------
(* Capacity *)

LEMMA FiniteSessions ==
  ASSUME NEW X \in SUBSET Session
  PROVE  IsFiniteSet(X) /\ Cardinality(X) \in Nat
BY PoolAssumption, FS_Subset, FS_CardinalityType

\* The number of sessions in a union is at most the sum.
LEMMA UnionBound ==
  ASSUME NEW X \in SUBSET Session, NEW Y \in SUBSET Session
  PROVE  Cardinality(X \cup Y) <= Cardinality(X) + Cardinality(Y)
<1>1. IsFiniteSet(X) /\ IsFiniteSet(Y)
  BY FiniteSessions
<1>2. Cardinality(X \cup Y) = Cardinality(X) + Cardinality(Y) - Cardinality(X \cap Y)
  BY <1>1, FS_Union
<1>3. /\ Cardinality(X) \in Nat /\ Cardinality(Y) \in Nat /\ Cardinality(X \cap Y) \in Nat
      /\ Cardinality(X \cup Y) \in Nat
  BY FiniteSessions
<1> QED BY <1>2, <1>3

LEMMA SubsetBound ==
  ASSUME NEW Y \in SUBSET Session, NEW X \in SUBSET Y
  PROVE  Cardinality(X) <= Cardinality(Y)
BY FiniteSessions, FS_Subset

LEMMA SingletonSize ==
  ASSUME NEW s
  PROVE  Cardinality({s}) = 1
BY FS_Singleton

LEMMA CapacityInit == Init => Capacity
<1> SUFFICES ASSUME Init PROVE Capacity
  OBVIOUS
<1>1. Cardinality(all) = 0
  BY FS_EmptySet DEF Init
<1>2. Cardinality(creates) = MinSize
  BY DEF Init
<1> QED BY <1>1, <1>2, PoolAssumption DEF Capacity

\* Every action but three only lets sessions go.
LEMMA CapacityShrinks ==
  ASSUME TypeOK, Capacity, all' \subseteq all, creates' \subseteq creates
  PROVE  Capacity'
<1>1. Cardinality(all') <= Cardinality(all) /\ Cardinality(creates') <= Cardinality(creates)
  BY SubsetBound DEF TypeOK
<1>2. /\ Cardinality(all) \in Nat /\ Cardinality(creates) \in Nat
      /\ Cardinality(all') \in Nat /\ Cardinality(creates') \in Nat
  BY FiniteSessions DEF TypeOK
<1> QED BY <1>1, <1>2, PoolAssumption DEF Capacity

LEMMA CapacityStep == TypeOK /\ Capacity /\ [Next]_vars => Capacity'
<1> SUFFICES ASSUME TypeOK, Capacity, [Next]_vars PROVE Capacity'
  OBVIOUS
<1>1. ASSUME NEW c \in Client, AcquireGrow(c) PROVE Capacity'
  <2>1. Drained \in SUBSET Session /\ creates \in SUBSET Session
    BY DEF Drained, TypeOK
  <2>2. PICK s \in Fresh : creates' = creates \cup {s}
    BY <1>1 DEF AcquireGrow, StartGrow
  <2>3. s \in Session
    BY <2>2 DEF Fresh
  <2>4. Cardinality(creates') <= Cardinality(creates) + 1
    BY <2>1, <2>2, <2>3, UnionBound, SingletonSize
  <2>5. Cardinality(Drained) + Cardinality(creates) < MaxSize
    BY <1>1 DEF AcquireGrow, HasRoom, Occupied
  <2>6. /\ Cardinality(Drained) \in Nat /\ Cardinality(creates) \in Nat
        /\ Cardinality(creates') \in Nat
    BY <2>1, <2>2, <2>3, FiniteSessions
  <2>7. all' = Drained
    BY <1>1 DEF AcquireGrow
  <2> QED BY <2>4, <2>5, <2>6, <2>7, PoolAssumption DEF Capacity
<1>2. ASSUME NEW s \in Session, GrowResolves(s) PROVE Capacity'
  <2>1. s \in creates /\ creates' = creates \ {s} /\ all' = all \cup {s}
    BY <1>2 DEF GrowResolves
  <2>2. Cardinality(creates') = Cardinality(creates) - 1
    BY <2>1, FiniteSessions, FS_RemoveElement DEF TypeOK
  <2>3. Cardinality(all') <= Cardinality(all) + 1
    BY <2>1, UnionBound, SingletonSize DEF TypeOK
  <2>4. /\ Cardinality(all) \in Nat /\ Cardinality(creates) \in Nat
        /\ Cardinality(all') \in Nat
    BY <2>1, FiniteSessions DEF TypeOK
  <2> QED BY <2>2, <2>3, <2>4, PoolAssumption DEF Capacity
<1>3. ASSUME NEW s \in Session, Evict(s) PROVE Capacity'
  <2> DEFINE tracked == Survivors(s)
  <2>1. PICK P \in SUBSET Fresh, W \in SUBSET Fresh : EvictStarting(s, P, W)
    BY <1>3 DEF Evict
  <2>2. /\ all' = tracked /\ creates' = (creates \cup P) \cup W
        /\ Cardinality(P) = PumpSize(tracked)
        /\ Cardinality(W) = Deficit(Occupied(tracked) + PumpSize(tracked))
    BY <2>1 DEF EvictStarting
  <2>3. /\ P \in SUBSET Session /\ W \in SUBSET Session /\ tracked \in SUBSET Session
        /\ creates \in SUBSET Session /\ creates \cup P \in SUBSET Session
        /\ all \in SUBSET Session /\ tracked \in SUBSET all
    BY DEF Fresh, TypeOK, Survivors
  <2>4. /\ Cardinality(P) \in Nat /\ Cardinality(W) \in Nat /\ Cardinality(tracked) \in Nat
        /\ Cardinality(creates) \in Nat /\ Cardinality(creates \cup P) \in Nat
        /\ Cardinality(all) \in Nat /\ Cardinality(creates') \in Nat
    BY <2>2, <2>3, FiniteSessions
  <2>5. /\ Cardinality(creates') <= Cardinality(creates \cup P) + Cardinality(W)
        /\ Cardinality(creates \cup P) <= Cardinality(creates) + Cardinality(P)
        /\ Cardinality(tracked) <= Cardinality(all)
    BY <2>2, <2>3, UnionBound, SubsetBound
  <2>6. Cardinality(tracked) + Cardinality(creates) + Cardinality(P) <= MaxSize
    BY <2>2, <2>4, <2>5, PoolAssumption DEF PumpSize, HasRoom, Occupied, Capacity
  <2>7. \/ Cardinality(W) = 0
        \/ Cardinality(tracked) + Cardinality(creates) + Cardinality(P) + Cardinality(W) = MinSize
    BY <2>2, <2>4, PoolAssumption DEF Deficit, Occupied
  <2> HIDE DEF tracked
  <2>8. Cardinality(tracked) + Cardinality(creates') <= MaxSize
    BY <2>4, <2>5, <2>6, <2>7, PoolAssumption
  <2> QED BY <2>2, <2>8 DEF Capacity
<1>4. CASE /\ \A c \in Client : ~ AcquireGrow(c)
           /\ \A s \in Session : ~ GrowResolves(s) /\ ~ Evict(s)
  <2>1. all' \subseteq all /\ creates' \subseteq creates
    BY <1>4 DEF Next, Acquire, Release, Settle, Resume, vars, poolVars, AcquireIdle, AcquireWait,
       AcquireRejected, AbortWait, Granted, OpenSucceeds, OpenFails, GrowRejects,
       GrowFindsClosed, Park, ParkClosed, ParkToWaiter, ParkIdle, ReleaseDead, ReleaseIntoClosed, ReleaseToWaiter, ReleaseToIdle,
       BreakUnbound, Close, CloseSweeps, Drained
  <2> QED BY <2>1, CapacityShrinks
<1> QED BY <1>1, <1>2, <1>3, <1>4

\* Capacity: whatever evictions, refills, failed creates and acquires do, the sessions
\* tracked or being created never exceed maxSize.
THEOREM CapacityHolds == Spec => []Capacity
<1>1. TypeOK /\ TypeOK' /\ Capacity /\ [Next]_vars => Capacity'
  BY CapacityStep
<1> QED BY TypeCorrect, CapacityInit, <1>1, PTL DEF Spec

-----------------------------------------------------------------------------
(* Sequences without repetition *)

\* A sequence that lists each element once still does after splice(i, 1), without
\* the element that was there.
LEMMA WithoutIndexDistinct ==
  ASSUME NEW S, NEW seq \in Seq(S), NEW i \in 1 .. Len(seq),
         \A j, k \in 1 .. Len(seq) : seq[j] = seq[k] => j = k
  PROVE  /\ \A j, k \in 1 .. Len(WithoutIndex(seq, i)) :
              WithoutIndex(seq, i)[j] = WithoutIndex(seq, i)[k] => j = k
         /\ \A j \in 1 .. Len(WithoutIndex(seq, i)) :
              \E k \in 1 .. Len(seq) : k # i /\ WithoutIndex(seq, i)[j] = seq[k]
         /\ \A k \in 1 .. Len(seq) :
              k # i => \E j \in 1 .. Len(WithoutIndex(seq, i)) : WithoutIndex(seq, i)[j] = seq[k]
<1> DEFINE w == WithoutIndex(seq, i)
<1>1. /\ Len(w) = Len(seq) - 1 /\ Len(seq) \in Nat /\ i \in Nat
      /\ \A j \in 1 .. (Len(seq) - 1) : w[j] = IF j < i THEN seq[j] ELSE seq[j + 1]
  <2>1. Len(seq) \in Nat /\ i \in Nat
    OBVIOUS
  <2>2. /\ Len(w) = Len(seq) - 1
        /\ \A j \in 1 .. (Len(seq) - 1) : w[j] = IF j < i THEN seq[j] ELSE seq[j + 1]
    BY WithoutIndexProps, Zenon
  <2> QED BY <2>1, <2>2
<1> HIDE DEF w
<1>2. ASSUME NEW j \in 1 .. Len(w)
      PROVE  \E k \in 1 .. Len(seq) : k # i /\ w[j] = seq[k]
  <2>1. CASE j < i
    <3>1. j \in 1 .. Len(seq) /\ j # i /\ w[j] = seq[j]
      BY <1>1, <2>1
    <3> QED BY <3>1
  <2>2. CASE ~ (j < i)
    <3>1. j + 1 \in 1 .. Len(seq) /\ j + 1 # i /\ w[j] = seq[j + 1]
      BY <1>1, <2>2
    <3> QED BY <3>1
  <2> QED BY <2>1, <2>2
<1>3. ASSUME NEW k \in 1 .. Len(seq), k # i
      PROVE  \E j \in 1 .. Len(w) : w[j] = seq[k]
  <2>1. CASE k < i
    <3>1. k \in 1 .. Len(w) /\ w[k] = seq[k]
      BY <1>1, <2>1
    <3> QED BY <3>1
  <2>2. CASE ~ (k < i)
    <3>1. k - 1 \in 1 .. Len(w) /\ ~ (k - 1 < i) /\ (k - 1) + 1 = k
      BY <1>1, <1>3, <2>2
    <3>2. w[k - 1] = seq[k]
      BY <1>1, <3>1
    <3> QED BY <3>1, <3>2
  <2> QED BY <2>1, <2>2
<1>4. ASSUME NEW j \in 1 .. Len(w), NEW k \in 1 .. Len(w), w[j] = w[k]
      PROVE  j = k
  BY <1>1, <1>4
<1> QED BY <1>2, <1>3, <1>4 DEF w

\* ... and after shift(), without its first element.
LEMMA ShiftDistinct ==
  ASSUME NEW S, NEW seq \in Seq(S), seq # << >>,
         \A j, k \in 1 .. Len(seq) : seq[j] = seq[k] => j = k
  PROVE  /\ \A j, k \in 1 .. Len(Tail(seq)) : Tail(seq)[j] = Tail(seq)[k] => j = k
         /\ \A j \in 1 .. Len(Tail(seq)) :
              Tail(seq)[j] # Head(seq) /\ \E k \in 1 .. Len(seq) : Tail(seq)[j] = seq[k]
         /\ \A k \in 1 .. Len(seq) :
              seq[k] # Head(seq) => \E j \in 1 .. Len(Tail(seq)) : Tail(seq)[j] = seq[k]
<1> DEFINE r == Tail(seq)
<1>1. /\ Len(r) = Len(seq) - 1 /\ Len(seq) \in Nat
      /\ \A j \in 1 .. Len(r) : j + 1 \in 1 .. Len(seq) /\ r[j] = seq[j + 1]
      /\ Head(seq) = seq[1] /\ 1 \in 1 .. Len(seq)
  BY ShiftProps
<1> HIDE DEF r
<1>2. ASSUME NEW j \in 1 .. Len(r)
      PROVE  r[j] # Head(seq) /\ \E k \in 1 .. Len(seq) : r[j] = seq[k]
  <2>1. j + 1 # 1
    OBVIOUS
  <2> QED BY <1>1, <2>1
<1>3. ASSUME NEW k \in 1 .. Len(seq), seq[k] # Head(seq)
      PROVE  \E j \in 1 .. Len(r) : r[j] = seq[k]
  <2>1. k # 1
    BY <1>1, <1>3
  <2>2. k - 1 \in 1 .. Len(r) /\ (k - 1) + 1 = k
    BY <1>1, <2>1
  <2> QED BY <1>1, <2>2
<1>4. ASSUME NEW j \in 1 .. Len(r), NEW k \in 1 .. Len(r), r[j] = r[k]
      PROVE  j = k
  BY <1>1, <1>4
<1> QED BY <1>2, <1>3, <1>4 DEF r

\* ... and after push() of an element it does not have.
LEMMA PushDistinct ==
  ASSUME NEW S, NEW seq \in Seq(S), NEW x \in S,
         \A j, k \in 1 .. Len(seq) : seq[j] = seq[k] => j = k,
         \A j \in 1 .. Len(seq) : seq[j] # x
  PROVE  /\ Append(seq, x) \in Seq(S)
         /\ Len(Append(seq, x)) = Len(seq) + 1
         /\ \A j \in 1 .. Len(seq) : Append(seq, x)[j] = seq[j]
         /\ Append(seq, x)[Len(seq) + 1] = x
         /\ \A j, k \in 1 .. Len(Append(seq, x)) : Append(seq, x)[j] = Append(seq, x)[k] => j = k
<1> DEFINE a == Append(seq, x)
<1>1. /\ a \in Seq(S) /\ Len(a) = Len(seq) + 1 /\ Len(seq) \in Nat
      /\ \A j \in 1 .. Len(seq) : a[j] = seq[j]
      /\ a[Len(seq) + 1] = x
  OBVIOUS
<1> HIDE DEF a
<1>2. ASSUME NEW j \in 1 .. Len(a), NEW k \in 1 .. Len(a), a[j] = a[k]
      PROVE  j = k
  BY <1>1, <1>2
<1> QED BY <1>1, <1>2 DEF a

\* The oldest waiter is served: who it is, and who waits behind it.
LEMMA ServeOldest ==
  ASSUME TypeOK, QueueStates, waiters # << >>
  PROVE  /\ Head(waiters) \in Client /\ pc[Head(waiters)] = "waiting"
         /\ \A j, k \in 1 .. Len(Tail(waiters)) : Tail(waiters)[j] = Tail(waiters)[k] => j = k
         /\ \A j \in 1 .. Len(Tail(waiters)) :
              /\ Tail(waiters)[j] \in Client /\ Tail(waiters)[j] # Head(waiters)
              /\ pc[Tail(waiters)[j]] = "waiting"
         /\ \A k \in 1 .. Len(waiters) : waiters[k] # Head(waiters) =>
              \E j \in 1 .. Len(Tail(waiters)) : Tail(waiters)[j] = waiters[k]
<1>1. waiters \in Seq(Client) /\ \A k \in 1 .. Len(waiters) : waiters[k] \in Client
  BY DEF TypeOK
<1>2. /\ \A j, k \in 1 .. Len(waiters) : waiters[j] = waiters[k] => j = k
      /\ \A k \in 1 .. Len(waiters) : pc[waiters[k]] = "waiting"
  BY DEF QueueStates
<1>3. Head(waiters) = waiters[1] /\ 1 \in 1 .. Len(waiters)
  BY <1>1, ShiftProps
<1>4. /\ \A j, k \in 1 .. Len(Tail(waiters)) : Tail(waiters)[j] = Tail(waiters)[k] => j = k
      /\ \A j \in 1 .. Len(Tail(waiters)) : Tail(waiters)[j] # Head(waiters) /\
            \E k \in 1 .. Len(waiters) : Tail(waiters)[j] = waiters[k]
      /\ \A k \in 1 .. Len(waiters) : waiters[k] # Head(waiters) =>
            \E j \in 1 .. Len(Tail(waiters)) : Tail(waiters)[j] = waiters[k]
  BY <1>1, <1>2, ShiftDistinct, Zenon
<1> QED BY <1>1, <1>2, <1>3, <1>4

\* Who close() rejects was waiting.
LEMMA WaitersWait ==
  ASSUME QueueStates, NEW c \in WaiterSet
  PROVE  pc[c] = "waiting"
<1>1. PICK i \in 1 .. Len(waiters) : waiters[i] = c
  BY DEF WaiterSet
<1> QED BY <1>1 DEF QueueStates


-----------------------------------------------------------------------------
(* The inductive invariant *)

\* What an eviction leaves of #available: some of its elements, each at most once.
LEMMA EvictAvailable ==
  ASSUME TypeOK, LeaseExclusive, NEW s, NEW P, NEW W, EvictStarting(s, P, W)
  PROVE  /\ available' \in Seq(Session)
         /\ \A j \in 1 .. Len(available') :
              \E k \in 1 .. Len(available) : available'[j] = available[k]
         /\ \A j, l \in 1 .. Len(available') : available'[j] = available'[l] => j = l
<1>1. CASE UNCHANGED available
  BY <1>1 DEF TypeOK, LeaseExclusive
<1>2. ASSUME NEW i \in 1 .. Len(available), available' = WithoutIndex(available, i)
      PROVE  /\ available' \in Seq(Session)
             /\ \A j \in 1 .. Len(available') :
                  \E k \in 1 .. Len(available) : available'[j] = available[k]
             /\ \A j, l \in 1 .. Len(available') : available'[j] = available'[l] => j = l
  <2>1. /\ available' \in Seq(Session)
        /\ Len(available') = Len(available) - 1
        /\ \A j \in 1 .. (Len(available) - 1) :
             available'[j] = IF j < i THEN available[j] ELSE available[j + 1]
    BY <1>2, WithoutIndexProps DEF TypeOK
  <2>2. Len(available) \in Nat
    BY DEF TypeOK
  <2> QED BY <2>1, <2>2 DEF LeaseExclusive
<1> QED BY <1>1, <1>2 DEF EvictStarting

\* The replacements that an eviction starts are for the first waiter or nobody.
LEMMA EvictPump ==
  ASSUME TypeOK, NEW s, NEW P \in SUBSET Fresh, NEW W, EvictStarting(s, P, W)
  PROVE  /\ P # {} => waiters # << >> /\ pool = "open"
         /\ \A p, q \in P : p = q
<1>1. P \subseteq Session
  BY DEF Fresh
<1>2. IsFiniteSet(P)
  BY <1>1, FiniteSessions
<1>3. Cardinality(P) = 0 \/ (Cardinality(P) = 1 /\ waiters # << >> /\ pool = "open")
  BY DEF EvictStarting, PumpSize
<1>4. Cardinality(P) = 0 => P = {}
  BY <1>2, FS_EmptySet
<1>5. Cardinality(P) = 1 => \E x : P = {x}
  BY <1>2, FS_Singleton
<1> QED BY <1>3, <1>4, <1>5

\* SessionPlaces: no action puts a session that is being created, or was not, anywhere else.
LEMMA SessionPlacesStep ==
  ASSUME TypeOK, SessionPlaces, LeaseStates, QueueStates, Queued, CreateOwners,
         LeaseExclusive, NoIdleWhileWaiting, Accounted, [Next]_vars
  PROVE  SessionPlaces'
<1> USE PoolAssumption DEF TypeOK, SessionPlaces, LeaseStates, CreateOwners, IdleSet,
       LeasedSet, Life, ClientState, poolVars, sessionVars, clientVars
<1>1. ASSUME NEW c \in Client, AcquireIdle(c) PROVE SessionPlaces'
  BY <1>1 DEF AcquireIdle, DroppedAbove
<1>2. ASSUME NEW c \in Client, AcquireGrow(c) PROVE SessionPlaces'
  BY <1>2 DEF AcquireGrow, NoneAlive, StartGrow, Opening, Drained, Fresh
<1>3. ASSUME NEW c \in Client, AcquireWait(c) PROVE SessionPlaces'
  BY <1>3 DEF AcquireWait, NoneAlive, Drained
<1>4. ASSUME NEW c \in Client, AcquireRejected(c) PROVE SessionPlaces'
  BY <1>4 DEF AcquireRejected, NoneAlive, Drained
<1>5. ASSUME NEW c \in Client, AbortWait(c) PROVE SessionPlaces'
  BY <1>5, WithoutIndexProps DEF AbortWait
<1>6. ASSUME NEW c \in Client, Granted(c) PROVE SessionPlaces'
  BY <1>6 DEF Granted
<1>7. ASSUME NEW s \in Session, OpenSucceeds(s) PROVE SessionPlaces'
  BY <1>7 DEF OpenSucceeds
<1>8. ASSUME NEW s \in Session, OpenFails(s) PROVE SessionPlaces'
  BY <1>8 DEF OpenFails
<1>9. ASSUME NEW s \in Session, GrowResolves(s) PROVE SessionPlaces'
  BY <1>9 DEF GrowResolves
<1>10. ASSUME NEW c \in Client, ReleaseDead(c) PROVE SessionPlaces'
  BY <1>10 DEF ReleaseDead
<1>11. ASSUME NEW c \in Client, ReleaseIntoClosed(c) PROVE SessionPlaces'
  BY <1>11 DEF ReleaseIntoClosed, Killed
<1>12. ASSUME NEW c \in Client, ReleaseToWaiter(c) PROVE SessionPlaces'
  BY <1>12, ShiftProps DEF ReleaseToWaiter
<1>13. ASSUME NEW c \in Client, ReleaseToIdle(c) PROVE SessionPlaces'
  BY <1>13 DEF ReleaseToIdle
<1>14. ASSUME NEW s \in Session, GrowFindsClosed(s) PROVE SessionPlaces'
  BY <1>14 DEF GrowFindsClosed, Killed, OwnerGivesUp
<1>15. ASSUME NEW s \in Session, GrowRejects(s) PROVE SessionPlaces'
  BY <1>15 DEF GrowRejects, OwnerGivesUp
<1>16. ASSUME CloseSweeps PROVE SessionPlaces'
  BY <1>16 DEF CloseSweeps, Killed
<1>17. ASSUME Close PROVE SessionPlaces'
  BY <1>17 DEF Close
<1>18. ASSUME NEW s \in Session, ParkClosed(s) PROVE SessionPlaces'
  BY <1>18 DEF ParkClosed
<1>19. ASSUME NEW s \in Session, ParkToWaiter(s) PROVE SessionPlaces'
  BY <1>19, ShiftProps DEF ParkToWaiter
<1>20. ASSUME NEW s \in Session, ParkIdle(s) PROVE SessionPlaces'
  BY <1>20 DEF ParkIdle
<1>21. ASSUME NEW s \in Session, BreakUnbound(s) PROVE SessionPlaces'
  BY <1>21 DEF BreakUnbound
<1>22. ASSUME NEW s \in Session, Evict(s) PROVE SessionPlaces'
  <2>1. PICK P \in SUBSET Fresh, W \in SUBSET Fresh : EvictStarting(s, P, W)
    BY <1>22 DEF Evict
  <2>2. \A j \in 1 .. Len(available') : \E k \in 1 .. Len(available) : available'[j] = available[k]
    BY <2>1, EvictAvailable
  <2>3. /\ creates' = creates \cup P \cup W /\ all' = all \ {s}
        /\ lease' = lease /\ parking' = parking
        /\ \A x \in Session : life'[x] = "unborn" => life[x] = "unborn" /\ x \notin P \cup W
    BY <2>1 DEF EvictStarting, Survivors
  <2>4. ASSUME NEW x \in P \cup W
        PROVE  /\ x \notin all /\ x \notin parking
               /\ \A i \in 1 .. Len(available) : available[i] # x
               /\ \A c \in Client : lease[c] # x
    <3>1. x \in Session /\ (life[x] = "unborn" \/ x \notin all \cup creates \cup parking \cup IdleSet \cup LeasedSet)
      BY <2>4 DEF Fresh
    <3> QED BY <3>1
  <2>5. ASSUME NEW x \in Session, life'[x] = "unborn" \/ x \in creates'
        PROVE  /\ x \notin all /\ x \notin parking
               /\ \A i \in 1 .. Len(available) : available[i] # x
               /\ \A c \in Client : lease[c] # x
    BY <2>3, <2>4, <2>5
  <2>6. \A x \in Session : life'[x] = "unborn" => x \notin creates'
    BY <2>3
  <2> QED BY <2>2, <2>3, <2>5, <2>6
<1>23. CASE UNCHANGED vars
  BY <1>23 DEF vars
<1> QED
  BY <1>1, <1>2, <1>3, <1>4, <1>5, <1>6, <1>7, <1>8, <1>9, <1>10, <1>11, <1>12, <1>13,
     <1>14, <1>15, <1>16, <1>17, <1>18, <1>19, <1>20, <1>21, <1>22, <1>23
  DEF Next, Acquire, Release, Settle, Resume, Park

\* LeaseStates: every action that gives a session to a client, or takes it, moves the client too.
LEMMA LeaseStatesStep ==
  ASSUME TypeOK, SessionPlaces, LeaseStates, QueueStates, Queued, CreateOwners,
         LeaseExclusive, NoIdleWhileWaiting, Accounted, [Next]_vars
  PROVE  LeaseStates'
<1> USE PoolAssumption DEF TypeOK, LeaseStates, ClientState, poolVars, sessionVars, clientVars
<1>1. ASSUME NEW c \in Client, AcquireIdle(c) PROVE LeaseStates'
  BY <1>1 DEF AcquireIdle, DroppedAbove
<1>2. ASSUME NEW c \in Client, AcquireGrow(c) PROVE LeaseStates'
  BY <1>2 DEF AcquireGrow, NoneAlive, StartGrow, Opening, Drained, Fresh
<1>3. ASSUME NEW c \in Client, AcquireWait(c) PROVE LeaseStates'
  BY <1>3 DEF AcquireWait, NoneAlive, Drained
<1>4. ASSUME NEW c \in Client, AcquireRejected(c) PROVE LeaseStates'
  BY <1>4 DEF AcquireRejected, NoneAlive, Drained
<1>5. ASSUME NEW c \in Client, AbortWait(c) PROVE LeaseStates'
  BY <1>5 DEF AbortWait
<1>6. ASSUME NEW c \in Client, Granted(c) PROVE LeaseStates'
  BY <1>6 DEF Granted
<1>7. ASSUME NEW s \in Session, OpenSucceeds(s) PROVE LeaseStates'
  BY <1>7 DEF OpenSucceeds
<1>8. ASSUME NEW s \in Session, OpenFails(s) PROVE LeaseStates'
  BY <1>8 DEF OpenFails
<1>9. ASSUME NEW s \in Session, GrowResolves(s) PROVE LeaseStates'
  BY <1>9 DEF GrowResolves, CreateOwners
<1>10. ASSUME NEW c \in Client, ReleaseDead(c) PROVE LeaseStates'
  BY <1>10 DEF ReleaseDead
<1>11. ASSUME NEW c \in Client, ReleaseIntoClosed(c) PROVE LeaseStates'
  BY <1>11 DEF ReleaseIntoClosed, Killed
<1>12. ASSUME NEW c \in Client, ReleaseToWaiter(c) PROVE LeaseStates'
  <2>1. /\ waiters # << >> /\ Head(waiters) \in Client /\ pc[Head(waiters)] = "waiting"
    BY <1>12, ShiftProps DEF ReleaseToWaiter, QueueStates
  <2>2. lease[c] # NoSession /\ c # Head(waiters)
    BY <1>12, <2>1 DEF ReleaseToWaiter
  <2> QED BY <1>12, <2>1, <2>2 DEF ReleaseToWaiter
<1>13. ASSUME NEW c \in Client, ReleaseToIdle(c) PROVE LeaseStates'
  BY <1>13 DEF ReleaseToIdle
<1>14. ASSUME NEW s \in Session, GrowFindsClosed(s) PROVE LeaseStates'
  <2>1. owner[s] \in Client => pc[owner[s]] = "growing"
    BY <1>14 DEF GrowFindsClosed, CreateOwners
  <2> QED BY <1>14, <2>1 DEF GrowFindsClosed, OwnerGivesUp
<1>15. ASSUME NEW s \in Session, GrowRejects(s) PROVE LeaseStates'
  <2>1. owner[s] \in Client => pc[owner[s]] = "growing"
    BY <1>15 DEF GrowRejects, CreateOwners
  <2> QED BY <1>15, <2>1 DEF GrowRejects, OwnerGivesUp
<1>16. ASSUME CloseSweeps PROVE LeaseStates'
  BY <1>16 DEF CloseSweeps, Killed
<1>17. ASSUME Close PROVE LeaseStates'
  <2>1. \A c \in WaiterSet : pc[c] = "waiting"
    BY WaitersWait
  <2> QED BY <1>17, <2>1 DEF Close
<1>18. ASSUME NEW s \in Session, ParkClosed(s) PROVE LeaseStates'
  BY <1>18 DEF ParkClosed
<1>19. ASSUME NEW s \in Session, ParkToWaiter(s) PROVE LeaseStates'
  <2>1. /\ waiters # << >> /\ Head(waiters) \in Client /\ pc[Head(waiters)] = "waiting"
    BY <1>19, ShiftProps DEF ParkToWaiter, QueueStates
  <2> QED BY <1>19, <2>1 DEF ParkToWaiter
<1>20. ASSUME NEW s \in Session, ParkIdle(s) PROVE LeaseStates'
  BY <1>20 DEF ParkIdle
<1>21. ASSUME NEW s \in Session, BreakUnbound(s) PROVE LeaseStates'
  BY <1>21 DEF BreakUnbound
<1>22. ASSUME NEW s \in Session, Evict(s) PROVE LeaseStates'
  <2>1. PICK P \in SUBSET Fresh, W \in SUBSET Fresh : EvictStarting(s, P, W)
    BY <1>22 DEF Evict
  <2>2. P # {} => Head(waiters) \in Client /\ pc[Head(waiters)] = "waiting"
    BY <2>1, EvictPump, ShiftProps DEF QueueStates
  <2> QED BY <2>1, <2>2 DEF EvictStarting
<1>23. CASE UNCHANGED vars
  BY <1>23 DEF vars
<1> QED
  BY <1>1, <1>2, <1>3, <1>4, <1>5, <1>6, <1>7, <1>8, <1>9, <1>10, <1>11, <1>12, <1>13,
     <1>14, <1>15, <1>16, <1>17, <1>18, <1>19, <1>20, <1>21, <1>22, <1>23
  DEF Next, Acquire, Release, Settle, Resume, Park

\* QueueStates: a client leaves the queue in the step that serves, aborts or rejects it.
LEMMA QueueStatesStep ==
  ASSUME TypeOK, SessionPlaces, LeaseStates, QueueStates, Queued, CreateOwners,
         LeaseExclusive, NoIdleWhileWaiting, Accounted, [Next]_vars
  PROVE  QueueStates'
<1> USE PoolAssumption DEF QueueStates, poolVars, sessionVars, clientVars
<1>1. ASSUME NEW c \in Client, AcquireIdle(c) PROVE QueueStates'
  BY <1>1 DEF AcquireIdle, DroppedAbove
<1>2. ASSUME NEW c \in Client, AcquireGrow(c) PROVE QueueStates'
  BY <1>2 DEF AcquireGrow, NoneAlive, StartGrow, Opening, Drained, Fresh
<1>3. ASSUME NEW c \in Client, AcquireWait(c) PROVE QueueStates'
  <2>1. waiters' = Append(waiters, c) /\ pc' = [pc EXCEPT ![c] = "waiting"] /\ pc[c] = "idle"
    BY <1>3 DEF AcquireWait
  <2>2. waiters \in Seq(Client) /\ \A j \in 1 .. Len(waiters) : waiters[j] # c
    BY <2>1 DEF TypeOK
  <2>3. \A j, k \in 1 .. Len(waiters') : waiters'[j] = waiters'[k] => j = k
    BY <2>1, <2>2, PushDistinct
  <2>4. \A j \in 1 .. Len(waiters') : waiters'[j] \in Client /\ pc'[waiters'[j]] = "waiting"
    BY <2>1, <2>2 DEF TypeOK
  <2> QED BY <2>3, <2>4
<1>4. ASSUME NEW c \in Client, AcquireRejected(c) PROVE QueueStates'
  BY <1>4 DEF AcquireRejected, NoneAlive, Drained
<1>5. ASSUME NEW c \in Client, AbortWait(c) PROVE QueueStates'
  <2>1. PICK i \in 1 .. Len(waiters) : waiters[i] = c /\ waiters' = WithoutIndex(waiters, i)
    BY <1>5 DEF AbortWait
  <2>2. waiters \in Seq(Client) /\ pc' = [pc EXCEPT ![c] = "idle"] /\ pc \in [Client -> ClientState]
    BY <1>5 DEF AbortWait, TypeOK
  <2>3. \A j, k \in 1 .. Len(waiters') : waiters'[j] = waiters'[k] => j = k
    BY <2>1, <2>2, WithoutIndexDistinct
  <2>4. \A j \in 1 .. Len(waiters') : \E k \in 1 .. Len(waiters) : k # i /\ waiters'[j] = waiters[k]
    <3>1. \A j, k \in 1 .. Len(waiters) : waiters[j] = waiters[k] => j = k
      OBVIOUS
    <3>2. \A j \in 1 .. Len(WithoutIndex(waiters, i)) :
            \E k \in 1 .. Len(waiters) : k # i /\ WithoutIndex(waiters, i)[j] = waiters[k]
      BY <2>2, <3>1, WithoutIndexDistinct, Zenon
    <3> QED BY <2>1, <3>2
  <2>5. \A k \in 1 .. Len(waiters) : waiters[k] \in Client
    BY <2>2
  <2>6. \A j \in 1 .. Len(waiters') : pc'[waiters'[j]] = "waiting"
    BY <2>1, <2>2, <2>4, <2>5
  <2> QED BY <2>3, <2>6
<1>6. ASSUME NEW c \in Client, Granted(c) PROVE QueueStates'
  BY <1>6 DEF Granted
<1>7. ASSUME NEW s \in Session, OpenSucceeds(s) PROVE QueueStates'
  BY <1>7 DEF OpenSucceeds
<1>8. ASSUME NEW s \in Session, OpenFails(s) PROVE QueueStates'
  BY <1>8 DEF OpenFails
<1>9. ASSUME NEW s \in Session, GrowResolves(s) PROVE QueueStates'
  <2>1. /\ waiters' = waiters /\ pc \in [Client -> ClientState]
        /\ \A k \in 1 .. Len(waiters) : waiters[k] \in Client
        /\ s \in creates /\ s \in Session
    BY <1>9 DEF GrowResolves, TypeOK
  <2>2. owner[s] \in Client => pc[owner[s]] = "growing"
    BY <2>1 DEF CreateOwners
  <2>3. \A c \in Client : c # owner[s] => pc'[c] = pc[c]
    BY <1>9, <2>1 DEF GrowResolves, OwnerGivesUp
  <2> QED BY <2>1, <2>2, <2>3
<1>10. ASSUME NEW c \in Client, ReleaseDead(c) PROVE QueueStates'
  BY <1>10 DEF ReleaseDead
<1>11. ASSUME NEW c \in Client, ReleaseIntoClosed(c) PROVE QueueStates'
  BY <1>11 DEF ReleaseIntoClosed, Killed
<1>12. ASSUME NEW c \in Client, ReleaseToWaiter(c) PROVE QueueStates'
  <2>1. /\ waiters # << >> /\ waiters' = Tail(waiters) /\ pc[c] = "holding"
        /\ pc' = [pc EXCEPT ![c] = "idle", ![Head(waiters)] = "granted"]
    BY <1>12 DEF ReleaseToWaiter
  <2>2. /\ \A j, k \in 1 .. Len(waiters') : waiters'[j] = waiters'[k] => j = k
        /\ \A j \in 1 .. Len(waiters') : /\ waiters'[j] \in Client /\ waiters'[j] # Head(waiters)
                                        /\ pc[waiters'[j]] = "waiting"
    BY <2>1, ServeOldest
  <2>5. \A j \in 1 .. Len(waiters') : pc'[waiters'[j]] = "waiting"
    BY <2>1, <2>2 DEF TypeOK
  <2> QED BY <2>2, <2>5
<1>13. ASSUME NEW c \in Client, ReleaseToIdle(c) PROVE QueueStates'
  BY <1>13 DEF ReleaseToIdle
<1>14. ASSUME NEW s \in Session, GrowFindsClosed(s) PROVE QueueStates'
  <2>1. /\ waiters' = waiters /\ pc \in [Client -> ClientState]
        /\ \A k \in 1 .. Len(waiters) : waiters[k] \in Client
        /\ s \in creates /\ s \in Session
    BY <1>14 DEF GrowFindsClosed, TypeOK
  <2>2. owner[s] \in Client => pc[owner[s]] = "growing"
    BY <2>1 DEF CreateOwners
  <2>3. \A c \in Client : c # owner[s] => pc'[c] = pc[c]
    BY <1>14, <2>1 DEF GrowFindsClosed, OwnerGivesUp
  <2> QED BY <2>1, <2>2, <2>3
<1>15. ASSUME NEW s \in Session, GrowRejects(s) PROVE QueueStates'
  <2>1. /\ waiters' = waiters /\ pc \in [Client -> ClientState]
        /\ \A k \in 1 .. Len(waiters) : waiters[k] \in Client
        /\ s \in creates /\ s \in Session
    BY <1>15 DEF GrowRejects, TypeOK
  <2>2. owner[s] \in Client => pc[owner[s]] = "growing"
    BY <2>1 DEF CreateOwners
  <2>3. \A c \in Client : c # owner[s] => pc'[c] = pc[c]
    BY <1>15, <2>1 DEF GrowRejects, OwnerGivesUp
  <2> QED BY <2>1, <2>2, <2>3
<1>16. ASSUME CloseSweeps PROVE QueueStates'
  BY <1>16 DEF CloseSweeps, Killed
<1>17. ASSUME Close PROVE QueueStates'
  BY <1>17 DEF Close
<1>18. ASSUME NEW s \in Session, ParkClosed(s) PROVE QueueStates'
  BY <1>18 DEF ParkClosed
<1>19. ASSUME NEW s \in Session, ParkToWaiter(s) PROVE QueueStates'
  <2>1. /\ waiters # << >> /\ waiters' = Tail(waiters)
        /\ pc' = [pc EXCEPT ![Head(waiters)] = "granted"]
    BY <1>19 DEF ParkToWaiter
  <2>2. /\ \A j, k \in 1 .. Len(waiters') : waiters'[j] = waiters'[k] => j = k
        /\ \A j \in 1 .. Len(waiters') : /\ waiters'[j] \in Client /\ waiters'[j] # Head(waiters)
                                        /\ pc[waiters'[j]] = "waiting"
    BY <2>1, ServeOldest
  <2>5. \A j \in 1 .. Len(waiters') : pc'[waiters'[j]] = "waiting"
    BY <2>1, <2>2 DEF TypeOK
  <2> QED BY <2>2, <2>5
<1>20. ASSUME NEW s \in Session, ParkIdle(s) PROVE QueueStates'
  BY <1>20 DEF ParkIdle
<1>21. ASSUME NEW s \in Session, BreakUnbound(s) PROVE QueueStates'
  BY <1>21 DEF BreakUnbound
<1>22. ASSUME NEW s \in Session, Evict(s) PROVE QueueStates'
  <2>0. PICK P \in SUBSET Fresh, W \in SUBSET Fresh : EvictStarting(s, P, W)
    BY <1>22 DEF Evict
  <2>a. CASE P = {}
    BY <2>0, <2>a DEF EvictStarting
  <2>b. CASE P # {}
    <3>1. waiters # << >> /\ waiters' = Tail(waiters) /\ pc' = [pc EXCEPT ![Head(waiters)] = "growing"]
      BY <2>0, <2>b, EvictPump DEF EvictStarting
    <3>2. /\ \A j, k \in 1 .. Len(waiters') : waiters'[j] = waiters'[k] => j = k
          /\ \A j \in 1 .. Len(waiters') : /\ waiters'[j] \in Client /\ waiters'[j] # Head(waiters)
                                          /\ pc[waiters'[j]] = "waiting"
      BY <3>1, ServeOldest
    <3>5. \A j \in 1 .. Len(waiters') : pc'[waiters'[j]] = "waiting"
      BY <3>1, <3>2 DEF TypeOK
    <3> QED BY <3>2, <3>5
  <2> QED BY <2>a, <2>b
<1>23. CASE UNCHANGED vars
  BY <1>23 DEF vars
<1> QED
  BY <1>1, <1>2, <1>3, <1>4, <1>5, <1>6, <1>7, <1>8, <1>9, <1>10, <1>11, <1>12, <1>13,
     <1>14, <1>15, <1>16, <1>17, <1>18, <1>19, <1>20, <1>21, <1>22, <1>23
  DEF Next, Acquire, Release, Settle, Resume, Park

\* CreateOwners: a create is never started for a client that has one, nor outlives its wait.
LEMMA CreateOwnersStep ==
  ASSUME TypeOK, SessionPlaces, LeaseStates, QueueStates, Queued, CreateOwners,
         LeaseExclusive, NoIdleWhileWaiting, Accounted, [Next]_vars
  PROVE  CreateOwners'
<1> USE PoolAssumption DEF TypeOK, CreateOwners, ClientState, poolVars, sessionVars, clientVars
<1>1. ASSUME NEW c \in Client, AcquireIdle(c) PROVE CreateOwners'
  BY <1>1 DEF AcquireIdle, DroppedAbove
<1>2. ASSUME NEW c \in Client, AcquireGrow(c) PROVE CreateOwners'
  BY <1>2 DEF AcquireGrow, NoneAlive, StartGrow, Opening, Drained, Fresh
<1>3. ASSUME NEW c \in Client, AcquireWait(c) PROVE CreateOwners'
  BY <1>3 DEF AcquireWait, NoneAlive, Drained
<1>4. ASSUME NEW c \in Client, AcquireRejected(c) PROVE CreateOwners'
  BY <1>4 DEF AcquireRejected, NoneAlive, Drained
<1>5. ASSUME NEW c \in Client, AbortWait(c) PROVE CreateOwners'
  BY <1>5 DEF AbortWait
<1>6. ASSUME NEW c \in Client, Granted(c) PROVE CreateOwners'
  BY <1>6 DEF Granted
<1>7. ASSUME NEW s \in Session, OpenSucceeds(s) PROVE CreateOwners'
  BY <1>7 DEF OpenSucceeds
<1>8. ASSUME NEW s \in Session, OpenFails(s) PROVE CreateOwners'
  BY <1>8 DEF OpenFails
<1>9. ASSUME NEW s \in Session, GrowResolves(s) PROVE CreateOwners'
  BY <1>9 DEF GrowResolves
<1>10. ASSUME NEW c \in Client, ReleaseDead(c) PROVE CreateOwners'
  BY <1>10 DEF ReleaseDead
<1>11. ASSUME NEW c \in Client, ReleaseIntoClosed(c) PROVE CreateOwners'
  BY <1>11 DEF ReleaseIntoClosed, Killed
<1>12. ASSUME NEW c \in Client, ReleaseToWaiter(c) PROVE CreateOwners'
  <2>1. /\ waiters # << >> /\ Head(waiters) \in Client /\ pc[Head(waiters)] = "waiting"
    BY <1>12, ShiftProps DEF ReleaseToWaiter, QueueStates
  <2> QED BY <1>12, <2>1 DEF ReleaseToWaiter
<1>13. ASSUME NEW c \in Client, ReleaseToIdle(c) PROVE CreateOwners'
  BY <1>13 DEF ReleaseToIdle
<1>14. ASSUME NEW s \in Session, GrowFindsClosed(s) PROVE CreateOwners'
  <2>1. /\ creates' = creates \ {s} /\ s \in creates /\ UNCHANGED owner
        /\ pc' = [x \in Client |-> IF owner[s] = x THEN "idle" ELSE pc[x]]
    BY <1>14 DEF GrowFindsClosed, OwnerGivesUp
  <2>2. \A x \in creates' : owner[x] # Warmup => owner[x] \in Client /\ owner[x] # owner[s]
    BY <2>1
  <2> QED BY <2>1, <2>2
<1>15. ASSUME NEW s \in Session, GrowRejects(s) PROVE CreateOwners'
  <2>1. /\ creates' = creates \ {s} /\ s \in creates /\ UNCHANGED owner
        /\ pc' = [x \in Client |-> IF owner[s] = x THEN "idle" ELSE pc[x]]
    BY <1>15 DEF GrowRejects, OwnerGivesUp
  <2>2. \A x \in creates' : owner[x] # Warmup => owner[x] \in Client /\ owner[x] # owner[s]
    BY <2>1
  <2> QED BY <2>1, <2>2
<1>16. ASSUME CloseSweeps PROVE CreateOwners'
  BY <1>16 DEF CloseSweeps, Killed
<1>17. ASSUME Close PROVE CreateOwners'
  <2>1. \A c \in WaiterSet : pc[c] = "waiting"
    BY WaitersWait
  <2> QED BY <1>17, <2>1 DEF Close
<1>18. ASSUME NEW s \in Session, ParkClosed(s) PROVE CreateOwners'
  BY <1>18 DEF ParkClosed
<1>19. ASSUME NEW s \in Session, ParkToWaiter(s) PROVE CreateOwners'
  <2>1. /\ waiters # << >> /\ Head(waiters) \in Client /\ pc[Head(waiters)] = "waiting"
    BY <1>19, ShiftProps DEF ParkToWaiter, QueueStates
  <2> QED BY <1>19, <2>1 DEF ParkToWaiter
<1>20. ASSUME NEW s \in Session, ParkIdle(s) PROVE CreateOwners'
  BY <1>20 DEF ParkIdle
<1>21. ASSUME NEW s \in Session, BreakUnbound(s) PROVE CreateOwners'
  BY <1>21 DEF BreakUnbound
<1>22. ASSUME NEW s \in Session, Evict(s) PROVE CreateOwners'
  <2>1. PICK P \in SUBSET Fresh, W \in SUBSET Fresh : EvictStarting(s, P, W)
    BY <1>22 DEF Evict
  <2>2. /\ P # {} => Head(waiters) \in Client /\ pc[Head(waiters)] = "waiting"
        /\ \A p, q \in P : p = q
    BY <2>1, EvictPump, ShiftProps DEF QueueStates
  <2>3. \A x \in creates' : \/ x \in P /\ owner'[x] = Head(waiters)
                            \/ x \notin P /\ owner'[x] = Warmup
                            \/ x \notin P /\ x \in creates /\ owner'[x] = owner[x]
    BY <2>1 DEF EvictStarting, Fresh
  <2>4. pc' = IF P = {} THEN pc ELSE [pc EXCEPT ![Head(waiters)] = "growing"]
    BY <2>1 DEF EvictStarting
  <2>5. P # {} => \A x \in creates : owner[x] # Warmup => owner[x] # Head(waiters)
    BY <2>2
  <2>6. ASSUME NEW x \in creates', owner'[x] # Warmup
        PROVE  pc'[owner'[x]] = "growing"
    BY <2>2, <2>3, <2>4, <2>6
  <2>7. ASSUME NEW x \in creates', NEW y \in creates', owner'[x] = owner'[y], owner'[x] # Warmup
        PROVE  x = y
    <3>1. CASE x \in P
      BY <2>2, <2>3, <2>5, <2>7, <3>1
    <3>2. CASE x \notin P
      BY <2>2, <2>3, <2>5, <2>7, <3>2
    <3> QED BY <3>1, <3>2
  <2> QED BY <2>6, <2>7
<1>23. CASE UNCHANGED vars
  BY <1>23 DEF vars
<1> QED
  BY <1>1, <1>2, <1>3, <1>4, <1>5, <1>6, <1>7, <1>8, <1>9, <1>10, <1>11, <1>12, <1>13,
     <1>14, <1>15, <1>16, <1>17, <1>18, <1>19, <1>20, <1>21, <1>22, <1>23
  DEF Next, Acquire, Release, Settle, Resume, Park

\* LeaseExclusive: each handover moves a session from one place to one other.
LEMMA LeaseExclusiveStep ==
  ASSUME TypeOK, SessionPlaces, LeaseStates, QueueStates, Queued, CreateOwners,
         LeaseExclusive, NoIdleWhileWaiting, Accounted, [Next]_vars
  PROVE  LeaseExclusive'
<1> USE DEF poolVars, sessionVars, clientVars
<1>1. ASSUME NEW c \in Client, AcquireIdle(c) PROVE LeaseExclusive'
  <2>1. PICK i \in 1 .. Len(available) :
          /\ available' = SubSeq(available, 1, i - 1)
          /\ lease' = [lease EXCEPT ![c] = available[i]]
    BY <1>1 DEF AcquireIdle
  <2>2. parking' = parking /\ available \in Seq(Session) /\ available[i] \in Session
    BY <1>1 DEF AcquireIdle, sessionVars, TypeOK
  <2>3. /\ available' \in Seq(Session) /\ Len(available') = i - 1
        /\ \A j \in 1 .. (i - 1) : available'[j] = available[j]
    BY <2>1, <2>2, PrefixProps, Zenon
  <2>4. \A j \in 1 .. Len(available') :
          /\ j \in 1 .. Len(available) /\ available'[j] = available[j] /\ j # i
    BY <2>2, <2>3
  <2> DEFINE a == available[i]
  <2>5. lease'[c] = a /\ \A d \in Client : d # c => lease'[d] = lease[d]
    BY <2>1 DEF TypeOK
  <2>6. /\ \A d \in Client : lease[d] # a
        /\ a \notin parking /\ a \in Session /\ NoSession \notin Session
        /\ \A j \in 1 .. Len(available) : j # i => available[j] # a
    BY <2>2, PoolAssumption DEF LeaseExclusive
  <2> HIDE DEF a
  <2>7. /\ \A d, e \in Client : d # e /\ lease'[d] = lease'[e] => lease'[d] = NoSession
        /\ \A d \in Client : lease'[d] \notin parking'
    BY <2>2, <2>5, <2>6 DEF LeaseExclusive
  <2>8. \A d \in Client, j \in 1 .. Len(available') : lease'[d] # available'[j]
    BY <2>4, <2>5, <2>6 DEF LeaseExclusive
  <2>9. /\ \A j, k \in 1 .. Len(available') : available'[j] = available'[k] => j = k
        /\ \A j \in 1 .. Len(available') : available'[j] \notin parking'
    BY <2>2, <2>4 DEF LeaseExclusive
  <2> QED BY <2>7, <2>8, <2>9 DEF LeaseExclusive
<1>2. ASSUME NEW c \in Client, AcquireGrow(c) PROVE LeaseExclusive'
  BY <1>2, PoolAssumption DEF AcquireGrow, NoneAlive, StartGrow, Opening, Drained, Fresh,
     TypeOK, LeaseExclusive, LeaseStates, SessionPlaces
<1>3. ASSUME NEW c \in Client, AcquireWait(c) PROVE LeaseExclusive'
  BY <1>3, PoolAssumption DEF AcquireWait, NoneAlive, Drained, TypeOK, LeaseExclusive,
     LeaseStates, SessionPlaces
<1>4. ASSUME NEW c \in Client, AcquireRejected(c) PROVE LeaseExclusive'
  BY <1>4, PoolAssumption DEF AcquireRejected, NoneAlive, Drained, TypeOK, LeaseExclusive,
     LeaseStates, SessionPlaces
<1>5. ASSUME NEW c \in Client, AbortWait(c) PROVE LeaseExclusive'
  BY <1>5, PoolAssumption DEF AbortWait, TypeOK, LeaseExclusive, LeaseStates, SessionPlaces
<1>6. ASSUME NEW c \in Client, Granted(c) PROVE LeaseExclusive'
  BY <1>6, PoolAssumption DEF Granted, TypeOK, LeaseExclusive, LeaseStates, SessionPlaces
<1>7. ASSUME NEW s \in Session, OpenSucceeds(s) PROVE LeaseExclusive'
  BY <1>7, PoolAssumption DEF OpenSucceeds, TypeOK, LeaseExclusive, LeaseStates, SessionPlaces
<1>8. ASSUME NEW s \in Session, OpenFails(s) PROVE LeaseExclusive'
  BY <1>8, PoolAssumption DEF OpenFails, TypeOK, LeaseExclusive, LeaseStates, SessionPlaces
<1>9. ASSUME NEW s \in Session, GrowResolves(s) PROVE LeaseExclusive'
  <2>1. CASE owner[s] = Warmup
    <3>1. parking' = parking \cup {s} /\ lease' = lease /\ available' = available /\ s \in creates
      BY <1>9, <2>1 DEF GrowResolves, clientVars, TypeOK
    <3> QED BY <3>1 DEF LeaseExclusive, SessionPlaces, TypeOK
  <2>2. CASE owner[s] # Warmup
    <3>1. /\ lease' = [lease EXCEPT ![owner[s]] = s] /\ parking' = parking /\ available' = available
          /\ s \in creates /\ owner[s] \in Client
      BY <1>9, <2>2 DEF GrowResolves, TypeOK
    <3>2. /\ \A i \in 1 .. Len(available) : available[i] # s
          /\ \A c \in Client : lease[c] # s
          /\ s \notin parking /\ s # NoSession
      BY <3>1, PoolAssumption DEF SessionPlaces
    <3> QED BY <3>1, <3>2 DEF LeaseExclusive, TypeOK
  <2> QED BY <2>1, <2>2
<1>10. ASSUME NEW c \in Client, ReleaseDead(c) PROVE LeaseExclusive'
  BY <1>10, PoolAssumption DEF ReleaseDead, TypeOK, LeaseExclusive, LeaseStates, SessionPlaces
<1>11. ASSUME NEW c \in Client, ReleaseIntoClosed(c) PROVE LeaseExclusive'
  <2>1. /\ available' = available /\ parking' = parking
        /\ lease' = [lease EXCEPT ![c] = NoSession]
    BY <1>11 DEF ReleaseIntoClosed
  <2>2. /\ \A i \in 1 .. Len(available) : available[i] \in Session
        /\ parking \in SUBSET Session /\ NoSession \notin Session
        /\ lease'[c] = NoSession /\ \A d \in Client : d # c => lease'[d] = lease[d]
    BY <2>1, PoolAssumption DEF TypeOK
  <2> QED BY <2>1, <2>2 DEF LeaseExclusive
<1>12. ASSUME NEW c \in Client, ReleaseToWaiter(c) PROVE LeaseExclusive'
  <2> DEFINE w == Head(waiters)
  <2>1. /\ waiters # << >> /\ available' = available /\ parking' = parking /\ pc[c] = "holding"
        /\ lease' = [lease EXCEPT ![c] = NoSession, ![w] = lease[c]]
    BY <1>12 DEF ReleaseToWaiter, sessionVars
  <2>2. w \in Client /\ w # c /\ lease[w] = NoSession
    <3>1. w \in Client /\ pc[w] = "waiting"
      BY <2>1, ServeOldest
    <3> QED BY <2>1, <3>1 DEF LeaseStates
  <2> HIDE DEF w
  <2>3. /\ lease'[w] = lease[c] /\ lease'[c] = NoSession
        /\ \A d \in Client : d # w /\ d # c => lease'[d] = lease[d]
    BY <2>1, <2>2 DEF TypeOK
  <2>4. available \in Seq(Session) /\ parking \in SUBSET Session /\ NoSession \notin Session
    BY PoolAssumption DEF TypeOK
  <2>5. \A i \in 1 .. Len(available) : available[i] \in Session
    BY <2>4
  <2>6. lease[c] # NoSession /\ \A d \in Client : d # c => lease[d] # lease[c]
    BY <2>1 DEF LeaseStates, LeaseExclusive
  <2>7. /\ \A d, e \in Client : d # e /\ lease'[d] = lease'[e] => lease'[d] = NoSession
        /\ \A d \in Client : lease'[d] \notin parking
    <3>1. ASSUME NEW d \in Client, NEW e \in Client, d # e, lease'[d] = lease'[e]
          PROVE  lease'[d] = NoSession
      <4>1. CASE d = w \/ e = w
        BY <2>2, <2>3, <2>6, <3>1, <4>1
      <4>2. CASE d = c \/ e = c
        BY <2>3, <3>1, <4>2
      <4>3. CASE d # w /\ e # w /\ d # c /\ e # c
        BY <2>3, <3>1, <4>3 DEF LeaseExclusive
      <4> QED BY <4>1, <4>2, <4>3
    <3>2. ASSUME NEW d \in Client
          PROVE  lease'[d] \notin parking
      BY <2>2, <2>3, <2>4 DEF LeaseExclusive
    <3> QED BY <3>1, <3>2
  <2>8. \A d \in Client, i \in 1 .. Len(available) : lease'[d] # available[i]
    BY <2>3, <2>4, <2>5 DEF LeaseExclusive
  <2> QED BY <2>1, <2>7, <2>8 DEF LeaseExclusive
<1>13. ASSUME NEW c \in Client, ReleaseToIdle(c) PROVE LeaseExclusive'
  BY <1>13, PoolAssumption DEF ReleaseToIdle, TypeOK, LeaseExclusive, LeaseStates, SessionPlaces
<1>14. ASSUME NEW s \in Session, GrowFindsClosed(s) PROVE LeaseExclusive'
  BY <1>14, PoolAssumption DEF GrowFindsClosed, Killed, OwnerGivesUp, TypeOK,
     LeaseExclusive, LeaseStates, SessionPlaces
<1>15. ASSUME NEW s \in Session, GrowRejects(s) PROVE LeaseExclusive'
  BY <1>15, PoolAssumption DEF GrowRejects, OwnerGivesUp, TypeOK, LeaseExclusive,
     LeaseStates, SessionPlaces
<1>16. ASSUME CloseSweeps PROVE LeaseExclusive'
  BY <1>16, PoolAssumption DEF CloseSweeps, Killed, TypeOK, LeaseExclusive, LeaseStates,
     SessionPlaces
<1>17. ASSUME Close PROVE LeaseExclusive'
  BY <1>17, PoolAssumption DEF Close, TypeOK, LeaseExclusive, LeaseStates, SessionPlaces
<1>18. ASSUME NEW s \in Session, ParkClosed(s) PROVE LeaseExclusive'
  BY <1>18, PoolAssumption DEF ParkClosed, TypeOK, LeaseExclusive, LeaseStates, SessionPlaces
<1>19. ASSUME NEW s \in Session, ParkToWaiter(s) PROVE LeaseExclusive'
  <2> DEFINE w == Head(waiters)
  <2>1. /\ waiters # << >> /\ available' = available /\ parking' = parking \ {s} /\ s \in parking
        /\ lease' = [lease EXCEPT ![w] = s]
    BY <1>19 DEF ParkToWaiter
  <2>2. w \in Client
    BY <2>1, ServeOldest
  <2> HIDE DEF w
  <2>3. lease'[w] = s /\ \A d \in Client : d # w => lease'[d] = lease[d]
    BY <2>1, <2>2 DEF TypeOK
  <2> QED BY <2>1, <2>2, <2>3, PoolAssumption DEF LeaseExclusive, TypeOK
<1>20. ASSUME NEW s \in Session, ParkIdle(s) PROVE LeaseExclusive'
  BY <1>20, PoolAssumption DEF ParkIdle, TypeOK, LeaseExclusive, LeaseStates, SessionPlaces
<1>21. ASSUME NEW s \in Session, BreakUnbound(s) PROVE LeaseExclusive'
  BY <1>21, PoolAssumption DEF BreakUnbound, TypeOK, LeaseExclusive, LeaseStates, SessionPlaces
<1>22. ASSUME NEW s \in Session, Evict(s) PROVE LeaseExclusive'
  <2>1. PICK P \in SUBSET Fresh, W \in SUBSET Fresh : EvictStarting(s, P, W)
    BY <1>22 DEF Evict
  <2>2. /\ \A j \in 1 .. Len(available') :
             \E k \in 1 .. Len(available) : available'[j] = available[k]
        /\ \A j, l \in 1 .. Len(available') : available'[j] = available'[l] => j = l
    BY <2>1, EvictAvailable
  <2>3. lease' = lease /\ parking' = parking
    BY <2>1 DEF EvictStarting
  <2> QED BY <2>2, <2>3 DEF LeaseExclusive
<1>23. CASE UNCHANGED vars
  BY <1>23 DEF vars, LeaseExclusive
<1> QED
  BY <1>1, <1>2, <1>3, <1>4, <1>5, <1>6, <1>7, <1>8, <1>9, <1>10, <1>11, <1>12, <1>13,
     <1>14, <1>15, <1>16, <1>17, <1>18, <1>19, <1>20, <1>21, <1>22, <1>23
  DEF Next, Acquire, Release, Settle, Resume, Park

\* NoIdleWhileWaiting: a client only queues after #available was drained, and no session
\* is parked past the queue.
LEMMA NoIdleWhileWaitingStep ==
  ASSUME TypeOK, NoIdleWhileWaiting, [Next]_vars
  PROVE  NoIdleWhileWaiting'
<1> USE PoolAssumption DEF TypeOK, NoIdleWhileWaiting, IdleSet, poolVars, sessionVars,
       clientVars
<1>1. ASSUME NEW c \in Client, AcquireIdle(c) PROVE NoIdleWhileWaiting'
  BY <1>1 DEF AcquireIdle, DroppedAbove
<1>2. ASSUME NEW c \in Client, AcquireGrow(c) PROVE NoIdleWhileWaiting'
  BY <1>2 DEF AcquireGrow, NoneAlive, StartGrow, Opening, Drained, Fresh
<1>3. ASSUME NEW c \in Client, AcquireWait(c) PROVE NoIdleWhileWaiting'
  BY <1>3 DEF AcquireWait, NoneAlive, Drained
<1>4. ASSUME NEW c \in Client, AcquireRejected(c) PROVE NoIdleWhileWaiting'
  BY <1>4 DEF AcquireRejected, NoneAlive, Drained
<1>5. ASSUME NEW c \in Client, AbortWait(c) PROVE NoIdleWhileWaiting'
  BY <1>5 DEF AbortWait
<1>6. ASSUME NEW c \in Client, Granted(c) PROVE NoIdleWhileWaiting'
  BY <1>6 DEF Granted
<1>7. ASSUME NEW s \in Session, OpenSucceeds(s) PROVE NoIdleWhileWaiting'
  BY <1>7 DEF OpenSucceeds
<1>8. ASSUME NEW s \in Session, OpenFails(s) PROVE NoIdleWhileWaiting'
  BY <1>8 DEF OpenFails
<1>9. ASSUME NEW s \in Session, GrowResolves(s) PROVE NoIdleWhileWaiting'
  BY <1>9 DEF GrowResolves
<1>10. ASSUME NEW c \in Client, ReleaseDead(c) PROVE NoIdleWhileWaiting'
  BY <1>10 DEF ReleaseDead
<1>11. ASSUME NEW c \in Client, ReleaseIntoClosed(c) PROVE NoIdleWhileWaiting'
  BY <1>11 DEF ReleaseIntoClosed, Killed
<1>12. ASSUME NEW c \in Client, ReleaseToWaiter(c) PROVE NoIdleWhileWaiting'
  BY <1>12 DEF ReleaseToWaiter
<1>13. ASSUME NEW c \in Client, ReleaseToIdle(c) PROVE NoIdleWhileWaiting'
  BY <1>13 DEF ReleaseToIdle
<1>14. ASSUME NEW s \in Session, GrowFindsClosed(s) PROVE NoIdleWhileWaiting'
  BY <1>14 DEF GrowFindsClosed, Killed, OwnerGivesUp
<1>15. ASSUME NEW s \in Session, GrowRejects(s) PROVE NoIdleWhileWaiting'
  BY <1>15 DEF GrowRejects, OwnerGivesUp
<1>16. ASSUME CloseSweeps PROVE NoIdleWhileWaiting'
  BY <1>16 DEF CloseSweeps, Killed
<1>17. ASSUME Close PROVE NoIdleWhileWaiting'
  BY <1>17 DEF Close
<1>18. ASSUME NEW s \in Session, ParkClosed(s) PROVE NoIdleWhileWaiting'
  BY <1>18 DEF ParkClosed
<1>19. ASSUME NEW s \in Session, ParkToWaiter(s) PROVE NoIdleWhileWaiting'
  BY <1>19 DEF ParkToWaiter
<1>20. ASSUME NEW s \in Session, ParkIdle(s) PROVE NoIdleWhileWaiting'
  BY <1>20 DEF ParkIdle
<1>21. ASSUME NEW s \in Session, BreakUnbound(s) PROVE NoIdleWhileWaiting'
  BY <1>21 DEF BreakUnbound
<1>22. ASSUME NEW s \in Session, Evict(s) PROVE NoIdleWhileWaiting'
  BY <1>22 DEF Evict, EvictStarting, Survivors, Fresh
<1>23. CASE UNCHANGED vars
  BY <1>23 DEF vars
<1> QED
  BY <1>1, <1>2, <1>3, <1>4, <1>5, <1>6, <1>7, <1>8, <1>9, <1>10, <1>11, <1>12, <1>13,
     <1>14, <1>15, <1>16, <1>17, <1>18, <1>19, <1>20, <1>21, <1>22, <1>23
  DEF Next, Acquire, Release, Settle, Resume, Park

\* Queued: every client that waits is still in the queue.
LEMMA QueuedStep ==
  ASSUME TypeOK, SessionPlaces, LeaseStates, QueueStates, Queued, CreateOwners,
         LeaseExclusive, NoIdleWhileWaiting, Accounted, [Next]_vars
  PROVE  Queued'
<1> USE DEF poolVars, sessionVars, clientVars
<1>1. ASSUME NEW c \in Client, AcquireIdle(c) PROVE Queued'
  BY <1>1 DEF AcquireIdle, DroppedAbove, Queued, TypeOK
<1>2. ASSUME NEW c \in Client, AcquireGrow(c) PROVE Queued'
  BY <1>2 DEF AcquireGrow, NoneAlive, StartGrow, Opening, Drained, Fresh, Queued, TypeOK
<1>3. ASSUME NEW c \in Client, AcquireWait(c) PROVE Queued'
  <2>1. waiters' = Append(waiters, c) /\ pc' = [pc EXCEPT ![c] = "waiting"]
        /\ waiters \in Seq(Client) /\ pc \in [Client -> ClientState]
    BY <1>3 DEF AcquireWait, TypeOK
  <2>2. /\ Len(waiters') = Len(waiters) + 1 /\ waiters'[Len(waiters) + 1] = c
        /\ Len(waiters) \in Nat
        /\ \A j \in 1 .. Len(waiters) : waiters'[j] = waiters[j]
    BY <2>1
  <2>3. ASSUME NEW d \in Client, d # c, pc'[d] = "waiting"
        PROVE  \E i \in 1 .. Len(waiters') : waiters'[i] = d
    <3>1. PICK i \in 1 .. Len(waiters) : waiters[i] = d
      BY <2>1, <2>3 DEF Queued
    <3> QED BY <2>2, <3>1
  <2>4. \E i \in 1 .. Len(waiters') : waiters'[i] = c
    BY <2>2
  <2> QED BY <2>3, <2>4 DEF Queued
<1>4. ASSUME NEW c \in Client, AcquireRejected(c) PROVE Queued'
  BY <1>4 DEF AcquireRejected, NoneAlive, Drained, Queued, TypeOK
<1>5. ASSUME NEW c \in Client, AbortWait(c) PROVE Queued'
  <2>1. PICK i \in 1 .. Len(waiters) : waiters[i] = c /\ waiters' = WithoutIndex(waiters, i)
    BY <1>5 DEF AbortWait
  <2>2. /\ waiters \in Seq(Client) /\ pc' = [pc EXCEPT ![c] = "idle"]
        /\ pc \in [Client -> ClientState]
        /\ \A j, k \in 1 .. Len(waiters) : waiters[j] = waiters[k] => j = k
    BY <1>5 DEF AbortWait, TypeOK, QueueStates
  <2>3. \A k \in 1 .. Len(waiters) : k # i =>
          \E j \in 1 .. Len(WithoutIndex(waiters, i)) : WithoutIndex(waiters, i)[j] = waiters[k]
    BY <2>2, WithoutIndexDistinct, Zenon
  <2>4. ASSUME NEW d \in Client, pc'[d] = "waiting"
        PROVE  \E j \in 1 .. Len(waiters') : waiters'[j] = d
    <3>1. d # c /\ pc[d] = "waiting"
      BY <2>2, <2>4
    <3>2. PICK k \in 1 .. Len(waiters) : waiters[k] = d
      BY <3>1 DEF Queued
    <3>3. k # i
      BY <2>1, <3>1, <3>2
    <3> QED BY <2>1, <2>3, <3>2, <3>3
  <2> QED BY <2>4 DEF Queued
<1>6. ASSUME NEW c \in Client, Granted(c) PROVE Queued'
  BY <1>6 DEF Granted, Queued, TypeOK
<1>7. ASSUME NEW s \in Session, OpenSucceeds(s) PROVE Queued'
  BY <1>7 DEF OpenSucceeds, Queued, TypeOK
<1>8. ASSUME NEW s \in Session, OpenFails(s) PROVE Queued'
  BY <1>8 DEF OpenFails, Queued, TypeOK
<1>9. ASSUME NEW s \in Session, GrowResolves(s) PROVE Queued'
  BY <1>9 DEF GrowResolves, Queued, TypeOK
<1>10. ASSUME NEW c \in Client, ReleaseDead(c) PROVE Queued'
  BY <1>10 DEF ReleaseDead, Queued, TypeOK
<1>11. ASSUME NEW c \in Client, ReleaseIntoClosed(c) PROVE Queued'
  BY <1>11 DEF ReleaseIntoClosed, Killed, Queued, TypeOK
<1>12. ASSUME NEW c \in Client, ReleaseToWaiter(c) PROVE Queued'
  <2>1. /\ waiters # << >> /\ waiters' = Tail(waiters) /\ pc \in [Client -> ClientState]
        /\ pc' = [pc EXCEPT ![c] = "idle", ![Head(waiters)] = "granted"]
    BY <1>12 DEF ReleaseToWaiter, TypeOK
  <2>2. ASSUME NEW d \in Client, pc'[d] = "waiting"
        PROVE  \E j \in 1 .. Len(waiters') : waiters'[j] = d
    <3>1. Head(waiters) \in Client /\ d # Head(waiters) /\ pc[d] = "waiting"
      BY <2>1, <2>2, ServeOldest
    <3>2. PICK k \in 1 .. Len(waiters) : waiters[k] = d
      BY <3>1 DEF Queued
    <3> QED BY <2>1, <3>1, <3>2, ServeOldest
  <2> QED BY <2>2 DEF Queued
<1>13. ASSUME NEW c \in Client, ReleaseToIdle(c) PROVE Queued'
  BY <1>13 DEF ReleaseToIdle, Queued, TypeOK
<1>14. ASSUME NEW s \in Session, GrowFindsClosed(s) PROVE Queued'
  BY <1>14 DEF GrowFindsClosed, Killed, OwnerGivesUp, Queued, TypeOK
<1>15. ASSUME NEW s \in Session, GrowRejects(s) PROVE Queued'
  BY <1>15 DEF GrowRejects, OwnerGivesUp, Queued, TypeOK
<1>16. ASSUME CloseSweeps PROVE Queued'
  BY <1>16 DEF CloseSweeps, Killed, Queued, TypeOK
<1>17. ASSUME Close PROVE Queued'
  <2>1. /\ waiters' = << >>
        /\ pc' = [c \in Client |-> IF c \in WaiterSet THEN "idle" ELSE pc[c]]
    BY <1>17 DEF Close
  <2>2. ASSUME NEW c \in Client PROVE pc'[c] # "waiting"
    <3>1. CASE c \in WaiterSet
      BY <2>1, <3>1
    <3>2. CASE c \notin WaiterSet
      BY <2>1, <3>2 DEF WaiterSet, Queued
    <3> QED BY <3>1, <3>2
  <2> QED BY <2>2 DEF Queued
<1>18. ASSUME NEW s \in Session, ParkClosed(s) PROVE Queued'
  BY <1>18 DEF ParkClosed, Queued, TypeOK
<1>19. ASSUME NEW s \in Session, ParkToWaiter(s) PROVE Queued'
  <2>1. /\ waiters # << >> /\ waiters' = Tail(waiters) /\ pc \in [Client -> ClientState]
        /\ pc' = [pc EXCEPT ![Head(waiters)] = "granted"]
    BY <1>19 DEF ParkToWaiter, TypeOK
  <2>2. ASSUME NEW d \in Client, pc'[d] = "waiting"
        PROVE  \E j \in 1 .. Len(waiters') : waiters'[j] = d
    <3>1. Head(waiters) \in Client /\ d # Head(waiters) /\ pc[d] = "waiting"
      BY <2>1, <2>2, ServeOldest
    <3>2. PICK k \in 1 .. Len(waiters) : waiters[k] = d
      BY <3>1 DEF Queued
    <3> QED BY <2>1, <3>1, <3>2, ServeOldest
  <2> QED BY <2>2 DEF Queued
<1>20. ASSUME NEW s \in Session, ParkIdle(s) PROVE Queued'
  BY <1>20 DEF ParkIdle, Queued, TypeOK
<1>21. ASSUME NEW s \in Session, BreakUnbound(s) PROVE Queued'
  BY <1>21 DEF BreakUnbound, Queued, TypeOK
<1>22. ASSUME NEW s \in Session, Evict(s) PROVE Queued'
  <2>0. PICK P \in SUBSET Fresh, W \in SUBSET Fresh : EvictStarting(s, P, W)
    BY <1>22 DEF Evict
  <2>a. CASE P = {}
    BY <2>0, <2>a DEF EvictStarting, Queued
  <2>b. CASE P # {}
    <3>1. /\ waiters # << >> /\ waiters' = Tail(waiters) /\ pc \in [Client -> ClientState]
          /\ pc' = [pc EXCEPT ![Head(waiters)] = "growing"]
      <4>1. waiters # << >>
        BY <2>0, <2>b, EvictPump
      <4> QED BY <2>0, <2>b, <4>1 DEF EvictStarting, TypeOK
    <3>2. ASSUME NEW d \in Client, pc'[d] = "waiting"
          PROVE  \E j \in 1 .. Len(waiters') : waiters'[j] = d
      <4>1. Head(waiters) \in Client /\ d # Head(waiters) /\ pc[d] = "waiting"
        BY <3>1, <3>2, ServeOldest
      <4>2. PICK k \in 1 .. Len(waiters) : waiters[k] = d
        BY <4>1 DEF Queued
      <4> QED BY <3>1, <4>1, <4>2, ServeOldest
    <3> QED BY <3>2 DEF Queued
  <2> QED BY <2>a, <2>b
<1>23. CASE UNCHANGED vars
  BY <1>23 DEF vars, Queued
<1> QED
  BY <1>1, <1>2, <1>3, <1>4, <1>5, <1>6, <1>7, <1>8, <1>9, <1>10, <1>11, <1>12, <1>13,
     <1>14, <1>15, <1>16, <1>17, <1>18, <1>19, <1>20, <1>21, <1>22, <1>23
  DEF Next, Acquire, Release, Settle, Resume, Park

\* Accounted: what close() awaits and sweeps is all there is.
LEMMA AccountedStep ==
  ASSUME TypeOK, SessionPlaces, LeaseStates, QueueStates, Queued, CreateOwners,
         LeaseExclusive, NoIdleWhileWaiting, Accounted, TypeOK', [Next]_vars
  PROVE  Accounted'
<1> USE PoolAssumption DEF TypeOK, Accounted, SessionPlaces, ClientState, Life,
       poolVars, sessionVars, clientVars
<1>1. ASSUME NEW c \in Client, AcquireIdle(c) PROVE Accounted'
  BY <1>1 DEF AcquireIdle, DroppedAbove
<1>2. ASSUME NEW c \in Client, AcquireGrow(c) PROVE Accounted'
  <2>1. \A x \in IdleSet : life[x] = "dead"
    BY <1>2 DEF AcquireGrow, NoneAlive, IdleSet
  <2>2. \A x \in Session : life[x] = "alive" => x \in Drained \cup creates
    BY <2>1 DEF Drained
  <2>3. PICK s \in Fresh : StartGrow({s}, [x \in Session |-> c]) /\ life' = Opening({s})
    BY <1>2 DEF AcquireGrow
  <2>4. /\ pool = "open" /\ pool' = pool /\ waiters' = waiters /\ all' = Drained
        /\ pc' = [pc EXCEPT ![c] = "growing"]
    BY <1>2 DEF AcquireGrow
  <2>5. /\ creates' = creates \cup {s} /\ s \in Session
        /\ owner'[s] = c /\ \A x \in Session : x # s => owner'[x] = owner[x]
        /\ life'[s] = "opening" /\ \A x \in Session : x # s => life'[x] = life[x]
    BY <2>3 DEF StartGrow, Opening, Fresh
  <2>6. \A x \in creates : x # s
    BY <2>3 DEF Fresh
  <2> QED BY <2>2, <2>4, <2>5, <2>6
<1>3. ASSUME NEW c \in Client, AcquireWait(c) PROVE Accounted'
  <2>1. \A x \in IdleSet : life[x] = "dead"
    BY <1>3 DEF AcquireWait, NoneAlive, IdleSet
  <2>2. \A x \in Session : life[x] = "alive" => x \in Drained \cup creates
    BY <2>1 DEF Drained
  <2> QED BY <1>3, <2>2 DEF AcquireWait
<1>4. ASSUME NEW c \in Client, AcquireRejected(c) PROVE Accounted'
  <2>1. \A x \in IdleSet : life[x] = "dead"
    BY <1>4 DEF AcquireRejected, NoneAlive, IdleSet
  <2>2. \A x \in Session : life[x] = "alive" => x \in Drained \cup creates
    BY <2>1 DEF Drained
  <2> QED BY <1>4, <2>2 DEF AcquireRejected
<1>5. ASSUME NEW c \in Client, AbortWait(c) PROVE Accounted'
  BY <1>5 DEF AbortWait
<1>6. ASSUME NEW c \in Client, Granted(c) PROVE Accounted'
  BY <1>6 DEF Granted
<1>7. ASSUME NEW s \in Session, OpenSucceeds(s) PROVE Accounted'
  BY <1>7 DEF OpenSucceeds
<1>8. ASSUME NEW s \in Session, OpenFails(s) PROVE Accounted'
  BY <1>8 DEF OpenFails
<1>9. ASSUME NEW s \in Session, GrowResolves(s) PROVE Accounted'
  BY <1>9 DEF GrowResolves
<1>10. ASSUME NEW c \in Client, ReleaseDead(c) PROVE Accounted'
  BY <1>10 DEF ReleaseDead
<1>11. ASSUME NEW c \in Client, ReleaseIntoClosed(c) PROVE Accounted'
  BY <1>11 DEF ReleaseIntoClosed, Killed
<1>12. ASSUME NEW c \in Client, ReleaseToWaiter(c) PROVE Accounted'
  BY <1>12 DEF ReleaseToWaiter
<1>13. ASSUME NEW c \in Client, ReleaseToIdle(c) PROVE Accounted'
  BY <1>13 DEF ReleaseToIdle
<1>14. ASSUME NEW s \in Session, GrowFindsClosed(s) PROVE Accounted'
  BY <1>14 DEF GrowFindsClosed, Killed, OwnerGivesUp
<1>15. ASSUME NEW s \in Session, GrowRejects(s) PROVE Accounted'
  BY <1>15 DEF GrowRejects, OwnerGivesUp
<1>16. ASSUME CloseSweeps PROVE Accounted'
  BY <1>16 DEF CloseSweeps, Killed
<1>17. ASSUME Close PROVE Accounted'
  BY <1>17 DEF Close
<1>18. ASSUME NEW s \in Session, ParkClosed(s) PROVE Accounted'
  BY <1>18 DEF ParkClosed
<1>19. ASSUME NEW s \in Session, ParkToWaiter(s) PROVE Accounted'
  BY <1>19 DEF ParkToWaiter
<1>20. ASSUME NEW s \in Session, ParkIdle(s) PROVE Accounted'
  BY <1>20 DEF ParkIdle
<1>21. ASSUME NEW s \in Session, BreakUnbound(s) PROVE Accounted'
  BY <1>21 DEF BreakUnbound
<1>22. ASSUME NEW s \in Session, Evict(s) PROVE Accounted'
  BY <1>22 DEF Evict, EvictStarting, Survivors, Fresh
<1>23. CASE UNCHANGED vars
  BY <1>23 DEF vars
<1> QED
  BY <1>1, <1>2, <1>3, <1>4, <1>5, <1>6, <1>7, <1>8, <1>9, <1>10, <1>11, <1>12, <1>13,
     <1>14, <1>15, <1>16, <1>17, <1>18, <1>19, <1>20, <1>21, <1>22, <1>23
  DEF Next, Acquire, Release, Settle, Resume, Park

\* The constructor establishes the invariant.
LEMMA PoolInvInit == Init => PoolInv
<1> SUFFICES ASSUME Init PROVE PoolInv
  OBVIOUS
<1>1. TypeOK /\ Capacity
  BY TypeInit, CapacityInit
<1>2. /\ SessionPlaces /\ LeaseStates /\ QueueStates /\ Queued /\ CreateOwners
      /\ LeaseExclusive /\ NoIdleWhileWaiting
  BY PoolAssumption DEF Init, SessionPlaces, LeaseStates, QueueStates, Queued, CreateOwners,
     LeaseExclusive, NoIdleWhileWaiting
<1>3. Accounted
  BY DEF Init, Accounted
<1> QED BY <1>1, <1>2, <1>3 DEF PoolInv

\* Every action preserves it.
LEMMA PoolInvStep == PoolInv /\ [Next]_vars => PoolInv'
<1> SUFFICES ASSUME PoolInv, [Next]_vars PROVE PoolInv'
  OBVIOUS
<1> USE DEF PoolInv
<1>1. TypeOK'
  BY TypeStep
<1>2. Capacity'
  BY CapacityStep
<1>3. SessionPlaces' /\ LeaseStates' /\ QueueStates' /\ Queued'
  BY SessionPlacesStep, LeaseStatesStep, QueueStatesStep, QueuedStep
<1>4. CreateOwners' /\ LeaseExclusive' /\ NoIdleWhileWaiting'
  BY CreateOwnersStep, LeaseExclusiveStep, NoIdleWhileWaitingStep
<1>5. Accounted'
  BY <1>1, AccountedStep
<1> QED BY <1>1, <1>2, <1>3, <1>4, <1>5

\* The invariant the theorems below rest on holds in every reachable state.
THEOREM PoolInvHolds == Spec => []PoolInv
<1>1. PoolInv /\ [Next]_vars => PoolInv'
  BY PoolInvStep
<1> QED BY PoolInvInit, <1>1, PTL DEF Spec

\* LeaseExclusive: no two clients ever hold the same session, and a session that is out
\* is not also idle or about to be parked.
THEOREM LeaseExclusiveHolds == Spec => []LeaseExclusive
<1>1. PoolInv => LeaseExclusive
  BY DEF PoolInv
<1> QED BY PoolInvHolds, <1>1, PTL

\* NoIdleWhileWaiting: no client waits beside an idle session.
THEOREM NoIdleWhileWaitingHolds == Spec => []NoIdleWhileWaiting
<1>1. PoolInv => NoIdleWhileWaiting
  BY DEF PoolInv
<1> QED BY PoolInvHolds, <1>1, PTL

\* CloseDrains: when close() has resolved, nothing is left alive, tracked, being
\* created or waiting.
THEOREM CloseDrainsHolds == Spec => []CloseDrains
<1>1. PoolInv => CloseDrains
  <2> SUFFICES ASSUME PoolInv, pool = "closed"
               PROVE  /\ all = {} /\ creates = {} /\ waiters = << >> /\ available = << >>
                      /\ \A s \in Session : life[s] \in {"unborn", "dead"}
                      /\ \A c \in Client : pc[c] \notin {"waiting", "growing"}
    BY DEF CloseDrains
  <2>1. all = {} /\ creates = {} /\ waiters = << >> /\ available = << >>
    BY DEF PoolInv, Accounted
  <2>2. \A s \in Session : life[s] \in {"unborn", "dead"}
    BY <2>1 DEF PoolInv, Accounted, TypeOK, Life
  <2>3. \A c \in Client : pc[c] # "growing"
    BY <2>1 DEF PoolInv, Accounted
  <2>4. \A c \in Client : pc[c] # "waiting"
    BY <2>1 DEF PoolInv, Queued
  <2> QED BY <2>1, <2>2, <2>3, <2>4
<1> QED BY PoolInvHolds, <1>1, PTL

-----------------------------------------------------------------------------
(* Slots *)

\* While no session dies before its eviction listener is bound, what is tracked is alive,
\* and only tracked sessions have a bound listener.
TrackedAlive ==
  /\ \A s \in all : life[s] = "alive"
  /\ \A s \in creates : life[s] # "dead"
  /\ bound \subseteq all

LEMMA TrackedAliveStep ==
  ASSUME ~EarlyDeath, PoolInv, TrackedAlive, [Next]_vars
  PROVE  TrackedAlive'
<1> USE DEF TrackedAlive, TypeOK, SessionPlaces, PoolInv, IdleSet, NoneAlive, poolVars, sessionVars, clientVars
<1>1. ASSUME NEW c \in Client, AcquireIdle(c) PROVE TrackedAlive'
  BY <1>1 DEF AcquireIdle, DroppedAbove
<1>2. ASSUME NEW c \in Client, AcquireGrow(c) PROVE TrackedAlive'
  BY <1>2 DEF AcquireGrow, StartGrow, Opening, Drained, Fresh
<1>3. ASSUME NEW c \in Client, AcquireWait(c) PROVE TrackedAlive'
  BY <1>3 DEF AcquireWait, Drained
<1>4. ASSUME NEW c \in Client, AcquireRejected(c) PROVE TrackedAlive'
  BY <1>4 DEF AcquireRejected, Drained
<1>5. ASSUME NEW c \in Client, AbortWait(c) PROVE TrackedAlive'
  BY <1>5 DEF AbortWait
<1>6. ASSUME NEW c \in Client, Granted(c) PROVE TrackedAlive'
  BY <1>6 DEF Granted
<1>7. ASSUME NEW s \in Session, OpenSucceeds(s) PROVE TrackedAlive'
  BY <1>7 DEF OpenSucceeds
<1>8. ASSUME NEW s \in Session, OpenFails(s) PROVE TrackedAlive'
  BY <1>8 DEF OpenFails
<1>9. ASSUME NEW s \in Session, GrowResolves(s) PROVE TrackedAlive'
  BY <1>9 DEF GrowResolves
<1>10. ASSUME NEW c \in Client, ReleaseDead(c) PROVE TrackedAlive'
  BY <1>10 DEF ReleaseDead
<1>11. ASSUME NEW c \in Client, ReleaseIntoClosed(c) PROVE TrackedAlive'
  BY <1>11 DEF ReleaseIntoClosed, Killed
<1>12. ASSUME NEW c \in Client, ReleaseToWaiter(c) PROVE TrackedAlive'
  BY <1>12 DEF ReleaseToWaiter
<1>13. ASSUME NEW c \in Client, ReleaseToIdle(c) PROVE TrackedAlive'
  BY <1>13 DEF ReleaseToIdle
<1>14. ASSUME NEW s \in Session, GrowFindsClosed(s) PROVE TrackedAlive'
  BY <1>14 DEF GrowFindsClosed, Killed, OwnerGivesUp
<1>15. ASSUME NEW s \in Session, GrowRejects(s) PROVE TrackedAlive'
  BY <1>15 DEF GrowRejects, OwnerGivesUp
<1>16. ASSUME CloseSweeps PROVE TrackedAlive'
  BY <1>16 DEF CloseSweeps, Killed
<1>17. ASSUME Close PROVE TrackedAlive'
  BY <1>17 DEF Close
<1>18. ASSUME NEW s \in Session, ParkClosed(s) PROVE TrackedAlive'
  BY <1>18 DEF ParkClosed
<1>19. ASSUME NEW s \in Session, ParkToWaiter(s) PROVE TrackedAlive'
  BY <1>19 DEF ParkToWaiter
<1>20. ASSUME NEW s \in Session, ParkIdle(s) PROVE TrackedAlive'
  BY <1>20 DEF ParkIdle
<1>21. ASSUME NEW s \in Session, BreakUnbound(s) PROVE TrackedAlive'
  BY <1>21 DEF BreakUnbound
<1>22. ASSUME NEW s \in Session, Evict(s) PROVE TrackedAlive'
  <2>1. PICK P \in SUBSET Fresh, W \in SUBSET Fresh : EvictStarting(s, P, W)
    BY <1>22 DEF Evict
  <2>2. /\ all' = all \ {s} /\ creates' = creates \cup P \cup W /\ bound' = bound \ {s}
        /\ \A x \in Session : x # s /\ x \notin P \cup W => life'[x] = life[x]
        /\ \A x \in Session : x # s /\ x \in P \cup W => life'[x] = "opening"
    BY <2>1 DEF EvictStarting, Survivors
  <2>3. life[s] = "alive" /\ s \notin P \cup W
    BY <2>1 DEF EvictStarting, Fresh
  <2>4. all \cap (P \cup W) = {}
    BY DEF Fresh
  <2>5. s \in bound /\ s \in all /\ s \notin creates
    BY <2>1 DEF EvictStarting
  <2>6. \A x \in all' : life'[x] = "alive"
    BY <2>2, <2>4
  <2>7. \A x \in creates' : life'[x] # "dead"
    BY <2>2, <2>3, <2>5 DEF Fresh
  <2> QED BY <2>2, <2>6, <2>7
<1>23. CASE UNCHANGED vars
  BY <1>23 DEF vars
<1> QED
  BY <1>1, <1>2, <1>3, <1>4, <1>5, <1>6, <1>7, <1>8, <1>9, <1>10, <1>11, <1>12, <1>13,
     <1>14, <1>15, <1>16, <1>17, <1>18, <1>19, <1>20, <1>21, <1>22, <1>23
  DEF Next, Acquire, Release, Settle, Resume, Park

\* Where a counted session may be.
Placed(x) ==
  \/ \E i \in 1 .. Len(available) : available[i] = x
  \/ \E c \in Client : lease[c] = x
  \/ x \in parking

LEMMA SlotsPlaced ==
  ASSUME TypeOK
  PROVE  NoLeakedSlot <=> (pool = "open" => \A x \in all : Placed(x))
BY PoolAssumption DEF NoLeakedSlot, Placed, IdleSet, LeasedSet, TypeOK

LEMMA PushedLast ==
  ASSUME NEW S, NEW seq \in Seq(S), NEW x \in S
  PROVE  /\ Len(Append(seq, x)) = Len(seq) + 1
         /\ Append(seq, x)[Len(seq) + 1] = x
         /\ \A j \in 1 .. Len(seq) : Append(seq, x)[j] = seq[j]
OBVIOUS

LEMMA NoLeakedSlotStep ==
  ASSUME PoolInv, TrackedAlive, NoLeakedSlot, [Next]_vars
  PROVE  NoLeakedSlot'
<1> USE DEF PoolInv, poolVars, sessionVars, clientVars, IdleSet, LeasedSet
<1>a. TypeOK'
  BY TypeStep
<1>b. pool = "open" => \A x \in all : Placed(x)
  BY SlotsPlaced
<1>c. (pool' = "open" => \A x \in all' : Placed(x)') => NoLeakedSlot'
  BY <1>a, PoolAssumption DEF NoLeakedSlot, Placed, IdleSet, LeasedSet, TypeOK
<1>1. ASSUME NEW c \in Client, AcquireIdle(c) PROVE NoLeakedSlot'
  <2> SUFFICES ASSUME pool = "open", NEW x \in all'
               PROVE  Placed(x)'
    BY <1>1, <1>c DEF AcquireIdle
  <2>1. PICK i \in 1 .. Len(available) :
          /\ available' = SubSeq(available, 1, i - 1)
          /\ all' = all \ DroppedAbove(i)
          /\ lease' = [lease EXCEPT ![c] = available[i]]
    BY <1>1 DEF AcquireIdle
  <2>2. \A j \in 1 .. i - 1 : j \in 1 .. Len(available') /\ available'[j] = available[j]
    BY <2>1, PrefixProps DEF TypeOK
  <2>3. Placed(x) /\ x \notin DroppedAbove(i) /\ pc[c] = "idle" /\ parking' = parking
    BY <1>1, <2>1, <1>b DEF AcquireIdle, sessionVars
  <2>4. ASSUME NEW j \in 1 .. Len(available), available[j] = x PROVE Placed(x)'
    <3>1. j <= i
      BY <2>3, <2>4 DEF DroppedAbove
    <3>2. CASE j = i
      BY <2>1, <2>4, <3>2 DEF Placed, TypeOK
    <3>3. CASE j # i
      <4>1. j \in 1 .. i - 1
        BY <3>1, <3>3
      <4> QED BY <2>2, <2>4, <4>1 DEF Placed
    <3> QED BY <3>2, <3>3
  <2>5. \A d \in Client : lease[d] = x => d # c
    <3>1. lease[c] = NoSession
      BY <2>3 DEF LeaseStates
    <3> QED BY <2>1, <3>1, PoolAssumption DEF TypeOK
  <2> QED BY <2>1, <2>3, <2>4, <2>5 DEF Placed, TypeOK
<1>2. ASSUME NEW c \in Client, AcquireGrow(c) PROVE NoLeakedSlot'
  BY <1>2 DEF NoLeakedSlot, AcquireGrow, StartGrow, Opening, Drained, Fresh
<1>3. ASSUME NEW c \in Client, AcquireWait(c) PROVE NoLeakedSlot'
  BY <1>3 DEF NoLeakedSlot, AcquireWait, Drained
<1>4. ASSUME NEW c \in Client, AcquireRejected(c) PROVE NoLeakedSlot'
  BY <1>4 DEF NoLeakedSlot, AcquireRejected, Drained
<1>5. ASSUME NEW c \in Client, AbortWait(c) PROVE NoLeakedSlot'
  BY <1>5 DEF NoLeakedSlot, AbortWait
<1>6. ASSUME NEW c \in Client, Granted(c) PROVE NoLeakedSlot'
  BY <1>6 DEF NoLeakedSlot, Granted
<1>7. ASSUME NEW s \in Session, OpenSucceeds(s) PROVE NoLeakedSlot'
  BY <1>7 DEF NoLeakedSlot, OpenSucceeds
<1>8. ASSUME NEW s \in Session, OpenFails(s) PROVE NoLeakedSlot'
  BY <1>8 DEF NoLeakedSlot, OpenFails
<1>9. ASSUME NEW s \in Session, GrowResolves(s) PROVE NoLeakedSlot'
  <2> SUFFICES ASSUME pool = "open", NEW x \in all'
               PROVE  Placed(x)'
    BY <1>9, <1>c DEF GrowResolves
  <2>1. CASE owner[s] = Warmup
    <3>1. /\ available' = available /\ lease' = lease /\ parking' = parking \cup {s}
          /\ all' = all \cup {s}
      BY <1>9, <2>1, PoolAssumption DEF GrowResolves, clientVars
    <3>2. x = s \/ Placed(x)
      BY <1>9, <3>1, <1>b DEF GrowResolves
    <3> QED BY <3>1, <3>2 DEF Placed
  <2>2. CASE owner[s] # Warmup
    <3>1. /\ available' = available /\ parking' = parking /\ all' = all \cup {s}
          /\ lease' = [lease EXCEPT ![owner[s]] = s]
          /\ owner[s] \in Client /\ pc[owner[s]] = "growing"
      BY <1>9, <2>2 DEF GrowResolves, TypeOK, CreateOwners
    <3>2. x = s \/ Placed(x)
      BY <1>9, <3>1, <1>b DEF GrowResolves
    <3>3. lease'[owner[s]] = s /\ \A d \in Client : d # owner[s] => lease'[d] = lease[d]
      BY <3>1 DEF TypeOK
    <3>4. lease[owner[s]] = NoSession
      BY <3>1 DEF LeaseStates
    <3>5. x # NoSession
      BY PoolAssumption, TypeStep DEF TypeOK
    <3> QED BY <3>1, <3>2, <3>3, <3>4, <3>5 DEF Placed
  <2> QED BY <2>1, <2>2
<1>10. ASSUME NEW c \in Client, ReleaseDead(c) PROVE NoLeakedSlot'
  <2> SUFFICES ASSUME pool = "open", NEW x \in all'
               PROVE  Placed(x)'
    BY <1>10, <1>c DEF ReleaseDead
  <2>1. /\ available' = available /\ parking' = parking /\ all' = all
        /\ lease' = [lease EXCEPT ![c] = NoSession]
    BY <1>10 DEF ReleaseDead
  <2>2. Placed(x)
    BY <2>1, <1>b
  \* only what is tracked is alive, so the session is out of #all
  <2>3. lease[c] \notin all
    BY <1>10 DEF ReleaseDead, TrackedAlive
  <2>4. \A d \in Client : d # c => lease'[d] = lease[d]
    BY <2>1 DEF TypeOK
  <2> QED BY <2>1, <2>2, <2>3, <2>4 DEF Placed
<1>11. ASSUME NEW c \in Client, ReleaseIntoClosed(c) PROVE NoLeakedSlot'
  BY <1>11 DEF NoLeakedSlot, ReleaseIntoClosed, Killed
<1>12. ASSUME NEW c \in Client, ReleaseToWaiter(c) PROVE NoLeakedSlot'
  <2> SUFFICES ASSUME pool = "open", NEW x \in all'
               PROVE  Placed(x)'
    BY <1>12, <1>c DEF ReleaseToWaiter
  <2>1. /\ available' = available /\ parking' = parking /\ all' = all /\ waiters # << >>
        /\ lease' = [lease EXCEPT ![c] = NoSession, ![Head(waiters)] = lease[c]]
        /\ pc[c] = "holding"
    BY <1>12 DEF ReleaseToWaiter, sessionVars
  <2>2. Head(waiters) \in Client /\ pc[Head(waiters)] = "waiting"
    BY <2>1, ServeOldest
  <2>3. lease[Head(waiters)] = NoSession /\ c # Head(waiters)
    BY <2>1, <2>2 DEF LeaseStates
  <2>4. /\ lease'[Head(waiters)] = lease[c]
        /\ \A d \in Client : d # c /\ d # Head(waiters) => lease'[d] = lease[d]
    BY <2>1, <2>2, <2>3 DEF TypeOK
  <2>5. Placed(x) /\ x # NoSession
    BY <2>1, PoolAssumption, <1>b DEF TypeOK
  <2> QED BY <2>1, <2>2, <2>3, <2>4, <2>5 DEF Placed
<1>13. ASSUME NEW c \in Client, ReleaseToIdle(c) PROVE NoLeakedSlot'
  <2> SUFFICES ASSUME pool = "open", NEW x \in all'
               PROVE  Placed(x)'
    BY <1>13, <1>c DEF ReleaseToIdle
  <2>1. /\ available' = Append(available, lease[c]) /\ parking' = parking /\ all' = all
        /\ lease' = [lease EXCEPT ![c] = NoSession] /\ lease[c] \in Session
    BY <1>13 DEF ReleaseToIdle, sessionVars, TypeOK
  <2>2. /\ Len(available') = Len(available) + 1 /\ available'[Len(available) + 1] = lease[c]
        /\ \A i \in 1 .. Len(available) : available'[i] = available[i]
    BY <2>1, PushedLast DEF TypeOK
  <2>3. \A d \in Client : d # c => lease'[d] = lease[d]
    BY <2>1 DEF TypeOK
  <2>4. Placed(x)
    BY <2>1, <1>b
  <2>5. Len(available) + 1 \in 1 .. Len(available')
        /\ 1 .. Len(available) \subseteq 1 .. Len(available')
    BY <2>2 DEF TypeOK
  <2> QED BY <2>1, <2>2, <2>3, <2>4, <2>5 DEF Placed
<1>14. ASSUME NEW s \in Session, GrowFindsClosed(s) PROVE NoLeakedSlot'
  BY <1>14 DEF NoLeakedSlot, GrowFindsClosed, Killed, OwnerGivesUp
<1>15. ASSUME NEW s \in Session, GrowRejects(s) PROVE NoLeakedSlot'
  BY <1>15 DEF NoLeakedSlot, GrowRejects, OwnerGivesUp
<1>16. ASSUME CloseSweeps PROVE NoLeakedSlot'
  BY <1>16 DEF NoLeakedSlot, CloseSweeps, Killed
<1>17. ASSUME Close PROVE NoLeakedSlot'
  BY <1>17 DEF NoLeakedSlot, Close
<1>18. ASSUME NEW s \in Session, ParkClosed(s) PROVE NoLeakedSlot'
  BY <1>18 DEF NoLeakedSlot, ParkClosed
<1>19. ASSUME NEW s \in Session, ParkToWaiter(s) PROVE NoLeakedSlot'
  <2> SUFFICES ASSUME pool = "open", NEW x \in all'
               PROVE  Placed(x)'
    BY <1>19, <1>c DEF ParkToWaiter
  <2>1. /\ available' = available /\ parking' = parking \ {s} /\ all' = all /\ waiters # << >>
        /\ lease' = [lease EXCEPT ![Head(waiters)] = s]
    BY <1>19 DEF ParkToWaiter
  <2>2. Head(waiters) \in Client /\ pc[Head(waiters)] = "waiting"
    BY <2>1, ServeOldest
  <2>3. lease[Head(waiters)] = NoSession
    BY <2>2 DEF LeaseStates
  <2>4. /\ lease'[Head(waiters)] = s
        /\ \A d \in Client : d # Head(waiters) => lease'[d] = lease[d]
    BY <2>1, <2>2 DEF TypeOK
  <2>5. Placed(x) /\ x # NoSession
    BY <2>1, PoolAssumption, <1>b DEF TypeOK
  <2> QED BY <2>1, <2>2, <2>3, <2>4, <2>5 DEF Placed
<1>20. ASSUME NEW s \in Session, ParkIdle(s) PROVE NoLeakedSlot'
  <2> SUFFICES ASSUME pool = "open", NEW x \in all'
               PROVE  Placed(x)'
    BY <1>20, <1>c DEF ParkIdle
  <2>1. /\ available' = Append(available, s) /\ parking' = parking \ {s} /\ all' = all
        /\ lease' = lease
    BY <1>20 DEF ParkIdle, clientVars
  <2>2. /\ Len(available') = Len(available) + 1 /\ available'[Len(available) + 1] = s
        /\ \A i \in 1 .. Len(available) : available'[i] = available[i]
    BY <2>1, PushedLast DEF TypeOK
  <2>3. Placed(x)
    BY <2>1, <1>b
  <2>4. Len(available) + 1 \in 1 .. Len(available')
        /\ 1 .. Len(available) \subseteq 1 .. Len(available')
    BY <2>2 DEF TypeOK
  <2> QED BY <2>1, <2>2, <2>3, <2>4 DEF Placed
<1>21. ASSUME NEW s \in Session, BreakUnbound(s) PROVE NoLeakedSlot'
  BY <1>21 DEF NoLeakedSlot, BreakUnbound
<1>22. ASSUME NEW s \in Session, Evict(s) PROVE NoLeakedSlot'
  <2>1. PICK P \in SUBSET Fresh, W \in SUBSET Fresh : EvictStarting(s, P, W)
    BY <1>22 DEF Evict
  <2> SUFFICES ASSUME pool = "open", NEW x \in all'
               PROVE  Placed(x)'
    BY <2>1, <1>c DEF EvictStarting
  <2>2. x \in all /\ x # s /\ lease' = lease /\ parking' = parking
    BY <2>1 DEF EvictStarting, Survivors
  <2>3. Placed(x)
    BY <2>2, <1>b
  <2>4. ASSUME NEW j \in 1 .. Len(available), available[j] = x
        PROVE  \E k \in 1 .. Len(available') : available'[k] = x
    <3>1. CASE available' = available
      BY <2>4, <3>1
    <3>2. CASE available' # available
      <4>1. PICK i \in 1 .. Len(available) :
              available[i] = s /\ available' = WithoutIndex(available, i)
        BY <2>1, <3>2 DEF EvictStarting
      <4>2. j # i
        BY <2>2, <2>4, <4>1
      <4>3. \A k \in 1 .. Len(available) : k # i =>
              \E m \in 1 .. Len(WithoutIndex(available, i)) :
                WithoutIndex(available, i)[m] = available[k]
        BY WithoutIndexDistinct DEF TypeOK, LeaseExclusive
      <4> QED BY <2>4, <4>1, <4>2, <4>3
    <3> QED BY <3>1, <3>2
  <2> QED BY <2>2, <2>3, <2>4 DEF Placed
<1>23. CASE UNCHANGED vars
  BY <1>23 DEF vars, NoLeakedSlot
<1> QED
  BY <1>1, <1>2, <1>3, <1>4, <1>5, <1>6, <1>7, <1>8, <1>9, <1>10, <1>11, <1>12, <1>13,
     <1>14, <1>15, <1>16, <1>17, <1>18, <1>19, <1>20, <1>21, <1>22, <1>23
  DEF Next, Acquire, Release, Settle, Resume, Park

\* NoLeakedSlot: as long as no attach stream ends before #grow has bound the eviction
\* listener, a slot that an open pool counts is idle, held or on its way, for every maxSize
\* and however creates fail: a session that release() drops as dead is out of #all already.
THEOREM NoLeakedSlotHolds ==
  ASSUME ~EarlyDeath
  PROVE  Spec => []NoLeakedSlot
<1>1. Init => TrackedAlive /\ NoLeakedSlot
  BY DEF Init, TrackedAlive, NoLeakedSlot
<1>2. PoolInv /\ TrackedAlive /\ NoLeakedSlot /\ [Next]_vars => TrackedAlive' /\ NoLeakedSlot'
  BY TrackedAliveStep, NoLeakedSlotStep
<1> QED BY PoolInvHolds, <1>1, <1>2, PTL DEF Spec

-----------------------------------------------------------------------------
(* The wait queue *)

\* While Session.open never rejects, an open pool has no failed create, and clients only
\* wait for a pool that is full.
NoneFailed == pool = "open" => \A s \in creates : life[s] # "failed"
Full == waiters # << >> => Cardinality(all) + Cardinality(creates) >= MaxSize

LEMMA NoneFailedStep ==
  ASSUME ~OpenMayFail, PoolInv, NoneFailed, [Next]_vars
  PROVE  NoneFailed'
<1> USE DEF NoneFailed, TypeOK, SessionPlaces, PoolInv, poolVars, sessionVars, clientVars
<1>1. ASSUME NEW c \in Client, AcquireIdle(c) PROVE NoneFailed'
  BY <1>1 DEF AcquireIdle, DroppedAbove
<1>2. ASSUME NEW c \in Client, AcquireGrow(c) PROVE NoneFailed'
  BY <1>2 DEF AcquireGrow, StartGrow, Opening, Drained, Fresh
<1>3. ASSUME NEW c \in Client, AcquireWait(c) PROVE NoneFailed'
  BY <1>3 DEF AcquireWait, Drained
<1>4. ASSUME NEW c \in Client, AcquireRejected(c) PROVE NoneFailed'
  BY <1>4 DEF AcquireRejected, Drained
<1>5. ASSUME NEW c \in Client, AbortWait(c) PROVE NoneFailed'
  BY <1>5 DEF AbortWait
<1>6. ASSUME NEW c \in Client, Granted(c) PROVE NoneFailed'
  BY <1>6 DEF Granted
<1>7. ASSUME NEW s \in Session, OpenSucceeds(s) PROVE NoneFailed'
  BY <1>7 DEF OpenSucceeds
<1>8. ASSUME NEW s \in Session, OpenFails(s) PROVE NoneFailed'
  BY <1>8 DEF OpenFails
<1>9. ASSUME NEW s \in Session, GrowResolves(s) PROVE NoneFailed'
  BY <1>9 DEF GrowResolves
<1>10. ASSUME NEW c \in Client, ReleaseDead(c) PROVE NoneFailed'
  BY <1>10 DEF ReleaseDead
<1>11. ASSUME NEW c \in Client, ReleaseIntoClosed(c) PROVE NoneFailed'
  BY <1>11 DEF ReleaseIntoClosed, Killed
<1>12. ASSUME NEW c \in Client, ReleaseToWaiter(c) PROVE NoneFailed'
  BY <1>12 DEF ReleaseToWaiter
<1>13. ASSUME NEW c \in Client, ReleaseToIdle(c) PROVE NoneFailed'
  BY <1>13 DEF ReleaseToIdle
<1>14. ASSUME NEW s \in Session, GrowFindsClosed(s) PROVE NoneFailed'
  BY <1>14 DEF GrowFindsClosed, Killed, OwnerGivesUp
<1>15. ASSUME NEW s \in Session, GrowRejects(s) PROVE NoneFailed'
  BY <1>15 DEF GrowRejects, OwnerGivesUp
<1>16. ASSUME CloseSweeps PROVE NoneFailed'
  BY <1>16 DEF CloseSweeps, Killed
<1>17. ASSUME Close PROVE NoneFailed'
  BY <1>17 DEF Close
<1>18. ASSUME NEW s \in Session, ParkClosed(s) PROVE NoneFailed'
  BY <1>18 DEF ParkClosed
<1>19. ASSUME NEW s \in Session, ParkToWaiter(s) PROVE NoneFailed'
  BY <1>19 DEF ParkToWaiter
<1>20. ASSUME NEW s \in Session, ParkIdle(s) PROVE NoneFailed'
  BY <1>20 DEF ParkIdle
<1>21. ASSUME NEW s \in Session, BreakUnbound(s) PROVE NoneFailed'
  BY <1>21 DEF BreakUnbound
<1>22. ASSUME NEW s \in Session, Evict(s) PROVE NoneFailed'
  BY <1>22 DEF Evict, EvictStarting, Survivors, Fresh
<1>23. CASE UNCHANGED vars
  BY <1>23 DEF vars
<1> QED
  BY <1>1, <1>2, <1>3, <1>4, <1>5, <1>6, <1>7, <1>8, <1>9, <1>10, <1>11, <1>12, <1>13,
     <1>14, <1>15, <1>16, <1>17, <1>18, <1>19, <1>20, <1>21, <1>22, <1>23
  DEF Next, Acquire, Release, Settle, Resume, Park

\* What does not touch the slots or make clients wait keeps the pool as full as it was.
LEMMA FullKept ==
  ASSUME Full, all' = all, creates' = creates, waiters' # << >> => waiters # << >>
  PROVE  Full'
BY DEF Full

\* While clients wait there is no room for another create.
LEMMA OnlyWhenFull ==
  ASSUME TypeOK, NoIdleWhileWaiting, Full, waiters # << >>
  PROVE  ~HasRoom(Drained)
<1>1. Drained = all
  BY DEF NoIdleWhileWaiting, Drained, IdleSet, TypeOK
<1>2. Cardinality(all) \in Nat /\ Cardinality(creates) \in Nat
  BY FiniteSessions DEF TypeOK
<1> QED BY <1>1, <1>2, PoolAssumption DEF Full, HasRoom, Occupied

LEMMA FullStep ==
  ASSUME PoolInv, NoneFailed, Full, [Next]_vars
  PROVE  Full'
<1> USE DEF PoolInv, poolVars, sessionVars, clientVars
<1>a. /\ Cardinality(Drained) \in Nat /\ Cardinality(all) \in Nat
      /\ Cardinality(creates) \in Nat /\ MaxSize \in Nat
  BY FiniteSessions, PoolAssumption DEF TypeOK, Drained
<1>1. ASSUME NEW c \in Client, AcquireIdle(c) PROVE Full'
  <2>1. available # << >>
    BY <1>1 DEF AcquireIdle, TypeOK
  <2> QED BY <1>1, <2>1 DEF AcquireIdle, Full, NoIdleWhileWaiting
<1>2. ASSUME NEW c \in Client, AcquireGrow(c) PROVE Full'
  BY <1>2, OnlyWhenFull DEF AcquireGrow, Full
<1>3. ASSUME NEW c \in Client, AcquireWait(c) PROVE Full'
  BY <1>3, <1>a DEF AcquireWait, HasRoom, Occupied, Full
<1>4. ASSUME NEW c \in Client, AcquireRejected(c) PROVE Full'
  BY <1>4, <1>a DEF AcquireRejected, HasRoom, Occupied, Full
<1>5. ASSUME NEW c \in Client, AbortWait(c) PROVE Full'
  <2>1. all' = all /\ creates' = creates /\ waiters # << >>
    BY <1>5 DEF AbortWait, TypeOK
  <2> QED BY <2>1, FullKept
<1>6. ASSUME NEW c \in Client, Granted(c) PROVE Full'
  BY <1>6, FullKept DEF Granted
<1>7. ASSUME NEW s \in Session, OpenSucceeds(s) PROVE Full'
  BY <1>7, FullKept DEF OpenSucceeds
<1>8. ASSUME NEW s \in Session, OpenFails(s) PROVE Full'
  BY <1>8, FullKept DEF OpenFails
<1>9. ASSUME NEW s \in Session, GrowResolves(s) PROVE Full'
  <2>1. /\ s \in creates /\ creates' = creates \ {s} /\ all' = all \cup {s}
        /\ waiters' = waiters /\ s \notin all
    BY <1>9 DEF GrowResolves, SessionPlaces
  <2>2. Cardinality(creates') = Cardinality(creates) - 1
    BY <2>1, FiniteSessions, FS_RemoveElement DEF TypeOK
  <2>3. Cardinality(all') = Cardinality(all) + 1
    BY <2>1, FiniteSessions, FS_AddElement DEF TypeOK
  <2>4. Cardinality(all) \in Nat /\ Cardinality(creates) \in Nat
    BY FiniteSessions DEF TypeOK
  <2> QED BY <2>1, <2>2, <2>3, <2>4, PoolAssumption DEF Full
<1>10. ASSUME NEW c \in Client, ReleaseDead(c) PROVE Full'
  BY <1>10, FullKept DEF ReleaseDead
<1>11. ASSUME NEW c \in Client, ReleaseIntoClosed(c) PROVE Full'
  BY <1>11 DEF ReleaseIntoClosed, Full, Accounted
<1>12. ASSUME NEW c \in Client, ReleaseToWaiter(c) PROVE Full'
  BY <1>12, FullKept DEF ReleaseToWaiter
<1>13. ASSUME NEW c \in Client, ReleaseToIdle(c) PROVE Full'
  BY <1>13, FullKept DEF ReleaseToIdle
<1>14. ASSUME NEW s \in Session, GrowFindsClosed(s) PROVE Full'
  BY <1>14 DEF GrowFindsClosed, Full, Accounted
<1>15. ASSUME NEW s \in Session, GrowRejects(s) PROVE Full'
  BY <1>15 DEF GrowRejects, Full, Accounted, NoneFailed
<1>16. ASSUME CloseSweeps PROVE Full'
  BY <1>16 DEF CloseSweeps, Full, Accounted
<1>17. ASSUME Close PROVE Full'
  BY <1>17 DEF Close, Full
<1>18. ASSUME NEW s \in Session, ParkClosed(s) PROVE Full'
  BY <1>18, FullKept DEF ParkClosed
<1>19. ASSUME NEW s \in Session, ParkToWaiter(s) PROVE Full'
  BY <1>19, FullKept DEF ParkToWaiter
<1>20. ASSUME NEW s \in Session, ParkIdle(s) PROVE Full'
  BY <1>20, FullKept DEF ParkIdle
<1>21. ASSUME NEW s \in Session, BreakUnbound(s) PROVE Full'
  BY <1>21, FullKept DEF BreakUnbound
<1>22. ASSUME NEW s \in Session, Evict(s) PROVE Full'
  <2> DEFINE tracked == Survivors(s)
  <2>1. PICK P \in SUBSET Fresh, W \in SUBSET Fresh : EvictStarting(s, P, W)
    BY <1>22 DEF Evict
  <2> SUFFICES ASSUME waiters' # << >>
               PROVE  Cardinality(all') + Cardinality(creates') >= MaxSize
    BY DEF Full
  <2>2. /\ all' = tracked /\ creates' = (creates \cup P) \cup W
        /\ Cardinality(P) = PumpSize(tracked)
    BY <2>1 DEF EvictStarting
  <2>3. /\ P \in SUBSET Session /\ W \in SUBSET Session /\ tracked \in SUBSET Session
        /\ creates \in SUBSET Session /\ creates \cup P \in SUBSET Session
        /\ creates' \in SUBSET Session /\ creates \cap P = {}
    BY <2>2 DEF Fresh, TypeOK, Survivors, SessionPlaces
  <2>4. /\ Cardinality(P) \in Nat /\ Cardinality(tracked) \in Nat
        /\ Cardinality(creates) \in Nat /\ Cardinality(creates \cup P) \in Nat
        /\ Cardinality(creates') \in Nat
    BY <2>3, FiniteSessions
  <2>5. Cardinality(creates \cup P) = Cardinality(creates) + Cardinality(P)
    <3>1. IsFiniteSet(creates) /\ IsFiniteSet(P)
      BY <2>3, FiniteSessions
    <3>2. /\ Cardinality(creates \cup P)
             = Cardinality(creates) + Cardinality(P) - Cardinality(creates \cap P)
          /\ Cardinality(creates \cap P) = 0
      BY <2>3, <3>1, FS_Union, FS_EmptySet
    <3> QED BY <2>4, <3>2
  <2>6. Cardinality(creates') >= Cardinality(creates \cup P)
    BY <2>2, <2>3, SubsetBound
  <2>7. waiters # << >> /\ pool = "open"
    <3>1. waiters # << >>
      BY <2>1, EvictPump DEF EvictStarting
    <3> QED BY <3>1 DEF Accounted, TypeOK
  \* the replacement takes the place of the session ...
  <2>8. CASE HasRoom(tracked)
    <3>1. Cardinality(P) = 1
      BY <2>2, <2>7, <2>8 DEF PumpSize
    <3>2. Cardinality(tracked) >= Cardinality(all) - 1
      <4>1. CASE s \in all
        <5>1. IsFiniteSet(all) /\ tracked = all \ {s}
          BY FiniteSessions DEF Survivors, TypeOK
        <5>2. Cardinality(tracked) = Cardinality(all) - 1
          BY <4>1, <5>1, FS_RemoveElement
        <5> QED BY <2>4, <5>2, <1>a
      <4>2. CASE s \notin all
        <5>1. tracked = all
          BY <4>2 DEF Survivors
        <5> QED BY <2>4, <5>1
      <4> QED BY <4>1, <4>2
    <3>3. Cardinality(all) + Cardinality(creates) >= MaxSize /\ Cardinality(all) \in Nat
      BY <2>7, FiniteSessions DEF Full, TypeOK
    <3> HIDE DEF tracked
    <3> QED BY <2>2, <2>4, <2>5, <2>6, <3>1, <3>2, <3>3, PoolAssumption
  \* ... or the pool is still full without it
  <2>9. CASE ~HasRoom(tracked)
    <3>1. Cardinality(tracked) + Cardinality(creates) >= MaxSize
      BY <2>4, <2>9, PoolAssumption DEF HasRoom, Occupied
    <3> HIDE DEF tracked
    <3> QED BY <2>2, <2>4, <2>5, <2>6, <3>1, PoolAssumption
  <2> QED BY <2>8, <2>9
<1>23. CASE UNCHANGED vars
  BY <1>23, FullKept DEF vars
<1> QED
  BY <1>1, <1>2, <1>3, <1>4, <1>5, <1>6, <1>7, <1>8, <1>9, <1>10, <1>11, <1>12, <1>13,
     <1>14, <1>15, <1>16, <1>17, <1>18, <1>19, <1>20, <1>21, <1>22, <1>23
  DEF Next, Acquire, Release, Settle, Resume, Park

\* Who is served next, as one step: c leaves the queue or comes from outside.
Overtakes(c) ==
  waiters # << >> /\ pc[c] \in {"idle", "waiting"} /\ pc'[c] \in {"growing", "granted"}

LEMMA ServedInOrder ==
  ASSUME PoolInv, Full, [Next]_vars, NEW d \in Client, Overtakes(d)
  PROVE  d = Head(waiters)
<1> USE DEF PoolInv, Overtakes, LeaseStates, CreateOwners, TypeOK, poolVars, sessionVars, clientVars
<1>1. ASSUME NEW c \in Client, AcquireIdle(c) PROVE d = Head(waiters)
  <2>1. available # << >>
    BY <1>1 DEF AcquireIdle, TypeOK
  <2> QED BY <1>1, <2>1 DEF NoIdleWhileWaiting
<1>2. ASSUME NEW c \in Client, AcquireGrow(c) PROVE d = Head(waiters)
  BY <1>2, OnlyWhenFull DEF AcquireGrow
<1>3. ASSUME NEW c \in Client, AcquireWait(c) PROVE d = Head(waiters)
  BY <1>3 DEF AcquireWait
<1>4. ASSUME NEW c \in Client, AcquireRejected(c) PROVE d = Head(waiters)
  BY <1>4 DEF AcquireRejected
<1>5. ASSUME NEW c \in Client, AbortWait(c) PROVE d = Head(waiters)
  BY <1>5 DEF AbortWait
<1>6. ASSUME NEW c \in Client, Granted(c) PROVE d = Head(waiters)
  BY <1>6 DEF Granted
<1>7. ASSUME NEW s \in Session, OpenSucceeds(s) PROVE d = Head(waiters)
  BY <1>7 DEF OpenSucceeds
<1>8. ASSUME NEW s \in Session, OpenFails(s) PROVE d = Head(waiters)
  BY <1>8 DEF OpenFails
<1>9. ASSUME NEW s \in Session, GrowResolves(s) PROVE d = Head(waiters)
  BY <1>9 DEF GrowResolves
<1>10. ASSUME NEW c \in Client, ReleaseDead(c) PROVE d = Head(waiters)
  BY <1>10 DEF ReleaseDead
<1>11. ASSUME NEW c \in Client, ReleaseIntoClosed(c) PROVE d = Head(waiters)
  BY <1>11 DEF ReleaseIntoClosed
<1>12. ASSUME NEW c \in Client, ReleaseToWaiter(c) PROVE d = Head(waiters)
  BY <1>12 DEF ReleaseToWaiter
<1>13. ASSUME NEW c \in Client, ReleaseToIdle(c) PROVE d = Head(waiters)
  BY <1>13 DEF ReleaseToIdle
<1>14. ASSUME NEW s \in Session, GrowFindsClosed(s) PROVE d = Head(waiters)
  BY <1>14 DEF GrowFindsClosed, OwnerGivesUp
<1>15. ASSUME NEW s \in Session, GrowRejects(s) PROVE d = Head(waiters)
  BY <1>15 DEF GrowRejects, OwnerGivesUp
<1>16. ASSUME CloseSweeps PROVE d = Head(waiters)
  BY <1>16 DEF CloseSweeps
<1>17. ASSUME Close PROVE d = Head(waiters)
  BY <1>17, WaitersWait DEF Close
<1>18. ASSUME NEW s \in Session, ParkClosed(s) PROVE d = Head(waiters)
  BY <1>18 DEF ParkClosed
<1>19. ASSUME NEW s \in Session, ParkToWaiter(s) PROVE d = Head(waiters)
  BY <1>19 DEF ParkToWaiter
<1>20. ASSUME NEW s \in Session, ParkIdle(s) PROVE d = Head(waiters)
  BY <1>20 DEF ParkIdle
<1>21. ASSUME NEW s \in Session, BreakUnbound(s) PROVE d = Head(waiters)
  BY <1>21 DEF BreakUnbound
<1>22. ASSUME NEW s \in Session, Evict(s) PROVE d = Head(waiters)
  BY <1>22 DEF Evict, EvictStarting
<1>23. CASE UNCHANGED vars
  BY <1>23 DEF vars
<1> QED
  BY <1>1, <1>2, <1>3, <1>4, <1>5, <1>6, <1>7, <1>8, <1>9, <1>10, <1>11, <1>12, <1>13,
     <1>14, <1>15, <1>16, <1>17, <1>18, <1>19, <1>20, <1>21, <1>22, <1>23
  DEF Next, Acquire, Release, Settle, Resume, Park

\* FifoService: while Session.open never rejects, clients are served in the order of the
\* queue and no caller of acquire() overtakes them, for every maxSize, number of clients and
\* interleaving of evictions: the queue is only used when the pool is full, and every slot
\* that comes free goes to its head.
THEOREM FifoServiceHolds ==
  ASSUME ~OpenMayFail
  PROVE  Spec => FifoService
<1>1. Init => NoneFailed /\ Full
  BY DEF Init, NoneFailed, Full
<1>2. PoolInv /\ NoneFailed /\ Full /\ [Next]_vars => NoneFailed' /\ Full'
  BY NoneFailedStep, FullStep
<1>3. PoolInv /\ Full /\ [Next]_vars =>
        [\A c \in Client :
           /\ waiters # << >>
           /\ pc[c] \in {"idle", "waiting"}
           /\ pc'[c] \in {"growing", "granted"}
           => c = Head(waiters)]_vars
  BY ServedInOrder DEF Overtakes
<1> QED BY PoolInvHolds, <1>1, <1>2, <1>3, PTL DEF Spec, FifoService

=============================================================================
