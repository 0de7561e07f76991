-------------------------- MODULE ConnectionProofs --------------------------
(***************************************************************************)
(* Connection, proved for every set of options, buffer size and bound.     *)
(*                                                                         *)
(* The wakeup of a full connection depends on the order of the queue: the  *)
(* deferred callback does its read, its write and its event part one after *)
(* the other, and is not queued again while its last part is. So the       *)
(* argument is about positions. event_del (Delete) keeps the order of what *)
(* it leaves, which is shown by counting what is kept up to each position; *)
(* hence the event part always Follows the write part, and who finds the   *)
(* callback queued finds its write part still to run. From that, whenever  *)
(* write_cb is armed, there is output left to send or its call is pending  *)
(* and on its way (NoLostWakeup).                                          *)
(***************************************************************************)
EXTENDS Connection, FiniteSetTheorems, WellFoundedInduction, TLAPS

-----------------------------------------------------------------------------
(* What event_del does to the queue. *)

\* A set of naturals that is not empty has a least member.
LEMMA LeastNat ==
    ASSUME NEW T \in SUBSET Nat, T # {}
    PROVE  \E n \in T : \A m \in T : n <= m
<1> DEFINE R == OpToRel(<, Nat)
<1>1. IsWellFoundedOn(R, Nat)
  BY NatLessThanWellFounded
<1>2. \A x, y \in Nat : <<y, x>> \in R <=> y < x
  BY DEF OpToRel
<1> HIDE DEF R
<1>3. PICK n \in T : \A m \in T : ~ (<<m, n>> \in R)
  BY <1>1, WFMin
<1>4. ASSUME NEW m \in T PROVE n <= m
  <2>1. m \in Nat /\ n \in Nat /\ ~ (<<m, n>> \in R)
    BY <1>3
  <2>2. ~(m < n)
    BY <1>2, <2>1
  <2> QED BY <2>1, <2>2
<1> QED BY <1>4

\* The positions up to n that are kept, and how many they are.
Kept(q, S, n) == {i \in 1 .. n : q[i] \notin S}
Rank(q, S, n) == Cardinality(Kept(q, S, n))

\* The rank goes up by one at a position that is kept, and stays at one that is not.
LEMMA RankSteps ==
    ASSUME NEW T, NEW q \in Seq(T), NEW S
    PROVE  /\ \A n \in 0 .. Len(q) : Rank(q, S, n) \in Nat
           /\ Rank(q, S, 0) = 0
           /\ \A n \in 1 .. Len(q) :
                  Rank(q, S, n) = IF q[n] \notin S THEN Rank(q, S, n - 1) + 1
                                                   ELSE Rank(q, S, n - 1)
<1>1. ASSUME NEW n \in 0 .. Len(q)
      PROVE  IsFiniteSet(Kept(q, S, n)) /\ Rank(q, S, n) \in Nat
  <2>1. IsFiniteSet(1 .. n)
    BY FS_Interval
  <2>2. Kept(q, S, n) \in SUBSET (1 .. n)
    BY DEF Kept
  <2> QED BY <2>1, <2>2, FS_Subset, FS_CardinalityType DEF Rank
<1>2. Rank(q, S, 0) = 0
  <2>1. Kept(q, S, 0) = {}
    BY DEF Kept
  <2> QED BY <2>1, FS_EmptySet DEF Rank
<1>3. ASSUME NEW n \in 1 .. Len(q)
      PROVE  Rank(q, S, n) = IF q[n] \notin S THEN Rank(q, S, n - 1) + 1
                                              ELSE Rank(q, S, n - 1)
  <2>1. CASE q[n] \notin S
    <3>1. Kept(q, S, n) = Kept(q, S, n - 1) \cup {n} /\ n \notin Kept(q, S, n - 1)
      BY <2>1 DEF Kept
    <3>2. IsFiniteSet(Kept(q, S, n - 1))
      BY <1>1
    <3> QED BY <2>1, <3>1, <3>2, FS_AddElement DEF Rank
  <2>2. CASE q[n] \in S
    <3>1. Kept(q, S, n) = Kept(q, S, n - 1)
      BY <2>2 DEF Kept
    <3> QED BY <2>2, <3>1 DEF Rank
  <2> QED BY <2>1, <2>2
<1> QED BY <1>1, <1>2, <1>3

\* Every rank is that of a position, and of one only.
LEMMA RankOnto ==
    ASSUME NEW T, NEW q \in Seq(T), NEW S, NEW k \in 1 .. Rank(q, S, Len(q))
    PROVE  \E i \in Kept(q, S, Len(q)) : Rank(q, S, i) = k
<1> DEFINE Above == {n \in 0 .. Len(q) : k <= Rank(q, S, n)}
<1>1. Above \in SUBSET Nat /\ Len(q) \in Above
  BY RankSteps
<1>2. PICK n \in Above : \A m \in Above : n <= m
  BY <1>1, LeastNat
<1>3. n # 0
  BY <1>2, RankSteps
<1>4. n \in 1 .. Len(q) /\ n - 1 \in 0 .. Len(q) /\ n - 1 \notin Above
  BY <1>1, <1>2, <1>3
<1>5. Rank(q, S, n - 1) < k /\ k <= Rank(q, S, n)
  BY <1>2, <1>4, RankSteps
<1>6. Rank(q, S, n) = k /\ q[n] \notin S
  <2>1. Rank(q, S, n) = IF q[n] \notin S THEN Rank(q, S, n - 1) + 1
                                         ELSE Rank(q, S, n - 1)
    BY <1>4, RankSteps
  <2>2. Rank(q, S, n - 1) \in Nat
    BY <1>4, RankSteps
  <2> QED BY <1>5, <2>1, <2>2
<1> QED BY <1>4, <1>6 DEF Kept

\* Two positions that are kept have different ranks, in their order.
LEMMA RankInjective ==
    ASSUME NEW T, NEW q \in Seq(T), NEW S,
           NEW i \in Kept(q, S, Len(q)), NEW j \in Kept(q, S, Len(q)), i < j
    PROVE  Rank(q, S, i) < Rank(q, S, j)
<1>1. i \in 1 .. Len(q) /\ j \in 1 .. Len(q) /\ j \notin Kept(q, S, i)
  BY DEF Kept
<1>2. Kept(q, S, i) \in SUBSET Kept(q, S, j) /\ j \in Kept(q, S, j)
  BY <1>1 DEF Kept
<1>3. IsFiniteSet(Kept(q, S, j))
  <2>1. IsFiniteSet(1 .. j) /\ Kept(q, S, j) \in SUBSET (1 .. j)
    BY <1>1, FS_Interval DEF Kept
  <2> QED BY <2>1, FS_Subset
<1>4. Rank(q, S, i) <= Rank(q, S, j) /\ Rank(q, S, i) # Rank(q, S, j)
  BY <1>1, <1>2, <1>3, FS_Subset DEF Rank
<1>5. Rank(q, S, i) \in Nat /\ Rank(q, S, j) \in Nat
  <2>1. i \in 0 .. Len(q) /\ j \in 0 .. Len(q)
    BY <1>1
  <2> QED BY <2>1, RankSteps
<1> QED BY <1>4, <1>5

\* The rank of a position that is kept is a position of what is left.
LEMMA RankBounds ==
    ASSUME NEW T, NEW q \in Seq(T), NEW S, NEW i \in Kept(q, S, Len(q))
    PROVE  Rank(q, S, i) \in 1 .. Rank(q, S, Len(q))
<1>1. i \in 1 .. Len(q) /\ q[i] \notin S /\ i - 1 \in 0 .. Len(q)
  BY DEF Kept
<1>2. Rank(q, S, i) \in Nat /\ 1 <= Rank(q, S, i)
  <2>1. Rank(q, S, i - 1) \in Nat /\ Rank(q, S, i) = Rank(q, S, i - 1) + 1
    BY <1>1, RankSteps
  <2> QED BY <2>1
<1>3. Rank(q, S, i) <= Rank(q, S, Len(q))
  <2>1. IsFiniteSet(1 .. Len(q)) /\ Kept(q, S, Len(q)) \in SUBSET (1 .. Len(q))
    BY FS_Interval DEF Kept
  <2>2. IsFiniteSet(Kept(q, S, Len(q)))
    BY <2>1, FS_Subset
  <2>3. Kept(q, S, i) \in SUBSET Kept(q, S, Len(q))
    BY <1>1 DEF Kept
  <2> QED BY <2>2, <2>3, FS_Subset DEF Rank
<1> QED BY <1>2, <1>3, RankSteps

\* The position in q of the k-th event that is left.
Position(q, S, k) == CHOOSE i \in Kept(q, S, Len(q)) : Rank(q, S, i) = k

\* What is left, position by position.
LEMMA DeleteAt ==
    ASSUME NEW T, NEW q \in Seq(T), NEW S
    PROVE  /\ DOMAIN Delete(q, S) = 1 .. Rank(q, S, Len(q))
           /\ Rank(q, S, Len(q)) \in Nat
           /\ \A k \in 1 .. Rank(q, S, Len(q)) :
                  /\ Position(q, S, k) \in Kept(q, S, Len(q))
                  /\ Rank(q, S, Position(q, S, k)) = k
                  /\ Delete(q, S)[k] = q[Position(q, S, k)]
           /\ \A i \in Kept(q, S, Len(q)) : Position(q, S, Rank(q, S, i)) = i
<1>1. Delete(q, S) = [k \in 1 .. Rank(q, S, Len(q)) |-> q[Position(q, S, k)]]
  BY DEF Delete, Rank, Kept, Position
<1>2. Rank(q, S, Len(q)) \in Nat
  <2>1. Len(q) \in 0 .. Len(q)
    OBVIOUS
  <2> QED BY <2>1, RankSteps
<1>3. \A k \in 1 .. Rank(q, S, Len(q)) :
          /\ Position(q, S, k) \in Kept(q, S, Len(q))
          /\ Rank(q, S, Position(q, S, k)) = k
  BY RankOnto DEF Position
<1>4. ASSUME NEW i \in Kept(q, S, Len(q))
      PROVE  Position(q, S, Rank(q, S, i)) = i
  <2> DEFINE j == Position(q, S, Rank(q, S, i))
  <2>1. j \in Kept(q, S, Len(q)) /\ Rank(q, S, j) = Rank(q, S, i)
    BY <1>3, RankBounds
  <2>2. i \in Int /\ j \in Int /\ Rank(q, S, i) \in Int
    BY <2>1, RankBounds DEF Kept
  <2> HIDE DEF j
  <2>3. ~(i < j) /\ ~(j < i)
    BY <2>1, <2>2, RankInjective
  <2> QED BY <2>2, <2>3 DEF j
<1> QED BY <1>1, <1>2, <1>3, <1>4

\* The events in S are gone, the others are there.
LEMMA DeleteQueued ==
    ASSUME NEW T, NEW q \in Seq(T), NEW S
    PROVE  /\ Delete(q, S) \in Seq(T)
           /\ \A e : (\E k \in DOMAIN Delete(q, S) : Delete(q, S)[k] = e)
                         <=> e \notin S /\ \E i \in DOMAIN q : q[i] = e
<1> DEFINE r == Delete(q, S)
           N == Rank(q, S, Len(q))
<1>1. N \in Nat /\ DOMAIN r = 1 .. N
  BY DeleteAt
<1>2. ASSUME NEW k \in 1 .. N
      PROVE  r[k] \in T /\ r[k] \notin S /\ \E i \in DOMAIN q : q[i] = r[k]
  BY <1>1, DeleteAt DEF Kept
<1>3. r \in Seq(T)
  <2>1. r = [k \in 1 .. N |-> r[k]]
    BY <1>1 DEF Delete, Rank, Kept
  <2> HIDE DEF r, N
  <2> QED BY <1>1, <1>2, <2>1
<1>4. ASSUME NEW i \in DOMAIN q, q[i] \notin S
      PROVE  \E k \in 1 .. N : r[k] = q[i]
  <2>1. i \in Kept(q, S, Len(q))
    BY <1>4 DEF Kept
  <2>2. Rank(q, S, i) \in 1 .. N
    BY <2>1, RankBounds
  <2> QED BY <2>1, <2>2, DeleteAt
<1> HIDE DEF r, N
<1>5. \A e : (\E k \in DOMAIN r : r[k] = e) <=> e \notin S /\ \E i \in DOMAIN q : q[i] = e
  BY <1>1, <1>2, <1>4
<1> QED BY <1>3, <1>5 DEF r

\* "b" comes right after "a".
Follows(q, a, b) == \A i \in 2 .. Len(q) : q[i] = b => q[i - 1] = a

\* ... and still does when others have been deleted.
LEMMA DeleteFollows ==
    ASSUME NEW T, NEW q \in Seq(T), NEW S, NEW a, NEW b, a \notin S, Follows(q, a, b)
    PROVE  Follows(Delete(q, S), a, b)
<1> DEFINE r == Delete(q, S)
           N == Rank(q, S, Len(q))
<1>1. N \in Nat /\ DOMAIN r = 1 .. N /\ Len(r) = N
  <2>1. r \in Seq(T)
    BY DeleteQueued
  <2>2. N \in Nat /\ DOMAIN r = 1 .. N
    BY DeleteAt
  <2> HIDE DEF r, N
  <2> QED BY <2>1, <2>2
<1>2. ASSUME NEW k \in 2 .. N, r[k] = b
      PROVE  r[k - 1] = a
  <2> DEFINE i == Position(q, S, k)
  <2>1. k \in 1 .. N /\ i \in Kept(q, S, Len(q)) /\ Rank(q, S, i) = k /\ q[i] = b
    BY <1>1, <1>2, DeleteAt
  <2> HIDE DEF i
  <2>2. i \in 1 .. Len(q) /\ q[i] \notin S
    BY <2>1 DEF Kept
  <2>3. Rank(q, S, i - 1) = k - 1
    <3>1. i - 1 \in 0 .. Len(q) /\ i \in 1 .. Len(q)
      BY <2>2
    <3>2. Rank(q, S, i - 1) \in Nat
      BY <3>1, RankSteps
    <3>3. Rank(q, S, i) = Rank(q, S, i - 1) + 1
      BY <2>2, <3>1, RankSteps
    <3> QED BY <2>1, <3>2, <3>3
  <2>4. i # 1
    BY <2>3, RankSteps
  <2>5. q[i - 1] = a
    BY <2>1, <2>2, <2>4 DEF Follows
  <2>6. i - 1 \in Kept(q, S, Len(q))
    BY <2>2, <2>4, <2>5 DEF Kept
  <2>7. Position(q, S, k - 1) = i - 1
    BY <2>3, <2>6, DeleteAt
  <2> QED BY <1>1, <2>5, <2>7, DeleteAt
<1> HIDE DEF r, N
<1> QED BY <1>1, <1>2 DEF Follows, r

-----------------------------------------------------------------------------
(* The invariant. *)

In(q, e) == \E i \in DOMAIN q : q[i] = e

\* The parts of a deferred callback stand in a row, so that none of them can be left
\* without the next: Schedule looks for "event" only.
QueueOK == queue \in Seq(Tokens) /\ Follows(queue, "write", "event")

\* The application's belief in a full buffer ends with the connection.
NotFullBefore == state \in {"retrying", "gone"} => ~app_full

\* DisconnectInt has deleted the connection's events; without threads nothing is called
\* before OnDisconnected.
EventsGone ==
    ~opts.threaded /\ state \in {"closing", "retrying"} =>
        (\A e \in OwnEvents : ~In(queue, e)) /\ ~ping_timer

Inv == TypeOK /\ QueueOK /\ FullArmed /\ NoLostWakeup /\ NotFullBefore /\ EventsGone

-----------------------------------------------------------------------------
(* What the actions do to the queue. *)

\* Running the first token disturbs no order, and loses only that token.
LEMMA TailQueue ==
    ASSUME NEW q \in Seq(Tokens), q # <<>>, Follows(q, "write", "event")
    PROVE  /\ Tail(q) \in Seq(Tokens) /\ Follows(Tail(q), "write", "event")
           /\ \A e : In(Tail(q), e) => In(q, e)
           /\ \A e : In(q, e) => In(Tail(q), e) \/ e = Head(q)
<1>1. Tail(q) \in Seq(Tokens) /\ Len(Tail(q)) = Len(q) - 1 /\ Len(q) \in Nat \ {0}
  OBVIOUS
<1>2. \A i \in 1 .. Len(q) - 1 : Tail(q)[i] = q[i + 1]
  OBVIOUS
<1>3. Follows(Tail(q), "write", "event")
  <2>1. ASSUME NEW i \in 2 .. Len(q) - 1, Tail(q)[i] = "event"
        PROVE  Tail(q)[i - 1] = "write"
    <3>1. i + 1 \in 2 .. Len(q) /\ i - 1 \in 1 .. Len(q) - 1 /\ i \in 1 .. Len(q) - 1
      BY <1>1
    <3>2. q[i + 1] = "event" /\ Tail(q)[i - 1] = q[i - 1 + 1]
      BY <1>2, <2>1, <3>1
    <3>3. q[i + 1 - 1] = "write"
      BY <3>1, <3>2 DEF Follows
    <3> QED BY <3>1, <3>2, <3>3
  <2> QED BY <1>1, <2>1 DEF Follows
<1>4. ASSUME NEW e, In(Tail(q), e) PROVE In(q, e)
  <2>1. PICK i \in 1 .. Len(q) - 1 : Tail(q)[i] = e
    BY <1>1, <1>4 DEF In
  <2>2. i + 1 \in 1 .. Len(q) /\ q[i + 1] = e
    BY <1>1, <1>2, <2>1
  <2> QED BY <2>2 DEF In
<1>5. ASSUME NEW e, In(q, e) PROVE In(Tail(q), e) \/ e = Head(q)
  <2>1. PICK i \in 1 .. Len(q) : q[i] = e
    BY <1>5 DEF In
  <2>2. CASE i = 1
    BY <2>1, <2>2, <1>1
  <2>3. CASE i # 1
    <3>1. i - 1 \in 1 .. Len(q) - 1 /\ Tail(q)[i - 1] = q[i - 1 + 1]
      BY <1>1, <1>2, <2>1, <2>3
    <3>2. Tail(q)[i - 1] = e /\ i - 1 \in DOMAIN Tail(q)
      BY <1>1, <2>1, <3>1
    <3> QED BY <3>2 DEF In
  <2> QED BY <2>2, <2>3
<1> QED BY <1>1, <1>3, <1>4, <1>5

\* event_del leaves the parts of the deferred callback as they were.
LEMMA DeleteQueue ==
    ASSUME NEW q \in Seq(Tokens), Follows(q, "write", "event"), NEW S, "write" \notin S
    PROVE  /\ Delete(q, S) \in Seq(Tokens) /\ Follows(Delete(q, S), "write", "event")
           /\ \A e : In(Delete(q, S), e) <=> e \notin S /\ In(q, e)
<1>1. /\ Delete(q, S) \in Seq(Tokens)
      /\ \A e : (\E k \in DOMAIN Delete(q, S) : Delete(q, S)[k] = e)
                    <=> e \notin S /\ \E i \in DOMAIN q : q[i] = e
  BY DeleteQueued
<1>2. Follows(Delete(q, S), "write", "event")
  BY DeleteFollows
<1> QED BY <1>1, <1>2 DEF In

\* A token queued last comes between no two parts of the deferred callback.
LEMMA AppendQueue ==
    ASSUME NEW q \in Seq(Tokens), Follows(q, "write", "event"), NEW e \in Tokens \ {"event"}
    PROVE  /\ Append(q, e) \in Seq(Tokens) /\ Follows(Append(q, e), "write", "event")
           /\ \A f : In(q, f) => In(Append(q, e), f)
<1>1. Append(q, e) \in Seq(Tokens) /\ Len(Append(q, e)) = Len(q) + 1
  OBVIOUS
<1>2. /\ \A i \in 1 .. Len(q) : Append(q, e)[i] = q[i]
      /\ Append(q, e)[Len(q) + 1] = e
  OBVIOUS
<1>3. Follows(Append(q, e), "write", "event")
  <2>1. ASSUME NEW i \in 2 .. Len(q) + 1, Append(q, e)[i] = "event"
        PROVE  Append(q, e)[i - 1] = "write"
    <3>1. i \in 2 .. Len(q) /\ i \in 1 .. Len(q) /\ i - 1 \in 1 .. Len(q)
      BY <1>2, <2>1
    <3> QED BY <1>2, <2>1, <3>1 DEF Follows
  <2> QED BY <1>1, <2>1 DEF Follows
<1>4. \A f : In(q, f) => In(Append(q, e), f)
  BY <1>1, <1>2 DEF In
<1> QED BY <1>1, <1>3, <1>4

\* So does event_active, which queues it once.
LEMMA ActivateQueue ==
    ASSUME QueueOK, NEW e \in OwnEvents
    PROVE  /\ Activate(e) \in Seq(Tokens) /\ Follows(Activate(e), "write", "event")
           /\ \A f : In(queue, f) => In(Activate(e), f)
BY AppendQueue DEF Activate, QueueOK, OwnEvents, Tokens

\* The deferred callback is on its way, whether it was queued already or is now.
LEMMA ScheduleQueue ==
    ASSUME QueueOK, queue # <<>>, Head(queue) \in {"readable", "writable"}
    PROVE  /\ Schedule \in Seq(Tokens) /\ Follows(Schedule, "write", "event")
           /\ In(Schedule, "write")
<1> DEFINE q == Tail(queue)
           n == Len(q)
<1>1. q \in Seq(Tokens) /\ Follows(q, "write", "event") /\ n \in Nat
  BY TailQueue DEF QueueOK
<1>2. CASE Queued("event")
  <2>1. PICK i \in 1 .. Len(queue) : queue[i] = "event"
    BY <1>2 DEF Queued, QueueOK
  <2>2. i # 1
    BY <2>1 DEF QueueOK
  <2>3. queue[i - 1] = "write" /\ i - 1 \in 1 .. Len(queue)
    BY <2>1, <2>2 DEF QueueOK, Follows
  <2>4. In(queue, "write")
    BY <2>3 DEF In, QueueOK
  <2>5. In(q, "write")
    BY <2>4, TailQueue DEF QueueOK
  <2> QED BY <1>1, <1>2, <2>5 DEF Schedule
<1>3. CASE ~Queued("event")
  <2> HIDE DEF q, n
  <2>1. Schedule = q \o Deferred
    BY <1>3 DEF Schedule, q
  <2> DEFINE r == q \o Deferred
  <2>2. Deferred \in Seq(Tokens) /\ Len(Deferred) = 3
    BY DEF Deferred, Tokens
  <2>3. /\ r \in Seq(Tokens) /\ Len(r) = n + 3
        /\ \A i \in 1 .. n : r[i] = q[i]
        /\ r[n + 1] = "read" /\ r[n + 2] = "write" /\ r[n + 3] = "event"
    BY <1>1, <2>2 DEF n, Deferred
  <2> HIDE DEF r
  <2>4. ASSUME NEW i \in 2 .. n + 3, r[i] = "event" PROVE r[i - 1] = "write"
    <3>1. CASE i \in 2 .. n
      <4>1. i - 1 \in 1 .. n /\ i \in 1 .. n
        BY <1>1, <3>1
      <4>2. q[i] = "event" => q[i - 1] = "write"
        BY <1>1, <3>1 DEF Follows, n
      <4> QED BY <2>3, <2>4, <4>1, <4>2
    <3>2. CASE i \in {n + 1, n + 2}
      BY <2>3, <2>4, <3>2
    <3>3. CASE i = n + 3
      <4>1. i - 1 = n + 2
        BY <1>1, <3>3
      <4> QED BY <2>3, <4>1
    <3> QED BY <1>1, <3>1, <3>2, <3>3
  <2>5. In(r, "write")
    <3>1. n + 2 \in DOMAIN r
      BY <1>1, <2>3
    <3> QED BY <2>3, <3>1 DEF In
  <2> QED BY <2>1, <2>3, <2>4, <2>5 DEF Follows, r
<1> QED BY <1>2, <1>3

-----------------------------------------------------------------------------
(* The actions. *)

\* A connection begins with an empty queue and nothing to send.
LEMMA InitInv == Init => Inv
<1>1. SUFFICES ASSUME Init PROVE Inv
  OBVIOUS
<1>2. TypeOK
  <2>1. queue \in Seq(Tokens)
    BY <1>1 DEF Init
  <2> QED BY <1>1, <2>1, ConstantsAssumption DEF Init, TypeOK, AllOptions
<1>3. QueueOK
  BY <1>1 DEF Init, QueueOK, Follows
<1> QED BY <1>1, <1>2, <1>3 DEF Init, Inv, FullArmed, NoLostWakeup, NotFullBefore,
        EventsGone

\* What is called or polled, and the parts of a deferred callback that find nothing to
\* do, leave the write callback and the application's belief alone.
LEMMA QuietStep ==
    ASSUME Inv, TypeOK', QueueOK', NoLostWakeup',
           state = "connected" \/ (opts.threaded /\ state = "closing"),
           UNCHANGED <<opts, state, writecb, app_full>>
    PROVE  Inv'
BY DEF Inv, FullArmed, NotFullBefore, EventsGone

\* The part of the deferred callback that is on its way stays there.
LEMMA WakeupStays ==
    ASSUME Inv, state' = "connected" => state = "connected",
           writecb' = writecb, output' = 0 => output = 0, pending \subseteq pending',
           In(queue, "write") => In(queue, "write")'
    PROVE  NoLostWakeup'
<1>1. Queued("write") <=> In(queue, "write")
  BY DEF Queued, In
<1>2. Queued("write")' <=> In(queue, "write")'
  BY DEF Queued, In
<1> QED BY <1>1, <1>2 DEF Inv, NoLostWakeup

\* The calls of the application.
LEMMA DisconnectInv == ASSUME Inv, Disconnect PROVE Inv'
<1> USE DEF Disconnect
<1>1. TypeOK /\ QueueOK /\ NoLostWakeup
  BY DEF Inv
<1>2. QueueOK' /\ (In(queue, "write") => In(queue, "write")')
  BY <1>1, ActivateQueue DEF QueueOK, OwnEvents, Reachable
<1>3. TypeOK'
  BY <1>1, <1>2 DEF TypeOK, QueueOK, bev, app, OwnEvents, Reachable
<1>4. NoLostWakeup'
  BY <1>1, <1>2, WakeupStays DEF TypeOK, bev, app, OwnEvents, Reachable
<1> QED BY <1>2, <1>3, <1>4, QuietStep DEF bev, app, OwnEvents, Reachable

\* CloseConnection(id, false) only activates an event.
LEMMA DisconnectWhenFinishedInv == ASSUME Inv, DisconnectWhenFinished PROVE Inv'
<1> USE DEF DisconnectWhenFinished
<1>1. TypeOK /\ QueueOK /\ NoLostWakeup
  BY DEF Inv
<1>2. QueueOK' /\ (In(queue, "write") => In(queue, "write")')
  BY <1>1, ActivateQueue DEF QueueOK, OwnEvents, Reachable
<1>3. TypeOK'
  BY <1>1, <1>2 DEF TypeOK, QueueOK, bev, app, OwnEvents, Reachable
<1>4. NoLostWakeup'
  BY <1>1, <1>2, WakeupStays DEF TypeOK, bev, app, OwnEvents, Reachable
<1> QED BY <1>2, <1>3, <1>4, QuietStep DEF bev, app, OwnEvents, Reachable

\* Send adds to the output: it is not empty.
LEMMA WriteInv == ASSUME Inv, NEW size \in Sizes, Write(size) PROVE Inv'
<1> USE DEF Write
<1>1. TypeOK /\ QueueOK /\ NoLostWakeup
  BY DEF Inv
<1>2. QueueOK' /\ (In(queue, "write") => In(queue, "write")')
  BY <1>1, ActivateQueue DEF QueueOK, OwnEvents, Reachable
<1>3. TypeOK'
  BY <1>1, <1>2, ConstantsAssumption DEF TypeOK, QueueOK, bev, app, OwnEvents, Reachable
<1>4. NoLostWakeup'
  BY <1>1, <1>2, WakeupStays, ConstantsAssumption DEF TypeOK, bev, app, OwnEvents, Reachable
<1> QED BY <1>2, <1>3, <1>4, QuietStep DEF bev, app, OwnEvents, Reachable

\* Pausing changes what is read, and nothing of what is written.
LEMMA PauseRecvInv == ASSUME Inv, PauseRecv PROVE Inv'
<1> USE DEF PauseRecv
<1>1. TypeOK /\ QueueOK /\ NoLostWakeup
  BY DEF Inv
<1>2. QueueOK' /\ (In(queue, "write") => In(queue, "write")')
  BY <1>1, DeleteQueue DEF QueueOK, Reachable
<1>3. TypeOK'
  BY <1>1, <1>2 DEF TypeOK, QueueOK, bev, app, Reachable
<1>4. NoLostWakeup'
  BY <1>1, <1>2, WakeupStays DEF TypeOK, bev, app, Reachable
<1> QED BY <1>2, <1>3, <1>4, QuietStep DEF bev, app, Reachable

\* So does going on.
LEMMA UnpauseRecvInv == ASSUME Inv, UnpauseRecv PROVE Inv'
<1> USE DEF UnpauseRecv
<1>1. TypeOK /\ QueueOK /\ NoLostWakeup
  BY DEF Inv
<1>2. QueueOK' /\ (In(queue, "write") => In(queue, "write")')
  BY <1>1 DEF QueueOK, Reachable
<1>3. TypeOK'
  BY <1>1, <1>2 DEF TypeOK, QueueOK, bev, app, Reachable
<1>4. NoLostWakeup'
  BY <1>1, <1>2, WakeupStays DEF TypeOK, bev, app, Reachable
<1> QED BY <1>2, <1>3, <1>4, QuietStep DEF bev, app, Reachable

\* Adding or deleting the ping timer takes its event off the queue.
LEMMA ResetPingTimeoutInv == ASSUME Inv, NEW on \in BOOLEAN, ResetPingTimeout(on) PROVE Inv'
<1> USE DEF ResetPingTimeout
<1>1. TypeOK /\ QueueOK /\ NoLostWakeup
  BY DEF Inv
<1>2. QueueOK' /\ (In(queue, "write") => In(queue, "write")')
  BY <1>1, DeleteQueue DEF QueueOK, Reachable
<1>3. TypeOK'
  BY <1>1, <1>2 DEF TypeOK, QueueOK, bev, app, Reachable
<1>4. NoLostWakeup'
  BY <1>1, <1>2, WakeupStays DEF TypeOK, bev, app, Reachable
<1> QED BY <1>2, <1>3, <1>4, QuietStep DEF bev, app, Reachable

\* What libevent finds.
LEMMA PollReadableInv == ASSUME Inv, PollReadable PROVE Inv'
<1> USE DEF PollReadable
<1>1. TypeOK /\ QueueOK /\ NoLostWakeup
  BY DEF Inv
<1>2. QueueOK' /\ (In(queue, "write") => In(queue, "write")')
  BY <1>1, AppendQueue DEF QueueOK, Tokens, Polled
<1>3. TypeOK'
  BY <1>1, <1>2 DEF TypeOK, QueueOK, bev, app, Tokens, Polled
<1>4. NoLostWakeup'
  BY <1>1, <1>2, WakeupStays DEF TypeOK, bev, app, Tokens, Polled
<1> QED BY <1>2, <1>3, <1>4, QuietStep DEF bev, app, Tokens, Polled

\* The socket takes more.
LEMMA PollWritableInv == ASSUME Inv, PollWritable PROVE Inv'
<1> USE DEF PollWritable
<1>1. TypeOK /\ QueueOK /\ NoLostWakeup
  BY DEF Inv
<1>2. QueueOK' /\ (In(queue, "write") => In(queue, "write")')
  BY <1>1, AppendQueue DEF QueueOK, Tokens, Polled
<1>3. TypeOK'
  BY <1>1, <1>2 DEF TypeOK, QueueOK, bev, app, Tokens, Polled
<1>4. NoLostWakeup'
  BY <1>1, <1>2, WakeupStays DEF TypeOK, bev, app, Tokens, Polled
<1> QED BY <1>2, <1>3, <1>4, QuietStep DEF bev, app, Tokens, Polled

\* The ping timer runs out: its event is queued, the timer is not running.
LEMMA PingExpiresInv == ASSUME Inv, PingExpires PROVE Inv'
<1> USE DEF PingExpires
<1>1. TypeOK /\ QueueOK /\ NoLostWakeup
  BY DEF Inv
<1>2. QueueOK' /\ (In(queue, "write") => In(queue, "write")')
  BY <1>1, ActivateQueue DEF QueueOK, OwnEvents, Polled
<1>3. TypeOK'
  BY <1>1, <1>2 DEF TypeOK, QueueOK, bev, app, OwnEvents, Polled
<1>4. NoLostWakeup'
  BY <1>1, <1>2, WakeupStays DEF TypeOK, bev, app, OwnEvents, Polled
<1> QED BY <1>2, <1>3, <1>4, QuietStep DEF bev, app, OwnEvents, Polled

\* The events that run.
LEMMA PingTimeoutInv == ASSUME Inv, PingTimeoutInt PROVE Inv'
<1> USE DEF PingTimeoutInt
<1>1. TypeOK /\ QueueOK /\ NoLostWakeup
  BY DEF Inv
<1>2. QueueOK' /\ (In(queue, "write") => In(queue, "write")')
  BY <1>1, TailQueue DEF QueueOK, Runs
<1>3. TypeOK'
  BY <1>1, <1>2 DEF TypeOK, QueueOK, bev, app, Runs
<1>4. NoLostWakeup'
  BY <1>1, <1>2, WakeupStays DEF TypeOK, bev, app, Runs
<1> QED BY <1>2, <1>3, <1>4, QuietStep DEF bev, app, Runs

\* Reading may call up the deferred callback, but leaves the output alone.
LEMMA ReadableInv == ASSUME Inv, NEW enough \in BOOLEAN, Readable(enough) PROVE Inv'
<1> USE DEF Readable
<1>1. TypeOK /\ QueueOK /\ NoLostWakeup
  BY DEF Inv
<1>2. QueueOK' /\ (In(queue, "write") => In(queue, "write")')
  BY <1>1, TailQueue, ScheduleQueue DEF QueueOK, Runs
<1>3. TypeOK'
  BY <1>1, <1>2 DEF TypeOK, QueueOK, bev, app, Runs
<1>4. NoLostWakeup'
  BY <1>1, <1>2, WakeupStays DEF TypeOK, bev, app, Runs
<1> QED BY <1>2, <1>3, <1>4, QuietStep DEF bev, app, Runs

\* A failed read or write calls it up with an error.
LEMMA FailsInv == ASSUME Inv, NEW e \in {"readable", "writable"}, Fails(e) PROVE Inv'
<1> USE DEF Fails
<1>1. TypeOK /\ QueueOK /\ NoLostWakeup
  BY DEF Inv
<1>2. QueueOK' /\ (In(queue, "write") => In(queue, "write")')
  BY <1>1, TailQueue, ScheduleQueue DEF QueueOK, Runs
<1>3. TypeOK'
  BY <1>1, <1>2 DEF TypeOK, QueueOK, bev, app, Runs
<1>4. NoLostWakeup'
  BY <1>1, <1>2, WakeupStays DEF TypeOK, bev, app, Runs
<1> QED BY <1>2, <1>3, <1>4, QuietStep DEF bev, app, Runs

\* The parts of it that find nothing to do; for the one for writing see below.
LEMMA IdleInv ==
    ASSUME Inv, NEW e \in {"read", "event"}, NEW cb, Idle(e, cb)
    PROVE  Inv'
<1> USE DEF Idle
<1>1. TypeOK /\ QueueOK /\ NoLostWakeup
  BY DEF Inv
<1>2. QueueOK' /\ (In(queue, "write") => In(queue, "write")')
  BY <1>1, TailQueue DEF QueueOK, Runs
<1>3. TypeOK'
  BY <1>1, <1>2 DEF TypeOK, QueueOK, bev, app, Runs
<1>4. NoLostWakeup'
  BY <1>1, <1>2, WakeupStays DEF TypeOK, bev, app, Runs
<1> QED BY <1>2, <1>3, <1>4, QuietStep DEF bev, app, Runs

\* The part for writing is taken off the queue only if it has nothing to do for the
\* callback that is in force.
LEMMA IdleWriteInv == ASSUME Inv, Idle("write", writecb # "none") PROVE Inv'
<1> USE DEF Idle
<1>1. TypeOK /\ QueueOK /\ NoLostWakeup
  BY DEF Inv
<1>2. QueueOK'
  BY <1>1, TailQueue DEF QueueOK, Runs
<1>3. TypeOK'
  BY <1>1, <1>2 DEF TypeOK, QueueOK, bev, app, Runs
<1>4. NoLostWakeup'
  BY <1>1 DEF NoLostWakeup, bev, app, Runs
<1> QED BY <1>2, <1>3, <1>4, QuietStep DEF bev, app, Runs

\* The write event calls the callback up whenever it leaves the output empty.
LEMMA WritableInv == ASSUME Inv, NEW left \in 0 .. MaxOutput, Writable(left) PROVE Inv'
<1> USE DEF Writable
<1>1. TypeOK /\ QueueOK /\ NoLostWakeup
  BY DEF Inv
<1>2. QueueOK'
  BY <1>1, TailQueue, ScheduleQueue DEF QueueOK, Runs
<1>3. TypeOK'
  <2>1. pending' \subseteq {"read", "write", "event"}
    BY <1>1 DEF TypeOK
  <2>2. output' \in Nat /\ queue' \in Seq(Tokens)
    BY <1>2, ConstantsAssumption DEF QueueOK
  <2> QED BY <1>1, <2>1, <2>2 DEF TypeOK, bev, app, Runs
<1>4. NoLostWakeup'
  <2>1. SUFFICES ASSUME writecb # "none", left = 0
                 PROVE  "write" \in pending' /\ Queued("write")'
    BY DEF NoLostWakeup
  <2>2. left <= low
    BY <1>1, <2>1, ConstantsAssumption DEF TypeOK
  <2>3. "write" \in pending' /\ queue' = Schedule
    BY <2>1, <2>2
  <2>4. In(Schedule, "write")
    BY <1>1, ScheduleQueue DEF Runs
  <2> QED BY <2>3, <2>4 DEF In, Queued
<1> QED BY <1>2, <1>3, <1>4, QuietStep DEF bev, app, Runs

\* DisconnectInt.
LEMMA DisconnectIntInv ==
    ASSUME Inv, state = "connected", NEW q \in Seq(Tokens), Follows(q, "write", "event"),
           DisconnectInt(q), pending' \subseteq pending
    PROVE  Inv'
<1> USE DEF DisconnectInt
<1>1. TypeOK
  BY DEF Inv
<1>2. /\ QueueOK'
      /\ \A e : In(queue', e) => e \notin OwnEvents \cup {"readable", "writable"}
  BY DeleteQueue DEF QueueOK, OwnEvents
<1>3. TypeOK'
  BY <1>1, <1>2 DEF TypeOK, QueueOK, app
<1>4. FullArmed' /\ NoLostWakeup' /\ NotFullBefore'
  BY DEF FullArmed, NoLostWakeup, NotFullBefore
<1>5. EventsGone'
  BY <1>2 DEF EventsGone
<1> QED BY <1>2, <1>3, <1>4, <1>5 DEF Inv

\* What runs is the first token of a connection, and the rest stays in order.
LEMMA RunsTail ==
    ASSUME Inv, NEW e, Runs(e)
    PROVE  /\ state = "connected"
           /\ Tail(queue) \in Seq(Tokens) /\ Follows(Tail(queue), "write", "event")
           /\ \A f : In(queue, f) => In(Tail(queue), f) \/ f = e
BY TailQueue DEF Inv, QueueOK, Runs

\* The three ways to DisconnectInt: the event, an error, and the end of a graceful close.
LEMMA RunDisconnectInv == ASSUME Inv, RunDisconnect PROVE Inv'
BY RunsTail, DisconnectIntInv DEF RunDisconnect

\* An error of the bufferevent.
LEMMA event_cbInv == ASSUME Inv, event_cb PROVE Inv'
BY RunsTail, DisconnectIntInv DEF event_cb

\* All has been sent.
LEMMA close_on_finishedInv == ASSUME Inv, close_on_finished_writecb PROVE Inv'
BY RunsTail, DisconnectIntInv DEF close_on_finished_writecb

\* A malformed message disconnects, and a good one reaches the application.
LEMMA read_cbInv == ASSUME Inv, NEW malformed \in BOOLEAN, read_cb(malformed) PROVE Inv'
<1> USE DEF read_cb
<1>1. /\ TypeOK /\ QueueOK /\ state = "connected"
      /\ Tail(queue) \in Seq(Tokens) /\ Follows(Tail(queue), "write", "event")
      /\ In(queue, "write") => In(Tail(queue), "write")
  BY RunsTail DEF Inv
<1>2. CASE malformed
  BY <1>1, <1>2, DisconnectIntInv
<1>3. CASE ~malformed
  <2>1. QueueOK'
    BY <1>1, <1>3 DEF QueueOK
  <2>2. TypeOK'
    BY <1>1, <1>3, <2>1 DEF TypeOK, QueueOK, app
  <2>3. NoLostWakeup'
    BY <1>1, <1>3 DEF Inv, NoLostWakeup, In, Queued
  <2> QED BY <1>1, <1>3, <2>1, <2>2, <2>3, QuietStep DEF app
<1> QED BY <1>2, <1>3

\* A graceful close waits only with something to send; it takes the place of write_cb.
LEMMA DisconnectWhenFinishedIntInv == ASSUME Inv, DisconnectWhenFinishedInt PROVE Inv'
<1> USE DEF DisconnectWhenFinishedInt
<1>1. /\ TypeOK /\ QueueOK /\ state = "connected"
      /\ Tail(queue) \in Seq(Tokens) /\ Follows(Tail(queue), "write", "event")
  BY RunsTail DEF Inv
<1>2. CASE ~Unsent
  BY <1>1, <1>2, DisconnectIntInv
<1>3. CASE Unsent
  <2>1. QueueOK'
    <3>1. queue' = Delete(Tail(queue), {"readable"})
      BY <1>3
    <3> QED BY <1>1, <3>1, DeleteQueue DEF QueueOK
  <2>2. TypeOK'
    BY <1>1, <1>3, <2>1 DEF TypeOK, QueueOK, app
  <2>3. FullArmed' /\ NoLostWakeup'
    BY <1>1, <1>3 DEF FullArmed, NoLostWakeup, Unsent
  <2>4. NotFullBefore' /\ EventsGone'
    BY <1>1, <1>3 DEF NotFullBefore, EventsGone
  <2> QED BY <2>1, <2>2, <2>3, <2>4 DEF Inv
<1> QED BY <1>2, <1>3

\* OnWriteBufferFull: write_cb is armed with a buffer that is not empty.
LEMMA CheckWriteBufferIntInv == ASSUME Inv, CheckWriteBufferInt PROVE Inv'
<1> USE DEF CheckWriteBufferInt
<1>1. /\ TypeOK /\ QueueOK /\ state = "connected"
      /\ Tail(queue) \in Seq(Tokens) /\ Follows(Tail(queue), "write", "event")
      /\ In(queue, "write") => In(Tail(queue), "write")
  BY RunsTail DEF Inv
<1>2. QueueOK'
  BY <1>1 DEF QueueOK
<1>3. TypeOK'
  BY <1>1, <1>2 DEF TypeOK, QueueOK
<1>4. FullArmed'
  BY <1>1 DEF Inv, FullArmed
<1>5. NoLostWakeup'
  <2>1. Full => output # 0
    BY <1>1, ConstantsAssumption DEF Full, TypeOK
  <2> QED BY <1>1, <2>1 DEF Inv, NoLostWakeup, In, Queued
<1>6. NotFullBefore' /\ EventsGone'
  BY <1>1 DEF NotFullBefore, EventsGone
<1> QED BY <1>2, <1>3, <1>4, <1>5, <1>6 DEF Inv

\* OnWriteBufferReady.
LEMMA write_cbInv == ASSUME Inv, write_cb PROVE Inv'
<1> USE DEF write_cb
<1>1. /\ TypeOK /\ QueueOK /\ state = "connected"
      /\ Tail(queue) \in Seq(Tokens) /\ Follows(Tail(queue), "write", "event")
  BY RunsTail DEF Inv
<1>2. QueueOK'
  BY <1>1 DEF QueueOK
<1>3. TypeOK'
  BY <1>1, <1>2 DEF TypeOK, QueueOK
<1>4. FullArmed' /\ NoLostWakeup' /\ NotFullBefore' /\ EventsGone'
  BY <1>1 DEF FullArmed, NoLostWakeup, NotFullBefore, EventsGone
<1> QED BY <1>2, <1>3, <1>4 DEF Inv

\* The handler's answer: the same object may connect again, its events deleted before.
LEMMA OnDisconnectedInv == ASSUME Inv, NEW ret \in BOOLEAN, OnDisconnected(ret) PROVE Inv'
<1> USE DEF OnDisconnected, Released
<1>1. TypeOK /\ QueueOK /\ EventsGone
  BY DEF Inv
<1>2. CASE opts.fPersistent /\ ret
  <2>1. /\ queue' \in Seq(Tokens)
        /\ \A e : In(queue', e) => In(queue, e) /\ e # "event"
    <3> DEFINE S == {"read", "write", "event"}
    <3>1. queue' = Delete(queue, S) /\ queue \in Seq(Tokens)
      BY <1>1, <1>2 DEF QueueOK
    <3> HIDE DEF S
    <3>2. /\ Delete(queue, S) \in Seq(Tokens)
          /\ \A e : In(Delete(queue, S), e) <=> e \notin S /\ In(queue, e)
      <4>1. /\ Delete(queue, S) \in Seq(Tokens)
            /\ \A e : (\E k \in DOMAIN Delete(queue, S) : Delete(queue, S)[k] = e)
                         <=> e \notin S /\ \E i \in DOMAIN queue : queue[i] = e
        BY <3>1, DeleteQueued
      <4> QED BY <4>1 DEF In
    <3> QED BY <3>1, <3>2 DEF S
  <2>2. QueueOK'
    <3>1. \A i \in DOMAIN queue' : queue'[i] # "event"
      BY <2>1 DEF In
    <3> QED BY <2>1, <3>1 DEF QueueOK, Follows
  <2>3. TypeOK'
    BY <1>1, <1>2, <2>1 DEF TypeOK
  <2>4. FullArmed' /\ NoLostWakeup' /\ NotFullBefore'
    BY <1>2 DEF FullArmed, NoLostWakeup, NotFullBefore
  <2>5. EventsGone'
    BY <1>1, <1>2, <2>1 DEF EventsGone
  <2> QED BY <2>2, <2>3, <2>4, <2>5 DEF Inv
<1>3. CASE ~(opts.fPersistent /\ ret)
  <2>1. QueueOK'
    <3>1. queue' = <<>>
      BY <1>3
    <3>2. <<>> \in Seq(Tokens) /\ Len(<<>>) = 0
      OBVIOUS
    <3>3. Follows(<<>>, "write", "event")
      BY <3>2 DEF Follows
    <3> QED BY <3>1, <3>2, <3>3 DEF QueueOK
  <2>2. TypeOK'
    BY <1>1, <1>3, <2>1 DEF TypeOK, QueueOK
  <2>3. FullArmed' /\ NoLostWakeup' /\ NotFullBefore' /\ EventsGone'
    BY <1>3 DEF FullArmed, NoLostWakeup, NotFullBefore, EventsGone
  <2> QED BY <2>1, <2>2, <2>3 DEF Inv
<1> QED BY <1>2, <1>3

\* The next connection of the object finds none of its events queued or its timer running.
LEMMA OnOutgoingConnectedInv == ASSUME Inv, OnOutgoingConnected PROVE Inv'
<1> USE DEF OnOutgoingConnected, FreshBev
<1>1. TypeOK /\ QueueOK /\ NotFullBefore
  BY DEF Inv
<1>2. QueueOK'
  BY <1>1 DEF QueueOK
<1>3. TypeOK'
  BY <1>1, <1>2 DEF TypeOK, QueueOK, app
<1>4. FullArmed' /\ NoLostWakeup' /\ NotFullBefore' /\ EventsGone'
  BY <1>1 DEF FullArmed, NoLostWakeup, NotFullBefore, EventsGone, app
<1> QED BY <1>2, <1>3, <1>4 DEF Inv

\* ShutdownInt destroys the object, and with it its events.
LEMMA ShutdownIntInv == ASSUME Inv, ShutdownInt PROVE Inv'
<1> USE DEF ShutdownInt, Released
<1>1. TypeOK
  BY DEF Inv
<1>2. QueueOK'
  BY DEF QueueOK, Follows
<1>3. TypeOK'
  BY <1>1, <1>2 DEF TypeOK, QueueOK
<1>4. FullArmed' /\ NoLostWakeup' /\ NotFullBefore' /\ EventsGone'
  BY DEF FullArmed, NoLostWakeup, NotFullBefore, EventsGone
<1> QED BY <1>2, <1>3, <1>4 DEF Inv

\* Every step keeps the invariant: one lemma per action.
LEMMA NextInv == Inv /\ [Next]_vars => Inv'
<1>1. SUFFICES ASSUME Inv, [Next]_vars PROVE Inv'
  OBVIOUS
<1>2. CASE Call
  BY <1>1, <1>2, DisconnectInv, DisconnectWhenFinishedInv, PauseRecvInv, UnpauseRecvInv,
     WriteInv, ResetPingTimeoutInv DEF Call
<1>3. CASE PollReadable \/ PollWritable \/ PingExpires
  BY <1>1, <1>3, PollReadableInv, PollWritableInv, PingExpiresInv
<1>4. CASE RunEvent
  BY <1>1, <1>4, RunDisconnectInv, DisconnectWhenFinishedIntInv, CheckWriteBufferIntInv,
     PingTimeoutInv, ReadableInv, WritableInv, FailsInv, read_cbInv, write_cbInv,
     close_on_finishedInv, event_cbInv, IdleInv, IdleWriteInv DEF RunEvent
<1>5. ASSUME NEW ret \in BOOLEAN, OnDisconnected(ret) PROVE Inv'
  BY <1>1, <1>5, OnDisconnectedInv
<1>6. CASE OnOutgoingConnected \/ ShutdownInt
  BY <1>1, <1>6, OnOutgoingConnectedInv, ShutdownIntInv
<1>7. CASE UNCHANGED vars
  <2>1. UNCHANGED <<queue, Queued("write")>>
    BY <1>7 DEF vars, Queued
  <2> QED BY <1>1, <1>7, <2>1 DEF vars, bev, app, Inv, TypeOK, QueueOK, FullArmed,
          NoLostWakeup, NotFullBefore, EventsGone
<1> QED BY <1>1, <1>2, <1>3, <1>4, <1>5, <1>6, <1>7 DEF Next

-----------------------------------------------------------------------------
(* A graceful close. Its event is not forgotten because every check of the buffer that is
   queued when it is asked for has it behind itself, and the application sends no more. *)

\* Every "check" has a "wait" behind it.
Awaited(q) == \A i \in DOMAIN q : q[i] = "check" => \E j \in DOMAIN q : i < j /\ q[j] = "wait"

ChecksAwaited == app_finish /\ Undisturbed /\ state = "connected" => Awaited(queue)

WaitIsFinish == Undisturbed /\ state = "connected" /\ In(queue, "wait") => app_finish

\* A graceful close ends with the connection, and only an object that retries has another.
FinishEnds ==
    /\ state \in {"retrying", "gone"} => ~app_finish
    /\ state = "retrying" => opts.fPersistent

CloseInv == OutputPolled /\ CloseOnItsWay /\ ChecksAwaited /\ WaitIsFinish /\ FinishEnds

\* Running the first token: a check that runs has a "wait" behind it.
LEMMA AwaitedTail ==
    ASSUME NEW q \in Seq(Tokens), q # <<>>, Awaited(q)
    PROVE  Awaited(Tail(q)) /\ (Head(q) = "check" => In(Tail(q), "wait"))
<1>1. /\ Tail(q) \in Seq(Tokens) /\ Len(q) \in Nat \ {0}
      /\ DOMAIN q = 1 .. Len(q) /\ DOMAIN Tail(q) = 1 .. Len(q) - 1
      /\ Head(q) = q[1]
  OBVIOUS
<1>2. \A i \in 1 .. Len(q) - 1 : Tail(q)[i] = q[i + 1]
  OBVIOUS
<1>3. ASSUME NEW i \in 1 .. Len(q), q[i] = "check"
      PROVE  \E j \in 1 .. Len(q) - 1 : i - 1 < j /\ Tail(q)[j] = "wait"
  <2>1. PICK j \in 1 .. Len(q) : i < j /\ q[j] = "wait"
    BY <1>1, <1>3 DEF Awaited
  <2>2. j - 1 \in 1 .. Len(q) - 1 /\ i - 1 < j - 1 /\ (j - 1) + 1 = j
    BY <1>1, <2>1
  <2>3. Tail(q)[j - 1] = "wait"
    BY <1>2, <2>1, <2>2
  <2> QED BY <2>2, <2>3
<1>4. Awaited(Tail(q))
  <2>1. ASSUME NEW i \in 1 .. Len(q) - 1, Tail(q)[i] = "check"
        PROVE  \E j \in 1 .. Len(q) - 1 : i < j /\ Tail(q)[j] = "wait"
    <3>1. i + 1 \in 1 .. Len(q) /\ (i + 1) - 1 = i
      BY <1>1
    <3>2. q[i + 1] = "check"
      BY <1>2, <2>1
    <3> QED BY <1>3, <3>1, <3>2
  <2> QED BY <1>1, <2>1 DEF Awaited
<1>5. ASSUME Head(q) = "check" PROVE In(Tail(q), "wait")
  <2>1. 1 \in 1 .. Len(q) /\ q[1] = "check"
    BY <1>1, <1>5
  <2>2. \E j \in 1 .. Len(q) - 1 : Tail(q)[j] = "wait"
    BY <1>3, <2>1
  <2> QED BY <1>1, <2>2 DEF In
<1> QED BY <1>4, <1>5

\* Another event that is queued last.
LEMMA AwaitedAppend ==
    ASSUME NEW q \in Seq(Tokens), NEW e
    PROVE  /\ \A f : In(Append(q, e), f) <=> In(q, f) \/ f = e
           /\ Awaited(q) /\ e # "check" => Awaited(Append(q, e))
           /\ e = "wait" => Awaited(Append(q, e))
<1> DEFINE r == Append(q, e)
<1>1. /\ Len(q) \in Nat /\ DOMAIN q = 1 .. Len(q) /\ DOMAIN r = 1 .. Len(q) + 1
      /\ \A i \in 1 .. Len(q) : r[i] = q[i]
      /\ r[Len(q) + 1] = e
  OBVIOUS
<1> HIDE DEF r
<1>2. \A f : In(r, f) <=> In(q, f) \/ f = e
  <2>1. ASSUME NEW f, In(r, f) PROVE In(q, f) \/ f = e
    <3>1. PICK i \in 1 .. Len(q) + 1 : r[i] = f
      BY <1>1, <2>1 DEF In
    <3>2. i = Len(q) + 1 \/ i \in 1 .. Len(q)
      BY <1>1
    <3> QED BY <1>1, <3>1, <3>2 DEF In
  <2>2. ASSUME NEW f, In(q, f) \/ f = e PROVE In(r, f)
    <3>1. 1 .. Len(q) \subseteq 1 .. Len(q) + 1 /\ Len(q) + 1 \in 1 .. Len(q) + 1
      BY <1>1
    <3> QED BY <1>1, <2>2, <3>1 DEF In
  <2> QED BY <2>1, <2>2
<1>3. ASSUME Awaited(q), e # "check"
      PROVE  Awaited(r)
  <2>1. ASSUME NEW i \in 1 .. Len(q) + 1, r[i] = "check"
        PROVE  \E j \in 1 .. Len(q) + 1 : i < j /\ r[j] = "wait"
    <3>1. i \in 1 .. Len(q) /\ q[i] = "check"
      BY <1>1, <1>3, <2>1
    <3>2. PICK j \in 1 .. Len(q) : i < j /\ q[j] = "wait"
      BY <1>1, <1>3, <3>1 DEF Awaited
    <3>3. j \in 1 .. Len(q) + 1 /\ r[j] = "wait"
      BY <1>1, <3>2
    <3> QED BY <3>2, <3>3
  <2> QED BY <1>1, <2>1 DEF Awaited
<1>4. ASSUME e = "wait"
      PROVE  Awaited(r)
  <2>1. ASSUME NEW i \in 1 .. Len(q) + 1, r[i] = "check"
        PROVE  i < Len(q) + 1 /\ Len(q) + 1 \in 1 .. Len(q) + 1
    <3>1. i # Len(q) + 1
      BY <1>1, <1>4, <2>1
    <3> QED BY <1>1, <3>1
  <2> QED BY <1>1, <1>4, <2>1 DEF Awaited
<1> QED BY <1>2, <1>3, <1>4 DEF r

\* event_del moves nothing past a "wait".
LEMMA AwaitedDelete ==
    ASSUME NEW q \in Seq(Tokens), NEW S, "wait" \notin S, Awaited(q)
    PROVE  Awaited(Delete(q, S))
<1> DEFINE r == Delete(q, S)
           N == Rank(q, S, Len(q))
<1>1. N \in Nat /\ DOMAIN r = 1 .. N
  BY DeleteAt
<1>2. ASSUME NEW k \in 1 .. N, r[k] = "check"
      PROVE  \E l \in 1 .. N : k < l /\ r[l] = "wait"
  <2> DEFINE i == Position(q, S, k)
  <2>1. i \in Kept(q, S, Len(q)) /\ Rank(q, S, i) = k /\ q[i] = "check"
    BY <1>2, DeleteAt
  <2> HIDE DEF i
  <2>2. i \in 1 .. Len(q)
    BY <2>1 DEF Kept
  <2>3. PICK j \in 1 .. Len(q) : i < j /\ q[j] = "wait"
    BY <2>1, <2>2 DEF Awaited
  <2>4. j \in Kept(q, S, Len(q))
    BY <2>3 DEF Kept
  <2>5. Rank(q, S, i) < Rank(q, S, j)
    BY <2>1, <2>3, <2>4, RankInjective
  <2>6. Rank(q, S, j) \in 1 .. N /\ Position(q, S, Rank(q, S, j)) = j
    BY <2>4, RankBounds, DeleteAt
  <2>7. r[Rank(q, S, j)] = "wait"
    BY <2>3, <2>6, DeleteAt
  <2> QED BY <2>1, <2>5, <2>6, <2>7
<1> HIDE DEF r, N
<1> QED BY <1>1, <1>2 DEF Awaited, r

\* The deferred callback is queued behind all of them.
LEMMA AwaitedSchedule ==
    ASSUME queue \in Seq(Tokens), queue # <<>>
    PROVE  /\ Awaited(queue) => Awaited(Schedule)
           /\ \A f : In(Tail(queue), f) => In(Schedule, f)
           /\ In(Schedule, "wait") => In(Tail(queue), "wait")
           /\ Head(queue) # "event" => In(Schedule, "event")
<1> DEFINE q == Tail(queue)
           a == Append(q, "read")
           b == Append(a, "write")
           c == Append(b, "event")
<1>1. q \in Seq(Tokens) /\ Deferred = <<"read", "write", "event">>
  BY DEF Deferred
<1>2. q \o Deferred = c
  BY <1>1
<1>3. a \in Seq(Tokens) /\ b \in Seq(Tokens)
  BY <1>1 DEF Tokens
<1> HIDE DEF q
<1>4. Awaited(queue) => Awaited(q)
  BY AwaitedTail DEF q
<1>5. Awaited(q) => Awaited(c)
  <2>1. Awaited(q) => Awaited(a)
    BY <1>1, AwaitedAppend
  <2>2. Awaited(a) => Awaited(b)
    BY <1>3, AwaitedAppend
  <2>3. Awaited(b) => Awaited(c)
    BY <1>3, AwaitedAppend
  <2> QED BY <2>1, <2>2, <2>3
<1>6. \A f : In(c, f) <=> In(q, f) \/ f \in {"read", "write", "event"}
  <2>1. \A f : In(a, f) <=> In(q, f) \/ f = "read"
    BY <1>1, AwaitedAppend
  <2>2. \A f : In(b, f) <=> In(a, f) \/ f = "write"
    BY <1>3, AwaitedAppend
  <2>3. \A f : In(c, f) <=> In(b, f) \/ f = "event"
    BY <1>3, AwaitedAppend
  <2> HIDE DEF a, b, c
  <2> QED BY <2>1, <2>2, <2>3
<1> HIDE DEF a, b, c
<1>7. CASE Queued("event")
  <2>1. Schedule = q
    BY <1>7 DEF Schedule, q
  <2>2. ASSUME Head(queue) # "event" PROVE In(q, "event")
    <3>1. PICK i \in 1 .. Len(queue) : queue[i] = "event"
      BY <1>7 DEF Queued
    <3>2. i # 1
      BY <2>2, <3>1
    <3>3. i - 1 \in 1 .. Len(queue) - 1 /\ (i - 1) + 1 = i
      BY <3>2
    <3>4. q[i - 1] = "event" /\ i - 1 \in DOMAIN q
      BY <3>1, <3>3 DEF q
    <3> QED BY <3>4 DEF In
  <2> QED BY <1>4, <2>1, <2>2 DEF q
<1>8. CASE ~Queued("event")
  <2>1. Schedule = c
    BY <1>2, <1>8 DEF Schedule, q
  <2> QED BY <1>4, <1>5, <1>6, <2>1 DEF q
<1> QED BY <1>7, <1>8

\* The socket stays polled unless it was not, and event_cb hears of it.
LEMMA PolledStays ==
    ASSUME OutputPolled, state' = "connected" => state = "connected", writing' = writing,
           "event" \in pending => "event" \in pending',
           In(queue, "event") => In(queue, "event")'
    PROVE  OutputPolled'
<1>1. Queued("event") <=> In(queue, "event")
  BY DEF Queued, In
<1>2. Queued("event")' <=> In(queue, "event")'
  BY DEF Queued, In
<1> QED BY <1>1, <1>2 DEF OutputPolled

\* A step that is not about the close leaves it on its way.
LEMMA CloseStays ==
    ASSUME CloseInv, OutputPolled',
           state = "connected" \/ (opts.threaded /\ state = "closing"),
           UNCHANGED <<opts, state, app_finish>>,
           app_finish /\ Undisturbed /\ state = "connected" /\ writecb = "close" =>
               writecb' = "close" \/ In(queue, "wait")',
           Awaited(queue) => Awaited(queue)',
           In(queue, "wait") <=> In(queue, "wait")'
    PROVE  CloseInv'
<1>1. Queued("wait") <=> In(queue, "wait")
  BY DEF Queued, In
<1>2. Queued("wait")' <=> In(queue, "wait")'
  BY DEF Queued, In
<1>3. Undisturbed' <=> Undisturbed
  BY DEF Undisturbed
<1>4. CloseOnItsWay'
  BY <1>1, <1>2, <1>3 DEF CloseInv, CloseOnItsWay
<1>5. ChecksAwaited' /\ WaitIsFinish' /\ FinishEnds'
  BY <1>3 DEF CloseInv, ChecksAwaited, WaitIsFinish, FinishEnds
<1> QED BY <1>4, <1>5 DEF CloseInv

\* DisconnectInt ends the wait.
LEMMA CloseEnds == ASSUME state' = "closing" PROVE CloseInv'
BY DEF CloseInv, OutputPolled, CloseOnItsWay, ChecksAwaited, WaitIsFinish, FinishEnds

\* What event_active does to the queue.
LEMMA ActivateAwaited ==
    ASSUME Inv, NEW e \in OwnEvents
    PROVE  /\ \A f : In(Activate(e), f) <=> In(queue, f) \/ f = e
           /\ e # "check" => (Awaited(queue) => Awaited(Activate(e)))
<1>1. queue \in Seq(Tokens)
  BY DEF Inv, TypeOK
<1>2. CASE Queued(e)
  BY <1>2 DEF Activate, Queued, In
<1>3. CASE ~Queued(e)
  <2>1. Activate(e) = Append(queue, e)
    BY <1>3 DEF Activate
  <2> QED BY <1>1, <2>1, AwaitedAppend
<1> QED BY <1>2, <1>3

\* What event_del does to it.
LEMMA DeleteAwaited ==
    ASSUME NEW q \in Seq(Tokens), NEW S, S \cap {"wait", "event"} = {}
    PROVE  /\ In(Delete(q, S), "wait") <=> In(q, "wait")
           /\ In(Delete(q, S), "event") <=> In(q, "event")
           /\ Awaited(q) => Awaited(Delete(q, S))
<1>1. \A e : In(Delete(q, S), e) <=> e \notin S /\ In(q, e)
  BY DeleteQueued DEF In
<1> QED BY <1>1, AwaitedDelete

\* What running its head does to it.
LEMMA RunsAwaited ==
    ASSUME Inv, NEW e, Runs(e)
    PROVE  /\ state = "connected" /\ queue \in Seq(Tokens) /\ queue # <<>>
           /\ Head(queue) = e /\ Tail(queue) \in Seq(Tokens)
           /\ \A f : In(Tail(queue), f) => In(queue, f)
           /\ \A f : In(queue, f) => In(Tail(queue), f) \/ f = e
           /\ Awaited(queue) => Awaited(Tail(queue))
           /\ Awaited(queue) /\ e = "check" => In(Tail(queue), "wait")
BY TailQueue, AwaitedTail DEF Inv, TypeOK, QueueOK, Runs

\* The calls other than Write and CloseConnection(id, false), and what libevent finds.
LEMMA QuietClose ==
    ASSUME Inv, CloseInv,
           \/ Disconnect \/ PauseRecv \/ UnpauseRecv
           \/ \E on \in BOOLEAN : ResetPingTimeout(on)
           \/ PollReadable \/ PollWritable \/ PingExpires
    PROVE  CloseInv'
<1>1. queue \in Seq(Tokens) /\ OutputPolled
  BY DEF Inv, TypeOK, CloseInv
<1>2. /\ state = "connected" \/ (opts.threaded /\ state = "closing")
      /\ UNCHANGED <<opts, state, app_finish, writing, pending, writecb>>
  BY DEF Disconnect, PauseRecv, UnpauseRecv, ResetPingTimeout, PollReadable, PollWritable,
     PingExpires, Reachable, Polled, bev, app
<1>3. /\ In(queue, "wait") <=> In(queue, "wait")'
      /\ In(queue, "event") => In(queue, "event")'
      /\ Awaited(queue) => Awaited(queue)'
  <2>1. CASE queue' = Activate("disconnect") \/ queue' = Activate("ping")
    BY <2>1, ActivateAwaited DEF OwnEvents
  <2>2. CASE queue' = Delete(queue, {"readable"}) \/ queue' = Delete(queue, {"ping"})
    <3>1. {"readable"} \cap {"wait", "event"} = {} /\ {"ping"} \cap {"wait", "event"} = {}
      OBVIOUS
    <3> QED BY <1>1, <2>2, <3>1, DeleteAwaited
  <2>3. ASSUME NEW e \in {"readable", "writable"}, queue' = Append(queue, e)
        PROVE  /\ In(queue, "wait") <=> In(queue, "wait")'
               /\ In(queue, "event") => In(queue, "event")'
               /\ Awaited(queue) => Awaited(queue)'
    <3>1. e \notin {"wait", "event", "check"}
      OBVIOUS
    <3>2. /\ \A f : In(Append(queue, e), f) <=> In(queue, f) \/ f = e
          /\ Awaited(queue) /\ e # "check" => Awaited(Append(queue, e))
      BY <1>1, AwaitedAppend
    <3> QED BY <2>3, <3>1, <3>2 DEF In, Awaited
  <2>4. CASE queue' = queue
    BY <2>4
  <2> QED BY <2>1, <2>2, <2>3, <2>4 DEF Disconnect, PauseRecv, UnpauseRecv,
          ResetPingTimeout, PollReadable, PollWritable, PingExpires
<1>4. OutputPolled'
  BY <1>1, <1>2, <1>3, PolledStays
<1> QED BY <1>2, <1>3, <1>4, CloseStays

\* Send, which an undisturbed close is not followed by.
LEMMA WriteClose == ASSUME Inv, CloseInv, NEW size \in Sizes, Write(size) PROVE CloseInv'
<1>1. \A f : In(queue', f) <=> In(queue, f) \/ f = "check"
  BY ActivateAwaited DEF Write, OwnEvents
<1>2. /\ UNCHANGED <<opts, state, app_finish, writing, pending, writecb>>
      /\ app_finish => opts.sendsAfterClose
  BY DEF Write
<1>3. Undisturbed' => Undisturbed /\ ~app_finish
  BY <1>2 DEF Undisturbed
<1>4. OutputPolled'
  BY <1>1, <1>2, PolledStays DEF CloseInv
<1>5. CloseOnItsWay' /\ ChecksAwaited' /\ WaitIsFinish' /\ FinishEnds'
  BY <1>1, <1>2, <1>3
     DEF CloseInv, CloseOnItsWay, ChecksAwaited, WaitIsFinish, FinishEnds
<1> QED BY <1>4, <1>5 DEF CloseInv

\* CloseConnection(id, false): the checks that are queued have the event behind them, also
\* if it was queued before.
LEMMA WaitClose == ASSUME Inv, CloseInv, DisconnectWhenFinished PROVE CloseInv'
<1>1. \A f : In(queue', f) <=> In(queue, f) \/ f = "wait"
  BY ActivateAwaited DEF DisconnectWhenFinished, OwnEvents
<1>2. /\ UNCHANGED <<opts, state, writing, pending, writecb>> /\ app_finish' = TRUE
      /\ queue' = Activate("wait") /\ queue \in Seq(Tokens)
      /\ state = "connected" \/ state = "closing"
  BY DEF DisconnectWhenFinished, bev, Inv, TypeOK, Reachable
<1>3. OutputPolled'
  BY <1>1, <1>2, PolledStays DEF CloseInv
<1>4. ASSUME Undisturbed, state = "connected" PROVE Awaited(queue')
  <2>1. CASE Queued("wait")
    <3>1. In(queue, "wait") /\ queue' = queue
      BY <1>2, <2>1 DEF Activate, Queued, In
    <3> QED BY <1>4, <3>1 DEF CloseInv, WaitIsFinish, ChecksAwaited
  <2>2. CASE ~Queued("wait")
    <3>1. queue' = Append(queue, "wait")
      BY <1>2, <2>2 DEF Activate
    <3> QED BY <1>2, <3>1, AwaitedAppend
  <2> QED BY <2>1, <2>2
<1>5. Undisturbed' <=> Undisturbed
  BY <1>2 DEF Undisturbed
<1>6. Queued("wait")'
  BY <1>1 DEF In, Queued
<1>7. CloseOnItsWay' /\ ChecksAwaited' /\ WaitIsFinish' /\ FinishEnds'
  BY <1>2, <1>4, <1>5, <1>6 DEF CloseOnItsWay, ChecksAwaited, WaitIsFinish, FinishEnds
<1> QED BY <1>3, <1>7 DEF CloseInv

\* The event of a graceful close runs: the callback takes over, or the wait is over.
LEMMA WaitRunsClose == ASSUME Inv, CloseInv, DisconnectWhenFinishedInt PROVE CloseInv'
<1>1. Runs("wait")
  BY DEF DisconnectWhenFinishedInt
<1>2. CASE ~Unsent
  <2>1. state' = "closing"
    BY <1>2 DEF DisconnectWhenFinishedInt, DisconnectInt
  <2> QED BY <2>1, CloseEnds
<1>3. CASE Unsent
  <2>1. /\ UNCHANGED <<opts, state, app_finish, writing, pending>> /\ writecb' = "close"
        /\ queue' = Delete(Tail(queue), {"readable"})
    BY <1>3 DEF DisconnectWhenFinishedInt, app
  <2>2. /\ In(queue', "wait") => In(queue, "wait")
        /\ In(queue, "event") => In(queue', "event")
        /\ Awaited(queue) => Awaited(queue')
        /\ state = "connected"
    <3>1. {"readable"} \cap {"wait", "event"} = {}
      OBVIOUS
    <3>2. /\ state = "connected" /\ Tail(queue) \in Seq(Tokens)
          /\ In(Tail(queue), "wait") => In(queue, "wait")
          /\ In(queue, "event") => In(Tail(queue), "event")
          /\ Awaited(queue) => Awaited(Tail(queue))
      BY <1>1, RunsAwaited
    <3>3. /\ In(queue', "wait") <=> In(Tail(queue), "wait")
          /\ In(queue', "event") <=> In(Tail(queue), "event")
          /\ Awaited(Tail(queue)) => Awaited(queue')
      BY <2>1, <3>1, <3>2, DeleteAwaited
    <3> QED BY <3>2, <3>3, Zenon
  <2>3. OutputPolled'
    BY <2>1, <2>2, PolledStays DEF CloseInv
  <2>4. Undisturbed' <=> Undisturbed
    BY <2>1 DEF Undisturbed
  <2>5. CloseOnItsWay' /\ ChecksAwaited' /\ WaitIsFinish' /\ FinishEnds'
    BY <2>1, <2>2, <2>4
       DEF CloseInv, CloseOnItsWay, ChecksAwaited, WaitIsFinish, FinishEnds
  <2> QED BY <2>3, <2>5 DEF CloseInv
<1> QED BY <1>2, <1>3

\* A check of the buffer may put write_cb in the place of the callback only with the
\* event of the close still to run.
LEMMA CheckRunsClose == ASSUME Inv, CloseInv, CheckWriteBufferInt PROVE CloseInv'
<1>1. Runs("check") /\ queue' = Tail(queue)
  BY DEF CheckWriteBufferInt
<1>2. UNCHANGED <<opts, state, app_finish, writing, pending>>
  BY DEF CheckWriteBufferInt
<1>3. /\ In(queue, "wait") <=> In(queue', "wait")
      /\ In(queue, "event") => In(queue', "event")
      /\ Awaited(queue) => Awaited(queue') /\ In(queue', "wait")
      /\ state = "connected"
  BY <1>1, RunsAwaited
<1>4. OutputPolled'
  BY <1>2, <1>3, PolledStays DEF CloseInv
<1>5. app_finish /\ Undisturbed /\ state = "connected" => In(queue', "wait")
  BY <1>3 DEF CloseInv, ChecksAwaited
<1> QED BY <1>2, <1>3, <1>4, <1>5, CloseStays

\* The bufferevent's events queue the deferred callback.
LEMMA ReadyClose ==
    ASSUME Inv, CloseInv,
           \/ \E enough \in BOOLEAN : Readable(enough)
           \/ \E left \in 0 .. MaxOutput : Writable(left)
           \/ Fails("readable") \/ Fails("writable")
    PROVE  CloseInv'
<1>1. PICK e \in {"readable", "writable"} : Runs(e)
  BY DEF Readable, Writable, Fails
<1>2. UNCHANGED <<opts, state, app_finish, writecb>> /\ pending \subseteq pending'
  BY DEF Readable, Writable, Fails, app
<1>3. queue' = Schedule \/ queue' = Tail(queue)
  BY DEF Readable, Writable, Fails
<1>4. /\ In(queue, "wait") <=> In(queue', "wait")
      /\ In(queue, "event") => In(queue', "event")
      /\ Awaited(queue) => Awaited(queue')
      /\ state = "connected"
      /\ queue' = Schedule => In(queue', "event")
  <2>1. /\ state = "connected" /\ queue \in Seq(Tokens) /\ queue # <<>> /\ Head(queue) = e
        /\ In(Tail(queue), "wait") <=> In(queue, "wait")
        /\ In(queue, "event") => In(Tail(queue), "event")
        /\ Awaited(queue) => Awaited(Tail(queue))
    BY <1>1, RunsAwaited
  <2>2. /\ Awaited(queue) => Awaited(Schedule)
        /\ In(Schedule, "wait") <=> In(Tail(queue), "wait")
        /\ In(Schedule, "event")
    BY <2>1, AwaitedSchedule
  <2> QED BY <1>3, <2>1, <2>2, Zenon
<1>5. OutputPolled'
  <2>1. CASE writing' = writing
    BY <1>2, <1>4, <2>1, PolledStays DEF CloseInv
  <2>2. CASE writing' # writing
    <3>1. queue' = Schedule /\ "event" \in pending'
      BY <2>2 DEF Readable, Writable, Fails
    <3> QED BY <1>4, <3>1 DEF OutputPolled, In, Queued
  <2> QED BY <2>1, <2>2
<1> QED BY <1>2, <1>4, <1>5, CloseStays

\* The parts of the deferred callback, and the ping timer's event.
LEMMA DeferredClose ==
    ASSUME Inv, CloseInv,
           \/ PingTimeoutInt \/ \E malformed \in BOOLEAN : read_cb(malformed)
           \/ write_cb \/ Idle("read", readcb) \/ Idle("write", writecb # "none")
           \/ Idle("event", eventcb)
    PROVE  CloseInv'
<1>1. CASE state' = "closing"
  BY <1>1, CloseEnds
<1>2. CASE state' # "closing"
  <2>1. PICK e \in {"ping", "read", "write", "event"} : Runs(e) /\ queue' = Tail(queue)
    BY <1>2 DEF PingTimeoutInt, read_cb, write_cb, Idle, DisconnectInt
  <2>2. /\ UNCHANGED <<opts, state, app_finish, writing>>
        /\ "event" \in pending => "event" \in pending'
        /\ writecb = "close" => writecb' = "close"
    BY <1>2 DEF PingTimeoutInt, read_cb, write_cb, Idle, DisconnectInt, bev, app
  <2>3. /\ In(queue, "wait") <=> In(queue', "wait")
        /\ e # "event" /\ In(queue, "event") => In(queue', "event")
        /\ Awaited(queue) => Awaited(queue')
        /\ state = "connected"
    BY <2>1, RunsAwaited
  <2>4. OutputPolled'
    <3>1. CASE e # "event"
      BY <2>2, <2>3, <3>1, PolledStays DEF CloseInv
    <3>2. CASE e = "event"
      <4>1. Idle("event", eventcb) /\ eventcb
        BY <1>2, <2>1, <2>3, <3>2
           DEF PingTimeoutInt, read_cb, write_cb, Idle, Runs, Inv, TypeOK
      <4>2. "event" \notin pending
        BY <4>1 DEF Idle
      <4> QED BY <2>2, <2>3, <4>2 DEF CloseInv, OutputPolled
    <3> QED BY <3>1, <3>2
  <2> QED BY <2>2, <2>3, <2>4, CloseStays
<1> QED BY <1>1, <1>2

\* The handler's side: a connection of an object that retries begins without a close, and
\* without threads none of its events is queued.
LEMMA HandlerClose ==
    ASSUME Inv, CloseInv,
           (\E ret \in BOOLEAN : OnDisconnected(ret)) \/ OnOutgoingConnected \/ ShutdownInt
    PROVE  CloseInv'
<1>1. CASE (\E ret \in BOOLEAN : OnDisconnected(ret)) \/ ShutdownInt
  <2>1. /\ state' \in {"retrying", "gone"} /\ ~app_finish'
        /\ state' = "retrying" => opts'.fPersistent
    BY <1>1 DEF OnDisconnected, ShutdownInt
  <2> QED BY <2>1 DEF CloseInv, OutputPolled, CloseOnItsWay, ChecksAwaited, WaitIsFinish,
          FinishEnds
<1>2. CASE OnOutgoingConnected
  <2>1. /\ state = "retrying" /\ state' = "connected" /\ writing' = TRUE
        /\ UNCHANGED <<opts, queue, app_finish>>
    BY <1>2 DEF OnOutgoingConnected, FreshBev, app
  <2>2. ~app_finish /\ opts.fPersistent
    BY <2>1 DEF CloseInv, FinishEnds
  <2>3. Undisturbed' => ~In(queue, "wait")
    BY <2>1, <2>2 DEF Undisturbed, Inv, EventsGone, OwnEvents
  <2> QED BY <2>1, <2>2, <2>3 DEF CloseInv, OutputPolled, CloseOnItsWay, ChecksAwaited,
          WaitIsFinish, FinishEnds
<1> QED BY <1>1, <1>2

\* Every step.
LEMMA CloseNext == Inv /\ CloseInv /\ [Next]_vars => CloseInv'
<1>1. SUFFICES ASSUME Inv, CloseInv, [Next]_vars PROVE CloseInv'
  OBVIOUS
<1>2. CASE Call \/ PollReadable \/ PollWritable \/ PingExpires
  BY <1>1, <1>2, QuietClose, WriteClose, WaitClose DEF Call
<1>3. CASE RunEvent
  <2>1. CASE RunDisconnect \/ close_on_finished_writecb \/ event_cb
    <3>1. state' = "closing"
      BY <2>1 DEF RunDisconnect, close_on_finished_writecb, event_cb, DisconnectInt
    <3> QED BY <3>1, CloseEnds
  <2>2. CASE DisconnectWhenFinishedInt \/ CheckWriteBufferInt
    BY <1>1, <2>2, WaitRunsClose, CheckRunsClose
  <2> QED BY <1>1, <1>3, <2>1, <2>2, ReadyClose, DeferredClose DEF RunEvent
<1>4. CASE (\E ret \in BOOLEAN : OnDisconnected(ret)) \/ OnOutgoingConnected \/ ShutdownInt
  BY <1>1, <1>4, HandlerClose
<1>5. CASE UNCHANGED vars
  <2>1. UNCHANGED <<opts, state, queue, writing, pending, writecb, app_finish>>
    BY <1>5 DEF vars, bev, app
  <2>2. Queued("event")' = Queued("event") /\ Queued("wait")' = Queued("wait")
    BY <2>1 DEF Queued
  <2>3. Undisturbed' = Undisturbed
    BY <2>1 DEF Undisturbed
  <2> QED BY <1>1, <2>1, <2>2, <2>3 DEF CloseInv, OutputPolled, CloseOnItsWay, ChecksAwaited,
          WaitIsFinish, FinishEnds
<1> QED BY <1>1, <1>2, <1>3, <1>4, <1>5 DEF Next

\* No connection begins with a close.
LEMMA CloseInit == Init => CloseInv
BY DEF Init, CloseInv, OutputPolled, CloseOnItsWay, ChecksAwaited, WaitIsFinish, FinishEnds, In

-----------------------------------------------------------------------------
(* The theorems. *)

\* The invariant of every reachable state.
THEOREM Invariance == Spec => []Inv
BY InitInv, NextInv, PTL DEF Spec

\* What a graceful close needs besides.
LEMMA CloseInvariance == Spec => []CloseInv
BY Invariance, CloseInit, CloseNext, PTL DEF Spec

\* What waits in the output is polled for until event_cb hears of an error: together with
\* NoLostWakeup, an armed write callback has what it needs to be called.
THEOREM SendingGoesOn == Spec => []OutputPolled
<1>1. CloseInv => OutputPolled
  BY DEF CloseInv
<1> QED BY <1>1, CloseInvariance, PTL

\* DisconnectWhenFinishedInt, CheckWriteBufferInt: if the application sends no more, nothing
\* that was queued or armed before takes the place of the callback that closes.
THEOREM CloseKept == Spec => []CloseOnItsWay
<1>1. CloseInv => CloseOnItsWay
  BY DEF CloseInv
<1> QED BY <1>1, CloseInvariance, PTL

\* CheckWriteBufferInt, write_cb, DisconnectWhenFinishedInt: whatever is called and
\* polled in between, an empty output is never waited for in vain, and the application
\* believes in a full buffer only while a callback is there to correct it.
THEOREM StateConsistent == Spec => []Consistent
<1>1. Inv /\ OutputPolled /\ CloseOnItsWay => Consistent
  BY DEF Inv, Consistent
<1> QED BY <1>1, Invariance, SendingGoesOn, CloseKept, PTL

\* DisconnectInt, without threads: none of the connection's own events outlives it, to
\* fire without a bufferevent or in the next connection of the object.
THEOREM EventsBelong == Spec => []NoStaleEvents
<1>1. Inv => NoStaleEvents
  BY DEF Inv, EventsGone, NoStaleEvents, NoStaleEventsAtAll, In, Queued
<1> QED BY <1>1, Invariance, PTL
=============================================================================
