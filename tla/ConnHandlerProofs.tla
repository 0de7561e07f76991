-------------------------- MODULE ConnHandlerProofs --------------------------
(***************************************************************************)
(* Proofs about ConnHandler, for every value of its constants: the tables, *)
(* the counters and the ids stay consistent, RequestOutgoingInt keeps to   *)
(* its budget, a request to resolve is there until it is answered, the     *)
(* handler implements HandlerContract, and the contract keeps an           *)
(* application within its limit.                                           *)
(***************************************************************************)
EXTENDS ConnHandler, FiniteSetTheorems, SequenceTheorems, TLAPS

-----------------------------------------------------------------------------
(* Maps with a finite domain. *)

\* The two updates the handlers make of a table, and what they do to its keys.
LEMMA PutProperties ==
    ASSUME NEW map, NEW key, NEW val
    PROVE  /\ DOMAIN Put(map, key, val) = DOMAIN map \cup {key}
           /\ Put(map, key, val)[key] = val
           /\ \A k \in DOMAIN map \ {key} : Put(map, key, val)[k] = map[k]
BY DEF Put

\* What is dropped is no longer a key; the rest is untouched.
LEMMA DropProperties ==
    ASSUME NEW map, NEW key
    PROVE  /\ DOMAIN Drop(map, key) = DOMAIN map \ {key}
           /\ \A k \in DOMAIN map \ {key} : Drop(map, key)[k] = map[k]
BY DEF Drop

\* The empty table of Init and ShutdownInt holds no connection.
LEMMA EmptyProperties ==
    /\ DOMAIN Empty = {}
    /\ OutgoingIn(Empty) = {}
    /\ IncomingIn(Empty) = {}
BY DEF Empty, OutgoingIn, IncomingIn

\* A connection entered under a new key joins the outgoing or the incoming ones.
LEMMA PutKinds ==
    ASSUME NEW map, NEW key, NEW val, key \notin DOMAIN map
    PROVE  /\ IsOutgoing(val) =>
                  /\ OutgoingIn(Put(map, key, val)) = OutgoingIn(map) \cup {key}
                  /\ IncomingIn(Put(map, key, val)) = IncomingIn(map)
           /\ ~IsOutgoing(val) =>
                  /\ OutgoingIn(Put(map, key, val)) = OutgoingIn(map)
                  /\ IncomingIn(Put(map, key, val)) = IncomingIn(map) \cup {key}
<1>1. SUFFICES ASSUME NEW new, new = Put(map, key, val)
               PROVE  /\ IsOutgoing(val) =>
                             /\ OutgoingIn(new) = OutgoingIn(map) \cup {key}
                             /\ IncomingIn(new) = IncomingIn(map)
                      /\ ~IsOutgoing(val) =>
                             /\ OutgoingIn(new) = OutgoingIn(map)
                             /\ IncomingIn(new) = IncomingIn(map) \cup {key}
  OBVIOUS
<1>2. /\ DOMAIN new = DOMAIN map \cup {key}
      /\ new[key] = val
      /\ \A k \in DOMAIN map : new[k] = map[k]
  BY <1>1 DEF Put
<1>3. CASE IsOutgoing(val)
  <2>1. OutgoingIn(new) = OutgoingIn(map) \cup {key}
    BY <1>2, <1>3 DEF OutgoingIn, IsOutgoing
  <2>2. IncomingIn(new) = IncomingIn(map)
    BY <1>2, <1>3 DEF IncomingIn, IsOutgoing
  <2>. QED
    BY <1>3, <2>1, <2>2
<1>4. CASE ~IsOutgoing(val)
  <2>1. OutgoingIn(new) = OutgoingIn(map)
    BY <1>2, <1>4 DEF OutgoingIn, IsOutgoing
  <2>2. IncomingIn(new) = IncomingIn(map) \cup {key}
    BY <1>2, <1>4 DEF IncomingIn, IsOutgoing
  <2>. QED
    BY <1>4, <2>1, <2>2
<1>. QED
  BY <1>3, <1>4

\* A connection that is dropped leaves the outgoing and the incoming ones.
LEMMA DropKinds ==
    ASSUME NEW map, NEW key
    PROVE  /\ OutgoingIn(Drop(map, key)) = OutgoingIn(map) \ {key}
           /\ IncomingIn(Drop(map, key)) = IncomingIn(map) \ {key}
<1>1. SUFFICES ASSUME NEW new, new = Drop(map, key)
               PROVE  /\ OutgoingIn(new) = OutgoingIn(map) \ {key}
                      /\ IncomingIn(new) = IncomingIn(map) \ {key}
  OBVIOUS
<1>2. DOMAIN new = DOMAIN map \ {key} /\ \A k \in DOMAIN map \ {key} : new[k] = map[k]
  BY <1>1, DropProperties
<1>. QED
  BY <1>2 DEF OutgoingIn, IncomingIn, IsOutgoing

\* Every set of ids is finite.
LEMMA IdsFinite ==
    ASSUME NEW S, S \subseteq ConnIDs
    PROVE  IsFiniteSet(S)
<1>1. IsFiniteSet(ConnIDs)
  BY FS_Interval, ConstantsAssumption DEF ConnIDs
<1>. QED
  BY <1>1, FS_Subset

\* Sizes of sets of ids are numbers, and 0 only for the empty set.
LEMMA SizeOfSet ==
    ASSUME NEW S, S \subseteq ConnIDs
    PROVE  /\ Cardinality(S) \in Nat
           /\ Cardinality(S) = 0 <=> S = {}
BY IdsFinite, FS_CardinalityType, FS_EmptySet

\* A new id makes a set of ids one larger.
LEMMA SizeAfterAdd ==
    ASSUME NEW S, S \subseteq ConnIDs, NEW id, id \notin S
    PROVE  Cardinality(S \cup {id}) = Cardinality(S) + 1
BY IdsFinite, FS_AddElement

\* A member that leaves makes it one smaller.
LEMMA SizeAfterRemove ==
    ASSUME NEW S, S \subseteq ConnIDs, NEW id \in S
    PROVE  Cardinality(S \ {id}) = Cardinality(S) - 1
BY IdsFinite, FS_RemoveElement

-----------------------------------------------------------------------------
(* The inductive invariant. *)

\* Ids are handed out in order: everything that has one is below the next.
IdsBelow ==
    \A id \in DOMAIN m_connecting \cup app_seen \cup DOMAIN m_dns_resolves \cup m_binds :
        id < m_connection_index

\* The candidates under way still find an id each.
TodoRoom == m_connection_index + Len(todo) <= MaxConnID

Inv ==
    /\ TablesOK /\ FieldsOK /\ AppOK /\ FlagsOK
    /\ IdsUnique /\ IdsBelow /\ TodoRoom
    /\ CountsMatch /\ OutgoingBudget /\ CleanStop /\ AppViewMatches

\* A handler that was never started is consistent.
LEMMA InitInv == Init => Inv
<1>. SUFFICES ASSUME Init PROVE Inv
  OBVIOUS
<1>1. Cardinality({}) = 0
  BY FS_EmptySet
<1>2. TablesOK
  <2>1. DOMAIN m_connected = {} /\ DOMAIN m_connecting = {} /\ DOMAIN m_dns_resolves = {}
    BY EmptyProperties DEF Init
  <2>. QED
    BY <2>1 DEF Init, TablesOK
<1>3. FieldsOK
  <2>1. <<>> \in Seq(Candidates)
    BY EmptySeq
  <2>. QED
    BY <2>1, ConstantsAssumption DEF Init, FieldsOK, ConnIDs
<1>4. AppOK
  BY DEF Init, AppOK
<1>5. FlagsOK
  BY DEF Init, FlagsOK
<1>6. IdsUnique /\ IdsBelow /\ TodoRoom
  BY ConstantsAssumption, EmptyProperties DEF Init, IdsUnique, IdsBelow, TodoRoom
<1>7. CountsMatch /\ OutgoingBudget /\ CleanStop /\ AppViewMatches
  BY <1>1, EmptyProperties DEF Init, CountsMatch, OutgoingBudget, CleanStop, AppViewMatches
<1>. QED
  BY <1>2, <1>3, <1>4, <1>5, <1>6, <1>7 DEF Inv

-----------------------------------------------------------------------------
(* One lemma per group of actions: each preserves the invariant. *)

\* Start finds everything empty (CleanStop), so that any limit is kept.
LEMMA StartInv ==
    ASSUME Inv, NEW limit \in Limits, Start(limit)
    PROVE  Inv'
<1>1. Cardinality({}) = 0
  BY FS_EmptySet
<1>2. TablesOK' /\ AppOK'
  BY DEF Inv, Start, tables, TablesOK, AppOK
<1>3. FieldsOK'
  BY ConstantsAssumption DEF Inv, Start, counts, FieldsOK
<1>4. FlagsOK'
  BY DEF Start, FlagsOK
<1>5. IdsUnique' /\ IdsBelow' /\ TodoRoom'
  BY DEF Inv, Start, tables, IdsUnique, IdsBelow, TodoRoom
<1>6. CountsMatch'
  BY DEF Inv, Start, tables, counts, CountsMatch
<1>7. /\ DOMAIN m_connecting = {} /\ todo = <<>> /\ m_outgoing_conn_count = 0
      /\ limit \in Nat
  BY ConstantsAssumption DEF Inv, Start, CleanStop, AppViewMatches
<1>8. OutgoingBudget'
  BY <1>1, <1>7 DEF Start, tables, counts, OutgoingBudget
<1>9. CleanStop' /\ AppViewMatches'
  BY DEF Inv, Start, tables, counts, CleanStop, AppViewMatches
<1>. QED
  BY <1>2, <1>3, <1>4, <1>5, <1>6, <1>8, <1>9 DEF Inv

\* Shutdown() only activates m_shutdown_event.
LEMMA ShutdownInv ==
    ASSUME Inv, Shutdown
    PROVE  Inv'
<1>1. TablesOK' /\ FieldsOK' /\ AppOK' /\ FlagsOK'
  BY DEF Inv, Shutdown, tables, counts, session, app, TablesOK, FieldsOK, AppOK, FlagsOK
<1>2. IdsUnique' /\ IdsBelow' /\ TodoRoom' /\ CountsMatch' /\ OutgoingBudget'
  BY DEF Inv, Shutdown, tables, counts, session, app, IdsUnique, IdsBelow, TodoRoom,
         CountsMatch, OutgoingBudget
<1>3. CleanStop' /\ AppViewMatches'
  BY DEF Inv, Shutdown, tables, counts, session, app, CleanStop, AppViewMatches
<1>. QED
  BY <1>1, <1>2, <1>3 DEF Inv

\* The pump frees the base and reports OnShutdown.
LEMMA PumpEventsInv ==
    ASSUME Inv, PumpEvents
    PROVE  Inv'
<1>1. TablesOK' /\ FieldsOK' /\ AppOK'
  BY DEF Inv, PumpEvents, tables, counts, events, TablesOK, FieldsOK, AppOK
<1>2. FlagsOK'
  BY DEF Inv, PumpEvents, FlagsOK
<1>3. IdsUnique' /\ IdsBelow' /\ TodoRoom' /\ CountsMatch' /\ OutgoingBudget'
  BY DEF Inv, PumpEvents, tables, counts, events, IdsUnique, IdsBelow, TodoRoom,
         CountsMatch, OutgoingBudget
<1>4. CleanStop' /\ AppViewMatches'
  BY DEF Inv, PumpEvents, tables, counts, events, CleanStop, AppViewMatches
<1>. QED
  BY <1>1, <1>2, <1>3, <1>4 DEF Inv

\* ShutdownInt empties the tables and takes from the counters exactly what they held.
LEMMA ShutdownIntInv ==
    ASSUME Inv, ShutdownInt
    PROVE  Inv'
<1>1. Cardinality({}) = 0
  BY FS_EmptySet
<1>2. /\ m_outgoing_conn_count' = 0
      /\ m_incoming_conn_count' = 0
  BY SizeOfSet DEF Inv, ShutdownInt, CountsMatch, TablesOK, FieldsOK, AppOK
<1>3. OutgoingIn(m_connecting) = DOMAIN m_connecting
  BY DEF Inv, TablesOK, FieldsOK, AppOK, OutgoingIn, IsOutgoing
<1>4. app_out' = {} /\ app_in' = {} /\ app_waiting' = 0
  BY <1>3, SizeOfSet DEF Inv, ShutdownInt, AppViewMatches, TablesOK, FieldsOK, AppOK,
         OutgoingIn, IncomingIn
<1>5. TablesOK' /\ FieldsOK' /\ AppOK'
  BY <1>2, <1>4, EmptyProperties DEF Inv, ShutdownInt, TablesOK, FieldsOK, AppOK
<1>6. FlagsOK'
  BY DEF Inv, ShutdownInt, FlagsOK
<1>7. IdsUnique' /\ IdsBelow' /\ TodoRoom'
  BY EmptyProperties DEF Inv, ShutdownInt, IdsUnique, IdsBelow, TodoRoom
<1>8. CountsMatch'
  BY <1>1, <1>2, EmptyProperties DEF ShutdownInt, CountsMatch
<1>9. OutgoingBudget'
  BY <1>1, <1>2, EmptyProperties DEF Inv, TablesOK, FieldsOK, AppOK, ShutdownInt, OutgoingBudget
<1>10. CleanStop' /\ AppViewMatches'
  BY <1>1, <1>2, <1>4, EmptyProperties DEF Inv, ShutdownInt, CleanStop, AppViewMatches
<1>. QED
  BY <1>5, <1>6, <1>7, <1>8, <1>9, <1>10 DEF Inv

-----------------------------------------------------------------------------
(* Outgoing attempts. *)

\* A table of attempts, such as m_connecting always is.
Attempts(map) ==
    /\ DOMAIN map \subseteq ConnIDs
    /\ \A id \in DOMAIN map :
           map[id] \in Connections /\ IsOutgoing(map[id]) /\ map[id].pending # "disconnect"

\* An outgoing connection without m_disconnect_func may enter the table.
LEMMA PutAttempt ==
    ASSUME NEW map, Attempts(map), NEW id \in ConnIDs, NEW conn \in Connections,
           IsOutgoing(conn), conn.pending # "disconnect"
    PROVE  Attempts(Put(map, id, conn))
BY PutProperties DEF Attempts, Put

\* Any attempt may leave it.
LEMMA DropAttempt ==
    ASSUME NEW map, Attempts(map), NEW id
    PROVE  Attempts(Drop(map, id))
BY DEF Attempts, Drop

\* A connection object that is put back to wait for nRetryInterval.
LEMMA RequeueAttempt ==
    ASSUME NEW map, Attempts(map), NEW id \in ConnIDs, NEW conn \in Connections,
           IsOutgoing(conn)
    PROVE  /\ Attempts(Requeue(map, id, conn))
           /\ DOMAIN Requeue(map, id, conn) = DOMAIN map \cup {id}
<1>. DEFINE new == [conn EXCEPT !.pending = "reconnect"]
<1>1. new \in Connections /\ IsOutgoing(new) /\ new.pending # "disconnect"
  BY DEF Connections, IsOutgoing
<1>. QED
  BY <1>1, PutAttempt, PutProperties DEF Requeue

\* A failed attempt leaves the table of attempts, or is replaced in it by one
\* under the next id; the application is owed an outcome for each that is left.
LEMMA FailAttemptEffect ==
    ASSUME NEW connecting, Attempts(connecting), NEW id \in DOMAIN connecting,
           NEW index \in ConnIDs, index \notin DOMAIN connecting,
           NEW waiting, waiting = Cardinality(DOMAIN connecting),
           NEW retry \in BOOLEAN, NEW ret \in BOOLEAN, ret => index < MaxConnID,
           FailAttempt(connecting, index, waiting, id, retry, ret)
    PROVE  /\ Attempts(m_connecting')
           /\ app_waiting' = Cardinality(DOMAIN m_connecting')
           /\ Cardinality(DOMAIN m_connecting') <= Cardinality(DOMAIN connecting)
           /\ \/ /\ DOMAIN m_connecting' = DOMAIN connecting \ {id}
                 /\ m_connection_index' = index
              \/ /\ DOMAIN m_connecting' = (DOMAIN connecting \ {id}) \cup {index}
                 /\ m_connection_index' = index + 1
                 /\ index < MaxConnID
           /\ m_request_event' \in {m_request_event, Activated(m_request_event)}
<1>. DEFINE rest == Drop(connecting, id)
<1>1. DOMAIN rest = DOMAIN connecting \ {id} /\ Attempts(rest)
  BY DropProperties, DropAttempt
<1>2. /\ DOMAIN rest \subseteq ConnIDs
      /\ Cardinality(DOMAIN connecting) \in Nat
      /\ Cardinality(DOMAIN rest) = Cardinality(DOMAIN connecting) - 1
  BY <1>1, SizeAfterRemove, SizeOfSet DEF Attempts
<1>3. CASE retry /\ ~m_shutdown /\ ret
  <2>1. /\ m_connecting' = Requeue(rest, index, connecting[id])
        /\ m_connection_index' = NextIndex(index)
        /\ app_waiting' = waiting
        /\ m_request_event' = m_request_event
    BY <1>3 DEF FailAttempt
  <2>2. connecting[id] \in Connections /\ IsOutgoing(connecting[id])
    BY DEF Attempts
  <2>3. /\ Attempts(m_connecting')
        /\ DOMAIN m_connecting' = DOMAIN rest \cup {index}
    BY <1>1, <2>1, <2>2, RequeueAttempt
  <2>4. Cardinality(DOMAIN m_connecting') = Cardinality(DOMAIN rest) + 1
    BY <1>1, <1>2, <2>3, SizeAfterAdd
  <2>5. NextIndex(index) = index + 1 /\ index < MaxConnID
    BY <1>3 DEF NextIndex, ConnIDs
  <2>. QED
    BY <1>1, <1>2, <2>1, <2>3, <2>4, <2>5
<1>4. CASE ~(retry /\ ~m_shutdown /\ ret)
  <2>1. /\ m_connecting' = rest
        /\ m_connection_index' = index
        /\ app_waiting' = waiting - 1
        /\ m_request_event' = Activated(m_request_event)
    BY <1>4 DEF FailAttempt
  <2>. QED
    BY <1>1, <1>2, <2>1
<1>. QED
  BY <1>3, <1>4

\* What the invariant says when RequestOutgoingInt has candidates left.
LEMMA TodoFacts ==
    ASSUME Inv, todo # <<>>
    PROVE  /\ Tail(todo) \in Seq(Candidates)
           /\ Len(todo) \in Nat /\ Len(Tail(todo)) = Len(todo) - 1
           /\ Head(todo) \in Candidates
           /\ m_connection_index \in Nat
           /\ m_connection_index + Len(Tail(todo)) < MaxConnID
           /\ m_connection_index < MaxConnID
           /\ NextIndex(m_connection_index) = m_connection_index + 1
           /\ m_event_base
<1>1. todo \in Seq(Candidates)
  BY DEF Inv, FieldsOK
<1>2. /\ Tail(todo) \in Seq(Candidates)
      /\ Len(todo) \in Nat /\ Len(Tail(todo)) \in Nat /\ Len(Tail(todo)) = Len(todo) - 1
      /\ Head(todo) \in Candidates
  BY <1>1, HeadTailProperties, LenProperties
<1>3. /\ m_connection_index \in Nat
      /\ m_connection_index + Len(todo) <= MaxConnID
  BY DEF Inv, TodoRoom, FieldsOK, ConnIDs
<1>4. m_event_base
  BY DEF Inv, CleanStop
<1>. QED
  BY <1>2, <1>3, <1>4, ConstantsAssumption DEF NextIndex

\* The next id is nowhere in use.
LEMMA NextIdFresh ==
    ASSUME Inv
    PROVE  /\ m_connection_index \in ConnIDs
           /\ m_connection_index \notin DOMAIN m_connecting
           /\ m_connection_index \notin DOMAIN m_connected
           /\ m_connection_index \notin DOMAIN m_dns_resolves
           /\ m_connection_index \notin m_binds
           /\ m_connection_index \notin app_seen
BY DEF Inv, FieldsOK, ConnIDs, IdsBelow, IdsUnique

\* Whatever takes the next id is below the one after it.
Holders == DOMAIN m_connecting \cup app_seen \cup DOMAIN m_dns_resolves \cup m_binds

\* An id that is drawn is below the next one, like all the others.
LEMMA IdsBelowStep ==
    ASSUME Inv, m_connection_index' = m_connection_index + 1,
           Holders' \subseteq Holders \cup {m_connection_index}
    PROVE  IdsBelow'
<1>1. /\ m_connection_index \in Nat
      /\ \A id \in Holders : id \in Nat /\ id < m_connection_index
  <2>1. Holders \subseteq ConnIDs
    BY DEF Inv, Holders, TablesOK, AppOK
  <2>2. \A id \in Holders : id < m_connection_index
    BY DEF Inv, IdsBelow, Holders
  <2>. QED
    BY <2>1, <2>2 DEF Inv, FieldsOK, ConnIDs
<1>2. \A id \in Holders \cup {m_connection_index} : id < m_connection_index + 1
  BY <1>1
<1>3. \A id \in Holders' : id < m_connection_index'
  BY <1>2
<1>. QED
  BY <1>3 DEF IdsBelow, Holders

\* A candidate that is not set is skipped.
LEMMA SkipUnsetInv ==
    ASSUME Inv, SkipUnset
    PROVE  Inv'
<1>1. /\ Tail(todo) \in Seq(Candidates)
      /\ Len(todo) \in Nat /\ Len(Tail(todo)) = Len(todo) - 1
      /\ m_connection_index + Len(Tail(todo)) < MaxConnID
      /\ m_event_base
  BY TodoFacts DEF SkipUnset
<1>2. TablesOK' /\ AppOK' /\ FlagsOK' /\ IdsUnique' /\ IdsBelow' /\ CountsMatch'
  BY DEF Inv, SkipUnset, tables, counts, session, app, TablesOK, AppOK, FlagsOK, IdsUnique,
         IdsBelow, CountsMatch
<1>3. FieldsOK' /\ TodoRoom'
  BY <1>1, ConstantsAssumption DEF Inv, SkipUnset, counts, events, session, FieldsOK,
     TodoRoom, ConnIDs
<1>4. OutgoingBudget'
  <2>1. Cardinality(DOMAIN m_connecting) \in Nat
    BY SizeOfSet DEF Inv, TablesOK
  <2>. QED
    BY <1>1, <2>1 DEF Inv, SkipUnset, tables, counts, session, OutgoingBudget, FieldsOK
<1>5. CleanStop' /\ AppViewMatches'
  BY <1>1 DEF Inv, SkipUnset, tables, counts, session, events, app, CleanStop, AppViewMatches
<1>. QED
  BY <1>2, <1>3, <1>4, <1>5 DEF Inv

\* A candidate becomes an attempt, fails at once, or fails and waits under a second id.
LEMMA StartConnectionInv ==
    ASSUME Inv, NEW sync \in BOOLEAN, NEW retry \in BOOLEAN, NEW ret \in BOOLEAN,
           StartConnection(sync, retry, ret)
    PROVE  Inv'
<1>. DEFINE id == m_connection_index
            conn == [kind |-> Head(todo).kind, persistent |-> Head(todo).persistent,
                     pending |-> "none"]
            connecting == Put(m_connecting, id, conn)
<1>1. /\ Tail(todo) \in Seq(Candidates)
      /\ Len(todo) \in Nat /\ Len(Tail(todo)) \in Nat /\ Len(Tail(todo)) = Len(todo) - 1
      /\ Head(todo) \in Candidates
      /\ id \in Nat /\ id + Len(Tail(todo)) < MaxConnID
      /\ NextIndex(id) = id + 1 /\ id + 1 \in ConnIDs
      /\ m_event_base
  BY TodoFacts, ConstantsAssumption DEF StartConnection, ConnIDs
<1>2. /\ conn \in Connections /\ IsOutgoing(conn) /\ conn.pending # "disconnect"
  BY <1>1, ConstantsAssumption DEF StartConnection, Connections, IsOutgoing
<1>3. Attempts(m_connecting)
  BY DEF Inv, TablesOK, Attempts
<1>4. /\ Attempts(connecting)
      /\ DOMAIN connecting = DOMAIN m_connecting \cup {id}
  BY <1>2, <1>3, NextIdFresh, PutAttempt, PutProperties
<1>5. /\ Cardinality(DOMAIN connecting) = Cardinality(DOMAIN m_connecting) + 1
      /\ Cardinality(DOMAIN m_connecting) \in Nat
  BY <1>3, <1>4, NextIdFresh, SizeAfterAdd, SizeOfSet DEF Attempts
<1>6. /\ todo' = Tail(todo)
      /\ UNCHANGED <<m_connected, m_dns_resolves, m_binds, counts, m_shutdown_event, session,
                     app_running, app_out, app_in, app_seen, app_resolving, app_dropped>>
  BY DEF StartConnection
<1>. HIDE DEF conn, connecting
<1>7. \* The table after the attempt was made, or failed at once.
      /\ Attempts(m_connecting')
      /\ app_waiting' = Cardinality(DOMAIN m_connecting')
      /\ Cardinality(DOMAIN m_connecting') <= Cardinality(DOMAIN m_connecting) + 1
      /\ DOMAIN m_connecting' \subseteq DOMAIN m_connecting \cup {id, id + 1}
      /\ id + 1 \in DOMAIN m_connecting' => m_connection_index' = id + 2
      /\ m_connection_index' \in {id + 1, id + 2}
      /\ m_connection_index' + Len(Tail(todo)) <= MaxConnID
      /\ m_request_event' \in {m_request_event, Activated(m_request_event)}
  <2>1. app_waiting + 1 = Cardinality(DOMAIN connecting)
    BY <1>5 DEF Inv, AppViewMatches
  <2>2. id + 1 \notin DOMAIN connecting
    BY <1>1, <1>4 DEF Inv, IdsBelow
  <2>3. CASE sync
    <3>1. FailAttempt(connecting, NextIndex(id), app_waiting + 1, id, retry, ret)
      BY <2>3 DEF StartConnection, conn, connecting
    <3>2. ret => id + 1 < MaxConnID /\ id + 2 + Len(Tail(todo)) <= MaxConnID
      <4>1. ret => Room(Len(todo) + 1)
        BY <2>3 DEF StartConnection
      <4>. QED
        BY <1>1, <4>1, ConstantsAssumption DEF Room
    <3>3. /\ id \in DOMAIN connecting
          /\ NextIndex(id) \in ConnIDs /\ NextIndex(id) \notin DOMAIN connecting
          /\ ret => NextIndex(id) < MaxConnID
      BY <1>1, <1>4, <2>2, <3>2
    <3>4. /\ Attempts(m_connecting')
          /\ app_waiting' = Cardinality(DOMAIN m_connecting')
          /\ Cardinality(DOMAIN m_connecting') <= Cardinality(DOMAIN connecting)
          /\ \/ /\ DOMAIN m_connecting' = DOMAIN connecting \ {id}
                /\ m_connection_index' = NextIndex(id)
             \/ /\ DOMAIN m_connecting' = (DOMAIN connecting \ {id}) \cup {NextIndex(id)}
                /\ m_connection_index' = NextIndex(id) + 1
                /\ NextIndex(id) < MaxConnID
          /\ m_request_event' \in {m_request_event, Activated(m_request_event)}
      BY <1>4, <2>1, <3>1, <3>3, FailAttemptEffect, Zenon
    <3>5. \/ m_connection_index' = id + 1
          \/ m_connection_index' = id + 2 /\ id + 2 + Len(Tail(todo)) <= MaxConnID
      <4>1. CASE ret
        BY <1>1, <3>2, <3>4, <4>1
      <4>2. CASE ~ret
        BY <1>1, <3>1, <4>2 DEF FailAttempt
      <4>. QED
        BY <4>1, <4>2
    <3>6. m_connection_index' + Len(Tail(todo)) <= MaxConnID
      BY <1>1, <3>5, ConstantsAssumption
    <3>7. /\ DOMAIN m_connecting' \subseteq DOMAIN m_connecting \cup {id, id + 1}
          /\ id + 1 \in DOMAIN m_connecting' => m_connection_index' = id + 2
      BY <1>1, <1>4, <2>2, <3>4
    <3>. QED
      BY <1>1, <1>5, <3>4, <3>5, <3>6, <3>7
  <2>4. CASE ~sync
    <3>1. /\ m_connecting' = connecting
          /\ m_connection_index' = id + 1
          /\ app_waiting' = app_waiting + 1
          /\ m_request_event' = m_request_event
      BY <1>1, <2>4 DEF StartConnection, conn, connecting
    <3>2. /\ DOMAIN m_connecting' \subseteq DOMAIN m_connecting \cup {id, id + 1}
          /\ id + 1 \notin DOMAIN m_connecting'
      BY <1>4, <2>2, <3>1
    <3>3. m_connection_index' + Len(Tail(todo)) <= MaxConnID
      BY <1>1, <3>1, ConstantsAssumption
    <3>4. app_waiting' = Cardinality(DOMAIN m_connecting') /\ Attempts(m_connecting')
      BY <1>4, <2>1, <3>1
    <3>5. Cardinality(DOMAIN m_connecting') <= Cardinality(DOMAIN m_connecting) + 1
      BY <1>5, <3>1
    <3>. QED
      BY <3>1, <3>2, <3>3, <3>4, <3>5
  <2>. QED
    BY <2>3, <2>4
<1>8. TablesOK'
  BY <1>6, <1>7 DEF Inv, TablesOK, Attempts
<1>9. FieldsOK' /\ TodoRoom'
  BY <1>1, <1>6, <1>7, ConstantsAssumption
     DEF Inv, FieldsOK, TodoRoom, ConnIDs, Activated, counts, session
<1>10. AppOK'
  <2>1. Cardinality(DOMAIN m_connecting') \in Nat
    BY <1>7, SizeOfSet DEF Attempts
  <2>. QED
    BY <1>6, <1>7, <2>1 DEF Inv, AppOK
<1>11. FlagsOK'
  BY <1>6 DEF Inv, FlagsOK, session
<1>12. IdsBelow'
  <2>1. m_connection_index' \in Nat /\ m_connection_index < m_connection_index'
    BY <1>1, <1>7
  <2>2. \A k \in DOMAIN m_connecting' : k < m_connection_index'
    BY <1>1, <1>3, <1>7, <2>1 DEF Inv, IdsBelow, Attempts, ConnIDs
  <2>3. \A k \in app_seen \cup DOMAIN m_dns_resolves \cup m_binds : k < m_connection_index'
    <3>1. app_seen \cup DOMAIN m_dns_resolves \cup m_binds \subseteq ConnIDs
      BY DEF Inv, AppOK, TablesOK
    <3>2. \A k \in app_seen \cup DOMAIN m_dns_resolves \cup m_binds : k < m_connection_index
      BY DEF Inv, IdsBelow
    <3>. QED
      BY <1>1, <2>1, <3>1, <3>2 DEF ConnIDs
  <2>. QED
    BY <1>6, <2>2, <2>3 DEF IdsBelow
<1>13. IdsUnique'
  <2>1. id + 1 \notin app_seen \cup DOMAIN m_dns_resolves \cup m_binds
    BY <1>1 DEF Inv, IdsBelow
  <2>. QED
    BY <1>6, <1>7, <2>1, NextIdFresh DEF Inv, IdsUnique
<1>14. CountsMatch'
  BY <1>6 DEF Inv, CountsMatch, counts
<1>15. OutgoingBudget'
  <2>1. Cardinality(DOMAIN m_connecting') \in Nat
    BY <1>7, SizeOfSet DEF Attempts
  <2>. QED
    BY <1>1, <1>5, <1>6, <1>7, <2>1 DEF Inv, OutgoingBudget, FieldsOK, counts, session
<1>16. CleanStop' /\ AppViewMatches'
  <2>1. m_event_base' /\ ~m_shutdown'
    BY <1>1, <1>6 DEF Inv, CleanStop, StartConnection, session
  <2>. QED
    BY <1>6, <1>7, <2>1 DEF Inv, CleanStop, AppViewMatches, session
<1>. QED
  BY <1>8, <1>9, <1>10, <1>11, <1>12, <1>13, <1>14, <1>15, <1>16 DEF Inv

\* m_reconnect_func fires: only the armed event changes.
LEMMA ReconnectInv ==
    ASSUME Inv, NEW id \in ConnIDs, Reconnect(id)
    PROVE  Inv'
<1>1. /\ m_connecting' = [m_connecting EXCEPT ![id].pending = "none"]
      /\ id \in DOMAIN m_connecting
      /\ UNCHANGED <<m_connected, m_dns_resolves, m_binds, m_connection_index, counts, events,
                     session, todo, app>>
  BY DEF Reconnect
<1>2. DOMAIN m_connecting' = DOMAIN m_connecting
  BY <1>1
<1>3. TablesOK'
  BY <1>1 DEF Inv, TablesOK, Connections, IsOutgoing
<1>4. FieldsOK' /\ AppOK' /\ FlagsOK' /\ IdsUnique' /\ IdsBelow' /\ TodoRoom'
  BY <1>1, <1>2 DEF Inv, counts, events, session, app, FieldsOK, AppOK, FlagsOK,
                    IdsUnique, IdsBelow, TodoRoom
<1>5. CountsMatch' /\ OutgoingBudget' /\ CleanStop' /\ AppViewMatches'
  BY <1>1, <1>2 DEF Inv, counts, events, session, app, CountsMatch, OutgoingBudget,
                    CleanStop, AppViewMatches
<1>. QED
  BY <1>3, <1>4, <1>5 DEF Inv

\* A failed attempt is gone, or waits under the next id.
LEMMA ConnectionFailureInv ==
    ASSUME Inv, NEW id \in ConnIDs, NEW retry \in BOOLEAN, NEW ret \in BOOLEAN,
           ConnectionFailure(id, retry, ret)
    PROVE  Inv'
<1>. DEFINE index == m_connection_index
<1>1. /\ id \in DOMAIN m_connecting
      /\ FailAttempt(m_connecting, index, app_waiting, id, retry, ret)
      /\ m_event_base /\ ~m_shutdown /\ todo = <<>>
      /\ UNCHANGED <<m_connected, m_dns_resolves, m_binds, counts, m_shutdown_event, session,
                     todo, app_running, app_out, app_in, app_seen, app_resolving, app_dropped>>
  BY DEF ConnectionFailure, Dispatch
<1>2. ret => index < MaxConnID
  <2>1. ret => Room(1)
    BY DEF ConnectionFailure
  <2>. QED
    BY <2>1, ConstantsAssumption DEF Inv, FieldsOK, ConnIDs, Room
<1>3. /\ Attempts(m_connecting)
      /\ index \in ConnIDs /\ index \notin DOMAIN m_connecting
      /\ app_waiting = Cardinality(DOMAIN m_connecting)
  BY NextIdFresh DEF Inv, TablesOK, Attempts, AppViewMatches
<1>4. /\ Attempts(m_connecting')
      /\ app_waiting' = Cardinality(DOMAIN m_connecting')
      /\ Cardinality(DOMAIN m_connecting') <= Cardinality(DOMAIN m_connecting)
      /\ \/ /\ DOMAIN m_connecting' = DOMAIN m_connecting \ {id}
            /\ m_connection_index' = index
         \/ /\ DOMAIN m_connecting' = (DOMAIN m_connecting \ {id}) \cup {index}
            /\ m_connection_index' = index + 1
            /\ index < MaxConnID
      /\ m_request_event' \in {m_request_event, Activated(m_request_event)}
  BY <1>1, <1>2, <1>3, FailAttemptEffect, Zenon
<1>5. /\ Cardinality(DOMAIN m_connecting) \in Nat
      /\ Cardinality(DOMAIN m_connecting') \in Nat
  BY <1>3, <1>4, SizeOfSet DEF Attempts
<1>6. TablesOK'
  BY <1>1, <1>4 DEF Inv, TablesOK, Attempts
<1>7. FieldsOK'
  BY <1>1, <1>4, ConstantsAssumption DEF Inv, FieldsOK, ConnIDs, Activated, counts, session
<1>8. AppOK'
  BY <1>1, <1>4, <1>5 DEF Inv, AppOK
<1>9. FlagsOK'
  BY <1>1 DEF Inv, FlagsOK, session
<1>10. IdsUnique'
  BY <1>1, <1>4, NextIdFresh DEF Inv, IdsUnique
<1>11. IdsBelow'
  <2>1. m_connection_index' \in Nat /\ index \in Nat
        /\ (m_connection_index' = index \/ m_connection_index' = index + 1)
    BY <1>4 DEF Inv, FieldsOK, ConnIDs
  <2>2. /\ app_seen \cup DOMAIN m_dns_resolves \cup m_binds \cup DOMAIN m_connecting
               \subseteq ConnIDs
        /\ \A k \in app_seen \cup DOMAIN m_dns_resolves \cup m_binds \cup DOMAIN m_connecting :
               k < index
    BY DEF Inv, AppOK, TablesOK, IdsBelow
  <2>3. \A k \in app_seen \cup DOMAIN m_dns_resolves \cup m_binds \cup DOMAIN m_connecting' :
               k < m_connection_index'
    BY <1>4, <2>1, <2>2 DEF ConnIDs
  <2>. QED
    BY <1>1, <2>3 DEF IdsBelow
<1>12. TodoRoom'
  <2>1. Len(todo) = 0
    BY <1>1
  <2>2. index \in Nat /\ index <= MaxConnID
    BY <1>3, ConstantsAssumption DEF ConnIDs
  <2>3. m_connection_index' + Len(todo) <= MaxConnID
    BY <1>4, <2>1, <2>2, ConstantsAssumption
  <2>. QED
    BY <1>1, <2>3 DEF TodoRoom
<1>13. CountsMatch'
  BY <1>1 DEF Inv, CountsMatch, counts
<1>14. OutgoingBudget'
  <2>1. Len(todo) = 0
    BY <1>1
  <2>. QED
    BY <1>1, <1>4, <1>5, <2>1 DEF Inv, OutgoingBudget, FieldsOK, counts, session
<1>15. CleanStop' /\ AppViewMatches'
  BY <1>1, <1>4 DEF Inv, CleanStop, AppViewMatches, session
<1>. QED
  BY <1>6, <1>7, <1>8, <1>9, <1>10, <1>11, <1>12, <1>13, <1>14, <1>15 DEF Inv

\* The handler takes no more candidates than there are slots left: the difference it
\* converts to size_t is not negative.
LEMMA RequestOutgoingIntInv ==
    ASSUME Inv, NEW offer \in Offers, RequestOutgoingInt(offer)
    PROVE  Inv'
<1>. DEFINE slots == m_outgoing_conn_limit - m_outgoing_conn_count
                         - Cardinality(DOMAIN m_connecting)
<1>1. /\ m_event_base /\ ~m_shutdown /\ todo = <<>>
      /\ m_request_event' = "timer"
      /\ m_connection_index + Len(offer) <= MaxConnID
      /\ UNCHANGED <<tables, m_connection_index, counts, session, m_shutdown_event, app>>
  BY DEF RequestOutgoingInt, Dispatch, Room
<1>2. /\ offer \in Seq(Candidates)
      /\ Len(offer) \in Nat /\ DOMAIN offer = 1 .. Len(offer)
      /\ \A i \in 1 .. Len(offer) : offer[i] \in Candidates
  <2>1. offer \in Seq(Candidates)
    <3>1. PICK n \in Nat : offer \in [1 .. n -> Candidates]
      BY ConstantsAssumption DEF Offers
    <3>. QED
      BY <3>1
  <2>. QED
    BY <2>1, LenProperties
<1>3. slots \in Nat \* There is never less than no slot left.
  <2>1. Len(todo) = 0
    BY <1>1
  <2>2. Cardinality(DOMAIN m_connecting) \in Nat
    BY SizeOfSet DEF Inv, TablesOK
  <2>. QED
    BY <1>1, <2>1, <2>2 DEF Inv, OutgoingBudget, FieldsOK
<1>4. Need \in Nat /\ Need <= slots
  BY <1>3, ConstantsAssumption DEF Need, SizeT, Least
<1>5. /\ todo' \in Seq(Candidates) /\ Len(todo') \in Nat
      /\ Len(todo') <= slots /\ Len(todo') <= Len(offer)
  <2>1. CASE Need > 0
    <3>. DEFINE n == Least(Len(offer), Need)
    <3>1. n \in Nat /\ n <= Len(offer) /\ n <= Need
      BY <1>2, <1>4 DEF Least
    <3>2. todo' = SubSeq(offer, 1, n)
      BY <2>1 DEF RequestOutgoingInt
    <3>3. \A i \in 1 .. n : offer[i] \in Candidates
      BY <1>2, <3>1
    <3>. HIDE DEF n
    <3>4. /\ SubSeq(offer, 1, n) \in Seq(Candidates)
          /\ Len(SubSeq(offer, 1, n)) = IF 1 <= n THEN n - 1 + 1 ELSE 0
      BY <3>1, <3>3, SubSeqProperties
    <3>. QED
      BY <1>2, <1>3, <1>4, <3>1, <3>2, <3>4
  <2>2. CASE ~(Need > 0)
    <3>1. todo' = <<>>
      BY <1>1, <2>2 DEF RequestOutgoingInt
    <3>. QED
      BY <1>2, <1>3, <3>1, EmptySeq
  <2>. QED
    BY <2>1, <2>2
<1>. HIDE DEF slots
<1>6. TablesOK' /\ AppOK' /\ FlagsOK' /\ IdsUnique' /\ IdsBelow' /\ CountsMatch'
  BY <1>1 DEF Inv, tables, counts, session, app, TablesOK, AppOK, FlagsOK, IdsUnique,
              IdsBelow, CountsMatch
<1>7. FieldsOK'
  BY <1>1, <1>5 DEF Inv, counts, session, FieldsOK
<1>8. TodoRoom'
  BY <1>1, <1>2, <1>5, ConstantsAssumption DEF Inv, FieldsOK, ConnIDs, TodoRoom
<1>9. OutgoingBudget'
  <2>1. Cardinality(DOMAIN m_connecting) \in Nat
    BY SizeOfSet DEF Inv, TablesOK
  <2>. QED
    BY <1>1, <1>3, <1>5, <2>1
       DEF Inv, slots, OutgoingBudget, FieldsOK, tables, counts, session
<1>10. CleanStop' /\ AppViewMatches'
  BY <1>1 DEF Inv, tables, counts, session, app, CleanStop, AppViewMatches
<1>. QED
  BY <1>6, <1>7, <1>8, <1>9, <1>10 DEF Inv

\* An attempt becomes a connection, counted and known to the application, or is refused.
LEMMA OnOutgoingConnectedInv ==
    ASSUME Inv, NEW id \in ConnIDs, NEW accept \in BOOLEAN, OnOutgoingConnected(id, accept)
    PROVE  Inv'
<1>. DEFINE conn == m_connecting[id]
<1>1. /\ m_event_base /\ ~m_shutdown /\ todo = <<>>
      /\ id \in DOMAIN m_connecting
      /\ m_connecting' = Drop(m_connecting, id)
      /\ app_seen' = app_seen \cup {id}
      /\ app_waiting' = app_waiting - 1
      /\ UNCHANGED <<m_dns_resolves, m_binds, m_connection_index, m_incoming_conn_count,
                     events, session, todo, app_running, app_in, app_resolving, app_dropped>>
  BY DEF OnOutgoingConnected, Dispatch
<1>2. /\ conn \in Connections /\ IsOutgoing(conn)
      /\ id \notin DOMAIN m_connected /\ id \notin app_seen
      /\ id < m_connection_index
  BY <1>1 DEF Inv, TablesOK, IdsUnique, IdsBelow
<1>3. /\ DOMAIN m_connecting' = DOMAIN m_connecting \ {id}
      /\ Attempts(m_connecting')
      /\ Cardinality(DOMAIN m_connecting) \in Nat
      /\ Cardinality(DOMAIN m_connecting') = Cardinality(DOMAIN m_connecting) - 1
  <2>1. Attempts(m_connecting)
    BY DEF Inv, TablesOK, Attempts
  <2>2. DOMAIN m_connecting \subseteq ConnIDs
    BY <2>1 DEF Attempts
  <2>. QED
    BY <1>1, <2>1, <2>2, DropAttempt, DropProperties, SizeAfterRemove, SizeOfSet
<1>. HIDE DEF conn
<1>4. \* What is open now, and what the counter and the application make of it.
      /\ DOMAIN m_connected' \subseteq DOMAIN m_connected \cup {id}
      /\ \A k \in DOMAIN m_connected' : m_connected'[k] \in Connections
      /\ m_outgoing_conn_count' = Cardinality(OutgoingIn(m_connected'))
      /\ IncomingIn(m_connected') = IncomingIn(m_connected)
      /\ app_out' = OutgoingIn(m_connected')
      /\ m_outgoing_conn_count' \in {m_outgoing_conn_count, m_outgoing_conn_count + 1}
  <2>1. /\ \A k \in DOMAIN m_connected : m_connected[k] \in Connections
        /\ m_outgoing_conn_count = Cardinality(OutgoingIn(m_connected))
        /\ app_out = OutgoingIn(m_connected)
        /\ OutgoingIn(m_connected) \subseteq ConnIDs /\ id \notin OutgoingIn(m_connected)
    BY <1>2 DEF Inv, TablesOK, CountsMatch, AppViewMatches, OutgoingIn
  <2>2. CASE accept
    <3>1. /\ m_connected' = Put(m_connected, id, conn)
          /\ m_outgoing_conn_count' = m_outgoing_conn_count + 1
          /\ app_out' = app_out \cup {id}
      BY <2>2 DEF OnOutgoingConnected, conn
    <3>2. /\ DOMAIN m_connected' = DOMAIN m_connected \cup {id}
          /\ m_connected'[id] = conn
          /\ \A k \in DOMAIN m_connected : m_connected'[k] = m_connected[k]
      BY <1>2, <3>1 DEF Put
    <3>3. /\ OutgoingIn(m_connected') = OutgoingIn(m_connected) \cup {id}
          /\ IncomingIn(m_connected') = IncomingIn(m_connected)
      BY <1>2, <3>1, PutKinds
    <3>4. Cardinality(OutgoingIn(m_connected')) = Cardinality(OutgoingIn(m_connected)) + 1
      BY <2>1, <3>3, SizeAfterAdd
    <3>. QED
      BY <1>2, <2>1, <3>1, <3>2, <3>3, <3>4
  <2>3. CASE ~accept
    <3>1. UNCHANGED <<m_connected, m_outgoing_conn_count, app_out>>
      BY <2>3 DEF OnOutgoingConnected
    <3>. QED
      BY <2>1, <3>1
  <2>. QED
    BY <2>2, <2>3
<1>5. TablesOK'
  BY <1>1, <1>3, <1>4 DEF Inv, TablesOK, Attempts
<1>6. FieldsOK'
  BY <1>1, <1>4 DEF Inv, FieldsOK, events, session
<1>7. AppOK'
  <2>1. OutgoingIn(m_connected') \subseteq ConnIDs
    BY <1>5 DEF TablesOK, OutgoingIn
  <2>. QED
    BY <1>1, <1>4, <2>1 DEF Inv, AppOK
<1>8. FlagsOK'
  BY <1>1 DEF Inv, FlagsOK, session
<1>9. IdsUnique' /\ IdsBelow'
  BY <1>1, <1>2, <1>3, <1>4 DEF Inv, IdsUnique, IdsBelow
<1>10. TodoRoom'
  BY <1>1 DEF Inv, TodoRoom
<1>11. CountsMatch'
  BY <1>1, <1>4 DEF Inv, CountsMatch
<1>12. OutgoingBudget'
  BY <1>1, <1>3, <1>4 DEF Inv, OutgoingBudget, FieldsOK, session
<1>13. CleanStop' /\ AppViewMatches'
  BY <1>1, <1>3, <1>4 DEF Inv, CleanStop, AppViewMatches, session
<1>. QED
  BY <1>5, <1>6, <1>7, <1>8, <1>9, <1>10, <1>11, <1>12, <1>13 DEF Inv

-----------------------------------------------------------------------------
(* Established connections and listeners. *)

\* Drawing an id with nothing left to start.
LEMMA DrawId ==
    ASSUME Inv, todo = <<>>, Room(1), m_connection_index' = NextIndex(m_connection_index)
    PROVE  /\ m_connection_index \in Nat
           /\ m_connection_index' = m_connection_index + 1
           /\ m_connection_index + 1 \in ConnIDs
           /\ m_connection_index + 1 + Len(todo) <= MaxConnID
<1>1. Len(todo) = 0
  OBVIOUS
<1>. QED
  BY <1>1, ConstantsAssumption DEF Inv, FieldsOK, ConnIDs, Room, NextIndex

\* An accepted connection is counted and known under a fresh id.
LEMMA OnIncomingConnectionInv ==
    ASSUME Inv, NEW accept \in BOOLEAN, OnIncomingConnection(accept)
    PROVE  Inv'
<1>. DEFINE id == m_connection_index
            conn == [kind |-> "incoming", persistent |-> FALSE, pending |-> "none"]
<1>1. /\ m_event_base /\ ~m_shutdown /\ todo = <<>> /\ Room(1)
      /\ m_connection_index' = NextIndex(id)
      /\ app_seen' = app_seen \cup {id}
      /\ UNCHANGED <<m_connecting, m_dns_resolves, m_binds, m_outgoing_conn_count, events,
                     session, todo, app_running, app_out, app_waiting, app_resolving, app_dropped>>
  BY DEF OnIncomingConnection, Dispatch
<1>2. /\ conn \in Connections /\ ~IsOutgoing(conn)
      /\ id \in ConnIDs
      /\ id \notin DOMAIN m_connecting \cup DOMAIN m_connected \cup DOMAIN m_dns_resolves
                       \cup m_binds \cup app_seen
  BY NextIdFresh DEF Connections, IsOutgoing, OutgoingKinds
<1>3. /\ id \in Nat /\ m_connection_index' = id + 1 /\ id + 1 \in ConnIDs
      /\ id + 1 + Len(todo) <= MaxConnID
  BY <1>1, DrawId
<1>. HIDE DEF conn
<1>4. /\ DOMAIN m_connected' \subseteq DOMAIN m_connected \cup {id}
      /\ \A k \in DOMAIN m_connected' : m_connected'[k] \in Connections
      /\ m_incoming_conn_count' = Cardinality(IncomingIn(m_connected'))
      /\ OutgoingIn(m_connected') = OutgoingIn(m_connected)
      /\ app_in' = IncomingIn(m_connected')
      /\ m_incoming_conn_count' \in {m_incoming_conn_count, m_incoming_conn_count + 1}
  <2>1. /\ \A k \in DOMAIN m_connected : m_connected[k] \in Connections
        /\ m_incoming_conn_count = Cardinality(IncomingIn(m_connected))
        /\ app_in = IncomingIn(m_connected)
        /\ IncomingIn(m_connected) \subseteq ConnIDs /\ id \notin IncomingIn(m_connected)
    BY <1>2 DEF Inv, TablesOK, CountsMatch, AppViewMatches, IncomingIn
  <2>2. CASE accept
    <3>1. /\ m_connected' = Put(m_connected, id, conn)
          /\ m_incoming_conn_count' = m_incoming_conn_count + 1
          /\ app_in' = app_in \cup {id}
      BY <2>2 DEF OnIncomingConnection, conn
    <3>2. /\ DOMAIN m_connected' = DOMAIN m_connected \cup {id}
          /\ m_connected'[id] = conn
          /\ \A k \in DOMAIN m_connected : m_connected'[k] = m_connected[k]
      BY <1>2, <3>1 DEF Put
    <3>3. /\ IncomingIn(m_connected') = IncomingIn(m_connected) \cup {id}
          /\ OutgoingIn(m_connected') = OutgoingIn(m_connected)
      BY <1>2, <3>1, PutKinds
    <3>4. Cardinality(IncomingIn(m_connected')) = Cardinality(IncomingIn(m_connected)) + 1
      BY <2>1, <3>3, SizeAfterAdd
    <3>. QED
      BY <1>2, <2>1, <3>1, <3>2, <3>3, <3>4
  <2>3. CASE ~accept
    <3>1. UNCHANGED <<m_connected, m_incoming_conn_count, app_in>>
      BY <2>3 DEF OnIncomingConnection
    <3>. QED
      BY <2>1, <3>1
  <2>. QED
    BY <2>2, <2>3
<1>5. TablesOK'
  BY <1>1, <1>2, <1>4 DEF Inv, TablesOK
<1>6. FieldsOK'
  BY <1>1, <1>3, <1>4 DEF Inv, FieldsOK, events, session
<1>7. AppOK'
  <2>1. IncomingIn(m_connected') \subseteq ConnIDs
    BY <1>5 DEF TablesOK, IncomingIn
  <2>. QED
    BY <1>1, <1>2, <1>4, <2>1 DEF Inv, AppOK
<1>8. FlagsOK'
  BY <1>1 DEF Inv, FlagsOK, session
<1>9. IdsUnique'
  BY <1>1, <1>2, <1>4 DEF Inv, IdsUnique
<1>10. IdsBelow'
  BY <1>1, <1>3, IdsBelowStep DEF Holders
<1>11. TodoRoom'
  BY <1>1, <1>3 DEF TodoRoom
<1>12. CountsMatch' /\ OutgoingBudget'
  BY <1>1, <1>4 DEF Inv, CountsMatch, OutgoingBudget, session
<1>13. CleanStop' /\ AppViewMatches'
  BY <1>1, <1>4 DEF Inv, CleanStop, AppViewMatches, session
<1>. QED
  BY <1>5, <1>6, <1>7, <1>8, <1>9, <1>10, <1>11, <1>12, <1>13 DEF Inv

\* A listener takes a fresh id.
LEMMA BindInv ==
    ASSUME Inv, NEW ok \in BOOLEAN, Bind(ok)
    PROVE  Inv'
<1>. DEFINE id == m_connection_index
<1>1. /\ m_event_base /\ ~m_shutdown /\ todo = <<>> /\ Room(1)
      /\ m_connection_index' = NextIndex(id)
      /\ m_binds' \subseteq m_binds \cup {id}
      /\ UNCHANGED <<m_connected, m_connecting, m_dns_resolves, counts, events, session, todo,
                     app>>
  BY DEF Bind, Dispatch
<1>2. /\ id \in Nat /\ m_connection_index' = id + 1 /\ id + 1 \in ConnIDs
      /\ id + 1 + Len(todo) <= MaxConnID
  BY <1>1, DrawId
<1>3. TablesOK' /\ IdsUnique'
  BY <1>1, NextIdFresh DEF Inv, TablesOK, IdsUnique, app
<1>4. FieldsOK' /\ AppOK'
  BY <1>1, <1>2 DEF Inv, FieldsOK, AppOK, counts, events, session, app
<1>5. IdsBelow'
  BY <1>1, <1>2, IdsBelowStep DEF Holders, app
<1>6. TodoRoom'
  BY <1>1, <1>2 DEF TodoRoom
<1>7. FlagsOK' /\ CountsMatch' /\ OutgoingBudget' /\ CleanStop' /\ AppViewMatches'
  BY <1>1 DEF Inv, FlagsOK, CountsMatch, OutgoingBudget, CleanStop, AppViewMatches, counts,
              events, session, app
<1>. QED
  BY <1>3, <1>4, <1>5, <1>6, <1>7 DEF Inv

\* CloseConnection only arms m_disconnect_func of an established connection.
LEMMA CloseConnectionInv ==
    ASSUME Inv, NEW id \in ConnIDs, CloseConnection(id)
    PROVE  Inv'
<1>1. /\ id \in DOMAIN m_connected
      /\ m_connected' = [m_connected EXCEPT ![id].pending = "disconnect"]
      /\ UNCHANGED <<m_connecting, m_dns_resolves, m_binds, m_connection_index, counts, events,
                     session, todo, app>>
  BY DEF CloseConnection
<1>2. /\ DOMAIN m_connected' = DOMAIN m_connected
      /\ \A k \in DOMAIN m_connected :
             /\ m_connected'[k] \in Connections
             /\ IsOutgoing(m_connected'[k]) <=> IsOutgoing(m_connected[k])
  BY <1>1 DEF Inv, TablesOK, Connections, IsOutgoing
<1>3. OutgoingIn(m_connected') = OutgoingIn(m_connected)
  BY <1>2 DEF OutgoingIn
<1>4. IncomingIn(m_connected') = IncomingIn(m_connected)
  BY <1>2 DEF IncomingIn
<1>5. TablesOK' /\ IdsUnique' /\ IdsBelow'
  BY <1>1, <1>2 DEF Inv, TablesOK, IdsUnique, IdsBelow, app
<1>6. FieldsOK' /\ AppOK' /\ FlagsOK' /\ TodoRoom'
  BY <1>1 DEF Inv, FieldsOK, AppOK, FlagsOK, TodoRoom, counts, events, session, app
<1>7. CountsMatch' /\ OutgoingBudget' /\ CleanStop' /\ AppViewMatches'
  BY <1>1, <1>2, <1>3, <1>4 DEF Inv, CountsMatch, OutgoingBudget, CleanStop, AppViewMatches,
                                counts, events, session, app
<1>. QED
  BY <1>5, <1>6, <1>7 DEF Inv

\* Taking a connection out of m_connected, whichever its kind: the counter of
\* its kind and the application's set follow.
LEMMA DisconnectCounts ==
    ASSUME Inv, NEW id \in ConnIDs, NEW ret \in BOOLEAN, OnDisconnected(id, ret)
    PROVE  /\ DOMAIN m_connected' = DOMAIN m_connected \ {id}
           /\ \A k \in DOMAIN m_connected' : m_connected'[k] \in Connections
           /\ m_outgoing_conn_count' = Cardinality(OutgoingIn(m_connected'))
           /\ m_incoming_conn_count' = Cardinality(IncomingIn(m_connected'))
           /\ app_out' = OutgoingIn(m_connected')
           /\ app_in' = IncomingIn(m_connected')
           /\ m_incoming_conn_count' \in Int
           /\ m_outgoing_conn_count' = IF IsOutgoing(m_connected[id])
                                       THEN m_outgoing_conn_count - 1
                                       ELSE m_outgoing_conn_count
<1>1. id \in DOMAIN m_connected /\ m_connected' = Drop(m_connected, id)
  BY DEF OnDisconnected
<1>2. /\ DOMAIN m_connected' = DOMAIN m_connected \ {id}
      /\ \A k \in DOMAIN m_connected' : m_connected'[k] = m_connected[k]
      /\ \A k \in DOMAIN m_connected' : m_connected'[k] \in Connections
  BY <1>1 DEF Drop, Inv, TablesOK
<1>3. /\ OutgoingIn(m_connected') = OutgoingIn(m_connected) \ {id}
      /\ IncomingIn(m_connected') = IncomingIn(m_connected) \ {id}
  BY <1>1, DropKinds
<1>4. /\ OutgoingIn(m_connected) \subseteq ConnIDs
      /\ IncomingIn(m_connected) \subseteq ConnIDs
      /\ m_outgoing_conn_count = Cardinality(OutgoingIn(m_connected))
      /\ m_incoming_conn_count = Cardinality(IncomingIn(m_connected))
      /\ app_out = OutgoingIn(m_connected) /\ app_in = IncomingIn(m_connected)
      /\ m_incoming_conn_count \in Int
  BY DEF Inv, TablesOK, FieldsOK, CountsMatch, AppViewMatches, OutgoingIn, IncomingIn
<1>5. CASE IsOutgoing(m_connected[id])
  <2>1. /\ m_outgoing_conn_count' = m_outgoing_conn_count - 1
        /\ app_out' = app_out \ {id}
        /\ UNCHANGED <<m_incoming_conn_count, app_in>>
    BY <1>5 DEF OnDisconnected
  <2>2. id \in OutgoingIn(m_connected) /\ id \notin IncomingIn(m_connected)
    BY <1>1, <1>5 DEF OutgoingIn, IncomingIn
  <2>3. Cardinality(OutgoingIn(m_connected) \ {id}) = Cardinality(OutgoingIn(m_connected)) - 1
    BY <1>4, <2>2, SizeAfterRemove
  <2>4. IncomingIn(m_connected') = IncomingIn(m_connected)
    BY <1>3, <2>2
  <2>. QED
    BY <1>2, <1>3, <1>4, <1>5, <2>1, <2>3, <2>4
<1>6. CASE ~IsOutgoing(m_connected[id])
  <2>1. /\ m_incoming_conn_count' = m_incoming_conn_count - 1
        /\ app_in' = app_in \ {id}
        /\ UNCHANGED <<m_outgoing_conn_count, app_out>>
    BY <1>6 DEF OnDisconnected
  <2>2. id \in IncomingIn(m_connected) /\ id \notin OutgoingIn(m_connected)
    BY <1>1, <1>6 DEF OutgoingIn, IncomingIn
  <2>3. Cardinality(IncomingIn(m_connected) \ {id}) = Cardinality(IncomingIn(m_connected)) - 1
    BY <1>4, <2>2, SizeAfterRemove
  <2>4. OutgoingIn(m_connected') = OutgoingIn(m_connected)
    BY <1>3, <2>2
  <2>5. m_incoming_conn_count' \in Int
    BY <1>4, <2>1
  <2>. QED
    BY <1>2, <1>3, <1>4, <1>6, <2>1, <2>3, <2>4, <2>5
<1>. QED
  BY <1>5, <1>6

\* A connection ends: its counter goes down by one, and a persistent one may wait
\* under the next id.
LEMMA OnDisconnectedInv ==
    ASSUME Inv, NEW id \in ConnIDs, NEW ret \in BOOLEAN, OnDisconnected(id, ret)
    PROVE  Inv'
<1>. DEFINE conn == m_connected[id]
            index == m_connection_index
            reconnect == conn.persistent /\ IsOutgoing(conn) /\ ~m_shutdown
<1>1. /\ m_event_base /\ ~m_shutdown /\ todo = <<>>
      /\ id \in DOMAIN m_connected
      /\ UNCHANGED <<m_dns_resolves, m_binds, m_shutdown_event, session, todo, app_running,
                     app_seen, app_resolving, app_dropped>>
  BY DEF OnDisconnected, Dispatch
<1>2. /\ Attempts(m_connecting) /\ conn \in Connections
      /\ app_waiting = Cardinality(DOMAIN m_connecting)
      /\ app_waiting \in Nat
      /\ index \in ConnIDs /\ index \notin DOMAIN m_connecting
  BY <1>1, NextIdFresh, SizeOfSet DEF Inv, TablesOK, Attempts, AppViewMatches
<1>3. \/ /\ UNCHANGED <<m_connecting, m_connection_index, app_waiting>>
         /\ m_request_event' = Activated(m_request_event)
      \/ /\ IsOutgoing(conn)
         /\ Attempts(m_connecting')
         /\ DOMAIN m_connecting' = DOMAIN m_connecting \cup {index}
         /\ app_waiting' = app_waiting + 1
         /\ app_waiting' = Cardinality(DOMAIN m_connecting')
         /\ m_connection_index' = index + 1 /\ index + 1 \in ConnIDs
         /\ index + 1 + Len(todo) <= MaxConnID
         /\ UNCHANGED m_request_event
  <2>1. CASE reconnect /\ ret
    <3>1. /\ Room(1)
          /\ m_connecting' = Requeue(m_connecting, index, conn)
          /\ m_connection_index' = NextIndex(index)
          /\ app_waiting' = app_waiting + 1
          /\ UNCHANGED m_request_event
      BY <2>1 DEF OnDisconnected
    <3>2. /\ m_connection_index' = index + 1 /\ index + 1 \in ConnIDs
          /\ index + 1 + Len(todo) <= MaxConnID
      BY <1>1, <3>1, DrawId
    <3>3. /\ Attempts(m_connecting')
          /\ DOMAIN m_connecting' = DOMAIN m_connecting \cup {index}
      BY <1>2, <2>1, <3>1, RequeueAttempt
    <3>4. Cardinality(DOMAIN m_connecting') = Cardinality(DOMAIN m_connecting) + 1
      BY <1>2, <3>3, SizeAfterAdd DEF Attempts
    <3>. QED
      BY <1>2, <2>1, <3>1, <3>2, <3>3, <3>4
  <2>2. CASE ~(reconnect /\ ret)
    BY <2>2 DEF OnDisconnected
  <2>. QED
    BY <2>1, <2>2
<1>. HIDE DEF conn
<1>4. TablesOK'
  BY <1>1, <1>2, <1>3, DisconnectCounts DEF Inv, TablesOK, Attempts
<1>5. /\ m_outgoing_conn_count \in Int
      /\ m_outgoing_conn_count' \in {m_outgoing_conn_count, m_outgoing_conn_count - 1}
      /\ IsOutgoing(conn) => m_outgoing_conn_count' = m_outgoing_conn_count - 1
  BY DisconnectCounts DEF Inv, FieldsOK, conn
<1>6. FieldsOK'
  <2>1. m_outgoing_conn_count' \in Int /\ m_incoming_conn_count' \in Int
    <3>1. m_incoming_conn_count' \in Int
      BY DisconnectCounts
    <3>. QED
      BY <1>5, <3>1
  <2>2. /\ m_connection_index' \in ConnIDs
        /\ m_request_event' \in {m_request_event, Activated(m_request_event)}
    BY <1>2, <1>3
  <2>. QED
    BY <1>1, <2>1, <2>2 DEF Inv, FieldsOK, Activated, session
<1>7. AppOK'
  <2>1. OutgoingIn(m_connected') \subseteq ConnIDs /\ IncomingIn(m_connected') \subseteq ConnIDs
    BY <1>4 DEF TablesOK, OutgoingIn, IncomingIn
  <2>2. app_waiting' \in Int
    BY <1>2, <1>3
  <2>. QED
    BY <1>1, <2>1, <2>2, DisconnectCounts DEF Inv, AppOK
<1>8. FlagsOK'
  BY <1>1 DEF Inv, FlagsOK, session
<1>9. IdsUnique'
  <2>1. DOMAIN m_connecting' \subseteq DOMAIN m_connecting \cup {index}
    BY <1>3
  <2>2. DOMAIN m_connected' \subseteq DOMAIN m_connected
    BY DisconnectCounts
  <2>. QED
    BY <1>1, <2>1, <2>2, NextIdFresh DEF Inv, IdsUnique
<1>10. IdsBelow'
  <2>1. CASE UNCHANGED <<m_connecting, m_connection_index>>
    BY <1>1, <2>1 DEF Inv, IdsBelow
  <2>2. CASE /\ m_connection_index' = index + 1
             /\ DOMAIN m_connecting' = DOMAIN m_connecting \cup {index}
    BY <1>1, <2>2, IdsBelowStep DEF Holders
  <2>. QED
    BY <1>3, <2>1, <2>2
<1>11. TodoRoom'
  BY <1>1, <1>3 DEF Inv, TodoRoom
<1>12. CountsMatch'
  BY DisconnectCounts DEF CountsMatch
<1>13. OutgoingBudget'
  <2>1. Len(todo) = 0
    BY <1>1
  <2>2. m_outgoing_conn_count' + Cardinality(DOMAIN m_connecting')
            <= m_outgoing_conn_count + Cardinality(DOMAIN m_connecting)
    BY <1>2, <1>3, <1>5
  <2>3. m_outgoing_conn_count + Cardinality(DOMAIN m_connecting) + 0 <= m_outgoing_conn_limit
    BY <1>1, <1>2, <2>1 DEF Inv, OutgoingBudget, FieldsOK
  <2>4. m_outgoing_conn_count' + Cardinality(DOMAIN m_connecting') + 0 <= m_outgoing_conn_limit
    BY <1>2, <1>3, <1>5, <2>2, <2>3 DEF Inv, FieldsOK
  <2>. QED
    BY <1>1, <2>1, <2>4 DEF OutgoingBudget, session
<1>14. CleanStop' /\ AppViewMatches'
  BY <1>1, <1>2, <1>3, DisconnectCounts DEF Inv, CleanStop, AppViewMatches, session
<1>. QED
  BY <1>4, <1>6, <1>7, <1>8, <1>9, <1>10, <1>11, <1>12, <1>13, <1>14 DEF Inv

-----------------------------------------------------------------------------
(* Resolve-only requests: they touch no counter and no slot. *)

\* A resolve step that draws no id.
LEMMA ResolveStep ==
    ASSUME Inv, m_event_base,
           DOMAIN m_dns_resolves' \subseteq DOMAIN m_dns_resolves,
           m_request_event' \in {m_request_event, Activated(m_request_event)},
           app_resolving' \in Int,
           UNCHANGED <<m_connected, m_connecting, m_binds, m_connection_index, counts,
                       m_shutdown_event, session, todo, app_running, app_out, app_in,
                       app_seen, app_waiting, app_dropped>>,
           ~m_shutdown
    PROVE  Inv'
<1>1. TablesOK' /\ IdsUnique' /\ IdsBelow'
  BY DEF Inv, TablesOK, IdsUnique, IdsBelow
<1>2. FieldsOK' /\ AppOK' /\ FlagsOK' /\ TodoRoom'
  BY DEF Inv, FieldsOK, AppOK, FlagsOK, TodoRoom, Activated, counts, session
<1>3. CountsMatch' /\ OutgoingBudget' /\ CleanStop' /\ AppViewMatches'
  BY DEF Inv, CountsMatch, OutgoingBudget, CleanStop, AppViewMatches, counts, session
<1>. QED
  BY <1>1, <1>2, <1>3 DEF Inv

\* A failed request is kept under its id or dropped.
LEMMA FailResolveEffect ==
    ASSUME NEW resolves, NEW resolving \in Int, NEW id \in DOMAIN resolves,
           NEW retry \in BOOLEAN, NEW ret \in BOOLEAN,
           FailResolve(resolves, resolving, id, retry, ret)
    PROVE  /\ DOMAIN m_dns_resolves' \subseteq DOMAIN resolves
           /\ m_request_event' \in {m_request_event, Activated(m_request_event)}
           /\ app_resolving' \in Int
<1>1. CASE retry /\ ~m_shutdown /\ ret
  <2>1. /\ m_dns_resolves' = Put(resolves, id, "retry")
        /\ app_resolving' = resolving
        /\ m_request_event' = Activated(m_request_event)
    BY <1>1 DEF FailResolve
  <2>2. DOMAIN Put(resolves, id, "retry") = DOMAIN resolves
    BY DEF Put
  <2>. QED
    BY <2>1, <2>2
<1>2. CASE ~(retry /\ ~m_shutdown /\ ret)
  <2>1. /\ m_dns_resolves' = Drop(resolves, id)
        /\ app_resolving' = resolving - 1
        /\ m_request_event' = Activated(m_request_event)
    BY <1>2 DEF FailResolve
  <2>2. DOMAIN Drop(resolves, id) \subseteq DOMAIN resolves
    BY DropProperties
  <2>3. app_resolving' \in Int
    BY <2>1
  <2>. QED
    BY <2>1, <2>2, <2>3
<1>. QED
  BY <1>1, <1>2

\* An answered request leaves the table or is made again.
LEMMA ResolveEndsInv ==
    ASSUME Inv, NEW id \in ConnIDs, ResolveEnds(id)
    PROVE  Inv'
<1>1. CASE OnResolveComplete(id)
  <2>1. /\ m_dns_resolves' = Drop(m_dns_resolves, id)
        /\ app_resolving' = app_resolving - 1
        /\ app_resolving \in Int
        /\ m_request_event' = m_request_event
    BY <1>1 DEF OnResolveComplete, Inv, AppOK, events
  <2>2. DOMAIN m_dns_resolves' \subseteq DOMAIN m_dns_resolves
    BY <2>1, DropProperties
  <2>3. app_resolving' \in Int
    BY <2>1
  <2>. QED
    BY <1>1, <2>1, <2>2, <2>3, ResolveStep DEF OnResolveComplete, Dispatch, events
<1>2. ASSUME NEW retry \in BOOLEAN, NEW ret \in BOOLEAN, OnResolveFailure(id, retry, ret)
      PROVE  Inv'
  <2>1. /\ id \in DOMAIN m_dns_resolves /\ app_resolving \in Int
        /\ FailResolve(m_dns_resolves, app_resolving, id, retry, ret)
    BY <1>2 DEF OnResolveFailure, Inv, AppOK
  <2>2. /\ DOMAIN m_dns_resolves' \subseteq DOMAIN m_dns_resolves
        /\ m_request_event' \in {m_request_event, Activated(m_request_event)}
        /\ app_resolving' \in Int
    BY <2>1, FailResolveEffect, Zenon
  <2>. QED
    BY <1>2, <2>2, ResolveStep DEF OnResolveFailure, Dispatch
<1>. QED
  BY <1>1, <1>2 DEF ResolveEnds

\* m_retry_event fires: only the state of the request changes.
LEMMA RetryResolveInv ==
    ASSUME Inv, NEW id \in ConnIDs, RetryResolve(id)
    PROVE  Inv'
<1>1. /\ DOMAIN m_dns_resolves' = DOMAIN m_dns_resolves
      /\ app_resolving' \in Int
  BY DEF RetryResolve, Inv, AppOK, app
<1>. QED
  BY <1>1, ResolveStep DEF RetryResolve, Dispatch, events, app

\* A resolve candidate: it draws an id, which is a request for as long as it is
\* not answered (through a proxy: never).
LEMMA StartResolveStep ==
    ASSUME Inv, todo # <<>>, todo' = Tail(todo),
           m_connection_index' = NextIndex(m_connection_index),
           DOMAIN m_dns_resolves' \subseteq DOMAIN m_dns_resolves \cup {m_connection_index},
           m_request_event' \in {m_request_event, Activated(m_request_event)},
           app_resolving' \in Int, app_dropped' \in Int,
           UNCHANGED <<m_connected, m_connecting, m_binds, counts, m_shutdown_event, session,
                       app_running, app_out, app_in, app_seen, app_waiting>>
    PROVE  Inv'
<1>. DEFINE id == m_connection_index
<1>1. /\ Tail(todo) \in Seq(Candidates)
      /\ Len(todo) \in Nat /\ Len(Tail(todo)) \in Nat /\ Len(Tail(todo)) = Len(todo) - 1
      /\ id \in Nat /\ id + Len(Tail(todo)) < MaxConnID
      /\ NextIndex(id) = id + 1 /\ id + 1 \in ConnIDs
      /\ m_event_base
  BY TodoFacts, ConstantsAssumption DEF ConnIDs
<1>2. TablesOK' /\ IdsUnique'
  BY NextIdFresh DEF Inv, TablesOK, IdsUnique
<1>3. FieldsOK'
  BY <1>1 DEF Inv, FieldsOK, Activated, counts, session
<1>4. AppOK' /\ FlagsOK' /\ CountsMatch'
  BY DEF Inv, AppOK, FlagsOK, CountsMatch, counts, session
<1>5. IdsBelow'
  BY <1>1, IdsBelowStep DEF Holders
<1>6. TodoRoom'
  BY <1>1, ConstantsAssumption DEF TodoRoom
<1>7. OutgoingBudget'
  <2>1. Cardinality(DOMAIN m_connecting) \in Nat
    BY SizeOfSet DEF Inv, TablesOK
  <2>. QED
    BY <1>1, <2>1 DEF Inv, OutgoingBudget, FieldsOK, counts, session
<1>8. CleanStop' /\ AppViewMatches'
  <2>1. m_event_base' /\ ~m_shutdown'
    BY <1>1 DEF Inv, CleanStop, session
  <2>. QED
    BY <2>1 DEF Inv, CleanStop, AppViewMatches, session
<1>. QED
  BY <1>2, <1>3, <1>4, <1>5, <1>6, <1>7, <1>8 DEF Inv

\* A request through a proxy costs an id.
LEMMA StartProxyResolveInv ==
    ASSUME Inv, StartProxyResolve
    PROVE  Inv'
<1>1. /\ app_resolving' = app_resolving + 1 /\ app_resolving \in Int
      /\ app_dropped' = app_dropped + 1 /\ app_dropped \in Int
  BY DEF StartProxyResolve, Inv, AppOK
<1>2. app_resolving' \in Int /\ app_dropped' \in Int
  BY <1>1
<1>. QED
  BY <1>2, StartResolveStep DEF StartProxyResolve, tables, events

\* A request answered at once costs an id.
LEMMA StartResolveKnownInv ==
    ASSUME Inv, StartResolveKnown
    PROVE  Inv'
<1>1. /\ app_resolving' = app_resolving /\ app_resolving \in Int
      /\ app_dropped' = app_dropped /\ app_dropped \in Int
  BY DEF StartResolveKnown, Inv, AppOK, app
<1>2. app_resolving' \in Int /\ app_dropped' \in Int
  BY <1>1
<1>. QED
  BY <1>2, StartResolveStep DEF StartResolveKnown, tables, events, app

\* A request under way, or failed at once, sits under the id it drew.
LEMMA StartResolveInv ==
    ASSUME Inv, NEW sync \in BOOLEAN, NEW retry \in BOOLEAN, NEW ret \in BOOLEAN,
           StartResolve(sync, retry, ret)
    PROVE  Inv'
<1>. DEFINE resolves == Put(m_dns_resolves, m_connection_index, "requested")
<1>1. /\ DOMAIN resolves = DOMAIN m_dns_resolves \cup {m_connection_index}
      /\ m_connection_index \in DOMAIN resolves
      /\ app_resolving + 1 \in Int
  <2>1. app_resolving \in Int
    BY DEF Inv, AppOK
  <2>2. DOMAIN resolves = DOMAIN m_dns_resolves \cup {m_connection_index}
    BY PutProperties
  <2>. QED
    BY <2>1, <2>2
<1>. HIDE DEF resolves
<1>2. /\ DOMAIN m_dns_resolves' \subseteq DOMAIN resolves
      /\ m_request_event' \in {m_request_event, Activated(m_request_event)}
      /\ app_resolving' \in Int
  <2>1. CASE sync
    <3>1. FailResolve(resolves, app_resolving + 1, m_connection_index, retry, ret)
      BY <2>1 DEF StartResolve, resolves
    <3>. QED
      BY <1>1, <3>1, FailResolveEffect, Zenon
  <2>2. CASE ~sync
    <3>1. /\ m_dns_resolves' = resolves
          /\ app_resolving' = app_resolving + 1
          /\ m_request_event' = m_request_event
      BY <2>2 DEF StartResolve, resolves
    <3>. QED
      BY <1>1, <3>1
  <2>. QED
    BY <2>1, <2>2
<1>3. app_dropped' \in Int
  BY DEF StartResolve, Inv, AppOK
<1>. QED
  BY <1>1, <1>2, <1>3, StartResolveStep DEF StartResolve

-----------------------------------------------------------------------------
(* The invariant. *)

\* Either end of an attempt.
LEMMA AttemptEndsInv ==
    ASSUME Inv, NEW id \in ConnIDs, AttemptEnds(id)
    PROVE  Inv'
<1>1. ASSUME NEW accept \in BOOLEAN, OnOutgoingConnected(id, accept)
      PROVE  Inv'
  BY <1>1, OnOutgoingConnectedInv, Zenon
<1>2. ASSUME NEW retry \in BOOLEAN, NEW ret \in BOOLEAN, ConnectionFailure(id, retry, ret)
      PROVE  Inv'
  BY <1>2, ConnectionFailureInv, Zenon
<1>. QED
  BY <1>1, <1>2 DEF AttemptEnds

\* The candidates of one RequestOutgoingInt, one after the other.
LEMMA StartNextInv ==
    ASSUME Inv, StartNext
    PROVE  Inv'
<1>1. ASSUME NEW sync \in BOOLEAN, NEW retry \in BOOLEAN, NEW ret \in BOOLEAN,
             StartResolve(sync, retry, ret)
      PROVE  Inv'
  BY <1>1, StartResolveInv, Zenon
<1>2. ASSUME NEW sync \in BOOLEAN, NEW retry \in BOOLEAN, NEW ret \in BOOLEAN,
             StartConnection(sync, retry, ret)
      PROVE  Inv'
  BY <1>2, StartConnectionInv, Zenon
<1>. QED
  BY <1>1, <1>2, SkipUnsetInv, StartProxyResolveInv, StartResolveKnownInv, Zenon DEF StartNext

\* A step of something else.
LEMMA StutterInv ==
    ASSUME Inv, UNCHANGED vars
    PROVE  Inv'
<1>1. TablesOK' /\ FieldsOK' /\ AppOK' /\ FlagsOK'
  BY DEF Inv, vars, tables, counts, events, session, app, TablesOK, FieldsOK, AppOK, FlagsOK
<1>2. IdsUnique' /\ IdsBelow' /\ TodoRoom' /\ CountsMatch'
  BY DEF Inv, vars, tables, counts, events, session, app, IdsUnique, IdsBelow, TodoRoom,
         CountsMatch
<1>3. OutgoingBudget' /\ CleanStop' /\ AppViewMatches'
  BY DEF Inv, vars, tables, counts, events, session, app, OutgoingBudget, CleanStop,
         AppViewMatches
<1>. QED
  BY <1>1, <1>2, <1>3 DEF Inv

\* Every step of the handler preserves the invariant.
LEMMA NextInv == Inv /\ [Next]_vars => Inv'
<1>. SUFFICES ASSUME Inv, [Next]_vars PROVE Inv'
  OBVIOUS
<1>1. ASSUME NEW limit \in Limits, Start(limit) PROVE Inv'
  BY <1>1, StartInv, Zenon
<1>2. ASSUME NEW offer \in Offers, RequestOutgoingInt(offer) PROVE Inv'
  BY <1>2, RequestOutgoingIntInv, Zenon
<1>3. ASSUME NEW ok \in BOOLEAN, Bind(ok) PROVE Inv'
  BY <1>3, BindInv, Zenon
<1>4. ASSUME NEW accept \in BOOLEAN, OnIncomingConnection(accept) PROVE Inv'
  BY <1>4, OnIncomingConnectionInv, Zenon
<1>5. ASSUME NEW id \in ConnIDs,
             \/ AttemptEnds(id)
             \/ Reconnect(id)
             \/ CloseConnection(id)
             \/ \E ret \in BOOLEAN : OnDisconnected(id, ret)
             \/ ResolveEnds(id)
             \/ RetryResolve(id)
      PROVE  Inv'
  <2>1. ASSUME NEW ret \in BOOLEAN, OnDisconnected(id, ret) PROVE Inv'
    BY <2>1, OnDisconnectedInv, Zenon
  <2>. QED
    BY <1>5, <2>1, AttemptEndsInv, ReconnectInv, CloseConnectionInv, ResolveEndsInv,
       RetryResolveInv, Zenon
<1>6. CASE UNCHANGED vars
  BY <1>6, StutterInv
<1>. QED
  BY <1>1, <1>2, <1>3, <1>4, <1>5, <1>6, ShutdownInv, ShutdownIntInv, PumpEventsInv,
     StartNextInv, Zenon DEF Next

\* In every reachable state the tables, counters, ids and the application's view
\* of them are consistent (all the handlers of handler.cpp together).
THEOREM Invariance == Spec => []Inv
<1>. QED
  BY InitInv, NextInv, PTL DEF Spec

\* Types: in particular m_connecting holds outgoing attempts only, none of them
\* with an armed m_disconnect_func.
THEOREM TypeCorrect == Spec => []TypeOK
<1>1. Inv => TypeOK
  BY DEF Inv, TypeOK
<1>. QED
  BY <1>1, Invariance, PTL

\* The two counters are the numbers of outgoing and incoming connections.
THEOREM CountersCorrect == Spec => []CountsMatch
<1>1. Inv => CountsMatch
  BY DEF Inv
<1>. QED
  BY <1>1, Invariance, PTL

\* RequestOutgoingInt, the retries and the reconnections together never exceed
\* the limit given to Start.
THEOREM BudgetKept == Spec => []OutgoingBudget
<1>1. Inv => OutgoingBudget
  BY DEF Inv
<1>. QED
  BY <1>1, Invariance, PTL

\* No id names two things, and none is reported and then reused.
THEOREM IdsNeverReused == Spec => []IdsUnique
<1>1. Inv => IdsUnique
  BY DEF Inv
<1>. QED
  BY <1>1, Invariance, PTL

\* The assertions at the end of ShutdownInt and at the top of Start hold.
THEOREM StopsClean == Spec => []CleanStop
<1>1. Inv => CleanStop
  BY DEF Inv
<1>. QED
  BY <1>1, Invariance, PTL

\* The callbacks tell the application exactly what the handler holds.
THEOREM AppViewCorrect == Spec => []AppViewMatches
<1>1. Inv => AppViewMatches
  BY DEF Inv
<1>. QED
  BY <1>1, Invariance, PTL

\* What the callbacks of handler.cpp rely on and ShutdownInt and Start assert.
THEOREM StateConsistent == Spec => []Consistent
<1>. QED
  BY TypeCorrect, CountersCorrect, StopsClean, PTL DEF Consistent

-----------------------------------------------------------------------------
(* Requests to resolve. *)

\* A request that has failed is made again, or leaves the table and what is asked for.
LEMMA FailResolveTracks ==
    ASSUME NEW resolves, DOMAIN resolves \subseteq ConnIDs, NEW id \in DOMAIN resolves,
           NEW resolving \in Int, app_dropped \in Int,
           resolving = Cardinality(DOMAIN resolves) + app_dropped,
           NEW retry \in BOOLEAN, NEW ret \in BOOLEAN,
           FailResolve(resolves, resolving, id, retry, ret), UNCHANGED app_dropped
    PROVE  ResolvesTracked'
<1>1. CASE retry /\ ~m_shutdown /\ ret
  <2>1. DOMAIN Put(resolves, id, "retry") = DOMAIN resolves
    BY DEF Put
  <2>. QED
    BY <1>1, <2>1 DEF FailResolve, ResolvesTracked
<1>2. CASE ~(retry /\ ~m_shutdown /\ ret)
  <2>1. DOMAIN Drop(resolves, id) = DOMAIN resolves \ {id}
    BY DropProperties
  <2>2. /\ Cardinality(DOMAIN resolves) \in Nat
        /\ Cardinality(DOMAIN resolves \ {id}) = Cardinality(DOMAIN resolves) - 1
    BY SizeAfterRemove, SizeOfSet
  <2>. QED
    BY <1>2, <2>1, <2>2 DEF FailResolve, ResolvesTracked
<1>. QED
  BY <1>1, <1>2

\* A request draws an id that no other has, and has it until it is answered.
LEMMA StartResolveTracks ==
    ASSUME Inv, ResolvesTracked,
           NEW sync \in BOOLEAN, NEW retry \in BOOLEAN, NEW ret \in BOOLEAN,
           StartResolve(sync, retry, ret)
    PROVE  ResolvesTracked'
<1>. DEFINE resolves == Put(m_dns_resolves, m_connection_index, "requested")
<1>1. DOMAIN resolves = DOMAIN m_dns_resolves \cup {m_connection_index}
  BY PutProperties
<1>2. DOMAIN m_dns_resolves \subseteq ConnIDs /\ app_resolving \in Int /\ app_dropped \in Int
  BY DEF Inv, TablesOK, AppOK
<1>3. /\ DOMAIN resolves \subseteq ConnIDs /\ m_connection_index \in DOMAIN resolves
      /\ app_resolving + 1 \in Int
      /\ app_resolving + 1 = Cardinality(DOMAIN resolves) + app_dropped
  <2>. HIDE DEF resolves
  <2>1. /\ m_connection_index \in ConnIDs /\ m_connection_index \notin DOMAIN m_dns_resolves
    BY NextIdFresh
  <2>2. /\ Cardinality(DOMAIN m_dns_resolves) \in Nat
        /\ Cardinality(DOMAIN resolves) = Cardinality(DOMAIN m_dns_resolves) + 1
    BY <1>1, <1>2, <2>1, SizeAfterAdd, SizeOfSet
  <2>. QED
    BY <1>1, <1>2, <2>1, <2>2 DEF ResolvesTracked
<1>. HIDE DEF resolves
<1>4. CASE sync
  <2>1. FailResolve(resolves, app_resolving + 1, m_connection_index, retry, ret)
        /\ UNCHANGED app_dropped
    BY <1>4 DEF StartResolve, resolves
  <2>. QED
    BY <1>2, <1>3, <2>1, FailResolveTracks, Zenon
<1>5. CASE ~sync
  BY <1>3, <1>5 DEF StartResolve, resolves, ResolvesTracked
<1>. QED
  BY <1>4, <1>5

\* An answer takes its request out of the table, and only that.
LEMMA ResolveEndsTracks ==
    ASSUME Inv, ResolvesTracked, NEW id \in ConnIDs, ResolveEnds(id)
    PROVE  ResolvesTracked'
<1>1. DOMAIN m_dns_resolves \subseteq ConnIDs /\ app_resolving \in Int /\ app_dropped \in Int
  BY DEF Inv, TablesOK, AppOK
<1>2. CASE OnResolveComplete(id)
  <2>1. DOMAIN m_dns_resolves' = DOMAIN m_dns_resolves \ {id} /\ id \in DOMAIN m_dns_resolves
    BY <1>2, DropProperties DEF OnResolveComplete
  <2>2. /\ Cardinality(DOMAIN m_dns_resolves) \in Nat
        /\ Cardinality(DOMAIN m_dns_resolves') = Cardinality(DOMAIN m_dns_resolves) - 1
    BY <1>1, <2>1, SizeAfterRemove, SizeOfSet
  <2>. QED
    BY <1>1, <1>2, <2>2 DEF OnResolveComplete, ResolvesTracked
<1>3. ASSUME NEW retry \in BOOLEAN, NEW ret \in BOOLEAN, OnResolveFailure(id, retry, ret)
      PROVE  ResolvesTracked'
  <2>1. /\ id \in DOMAIN m_dns_resolves
        /\ FailResolve(m_dns_resolves, app_resolving, id, retry, ret)
        /\ UNCHANGED app_dropped
    BY <1>3 DEF OnResolveFailure
  <2>2. app_resolving = Cardinality(DOMAIN m_dns_resolves) + app_dropped
    BY DEF ResolvesTracked
  <2>. QED
    BY <1>1, <2>1, <2>2, FailResolveTracks, Zenon
<1>. QED
  BY <1>2, <1>3 DEF ResolveEnds

\* One step of RequestOutgoingInt's loop takes a candidate and, if it is to be resolved,
\* makes a request of it, or drops it.
LEMMA StartNextTracks ==
    ASSUME Inv, ResolvesTracked, StartNext
    PROVE  ResolvesTracked'
<1>1. CASE StartProxyResolve
  <2>1. app_resolving \in Int /\ app_dropped \in Int /\ Cardinality(DOMAIN m_dns_resolves) \in Nat
    BY SizeOfSet DEF Inv, AppOK, TablesOK
  <2>. QED
    BY <1>1, <2>1 DEF StartProxyResolve, tables, ResolvesTracked
<1>2. CASE SkipUnset \/ StartResolveKnown
  BY <1>2 DEF SkipUnset, StartResolveKnown, tables, app, ResolvesTracked
<1>3. ASSUME NEW sync \in BOOLEAN, NEW retry \in BOOLEAN, NEW ret \in BOOLEAN,
             StartResolve(sync, retry, ret)
      PROVE  ResolvesTracked'
  BY <1>3, StartResolveTracks
<1>4. ASSUME NEW sync \in BOOLEAN, NEW retry \in BOOLEAN, NEW ret \in BOOLEAN,
             StartConnection(sync, retry, ret)
      PROVE  ResolvesTracked'
  BY <1>4 DEF StartConnection, ResolvesTracked
<1>. QED
  BY <1>1, <1>2, <1>3, <1>4 DEF StartNext

\* Everything else leaves the requests alone, begins a session without any, or ends one.
LEMMA NextTracks ==
    ASSUME Inv, ResolvesTracked, [Next]_vars
    PROVE  ResolvesTracked'
<1>1. ASSUME UNCHANGED <<m_dns_resolves, app_resolving, app_dropped>>
      PROVE  ResolvesTracked'
  BY <1>1 DEF ResolvesTracked
<1>2. ASSUME NEW limit \in Limits, Start(limit) PROVE ResolvesTracked'
  <2>1. DOMAIN m_dns_resolves = {}
    BY <1>2 DEF Start, Inv, CleanStop, AppViewMatches
  <2>. QED
    BY <1>2, <2>1, FS_EmptySet DEF Start, tables, ResolvesTracked
<1>3. CASE ShutdownInt
  <2>1. app_dropped \in Int /\ Cardinality(DOMAIN m_dns_resolves) \in Nat
    BY SizeOfSet DEF Inv, AppOK, TablesOK
  <2>2. DOMAIN m_dns_resolves' = {}
    BY <1>3 DEF ShutdownInt, Empty
  <2>. QED
    BY <1>3, <2>1, <2>2, FS_EmptySet DEF ShutdownInt, ResolvesTracked
<1>4. CASE PumpEvents \/ Shutdown \/ (\E ok \in BOOLEAN : Bind(ok))
  BY <1>1, <1>4 DEF PumpEvents, Shutdown, Bind, tables, app
<1>5. CASE StartNext
  BY <1>5, StartNextTracks
<1>6. ASSUME NEW id \in ConnIDs, ResolveEnds(id) PROVE ResolvesTracked'
  BY <1>6, ResolveEndsTracks
<1>7. ASSUME NEW id \in ConnIDs, RetryResolve(id) PROVE ResolvesTracked'
  <2>1. DOMAIN m_dns_resolves' = DOMAIN m_dns_resolves
    BY <1>7 DEF RetryResolve
  <2>. QED
    BY <1>7, <2>1 DEF RetryResolve, app, ResolvesTracked
<1>8. ASSUME NEW offer \in Offers, RequestOutgoingInt(offer) PROVE ResolvesTracked'
  BY <1>1, <1>8 DEF RequestOutgoingInt, tables, app
<1>9. ASSUME NEW accept \in BOOLEAN, OnIncomingConnection(accept) PROVE ResolvesTracked'
  BY <1>1, <1>9 DEF OnIncomingConnection
<1>10. ASSUME NEW id \in ConnIDs, AttemptEnds(id) PROVE ResolvesTracked'
  BY <1>1, <1>10 DEF AttemptEnds, OnOutgoingConnected, ConnectionFailure
<1>11. ASSUME NEW id \in ConnIDs, Reconnect(id) \/ CloseConnection(id)
       PROVE  ResolvesTracked'
  BY <1>1, <1>11 DEF Reconnect, CloseConnection, app
<1>12. ASSUME NEW id \in ConnIDs, NEW ret \in BOOLEAN, OnDisconnected(id, ret)
       PROVE  ResolvesTracked'
  BY <1>1, <1>12 DEF OnDisconnected
<1>13. CASE UNCHANGED vars
  BY <1>1, <1>13 DEF vars, tables, app
<1>. QED
  BY <1>2, <1>3, <1>4, <1>5, <1>6, <1>7, <1>8, <1>9, <1>10, <1>11, <1>12, <1>13, Zenon
     DEF Next

\* StartConnection, OnResolveComplete, OnResolveFailure: a name that was taken to be
\* resolved is a request under way until it is answered, or is one of those that are
\* dropped: through a proxy, or in a shutdown.
THEOREM RequestsTracked == Spec => []ResolvesTracked
<1>1. Init => ResolvesTracked
  <2>1. Cardinality({}) = 0
    BY FS_EmptySet
  <2>2. DOMAIN Empty = {}
    BY DEF Empty
  <2>. QED
    BY <2>1, <2>2 DEF Init, ResolvesTracked
<1>2. Inv /\ ResolvesTracked /\ [Next]_vars => ResolvesTracked'
  BY NextTracks
<1>. QED
  BY <1>1, <1>2, Invariance, PTL DEF Spec

-----------------------------------------------------------------------------
(* The handler implements HandlerContract. *)

\* The contract counts as the handler does.
LEMMA SameSize == \A S : C!Cardinality(S) = Cardinality(S)
BY DEF Cardinality, C!Cardinality, IsFiniteSet, C!IsFiniteSet

\* The variables of the contract.
appView == <<app_running, m_outgoing_conn_limit, app_out, app_in, app_seen, app_waiting>>

\* The state the contract's guards speak of, from the invariant.
LEMMA ViewFacts ==
    ASSUME Inv
    PROVE  /\ app_running = m_event_base
           /\ app_out = OutgoingIn(m_connected) /\ app_in = IncomingIn(m_connected)
           /\ app_out \cup app_in = DOMAIN m_connected
           /\ app_waiting = Cardinality(DOMAIN m_connecting) /\ app_waiting \in Nat
           /\ DOMAIN m_connecting # {} => app_waiting > 0
           /\ Cardinality(app_out) = m_outgoing_conn_count
           /\ m_outgoing_conn_count \in Nat /\ m_outgoing_conn_limit \in Nat
<1>1. /\ DOMAIN m_connecting \subseteq ConnIDs /\ DOMAIN m_connected \subseteq ConnIDs
      /\ OutgoingIn(m_connected) \subseteq ConnIDs
      /\ OutgoingIn(m_connected) \cup IncomingIn(m_connected) = DOMAIN m_connected
  BY DEF Inv, TablesOK, OutgoingIn, IncomingIn
<1>2. /\ Cardinality(DOMAIN m_connecting) \in Nat
      /\ Cardinality(DOMAIN m_connecting) = 0 <=> DOMAIN m_connecting = {}
      /\ Cardinality(OutgoingIn(m_connected)) \in Nat
  BY <1>1, SizeOfSet
<1>. QED
  BY <1>1, <1>2 DEF Inv, AppViewMatches, CountsMatch, FieldsOK

\* Start is OnStartup.
LEMMA StartImplements ==
    ASSUME Inv, NEW limit \in Limits, Start(limit)
    PROVE  C!Startup
BY ConstantsAssumption DEF Start, C!Startup

\* ShutdownInt reports everything that is open and settles every attempt.
LEMMA ShutdownIntImplements ==
    ASSUME Inv, ShutdownInt
    PROVE  C!TearDown
<1>1. OutgoingIn(m_connecting) = DOMAIN m_connecting
  BY DEF Inv, TablesOK, OutgoingIn, IsOutgoing
<1>2. app_out' = {} /\ app_in' = {}
  BY ViewFacts DEF ShutdownInt
<1>3. app_waiting' = 0
  BY <1>1, ViewFacts DEF ShutdownInt
<1>. QED
  BY <1>2, <1>3, ViewFacts DEF ShutdownInt, C!TearDown

\* PumpEvents ends the session when nothing is left to report.
LEMMA PumpEventsImplements ==
    ASSUME Inv, PumpEvents
    PROVE  C!Stopped
<1>1. /\ m_event_base /\ m_shutdown
      /\ DOMAIN m_connected = {} /\ DOMAIN m_connecting = {}
  BY DEF PumpEvents, Inv, CleanStop
<1>2. app_out = {} /\ app_in = {} /\ app_running
  BY <1>1, ViewFacts
<1>3. app_waiting = 0
  BY <1>1, ViewFacts, FS_EmptySet
<1>. QED
  BY <1>2, <1>3 DEF PumpEvents, C!Stopped

\* A candidate that becomes an attempt, or waits for another try, takes a slot
\* that is there; one that failed at once was reported and is forgotten.
LEMMA StartConnectionImplements ==
    ASSUME Inv, NEW sync \in BOOLEAN, NEW retry \in BOOLEAN, NEW ret \in BOOLEAN,
           StartConnection(sync, retry, ret)
    PROVE  C!Take \/ UNCHANGED appView
<1>1. /\ todo # <<>>
      /\ UNCHANGED <<app_running, m_outgoing_conn_limit, app_out, app_in, app_seen>>
  BY DEF StartConnection, session
<1>2. app_waiting' = app_waiting \/ app_waiting' = app_waiting + 1
  <2>1. CASE sync
    <3>1. PICK connecting, index, waiting, id :
              /\ waiting = app_waiting + 1
              /\ FailAttempt(connecting, index, waiting, id, retry, ret)
      BY <2>1, Zenon DEF StartConnection
    <3>2. CASE retry /\ ~m_shutdown /\ ret
      BY <3>1, <3>2 DEF FailAttempt
    <3>3. CASE ~(retry /\ ~m_shutdown /\ ret)
      <4>1. app_waiting' = waiting - 1
        BY <3>1, <3>3 DEF FailAttempt
      <4>. QED
        BY <3>1, <4>1, ViewFacts
    <3>. QED
      BY <3>2, <3>3
  <2>2. CASE ~sync
    BY <2>2 DEF StartConnection
  <2>. QED
    BY <2>1, <2>2
<1>3. /\ m_event_base
      /\ Len(todo) \in Nat /\ Len(todo) > 0
  <2>1. Len(todo) \in Nat /\ Len(Tail(todo)) = Len(todo) - 1 /\ Tail(todo) \in Seq(Candidates)
    BY <1>1, TodoFacts
  <2>2. Len(Tail(todo)) \in Nat
    BY <2>1, LenProperties
  <2>. QED
    BY <1>1, <2>1, <2>2, TodoFacts
<1>4. m_outgoing_conn_count + app_waiting + Len(todo) <= m_outgoing_conn_limit
  BY <1>3, ViewFacts DEF Inv, OutgoingBudget
<1>5. CASE app_waiting' = app_waiting + 1
  <2>1. Cardinality(app_out) + app_waiting' <= m_outgoing_conn_limit
    BY <1>3, <1>4, <1>5, ViewFacts
  <2>2. app_running
    BY <1>3, ViewFacts
  <2>. QED
    BY <1>1, <1>5, <2>1, <2>2, SameSize, Zenon DEF C!Take
<1>6. CASE app_waiting' = app_waiting
  BY <1>1, <1>6 DEF appView
<1>. QED
  BY <1>2, <1>5, <1>6

\* A failure is the outcome of the attempt, unless the application asks for a retry.
LEMMA ConnectionFailureImplements ==
    ASSUME Inv, NEW id \in ConnIDs, NEW retry \in BOOLEAN, NEW ret \in BOOLEAN,
           ConnectionFailure(id, retry, ret)
    PROVE  C!GiveUp \/ UNCHANGED appView
<1>1. /\ m_event_base /\ id \in DOMAIN m_connecting
      /\ UNCHANGED <<app_running, m_outgoing_conn_limit, app_out, app_in, app_seen>>
  BY DEF ConnectionFailure, Dispatch, session
<1>2. app_waiting' \in {app_waiting, app_waiting - 1}
  BY DEF ConnectionFailure, FailAttempt
<1>3. CASE app_waiting' = app_waiting - 1
  BY <1>1, <1>3, ViewFacts DEF C!GiveUp
<1>4. CASE app_waiting' = app_waiting
  BY <1>1, <1>4 DEF appView
<1>. QED
  BY <1>2, <1>3, <1>4

\* OnOutgoingConnection reports an attempt under an id the application never saw.
LEMMA OnOutgoingConnectedImplements ==
    ASSUME Inv, NEW id \in ConnIDs, NEW accept \in BOOLEAN, OnOutgoingConnected(id, accept)
    PROVE  C!Outgoing(id)
<1>1. m_event_base /\ id \in DOMAIN m_connecting
  BY DEF OnOutgoingConnected, Dispatch
<1>2. id \notin app_seen
  BY <1>1 DEF Inv, IdsUnique
<1>3. app_running /\ app_waiting > 0
  BY <1>1, ViewFacts
<1>4. app_out' \in {app_out, app_out \cup {id}}
  BY DEF OnOutgoingConnected
<1>. QED
  BY <1>2, <1>3, <1>4 DEF OnOutgoingConnected, session, C!Outgoing

\* So does OnIncomingConnection with the id it draws.
LEMMA OnIncomingConnectionImplements ==
    ASSUME Inv, NEW accept \in BOOLEAN, OnIncomingConnection(accept)
    PROVE  \E id \in ConnIDs : C!Incoming(id)
<1>1. app_running
  BY ViewFacts DEF OnIncomingConnection, Dispatch
<1>2. app_in' \in {app_in, app_in \cup {m_connection_index}}
  BY DEF OnIncomingConnection
<1>3. C!Incoming(m_connection_index)
  BY <1>1, <1>2, NextIdFresh DEF OnIncomingConnection, session, C!Incoming
<1>. QED
  BY <1>3, NextIdFresh

\* OnDisconnected is delivered for ids that are open only, and a reconnection is a
\* new candidate.
LEMMA OnDisconnectedImplements ==
    ASSUME Inv, NEW id \in ConnIDs, NEW ret \in BOOLEAN, OnDisconnected(id, ret)
    PROVE  C!Disconnected(id)
<1>1. /\ app_running /\ id \in DOMAIN m_connected
      /\ UNCHANGED <<app_running, m_outgoing_conn_limit, app_seen>>
  BY ViewFacts DEF OnDisconnected, Dispatch, session
<1>2. CASE IsOutgoing(m_connected[id])
  <2>1. id \in app_out
    BY <1>1, <1>2, ViewFacts DEF OutgoingIn
  <2>2. /\ app_out' = app_out \ {id} /\ app_in' = app_in
        /\ app_waiting' \in {app_waiting, app_waiting + 1}
    BY <1>2 DEF OnDisconnected
  <2>. QED
    BY <1>1, <2>1, <2>2 DEF C!Disconnected
<1>3. CASE ~IsOutgoing(m_connected[id])
  <2>1. id \in app_in
    BY <1>1, <1>3, ViewFacts DEF IncomingIn
  <2>2. app_in' = app_in \ {id} /\ UNCHANGED <<app_out, app_waiting>>
    BY <1>3 DEF OnDisconnected
  <2>. QED
    BY <1>1, <2>1, <2>2 DEF C!Disconnected
<1>. QED
  BY <1>2, <1>3

\* What the application cannot see.
LEMMA StartNextImplements ==
    ASSUME Inv, StartNext
    PROVE  C!Take \/ UNCHANGED appView
<1>1. ASSUME NEW sync \in BOOLEAN, NEW retry \in BOOLEAN, NEW ret \in BOOLEAN,
             StartConnection(sync, retry, ret)
      PROVE  C!Take \/ UNCHANGED appView
  BY <1>1, StartConnectionImplements, Zenon
<1>2. ASSUME NEW sync \in BOOLEAN, NEW retry \in BOOLEAN, NEW ret \in BOOLEAN,
             StartResolve(sync, retry, ret)
      PROVE  UNCHANGED appView
  BY <1>2 DEF StartResolve, session, appView
<1>3. SkipUnset \/ StartProxyResolve \/ StartResolveKnown => UNCHANGED appView
  BY DEF SkipUnset, StartProxyResolve, StartResolveKnown, session, app, appView
<1>. QED
  BY <1>1, <1>2, <1>3, Zenon DEF StartNext

\* Every step of the handler is one of the contract, or changes nothing it sees.
LEMMA NextImplements == Inv /\ [Next]_vars => C!Next \/ UNCHANGED appView
<1>. SUFFICES ASSUME Inv, [Next]_vars PROVE C!Next \/ UNCHANGED appView
  OBVIOUS
<1>1. ASSUME NEW limit \in Limits, Start(limit) PROVE C!Next
  BY <1>1, StartImplements DEF C!Next
<1>2. ShutdownInt => C!Next
  BY ShutdownIntImplements DEF C!Next
<1>3. PumpEvents => C!Next
  BY PumpEventsImplements DEF C!Next
<1>4. StartNext => C!Next \/ UNCHANGED appView
  BY StartNextImplements DEF C!Next
<1>5. ASSUME NEW accept \in BOOLEAN, OnIncomingConnection(accept) PROVE C!Next
  <2>1. \E id \in ConnIDs : C!Incoming(id)
    BY <1>5, OnIncomingConnectionImplements, Zenon
  <2>. QED
    BY <2>1 DEF C!Next
<1>6. ASSUME NEW id \in ConnIDs, NEW accept \in BOOLEAN, OnOutgoingConnected(id, accept)
      PROVE  C!Next
  <2>1. C!Outgoing(id)
    BY <1>6, OnOutgoingConnectedImplements, Zenon
  <2>. QED
    BY <2>1 DEF C!Next
<1>7. ASSUME NEW id \in ConnIDs, NEW retry \in BOOLEAN, NEW ret \in BOOLEAN,
             ConnectionFailure(id, retry, ret)
      PROVE  C!Next \/ UNCHANGED appView
  <2>1. C!GiveUp \/ UNCHANGED appView
    BY <1>7, ConnectionFailureImplements, Zenon
  <2>. QED
    BY <2>1 DEF C!Next
<1>8. ASSUME NEW id \in ConnIDs, NEW ret \in BOOLEAN, OnDisconnected(id, ret)
      PROVE  C!Next
  <2>1. C!Disconnected(id)
    BY <1>8, OnDisconnectedImplements, Zenon
  <2>. QED
    BY <2>1 DEF C!Next
<1>9. \* The rest tells the application nothing the contract speaks of.
      /\ Shutdown => UNCHANGED appView
      /\ \A offer \in Offers : RequestOutgoingInt(offer) => UNCHANGED appView
      /\ \A ok \in BOOLEAN : Bind(ok) => UNCHANGED appView
      /\ \A id \in ConnIDs : Reconnect(id) \/ CloseConnection(id) => UNCHANGED appView
      /\ UNCHANGED vars => UNCHANGED appView
  BY DEF Shutdown, RequestOutgoingInt, Bind, Reconnect, CloseConnection, vars, session,
         app, appView
<1>10. ASSUME NEW id \in ConnIDs, ResolveEnds(id) \/ RetryResolve(id)
       PROVE  UNCHANGED appView
  BY <1>10 DEF ResolveEnds, OnResolveComplete, OnResolveFailure, RetryResolve, session,
               app, appView
<1>. QED
  BY <1>1, <1>2, <1>3, <1>4, <1>5, <1>6, <1>7, <1>8, <1>9, <1>10, Zenon
     DEF Next, AttemptEnds

\* The handler keeps the promises of handler.h for every limit, batch and set of
\* candidates: what CConnectionHandlerInt reports to the application is a behaviour
\* of HandlerContract.
THEOREM Implements == Spec => KeepsContract
<1>1. Init => C!Init
  BY DEF Init, C!Init
<1>2. Inv /\ [Next]_vars => [C!Next]_C!cvars
  BY NextImplements DEF appView, C!cvars
<1>. QED
  BY <1>1, <1>2, Invariance, PTL DEF Spec, KeepsContract, C!Contract

-----------------------------------------------------------------------------
(* What an application may conclude from the contract alone, whatever the   *)
(* handler: in this part the variables are those of C and nothing is assumed *)
(* of them but C!Contract.                                                  *)

\* WithinLimit and QuietWhenStopped need each other: a session keeps its limit
\* because it starts with nothing open, and ends with nothing open.
ContractInv ==
    /\ IsFiniteSet(app_out)
    /\ app_waiting \in Nat
    /\ m_outgoing_conn_limit \in Nat
    /\ app_running => Cardinality(app_out) + app_waiting <= m_outgoing_conn_limit
    /\ ~app_running => app_out = {} /\ app_in = {} /\ app_waiting = 0

\* The callbacks that open or close outgoing connections keep their number, with
\* the candidates whose outcome is open, within the limit.
LEMMA OutgoingStep ==
    ASSUME ContractInv, NEW id, C!Outgoing(id)
    PROVE  ContractInv'
<1>1. /\ app_running /\ app_running' = app_running /\ m_outgoing_conn_limit' = m_outgoing_conn_limit
      /\ app_waiting \in Nat /\ app_waiting > 0 /\ app_waiting' = app_waiting - 1
      /\ IsFiniteSet(app_out) /\ m_outgoing_conn_limit \in Nat
      /\ Cardinality(app_out) + app_waiting <= m_outgoing_conn_limit
      /\ app_out' \in {app_out, app_out \cup {id}}
  BY DEF C!Outgoing, ContractInv
<1>2. /\ IsFiniteSet(app_out') /\ Cardinality(app_out) \in Nat
      /\ Cardinality(app_out') <= Cardinality(app_out) + 1
  <2>1. /\ IsFiniteSet(app_out \cup {id}) /\ Cardinality(app_out) \in Nat
        /\ Cardinality(app_out \cup {id}) \in {Cardinality(app_out), Cardinality(app_out) + 1}
    BY <1>1, FS_AddElement, FS_CardinalityType
  <2>. QED
    BY <1>1, <2>1
<1>3. app_waiting' \in Nat /\ Cardinality(app_out') + app_waiting' <= m_outgoing_conn_limit'
  <2>1. Cardinality(app_out') \in Nat
    BY <1>2, FS_CardinalityType
  <2>. QED
    BY <1>1, <1>2, <2>1
<1>. QED
  BY <1>1, <1>2, <1>3 DEF ContractInv

\* A disconnection makes room for the candidate it may turn into.
LEMMA DisconnectedStep ==
    ASSUME ContractInv, NEW id, C!Disconnected(id)
    PROVE  ContractInv'
<1>1. /\ app_running /\ app_running' = app_running /\ m_outgoing_conn_limit' = m_outgoing_conn_limit
      /\ app_waiting \in Nat
      /\ IsFiniteSet(app_out) /\ m_outgoing_conn_limit \in Nat
      /\ Cardinality(app_out) \in Nat
      /\ Cardinality(app_out) + app_waiting <= m_outgoing_conn_limit
  BY FS_CardinalityType DEF C!Disconnected, ContractInv
<1>2. CASE /\ id \in app_out
           /\ app_out' = app_out \ {id}
           /\ app_waiting' \in {app_waiting, app_waiting + 1}
  <2>1. /\ IsFiniteSet(app_out') /\ Cardinality(app_out') = Cardinality(app_out) - 1
    BY <1>1, <1>2, FS_RemoveElement
  <2>2. app_waiting' \in Nat /\ Cardinality(app_out') + app_waiting' <= m_outgoing_conn_limit'
    BY <1>1, <1>2, <2>1
  <2>. QED
    BY <1>1, <2>1, <2>2 DEF ContractInv
<1>3. CASE UNCHANGED <<app_out, app_waiting>>
  BY <1>1, <1>3 DEF ContractInv
<1>. QED
  BY <1>2, <1>3 DEF C!Disconnected

\* An application that is served by the contract never sees more outgoing
\* connections, attempted and established together, than the outgoing_limit it
\* gave to Start, and nothing is open outside OnStartup .. OnShutdown.
THEOREM ContractKeepsLimit == C!Contract => [](C!WithinLimit /\ C!QuietWhenStopped)
<1>1. C!Init => ContractInv
  BY FS_EmptySet DEF C!Init, ContractInv
<1>2. ContractInv /\ [C!Next]_C!cvars => ContractInv'
  <2>. SUFFICES ASSUME ContractInv, [C!Next]_C!cvars PROVE ContractInv'
    OBVIOUS
  <2>1. CASE C!Startup
    <3>1. Cardinality({}) = 0
      BY FS_EmptySet
    <3>. QED
      BY <2>1, <3>1 DEF C!Startup, ContractInv
  <2>2. CASE C!Take
    <3>1. Cardinality(app_out) + app_waiting' <= m_outgoing_conn_limit
      BY <2>2, SameSize, Zenon DEF C!Take
    <3>. QED
      BY <2>2, <3>1 DEF C!Take, ContractInv
  <2>3. CASE C!GiveUp
    <3>1. Cardinality(app_out) \in Nat
      BY FS_CardinalityType DEF ContractInv
    <3>. QED
      BY <2>3, <3>1 DEF C!GiveUp, ContractInv
  <2>4. CASE C!TearDown
    <3>1. IsFiniteSet({}) /\ Cardinality({}) = 0
      BY FS_EmptySet
    <3>. QED
      BY <2>4, <3>1 DEF C!TearDown, ContractInv
  <2>5. CASE C!Stopped
    BY <2>5 DEF C!Stopped, ContractInv
  <2>6. ASSUME NEW id \in ConnIDs, C!Incoming(id) PROVE ContractInv'
    BY <2>6 DEF C!Incoming, ContractInv
  <2>7. CASE UNCHANGED C!cvars
    BY <2>7 DEF C!cvars, ContractInv
  <2>. QED
    BY <2>1, <2>2, <2>3, <2>4, <2>5, <2>6, <2>7, OutgoingStep, DisconnectedStep DEF C!Next
<1>3. ContractInv => C!WithinLimit /\ C!QuietWhenStopped
  BY SameSize, Zenon DEF ContractInv, C!WithinLimit, C!QuietWhenStopped
<1>. QED
  BY <1>1, <1>2, <1>3, PTL DEF C!Contract
=============================================================================
