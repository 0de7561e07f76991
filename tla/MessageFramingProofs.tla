------------------------ MODULE MessageFramingProofs ------------------------
(***************************************************************************)
(* The watermarks of MessageFraming never hide a message and never lock     *)
(* each other out, for every network configuration and every stream.        *)
(*                                                                         *)
(* The heart of the inductive invariant is Woken: what reaches the low      *)
(* watermark is on its way to a callback. The properties follow because     *)
(* the low watermark is one of two values (MarksOK): the size of the        *)
(* header's first part, which every finding needs, or the size of the       *)
(* message at the front, if that is known and not refused.                  *)
(***************************************************************************)
EXTENDS MessageFraming, WellFoundedInduction, TLAPS

\* What is read at first, and after everything complete has been taken.
FirstMarks ==
    IF setup.chunk_size > 0 THEN low = setup.chunk_size /\ high = 0
                            ELSE low = setup.size_needed /\ high = max

\* What is read when the size of the message at the front is known.
KnownMarks ==
    /\ setup.chunk_size = 0
    /\ SizeKnown(taken) /\ ~TooBig(taken)
    /\ low = Size(taken + 1) /\ high = Size(taken + 1) + max

MarksOK == open => FirstMarks \/ KnownMarks

Woken == open /\ setup.early = 0 /\ Length >= low => "read" \in pending

HighKept == open /\ setup.early = 0 /\ high # 0 => Length <= high

Given == open => app_msgs = taken

Inv == TypeOK /\ MarksOK /\ Woken /\ HighKept /\ Given

-----------------------------------------------------------------------------
(* A setup's numbers. *)

\* A setup has the fields of SetupType.
LEMMA SetupFields ==
    ASSUME setup \in Setups
    PROVE  /\ setup \in SetupType
           /\ setup.chunk_size \in Nat /\ setup.header_size \in Nat
           /\ setup.size_needed \in Nat /\ max \in Nat /\ setup.early \in Nat
           /\ setup.stream \in Seq(Message) /\ Count \in Nat
<1>1. setup \in SetupType
  BY SetupsAssumption
<1> QED
  BY <1>1 DEF SetupType, max, Count

\* Every offset of a message is a natural number.
LEMMA OffsetNat ==
    ASSUME setup \in Setups, NEW k \in 0 .. Count
    PROVE  Offset(k) \in Nat
<1>1. CASE k = 0
  BY <1>1 DEF Offset, EndOf
<1>2. CASE k # 0
  <2>1. k \in 1 .. Len(setup.stream)
    BY <1>2, SetupFields DEF Count
  <2>2. setup.stream[k] \in Message
    BY <2>1, SetupFields
  <2> QED
    BY <1>2, <2>2 DEF Offset, EndOf, Message
<1> QED
  BY <1>1, <1>2

\* A message is at least its header, a chunk has its size, early is in range.
LEMMA Sizes ==
    ASSUME setup \in Setups
    PROVE  /\ setup.early <= Offset(Count)
           /\ setup.chunk_size = 0 =>
                /\ 0 < setup.size_needed /\ setup.size_needed <= setup.header_size
                /\ max = 0 \/ setup.size_needed <= max
           /\ \A k \in 1 .. Count :
                /\ Size(k) \in Int
                /\ setup.chunk_size = 0 => setup.header_size <= Size(k)
                /\ setup.chunk_size # 0 => Size(k) = setup.chunk_size
<1>1. /\ setup.early <= Offset(Count)
      /\ setup.chunk_size = 0 =>
            /\ 0 < setup.size_needed /\ setup.size_needed <= setup.header_size
            /\ max = 0 \/ setup.size_needed <= max
  BY SetupsAssumption DEF Offset, Count, max
<1>2. ASSUME NEW k \in 1 .. Count
      PROVE  /\ Size(k) \in Int
             /\ setup.chunk_size = 0 => setup.header_size <= Size(k)
             /\ setup.chunk_size # 0 => Size(k) = setup.chunk_size
  <2>1. k - 1 \in 0 .. Count /\ k \in 0 .. Count /\ k # 0
    BY SetupFields
  <2>2. Size(k) \in Int
    BY <2>1, OffsetNat DEF Size
  <2>3. Size(k) = setup.stream[k].end - EndOf(setup.stream, k - 1)
    BY <2>1 DEF Size, Offset, EndOf
  <2>4. IF setup.chunk_size = 0 THEN setup.header_size <= Size(k)
                                ELSE Size(k) = setup.chunk_size
    BY <2>3, SetupsAssumption DEF Count
  <2> QED
    BY <2>2, <2>4
<1> QED
  BY <1>1, <1>2

\* Taking out one more message leaves its size less.
LEMMA TakeOne ==
    ASSUME setup \in Setups, received \in Nat, NEW k \in 0 .. Count - 1
    PROVE  /\ k \in 0 .. Count /\ k + 1 \in 1 .. Count
           /\ LengthAfter(k) \in Int /\ LengthAfter(k + 1) \in Int /\ Size(k + 1) \in Int
           /\ LengthAfter(k + 1) = LengthAfter(k) - Size(k + 1)
<1>1. k \in 0 .. Count /\ k + 1 \in 0 .. Count /\ k + 1 \in 1 .. Count /\ (k + 1) - 1 = k
  BY SetupFields
<1>2. Offset(k) \in Nat /\ Offset(k + 1) \in Nat
  BY <1>1, OffsetNat
<1>3. Size(k + 1) = Offset(k + 1) - Offset(k)
  BY <1>1 DEF Size
<1> QED
  BY <1>1, <1>2, <1>3 DEF LengthAfter

\* A message ends where the one before it does, or later.
LEMMA OneEndsLater ==
    ASSUME setup \in Setups, NEW k \in 1 .. Count
    PROVE  Offset(k - 1) \in Nat /\ Offset(k) \in Nat /\ Offset(k - 1) <= Offset(k)
<1>1. k - 1 \in 0 .. Count /\ k \in 0 .. Count
  BY SetupFields
<1>2. Offset(k - 1) \in Nat /\ Offset(k) \in Nat
  BY <1>1, OffsetNat
<1>3. Size(k) >= 0
  BY Sizes, SetupFields
<1> QED
  BY <1>2, <1>3 DEF Size

\* No message ends later than one behind it. If one did, take the last that does: the next
\* ends later still.
LEMMA OffsetsGrow ==
    ASSUME setup \in Setups, NEW m \in 0 .. Count, NEW k \in 0 .. m
    PROVE  Offset(k) <= Offset(m)
<1> DEFINE R == OpToRel(<, Nat)
           Beyond == {j \in 0 .. m : ~(Offset(m - j) <= Offset(m))}
<1>1. IsWellFoundedOn(R, Nat) /\ \A x, y \in Nat : <<y, x>> \in R <=> y < x
  BY NatLessThanWellFounded DEF OpToRel
<1>2. m \in Nat /\ Count \in Nat /\ m <= Count
  BY SetupFields
<1>3. Beyond \subseteq Nat
  BY <1>2
<1> HIDE DEF R
<1>4. ASSUME Beyond # {}
      PROVE  FALSE
  <2>1. PICK j \in Beyond : \A i \in Beyond : <<i, j>> \notin R
    BY <1>1, <1>3, <1>4, WFMin
  <2>2. j \in 0 .. m /\ ~(Offset(m - j) <= Offset(m))
    BY <2>1
  <2>3. CASE j = 0
    <3>1. Offset(m) \in Nat /\ m - j = m
      BY <1>2, <2>3, OffsetNat
    <3> QED
      BY <2>2, <3>1
  <2>4. CASE j # 0
    <3>1. j - 1 \in 0 .. m /\ j - 1 < j /\ j - 1 \in Nat /\ j \in Nat
      BY <1>2, <2>2, <2>4
    <3>2. j - 1 \notin Beyond
      BY <1>1, <2>1, <3>1
    <3>3. Offset(m - (j - 1)) <= Offset(m)
      BY <3>1, <3>2
    <3>4. m - (j - 1) \in 1 .. Count /\ (m - (j - 1)) - 1 = m - j
      BY <1>2, <2>2, <2>4
    <3>5. /\ Offset(m - j) \in Nat /\ Offset(m - (j - 1)) \in Nat
          /\ Offset(m - j) <= Offset(m - (j - 1))
      BY <3>4, OneEndsLater
    <3>6. Offset(m) \in Nat
      BY <1>2, OffsetNat
    <3> QED
      BY <2>2, <3>3, <3>5, <3>6
  <2> QED
    BY <2>3, <2>4
<1>5. m - k \in 0 .. m /\ m - (m - k) = k
  BY <1>2
<1> QED
  BY <1>4, <1>5

-----------------------------------------------------------------------------
(* The invariant gives the properties. *)

\* What a callback would find, it is on its way to find.
LEMMA WokenFinds == Inv => NothingWithheld /\ NeverStuck /\ BoundedInput
<1> SUFFICES ASSUME Inv PROVE NothingWithheld /\ NeverStuck /\ BoundedInput
  OBVIOUS
<1>1. /\ setup \in Setups /\ taken \in 0 .. Count /\ received \in Nat
      /\ Length >= 0 /\ low \in Nat /\ high \in Nat
  <2>1. Offset(Count) \in Nat
    BY SetupFields, OffsetNat DEF Inv, TypeOK
  <2> QED
    BY <2>1 DEF Inv, TypeOK
<1>2. Length \in Int
  BY <1>1, OffsetNat DEF Length, LengthAfter
<1>3. ASSUME open, setup.chunk_size = 0, HeaderIn(taken),
             Complete(taken) \/ TooBig(taken) \/ BadStart(taken)
      PROVE  Length >= low
  <2>1. CASE FirstMarks
    BY <1>3, <2>1, <1>1, <1>2, SetupFields DEF FirstMarks, HeaderIn, Length
  <2>2. CASE KnownMarks
    BY <1>3, <2>2 DEF KnownMarks, SizeKnown, Complete, Length
  <2> QED
    BY <1>3, <2>1, <2>2 DEF Inv, MarksOK
<1>4. ASSUME open, setup.chunk_size # 0
      PROVE  low = setup.chunk_size /\ high = 0
  BY <1>4, <1>1, SetupFields DEF Inv, MarksOK, FirstMarks, KnownMarks
<1>5. NothingWithheld
  <2> SUFFICES ASSUME setup.early = 0, open, taken < Count,
                      IF setup.chunk_size = 0
                      THEN Complete(taken) \/ TooBig(taken) \/ BadStart(taken)
                      ELSE Length >= setup.chunk_size
               PROVE  "read" \in pending
    BY DEF NothingWithheld, NothingWithheldAtAll
  <2>1. CASE setup.chunk_size = 0
    <3>1. HeaderIn(taken)
      BY <2>1 DEF Complete, TooBig, BadStart, SizeKnown
    <3>2. Length >= low
      BY <2>1, <3>1, <1>3
    <3> QED
      BY <3>2 DEF Inv, Woken
  <2>2. CASE setup.chunk_size # 0
    <3>1. Length >= low
      BY <2>2, <1>4
    <3> QED
      BY <3>1 DEF Inv, Woken
  <2> QED
    BY <2>1, <2>2
<1>6. NeverStuck
  <2> SUFFICES ASSUME setup.early = 0, open, high # 0, Length >= high
               PROVE  "read" \in pending
    BY DEF NeverStuck, Suspended
  <2>1. setup.chunk_size = 0
    BY <1>4
  <2>2. CASE FirstMarks
    <3>1. low <= high
      BY <2>1, <2>2, <1>1, Sizes, SetupFields DEF FirstMarks
    <3> QED
      BY <3>1, <1>1, <1>2 DEF Inv, Woken
  <2>3. CASE KnownMarks
    <3>1. low <= high
      BY <2>3, <1>1, SetupFields DEF KnownMarks
    <3> QED
      BY <3>1, <1>1, <1>2 DEF Inv, Woken
  <2> QED
    BY <2>2, <2>3 DEF Inv, MarksOK
<1>7. BoundedInput
  <2> SUFFICES ASSUME open, setup.chunk_size = 0, max > 0, setup.early = 0
               PROVE  Length <= 2 * max
    BY DEF BoundedInput
  <2>1. max \in Nat
    BY <1>1, SetupFields
  <2>2. CASE FirstMarks
    <3>1. high = max
      BY <2>2, SetupFields, <1>1 DEF FirstMarks
    <3>2. Length <= high
      BY <3>1, <2>1 DEF Inv, HighKept
    <3> QED
      BY <3>1, <3>2, <2>1, <1>2
  <2>3. CASE KnownMarks
    <3>1. taken \in 0 .. Count - 1
      BY <2>3, <1>1, SetupFields DEF KnownMarks, SizeKnown, HeaderIn
    <3>2. Size(taken + 1) \in Int
      BY <3>1, <1>1, TakeOne
    <3>3. Size(taken + 1) <= max
      BY <2>3, <3>2, <2>1 DEF KnownMarks, TooBig
    <3>4. high <= 2 * max /\ high # 0
      <4>1. high = low + max /\ low <= max
        BY <2>3, <3>3 DEF KnownMarks
      <4> QED
        BY <4>1, <1>1, <2>1
    <3>5. Length <= high
      BY <3>4 DEF Inv, HighKept
    <3> QED
      BY <3>4, <3>5, <1>1, <1>2, <2>1
  <2> QED
    BY <2>2, <2>3 DEF Inv, MarksOK
<1> QED
  BY <1>5, <1>6, <1>7

\* All of the stream that is in the input and not taken out has a callback on its way.
LEMMA RestAhead == Inv => RestCanArrive
<1> SUFFICES ASSUME Inv, setup.early = 0, open, taken < Count, "read" \notin pending
             PROVE  received < Offset(Count) /\ ~Suspended
  BY DEF RestCanArrive
<1>1. ~Suspended
  BY WokenFinds DEF NeverStuck
<1>2. /\ setup \in Setups /\ taken \in 0 .. Count /\ taken + 1 \in 1 .. Count
      /\ taken + 1 \in 0 .. Count /\ (taken + 1) - 1 = taken
      /\ received \in Nat /\ received <= Offset(Count) /\ low \in Nat
  <2>1. setup \in Setups /\ taken \in 0 .. Count /\ received \in 0 .. Offset(Count) /\ low \in Nat
    BY DEF Inv, TypeOK
  <2>2. Offset(Count) \in Nat /\ Count \in Nat
    BY <2>1, SetupFields, OffsetNat
  <2> QED
    BY <2>1, <2>2
<1>3. /\ Offset(taken) \in Nat /\ Offset(taken + 1) \in Nat /\ Offset(Count) \in Nat
      /\ Offset(taken + 1) <= Offset(Count)
  BY <1>2, OffsetNat, OffsetsGrow, SetupFields
<1>4. Length = received - Offset(taken) /\ Size(taken + 1) = Offset(taken + 1) - Offset(taken)
  BY <1>2 DEF Length, LengthAfter, Size
<1>5. Length < low
  BY <1>2, <1>3, <1>4 DEF Inv, Woken
<1>6. low <= Size(taken + 1)
  <2>1. setup.chunk_size # 0 => Size(taken + 1) = setup.chunk_size
    BY <1>2, Sizes
  <2>2. setup.chunk_size = 0 => setup.size_needed <= Size(taken + 1)
    BY <1>2, <1>3, <1>4, Sizes, SetupFields
  <2>3. CASE FirstMarks
    BY <1>2, <1>3, <1>4, <2>1, <2>2, <2>3, SetupFields DEF FirstMarks
  <2>4. CASE KnownMarks
    BY <1>3, <1>4, <2>4 DEF KnownMarks
  <2> QED
    BY <2>3, <2>4 DEF Inv, MarksOK
<1> QED
  BY <1>1, <1>2, <1>3, <1>4, <1>5, <1>6

-----------------------------------------------------------------------------
(* The invariant is inductive. *)

\* The first watermarks fit whatever setup there is; nothing has been given.
LEMMA InitInv == Init => Inv
<1> SUFFICES ASSUME Init PROVE Inv
  OBVIOUS
<1>1. setup \in Setups /\ open /\ received = setup.early /\ taken = 0 /\ app_msgs = 0
      /\ pending = {} /\ ~app_malformed /\ reading /\ ~eof
  BY DEF Init
<1>2. Offset(0) = 0
  BY DEF Offset, EndOf
<1>3. Length = setup.early /\ setup.early \in Nat
  BY <1>1, <1>2, SetupFields DEF Length, LengthAfter
<1>4. FirstMarks
  BY SetupFields DEF Init, FirstMarks
<1>5. /\ low \in Nat /\ high \in Nat
      /\ setup.early = 0 => Length <= high
  BY <1>1, <1>3, <1>4, SetupFields DEF FirstMarks
<1>6. TypeOK
  <2>1. Count \in Nat /\ Offset(Count) \in Nat /\ received <= Offset(Count)
    BY <1>1, SetupFields, OffsetNat, Sizes
  <2>2. received \in 0 .. Offset(Count) /\ taken \in 0 .. Count /\ Length >= 0
    BY <1>1, <1>3, <2>1
  <2>3. {open, reading, eof, app_malformed} \subseteq BOOLEAN
    BY DEF Init
  <2> QED
    BY <1>1, <1>5, <2>2, <2>3 DEF TypeOK
<1>7. Woken
  <2> SUFFICES ASSUME setup.early = 0, Length >= low PROVE FALSE
    BY DEF Woken
  <2>1. low > 0
    BY <1>1, <1>4, SetupFields, Sizes DEF FirstMarks
  <2> QED
    BY <2>1, <1>3, <1>5
<1>8. Given
  BY <1>1 DEF Given
<1> QED
  BY <1>4, <1>5, <1>6, <1>7, <1>8 DEF Inv, MarksOK, HighKept

\* What an action leaves alone of the setup's and the input's derived values.
LEMMA Kept ==
    ASSUME UNCHANGED setup
    PROVE  /\ max' = max /\ Count' = Count
           /\ \A k : Offset(k)' = Offset(k)
           /\ \A k : Size(k)' = Size(k)
           /\ UNCHANGED received => \A k : LengthAfter(k)' = LengthAfter(k)
           /\ UNCHANGED input => Length' = Length
BY DEF max, Count, Offset, Size, LengthAfter, Length, input

\* An arrival wakes the callback at the low watermark and stops at the high one.
LEMMA ArriveInv == ASSUME Inv, NEW n \in 1 .. Offset(Count), Arrive(n) PROVE Inv'
<1> USE Kept
<1>1. /\ setup \in Setups /\ taken \in 0 .. Count /\ received \in Nat
      /\ Offset(Count) \in Nat /\ Offset(taken) \in Nat /\ low \in Nat /\ high \in Nat
  <2>1. setup \in Setups /\ taken \in 0 .. Count /\ low \in Nat /\ high \in Nat
    BY DEF Inv, TypeOK
  <2>2. Offset(Count) \in Nat /\ Offset(taken) \in Nat
    BY <2>1, SetupFields, OffsetNat
  <2> QED
    BY <2>1, <2>2 DEF Inv, TypeOK
<1>2. /\ UNCHANGED <<setup, open, taken, low, high, reading, eof, app_msgs, app_malformed>>
      /\ received' = received + n /\ received + n <= Offset(Count)
      /\ high # 0 => Length + n <= high
      /\ pending' = IF Length + n >= low THEN pending \cup {"read"} ELSE pending
  BY DEF Arrive, marks, app
<1>3. n \in Nat
  BY <1>1
<1>4. Length' = Length + n /\ Length \in Int
  <2>1. Offset(taken)' = Offset(taken)
    BY <1>2
  <2> QED
    BY <1>1, <1>2, <1>3, <2>1 DEF Length, LengthAfter
<1>5. TypeOK'
  <2>1. received' \in 0 .. Offset(Count)'
    BY <1>1, <1>2, <1>3
  <2>2. Length' >= 0
    BY <1>3, <1>4 DEF Inv, TypeOK
  <2>3. pending' \subseteq {"read", "event"}
    BY <1>2 DEF Inv, TypeOK
  <2> QED
    BY <1>2, <2>1, <2>2, <2>3 DEF Inv, TypeOK
<1>6. MarksOK'
  <2>1. FirstMarks => FirstMarks'
    BY <1>2 DEF FirstMarks
  <2>2. ASSUME KnownMarks PROVE KnownMarks'
    <3>1. /\ taken \in Nat /\ LengthAfter(taken) \in Int
          /\ LengthAfter(taken)' = LengthAfter(taken) + n
      BY <1>1, <1>4, SetupFields DEF Length
    <3>2. HeaderIn(taken)'
      BY <1>2, <1>3, <2>2, <3>1, <1>1, SetupFields DEF KnownMarks, SizeKnown, HeaderIn
    <3>3. SizeKnown(taken)' /\ ~TooBig(taken)'
      BY <1>2, <2>2, <3>2 DEF KnownMarks, SizeKnown, BadStart, TooBig
    <3> QED
      BY <1>2, <2>2, <3>3 DEF KnownMarks
  <2> QED
    BY <1>2, <2>1, <2>2 DEF Inv, MarksOK
<1>7. Woken' /\ HighKept'
  BY <1>2, <1>4 DEF Woken, HighKept
<1>8. Given'
  BY <1>2 DEF Inv, Given
<1> QED
  BY <1>5, <1>6, <1>7, <1>8 DEF Inv

\* A step that leaves the input, the watermarks and the application's view alone
\* and either closes the connection or only adds to what is deferred.
LEMMA AsideInv ==
    ASSUME Inv, UNCHANGED <<setup, input, marks, app>>,
           reading' \in BOOLEAN, eof' \in BOOLEAN,
           \/ open' = FALSE /\ pending' = {}
           \/ open' = open /\ pending \subseteq pending' /\ pending' \subseteq {"read", "event"}
    PROVE  Inv'
<1> USE Kept
<1>1. /\ UNCHANGED <<setup, received, taken, low, high, app_msgs, app_malformed>>
      /\ Length' = Length
  BY DEF input, marks, app
<1>2. TypeOK'
  <2>1. open' \in BOOLEAN /\ pending' \subseteq {"read", "event"} /\ app_malformed' \in BOOLEAN
    BY <1>1 DEF Inv, TypeOK
  <2> QED
    BY <1>1, <2>1 DEF Inv, TypeOK
<1>3. open' => open
  OBVIOUS
<1>4. MarksOK'
  <2>1. FirstMarks => FirstMarks'
    BY <1>1 DEF FirstMarks
  <2>2. KnownMarks => KnownMarks'
    BY <1>1 DEF KnownMarks, SizeKnown, HeaderIn, BadStart, TooBig
  <2> QED
    BY <1>3, <2>1, <2>2 DEF Inv, MarksOK
<1>5. Woken' /\ HighKept'
  BY <1>1, <1>3 DEF Inv, Woken, HighKept
<1>6. Given'
  BY <1>1, <1>3 DEF Inv, Given
<1> QED
  BY <1>2, <1>4, <1>5, <1>6 DEF Inv

\* What the loop of read_cb_message has taken out was complete and well formed;
\* what is left is not.
LEMMA LoopTakes ==
    ASSUME Inv, setup.chunk_size = 0, NEW k \in taken .. Count, LoopEndsAt(k), open
    PROVE  /\ k \in 0 .. Count /\ LengthAfter(k) \in Int /\ LengthAfter(k) >= 0
           /\ \A i \in taken + 1 .. k : i \in ArrivedWhole /\ WellFormed(i)
<1>1. /\ setup \in Setups /\ taken \in 0 .. Count /\ received \in Nat
      /\ Count \in Nat /\ app_msgs = taken
  <2>1. setup \in Setups
    BY DEF Inv, TypeOK
  <2>2. Count \in Nat /\ Offset(Count) \in Nat
    BY <2>1, SetupFields, OffsetNat
  <2> QED
    BY <2>1, <2>2 DEF Inv, TypeOK, Given
<1>2. k \in 0 .. Count
  BY <1>1
<1>3. LengthAfter(k) \in Int
  BY <1>1, <1>2, OffsetNat DEF LengthAfter
<1>4. LengthAfter(k) >= 0
  <2>1. CASE k = taken
    BY <2>1 DEF Inv, TypeOK, Length
  <2>2. CASE k # taken
    <3>1. k - 1 \in taken .. k - 1 /\ k - 1 \in 0 .. Count - 1 /\ (k - 1) + 1 = k
      BY <1>1, <1>2, <2>2
    <3>2. LengthAfter(k - 1) >= Size(k)
      BY <3>1 DEF LoopEndsAt, Deliverable, Complete
    <3>3. /\ LengthAfter(k) = LengthAfter(k - 1) - Size(k)
          /\ LengthAfter(k - 1) \in Int /\ Size(k) \in Int
      BY <1>1, <3>1, TakeOne
    <3> QED
      BY <3>2, <3>3
  <2> QED
    BY <2>1, <2>2
<1>5. ASSUME NEW i \in taken + 1 .. k
      PROVE  i \in ArrivedWhole /\ WellFormed(i)
  <2>1. /\ i - 1 \in taken .. k - 1 /\ (i - 1) + 1 = i
        /\ i \in 1 .. Count /\ i \in 0 .. Count /\ i - 1 \in 0 .. Count
    BY <1>1, <1>2
  <2>2. Deliverable(i - 1)
    BY <2>1 DEF LoopEndsAt
  <2>3. Offset(i) \in Nat /\ Offset(i - 1) \in Nat /\ Size(i) = Offset(i) - Offset(i - 1)
    BY <1>1, <2>1, OffsetNat DEF Size
  <2>4. Offset(i) <= received
    BY <1>1, <2>1, <2>2, <2>3 DEF Deliverable, Complete, LengthAfter
  <2>5. max \in Nat
    BY <1>1, SetupFields
  <2>6. WellFormed(i)
    BY <2>1, <2>2, <2>3, <2>5
       DEF Deliverable, Complete, SizeKnown, BadStart, TooBig, WellFormed
  <2> QED
    BY <2>1, <2>4, <2>6 DEF ArrivedWhole
<1> QED
  BY <1>2, <1>3, <1>4, <1>5

\* read_cb_message leaves less behind than the low watermark it sets.
LEMMA ReadMessageInv ==
    ASSUME Inv, NEW k \in taken .. Count, read_cb_message(k) PROVE Inv'
<1> USE Kept
<1>1. /\ open /\ setup.chunk_size = 0 /\ LoopEndsAt(k) /\ SetMarks(k)
      /\ UNCHANGED <<setup, eof, received>> /\ app_msgs' = k
      /\ taken' = IF TooBig(k) /\ Complete(k) THEN k + 1 ELSE k
  BY DEF read_cb_message, DisconnectInt
<1>2. /\ setup \in Setups /\ taken \in 0 .. Count /\ received \in Nat
      /\ Count \in Nat /\ max \in Nat /\ setup.size_needed \in Nat /\ setup.header_size \in Nat
      /\ low \in Nat /\ high \in Nat
  <2>1. setup \in Setups
    BY DEF Inv, TypeOK
  <2>2. Count \in Nat /\ Offset(Count) \in Nat /\ max \in Nat
        /\ setup.size_needed \in Nat /\ setup.header_size \in Nat
    BY <2>1, SetupFields, OffsetNat
  <2> QED
    BY <2>1, <2>2 DEF Inv, TypeOK
<1>3. k \in 0 .. Count /\ LengthAfter(k) \in Int /\ LengthAfter(k) >= 0
  BY <1>1, LoopTakes
<1>4. HeaderIn(k) => k \in 0 .. Count - 1
  BY <1>2, <1>3 DEF HeaderIn
<1>5. ASSUME SizeKnown(k)
      PROVE  Size(k + 1) \in Nat /\ setup.header_size <= Size(k + 1)
  <2>1. k \in 0 .. Count - 1 /\ k + 1 \in 1 .. Count
    BY <1>2, <1>4, <1>5 DEF SizeKnown
  <2>2. Size(k + 1) \in Int /\ setup.header_size <= Size(k + 1)
    BY <1>1, <1>2, <2>1, Sizes
  <2> QED
    BY <1>2, <2>2
<1>6. low' \in Nat /\ high' \in Nat
  BY <1>1, <1>2, <1>5 DEF SetMarks, marks
<1>7. taken' \in 0 .. Count /\ Length' >= 0
  <2>1. CASE TooBig(k) /\ Complete(k)
    <3>1. k \in 0 .. Count - 1 /\ taken' = k + 1
      BY <1>1, <1>4, <2>1 DEF TooBig, SizeKnown
    <3>2. /\ LengthAfter(k + 1) = LengthAfter(k) - Size(k + 1) /\ LengthAfter(k + 1) \in Int
          /\ Size(k + 1) \in Int
      BY <1>2, <3>1, TakeOne
    <3>3. LengthAfter(k + 1) >= 0
      BY <1>3, <2>1, <3>2 DEF Complete
    <3>4. Length' = LengthAfter(k + 1)
      BY <1>1, <3>1 DEF Length, LengthAfter
    <3> QED
      BY <1>2, <3>1, <3>3, <3>4
  <2>2. CASE ~(TooBig(k) /\ Complete(k))
    <3>1. taken' = k /\ Length' = LengthAfter(k)
      BY <1>1, <2>2 DEF Length, LengthAfter
    <3> QED
      BY <1>3, <3>1
  <2> QED
    BY <2>1, <2>2
<1>8. CASE TooBig(k) \/ BadStart(k)
  <2>1. /\ open' = FALSE /\ reading' = FALSE /\ pending' = {} /\ app_malformed' = TRUE
    BY <1>8 DEF read_cb_message, DisconnectInt
  <2>2. TypeOK'
    <3>1. app_msgs' \in 0 .. Count' /\ taken' \in 0 .. Count' /\ received' \in 0 .. Offset(Count)'
      BY <1>1, <1>3, <1>7 DEF Inv, TypeOK
    <3>2. {open', reading', eof', app_malformed'} \subseteq BOOLEAN
      BY <1>1, <2>1 DEF Inv, TypeOK
    <3> QED
      BY <1>1, <1>2, <1>6, <1>7, <2>1, <3>1, <3>2 DEF TypeOK
  <2>3. MarksOK' /\ Woken' /\ HighKept'
    BY <2>1 DEF MarksOK, Woken, HighKept
  <2>4. Given'
    BY <2>1 DEF Given
  <2> QED
    BY <2>2, <2>3, <2>4 DEF Inv
<1>9. CASE ~(TooBig(k) \/ BadStart(k))
  <2>1. /\ UNCHANGED <<open, reading, app_malformed>> /\ pending' = pending \ {"read"}
        /\ taken' = k /\ Length' = LengthAfter(k)
    BY <1>1, <1>9 DEF read_cb_message, Length, LengthAfter
  <2>2. TypeOK'
    <3>1. app_msgs' \in 0 .. Count' /\ taken' \in 0 .. Count' /\ received' \in 0 .. Offset(Count)'
      BY <1>1, <1>3, <2>1 DEF Inv, TypeOK
    <3>2. {open', reading', eof', app_malformed'} \subseteq BOOLEAN
      BY <1>1, <2>1 DEF Inv, TypeOK
    <3>3. pending' \subseteq {"read", "event"}
      BY <2>1 DEF Inv, TypeOK
    <3> QED
      BY <1>1, <1>2, <1>6, <1>7, <3>1, <3>2, <3>3 DEF TypeOK
  <2>3. /\ MarksOK' /\ Length' < low'
        /\ high' # 0 => low' <= high'
    <3>1. CASE SizeKnown(k)
      <4>1. low' = Size(k + 1) /\ high' = Size(k + 1) + max
        BY <1>1, <3>1 DEF SetMarks
      <4>2. LengthAfter(k) < Size(k + 1)
        <5>1. ~(LengthAfter(k) >= Size(k + 1))
          BY <1>1, <1>9, <3>1 DEF LoopEndsAt, Deliverable, Complete
        <5> QED
          BY <1>3, <1>5, <3>1, <5>1
      <4>3. SizeKnown(taken)' /\ ~TooBig(taken)'
        BY <1>1, <1>9, <2>1, <3>1 DEF SizeKnown, HeaderIn, BadStart, TooBig
      <4>4. KnownMarks'
        BY <1>1, <2>1, <4>1, <4>3 DEF KnownMarks
      <4>5. low' <= high'
        BY <1>2, <1>5, <3>1, <4>1
      <4> QED
        BY <2>1, <4>1, <4>2, <4>4, <4>5 DEF MarksOK
    <3>2. CASE ~SizeKnown(k)
      <4>1. low' = setup.size_needed /\ high' = max /\ ~HeaderIn(k)
        BY <1>1, <1>9, <3>2 DEF SetMarks, SizeKnown
      <4>2. FirstMarks'
        BY <1>1, <4>1 DEF FirstMarks
      <4>3. 0 < setup.size_needed /\ (max = 0 \/ setup.size_needed <= max)
        BY <1>1, <1>2, Sizes
      <4>4. LengthAfter(k) < setup.size_needed
        <5>1. CASE k < Count
          BY <1>2, <1>3, <4>1, <5>1 DEF HeaderIn
        <5>2. CASE k = Count
          <6>1. received <= Offset(Count) /\ Offset(Count) \in Nat
            <7>1. Offset(Count) \in Nat
              BY <1>2, OffsetNat
            <7> QED
              BY <7>1 DEF Inv, TypeOK
          <6>2. LengthAfter(k) <= 0
            BY <1>2, <5>2, <6>1 DEF LengthAfter
          <6> QED
            BY <1>2, <1>3, <4>3, <6>2
        <5> QED
          BY <1>2, <1>3, <5>1, <5>2
      <4> QED
        BY <2>1, <4>1, <4>2, <4>3, <4>4 DEF MarksOK
    <3> QED
      BY <3>1, <3>2
  <2>4. Woken' /\ HighKept'
    <3>1. Length' \in Int
      BY <1>3, <2>1
    <3> QED
      BY <1>6, <2>3, <3>1 DEF Woken, HighKept
  <2>5. Given'
    BY <1>1, <1>3, <2>1 DEF Inv, Given
  <2> QED
    BY <2>2, <2>3, <2>4, <2>5 DEF Inv
<1> QED
  BY <1>8, <1>9

\* read_cb_chunk leaves less than a chunk behind.
LEMMA ReadChunkInv ==
    ASSUME Inv, NEW k \in taken .. Count, read_cb_chunk(k) PROVE Inv'
<1> USE Kept
<1>1. /\ open /\ setup.chunk_size > 0 /\ LengthAfter(k) >= 0 /\ LengthAfter(k) < setup.chunk_size
      /\ UNCHANGED <<setup, open, received, low, high, reading, eof, app_malformed>>
      /\ taken' = k /\ app_msgs' = k /\ pending' = pending \ {"read"}
  BY DEF read_cb_chunk, marks
<1>2. /\ setup \in Setups /\ taken \in 0 .. Count /\ Count \in Nat
      /\ setup.chunk_size \in Nat /\ setup.chunk_size # 0
  <2>1. setup \in Setups /\ taken \in 0 .. Count
    BY DEF Inv, TypeOK
  <2> QED
    BY <1>1, <2>1, SetupFields
<1>3. k \in 0 .. Count
  BY <1>2
<1>4. Length' = LengthAfter(k) /\ Length' >= 0
  BY <1>1 DEF Length, LengthAfter
<1>5. low = setup.chunk_size /\ high = 0
  BY <1>1, <1>2 DEF Inv, MarksOK, FirstMarks, KnownMarks
<1>6. TypeOK'
  <2>1. app_msgs' \in 0 .. Count' /\ taken' \in 0 .. Count' /\ received' \in 0 .. Offset(Count)'
    BY <1>1, <1>3 DEF Inv, TypeOK
  <2>2. {open', reading', eof', app_malformed'} \subseteq BOOLEAN
    BY <1>1 DEF Inv, TypeOK
  <2>3. pending' \subseteq {"read", "event"}
    BY <1>1 DEF Inv, TypeOK
  <2> QED
    BY <1>1, <1>2, <1>4, <1>5, <2>1, <2>2, <2>3 DEF TypeOK
<1>7. MarksOK'
  BY <1>1, <1>5 DEF MarksOK, FirstMarks
<1>8. Woken' /\ HighKept'
  <2>1. LengthAfter(k) \in Int
    <3>1. Offset(k) \in Nat /\ Offset(Count) \in Nat
      BY <1>2, <1>3, OffsetNat
    <3> QED
      BY <3>1 DEF Inv, TypeOK, LengthAfter
  <2>2. ~(Length' >= low')
    BY <1>1, <1>2, <1>4, <1>5, <2>1
  <2> QED
    BY <1>1, <1>5, <2>2 DEF Woken, HighKept
<1>9. Given'
  BY <1>1, <1>2 DEF Inv, Given
<1> QED
  BY <1>6, <1>7, <1>8, <1>9 DEF Inv

\* Every step preserves the invariant.
LEMMA NextInv == Inv /\ [Next]_vars => Inv'
<1> SUFFICES ASSUME Inv, [Next]_vars PROVE Inv'
  OBVIOUS
<1>0. {open, reading, eof, app_malformed} \subseteq BOOLEAN /\ pending \subseteq {"read", "event"}
  BY DEF Inv, TypeOK
<1>1. CASE Arrival
  BY <1>1, ArriveInv DEF Arrival
<1>2. ASSUME NEW onRead \in BOOLEAN, Fails(onRead) PROVE Inv'
  <2>1. UNCHANGED <<setup, input, marks, app>> /\ open' = open /\ reading' = reading
        /\ pending' = pending \cup {"event"}
    BY <1>2 DEF Fails
  <2>2. eof' \in BOOLEAN
    BY <1>2 DEF Fails
  <2> QED
    BY <1>0, <2>1, <2>2, AsideInv
<1>3. CASE PauseRecv \/ UnpauseRecv
  BY <1>0, <1>3, AsideInv DEF PauseRecv, UnpauseRecv
<1>4. CASE Disconnect \/ event_cb
  BY <1>0, <1>4, AsideInv DEF Disconnect, event_cb, DisconnectInt
<1>5. CASE ReadCallback
  BY <1>5, ReadMessageInv, ReadChunkInv DEF ReadCallback
<1>6. CASE UNCHANGED vars
  BY <1>0, <1>6, AsideInv DEF vars
<1> QED
  BY <1>1, <1>2, <1>3, <1>4, <1>5, <1>6 DEF Next

\* The inductive invariant of MessageFraming.
THEOREM Invariance == Spec => []Inv
BY InitInv, NextInv, PTL DEF Spec

\* No callback takes more out of the input than there is.
THEOREM TypeCorrect == Spec => []TypeOK
<1>1. Inv => TypeOK
  BY DEF Inv
<1> QED
  BY <1>1, Invariance, PTL

\* No complete or malformed message lies in the input without a callback on its way.
THEOREM DeliversAll == Spec => []NothingWithheld
<1>1. Inv => NothingWithheld
  BY WokenFinds
<1> QED
  BY <1>1, Invariance, PTL

\* The watermarks never lock each other out.
THEOREM NeverLocked == Spec => []NeverStuck
<1>1. Inv => NeverStuck
  BY WokenFinds
<1> QED
  BY <1>1, Invariance, PTL

\* While the stream has a message to come, the rest of it can be read: what the delivery
\* of all of the stream rests on, beside fairness.
THEOREM AlwaysGoesOn == Spec => []RestCanArrive
<1>1. Inv => RestCanArrive
  BY RestAhead
<1> QED
  BY <1>1, Invariance, PTL

\* The input is bounded by two messages.
THEOREM InputBounded == Spec => []BoundedInput
<1>1. Inv => BoundedInput
  BY WokenFinds
<1> QED
  BY <1>1, Invariance, PTL

\* What read_cb_message leaves to its next call: the input and the marks that bound it.
THEOREM StateConsistent == Spec => []Consistent
BY TypeCorrect, NeverLocked, AlwaysGoesOn, InputBounded, PTL DEF Consistent

-----------------------------------------------------------------------------
(* The contract of handler.h. *)

\* read_cb_message gives what the loop has taken and refuses the next message or not.
LEMMA ReadMessagePromised ==
    ASSUME Inv, NEW k \in taken .. Count, read_cb_message(k)
    PROVE  M!Next
<1>1. /\ open /\ setup.chunk_size = 0 /\ LoopEndsAt(k) /\ app_msgs' = k
      /\ UNCHANGED <<setup, received>>
  BY DEF read_cb_message, DisconnectInt
<1>2. setup \in Setups /\ Count \in Nat /\ taken \in 0 .. Count /\ app_msgs = taken
  BY <1>1, SetupFields DEF Inv, TypeOK, Given
<1>3. Len(Messages) = Count /\ \A i \in 1 .. Count : Messages[i] = WellFormed(i)
  BY <1>2 DEF Messages
<1>4. M!Given
  <2>1. \A i \in taken + 1 .. k : i \in ArrivedWhole /\ WellFormed(i)
    BY <1>1, LoopTakes
  <2>2. \A i \in taken + 1 .. k : i \in 1 .. Count
    BY <1>2
  <2>3. \A i \in taken + 1 .. k : i \in ArrivedWhole /\ Messages[i]
    BY <1>3, <2>1, <2>2
  <2> QED
    BY <1>1, <1>2, <1>3, <2>3 DEF M!Given
<1>5. Messages' = Messages /\ ArrivedWhole' = ArrivedWhole
  BY <1>1 DEF Messages, ArrivedWhole, WellFormed, Count, Offset, Size, max
<1>6. CASE TooBig(k) \/ BadStart(k)
  <2>1. open' = FALSE /\ app_malformed' = TRUE
    BY <1>6 DEF read_cb_message, DisconnectInt
  <2>2. k < Count /\ ~WellFormed(k + 1)
    <3>1. max \in Nat
      BY <1>2, SetupFields
    <3>2. k \in 0 .. Count - 1 /\ k + 1 \in 1 .. Count
      BY <1>2, <1>6 DEF TooBig, BadStart, SizeKnown, HeaderIn
    <3>3. Size(k + 1) \in Int
      BY <1>2, <3>2, Sizes
    <3>4. CASE TooBig(k)
      <4>1. max > 0 /\ Size(k + 1) > max
        BY <3>4 DEF TooBig
      <4>2. ~(Size(k + 1) <= max)
        BY <3>1, <3>3, <4>1
      <4> QED
        BY <1>1, <1>2, <3>2, <4>1, <4>2 DEF WellFormed
    <3>5. CASE BadStart(k)
      BY <1>1, <1>2, <3>2, <3>5 DEF BadStart, WellFormed
    <3> QED
      BY <1>6, <3>4, <3>5
  <2>3. app_msgs' < Len(Messages) /\ ~Messages[app_msgs' + 1]
    <3>1. k + 1 \in 1 .. Count
      BY <1>2, <2>2
    <3> QED
      BY <1>1, <1>3, <2>2, <3>1
  <2>4. M!Refuse
    BY <1>1, <1>4, <1>5, <2>1, <2>3 DEF M!Refuse
  <2> QED
    BY <2>4 DEF M!Next
<1>7. CASE ~(TooBig(k) \/ BadStart(k))
  <2>1. UNCHANGED <<open, app_malformed>>
    BY <1>7 DEF read_cb_message
  <2>2. M!Receive
    BY <1>1, <1>4, <1>5, <2>1 DEF M!Receive
  <2> QED
    BY <2>2 DEF M!Next
<1> QED
  BY <1>6, <1>7

\* read_cb_chunk gives chunks that are whole: none ends behind the last one it takes.
LEMMA ReadChunkPromised ==
    ASSUME Inv, NEW k \in taken .. Count, read_cb_chunk(k)
    PROVE  M!Next
<1>1. /\ open /\ setup.chunk_size > 0 /\ app_msgs' = k /\ LengthAfter(k) >= 0
      /\ UNCHANGED <<setup, received, open, app_malformed>>
  BY DEF read_cb_chunk
<1>2. setup \in Setups /\ Count \in Nat /\ taken \in 0 .. Count /\ app_msgs = taken
  BY <1>1, SetupFields DEF Inv, TypeOK, Given
<1>3. received \in Nat
  BY <1>2, OffsetNat DEF Inv, TypeOK
<1>4. ASSUME NEW i \in taken + 1 .. k
      PROVE  i \in ArrivedWhole /\ Messages[i]
  <2>1. i \in 1 .. Count /\ i \in 0 .. k /\ k \in 0 .. Count /\ i \in 0 .. Count
    BY <1>2
  <2>2. Offset(i) \in Nat /\ Offset(k) \in Nat /\ Offset(i) <= Offset(k)
    BY <1>2, <2>1, OffsetNat, OffsetsGrow
  <2>3. Offset(i) <= received
    BY <1>1, <1>3, <2>2 DEF LengthAfter
  <2>4. WellFormed(i)
    BY <1>1, <1>2, SetupFields DEF WellFormed
  <2> QED
    BY <2>1, <2>3, <2>4 DEF ArrivedWhole, Messages
<1>5. Len(Messages) = Count
  BY <1>2 DEF Messages
<1>6. M!Given
  BY <1>1, <1>2, <1>4, <1>5 DEF M!Given
<1>7. Messages' = Messages /\ ArrivedWhole' = ArrivedWhole
  BY <1>1 DEF Messages, ArrivedWhole, WellFormed, Count, Offset, Size, max
<1> QED
  BY <1>1, <1>6, <1>7 DEF M!Receive, M!Next

\* Every step is one of the contract or none the application hears of.
LEMMA NextPromised == Inv /\ [Next]_vars => [M!Next]_M!cvars
<1> SUFFICES ASSUME Inv, [Next]_vars PROVE M!Next \/ UNCHANGED M!cvars
  OBVIOUS
<1>1. setup \in Setups /\ Count \in Nat /\ received \in Nat
  <2>1. setup \in Setups
    BY DEF Inv, TypeOK
  <2>2. Count \in Nat /\ Offset(Count) \in Nat
    BY <2>1, SetupFields, OffsetNat
  <2> QED
    BY <2>1, <2>2 DEF Inv, TypeOK
<1>2. ASSUME UNCHANGED <<setup, received>>
      PROVE  Messages' = Messages /\ ArrivedWhole' = ArrivedWhole
  BY <1>2 DEF Messages, ArrivedWhole, WellFormed, Count, Offset, Size, max
<1>3. CASE Arrival
  <2>1. PICK n \in 1 .. Offset(Count) : Arrive(n)
    BY <1>3 DEF Arrival
  <2>2. /\ open /\ UNCHANGED <<setup, open, app_msgs, app_malformed>>
        /\ received' = received + n /\ n \in Nat
    <3>1. Offset(Count) \in Nat
      BY <1>1, OffsetNat
    <3> QED
      BY <2>1, <3>1 DEF Arrive, app
  <2>3. Messages' = Messages
    BY <2>2 DEF Messages, WellFormed, Count, Size, Offset, max
  <2>4. ArrivedWhole \subseteq ArrivedWhole'
    <3>1. ASSUME NEW k \in 1 .. Count, Offset(k) <= received
          PROVE  Offset(k) <= received'
      <4>1. Offset(k) \in Nat
        BY <1>1, OffsetNat
      <4> QED
        BY <1>1, <2>2, <3>1, <4>1
    <3>2. Count' = Count /\ \A k : Offset(k)' = Offset(k)
      BY <2>2, Kept
    <3> QED
      BY <3>1, <3>2 DEF ArrivedWhole
  <2>5. ArrivedWhole' \subseteq DOMAIN Messages
    <3>1. DOMAIN Messages = 1 .. Count /\ Count' = Count
      BY <2>2, Kept DEF Messages
    <3> QED
      BY <3>1 DEF ArrivedWhole
  <2> QED
    BY <2>2, <2>3, <2>4, <2>5 DEF M!Arrive, M!Next
<1>4. ASSUME NEW onRead \in BOOLEAN, Fails(onRead) PROVE UNCHANGED M!cvars
  BY <1>2, <1>4 DEF Fails, M!cvars, input, app
<1>5. CASE PauseRecv \/ UnpauseRecv
  BY <1>2, <1>5 DEF PauseRecv, UnpauseRecv, M!cvars, input, app
<1>6. CASE Disconnect \/ event_cb
  <2>1. open /\ open' = FALSE /\ UNCHANGED <<setup, received, app_msgs, app_malformed>>
    BY <1>6 DEF Disconnect, event_cb, DisconnectInt, input, app
  <2> QED
    BY <1>2, <2>1 DEF M!Close, M!Next
<1>7. CASE ReadCallback
  BY <1>7, ReadMessagePromised, ReadChunkPromised DEF ReadCallback
<1>8. CASE UNCHANGED vars
  BY <1>2, <1>8 DEF vars, M!cvars, input, app
<1> QED
  BY <1>3, <1>4, <1>5, <1>6, <1>7, <1>8 DEF Next

\* What the application hears of MessageFraming is a behaviour of MessageContract.
THEOREM Implements == Spec => MessagesAsPromised
<1>1. Init => M!Init
  <2> SUFFICES ASSUME Init PROVE M!Init
    OBVIOUS
  <2>1. setup \in Setups /\ Count \in Nat
    BY SetupFields DEF Init
  <2>2. Messages \in Seq(BOOLEAN) /\ DOMAIN Messages = 1 .. Count
    <3>1. \A k \in 1 .. Count : WellFormed(k) \in BOOLEAN
      BY DEF WellFormed
    <3> QED
      BY <2>1, <3>1 DEF Messages
  <2>3. ArrivedWhole \subseteq DOMAIN Messages
    BY <2>2 DEF ArrivedWhole
  <2> QED
    BY <2>2, <2>3 DEF Init, M!Init
<1> QED
  BY <1>1, NextPromised, Invariance, PTL DEF Spec, MessagesAsPromised, M!Contract

(* What an application may conclude from the contract alone: in this part nothing is
   assumed of the variables of M but M!Contract. *)

PromiseInv == Messages \in Seq(BOOLEAN) /\ app_msgs \in Nat /\ M!InPlace

\* What is given next is well formed and there, too.
LEMMA GivenInPlace ==
    ASSUME PromiseInv, M!Given, ArrivedWhole \subseteq ArrivedWhole', Messages' = Messages
    PROVE  /\ app_msgs' \in Nat
           /\ \A k \in 1 .. app_msgs' : k \in ArrivedWhole' /\ Messages'[k]
<1>1. app_msgs \in Nat /\ Len(Messages) \in Nat
  BY DEF PromiseInv
<1>2. app_msgs' \in app_msgs .. Len(Messages)
  BY DEF M!Given
<1>3. ASSUME NEW k \in 1 .. app_msgs'
      PROVE  k \in ArrivedWhole /\ Messages[k]
  <2>1. CASE k \in 1 .. app_msgs
    BY <2>1 DEF PromiseInv, M!InPlace
  <2>2. CASE k \in app_msgs + 1 .. app_msgs'
    BY <2>2 DEF M!Given
  <2> QED
    BY <1>1, <1>2, <2>1, <2>2
<1> QED
  BY <1>1, <1>2, <1>3

\* OnMalformedMessage is the last an application hears of a peer's messages, those it was
\* given are well formed and whole, and the one behind them is not.
THEOREM ContractRefuses == M!Contract => []M!InPlace
<1>1. M!Init => PromiseInv
  BY DEF M!Init, PromiseInv, M!InPlace
<1>2. PromiseInv /\ [M!Next]_M!cvars => PromiseInv'
  <2> SUFFICES ASSUME PromiseInv, [M!Next]_M!cvars PROVE PromiseInv'
    OBVIOUS
  <2>1. CASE M!Arrive
    BY <2>1 DEF M!Arrive, PromiseInv, M!InPlace
  <2>2. CASE M!Receive
    <3>1. /\ open /\ M!Given /\ Messages' = Messages /\ ArrivedWhole' = ArrivedWhole
          /\ app_malformed' = app_malformed
      BY <2>2 DEF M!Receive
    <3>2. ~app_malformed'
      BY <3>1 DEF PromiseInv, M!InPlace
    <3>3. /\ app_msgs' \in Nat
          /\ \A k \in 1 .. app_msgs' : k \in ArrivedWhole' /\ Messages'[k]
      BY <3>1, GivenInPlace
    <3> QED
      BY <3>1, <3>2, <3>3 DEF PromiseInv, M!InPlace
  <2>3. CASE M!Refuse
    <3>1. /\ M!Given /\ Messages' = Messages /\ ArrivedWhole' = ArrivedWhole
          /\ ~open' /\ app_msgs' < Len(Messages) /\ ~Messages[app_msgs' + 1]
      BY <2>3 DEF M!Refuse
    <3>2. /\ app_msgs' \in Nat
          /\ \A k \in 1 .. app_msgs' : k \in ArrivedWhole' /\ Messages'[k]
      BY <3>1, GivenInPlace
    <3> QED
      BY <3>1, <3>2 DEF PromiseInv, M!InPlace
  <2>4. CASE M!Close
    BY <2>4 DEF M!Close, PromiseInv, M!InPlace
  <2>5. CASE UNCHANGED M!cvars
    BY <2>5 DEF M!cvars, PromiseInv, M!InPlace
  <2> QED
    BY <2>1, <2>2, <2>3, <2>4, <2>5 DEF M!Next
<1>3. PromiseInv => M!InPlace
  BY DEF PromiseInv
<1> QED
  BY <1>1, <1>2, <1>3, PTL DEF M!Contract
=============================================================================
