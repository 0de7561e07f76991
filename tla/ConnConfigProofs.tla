-------------------------- MODULE ConnConfigProofs --------------------------
(***************************************************************************)
(* Proofs about ConnConfig, for every candidate: a proxy is never bypassed, *)
(* the families permitted are the ones used, the port that was meant is the *)
(* one used, what ToString() prints is parsed as what it was printed from,  *)
(* and hosts are taken for what they are.                                   *)
(*                                                                         *)
(* The first part is about Base32, for texts of any length: what is encoded *)
(* decodes to the same bytes, and a text that is accepted is the only one   *)
(* for its bytes. One run is followed through the other: the state of the   *)
(* decoder after the symbols that the encoder has written so far (InStep),  *)
(* and the state of the encoder after the bytes that the decoder has        *)
(* written so far (Coupled).                                                *)
(*                                                                         *)
(* In the second part, what the constructor makes of a text is settled      *)
(* first, case by case of its parser. It never changes, so that what the    *)
(* invariant adds is what justified each packet when it was sent.           *)
(***************************************************************************)
EXTENDS ConnConfig, SequenceTheorems, WellFoundedInduction, TLAPS

-----------------------------------------------------------------------------
(* Recursion over the numbers up to N. Encoder and Decoder are defined by one: that TLA+'s
   choice of a function satisfies it needs one that does. *)

\* What holds at first and is handed on from each number to the next holds up to the last.
LEMMA UpTo ==
    ASSUME NEW N \in Nat, NEW G, 0 \in G, \A n \in 0 .. N - 1 : n \in G => n + 1 \in G
    PROVE  \A n \in 0 .. N : n \in G
<1>. DEFINE T == {n \in 0 .. N : n \notin G}
            R == OpToRel(<, Nat)
<1>1. IsWellFoundedOn(R, Nat)
  BY NatLessThanWellFounded
<1>2. \A x, y \in Nat : <<y, x>> \in R <=> y < x
  BY DEF OpToRel
<1>. HIDE DEF R
<1>. SUFFICES ASSUME T # {} PROVE FALSE
  OBVIOUS
<1>3. T \in SUBSET Nat
  OBVIOUS
<1>4. PICK n \in T : \A m \in T : ~(<<m, n>> \in R)
  BY <1>1, <1>3, WFMin
<1>5. n \in 0 .. N /\ n # 0 /\ n \notin G
  BY <1>4
<1>6. n - 1 \in Nat /\ n \in Nat /\ n - 1 < n
  BY <1>5
<1>7. <<n - 1, n>> \in R
  BY <1>2, <1>6
<1>8. n - 1 \notin T
  BY <1>4, <1>7
<1>9. n - 1 \in 0 .. N - 1 /\ n - 1 + 1 = n
  BY <1>5
<1>. QED
  BY <1>5, <1>8, <1>9

\* f follows step from base on.
Follows(f, base, step, N) == f[0] = base /\ \A i \in 1 .. N : f[i] = step[i][f[i - 1]]

\* A recursion over the numbers up to N has a solution: the function that TLA+ chooses
\* for such a definition satisfies it.
LEMMA Recursion ==
    ASSUME NEW S, NEW N \in Nat, NEW base \in S, NEW step \in [1 .. N -> [S -> S]]
    PROVE  \E f \in [0 .. N -> S] : Follows(f, base, step, N)
<1>. DEFINE G == {n \in 0 .. N : \E f \in [0 .. n -> S] :
                          f[0] = base /\ \A i \in 1 .. n : f[i] = step[i][f[i - 1]]}
<1>1. 0 \in G
  <2>. DEFINE f == [i \in 0 .. 0 |-> base]
  <2>1. f \in [0 .. 0 -> S] /\ f[0] = base
    OBVIOUS
  <2>2. \A i \in 1 .. 0 : f[i] = step[i][f[i - 1]]
    OBVIOUS
  <2>. HIDE DEF f
  <2>3. \E g \in [0 .. 0 -> S] : g[0] = base /\ \A i \in 1 .. 0 : g[i] = step[i][g[i - 1]]
    BY <2>1, <2>2
  <2>. QED
    BY <2>3
<1>2. ASSUME NEW n \in 0 .. N - 1, n \in G PROVE n + 1 \in G
  <2>1. PICK f \in [0 .. n -> S] : f[0] = base /\ \A i \in 1 .. n : f[i] = step[i][f[i - 1]]
    BY <1>2
  <2>. DEFINE v == step[n + 1][f[n]]
              g == [i \in 0 .. n + 1 |-> IF i = n + 1 THEN v ELSE f[i]]
  <2>2. n + 1 \in 1 .. N /\ n \in 0 .. n
    OBVIOUS
  <2>3. v \in S
    BY <2>1, <2>2
  <2>4. g \in [0 .. n + 1 -> S]
    BY <2>3
  <2>5. g[0] = base
    BY <2>1
  <2>6. ASSUME NEW i \in 1 .. n + 1 PROVE g[i] = step[i][g[i - 1]]
    <3>1. CASE i = n + 1
      BY <3>1
    <3>2. CASE i \in 1 .. n
      BY <2>1, <3>2
    <3>. QED
      BY <3>1, <3>2
  <2>. HIDE DEF g
  <2>7. \E h \in [0 .. n + 1 -> S] :
            h[0] = base /\ \A i \in 1 .. n + 1 : h[i] = step[i][h[i - 1]]
    BY <2>4, <2>5, <2>6
  <2>8. n + 1 \in 0 .. N
    OBVIOUS
  <2>. QED
    BY <2>7, <2>8
<1>3. N \in G
  <2>. HIDE DEF G
  <2>1. \A n \in 0 .. N : n \in G
    BY <1>1, <1>2, UpTo
  <2>. QED
    BY <2>1
<1>. QED
  BY <1>3 DEF Follows

-----------------------------------------------------------------------------
(* Encoding: the switch of EncodeBase32. *)

\* A state of the encoder: the place in a group of five bytes, the bits left over, the text.
EncoderState ==
    {e \in [mode : 0 .. 4, left : 0 .. 15, text : Seq(Symbol)] :
        e.left < 2^EncoderKept(e.mode)}

\* Fewer bits are left over than there is room for.
LEMMA EncoderFields ==
    ASSUME NEW e \in EncoderState
    PROVE  /\ e.mode \in {0, 1, 2, 3, 4} /\ e.left \in 0 .. 15 /\ e.text \in Seq(Symbol)
           /\ e.mode = 0 => e.left = 0
           /\ e.mode = 1 => e.left < 8
           /\ e.mode = 2 => e.left < 2
           /\ e.mode = 4 => e.left < 4
<1>1. ASSUME NEW A, NEW B, NEW C, NEW r \in [mode : A, left : B, text : C]
      PROVE  r.mode \in A /\ r.left \in B /\ r.text \in C
  OBVIOUS
<1>2. e.mode \in 0 .. 4 /\ e.left \in 0 .. 15 /\ e.text \in Seq(Symbol)
  BY <1>1, Zenon DEF EncoderState
<1>3. e.mode \in {0, 1, 2, 3, 4} /\ e.left < 2^EncoderKept(e.mode)
  BY <1>2 DEF EncoderState
<1>4. e.left \in Nat
  BY <1>2
<1>5. e.mode = 0 => e.left = 0
  BY <1>3, <1>4 DEF EncoderKept
<1>6. e.mode = 1 => e.left < 8
  BY <1>3, <1>4 DEF EncoderKept
<1>7. e.mode = 2 => e.left < 2
  BY <1>3, <1>4 DEF EncoderKept
<1>8. e.mode = 4 => e.left < 4
  BY <1>3, <1>4 DEF EncoderKept
<1>. QED
  BY <1>2, <1>3, <1>5, <1>6, <1>7, <1>8

\* The five cases of the switch.
EncodeTable(e, value, f) ==
    /\ e.mode = 0 => /\ f.mode = 1 /\ f.left = value % 8
                     /\ f.text = e.text \o <<value \div 8>>
    /\ e.mode = 1 => /\ f.mode = 2 /\ f.left = value % 2
                     /\ f.text = e.text \o <<value \div 64, (value \div 2) % 32>>
    /\ e.mode = 2 => /\ f.mode = 3 /\ f.left = value % 16
                     /\ f.text = e.text \o <<value \div 16>>
    /\ e.mode = 3 => /\ f.mode = 4 /\ f.left = value % 4
                     /\ f.text = e.text \o <<value \div 128, (value \div 4) % 32>>
    /\ e.mode = 4 => /\ f.mode = 0 /\ f.left = 0
                     /\ f.text = e.text \o <<value \div 32, value % 32>>

\* EncodeByte is the case of its switch that the mode selects.
LEMMA EncodeCases ==
    ASSUME NEW e \in EncoderState, NEW b \in Byte,
           NEW value, value = e.left * 256 + b,
           NEW f, f = EncodeByte(e, b)
    PROVE  EncodeTable(e, value, f)
<1>. DEFINE bits == EncoderKept(e.mode) + 8
<1>0. bits = EncoderKept(e.mode) + 8
  OBVIOUS
<1>. HIDE DEF bits
<1>1. value \in Nat
  <2>1. e.left \in Nat /\ b \in Nat
    BY EncoderFields DEF Byte
  <2>. QED
    BY <2>1
<1>. DEFINE out == IF bits >= 10
                   THEN <<value \div 2^(bits - 5), (value \div 2^(bits - 10)) % 32>>
                   ELSE <<value \div 2^(bits - 5)>>
<1>2. f.mode = (e.mode + 1) % 5 /\ f.left = value % 2^(bits % 5) /\ f.text = e.text \o out
  <2>1. f = [mode |-> (e.mode + 1) % 5, left |-> value % 2^(bits % 5), text |-> e.text \o out]
    BY <1>0, Zenon DEF EncodeByte
  <2>. HIDE DEF out
  <2>. QED
    BY <2>1
<1>3. /\ e.mode = 0 => bits = 8
      /\ e.mode = 1 => bits = 11
      /\ e.mode = 2 => bits = 9
      /\ e.mode = 3 => bits = 12
      /\ e.mode = 4 => bits = 10
  BY <1>0 DEF EncoderKept
<1>4. CASE e.mode = 0
  <2>1. bits = 8 /\ (e.mode + 1) % 5 = 1
    BY <1>3, <1>4
  <2>2. 2^(bits - 5) = 8 /\ 2^(bits % 5) = 8
    BY <2>1
  <2>3. f.left = value % 8 /\ f.mode = 1
    BY <1>1, <1>2, <2>1, <2>2
  <2>4. f.text = e.text \o <<value \div 8>>
    BY <1>1, <1>2, <2>1, <2>2
  <2>. QED
    BY <1>4, <2>3, <2>4 DEF EncodeTable
<1>5. CASE e.mode = 1
  <2>1. bits = 11 /\ (e.mode + 1) % 5 = 2
    BY <1>3, <1>5
  <2>2. 2^(bits - 5) = 64 /\ 2^(bits % 5) = 2 /\ 2^(bits - 10) = 2
    BY <2>1
  <2>3. f.left = value % 2 /\ f.mode = 2
    BY <1>1, <1>2, <2>1, <2>2
  <2>4. f.text = e.text \o <<value \div 64, (value \div 2) % 32>>
    BY <1>1, <1>2, <2>1, <2>2
  <2>. QED
    BY <1>5, <2>3, <2>4 DEF EncodeTable
<1>6. CASE e.mode = 2
  <2>1. bits = 9 /\ (e.mode + 1) % 5 = 3
    BY <1>3, <1>6
  <2>2. 2^(bits - 5) = 16 /\ 2^(bits % 5) = 16
    BY <2>1
  <2>3. f.left = value % 16 /\ f.mode = 3
    BY <1>1, <1>2, <2>1, <2>2
  <2>4. f.text = e.text \o <<value \div 16>>
    BY <1>1, <1>2, <2>1, <2>2
  <2>. QED
    BY <1>6, <2>3, <2>4 DEF EncodeTable
<1>7. CASE e.mode = 3
  <2>1. bits = 12 /\ (e.mode + 1) % 5 = 4
    BY <1>3, <1>7
  <2>2. 2^(bits - 5) = 128 /\ 2^(bits % 5) = 4 /\ 2^(bits - 10) = 4
    BY <2>1
  <2>3. f.left = value % 4 /\ f.mode = 4
    BY <1>1, <1>2, <2>1, <2>2
  <2>4. f.text = e.text \o <<value \div 128, (value \div 4) % 32>>
    BY <1>1, <1>2, <2>1, <2>2
  <2>. QED
    BY <1>7, <2>3, <2>4 DEF EncodeTable
<1>8. CASE e.mode = 4
  <2>1. bits = 10 /\ (e.mode + 1) % 5 = 0
    BY <1>3, <1>8
  <2>2. 2^(bits - 5) = 32 /\ 2^(bits % 5) = 1 /\ 2^(bits - 10) = 1
    BY <2>1
  <2>3. f.left = 0 /\ f.mode = 0
    BY <1>1, <1>2, <2>1, <2>2
  <2>4. f.text = e.text \o <<value \div 32, value % 32>>
    <3>1. value \div 2^(bits - 10) = value
      BY <1>1, <2>2
    <3>2. f.text = e.text \o <<value \div 2^(bits - 5), (value \div 2^(bits - 10)) % 32>>
      BY <1>2, <2>1
    <3>. QED
      BY <2>2, <3>1, <3>2
  <2>. QED
    BY <1>8, <2>3, <2>4 DEF EncodeTable
<1>. QED
  BY <1>4, <1>5, <1>6, <1>7, <1>8, EncoderFields

-----------------------------------------------------------------------------
(* Decoding: the switch of DecodeBase32; runs. *)

\* A state of the decoder: the place in a group of eight, the bits left over, the bytes.
DecoderState ==
    {d \in [mode : 0 .. 7, left : 0 .. 127, bytes : Seq(Byte)] :
        d.left < 2^DecoderKept(d.mode)}

\* Fewer bits are left over than there is room for.
LEMMA DecoderFields ==
    ASSUME NEW d \in DecoderState
    PROVE  /\ d.mode \in {0, 1, 2, 3, 4, 5, 6, 7} /\ d.left \in Nat /\ d.bytes \in Seq(Byte)
           /\ d.mode = 0 => d.left = 0
           /\ d.mode = 1 => d.left < 32
           /\ d.mode = 2 => d.left < 4
           /\ d.mode = 3 => d.left < 128
           /\ d.mode = 4 => d.left < 16
           /\ d.mode = 5 => d.left < 2
           /\ d.mode = 6 => d.left < 64
           /\ d.mode = 7 => d.left < 8
<1>1. ASSUME NEW A, NEW B, NEW C, NEW r \in [mode : A, left : B, bytes : C]
      PROVE  r.mode \in A /\ r.left \in B /\ r.bytes \in C
  OBVIOUS
<1>2. d.mode \in 0 .. 7 /\ d.left \in 0 .. 127 /\ d.bytes \in Seq(Byte)
  BY <1>1, Zenon DEF DecoderState
<1>3. d.mode \in {0, 1, 2, 3, 4, 5, 6, 7} /\ d.left < 2^DecoderKept(d.mode)
  BY <1>2 DEF DecoderState
<1>4. d.left \in Nat
  <2>1. d.left \in 0 .. 127
    BY <1>2, Zenon
  <2>. QED
    BY <2>1
<1>5. d.mode = 0 => d.left < 1
  BY <1>3, <1>4 DEF DecoderKept
<1>6. d.mode = 1 => d.left < 32
  BY <1>3, <1>4 DEF DecoderKept
<1>7. d.mode = 2 => d.left < 4
  BY <1>3, <1>4 DEF DecoderKept
<1>8. d.mode = 3 => d.left < 128
  BY <1>3, <1>4 DEF DecoderKept
<1>9. d.mode = 4 => d.left < 16
  BY <1>3, <1>4 DEF DecoderKept
<1>10. d.mode = 5 => d.left < 2
  BY <1>3, <1>4 DEF DecoderKept
<1>11. d.mode = 6 => d.left < 64
  BY <1>3, <1>4 DEF DecoderKept
<1>12. d.mode = 7 => d.left < 8
  BY <1>3, <1>4 DEF DecoderKept
<1>. QED
  BY <1>2, <1>3, <1>4, <1>5, <1>6, <1>7, <1>8, <1>9, <1>10, <1>11, <1>12

\* What a symbol adds to the bytes, and what is left of it.
LEMMA DecodeParts ==
    ASSUME NEW d, NEW c, NEW bits, bits = DecoderKept(d.mode) + 5,
           NEW value, value = d.left * 32 + c,
           NEW f, f = DecodeSymbol(d, c)
    PROVE  /\ f.mode = (d.mode + 1) % 8 /\ f.left = value % 2^(bits % 8)
           /\ f.bytes = IF bits >= 8
                            THEN Append(d.bytes, (value \div 2^(bits - 8)) % 256)
                            ELSE d.bytes
<1>. DEFINE bytes == IF bits >= 8
                     THEN Append(d.bytes, (value \div 2^(bits - 8)) % 256)
                     ELSE d.bytes
<1>1. f = [mode |-> (d.mode + 1) % 8, left |-> value % 2^(bits % 8),
                            bytes |-> bytes]
  BY Zenon DEF DecodeSymbol
<1>. HIDE DEF bytes
<1>2. f.mode = (d.mode + 1) % 8 /\ f.left = value % 2^(bits % 8) /\ f.bytes = bytes
  BY <1>1
<1>. QED
  BY <1>2, Zenon DEF bytes

\* The eight cases of the switch.
DecodeTable(d, value, f) ==
    /\ d.mode = 0 => f.mode = 1 /\ f.left = value /\ f.bytes = d.bytes
    /\ d.mode = 1 => f.mode = 2 /\ f.left = value % 4 /\ f.bytes = Append(d.bytes, value \div 4)
    /\ d.mode = 2 => f.mode = 3 /\ f.left = value /\ f.bytes = d.bytes
    /\ d.mode = 3 => f.mode = 4 /\ f.left = value % 16 /\ f.bytes = Append(d.bytes, value \div 16)
    /\ d.mode = 4 => f.mode = 5 /\ f.left = value % 2 /\ f.bytes = Append(d.bytes, value \div 2)
    /\ d.mode = 5 => f.mode = 6 /\ f.left = value /\ f.bytes = d.bytes
    /\ d.mode = 6 => f.mode = 7 /\ f.left = value % 8 /\ f.bytes = Append(d.bytes, value \div 8)
    /\ d.mode = 7 => f.mode = 0 /\ f.left = 0 /\ f.bytes = Append(d.bytes, value)

\* DecodeSymbol is the case of its switch that the mode selects.
LEMMA DecodeCases ==
    ASSUME NEW d \in DecoderState, NEW c \in Symbol,
           NEW value, value = d.left * 32 + c,
           NEW f, f = DecodeSymbol(d, c)
    PROVE  DecodeTable(d, value, f)
<1>. DEFINE bits == DecoderKept(d.mode) + 5
<1>0. bits = DecoderKept(d.mode) + 5
  OBVIOUS
<1>. HIDE DEF bits
<1>1. value \in Nat /\ c \in 0 .. 31 /\ d.left \in Nat
  <2>1. d.left \in Nat /\ c \in 0 .. 31
    BY DecoderFields DEF Symbol
  <2>. QED
    BY <2>1
<1>2. /\ f.mode = (d.mode + 1) % 8 /\ f.left = value % 2^(bits % 8)
      /\ f.bytes = IF bits >= 8 THEN Append(d.bytes, (value \div 2^(bits - 8)) % 256)
                                ELSE d.bytes
  BY <1>0, DecodeParts
<1>3. /\ d.mode = 0 => bits = 5
      /\ d.mode = 1 => bits = 10
      /\ d.mode = 2 => bits = 7
      /\ d.mode = 3 => bits = 12
      /\ d.mode = 4 => bits = 9
      /\ d.mode = 5 => bits = 6
      /\ d.mode = 6 => bits = 11
      /\ d.mode = 7 => bits = 8
  BY <1>0 DEF DecoderKept
<1>4. CASE d.mode = 0
  <2>1. bits = 5 /\ (d.mode + 1) % 8 = 1
    BY <1>3, <1>4
  <2>2. 2^(bits % 8) = 32
    BY <2>1
  <2>3. value < 32
    <3>1. d.left < 1
      BY <1>4, DecoderFields
    <3>. QED
      BY <1>1, <3>1
  <2>4. value % 32 = value
    BY <1>1, <2>3
  <2>5. f.mode = 1 /\ f.left = value /\ f.bytes = d.bytes
    BY <1>2, <2>1, <2>2, <2>4
  <2>. QED
    BY <1>4, <2>5 DEF DecodeTable
<1>5. CASE d.mode = 1
  <2>1. bits = 10 /\ (d.mode + 1) % 8 = 2
    BY <1>3, <1>5
  <2>2. 2^(bits % 8) = 4 /\ 2^(bits - 8) = 4
    BY <2>1
  <2>3. value < 1024
    <3>1. d.left < 32
      BY <1>5, DecoderFields
    <3>. QED
      BY <1>1, <3>1
  <2>4. (value \div 4) % 256 = value \div 4 /\ value % 4 = value % 4
    BY <1>1, <2>3
  <2>5. f.mode = 2 /\ f.left = value % 4 /\ f.bytes = Append(d.bytes, value \div 4)
    BY <1>2, <2>1, <2>2, <2>4
  <2>. QED
    BY <1>5, <2>5 DEF DecodeTable
<1>6. CASE d.mode = 2
  <2>1. bits = 7 /\ (d.mode + 1) % 8 = 3
    BY <1>3, <1>6
  <2>2. 2^(bits % 8) = 128
    BY <2>1
  <2>3. value < 128
    <3>1. d.left < 4
      BY <1>6, DecoderFields
    <3>. QED
      BY <1>1, <3>1
  <2>4. value % 128 = value
    BY <1>1, <2>3
  <2>5. f.mode = 3 /\ f.left = value /\ f.bytes = d.bytes
    BY <1>2, <2>1, <2>2, <2>4
  <2>. QED
    BY <1>6, <2>5 DEF DecodeTable
<1>7. CASE d.mode = 3
  <2>1. bits = 12 /\ (d.mode + 1) % 8 = 4
    BY <1>3, <1>7
  <2>2. 2^(bits % 8) = 16 /\ 2^(bits - 8) = 16
    BY <2>1
  <2>3. value < 4096
    <3>1. d.left < 128
      BY <1>7, DecoderFields
    <3>. QED
      BY <1>1, <3>1
  <2>4. (value \div 16) % 256 = value \div 16 /\ value % 16 = value % 16
    BY <1>1, <2>3
  <2>5. f.mode = 4 /\ f.left = value % 16 /\ f.bytes = Append(d.bytes, value \div 16)
    BY <1>2, <2>1, <2>2, <2>4
  <2>. QED
    BY <1>7, <2>5 DEF DecodeTable
<1>8. CASE d.mode = 4
  <2>1. bits = 9 /\ (d.mode + 1) % 8 = 5
    BY <1>3, <1>8
  <2>2. 2^(bits % 8) = 2 /\ 2^(bits - 8) = 2
    BY <2>1
  <2>3. value < 512
    <3>1. d.left < 16
      BY <1>8, DecoderFields
    <3>. QED
      BY <1>1, <3>1
  <2>4. (value \div 2) % 256 = value \div 2 /\ value % 2 = value % 2
    BY <1>1, <2>3
  <2>5. f.mode = 5 /\ f.left = value % 2 /\ f.bytes = Append(d.bytes, value \div 2)
    BY <1>2, <2>1, <2>2, <2>4
  <2>. QED
    BY <1>8, <2>5 DEF DecodeTable
<1>9. CASE d.mode = 5
  <2>1. bits = 6 /\ (d.mode + 1) % 8 = 6
    BY <1>3, <1>9
  <2>2. 2^(bits % 8) = 64
    BY <2>1
  <2>3. value < 64
    <3>1. d.left < 2
      BY <1>9, DecoderFields
    <3>. QED
      BY <1>1, <3>1
  <2>4. value % 64 = value
    BY <1>1, <2>3
  <2>5. f.mode = 6 /\ f.left = value /\ f.bytes = d.bytes
    BY <1>2, <2>1, <2>2, <2>4
  <2>. QED
    BY <1>9, <2>5 DEF DecodeTable
<1>10. CASE d.mode = 6
  <2>1. bits = 11 /\ (d.mode + 1) % 8 = 7
    BY <1>3, <1>10
  <2>2. 2^(bits % 8) = 8 /\ 2^(bits - 8) = 8
    BY <2>1
  <2>3. value < 2048
    <3>1. d.left < 64
      BY <1>10, DecoderFields
    <3>. QED
      BY <1>1, <3>1
  <2>4. (value \div 8) % 256 = value \div 8 /\ value % 8 = value % 8
    BY <1>1, <2>3
  <2>5. f.mode = 7 /\ f.left = value % 8 /\ f.bytes = Append(d.bytes, value \div 8)
    BY <1>2, <2>1, <2>2, <2>4
  <2>. QED
    BY <1>10, <2>5 DEF DecodeTable
<1>11. CASE d.mode = 7
  <2>1. bits = 8 /\ (d.mode + 1) % 8 = 0
    BY <1>3, <1>11
  <2>2. 2^(bits % 8) = 1 /\ 2^(bits - 8) = 1
    BY <2>1
  <2>3. value < 256
    <3>1. d.left < 8
      BY <1>11, DecoderFields
    <3>. QED
      BY <1>1, <3>1
  <2>4. (value \div 1) % 256 = value /\ value % 1 = 0
    BY <1>1, <2>3
  <2>5. f.mode = 0 /\ f.left = 0 /\ f.bytes = Append(d.bytes, value)
    BY <1>2, <2>1, <2>2, <2>4
  <2>. QED
    BY <1>11, <2>5 DEF DecodeTable
<1>. QED
  BY <1>4, <1>5, <1>6, <1>7, <1>8, <1>9, <1>10, <1>11, DecoderFields

\* The bits there are when a byte has come.
LEMMA EncoderValue ==
    ASSUME NEW e \in EncoderState, NEW b \in Byte,
           NEW value, value = e.left * 256 + b
    PROVE  /\ value \in Nat
           /\ e.mode = 0 => value < 256
           /\ e.mode = 1 => value < 2048
           /\ e.mode = 2 => value < 512
           /\ e.mode = 3 => value < 4096
           /\ e.mode = 4 => value < 1024
<1>. DEFINE left == e.left
            mode == e.mode
<1>1. left \in 0 .. 15 /\ b \in 0 .. 255
  BY EncoderFields DEF Byte
<1>2. /\ mode = 0 => left = 0
      /\ mode = 1 => left < 8
      /\ mode = 2 => left < 2
      /\ mode = 4 => left < 4
  BY EncoderFields
<1>3. value = left * 256 + b
  OBVIOUS
<1>. HIDE DEF left, mode
<1>4. /\ value \in Nat
      /\ mode = 0 => value < 256
      /\ mode = 1 => value < 2048
      /\ mode = 2 => value < 512
      /\ mode = 3 => value < 4096
      /\ mode = 4 => value < 1024
  BY <1>1, <1>2, <1>3
<1>. QED
  BY <1>4 DEF mode

\* A byte adds one symbol or two.
LEMMA EncodeType ==
    ASSUME NEW e \in EncoderState, NEW b \in Byte, NEW f, f = EncodeByte(e, b)
    PROVE  /\ f \in EncoderState
           /\ \E out \in Seq(Symbol) : f.text = e.text \o out
<1>. DEFINE value == e.left * 256 + b
<1>0. value = e.left * 256 + b
  OBVIOUS
<1>. HIDE DEF value
<1>1. value \in Nat /\ EncodeTable(e, value, f)
  BY <1>0, EncoderValue, EncodeCases
<1>2. ASSUME NEW mode, NEW left, NEW kept, NEW out \in Seq(Symbol),
             mode \in 0 .. 4, left \in 0 .. 15,
             kept = 2^EncoderKept(mode), left < kept,
             f.mode = mode, f.left = left, f.text = e.text \o out
      PROVE  f \in EncoderState /\ \E s \in Seq(Symbol) : f.text = e.text \o s
  <2>1. f.text \in Seq(Symbol)
    BY <1>2, EncoderFields, ConcatProperties, Zenon
  <2>2. ASSUME NEW A, NEW B, NEW C, mode \in A, left \in B, f.text \in C
        PROVE  f \in [mode : A, left : B, text : C]
    BY <1>2, <2>2 DEF EncodeByte
  <2>3. f \in [mode : 0 .. 4, left : 0 .. 15, text : Seq(Symbol)]
    BY <1>2, <2>1, <2>2, Zenon
  <2>4. f \in EncoderState
    BY <1>2, <2>3, Zenon DEF EncoderState
  <2>. QED
    BY <1>2, <2>4, Zenon
<1>3. CASE e.mode = 0
  <2>1. f.mode = 1 /\ f.left = value % 8 /\ f.text = e.text \o <<value \div 8>>
    BY <1>1, <1>3, Zenon DEF EncodeTable
  <2>2. value < 256
    BY <1>0, <1>3, EncoderValue
  <2>3. value \div 8 \in Symbol
    BY <1>1, <2>2 DEF Symbol
  <2>4. <<value \div 8>> \in Seq(Symbol)
    BY <2>3
  <2>5. value % 8 \in 0 .. 15 /\ value % 8 < 8 /\ 1 \in 0 .. 4
    BY <1>1
  <2>6. 8 = 2^EncoderKept(1)
    BY DEF EncoderKept
  <2>. QED
    BY <1>2, <2>1, <2>4, <2>5, <2>6
<1>4. CASE e.mode = 1
  <2>1. /\ f.mode = 2 /\ f.left = value % 2
        /\ f.text = e.text \o <<value \div 64, (value \div 2) % 32>>
    BY <1>1, <1>4, Zenon DEF EncodeTable
  <2>2. value < 2048
    BY <1>0, <1>4, EncoderValue
  <2>3. value \div 64 \in Symbol /\ (value \div 2) % 32 \in Symbol
    BY <1>1, <2>2 DEF Symbol
  <2>4. <<value \div 64, (value \div 2) % 32>> \in Seq(Symbol)
    BY <2>3
  <2>5. value % 2 \in 0 .. 15 /\ value % 2 < 2 /\ 2 \in 0 .. 4
    BY <1>1
  <2>6. 2 = 2^EncoderKept(2)
    BY DEF EncoderKept
  <2>. QED
    BY <1>2, <2>1, <2>4, <2>5, <2>6
<1>5. CASE e.mode = 2
  <2>1. f.mode = 3 /\ f.left = value % 16 /\ f.text = e.text \o <<value \div 16>>
    BY <1>1, <1>5, Zenon DEF EncodeTable
  <2>2. value < 512
    BY <1>0, <1>5, EncoderValue
  <2>3. value \div 16 \in Symbol
    BY <1>1, <2>2 DEF Symbol
  <2>4. <<value \div 16>> \in Seq(Symbol)
    BY <2>3
  <2>5. value % 16 \in 0 .. 15 /\ value % 16 < 16 /\ 3 \in 0 .. 4
    BY <1>1
  <2>6. 16 = 2^EncoderKept(3)
    BY DEF EncoderKept
  <2>. QED
    BY <1>2, <2>1, <2>4, <2>5, <2>6
<1>6. CASE e.mode = 3
  <2>1. /\ f.mode = 4 /\ f.left = value % 4
        /\ f.text = e.text \o <<value \div 128, (value \div 4) % 32>>
    BY <1>1, <1>6, Zenon DEF EncodeTable
  <2>2. value < 4096
    BY <1>0, <1>6, EncoderValue
  <2>3. value \div 128 \in Symbol /\ (value \div 4) % 32 \in Symbol
    BY <1>1, <2>2 DEF Symbol
  <2>4. <<value \div 128, (value \div 4) % 32>> \in Seq(Symbol)
    BY <2>3
  <2>5. value % 4 \in 0 .. 15 /\ value % 4 < 4 /\ 4 \in 0 .. 4
    BY <1>1
  <2>6. 4 = 2^EncoderKept(4)
    BY DEF EncoderKept
  <2>. QED
    BY <1>2, <2>1, <2>4, <2>5, <2>6
<1>7. CASE e.mode = 4
  <2>1. f.mode = 0 /\ f.left = 0 /\ f.text = e.text \o <<value \div 32, value % 32>>
    BY <1>1, <1>7, Zenon DEF EncodeTable
  <2>2. value < 1024
    BY <1>0, <1>7, EncoderValue
  <2>3. value \div 32 \in Symbol /\ value % 32 \in Symbol
    BY <1>1, <2>2 DEF Symbol
  <2>4. <<value \div 32, value % 32>> \in Seq(Symbol)
    BY <2>3
  <2>5. 0 \in 0 .. 15 /\ 0 < 1 /\ 0 \in 0 .. 4
    BY <1>1
  <2>6. 1 = 2^EncoderKept(0)
    BY DEF EncoderKept
  <2>. QED
    BY <1>2, <2>1, <2>4, <2>5, <2>6
<1>. QED
  BY <1>3, <1>4, <1>5, <1>6, <1>7, EncoderFields

\* The encoder is the run of EncodeByte over the bytes: such a recursive function exists.
LEMMA EncoderRuns ==
    ASSUME NEW bytes \in Seq(Byte), NEW E, E = Encoder(bytes)
    PROVE  /\ E \in [0 .. Len(bytes) -> EncoderState]
           /\ E[0] = [mode |-> 0, left |-> 0, text |-> <<>>]
           /\ \A n \in 1 .. Len(bytes) : E[n] = EncodeByte(E[n - 1], bytes[n])
<1>. DEFINE N == Len(bytes)
            base == [mode |-> 0, left |-> 0, text |-> <<>>]
            step == [n \in 1 .. N |-> [e \in EncoderState |-> EncodeByte(e, bytes[n])]]
<1>1. N \in Nat /\ \A n \in 1 .. N : bytes[n] \in Byte
  OBVIOUS
<1>2. base \in EncoderState
  <2>1. 0 < 2^EncoderKept(0)
    BY DEF EncoderKept
  <2>. QED
    BY <2>1 DEF EncoderState
<1>3. \A n \in 1 .. N : \A e \in EncoderState : EncodeByte(e, bytes[n]) \in EncoderState
  BY <1>1, EncodeType
<1>4. step \in [1 .. N -> [EncoderState -> EncoderState]]
  BY <1>3
<1>. HIDE DEF base, N
<1>5. PICK f \in [0 .. N -> EncoderState] : Follows(f, base, step, N)
  <2>. HIDE DEF step
  <2>. QED
    BY <1>1, <1>2, <1>4, Recursion
<1>6. ASSUME NEW n \in 1 .. N PROVE f[n] = EncodeByte(f[n - 1], bytes[n])
  <2>1. n - 1 \in 0 .. N
    BY <1>1
  <2>2. f[n - 1] \in EncoderState /\ f[n] = step[n][f[n - 1]]
    BY <1>5, <2>1, Zenon DEF Follows
  <2>. QED
    BY <2>2
<1>7. f = [n \in 0 .. N |-> IF n = 0 THEN base ELSE EncodeByte(f[n - 1], bytes[n])]
  BY <1>1, <1>5, <1>6 DEF Follows
<1>8. E = CHOOSE after : after = [n \in 0 .. N |->
                                    IF n = 0 THEN base ELSE EncodeByte(after[n - 1], bytes[n])]
  BY Zenon DEF Encoder, base, N
<1>9. E = [n \in 0 .. N |-> IF n = 0 THEN base ELSE EncodeByte(E[n - 1], bytes[n])]
  BY <1>7, <1>8, Zenon
<1>10. E[0] = base /\ \A n \in 1 .. N : E[n] = EncodeByte(E[n - 1], bytes[n])
  BY <1>1, <1>9
<1>11. \A n \in 0 .. N : E[n] \in EncoderState
  <2>. DEFINE G == {n \in 0 .. N : E[n] \in EncoderState}
  <2>1. 0 \in G
    BY <1>1, <1>2, <1>10
  <2>2. \A n \in 0 .. N - 1 : n \in G => n + 1 \in G
    BY <1>1, <1>3, <1>10
  <2>. HIDE DEF G
  <2>3. \A n \in 0 .. N : n \in G
    BY <1>1, <2>1, <2>2, UpTo
  <2>. QED
    BY <2>3 DEF G
<1>. QED
  BY <1>9, <1>10, <1>11 DEF base, N

-----------------------------------------------------------------------------
(* Prefixes, and what the decoder reads. *)

\* t begins with s.
Begins(s, t) == Len(s) <= Len(t) /\ \A i \in 1 .. Len(s) : t[i] = s[i]

\* What begins a sequence and lacks its last element is the sequence when that is appended.
LEMMA BeginsButLast ==
    ASSUME NEW S, NEW s \in Seq(S), NEW t \in Seq(S), Begins(s, t), Len(s) = Len(t) - 1
    PROVE  Append(s, t[Len(t)]) = t
<1>. DEFINE u == Append(s, t[Len(t)])
<1>1. Len(s) \in Nat /\ Len(t) \in 1 .. Len(t) /\ Len(s) + 1 = Len(t)
  <2>1. Len(s) \in Nat /\ Len(t) \in Nat
    BY LenProperties
  <2>. QED
    BY <2>1, SMT
<1>2. t[Len(t)] \in S
  BY <1>1, ElementOfSeq
<1>3. /\ u \in Seq(S) /\ Len(u) = Len(s) + 1 /\ u[Len(s) + 1] = t[Len(t)]
      /\ \A i \in 1 .. Len(s) : u[i] = s[i]
  BY <1>2, AppendProperties
<1>4. \A i \in 1 .. Len(s) : t[i] = s[i]
  BY Zenon DEF Begins
<1>. HIDE DEF u
<1>5. ASSUME NEW i \in 1 .. Len(u)
      PROVE  u[i] = t[i]
  <2>1. i \in 1 .. Len(s) \/ i = Len(t)
    BY <1>1, <1>3, SMT
  <2>2. CASE i \in 1 .. Len(s)
    BY <2>2, <1>3, <1>4, Zenon
  <2>3. CASE i = Len(t)
    BY <2>3, <1>1, <1>3, Zenon
  <2>. QED
    BY <2>1, <2>2, <2>3, Zenon
<1>6. Len(u) = Len(t)
  BY <1>1, <1>3, Zenon
<1>7. u = t
  BY <1>3, <1>5, <1>6, SeqEqual
<1>. QED
  BY <1>7 DEF u

\* What begins a sequence and is as long is the sequence.
LEMMA BeginsWhole ==
    ASSUME NEW S, NEW s \in Seq(S), NEW t \in Seq(S), Begins(s, t), Len(s) = Len(t)
    PROVE  s = t
<1>1. \A i \in 1 .. Len(s) : s[i] = t[i]
  BY Zenon DEF Begins
<1>. QED
  BY <1>1, SeqEqual

\* What only grows, step by step, begins with what it was at any time.
LEMMA Grows ==
    ASSUME NEW S, NEW N \in Nat, NEW g \in [0 .. N -> Seq(S)],
           \A n \in 1 .. N : Begins(g[n - 1], g[n])
    PROVE  \A n \in 0 .. N : Begins(g[n], g[N])
<1>. DEFINE G == {k \in 0 .. N : Begins(g[N - k], g[N])}
<1>1. 0 \in G
  <2>1. N - 0 = N /\ g[N] \in Seq(S)
    OBVIOUS
  <2>. QED
    BY <2>1 DEF Begins
<1>2. ASSUME NEW k \in 0 .. N - 1, k \in G PROVE k + 1 \in G
  <2>. DEFINE n == N - k
  <2>1. n \in 1 .. N /\ n - 1 = N - (k + 1) /\ n - 1 \in 0 .. N /\ n \in 0 .. N
    OBVIOUS
  <2>2. Begins(g[n], g[N])
    BY <1>2
  <2>. HIDE DEF n
  <2>3. Begins(g[n - 1], g[n])
    BY <2>1
  <2>4. Len(g[n - 1]) \in Nat /\ Len(g[n]) \in Nat /\ Len(g[N]) \in Nat
    BY <2>1
  <2>5. Begins(g[n - 1], g[N])
    BY <2>2, <2>3, <2>4 DEF Begins
  <2>. QED
    BY <2>1, <2>5
<1>. HIDE DEF G
<1>3. \A k \in 0 .. N : k \in G
  BY <1>1, <1>2, UpTo
<1>4. ASSUME NEW n \in 0 .. N PROVE Begins(g[n], g[N])
  <2>1. N - n \in 0 .. N /\ N - (N - n) = n
    OBVIOUS
  <2>. QED
    BY <1>3, <2>1 DEF G
<1>. QED
  BY <1>4

\* Where a text stops being symbols.
LEMMA NumSymbolsFacts ==
    ASSUME NEW text \in Seq(Char), NEW n, n = NumSymbols(text)
    PROVE  /\ n \in 0 .. Len(text) /\ ~IsSymbol(CharAt(text, n + 1))
           /\ \A i \in 1 .. n : text[i] \in Symbol
<1>. DEFINE Stops(m) == (\A i \in 1 .. m : IsSymbol(text[i])) /\ ~IsSymbol(CharAt(text, m + 1))
            N == Len(text)
<1>1. N \in Nat
  OBVIOUS
<1>2. \E m \in 0 .. N : Stops(m)
  <2>. SUFFICES ASSUME \A m \in 0 .. N : ~Stops(m) PROVE FALSE
    OBVIOUS
  <2>. DEFINE G == {m \in 0 .. N : \A i \in 1 .. m : IsSymbol(text[i])}
  <2>1. 0 \in G
    BY <1>1
  <2>2. ASSUME NEW m \in 0 .. N - 1, m \in G PROVE m + 1 \in G
    <3>1. m + 1 <= N /\ m \in 0 .. N /\ m + 1 \in 0 .. N
      BY <1>1
    <3>2. IsSymbol(text[m + 1])
      BY <2>2, <3>1 DEF CharAt
    <3>3. \A i \in 1 .. m + 1 : i \in 1 .. m \/ i = m + 1
      BY <3>1
    <3>. QED
      BY <2>2, <3>1, <3>2, <3>3
  <2>. HIDE DEF G
  <2>3. N \in G
    <3>. HIDE DEF N
    <3>1. \A m \in 0 .. N : m \in G
      BY <1>1, <2>1, <2>2, UpTo
    <3>. QED
      BY <1>1, <3>1
  <2>4. ~IsSymbol(CharAt(text, N + 1))
    <3>1. ~(N + 1 <= Len(text))
      BY <1>1
    <3>2. CharAt(text, N + 1) = Junk
      BY <3>1, Zenon DEF CharAt
    <3>3. Junk \notin Symbol
      BY DEF Junk, Symbol
    <3>. QED
      BY <3>2, <3>3, Zenon DEF IsSymbol
  <2>. QED
    BY <1>1, <2>3, <2>4 DEF G
<1>3. n \in 0 .. N /\ Stops(n)
  BY <1>2, Zenon DEF NumSymbols
<1>. QED
  BY <1>3 DEF IsSymbol

\* There is only one such place.
LEMMA NumSymbolsUnique ==
    ASSUME NEW text \in Seq(Char), NEW m \in 0 .. Len(text),
           \A i \in 1 .. m : text[i] \in Symbol, ~IsSymbol(CharAt(text, m + 1))
    PROVE  NumSymbols(text) = m
<1>. DEFINE n == NumSymbols(text)
<1>1. /\ n \in 0 .. Len(text) /\ ~IsSymbol(CharAt(text, n + 1))
      /\ \A i \in 1 .. n : text[i] \in Symbol
  BY NumSymbolsFacts
<1>. HIDE DEF n
<1>0. Len(text) \in Nat
  OBVIOUS
<1>2. ~(m < n)
  <2>. SUFFICES ASSUME m < n PROVE FALSE
    OBVIOUS
  <2>1. m + 1 \in 1 .. n /\ m + 1 <= Len(text)
    BY <1>0, <1>1
  <2>. QED
    BY <1>1, <2>1 DEF CharAt, IsSymbol
<1>3. ~(n < m)
  <2>. SUFFICES ASSUME n < m PROVE FALSE
    OBVIOUS
  <2>1. n + 1 \in 1 .. m /\ n + 1 <= Len(text)
    BY <1>0, <1>1
  <2>. QED
    BY <1>1, <2>1 DEF CharAt, IsSymbol
<1>4. n = m
  BY <1>0, <1>1, <1>2, <1>3
<1>. QED
  BY <1>4 DEF n

\* The bits there are when a symbol has come.
LEMMA DecoderValue ==
    ASSUME NEW d \in DecoderState, NEW c \in Symbol,
           NEW value, value = d.left * 32 + c
    PROVE  /\ value \in Nat
           /\ d.mode = 0 => value < 32
           /\ d.mode = 1 => value < 1024
           /\ d.mode = 2 => value < 128
           /\ d.mode = 3 => value < 4096
           /\ d.mode = 4 => value < 512
           /\ d.mode = 5 => value < 64
           /\ d.mode = 6 => value < 2048
           /\ d.mode = 7 => value < 256
<1>. DEFINE left == d.left
            mode == d.mode
<1>1. left \in Nat /\ c \in 0 .. 31
  BY DecoderFields DEF Symbol
<1>2. /\ mode = 0 => left = 0
      /\ mode = 1 => left < 32
      /\ mode = 2 => left < 4
      /\ mode = 3 => left < 128
      /\ mode = 4 => left < 16
      /\ mode = 5 => left < 2
      /\ mode = 6 => left < 64
      /\ mode = 7 => left < 8
  BY DecoderFields
<1>3. value = left * 32 + c
  OBVIOUS
<1>. HIDE DEF left, mode
<1>4. /\ value \in Nat
      /\ mode = 0 => value < 32
      /\ mode = 1 => value < 1024
      /\ mode = 2 => value < 128
      /\ mode = 3 => value < 4096
      /\ mode = 4 => value < 512
      /\ mode = 5 => value < 64
      /\ mode = 6 => value < 2048
      /\ mode = 7 => value < 256
  BY <1>1, <1>2, <1>3
<1>. QED
  BY <1>4 DEF mode

\* A symbol adds a byte or none.
LEMMA DecodeType ==
    ASSUME NEW d \in DecoderState, NEW c \in Symbol, NEW f, f = DecodeSymbol(d, c)
    PROVE  f \in DecoderState /\ Begins(d.bytes, f.bytes)
<1>. DEFINE value == d.left * 32 + c
<1>0. value = d.left * 32 + c
  OBVIOUS
<1>. HIDE DEF value
<1>1. value \in Nat /\ DecodeTable(d, value, f)
  BY <1>0, DecoderValue, DecodeCases
<1>2. ASSUME NEW mode, NEW left, NEW kept, NEW bytes \in Seq(Byte),
             mode \in 0 .. 7, left \in 0 .. 127,
             kept = 2^DecoderKept(mode), left < kept,
             f.mode = mode, f.left = left, f.bytes = bytes
      PROVE  f \in DecoderState
  <2>2. ASSUME NEW A, NEW B, NEW C, mode \in A, left \in B, f.bytes \in C
        PROVE  f \in [mode : A, left : B, bytes : C]
    BY <1>2, <2>2 DEF DecodeSymbol
  <2>3. f \in [mode : 0 .. 7, left : 0 .. 127, bytes : Seq(Byte)]
    BY <1>2, <2>2, Zenon
  <2>. QED
    BY <1>2, <2>3, Zenon DEF DecoderState
<1>3. ASSUME NEW byte \in Byte, f.bytes = Append(d.bytes, byte)
      PROVE  f.bytes \in Seq(Byte) /\ Begins(d.bytes, f.bytes)
  BY <1>3, DecoderFields DEF Begins
<1>4. ASSUME f.bytes = d.bytes
      PROVE  f.bytes \in Seq(Byte) /\ Begins(d.bytes, f.bytes)
  BY <1>4, DecoderFields DEF Begins
<1>5. ASSUME NEW v \in Nat, v < 256 PROVE v \in Byte
  BY <1>5 DEF Byte
<1>10. CASE d.mode = 0
  <2>1. f.mode = 1 /\ f.left = value /\ f.bytes = d.bytes
    BY <1>1, <1>10, Zenon DEF DecodeTable
  <2>2. value < 32
    BY <1>0, <1>10, DecoderValue
  <2>3. value \in 0 .. 127 /\ 32 = 2^DecoderKept(1) /\ 1 \in 0 .. 7
    BY <1>1, <2>2 DEF DecoderKept
  <2>. QED
    BY <1>2, <1>4, <2>1, <2>2, <2>3
<1>11. CASE d.mode = 1
  <2>1. f.mode = 2 /\ f.left = value % 4 /\ f.bytes = Append(d.bytes, value \div 4)
    BY <1>1, <1>11, Zenon DEF DecodeTable
  <2>2. value < 1024
    BY <1>0, <1>11, DecoderValue
  <2>3. value % 4 \in 0 .. 127 /\ value % 4 < 4 /\ 4 = 2^DecoderKept(2) /\ 2 \in 0 .. 7
    BY <1>1, <2>2 DEF DecoderKept
  <2>4. value \div 4 \in Nat /\ value \div 4 < 256
    BY <1>1, <2>2
  <2>. QED
    BY <1>2, <1>3, <1>5, <2>1, <2>3, <2>4
<1>12. CASE d.mode = 2
  <2>1. f.mode = 3 /\ f.left = value /\ f.bytes = d.bytes
    BY <1>1, <1>12, Zenon DEF DecodeTable
  <2>2. value < 128
    BY <1>0, <1>12, DecoderValue
  <2>3. value \in 0 .. 127 /\ 128 = 2^DecoderKept(3) /\ 3 \in 0 .. 7
    BY <1>1, <2>2 DEF DecoderKept
  <2>. QED
    BY <1>2, <1>4, <2>1, <2>2, <2>3
<1>13. CASE d.mode = 3
  <2>1. f.mode = 4 /\ f.left = value % 16 /\ f.bytes = Append(d.bytes, value \div 16)
    BY <1>1, <1>13, Zenon DEF DecodeTable
  <2>2. value < 4096
    BY <1>0, <1>13, DecoderValue
  <2>3. value % 16 \in 0 .. 127 /\ value % 16 < 16 /\ 16 = 2^DecoderKept(4) /\ 4 \in 0 .. 7
    BY <1>1, <2>2 DEF DecoderKept
  <2>4. value \div 16 \in Nat /\ value \div 16 < 256
    BY <1>1, <2>2
  <2>. QED
    BY <1>2, <1>3, <1>5, <2>1, <2>3, <2>4
<1>14. CASE d.mode = 4
  <2>1. f.mode = 5 /\ f.left = value % 2 /\ f.bytes = Append(d.bytes, value \div 2)
    BY <1>1, <1>14, Zenon DEF DecodeTable
  <2>2. value < 512
    BY <1>0, <1>14, DecoderValue
  <2>3. value % 2 \in 0 .. 127 /\ value % 2 < 2 /\ 2 = 2^DecoderKept(5) /\ 5 \in 0 .. 7
    BY <1>1, <2>2 DEF DecoderKept
  <2>4. value \div 2 \in Nat /\ value \div 2 < 256
    BY <1>1, <2>2
  <2>. QED
    BY <1>2, <1>3, <1>5, <2>1, <2>3, <2>4
<1>15. CASE d.mode = 5
  <2>1. f.mode = 6 /\ f.left = value /\ f.bytes = d.bytes
    BY <1>1, <1>15, Zenon DEF DecodeTable
  <2>2. value < 64
    BY <1>0, <1>15, DecoderValue
  <2>3. value \in 0 .. 127 /\ 64 = 2^DecoderKept(6) /\ 6 \in 0 .. 7
    BY <1>1, <2>2 DEF DecoderKept
  <2>. QED
    BY <1>2, <1>4, <2>1, <2>2, <2>3
<1>16. CASE d.mode = 6
  <2>1. f.mode = 7 /\ f.left = value % 8 /\ f.bytes = Append(d.bytes, value \div 8)
    BY <1>1, <1>16, Zenon DEF DecodeTable
  <2>2. value < 2048
    BY <1>0, <1>16, DecoderValue
  <2>3. value % 8 \in 0 .. 127 /\ value % 8 < 8 /\ 8 = 2^DecoderKept(7) /\ 7 \in 0 .. 7
    BY <1>1, <2>2 DEF DecoderKept
  <2>4. value \div 8 \in Nat /\ value \div 8 < 256
    BY <1>1, <2>2
  <2>. QED
    BY <1>2, <1>3, <1>5, <2>1, <2>3, <2>4
<1>17. CASE d.mode = 7
  <2>1. f.mode = 0 /\ f.left = 0 /\ f.bytes = Append(d.bytes, value)
    BY <1>1, <1>17, Zenon DEF DecodeTable
  <2>2. value < 256
    BY <1>0, <1>17, DecoderValue
  <2>3. 0 \in 0 .. 127 /\ 0 < 1 /\ 1 = 2^DecoderKept(0) /\ 0 \in 0 .. 7
    BY DEF DecoderKept
  <2>. QED
    BY <1>1, <1>2, <1>3, <1>5, <2>1, <2>2, <2>3
<1>. QED
  BY <1>10, <1>11, <1>12, <1>13, <1>14, <1>15, <1>16, <1>17, DecoderFields

\* The decoder is the run of DecodeSymbol over the symbols.
LEMMA DecoderRuns ==
    ASSUME NEW text \in Seq(Char), NEW D, D = Decoder(text)
    PROVE  /\ D \in [0 .. NumSymbols(text) -> DecoderState]
           /\ D[0] = [mode |-> 0, left |-> 0, bytes |-> <<>>]
           /\ \A n \in 1 .. NumSymbols(text) : D[n] = DecodeSymbol(D[n - 1], text[n])
<1>. DEFINE N == NumSymbols(text)
            base == [mode |-> 0, left |-> 0, bytes |-> <<>>]
            step == [n \in 1 .. N |-> [d \in DecoderState |-> DecodeSymbol(d, text[n])]]
<1>1. N \in Nat /\ \A n \in 1 .. N : text[n] \in Symbol
  BY NumSymbolsFacts
<1>2. base \in DecoderState
  <2>1. 0 < 2^DecoderKept(0)
    BY DEF DecoderKept
  <2>. QED
    BY <2>1 DEF DecoderState
<1>3. \A n \in 1 .. N : \A d \in DecoderState : DecodeSymbol(d, text[n]) \in DecoderState
  BY <1>1, DecodeType
<1>4. step \in [1 .. N -> [DecoderState -> DecoderState]]
  BY <1>3
<1>. HIDE DEF base, N
<1>5. PICK f \in [0 .. N -> DecoderState] : Follows(f, base, step, N)
  <2>. HIDE DEF step
  <2>. QED
    BY <1>1, <1>2, <1>4, Recursion
<1>6. ASSUME NEW n \in 1 .. N PROVE f[n] = DecodeSymbol(f[n - 1], text[n])
  <2>1. n - 1 \in 0 .. N
    BY <1>1
  <2>2. f[n - 1] \in DecoderState /\ f[n] = step[n][f[n - 1]]
    BY <1>5, <2>1, Zenon DEF Follows
  <2>. QED
    BY <2>2
<1>7. f = [n \in 0 .. N |-> IF n = 0 THEN base ELSE DecodeSymbol(f[n - 1], text[n])]
  BY <1>1, <1>5, <1>6 DEF Follows
<1>8. D = CHOOSE after : after = [n \in 0 .. N |->
                                    IF n = 0 THEN base ELSE DecodeSymbol(after[n - 1], text[n])]
  BY Zenon DEF Decoder, base, N
<1>9. D = [n \in 0 .. N |-> IF n = 0 THEN base ELSE DecodeSymbol(D[n - 1], text[n])]
  BY <1>7, <1>8, Zenon
<1>10. D[0] = base /\ \A n \in 1 .. N : D[n] = DecodeSymbol(D[n - 1], text[n])
  BY <1>1, <1>9
<1>11. \A n \in 0 .. N : D[n] \in DecoderState
  <2>. DEFINE G == {n \in 0 .. N : D[n] \in DecoderState}
  <2>1. 0 \in G
    BY <1>1, <1>2, <1>10
  <2>2. \A n \in 0 .. N - 1 : n \in G => n + 1 \in G
    BY <1>1, <1>3, <1>10
  <2>. HIDE DEF G
  <2>3. \A n \in 0 .. N : n \in G
    BY <1>1, <2>1, <2>2, UpTo
  <2>. QED
    BY <2>3 DEF G
<1>. QED
  BY <1>9, <1>10, <1>11 DEF base, N

-----------------------------------------------------------------------------
(* The decoder over the symbols of encoded bytes. *)

\* How bits move through one symbol or two, for each number of bytes before the last.
Carried1(l, b, dl, s, t, r) ==
    /\ (dl * 32 + s) \div 4 = dl * 8 + l
    /\ (((dl * 32 + s) % 4) * 32 + t) * 2 + r = b
Carried2(l, b, dl, s, r) ==
    /\ (dl * 32 + s) \div 16 = dl * 2 + l
    /\ ((dl * 32 + s) % 16) * 16 + r = b
Carried3(l, b, dl, s, t, r) ==
    /\ (dl * 32 + s) \div 2 = dl * 16 + l
    /\ (((dl * 32 + s) % 2) * 32 + t) * 4 + r = b
Carried4(l, b, dl, s, t) ==
    /\ (dl * 32 + s) \div 8 = dl * 4 + l
    /\ ((dl * 32 + s) % 8) * 32 + t = b

\* With one byte before: 3 bits are left over.
LEMMA CarryOf1 ==
    ASSUME NEW l \in Nat, l < 8, NEW b \in Nat, b < 256, NEW dl \in Nat, dl < 32,
           NEW v, v = l * 256 + b, NEW s, s = v \div 64,
           NEW t, t = (v \div 2) % 32, NEW r, r = v % 2
    PROVE  Carried1(l, b, dl, s, t, r)
<1>. SUFFICES ASSUME NEW q, q = b \div 64
              PROVE  (dl * 32 + s) \div 4 = dl * 8 + l /\ (((dl * 32 + s) % 4) * 32 + t) * 2 + r = b
  BY DEF Carried1
<1>1. q \in Nat /\ q < 4 /\ s = l * 4 + q
  OBVIOUS
<1>2. t = (b \div 2) % 32 /\ r = b % 2
  OBVIOUS
<1>3. (q * 32 + t) * 2 + r = b
  BY <1>2
<1>4. (dl * 32 + s) \div 4 = dl * 8 + l /\ (dl * 32 + s) % 4 = q
  BY <1>1
<1>. QED
  BY <1>3, <1>4

\* With two bytes before: 1 bit is left over.
LEMMA CarryOf2 ==
    ASSUME NEW l \in Nat, l < 2, NEW b \in Nat, b < 256, NEW dl \in Nat, dl < 128,
           NEW v, v = l * 256 + b, NEW s, s = v \div 16, NEW r, r = v % 16
    PROVE  Carried2(l, b, dl, s, r)
<1>. SUFFICES ASSUME NEW q, q = b \div 16
              PROVE  (dl * 32 + s) \div 16 = dl * 2 + l /\ ((dl * 32 + s) % 16) * 16 + r = b
  BY DEF Carried2
<1>1. q \in Nat /\ q < 16 /\ s = l * 16 + q
  OBVIOUS
<1>2. r = b % 16
  OBVIOUS
<1>3. q * 16 + r = b
  BY <1>2
<1>4. (dl * 32 + s) \div 16 = dl * 2 + l /\ (dl * 32 + s) % 16 = q
  BY <1>1
<1>. QED
  BY <1>3, <1>4

\* With three bytes before: 4 bits are left over.
LEMMA CarryOf3 ==
    ASSUME NEW l \in Nat, l < 16, NEW b \in Nat, b < 256, NEW dl \in Nat, dl < 16,
           NEW v, v = l * 256 + b, NEW s, s = v \div 128,
           NEW t, t = (v \div 4) % 32, NEW r, r = v % 4
    PROVE  Carried3(l, b, dl, s, t, r)
<1>. SUFFICES ASSUME NEW q, q = b \div 128
              PROVE  /\ (dl * 32 + s) \div 2 = dl * 16 + l
                     /\ (((dl * 32 + s) % 2) * 32 + t) * 4 + r = b
  BY DEF Carried3
<1>1. q \in Nat /\ q < 2 /\ s = l * 2 + q
  OBVIOUS
<1>2. t = (b \div 4) % 32 /\ r = b % 4
  OBVIOUS
<1>3. (q * 32 + t) * 4 + r = b
  BY <1>2
<1>4. (dl * 32 + s) \div 2 = dl * 16 + l /\ (dl * 32 + s) % 2 = q
  BY <1>1
<1>. QED
  BY <1>3, <1>4

\* With four bytes before: 2 bits are left over.
LEMMA CarryOf4 ==
    ASSUME NEW l \in Nat, l < 4, NEW b \in Nat, b < 256, NEW dl \in Nat, dl < 64,
           NEW v, v = l * 256 + b, NEW s, s = v \div 32, NEW t, t = v % 32
    PROVE  Carried4(l, b, dl, s, t)
<1>. SUFFICES ASSUME NEW q, q = b \div 32
              PROVE  (dl * 32 + s) \div 8 = dl * 4 + l /\ ((dl * 32 + s) % 8) * 32 + t = b
  BY DEF Carried4
<1>1. q \in Nat /\ q < 8 /\ s = l * 8 + q
  OBVIOUS
<1>2. t = b % 32
  OBVIOUS
<1>3. q * 32 + t = b
  BY <1>2
<1>4. (dl * 32 + s) \div 8 = dl * 4 + l /\ (dl * 32 + s) % 8 = q
  BY <1>1
<1>. QED
  BY <1>3, <1>4

\* The decoder is as far as the encoder's symbols let it be.
InStep(e, d, bytes, n) ==
    /\ Begins(d.bytes, bytes)
    /\ e.mode = 0 => d.mode = 0 /\ Len(d.bytes) = n
    /\ e.mode = 1 => d.mode = 1 /\ Len(d.bytes) = n - 1 /\ d.left * 8 + e.left = bytes[n]
    /\ e.mode = 2 => d.mode = 3 /\ Len(d.bytes) = n - 1 /\ d.left * 2 + e.left = bytes[n]
    /\ e.mode = 3 => d.mode = 4 /\ Len(d.bytes) = n - 1 /\ d.left * 16 + e.left = bytes[n]
    /\ e.mode = 4 => d.mode = 6 /\ Len(d.bytes) = n - 1 /\ d.left * 4 + e.left = bytes[n]

\* What begins another text and is continued as it is begins it, too.
LEMMA BeginsAppend ==
    ASSUME NEW S, NEW s \in Seq(S), NEW t \in Seq(S), Begins(s, t), Len(s) < Len(t),
           NEW x, x = t[Len(s) + 1]
    PROVE  Begins(Append(s, x), t) /\ Len(Append(s, x)) = Len(s) + 1
BY DEF Begins

\* f is e with the next byte; the decoder reads the symbols that it adds.
LEMMA EncodedStep ==
    ASSUME NEW bytes \in Seq(Byte), NEW n \in 0 .. Len(bytes) - 1,
           NEW e \in EncoderState, NEW d \in DecoderState, InStep(e, d, bytes, n),
           NEW f, f = EncodeByte(e, bytes[n + 1])
    PROVE  \/ \E s \in Symbol : /\ f.text = e.text \o <<s>>
                                /\ InStep(f, DecodeSymbol(d, s), bytes, n + 1)
           \/ \E s, t \in Symbol :
                 /\ f.text = e.text \o <<s, t>>
                 /\ InStep(f, DecodeSymbol(DecodeSymbol(d, s), t), bytes, n + 1)
<1>. DEFINE b == bytes[n + 1]
            v == e.left * 256 + b
<1>0. n \in Nat /\ Len(bytes) \in Nat /\ n + 1 \in 1 .. Len(bytes) /\ n < Len(bytes)
  OBVIOUS
<1>1. b \in Byte /\ b \in Nat /\ b < 256
  <2>1. b \in Byte
    BY <1>0
  <2>. HIDE DEF b
  <2>. QED
    BY <2>1 DEF Byte
<1>2. v = e.left * 256 + b /\ b = bytes[n + 1] /\ f = EncodeByte(e, b)
  OBVIOUS
<1>. HIDE DEF b, v
<1>3. v \in Nat /\ EncodeTable(e, v, f)
  BY <1>1, <1>2, EncoderValue, EncodeCases
<1>4. e.left \in Nat /\ d.left \in Nat /\ d.bytes \in Seq(Byte) /\ Len(d.bytes) \in Nat
  <2>1. e.left \in 0 .. 15 /\ d.left \in Nat /\ d.bytes \in Seq(Byte)
    BY EncoderFields, DecoderFields, Zenon
  <2>. QED
    BY <2>1
<1>5. ASSUME NEW s \in Symbol, NEW g, g = DecodeSymbol(d, s)
      PROVE  g \in DecoderState /\ DecodeTable(d, d.left * 32 + s, g)
  BY <1>5, DecodeType, DecodeCases, Zenon
<1>6. Begins(d.bytes, bytes)
  BY Zenon DEF InStep
<1>7. \A x \in Symbol : x \in Nat
  BY DEF Symbol
<1>10. CASE e.mode = 0
  <2>1. f.mode = 1 /\ f.left = v % 8 /\ f.text = e.text \o <<v \div 8>>
    BY <1>3, <1>10, Zenon DEF EncodeTable
  <2>2. d.mode = 0 /\ Len(d.bytes) = n
    BY <1>10, Zenon DEF InStep
  <2>3. e.left = 0 /\ d.left = 0
    BY <1>10, <2>2, EncoderFields, DecoderFields
  <2>a. v = b
    BY <1>1, <1>2, <2>3
  <2>4. v \div 8 \in Symbol /\ v = b
    BY <1>1, <2>a DEF Symbol
  <2>. DEFINE s == v \div 8
              g == DecodeSymbol(d, s)
  <2>5. g.mode = 1 /\ g.left = d.left * 32 + s /\ g.bytes = d.bytes
    BY <1>5, <2>2, <2>4 DEF DecodeTable
  <2>6. g.left * 8 + f.left = b
    BY <1>1, <2>1, <2>3, <2>4, <2>5
  <2>. HIDE DEF g
  <2>7. InStep(f, g, bytes, n + 1)
    BY <1>0, <1>2, <1>6, <2>1, <2>2, <2>5, <2>6 DEF InStep
  <2>. QED
    BY <2>1, <2>4, <2>7 DEF g
<1>11. CASE e.mode = 1
  <2>1. f.mode = 2 /\ f.left = v % 2 /\ f.text = e.text \o <<v \div 64, (v \div 2) % 32>>
    BY <1>3, <1>11, Zenon DEF EncodeTable
  <2>2. d.mode = 1 /\ Len(d.bytes) = n - 1 /\ d.left * 8 + e.left = bytes[n]
    BY <1>11, Zenon DEF InStep
  <2>3. e.left < 8 /\ d.left < 32
    BY <1>11, <2>2, EncoderFields, DecoderFields
  <2>a. v < 2048
    BY <1>1, <1>2, <1>11, EncoderValue
  <2>. DEFINE s == v \div 64
              t == (v \div 2) % 32
              r == v % 2
              g == DecodeSymbol(d, s)
              h == DecodeSymbol(g, t)
  <2>4. s \in Symbol /\ t \in Symbol
    BY <1>3, <2>a DEF Symbol
  <2>b. s = v \div 64 /\ t = (v \div 2) % 32 /\ r = v % 2
    OBVIOUS
  <2>. HIDE DEF s, t, r
  <2>c. Carried1(e.left, b, d.left, s, t, r)
    BY <1>1, <1>2, <1>4, <2>3, <2>b, CarryOf1
  <2>5. /\ (d.left * 32 + s) \div 4 = d.left * 8 + e.left
        /\ (((d.left * 32 + s) % 4) * 32 + t) * 2 + r = b
    BY <1>1, <1>2, <1>4, <2>3, <2>b, <2>c DEF Carried1
  <2>6. /\ g \in DecoderState /\ g.mode = 2 /\ g.left = (d.left * 32 + s) % 4
        /\ g.bytes = Append(d.bytes, (d.left * 32 + s) \div 4)
    BY <1>5, <2>2, <2>4 DEF DecodeTable
  <2>. HIDE DEF g
  <2>7. h.mode = 3 /\ h.left = g.left * 32 + t /\ h.bytes = g.bytes
    BY <2>4, <2>6, DecodeCases DEF DecodeTable
  <2>. HIDE DEF h
  <2>8. Begins(h.bytes, bytes) /\ Len(h.bytes) = n
    <3>1. Len(d.bytes) < Len(bytes) /\ Len(d.bytes) + 1 = n
      BY <1>0, <1>4, <2>2
    <3>2. h.bytes = Append(d.bytes, bytes[Len(d.bytes) + 1])
      BY <2>2, <2>5, <2>6, <2>7, <3>1
    <3>. QED
      BY <1>4, <1>6, <3>1, <3>2, BeginsAppend
  <2>9. h.left * 2 + f.left = b
    BY <2>1, <2>5, <2>6, <2>7, <2>b
  <2>10. InStep(f, h, bytes, n + 1)
    BY <1>0, <1>2, <2>1, <2>7, <2>8, <2>9 DEF InStep
  <2>. QED
    BY <2>1, <2>4, <2>10, <2>b, Zenon DEF g, h
<1>12. CASE e.mode = 2
  <2>1. f.mode = 3 /\ f.left = v % 16 /\ f.text = e.text \o <<v \div 16>>
    BY <1>3, <1>12, Zenon DEF EncodeTable
  <2>2. d.mode = 3 /\ Len(d.bytes) = n - 1 /\ d.left * 2 + e.left = bytes[n]
    BY <1>12, Zenon DEF InStep
  <2>3. e.left < 2 /\ d.left < 128
    BY <1>12, <2>2, EncoderFields, DecoderFields
  <2>a. v < 512
    BY <1>1, <1>2, <1>12, EncoderValue
  <2>. DEFINE s == v \div 16
              r == v % 16
              g == DecodeSymbol(d, s)
  <2>4. s \in Symbol
    BY <1>3, <2>a DEF Symbol
  <2>b. s = v \div 16 /\ r = v % 16
    OBVIOUS
  <2>. HIDE DEF s, r
  <2>c. Carried2(e.left, b, d.left, s, r)
    BY <1>1, <1>2, <1>4, <2>3, <2>b, CarryOf2
  <2>5. (d.left * 32 + s) \div 16 = d.left * 2 + e.left /\ ((d.left * 32 + s) % 16) * 16 + r = b
    BY <1>1, <1>2, <1>4, <2>3, <2>b, <2>c DEF Carried2
  <2>6. /\ g.mode = 4 /\ g.left = (d.left * 32 + s) % 16
        /\ g.bytes = Append(d.bytes, (d.left * 32 + s) \div 16)
    BY <1>5, <2>2, <2>4 DEF DecodeTable
  <2>. HIDE DEF g
  <2>8. Begins(g.bytes, bytes) /\ Len(g.bytes) = n
    <3>1. Len(d.bytes) < Len(bytes) /\ Len(d.bytes) + 1 = n
      BY <1>0, <1>4, <2>2
    <3>2. g.bytes = Append(d.bytes, bytes[Len(d.bytes) + 1])
      BY <2>2, <2>5, <2>6, <3>1
    <3>. QED
      BY <1>4, <1>6, <3>1, <3>2, BeginsAppend
  <2>9. g.left * 16 + f.left = b
    BY <2>1, <2>5, <2>6, <2>b
  <2>10. InStep(f, g, bytes, n + 1)
    BY <1>0, <1>2, <2>1, <2>6, <2>8, <2>9 DEF InStep
  <2>. QED
    BY <2>1, <2>4, <2>10, <2>b, Zenon DEF g
<1>13. CASE e.mode = 3
  <2>1. f.mode = 4 /\ f.left = v % 4 /\ f.text = e.text \o <<v \div 128, (v \div 4) % 32>>
    BY <1>3, <1>13, Zenon DEF EncodeTable
  <2>2. d.mode = 4 /\ Len(d.bytes) = n - 1 /\ d.left * 16 + e.left = bytes[n]
    BY <1>13, Zenon DEF InStep
  <2>3. e.left < 16 /\ d.left < 16
    <3>1. e.left \in 0 .. 15
      BY EncoderFields
    <3>2. d.left < 16
      BY <2>2, DecoderFields
    <3>. QED
      BY <3>1, <3>2
  <2>a. v < 4096
    BY <1>1, <1>2, <1>13, EncoderValue
  <2>. DEFINE s == v \div 128
              t == (v \div 4) % 32
              r == v % 4
              g == DecodeSymbol(d, s)
              h == DecodeSymbol(g, t)
  <2>4. s \in Symbol /\ t \in Symbol
    BY <1>3, <2>a DEF Symbol
  <2>b. s = v \div 128 /\ t = (v \div 4) % 32 /\ r = v % 4
    OBVIOUS
  <2>. HIDE DEF s, t, r
  <2>c. Carried3(e.left, b, d.left, s, t, r)
    BY <1>1, <1>2, <1>4, <2>3, <2>b, CarryOf3
  <2>5. /\ (d.left * 32 + s) \div 2 = d.left * 16 + e.left
        /\ (((d.left * 32 + s) % 2) * 32 + t) * 4 + r = b
    BY <1>1, <1>2, <1>4, <2>3, <2>b, <2>c DEF Carried3
  <2>6. /\ g \in DecoderState /\ g.mode = 5 /\ g.left = (d.left * 32 + s) % 2
        /\ g.bytes = Append(d.bytes, (d.left * 32 + s) \div 2)
    BY <1>5, <2>2, <2>4 DEF DecodeTable
  <2>. HIDE DEF g
  <2>7. h.mode = 6 /\ h.left = g.left * 32 + t /\ h.bytes = g.bytes
    BY <2>4, <2>6, DecodeCases DEF DecodeTable
  <2>. HIDE DEF h
  <2>8. Begins(h.bytes, bytes) /\ Len(h.bytes) = n
    <3>1. Len(d.bytes) < Len(bytes) /\ Len(d.bytes) + 1 = n
      BY <1>0, <1>4, <2>2
    <3>2. h.bytes = Append(d.bytes, bytes[Len(d.bytes) + 1])
      BY <2>2, <2>5, <2>6, <2>7, <3>1
    <3>. QED
      BY <1>4, <1>6, <3>1, <3>2, BeginsAppend
  <2>9. h.left * 4 + f.left = b
    BY <2>1, <2>5, <2>6, <2>7, <2>b
  <2>10. InStep(f, h, bytes, n + 1)
    BY <1>0, <1>2, <2>1, <2>7, <2>8, <2>9 DEF InStep
  <2>. QED
    BY <2>1, <2>4, <2>10, <2>b, Zenon DEF g, h
<1>14. CASE e.mode = 4
  <2>1. f.mode = 0 /\ f.left = 0 /\ f.text = e.text \o <<v \div 32, v % 32>>
    BY <1>3, <1>14, Zenon DEF EncodeTable
  <2>2. d.mode = 6 /\ Len(d.bytes) = n - 1 /\ d.left * 4 + e.left = bytes[n]
    BY <1>14, Zenon DEF InStep
  <2>3. e.left < 4 /\ d.left < 64
    BY <1>14, <2>2, EncoderFields, DecoderFields
  <2>a. v < 1024
    BY <1>1, <1>2, <1>14, EncoderValue
  <2>. DEFINE s == v \div 32
              t == v % 32
              g == DecodeSymbol(d, s)
              h == DecodeSymbol(g, t)
  <2>4. s \in Symbol /\ t \in Symbol
    BY <1>3, <2>a DEF Symbol
  <2>b. s = v \div 32 /\ t = v % 32
    OBVIOUS
  <2>. HIDE DEF s, t
  <2>c. Carried4(e.left, b, d.left, s, t)
    BY <1>1, <1>2, <1>4, <2>3, <2>b, CarryOf4
  <2>5. (d.left * 32 + s) \div 8 = d.left * 4 + e.left /\ ((d.left * 32 + s) % 8) * 32 + t = b
    BY <1>1, <1>2, <1>4, <2>3, <2>b, <2>c DEF Carried4
  <2>6. /\ g \in DecoderState /\ g.mode = 7 /\ g.left = (d.left * 32 + s) % 8
        /\ g.bytes = Append(d.bytes, (d.left * 32 + s) \div 8)
    BY <1>5, <2>2, <2>4 DEF DecodeTable
  <2>. HIDE DEF g
  <2>7. h.mode = 0 /\ h.bytes = Append(g.bytes, g.left * 32 + t)
    <3>1. g \in DecoderState /\ g.mode = 7
      BY <2>6
    <3>2. DecodeTable(g, g.left * 32 + t, h)
      BY <2>4, <3>1, DecodeCases
    <3>. QED
      BY <3>1, <3>2, Zenon DEF DecodeTable
  <2>. HIDE DEF h
  <2>8. Begins(g.bytes, bytes) /\ Len(g.bytes) = n /\ g.bytes \in Seq(Byte)
    <3>1. Len(d.bytes) < Len(bytes) /\ Len(d.bytes) + 1 = n
      BY <1>0, <1>4, <2>2
    <3>2. g.bytes = Append(d.bytes, bytes[Len(d.bytes) + 1])
      BY <2>2, <2>5, <2>6, <3>1
    <3>3. g.bytes \in Seq(Byte)
      BY <2>6, DecoderFields
    <3>. QED
      BY <1>4, <1>6, <3>1, <3>2, <3>3, BeginsAppend
  <2>9. Begins(h.bytes, bytes) /\ Len(h.bytes) = n + 1
    <3>1. h.bytes = Append(g.bytes, bytes[Len(g.bytes) + 1])
      BY <1>2, <2>5, <2>6, <2>7, <2>8
    <3>. QED
      BY <1>0, <2>8, <3>1, BeginsAppend
  <2>10. InStep(f, h, bytes, n + 1)
    BY <2>1, <2>7, <2>9 DEF InStep
  <2>. QED
    BY <2>1, <2>4, <2>10, <2>b, Zenon DEF g, h
<1>. QED
  BY <1>10, <1>11, <1>12, <1>13, <1>14, EncoderFields, Zenon DEF b

-----------------------------------------------------------------------------
(* The end of an encoded text. *)

\* The last symbol and the padding after it.
Completed(s, last, pads, text) ==
    /\ Begins(s, text) /\ Len(text) = Len(s) + 1 + pads /\ text[Len(s) + 1] = last
    /\ \A i \in 1 .. pads : text[Len(s) + 1 + i] = Pad

\* The end of a text: nothing after a complete group, else a last symbol and the padding.
EncodeEnds(e, text) ==
    /\ e.mode = 0 => text = e.text
    /\ e.mode = 1 => e.left * 4 \in Symbol /\ Completed(e.text, e.left * 4, 6, text)
    /\ e.mode = 2 => e.left * 16 \in Symbol /\ Completed(e.text, e.left * 16, 4, text)
    /\ e.mode = 3 => e.left * 2 \in Symbol /\ Completed(e.text, e.left * 2, 3, text)
    /\ e.mode = 4 => e.left * 8 \in Symbol /\ Completed(e.text, e.left * 8, 1, text)

\* A symbol and padding appended complete a text.
LEMMA CompletedFacts ==
    ASSUME NEW s \in Seq(Symbol), NEW last \in Symbol, NEW pads \in Nat,
           NEW text, text = s \o <<last>> \o [i \in 1 .. pads |-> Pad]
    PROVE  text \in Seq(Char) /\ Completed(s, last, pads, text)
<1>1. /\ s \in Seq(Char) /\ <<last>> \in Seq(Char) /\ [i \in 1 .. pads |-> Pad] \in Seq(Char)
  <2>1. Symbol \subseteq Char /\ Pad \in Char
    BY DEF Char
  <2>. QED
    BY <2>1
<1>. DEFINE t == [i \in 1 .. pads |-> Pad]
            u == s \o <<last>>
<1>2. t \in Seq(Char) /\ Len(t) = pads /\ \A i \in 1 .. pads : t[i] = Pad
  BY <1>1
<1>. HIDE DEF t
<1>3. u \in Seq(Char) /\ Len(u) = Len(s) + 1 /\ u[Len(s) + 1] = last
      /\ \A i \in 1 .. Len(s) : u[i] = s[i]
  BY <1>1
<1>4. text = u \o t
  BY DEF t
<1>. HIDE DEF u
<1>5. Len(s) \in Nat
  OBVIOUS
<1>6. text \in Seq(Char) /\ Len(text) = Len(s) + 1 + pads
  <2>1. u \o t \in Seq(Char) /\ Len(u \o t) = Len(u) + Len(t)
    BY <1>2, <1>3, ConcatProperties
  <2>. QED
    BY <1>2, <1>3, <1>4, <2>1, Zenon
<1>7. \A i \in 1 .. Len(s) + 1 : text[i] = u[i]
  BY <1>2, <1>3, <1>4, <1>5
<1>8. \A i \in 1 .. pads : text[Len(s) + 1 + i] = t[i]
  BY <1>2, <1>3, <1>4, <1>5
<1>. QED
  BY <1>2, <1>3, <1>5, <1>6, <1>7, <1>8 DEF Completed, Begins

\* EncodeBase32 completes what its run leaves.
LEMMA EncodeEnd ==
    ASSUME NEW bytes \in Seq(Byte), NEW e, e = Encoder(bytes)[Len(bytes)],
           NEW text, text = EncodeBase32(bytes)
    PROVE  e \in EncoderState /\ text \in Seq(Char) /\ EncodeEnds(e, text)
<1>1. e \in EncoderState
  BY EncoderRuns
<1>2. e.text \in Seq(Symbol) /\ e.mode \in {0, 1, 2, 3, 4}
  BY <1>1, EncoderFields
<1>. DEFINE last == e.left * 2^(5 - EncoderKept(e.mode))
            pads == nPadding[e.mode + 1]
<1>3. text = IF e.mode = 0 THEN e.text ELSE e.text \o <<last>> \o [i \in 1 .. pads |-> Pad]
  BY Zenon DEF EncodeBase32
<1>4. /\ last = e.left * 2^(5 - EncoderKept(e.mode))
      /\ pads = nPadding[e.mode + 1]
  OBVIOUS
<1>. HIDE DEF last, pads
<1>5. ASSUME NEW m, NEW p \in Nat, last = e.left * m, pads = p, e.mode # 0, e.left * m \in Symbol
      PROVE  text \in Seq(Char) /\ Completed(e.text, e.left * m, p, text)
  BY <1>2, <1>3, <1>5, CompletedFacts
<1>9. /\ e.left \in Nat /\ e.left < 16
      /\ e.mode = 1 => e.left < 8
      /\ e.mode = 2 => e.left < 2
      /\ e.mode = 4 => e.left < 4
  <2>1. e.left \in 0 .. 15
    BY <1>1, EncoderFields
  <2>2. e.left \in Nat /\ e.left < 16
    BY <2>1
  <2>. QED
    BY <1>1, <2>2, EncoderFields
<1>6. /\ e.mode = 1 => e.left * 4 \in Symbol
      /\ e.mode = 2 => e.left * 16 \in Symbol
      /\ e.mode = 3 => e.left * 2 \in Symbol
      /\ e.mode = 4 => e.left * 8 \in Symbol
  <2>. DEFINE l == e.left
              mode == e.mode
  <2>1. /\ l \in Nat /\ l < 16
        /\ mode = 1 => l < 8
        /\ mode = 2 => l < 2
        /\ mode = 4 => l < 4
    BY <1>9
  <2>. HIDE DEF l, mode
  <2>2. /\ mode = 1 => l * 4 \in Symbol
        /\ mode = 2 => l * 16 \in Symbol
        /\ mode = 3 => l * 2 \in Symbol
        /\ mode = 4 => l * 8 \in Symbol
    BY <2>1 DEF Symbol
  <2>. QED
    BY <2>2 DEF l, mode
<1>10. CASE e.mode = 0
  <2>1. Seq(Symbol) \subseteq Seq(Char)
    BY DEF Char
  <2>. QED
    BY <1>1, <1>2, <1>3, <1>10, <2>1 DEF EncodeEnds
<1>11. CASE e.mode = 1
  <2>1. 5 - EncoderKept(e.mode) = 2 /\ e.mode + 1 = 2
    BY <1>11 DEF EncoderKept
  <2>2. 2^2 = 4 /\ nPadding[2] = 6
    BY DEF nPadding
  <2>3. last = e.left * 4 /\ pads = 6
    BY <1>4, <2>1, <2>2, Zenon
  <2>4. e.left * 4 \in Symbol
    BY <1>6, <1>11
  <2>. QED
    BY <1>1, <1>5, <1>11, <2>3, <2>4 DEF EncodeEnds
<1>12. CASE e.mode = 2
  <2>1. 5 - EncoderKept(e.mode) = 4 /\ e.mode + 1 = 3
    BY <1>12 DEF EncoderKept
  <2>2. 2^4 = 16 /\ nPadding[3] = 4
    BY DEF nPadding
  <2>3. last = e.left * 16 /\ pads = 4
    BY <1>4, <2>1, <2>2, Zenon
  <2>4. e.left * 16 \in Symbol
    BY <1>6, <1>12
  <2>. QED
    BY <1>1, <1>5, <1>12, <2>3, <2>4 DEF EncodeEnds
<1>13. CASE e.mode = 3
  <2>1. 5 - EncoderKept(e.mode) = 1 /\ e.mode + 1 = 4
    BY <1>13 DEF EncoderKept
  <2>2. 2^1 = 2 /\ nPadding[4] = 3
    BY DEF nPadding
  <2>3. last = e.left * 2 /\ pads = 3
    BY <1>4, <2>1, <2>2, Zenon
  <2>4. e.left * 2 \in Symbol
    BY <1>6, <1>13
  <2>. QED
    BY <1>1, <1>5, <1>13, <2>3, <2>4 DEF EncodeEnds
<1>14. CASE e.mode = 4
  <2>1. 5 - EncoderKept(e.mode) = 3 /\ e.mode + 1 = 5
    BY <1>14 DEF EncoderKept
  <2>2. 2^3 = 8 /\ nPadding[5] = 1
    BY DEF nPadding
  <2>3. last = e.left * 8 /\ pads = 1
    BY <1>4, <2>1, <2>2, Zenon
  <2>4. e.left * 8 \in Symbol
    BY <1>6, <1>14
  <2>. QED
    BY <1>1, <1>5, <1>14, <2>3, <2>4 DEF EncodeEnds
<1>. QED
  BY <1>2, <1>10, <1>11, <1>12, <1>13, <1>14

\* Each state of the encoder is a step of it from the one before.
LEMMA EncoderGrows ==
    ASSUME NEW bytes \in Seq(Byte), NEW E, E = Encoder(bytes), NEW n \in 0 .. Len(bytes)
    PROVE  Begins(E[n].text, E[Len(bytes)].text)
<1>. DEFINE N == Len(bytes)
            g == [m \in 0 .. N |-> E[m].text]
<1>1. /\ N \in Nat /\ E \in [0 .. N -> EncoderState]
      /\ \A m \in 1 .. N : bytes[m] \in Byte /\ E[m] = EncodeByte(E[m - 1], bytes[m])
  BY EncoderRuns
<1>. HIDE DEF N
<1>2. g \in [0 .. N -> Seq(Symbol)]
  BY <1>1, EncoderFields
<1>3. ASSUME NEW m \in 1 .. N PROVE Begins(g[m - 1], g[m])
  <2>1. m \in 0 .. N /\ m - 1 \in 0 .. N
    BY <1>1
  <2>2. E[m - 1] \in EncoderState /\ bytes[m] \in Byte /\ E[m] = EncodeByte(E[m - 1], bytes[m])
    BY <1>1, <2>1
  <2>3. PICK out \in Seq(Symbol) : E[m].text = E[m - 1].text \o out
    BY <2>2, EncodeType
  <2>4. E[m - 1].text \in Seq(Symbol)
    BY <2>2, EncoderFields
  <2>5. Begins(E[m - 1].text, E[m].text)
    BY <2>3, <2>4 DEF Begins
  <2>. QED
    BY <2>1, <2>5
<1>. HIDE DEF g
<1>4. Begins(g[n], g[N])
  <2>1. n \in 0 .. N /\ N \in 0 .. N
    BY <1>1 DEF N
  <2>. QED
    BY <1>1, <1>2, <1>3, <2>1, Grows
<1>. QED
  BY <1>1, <1>4 DEF g, N

-----------------------------------------------------------------------------
(* The decoder keeps step with the encoder. *)

\* To begin with is transitive.
LEMMA BeginsTrans ==
    ASSUME NEW S, NEW s \in Seq(S), NEW t \in Seq(S), NEW T, NEW u \in Seq(T),
           Begins(s, t), Begins(t, u)
    PROVE  Begins(s, u)
<1>1. Len(s) \in Nat /\ Len(t) \in Nat /\ Len(u) \in Nat
  OBVIOUS
<1>2. Len(s) <= Len(t) /\ Len(t) <= Len(u)
  BY Zenon DEF Begins
<1>3. ASSUME NEW i \in 1 .. Len(s) PROVE u[i] = s[i]
  <2>1. i \in 1 .. Len(t)
    BY <1>1, <1>2
  <2>. QED
    BY <2>1, Zenon DEF Begins
<1>. QED
  BY <1>1, <1>2, <1>3 DEF Begins

\* The decoder keeps step with the encoder over a text that begins with its symbols.
LEMMA InStepAlways ==
    ASSUME NEW bytes \in Seq(Byte), NEW E, E = Encoder(bytes),
           NEW text \in Seq(Char), Begins(E[Len(bytes)].text, text),
           Len(E[Len(bytes)].text) <= NumSymbols(text),
           NEW D, D = Decoder(text)
    PROVE  \A n \in 0 .. Len(bytes) : InStep(E[n], D[Len(E[n].text)], bytes, n)
<1>. DEFINE N == Len(bytes)
            K == NumSymbols(text)
            G == {n \in 0 .. N : InStep(E[n], D[Len(E[n].text)], bytes, n)}
<1>1. /\ N \in Nat /\ E \in [0 .. N -> EncoderState]
      /\ E[0] = [mode |-> 0, left |-> 0, text |-> <<>>]
      /\ \A n \in 1 .. N : bytes[n] \in Byte /\ E[n] = EncodeByte(E[n - 1], bytes[n])
  BY EncoderRuns
<1>2. /\ K \in Nat /\ D \in [0 .. K -> DecoderState]
      /\ D[0] = [mode |-> 0, left |-> 0, bytes |-> <<>>]
      /\ \A k \in 1 .. K : text[k] \in Symbol /\ D[k] = DecodeSymbol(D[k - 1], text[k])
  BY NumSymbolsFacts, DecoderRuns
<1>3. ASSUME NEW n \in 0 .. N
      PROVE  /\ E[n] \in EncoderState /\ E[n].text \in Seq(Symbol) /\ Len(E[n].text) \in 0 .. K
             /\ Begins(E[n].text, text)
  <2>1. Begins(E[n].text, E[N].text)
    BY EncoderGrows
  <2>2. E[n] \in EncoderState /\ E[N] \in EncoderState
    BY <1>1
  <2>3. E[n].text \in Seq(Symbol) /\ E[N].text \in Seq(Symbol)
    BY <2>2, EncoderFields
  <2>4. Begins(E[N].text, text) /\ Len(E[N].text) <= K
    OBVIOUS
  <2>5. /\ Len(E[n].text) \in Nat /\ Len(E[N].text) \in Nat /\ Len(text) \in Nat
    BY <2>3
  <2>6. Begins(E[n].text, text)
    BY <2>1, <2>3, <2>4, BeginsTrans
  <2>7. Len(E[n].text) <= Len(E[N].text)
    BY <2>1, Zenon DEF Begins
  <2>8. Len(E[n].text) \in 0 .. K
    BY <1>2, <2>4, <2>5, <2>7
  <2>. QED
    BY <2>2, <2>3, <2>6, <2>8
<1>4. 0 \in G
  <2>1. Len(E[0].text) = 0 /\ E[0].mode = 0
    BY <1>1
  <2>2. D[0].mode = 0 /\ D[0].bytes = <<>>
    BY <1>2
  <2>3. Begins(D[0].bytes, bytes) /\ Len(D[0].bytes) = 0
    BY <1>1, <2>2 DEF Begins
  <2>4. InStep(E[0], D[0], bytes, 0)
    BY <2>1, <2>2, <2>3 DEF InStep
  <2>. QED
    BY <1>1, <2>1, <2>4
<1>. HIDE DEF N, K
<1>5. ASSUME NEW n \in 0 .. N - 1, n \in G PROVE n + 1 \in G
  <2>. DEFINE e == E[n]
              f == E[n + 1]
              m == Len(e.text)
  <2>1. n \in 0 .. N /\ n + 1 \in 1 .. N /\ n + 1 \in 0 .. N /\ (n + 1) - 1 = n
    BY <1>1
  <2>2. e \in EncoderState /\ e.text \in Seq(Symbol) /\ m \in 0 .. K
    BY <1>3, <2>1
  <2>3. f = EncodeByte(e, bytes[n + 1])
    BY <1>1, <2>1
  <2>4. InStep(e, D[m], bytes, n)
    BY <1>5
  <2>5. f.text \in Seq(Symbol) /\ Begins(f.text, text) /\ Len(f.text) \in 0 .. K
    BY <1>3, <2>1
  <2>6. D[m] \in DecoderState
    BY <1>2, <2>2
  <2>. HIDE DEF e, f, m
  <2>7. m = Len(e.text)
    BY DEF m
  <2>8. \/ \E s \in Symbol : /\ f.text = e.text \o <<s>>
                             /\ InStep(f, DecodeSymbol(D[m], s), bytes, n + 1)
        \/ \E s, t \in Symbol :
              /\ f.text = e.text \o <<s, t>>
              /\ InStep(f, DecodeSymbol(DecodeSymbol(D[m], s), t), bytes, n + 1)
    <3>1. n \in 0 .. Len(bytes) - 1
      BY DEF N
    <3>. QED
      BY <2>2, <2>3, <2>4, <2>6, <3>1, EncodedStep
  <2>9. ASSUME NEW s \in Symbol, f.text = e.text \o <<s>>,
               InStep(f, DecodeSymbol(D[m], s), bytes, n + 1)
        PROVE  InStep(f, D[Len(f.text)], bytes, n + 1)
    <3>1. Len(f.text) = m + 1 /\ f.text[m + 1] = s
      BY <2>2, <2>7, <2>9
    <3>2. m + 1 \in 1 .. K /\ (m + 1) - 1 = m /\ text[m + 1] = s
      BY <1>2, <2>2, <2>5, <3>1 DEF Begins
    <3>3. D[m + 1] = DecodeSymbol(D[m], s)
      BY <1>2, <3>2
    <3>. QED
      BY <2>9, <3>1, <3>3
  <2>10. ASSUME NEW s \in Symbol, NEW t \in Symbol, f.text = e.text \o <<s, t>>,
                InStep(f, DecodeSymbol(DecodeSymbol(D[m], s), t), bytes, n + 1)
         PROVE  InStep(f, D[Len(f.text)], bytes, n + 1)
    <3>1. Len(f.text) = m + 2 /\ f.text[m + 1] = s /\ f.text[m + 2] = t
      BY <2>2, <2>7, <2>10
    <3>a. m \in Nat /\ m + 2 <= K
      BY <1>2, <2>2, <2>5, <3>1
    <3>b. /\ m + 1 \in 1 .. K /\ (m + 1) - 1 = m /\ m + 1 \in 1 .. Len(f.text)
          /\ m + 2 \in 1 .. K /\ (m + 2) - 1 = m + 1 /\ m + 2 \in 1 .. Len(f.text)
      BY <1>2, <3>1, <3>a
    <3>2. text[m + 1] = s /\ text[m + 2] = t
      BY <2>5, <3>1, <3>b, Zenon DEF Begins
    <3>3. D[m + 1] = DecodeSymbol(D[m], s) /\ D[m + 2] = DecodeSymbol(D[m + 1], t)
      BY <1>2, <3>2, <3>b
    <3>. QED
      BY <2>10, <3>1, <3>3
  <2>11. InStep(f, D[Len(f.text)], bytes, n + 1)
    BY <2>8, <2>9, <2>10
  <2>. QED
    BY <2>1, <2>11 DEF f
<1>. HIDE DEF G
<1>6. \A n \in 0 .. N : n \in G
  BY <1>1, <1>4, <1>5, UpTo
<1>. QED
  BY <1>6 DEF G, N

\* After the last byte, the padding and the last symbol are what the decoder asks for.
LEMMA LastSymbol ==
    ASSUME NEW bytes \in Seq(Byte), NEW n, n = Len(bytes),
           NEW e \in EncoderState, NEW d \in DecoderState, InStep(e, d, bytes, n), e.mode # 0,
           NEW text, EncodeEnds(e, text), NEW m, m = Len(e.text)
    PROVE  /\ text[m + 1] \in Symbol
           /\ \E f : /\ f = DecodeSymbol(d, text[m + 1])
                     /\ f.bytes = bytes /\ f.left = 0 /\ f.mode \in {2, 4, 5, 7}
                     /\ Completed(e.text, text[m + 1], PaddingOf(f.mode), text)
<1>1. n \in Nat /\ d.bytes \in Seq(Byte) /\ Len(d.bytes) \in Nat /\ d.left \in Nat
  BY DecoderFields
<1>2. e.left \in Nat
  <2>1. e.left \in 0 .. 15
    BY EncoderFields
  <2>. QED
    BY <2>1
<1>3. ASSUME NEW f, Len(d.bytes) = n - 1, f.bytes = Append(d.bytes, bytes[n])
      PROVE  f.bytes = bytes
  <2>1. Begins(d.bytes, bytes)
    BY Zenon DEF InStep
  <2>2. Len(d.bytes) = Len(bytes) - 1
    BY <1>3, Zenon
  <2>3. Append(d.bytes, bytes[Len(bytes)]) = bytes
    BY <1>1, <2>1, <2>2, BeginsButLast
  <2>. QED
    BY <1>3, <2>3, Zenon
<1>4. \A x, y : Completed(e.text, x, y, text) => text[m + 1] = x
  BY DEF Completed
<1>5. PaddingOf(2) = 6 /\ PaddingOf(4) = 4 /\ PaddingOf(5) = 3 /\ PaddingOf(7) = 1
  BY DEF PaddingOf
<1>. DEFINE f == DecodeSymbol(d, text[m + 1])
<1>11. CASE e.mode = 1
  <2>1. e.left * 4 \in Symbol /\ Completed(e.text, e.left * 4, 6, text)
    BY <1>11, Zenon DEF EncodeEnds
  <2>2. d.mode = 1 /\ Len(d.bytes) = n - 1 /\ d.left * 8 + e.left = bytes[n]
    BY <1>11, Zenon DEF InStep
  <2>3. text[m + 1] = e.left * 4
    BY <1>4, <2>1
  <2>. DEFINE v == d.left * 32 + e.left * 4
  <2>4. v \div 4 = bytes[n] /\ v % 4 = 0
    <3>. DEFINE x == d.left * 8 + e.left
    <3>1. x \in Nat /\ v = 4 * x
      BY <1>1, <1>2
    <3>. HIDE DEF v, x
    <3>2. v \div 4 = x /\ v % 4 = 0
      BY <3>1
    <3>. QED
      BY <2>2, <3>2 DEF x
  <2>5. f.mode = 2 /\ f.left = v % 4 /\ f.bytes = Append(d.bytes, v \div 4)
    BY <2>1, <2>2, <2>3, DecodeCases DEF DecodeTable
  <2>. HIDE DEF f, v
  <2>6. f.bytes = bytes
    BY <1>3, <2>2, <2>4, <2>5
  <2>. QED
    BY <1>5, <2>1, <2>3, <2>4, <2>5, <2>6 DEF f
<1>12. CASE e.mode = 2
  <2>1. e.left * 16 \in Symbol /\ Completed(e.text, e.left * 16, 4, text)
    BY <1>12, Zenon DEF EncodeEnds
  <2>2. d.mode = 3 /\ Len(d.bytes) = n - 1 /\ d.left * 2 + e.left = bytes[n]
    BY <1>12, Zenon DEF InStep
  <2>3. text[m + 1] = e.left * 16
    BY <1>4, <2>1
  <2>. DEFINE v == d.left * 32 + e.left * 16
  <2>4. v \div 16 = bytes[n] /\ v % 16 = 0
    <3>. DEFINE x == d.left * 2 + e.left
    <3>1. x \in Nat /\ v = 16 * x
      BY <1>1, <1>2
    <3>. HIDE DEF v, x
    <3>2. v \div 16 = x /\ v % 16 = 0
      BY <3>1
    <3>. QED
      BY <2>2, <3>2 DEF x
  <2>5. f.mode = 4 /\ f.left = v % 16 /\ f.bytes = Append(d.bytes, v \div 16)
    BY <2>1, <2>2, <2>3, DecodeCases DEF DecodeTable
  <2>. HIDE DEF f, v
  <2>6. f.bytes = bytes
    BY <1>3, <2>2, <2>4, <2>5
  <2>. QED
    BY <1>5, <2>1, <2>3, <2>4, <2>5, <2>6 DEF f
<1>13. CASE e.mode = 3
  <2>1. e.left * 2 \in Symbol /\ Completed(e.text, e.left * 2, 3, text)
    BY <1>13, Zenon DEF EncodeEnds
  <2>2. d.mode = 4 /\ Len(d.bytes) = n - 1 /\ d.left * 16 + e.left = bytes[n]
    BY <1>13, Zenon DEF InStep
  <2>3. text[m + 1] = e.left * 2
    BY <1>4, <2>1
  <2>. DEFINE v == d.left * 32 + e.left * 2
  <2>4. v \div 2 = bytes[n] /\ v % 2 = 0
    <3>. DEFINE x == d.left * 16 + e.left
    <3>1. x \in Nat /\ v = 2 * x
      BY <1>1, <1>2
    <3>. HIDE DEF v, x
    <3>2. v \div 2 = x /\ v % 2 = 0
      BY <3>1
    <3>. QED
      BY <2>2, <3>2 DEF x
  <2>5. f.mode = 5 /\ f.left = v % 2 /\ f.bytes = Append(d.bytes, v \div 2)
    BY <2>1, <2>2, <2>3, DecodeCases DEF DecodeTable
  <2>. HIDE DEF f, v
  <2>6. f.bytes = bytes
    BY <1>3, <2>2, <2>4, <2>5
  <2>. QED
    BY <1>5, <2>1, <2>3, <2>4, <2>5, <2>6 DEF f
<1>14. CASE e.mode = 4
  <2>1. e.left * 8 \in Symbol /\ Completed(e.text, e.left * 8, 1, text)
    BY <1>14, Zenon DEF EncodeEnds
  <2>2. d.mode = 6 /\ Len(d.bytes) = n - 1 /\ d.left * 4 + e.left = bytes[n]
    BY <1>14, Zenon DEF InStep
  <2>3. text[m + 1] = e.left * 8
    BY <1>4, <2>1
  <2>. DEFINE v == d.left * 32 + e.left * 8
  <2>4. v \div 8 = bytes[n] /\ v % 8 = 0
    <3>. DEFINE x == d.left * 4 + e.left
    <3>1. x \in Nat /\ v = 8 * x
      BY <1>1, <1>2
    <3>. HIDE DEF v, x
    <3>2. v \div 8 = x /\ v % 8 = 0
      BY <3>1
    <3>. QED
      BY <2>2, <3>2 DEF x
  <2>5. f.mode = 7 /\ f.left = v % 8 /\ f.bytes = Append(d.bytes, v \div 8)
    BY <2>1, <2>2, <2>3, DecodeCases DEF DecodeTable
  <2>. HIDE DEF f, v
  <2>6. f.bytes = bytes
    BY <1>3, <2>2, <2>4, <2>5
  <2>. QED
    BY <1>5, <2>1, <2>3, <2>4, <2>5, <2>6 DEF f
<1>. QED
  BY <1>11, <1>12, <1>13, <1>14, EncoderFields

\* Neither '=' nor junk is a symbol.
LEMMA CharFacts ==
    /\ Junk \notin Symbol /\ Pad \notin Symbol /\ Junk # Pad
    /\ Symbol \subseteq Char
BY DEF Symbol, Char, Pad, Junk

\* What EncodeBase32 makes of bytes decodes to these bytes and is valid.
THEOREM EncodedDecodes ==
    ASSUME NEW bytes \in Seq(Byte), NEW text, text = EncodeBase32(bytes)
    PROVE  DecodeBase32(text) = bytes /\ ~Invalid(text)
<1>. DEFINE N == Len(bytes)
            E == Encoder(bytes)
            e == E[N]
            D == Decoder(text)
            m == Len(e.text)
            K == NumSymbols(text)
<1>1. N \in Nat /\ e \in EncoderState /\ text \in Seq(Char) /\ EncodeEnds(e, text)
  BY EncodeEnd
<1>2. e.text \in Seq(Symbol) /\ m \in Nat /\ e.mode \in {0, 1, 2, 3, 4}
  BY <1>1, EncoderFields
<1>3. /\ K \in 0 .. Len(text) /\ Len(text) \in Nat /\ D \in [0 .. K -> DecoderState]
      /\ \A k \in 1 .. K : D[k] = DecodeSymbol(D[k - 1], text[k])
  BY <1>1, NumSymbolsFacts, DecoderRuns
<1>4. DecodeBase32(text) = D[K].bytes
  BY Zenon DEF DecodeBase32, Decoded
<1>5. Invalid(text) <=>
         \/ D[K].mode \in {1, 3, 6}
         \/ /\ D[K].mode \in {2, 4, 5, 7}
            /\ \/ D[K].left # 0
               \/ \E i \in 1 .. PaddingOf(D[K].mode) : CharAt(text, K + i) # Pad
               \/ IsSymbol(CharAt(text, K + PaddingOf(D[K].mode) + 1))
  BY Zenon DEF Invalid, Decoded
<1>6. \A i \in Nat : i > Len(text) => ~IsSymbol(CharAt(text, i))
  BY <1>3, CharFacts DEF CharAt, IsSymbol
<1>7. ASSUME Begins(e.text, text), m <= K
      PROVE  InStep(e, D[m], bytes, N)
  <2>1. N \in 0 .. N
    BY <1>1
  <2>. QED
    BY <1>1, <1>7, <2>1, InStepAlways, Zenon
<1>. HIDE DEF N, E, D, K, m
<1>8. CASE e.mode = 0
  <2>1. text = e.text
    BY <1>1, <1>8, Zenon DEF EncodeEnds
  <2>2. Begins(e.text, text)
    BY <1>2, <2>1 DEF Begins
  <2>3. K = m
    <3>1. m = Len(text) /\ \A i \in 1 .. m : text[i] \in Symbol
      BY <1>2, <2>1 DEF m
    <3>2. ~IsSymbol(CharAt(text, m + 1))
      BY <1>2, <1>6, <3>1
    <3>3. m \in 0 .. Len(text)
      BY <1>2, <3>1
    <3>. QED
      BY <1>1, <3>1, <3>2, <3>3, NumSymbolsUnique DEF K
  <2>4. InStep(e, D[K], bytes, N)
    BY <1>2, <1>7, <2>2, <2>3
  <2>5. Begins(D[K].bytes, bytes) /\ D[K].mode = 0 /\ Len(D[K].bytes) = N
    BY <1>8, <2>4, Zenon DEF InStep
  <2>6. D[K].bytes = bytes
    <3>1. D[K].bytes \in Seq(Byte)
      BY <1>3, DecoderFields
    <3>. QED
      BY <2>5, <3>1, BeginsWhole, Zenon DEF N
  <2>. QED
    BY <1>4, <1>5, <2>5, <2>6
<1>9. CASE e.mode # 0
  <2>1. PICK last \in Symbol, pads \in {1, 3, 4, 6} : Completed(e.text, last, pads, text)
    BY <1>1, <1>2, <1>9 DEF EncodeEnds
  <2>2. /\ Begins(e.text, text) /\ Len(text) = m + 1 + pads /\ text[m + 1] = last
        /\ \A i \in 1 .. pads : text[m + 1 + i] = Pad
    BY <2>1, Zenon DEF Completed, m
  <2>3. K = m + 1
    <3>1. ASSUME NEW i \in 1 .. m + 1 PROVE text[i] \in Symbol
      <4>1. CASE i = m + 1
        BY <2>2, <4>1
      <4>2. CASE i # m + 1
        <5>1. i \in 1 .. m
          BY <1>2, <4>2
        <5>2. text[i] = e.text[i]
          BY <2>2, <5>1, Zenon DEF Begins, m
        <5>. QED
          BY <1>2, <5>1, <5>2 DEF m
      <4>. QED
        BY <4>1, <4>2
    <3>2. CharAt(text, m + 2) = Pad
      <4>1. m + 2 = m + 1 + 1 /\ 1 \in 1 .. pads /\ m + 2 <= Len(text)
        BY <1>2, <2>2
      <4>. QED
        BY <2>2, <4>1, Zenon DEF CharAt
    <3>3. m + 1 \in 0 .. Len(text) /\ m + 2 = (m + 1) + 1
      BY <1>2, <2>2
    <3>4. ~IsSymbol(CharAt(text, (m + 1) + 1))
      BY <3>2, <3>3, CharFacts, Zenon DEF IsSymbol
    <3>. QED
      BY <1>1, <3>1, <3>3, <3>4, NumSymbolsUnique DEF K
  <2>4. InStep(e, D[m], bytes, N)
    BY <1>2, <1>7, <2>2, <2>3
  <2>5. D[m] \in DecoderState /\ D[K] = DecodeSymbol(D[m], text[m + 1])
    <3>1. m \in 0 .. K /\ K \in 1 .. K /\ K - 1 = m
      BY <1>2, <2>3
    <3>. QED
      BY <1>3, <2>3, <3>1
  <2>6. /\ D[K].bytes = bytes /\ D[K].left = 0 /\ D[K].mode \in {2, 4, 5, 7}
        /\ Completed(e.text, text[m + 1], PaddingOf(D[K].mode), text)
    <3>1. N = Len(bytes) /\ m = Len(e.text)
      BY DEF N, m
    <3>2. \E f : /\ f = DecodeSymbol(D[m], text[m + 1])
                 /\ f.bytes = bytes /\ f.left = 0 /\ f.mode \in {2, 4, 5, 7}
                 /\ Completed(e.text, text[m + 1], PaddingOf(f.mode), text)
      BY <1>1, <1>9, <2>4, <2>5, <3>1, LastSymbol
    <3>. QED
      BY <2>5, <3>2, Zenon
  <2>7. ~Invalid(text)
    <3>. DEFINE P == PaddingOf(D[K].mode)
    <3>1. P \in {1, 3, 4, 6}
      <4>1. PaddingOf(2) = 6 /\ PaddingOf(4) = 4 /\ PaddingOf(5) = 3 /\ PaddingOf(7) = 1
        BY DEF PaddingOf
      <4>. QED
        BY <2>6, <4>1
    <3>2. Len(text) = m + 1 + P /\ \A i \in 1 .. P : text[m + 1 + i] = Pad
      BY <2>6, Zenon DEF Completed, m
    <3>. HIDE DEF P
    <3>3. ASSUME NEW i \in 1 .. P PROVE CharAt(text, K + i) = Pad
      <4>1. K + i = m + 1 + i /\ K + i <= Len(text)
        BY <1>2, <2>3, <3>1, <3>2
      <4>. QED
        BY <3>2, <4>1, Zenon DEF CharAt
    <3>4. ~IsSymbol(CharAt(text, K + P + 1))
      BY <1>2, <1>6, <2>3, <3>1, <3>2
    <3>. QED
      BY <1>5, <2>6, <3>3, <3>4 DEF P
  <2>. QED
    BY <1>4, <2>6, <2>7
<1>. QED
  BY <1>8, <1>9

-----------------------------------------------------------------------------
(* The encoder over the bytes of a decoded text. *)

\* How the bits of symbols come back out of the bytes they went into.
Regained1(dl, c, v, r, b, s, l) ==
    b \in Nat /\ b < 256 /\ s = dl /\ l * 4 + r = c
Regained3(el, dl, c, v, r, b, w, s, u, t, l) ==
    b \in Nat /\ b < 256 /\
    s = el * 4 + dl \div 32 /\ t = dl % 32 /\ l * 16 + r = c
Regained4(el, dl, c, v, r, b, w, s, l) ==
    b \in Nat /\ b < 256 /\ s = el * 16 + dl /\ l * 2 + r = c
Regained6(el, dl, c, v, r, b, w, s, u, t, l) ==
    b \in Nat /\ b < 256 /\
    s = el * 2 + dl \div 32 /\ t = dl % 32 /\ l * 8 + r = c
Regained7(el, dl, c, b, w, s, t) ==
    b \in Nat /\ b < 256 /\ s = el * 8 + dl /\ t = c

\* A state of the encoder, in terms of natural numbers.
LEMMA EncoderLeft ==
    ASSUME NEW e \in EncoderState
    PROVE  e.left \in Nat /\ e.left < 16 /\ e.text \in Seq(Symbol) /\ Len(e.text) \in Nat
<1>1. e.left \in 0 .. 15 /\ e.text \in Seq(Symbol)
  BY EncoderFields, Zenon
<1>. QED
  BY <1>1

\* The symbol read last can be told from the bits before it.
Joined(dl, c, v) == v \div 32 = dl /\ v % 32 = c

\* It can, as it has five bits.
LEMMA JoinOf ==
    ASSUME NEW dl \in Nat, NEW c \in Nat, c < 32, NEW v, v = dl * 32 + c
    PROVE  Joined(dl, c, v)
BY DEF Joined

\* The second symbol of a group completes a byte.
LEMMA RegainOf1 ==
    ASSUME NEW dl \in Nat, dl < 32, NEW c \in Nat, c < 32,
           NEW v, v = dl * 32 + c, NEW r, r = v % 4, NEW b, b = v \div 4,
           NEW s, s = b \div 8, NEW l, l = b % 8
    PROVE  Regained1(dl, c, v, r, b, s, l)
<1>. SUFFICES ASSUME NEW p, p = c \div 4, NEW q, q = c % 4
              PROVE  Regained1(dl, c, v, r, b, s, l)
  OBVIOUS
<1>1. p \in Nat /\ q \in Nat /\ p < 8 /\ q < 4 /\ c = p * 4 + q
  OBVIOUS
<1>2. r = q /\ b = dl * 8 + p
  BY <1>1
<1>3. s = dl /\ l = p
  BY <1>1, <1>2
<1>. QED
  BY <1>1, <1>2, <1>3 DEF Regained1

\* What is known when the fourth symbol of a group comes: e and d hold the bits before.
Given3(el, dl, c, v, r, b, w, s, u, t, l) ==
    /\ dl \in Nat /\ dl < 128 /\ c \in Nat /\ c < 32 /\ el \in Nat /\ el < 8
    /\ v = dl * 32 + c /\ r = v % 16 /\ b = v \div 16 /\ w = el * 256 + b
    /\ s = w \div 64 /\ u = w \div 2 /\ t = u % 32 /\ l = w % 2

\* The fourth symbol completes a byte.
LEMMA RegainOf3 ==
    ASSUME NEW el, NEW dl, NEW c, NEW v, NEW r, NEW b, NEW w, NEW s, NEW u, NEW t, NEW l,
           Given3(el, dl, c, v, r, b, w, s, u, t, l)
    PROVE  Regained3(el, dl, c, v, r, b, w, s, u, t, l)
<1>0. /\ dl \in Nat /\ dl < 128 /\ c \in Nat /\ c < 32 /\ el \in Nat /\ el < 8
      /\ v = dl * 32 + c /\ r = v % 16 /\ b = v \div 16 /\ w = el * 256 + b
      /\ s = w \div 64 /\ u = w \div 2 /\ t = u % 32 /\ l = w % 2
  BY Zenon DEF Given3
<1>. SUFFICES ASSUME NEW p, p = c \div 16, NEW q, q = c % 16,
                     NEW h, h = dl \div 32, NEW k, k = dl % 32
              PROVE  Regained3(el, dl, c, v, r, b, w, s, u, t, l)
  OBVIOUS
<1>1. p \in Nat /\ q \in Nat /\ p < 2 /\ q < 16 /\ c = p * 16 + q
  BY <1>0
<1>2. h \in Nat /\ k \in Nat /\ h < 4 /\ k < 32 /\ dl = h * 32 + k
  BY <1>0
<1>3. r = q /\ b = dl * 2 + p
  BY <1>0, <1>1
<1>4. w = el * 256 + h * 64 + k * 2 + p
  BY <1>0, <1>2, <1>3
<1>5. s = el * 4 + h /\ l = p
  BY <1>0, <1>1, <1>2, <1>4
<1>6. t = k
  <2>1. w \div 2 = el * 128 + h * 32 + k
    BY <1>0, <1>1, <1>2, <1>4
  <2>. QED
    BY <1>0, <1>1, <1>2, <2>1
<1>. QED
  BY <1>0, <1>1, <1>2, <1>3, <1>5, <1>6 DEF Regained3

\* What is known when the fifth symbol of a group comes.
Given4(el, dl, c, v, r, b, w, s, l) ==
    /\ dl \in Nat /\ dl < 16 /\ c \in Nat /\ c < 32 /\ el \in Nat /\ el < 2
    /\ v = dl * 32 + c /\ r = v % 2 /\ b = v \div 2 /\ w = el * 256 + b
    /\ s = w \div 16 /\ l = w % 16

\* The fifth symbol completes a byte.
LEMMA RegainOf4 ==
    ASSUME NEW el, NEW dl, NEW c, NEW v, NEW r, NEW b, NEW w, NEW s, NEW l,
           Given4(el, dl, c, v, r, b, w, s, l)
    PROVE  Regained4(el, dl, c, v, r, b, w, s, l)
<1>0. /\ dl \in Nat /\ dl < 16 /\ c \in Nat /\ c < 32 /\ el \in Nat /\ el < 2
      /\ v = dl * 32 + c /\ r = v % 2 /\ b = v \div 2 /\ w = el * 256 + b
      /\ s = w \div 16 /\ l = w % 16
  BY Zenon DEF Given4
<1>. SUFFICES ASSUME NEW p, p = c \div 2, NEW q, q = c % 2
              PROVE  Regained4(el, dl, c, v, r, b, w, s, l)
  OBVIOUS
<1>1. p \in Nat /\ q \in Nat /\ p < 16 /\ q < 2 /\ c = p * 2 + q
  BY <1>0
<1>2. r = q /\ b = dl * 16 + p
  BY <1>0, <1>1
<1>3. s = el * 16 + dl /\ l = p
  BY <1>0, <1>1, <1>2
<1>. QED
  BY <1>0, <1>1, <1>2, <1>3 DEF Regained4

\* What is known when the seventh symbol of a group comes.
Given6(el, dl, c, v, r, b, w, s, u, t, l) ==
    /\ dl \in Nat /\ dl < 64 /\ c \in Nat /\ c < 32 /\ el \in Nat /\ el < 16
    /\ v = dl * 32 + c /\ r = v % 8 /\ b = v \div 8 /\ w = el * 256 + b
    /\ s = w \div 128 /\ u = w \div 4 /\ t = u % 32 /\ l = w % 4

\* The seventh symbol completes a byte.
LEMMA RegainOf6 ==
    ASSUME NEW el, NEW dl, NEW c, NEW v, NEW r, NEW b, NEW w, NEW s, NEW u, NEW t, NEW l,
           Given6(el, dl, c, v, r, b, w, s, u, t, l)
    PROVE  Regained6(el, dl, c, v, r, b, w, s, u, t, l)
<1>0. /\ dl \in Nat /\ dl < 64 /\ c \in Nat /\ c < 32 /\ el \in Nat /\ el < 16
      /\ v = dl * 32 + c /\ r = v % 8 /\ b = v \div 8 /\ w = el * 256 + b
      /\ s = w \div 128 /\ u = w \div 4 /\ t = u % 32 /\ l = w % 4
  BY Zenon DEF Given6
<1>. SUFFICES ASSUME NEW p, p = c \div 8, NEW q, q = c % 8,
                     NEW h, h = dl \div 32, NEW k, k = dl % 32
              PROVE  Regained6(el, dl, c, v, r, b, w, s, u, t, l)
  OBVIOUS
<1>1. p \in Nat /\ q \in Nat /\ p < 4 /\ q < 8 /\ c = p * 8 + q
  BY <1>0
<1>2. h \in Nat /\ k \in Nat /\ h < 2 /\ k < 32 /\ dl = h * 32 + k
  BY <1>0
<1>3. r = q /\ b = dl * 4 + p
  BY <1>0, <1>1
<1>4. w = el * 256 + h * 128 + k * 4 + p
  BY <1>0, <1>2, <1>3
<1>5. s = el * 2 + h /\ l = p
  BY <1>0, <1>1, <1>2, <1>4
<1>6. t = k
  <2>1. w \div 4 = el * 64 + h * 32 + k
    BY <1>0, <1>1, <1>2, <1>4
  <2>. QED
    BY <1>0, <1>1, <1>2, <2>1
<1>. QED
  BY <1>0, <1>1, <1>2, <1>3, <1>5, <1>6 DEF Regained6

\* What is known when the last symbol of a group comes.
Given7(el, dl, c, b, w, s, t) ==
    /\ dl \in Nat /\ dl < 8 /\ c \in Nat /\ c < 32 /\ el \in Nat /\ el < 4
    /\ b = dl * 32 + c /\ w = el * 256 + b /\ s = w \div 32 /\ t = w % 32

\* The eighth symbol is a part of one byte, and the end of it.
LEMMA RegainOf7 ==
    ASSUME NEW el, NEW dl, NEW c, NEW b, NEW w, NEW s, NEW t,
           Given7(el, dl, c, b, w, s, t)
    PROVE  Regained7(el, dl, c, b, w, s, t)
<1>0. /\ dl \in Nat /\ dl < 8 /\ c \in Nat /\ c < 32 /\ el \in Nat /\ el < 4
      /\ b = dl * 32 + c /\ w = el * 256 + b /\ s = w \div 32 /\ t = w % 32
  BY Zenon DEF Given7
<1>1. s = el * 8 + dl /\ t = c
  BY <1>0
<1>. QED
  BY <1>0, <1>1 DEF Regained7

\* The encoder is as far as the decoder's bytes let it be; its symbols are the text's.
Coupled(d, e, text, k) ==
    /\ Begins(e.text, text)
    /\ d.mode = 0 => e.mode = 0 /\ Len(e.text) = k
    /\ d.mode = 1 => e.mode = 0 /\ Len(e.text) = k - 1 /\ d.left = text[k]
    /\ d.mode = 2 => e.mode = 1 /\ Len(e.text) = k - 1 /\ e.left * 4 + d.left = text[k]
    /\ d.mode = 3 => /\ e.mode = 1 /\ Len(e.text) = k - 2
                     /\ e.left * 4 + d.left \div 32 = text[k - 1] /\ d.left % 32 = text[k]
    /\ d.mode = 4 => e.mode = 2 /\ Len(e.text) = k - 1 /\ e.left * 16 + d.left = text[k]
    /\ d.mode = 5 => e.mode = 3 /\ Len(e.text) = k - 1 /\ e.left * 2 + d.left = text[k]
    /\ d.mode = 6 => /\ e.mode = 3 /\ Len(e.text) = k - 2
                     /\ e.left * 2 + d.left \div 32 = text[k - 1] /\ d.left % 32 = text[k]
    /\ d.mode = 7 => e.mode = 4 /\ Len(e.text) = k - 1 /\ e.left * 8 + d.left = text[k]

\* One more symbol of the text, or two.
LEMMA BeginsMore ==
    ASSUME NEW S, NEW s \in Seq(S), NEW T, NEW t \in Seq(T), Begins(s, t)
    PROVE  /\ \A x \in S : Len(s) + 1 <= Len(t) /\ x = t[Len(s) + 1] =>
                  Begins(s \o <<x>>, t) /\ Len(s \o <<x>>) = Len(s) + 1
           /\ \A x, y \in S : Len(s) + 2 <= Len(t) /\ x = t[Len(s) + 1] /\ y = t[Len(s) + 2] =>
                  Begins(s \o <<x, y>>, t) /\ Len(s \o <<x, y>>) = Len(s) + 2
<1>1. Len(s) \in Nat /\ Len(t) \in Nat /\ \A i \in 1 .. Len(s) : t[i] = s[i]
  BY DEF Begins
<1>2. ASSUME NEW x \in S, Len(s) + 1 <= Len(t), x = t[Len(s) + 1]
      PROVE  Begins(s \o <<x>>, t) /\ Len(s \o <<x>>) = Len(s) + 1
  <2>. DEFINE u == s \o <<x>>
  <2>1. Len(u) = Len(s) + 1 /\ u[Len(s) + 1] = x /\ \A i \in 1 .. Len(s) : u[i] = s[i]
    BY <1>1
  <2>. HIDE DEF u
  <2>2. ASSUME NEW i \in 1 .. Len(u) PROVE t[i] = u[i]
    <3>1. i \in 1 .. Len(s) \/ i = Len(s) + 1
      BY <1>1, <2>1
    <3>. QED
      BY <1>1, <1>2, <2>1, <3>1
  <2>. QED
    BY <1>2, <2>1, <2>2 DEF Begins, u
<1>3. ASSUME NEW x \in S, NEW y \in S, Len(s) + 2 <= Len(t), x = t[Len(s) + 1], y = t[Len(s) + 2]
      PROVE  Begins(s \o <<x, y>>, t) /\ Len(s \o <<x, y>>) = Len(s) + 2
  <2>. DEFINE u == s \o <<x, y>>
  <2>1. /\ Len(u) = Len(s) + 2 /\ u[Len(s) + 1] = x /\ u[Len(s) + 2] = y
        /\ \A i \in 1 .. Len(s) : u[i] = s[i]
    BY <1>1
  <2>. HIDE DEF u
  <2>2. ASSUME NEW i \in 1 .. Len(u) PROVE t[i] = u[i]
    <3>1. i \in 1 .. Len(s) \/ i = Len(s) + 1 \/ i = Len(s) + 2
      BY <1>1, <2>1
    <3>. QED
      BY <1>1, <1>3, <2>1, <3>1
  <2>. QED
    BY <1>3, <2>1, <2>2 DEF Begins, u
<1>. QED
  BY <1>2, <1>3

\* g is d with the next symbol of the text; the encoder gets the byte that it adds, if any.
LEMMA DecodedStep ==
    ASSUME NEW text \in Seq(Char), NEW k \in 0 .. Len(text) - 1, text[k + 1] \in Symbol,
           NEW d \in DecoderState, NEW e \in EncoderState, Coupled(d, e, text, k),
           NEW g, g = DecodeSymbol(d, text[k + 1])
    PROVE  \/ g.bytes = d.bytes /\ Coupled(g, e, text, k + 1)
           \/ \E b \in Byte : /\ g.bytes = Append(d.bytes, b)
                             /\ Coupled(g, EncodeByte(e, b), text, k + 1)
<1>0. PICK c \in Symbol : c = text[k + 1] /\ g = DecodeSymbol(d, c)
  OBVIOUS
<1>. DEFINE v == d.left * 32 + c
            n == Len(e.text)
<1>1. k \in Nat /\ Len(text) \in Nat /\ k + 1 <= Len(text) /\ (k + 1) - 1 = k
  OBVIOUS
<1>2. c \in Nat /\ c < 32
  <2>1. \A x \in Symbol : x \in Nat /\ x < 32
    BY DEF Symbol
  <2>. QED
    BY <2>1, Zenon
<1>3. v = d.left * 32 + c /\ n = Len(e.text)
  OBVIOUS
<1>. HIDE DEF v, n
<1>4. v \in Nat /\ DecodeTable(d, v, g)
  BY <1>0, <1>3, DecoderValue, DecodeCases
<1>5. e.left \in Nat /\ d.left \in Nat /\ e.text \in Seq(Symbol) /\ n \in Nat
  BY <1>3, EncoderLeft, DecoderFields
<1>6. Begins(e.text, text)
  BY Zenon DEF Coupled
<1>7. ASSUME NEW b \in Nat, b < 256, NEW f, f = EncodeByte(e, b), NEW w, w = e.left * 256 + b
      PROVE  b \in Byte /\ EncodeTable(e, w, f)
  <2>1. b \in Byte
    BY <1>7 DEF Byte
  <2>. QED
    BY <1>7, <2>1, EncodeCases, Zenon
<1>8. ASSUME NEW f, NEW s, f.text = e.text \o <<s>>, s = text[n + 1], s \in Symbol,
             n + 1 <= Len(text)
      PROVE  Begins(f.text, text) /\ Len(f.text) = n + 1
  BY <1>3, <1>5, <1>6, <1>8, BeginsMore
<1>9. ASSUME NEW f, NEW s, NEW t, f.text = e.text \o <<s, t>>,
             s = text[n + 1], s \in Symbol, t = text[n + 2], t \in Symbol,
             n + 2 <= Len(text)
      PROVE  Begins(f.text, text) /\ Len(f.text) = n + 2
  BY <1>3, <1>5, <1>6, <1>9, BeginsMore
<1>10. ASSUME NEW w \in Nat
       PROVE  /\ w < 1024 => w \div 32 \in Symbol /\ w % 32 \in Symbol
              /\ w < 512 => w \div 16 \in Symbol
              /\ w < 2048 => w \div 64 \in Symbol /\ (w \div 2) % 32 \in Symbol
              /\ w < 4096 => w \div 128 \in Symbol /\ (w \div 4) % 32 \in Symbol
              /\ w < 256 => w \div 8 \in Symbol
  BY DEF Symbol
<1>20. CASE d.mode = 0
  <2>1. g.mode = 1 /\ g.left = v /\ g.bytes = d.bytes
    BY <1>4, <1>20, Zenon DEF DecodeTable
  <2>2. e.mode = 0 /\ n = k
    BY <1>3, <1>20, Zenon DEF Coupled
  <2>3. d.left = 0
    BY <1>20, DecoderFields
  <2>4. g.left = c /\ n = (k + 1) - 1
    BY <1>1, <1>2, <1>3, <2>1, <2>2, <2>3
  <2>5. Coupled(g, e, text, k + 1)
    BY <1>0, <1>3, <1>6, <2>1, <2>2, <2>4 DEF Coupled
  <2>. QED
    BY <2>1, <2>5
<1>21. CASE d.mode = 1
  <2>1. g.mode = 2 /\ g.left = v % 4 /\ g.bytes = Append(d.bytes, v \div 4)
    BY <1>4, <1>21, Zenon DEF DecodeTable
  <2>2. e.mode = 0 /\ n = k - 1 /\ d.left = text[k]
    BY <1>3, <1>21, Zenon DEF Coupled
  <2>3. e.left = 0 /\ d.left < 32
    BY <1>21, <2>2, EncoderFields, DecoderFields
  <2>. DEFINE b == v \div 4
              w == e.left * 256 + b
              s == w \div 8
              l == w % 8
              r == v % 4
              f == EncodeByte(e, b)
  <2>4. /\ b = v \div 4 /\ w = e.left * 256 + b /\ s = w \div 8
        /\ l = w % 8 /\ r = v % 4
    OBVIOUS
  <2>. HIDE DEF b, w, s, l, r
  <2>5. w = b /\ s = b \div 8 /\ l = b % 8
    <3>1. b \in Nat
      BY <1>4, <2>4
    <3>2. w = b
      BY <2>3, <2>4, <3>1
    <3>. QED
      BY <2>4, <3>2
  <2>6. Regained1(d.left, c, v, r, b, s, l)
    BY <1>2, <1>3, <1>5, <2>3, <2>4, <2>5, RegainOf1
  <2>a. b \in Nat /\ b < 256
    BY <2>6, Zenon DEF Regained1
  <2>7. b \in Byte /\ EncodeTable(e, w, f)
    BY <1>7, <2>4, <2>a, Zenon
  <2>. HIDE DEF f
  <2>8. f.mode = 1 /\ f.left = l /\ f.text = e.text \o <<s>>
    BY <2>2, <2>4, <2>7, Zenon DEF EncodeTable
  <2>b. e.mode = 0
    BY <2>2, Zenon
  <2>c. w = e.left * 256 + b
    BY <2>4, Zenon
  <2>9. s \in Symbol
    <3>1. w \in Nat /\ w < 256
      BY <2>b, <2>c, <2>7, EncoderValue
    <3>. QED
      BY <1>10, <2>4, <3>1
  <2>10. s = text[k] /\ l * 4 + r = c
    BY <1>0, <2>2, <2>6, Zenon DEF Regained1
  <2>11. n + 1 = k /\ n + 1 <= Len(text) /\ n + 1 = (k + 1) - 1
    BY <1>1, <1>5, <2>2
  <2>12. Begins(f.text, text) /\ Len(f.text) = n + 1
    BY <1>8, <2>8, <2>9, <2>10, <2>11
  <2>d. g.mode = 2 /\ f.mode = 1 /\ g.left = r /\ f.left = l
    BY <2>1, <2>4, <2>8, Zenon
  <2>13. Coupled(g, f, text, k + 1)
    BY <1>0, <2>d, <2>10, <2>11, <2>12 DEF Coupled
  <2>14. g.bytes = Append(d.bytes, b)
    BY <2>1, <2>4, Zenon
  <2>. QED
    BY <2>7, <2>13, <2>14, Zenon DEF f
<1>22. CASE d.mode = 2
  <2>1. g.mode = 3 /\ g.left = v /\ g.bytes = d.bytes
    BY <1>4, <1>22, Zenon DEF DecodeTable
  <2>2. e.mode = 1 /\ n = k - 1 /\ e.left * 4 + d.left = text[k]
    BY <1>3, <1>22, Zenon DEF Coupled
  <2>a. Joined(d.left, c, v)
    BY <1>2, <1>3, <1>5, JoinOf
  <2>3. g.left \div 32 = d.left /\ g.left % 32 = c
    BY <2>1, <2>a, Zenon DEF Joined
  <2>4. n = (k + 1) - 2 /\ (k + 1) - 1 = k
    BY <1>1, <2>2
  <2>5. Coupled(g, e, text, k + 1)
    BY <1>0, <1>3, <1>6, <2>1, <2>2, <2>3, <2>4 DEF Coupled
  <2>. QED
    BY <2>1, <2>5
<1>23. CASE d.mode = 3
  <2>1. g.mode = 4 /\ g.left = v % 16 /\ g.bytes = Append(d.bytes, v \div 16)
    BY <1>4, <1>23, Zenon DEF DecodeTable
  <2>2. /\ e.mode = 1 /\ n = k - 2
        /\ e.left * 4 + d.left \div 32 = text[k - 1] /\ d.left % 32 = text[k]
    BY <1>3, <1>23, Zenon DEF Coupled
  <2>3. e.left < 8 /\ d.left < 128
    BY <1>23, <2>2, EncoderFields, DecoderFields
  <2>. DEFINE b == v \div 16
              w == e.left * 256 + b
              s == w \div 64
              u == w \div 2
              t == u % 32
              l == w % 2
              r == v % 16
              f == EncodeByte(e, b)
  <2>4. /\ b = v \div 16 /\ w = e.left * 256 + b /\ s = w \div 64
        /\ u = w \div 2 /\ t = u % 32 /\ l = w % 2 /\ r = v % 16
    OBVIOUS
  <2>. HIDE DEF b, w, s, u, t, l, r
  <2>5. Given3(e.left, d.left, c, v, r, b, w, s, u, t, l)
    BY <1>2, <1>3, <1>5, <2>3, <2>4, Zenon DEF Given3
  <2>6. Regained3(e.left, d.left, c, v, r, b, w, s, u, t, l)
    BY <2>5, RegainOf3
  <2>a. b \in Nat /\ b < 256
    BY <2>6, Zenon DEF Regained3
  <2>7. b \in Byte /\ EncodeTable(e, w, f)
    BY <1>7, <2>4, <2>a, Zenon
  <2>. HIDE DEF f
  <2>8. f.mode = 2 /\ f.left = l /\ f.text = e.text \o <<s, t>>
    BY <2>2, <2>4, <2>7, Zenon DEF EncodeTable
  <2>b. e.mode = 1
    BY <2>2, Zenon
  <2>c. w = e.left * 256 + b
    BY <2>4, Zenon
  <2>9. s \in Symbol /\ t \in Symbol
    <3>1. w \in Nat /\ w < 2048
      BY <2>b, <2>c, <2>7, EncoderValue
    <3>2. w \div 64 \in Symbol /\ (w \div 2) % 32 \in Symbol
      BY <1>10, <3>1
    <3>. QED
      BY <2>4, <3>2, Zenon
  <2>10. s = text[k - 1] /\ t = text[k] /\ l * 16 + r = c
    BY <1>0, <2>2, <2>6, Zenon DEF Regained3
  <2>11. n + 1 = k - 1 /\ n + 2 = k /\ n + 2 <= Len(text) /\ n + 2 = (k + 1) - 1
    BY <1>1, <1>5, <2>2
  <2>12. Begins(f.text, text) /\ Len(f.text) = n + 2
    BY <1>9, <2>8, <2>9, <2>10, <2>11
  <2>d. g.mode = 4 /\ f.mode = 2 /\ g.left = r /\ f.left = l
    BY <2>1, <2>4, <2>8, Zenon
  <2>13. Coupled(g, f, text, k + 1)
    BY <1>0, <2>d, <2>10, <2>11, <2>12 DEF Coupled
  <2>14. g.bytes = Append(d.bytes, b)
    BY <2>1, <2>4, Zenon
  <2>. QED
    BY <2>7, <2>13, <2>14, Zenon DEF f
<1>24. CASE d.mode = 4
  <2>1. g.mode = 5 /\ g.left = v % 2 /\ g.bytes = Append(d.bytes, v \div 2)
    BY <1>4, <1>24, Zenon DEF DecodeTable
  <2>2. e.mode = 2 /\ n = k - 1 /\ e.left * 16 + d.left = text[k]
    BY <1>3, <1>24, Zenon DEF Coupled
  <2>3. e.left < 2 /\ d.left < 16
    BY <1>24, <2>2, EncoderFields, DecoderFields
  <2>. DEFINE b == v \div 2
              w == e.left * 256 + b
              s == w \div 16
              l == w % 16
              r == v % 2
              f == EncodeByte(e, b)
  <2>4. /\ b = v \div 2 /\ w = e.left * 256 + b /\ s = w \div 16
        /\ l = w % 16 /\ r = v % 2
    OBVIOUS
  <2>. HIDE DEF b, w, s, l, r
  <2>6. Regained4(e.left, d.left, c, v, r, b, w, s, l)
    <3>1. Given4(e.left, d.left, c, v, r, b, w, s, l)
      BY <1>2, <1>3, <1>5, <2>3, <2>4, Zenon DEF Given4
    <3>. QED
      BY <3>1, RegainOf4
  <2>a. b \in Nat /\ b < 256
    BY <2>6, Zenon DEF Regained4
  <2>7. b \in Byte /\ EncodeTable(e, w, f)
    BY <1>7, <2>4, <2>a, Zenon
  <2>. HIDE DEF f
  <2>8. f.mode = 3 /\ f.left = l /\ f.text = e.text \o <<s>>
    BY <2>2, <2>4, <2>7, Zenon DEF EncodeTable
  <2>b. e.mode = 2
    BY <2>2, Zenon
  <2>c. w = e.left * 256 + b
    BY <2>4, Zenon
  <2>9. s \in Symbol
    <3>1. w \in Nat /\ w < 512
      BY <2>b, <2>c, <2>7, EncoderValue
    <3>. QED
      BY <1>10, <2>4, <3>1
  <2>10. s = text[k] /\ l * 2 + r = c
    BY <1>0, <2>2, <2>6, Zenon DEF Regained4
  <2>11. n + 1 = k /\ n + 1 <= Len(text) /\ n + 1 = (k + 1) - 1
    BY <1>1, <1>5, <2>2
  <2>12. Begins(f.text, text) /\ Len(f.text) = n + 1
    BY <1>8, <2>8, <2>9, <2>10, <2>11
  <2>d. g.mode = 5 /\ f.mode = 3 /\ g.left = r /\ f.left = l
    BY <2>1, <2>4, <2>8, Zenon
  <2>13. Coupled(g, f, text, k + 1)
    BY <1>0, <2>d, <2>10, <2>11, <2>12 DEF Coupled
  <2>14. g.bytes = Append(d.bytes, b)
    BY <2>1, <2>4, Zenon
  <2>. QED
    BY <2>7, <2>13, <2>14, Zenon DEF f
<1>25. CASE d.mode = 5
  <2>1. g.mode = 6 /\ g.left = v /\ g.bytes = d.bytes
    BY <1>4, <1>25, Zenon DEF DecodeTable
  <2>2. e.mode = 3 /\ n = k - 1 /\ e.left * 2 + d.left = text[k]
    BY <1>3, <1>25, Zenon DEF Coupled
  <2>a. Joined(d.left, c, v)
    BY <1>2, <1>3, <1>5, JoinOf
  <2>3. g.left \div 32 = d.left /\ g.left % 32 = c
    BY <2>1, <2>a, Zenon DEF Joined
  <2>4. n = (k + 1) - 2 /\ (k + 1) - 1 = k
    BY <1>1, <2>2
  <2>5. Coupled(g, e, text, k + 1)
    BY <1>0, <1>3, <1>6, <2>1, <2>2, <2>3, <2>4 DEF Coupled
  <2>. QED
    BY <2>1, <2>5
<1>26. CASE d.mode = 6
  <2>1. g.mode = 7 /\ g.left = v % 8 /\ g.bytes = Append(d.bytes, v \div 8)
    BY <1>4, <1>26, Zenon DEF DecodeTable
  <2>2. /\ e.mode = 3 /\ n = k - 2
        /\ e.left * 2 + d.left \div 32 = text[k - 1] /\ d.left % 32 = text[k]
    BY <1>3, <1>26, Zenon DEF Coupled
  <2>3. e.left < 16 /\ d.left < 64
    BY <1>26, EncoderLeft, DecoderFields
  <2>. DEFINE b == v \div 8
              w == e.left * 256 + b
              s == w \div 128
              u == w \div 4
              t == u % 32
              l == w % 4
              r == v % 8
              f == EncodeByte(e, b)
  <2>4. /\ b = v \div 8 /\ w = e.left * 256 + b /\ s = w \div 128
        /\ u = w \div 4 /\ t = u % 32 /\ l = w % 4 /\ r = v % 8
    OBVIOUS
  <2>. HIDE DEF b, w, s, u, t, l, r
  <2>5. Given6(e.left, d.left, c, v, r, b, w, s, u, t, l)
    BY <1>2, <1>3, <1>5, <2>3, <2>4, Zenon DEF Given6
  <2>6. Regained6(e.left, d.left, c, v, r, b, w, s, u, t, l)
    BY <2>5, RegainOf6
  <2>a. b \in Nat /\ b < 256
    BY <2>6, Zenon DEF Regained6
  <2>7. b \in Byte /\ EncodeTable(e, w, f)
    BY <1>7, <2>4, <2>a, Zenon
  <2>. HIDE DEF f
  <2>8. f.mode = 4 /\ f.left = l /\ f.text = e.text \o <<s, t>>
    BY <2>2, <2>4, <2>7, Zenon DEF EncodeTable
  <2>b. e.mode = 3
    BY <2>2, Zenon
  <2>c. w = e.left * 256 + b
    BY <2>4, Zenon
  <2>9. s \in Symbol /\ t \in Symbol
    <3>1. w \in Nat /\ w < 4096
      BY <2>b, <2>c, <2>7, EncoderValue
    <3>2. w \div 128 \in Symbol /\ (w \div 4) % 32 \in Symbol
      BY <1>10, <3>1
    <3>. QED
      BY <2>4, <3>2, Zenon
  <2>10. s = text[k - 1] /\ t = text[k] /\ l * 8 + r = c
    BY <1>0, <2>2, <2>6, Zenon DEF Regained6
  <2>11. n + 1 = k - 1 /\ n + 2 = k /\ n + 2 <= Len(text) /\ n + 2 = (k + 1) - 1
    BY <1>1, <1>5, <2>2
  <2>12. Begins(f.text, text) /\ Len(f.text) = n + 2
    BY <1>9, <2>8, <2>9, <2>10, <2>11
  <2>d. g.mode = 7 /\ f.mode = 4 /\ g.left = r /\ f.left = l
    BY <2>1, <2>4, <2>8, Zenon
  <2>13. Coupled(g, f, text, k + 1)
    BY <1>0, <2>d, <2>10, <2>11, <2>12 DEF Coupled
  <2>14. g.bytes = Append(d.bytes, b)
    BY <2>1, <2>4, Zenon
  <2>. QED
    BY <2>7, <2>13, <2>14, Zenon DEF f
<1>27. CASE d.mode = 7
  <2>1. g.mode = 0 /\ g.left = 0 /\ g.bytes = Append(d.bytes, v)
    BY <1>4, <1>27, Zenon DEF DecodeTable
  <2>2. e.mode = 4 /\ n = k - 1 /\ e.left * 8 + d.left = text[k]
    BY <1>3, <1>27, Zenon DEF Coupled
  <2>3. e.left < 4 /\ d.left < 8
    BY <1>27, <2>2, EncoderFields, DecoderFields
  <2>. DEFINE b == v
              w == e.left * 256 + b
              s == w \div 32
              t == w % 32
              f == EncodeByte(e, b)
  <2>4. b = v /\ w = e.left * 256 + b /\ s = w \div 32 /\ t = w % 32
    OBVIOUS
  <2>. HIDE DEF b, w, s, t
  <2>6. Regained7(e.left, d.left, c, b, w, s, t)
    <3>1. Given7(e.left, d.left, c, b, w, s, t)
      BY <1>2, <1>3, <1>5, <2>3, <2>4, Zenon DEF Given7
    <3>. QED
      BY <3>1, RegainOf7
  <2>a. b \in Nat /\ b < 256
    BY <2>6, Zenon DEF Regained7
  <2>7. b \in Byte /\ EncodeTable(e, w, f)
    BY <1>7, <2>4, <2>a, Zenon
  <2>. HIDE DEF f
  <2>8. f.mode = 0 /\ f.left = 0 /\ f.text = e.text \o <<s, t>>
    BY <2>2, <2>4, <2>7, Zenon DEF EncodeTable
  <2>b. e.mode = 4
    BY <2>2, Zenon
  <2>c. w = e.left * 256 + b
    BY <2>4, Zenon
  <2>9. s \in Symbol /\ t \in Symbol
    <3>1. w \in Nat /\ w < 1024
      BY <2>b, <2>c, <2>7, EncoderValue
    <3>. QED
      BY <1>10, <2>4, <3>1
  <2>10. s = text[k] /\ t = text[k + 1]
    BY <1>0, <2>2, <2>6, Zenon DEF Regained7
  <2>11. n + 1 = k /\ n + 2 = k + 1 /\ n + 2 <= Len(text) /\ n + 2 = k + 1
    BY <1>1, <1>5, <2>2
  <2>12. Begins(f.text, text) /\ Len(f.text) = n + 2
    BY <1>9, <2>8, <2>9, <2>10, <2>11
  <2>d. g.mode = 0 /\ f.mode = 0
    BY <2>1, <2>4, <2>8, Zenon
  <2>13. Coupled(g, f, text, k + 1)
    BY <1>0, <2>d, <2>10, <2>11, <2>12 DEF Coupled
  <2>14. g.bytes = Append(d.bytes, b)
    BY <2>1, <2>4, Zenon
  <2>. QED
    BY <2>7, <2>13, <2>14, Zenon DEF f
<1>. QED
  BY <1>20, <1>21, <1>22, <1>23, <1>24, <1>25, <1>26, <1>27, DecoderFields

\* Each state of the decoder has the bytes of the one before.
LEMMA DecoderGrows ==
    ASSUME NEW text \in Seq(Char), NEW D, D = Decoder(text),
           NEW K, K = NumSymbols(text), NEW k \in 0 .. K
    PROVE  Begins(D[k].bytes, D[K].bytes)
<1>. DEFINE g == [m \in 0 .. K |-> D[m].bytes]
<1>1. /\ K \in Nat /\ D \in [0 .. K -> DecoderState]
      /\ \A m \in 1 .. K : text[m] \in Symbol /\ D[m] = DecodeSymbol(D[m - 1], text[m])
  <2>1. K \in Nat /\ \A m \in 1 .. K : text[m] \in Symbol
    BY NumSymbolsFacts
  <2>2. D \in [0 .. K -> DecoderState] /\ \A m \in 1 .. K : D[m] = DecodeSymbol(D[m - 1], text[m])
    BY DecoderRuns, Zenon
  <2>. QED
    BY <2>1, <2>2, Zenon
<1>2. g \in [0 .. K -> Seq(Byte)]
  BY <1>1, DecoderFields
<1>3. ASSUME NEW m \in 1 .. K PROVE Begins(g[m - 1], g[m])
  <2>1. m \in 0 .. K /\ m - 1 \in 0 .. K
    BY <1>1
  <2>2. D[m - 1] \in DecoderState /\ text[m] \in Symbol /\ D[m] = DecodeSymbol(D[m - 1], text[m])
    BY <1>1, <2>1
  <2>3. Begins(D[m - 1].bytes, D[m].bytes)
    BY <2>2, DecodeType
  <2>. QED
    BY <2>1, <2>3
<1>. HIDE DEF g
<1>4. Begins(g[k], g[K])
  <2>1. k \in 0 .. K /\ K \in 0 .. K
    BY <1>1
  <2>. QED
    BY <1>1, <1>2, <1>3, <2>1, Grows
<1>. QED
  BY <1>1, <1>4 DEF g

\* The encoder, given the decoder's bytes, keeps step with it over the symbols of a text.
LEMMA CoupledAlways ==
    ASSUME NEW text \in Seq(Char), NEW D, D = Decoder(text),
           NEW K, K = NumSymbols(text),
           NEW B, B = D[K].bytes, NEW E, E = Encoder(B)
    PROVE  \A k \in 0 .. K : Coupled(D[k], E[Len(D[k].bytes)], text, k)
<1>. DEFINE N == Len(B)
            G == {k \in 0 .. K : Coupled(D[k], E[Len(D[k].bytes)], text, k)}
<1>1. /\ K \in Nat /\ K <= Len(text) /\ Len(text) \in Nat /\ D \in [0 .. K -> DecoderState]
      /\ D[0] = [mode |-> 0, left |-> 0, bytes |-> <<>>]
      /\ \A k \in 1 .. K : text[k] \in Symbol /\ D[k] = DecodeSymbol(D[k - 1], text[k])
  BY NumSymbolsFacts, DecoderRuns
<1>2. B \in Seq(Byte)
  <2>1. D[K] \in DecoderState
    BY <1>1
  <2>. QED
    BY <2>1, DecoderFields
<1>3. /\ N \in Nat /\ E \in [0 .. N -> EncoderState]
      /\ E[0] = [mode |-> 0, left |-> 0, text |-> <<>>]
      /\ \A n \in 1 .. N : E[n] = EncodeByte(E[n - 1], B[n])
  BY <1>2, EncoderRuns
<1>4. ASSUME NEW k \in 0 .. K
      PROVE  /\ D[k] \in DecoderState /\ D[k].bytes \in Seq(Byte)
             /\ Len(D[k].bytes) \in 0 .. N /\ Begins(D[k].bytes, B)
  <2>1. Begins(D[k].bytes, B)
    BY DecoderGrows
  <2>2. D[k] \in DecoderState /\ D[k].bytes \in Seq(Byte)
    BY <1>1, DecoderFields
  <2>3. Len(D[k].bytes) \in Nat /\ Len(D[k].bytes) <= N
    BY <2>1, <2>2 DEF Begins
  <2>4. Len(D[k].bytes) \in 0 .. N
    BY <1>3, <2>3
  <2>. QED
    BY <2>1, <2>2, <2>4
<1>5. 0 \in G
  <2>1. D[0].mode = 0 /\ D[0].bytes = <<>> /\ Len(D[0].bytes) = 0
    BY <1>1
  <2>2. E[0].mode = 0 /\ E[0].text = <<>> /\ Len(E[0].text) = 0
    BY <1>3
  <2>3. Begins(E[0].text, text)
    BY <1>1, <2>2 DEF Begins
  <2>4. Coupled(D[0], E[0], text, 0)
    BY <2>1, <2>2, <2>3 DEF Coupled
  <2>. QED
    BY <1>1, <2>1, <2>4
<1>. HIDE DEF N
<1>6. ASSUME NEW k \in 0 .. K - 1, k \in G PROVE k + 1 \in G
  <2>. DEFINE d == D[k]
              g == D[k + 1]
              m == Len(d.bytes)
  <2>1. /\ k \in 0 .. K /\ k + 1 \in 1 .. K /\ k + 1 \in 0 .. K /\ (k + 1) - 1 = k
        /\ k \in 0 .. Len(text) - 1
    BY <1>1
  <2>2. d \in DecoderState /\ d.bytes \in Seq(Byte) /\ m \in 0 .. N
    BY <1>4, <2>1
  <2>3. text[k + 1] \in Symbol /\ g = DecodeSymbol(d, text[k + 1])
    BY <1>1, <2>1
  <2>4. Coupled(d, E[m], text, k)
    BY <1>6
  <2>5. g.bytes \in Seq(Byte) /\ Begins(g.bytes, B) /\ Len(g.bytes) \in 0 .. N
    BY <1>4, <2>1
  <2>6. E[m] \in EncoderState
    BY <1>3, <2>2
  <2>. HIDE DEF d, g, m
  <2>7. m = Len(d.bytes)
    BY DEF m
  <2>8. \/ g.bytes = d.bytes /\ Coupled(g, E[m], text, k + 1)
        \/ \E b \in Byte : /\ g.bytes = Append(d.bytes, b)
                           /\ Coupled(g, EncodeByte(E[m], b), text, k + 1)
    BY <2>1, <2>2, <2>3, <2>4, <2>6, DecodedStep
  <2>9. ASSUME NEW b \in Byte, g.bytes = Append(d.bytes, b),
               Coupled(g, EncodeByte(E[m], b), text, k + 1)
        PROVE  Coupled(g, E[Len(g.bytes)], text, k + 1)
    <3>1. Len(g.bytes) = m + 1 /\ g.bytes[m + 1] = b
      BY <2>2, <2>7, <2>9
    <3>2. m + 1 \in 1 .. N /\ (m + 1) - 1 = m /\ m + 1 \in 1 .. Len(g.bytes)
      BY <1>3, <2>2, <2>5, <3>1
    <3>3. B[m + 1] = b
      BY <2>5, <3>1, <3>2, Zenon DEF Begins
    <3>4. E[m + 1] = EncodeByte(E[m], b)
      BY <1>3, <3>2, <3>3
    <3>. QED
      BY <2>9, <3>1, <3>4
  <2>10. Coupled(g, E[Len(g.bytes)], text, k + 1)
    BY <2>7, <2>8, <2>9
  <2>. QED
    BY <2>1, <2>10 DEF g
<1>. HIDE DEF G
<1>7. \A k \in 0 .. K : k \in G
  BY <1>1, <1>5, <1>6, UpTo
<1>. QED
  BY <1>7 DEF G

\* A text that is valid begins with what EncodeBase32 makes of the bytes it decodes to.
THEOREM DecodedCanonical ==
    ASSUME NEW text \in Seq(Char), ~Invalid(text),
           NEW canonical, canonical = EncodeBase32(DecodeBase32(text))
    PROVE  /\ Begins(canonical, text)
           /\ Len(canonical) <= Len(text) /\ SubSeq(text, 1, Len(canonical)) = canonical
<1>0. canonical \in Seq(Char)
  <2>1. Decoded(text) \in DecoderState
    BY NumSymbolsFacts, DecoderRuns DEF Decoded
  <2>2. DecodeBase32(text) \in Seq(Byte)
    BY <2>1, DecoderFields DEF DecodeBase32
  <2>. QED
    BY <2>2, EncodeEnd
<1>. SUFFICES Begins(canonical, text)
  <2>1. Len(canonical) <= Len(text) /\ \A i \in 1 .. Len(canonical) : text[i] = canonical[i]
    BY Zenon DEF Begins
  <2>2. SubSeq(text, 1, Len(canonical)) = canonical
    <3>. QED
      BY <1>0, <2>1
  <2>. QED
    BY <2>1, <2>2
<1>. DEFINE D == Decoder(text)
            K == NumSymbols(text)
            d == D[K]
            B == d.bytes
            E == Encoder(B)
            e == E[Len(B)]
<1>1. /\ K \in Nat /\ K <= Len(text) /\ Len(text) \in Nat /\ d \in DecoderState
  BY NumSymbolsFacts, DecoderRuns
<1>2. B \in Seq(Byte) /\ DecodeBase32(text) = B /\ d.mode \in {0, 1, 2, 3, 4, 5, 6, 7}
  <2>1. DecodeBase32(text) = B
    BY Zenon DEF DecodeBase32, Decoded
  <2>. QED
    BY <1>1, <2>1, DecoderFields
<1>3. e \in EncoderState /\ canonical \in Seq(Char) /\ EncodeEnds(e, canonical)
  BY <1>2, EncodeEnd
<1>4. Coupled(d, e, text, K)
  <2>1. K \in 0 .. K
    BY <1>1
  <2>. QED
    BY <2>1, CoupledAlways
<1>5. d.mode \notin {1, 3, 6}
  BY Zenon DEF Invalid, Decoded
<1>6. ASSUME d.mode \in {2, 4, 5, 7}
      PROVE  d.left = 0 /\ \A i \in 1 .. PaddingOf(d.mode) : CharAt(text, K + i) = Pad
  BY <1>6, Zenon DEF Invalid, Decoded
<1>. HIDE DEF D, K, d, B, E, e
<1>7. e.text \in Seq(Symbol) /\ Len(e.text) \in Nat /\ e.left \in Nat
  BY <1>3, EncoderLeft
<1>8. Begins(e.text, text)
  BY <1>4, Zenon DEF Coupled
<1>9. ASSUME NEW last, NEW pads \in {1, 3, 4, 6}, Completed(e.text, last, pads, canonical),
             Len(e.text) = K - 1, last = text[K],
             \A i \in 1 .. pads : CharAt(text, K + i) = Pad
      PROVE  Begins(canonical, text)
  <2>1. /\ Begins(e.text, canonical) /\ Len(canonical) = Len(e.text) + 1 + pads
        /\ canonical[Len(e.text) + 1] = last
        /\ \A i \in 1 .. pads : canonical[Len(e.text) + 1 + i] = Pad
    BY <1>9, Zenon DEF Completed
  <2>2. Len(e.text) + 1 = K /\ Len(canonical) = K + pads /\ pads \in Nat
    BY <1>1, <1>7, <1>9, <2>1
  <2>3. canonical[K] = text[K] /\ \A i \in 1 .. pads : canonical[K + i] = Pad
    BY <1>9, <2>1, <2>2
  <2>4. ASSUME NEW i \in 1 .. pads PROVE K + i <= Len(text) /\ text[K + i] = Pad
    <3>1. CharAt(text, K + i) = Pad
      BY <1>9
    <3>. QED
      BY <3>1, CharFacts, Zenon DEF CharAt
  <2>5. Len(canonical) <= Len(text)
    <3>1. pads \in 1 .. pads
      BY <1>9
    <3>. QED
      BY <2>2, <2>4, <3>1
  <2>6. ASSUME NEW j \in 1 .. Len(canonical) PROVE text[j] = canonical[j]
    <3>1. j \in 1 .. Len(e.text) \/ j = K \/ \E i \in 1 .. pads : j = K + i
      <4>1. j \in Nat /\ 1 <= j /\ j <= K + pads
        BY <2>2
      <4>2. CASE j <= K
        BY <1>1, <2>2, <4>1, <4>2
      <4>3. CASE j > K
        <5>1. j - K \in 1 .. pads /\ j = K + (j - K)
          BY <1>1, <2>2, <4>1, <4>3
        <5>. QED
          BY <5>1
      <4>. QED
        BY <1>1, <4>1, <4>2, <4>3
    <3>2. CASE j \in 1 .. Len(e.text)
      <4>1. text[j] = e.text[j] /\ canonical[j] = e.text[j]
        BY <1>8, <2>1, <3>2, Zenon DEF Begins
      <4>. QED
        BY <4>1
    <3>. QED
      BY <2>3, <2>4, <3>1, <3>2
  <2>. QED
    BY <2>5, <2>6, Zenon DEF Begins
<1>10. PaddingOf(2) = 6 /\ PaddingOf(4) = 4 /\ PaddingOf(5) = 3 /\ PaddingOf(7) = 1
  BY DEF PaddingOf
<1>20. CASE d.mode = 0
  <2>1. e.mode = 0
    BY <1>4, <1>20, Zenon DEF Coupled
  <2>2. canonical = e.text
    BY <1>3, <2>1, Zenon DEF EncodeEnds
  <2>. QED
    BY <1>8, <2>2, Zenon
<1>21. CASE d.mode = 2
  <2>1. e.mode = 1 /\ Len(e.text) = K - 1 /\ e.left * 4 + d.left = text[K]
    BY <1>4, <1>21, Zenon DEF Coupled
  <2>2. Completed(e.text, e.left * 4, 6, canonical)
    BY <1>3, <2>1, Zenon DEF EncodeEnds
  <2>3. e.left * 4 = text[K]
    BY <1>6, <1>7, <1>21, <2>1
  <2>4. \A i \in 1 .. 6 : CharAt(text, K + i) = Pad
    BY <1>6, <1>10, <1>21
  <2>5. 6 \in {1, 3, 4, 6}
    OBVIOUS
  <2>. QED
    BY <1>9, <2>1, <2>2, <2>3, <2>4, <2>5, Zenon
<1>22. CASE d.mode = 4
  <2>1. e.mode = 2 /\ Len(e.text) = K - 1 /\ e.left * 16 + d.left = text[K]
    BY <1>4, <1>22, Zenon DEF Coupled
  <2>2. Completed(e.text, e.left * 16, 4, canonical)
    BY <1>3, <2>1, Zenon DEF EncodeEnds
  <2>3. e.left * 16 = text[K]
    BY <1>6, <1>7, <1>22, <2>1
  <2>4. \A i \in 1 .. 4 : CharAt(text, K + i) = Pad
    BY <1>6, <1>10, <1>22
  <2>5. 4 \in {1, 3, 4, 6}
    OBVIOUS
  <2>. QED
    BY <1>9, <2>1, <2>2, <2>3, <2>4, <2>5, Zenon
<1>23. CASE d.mode = 5
  <2>1. e.mode = 3 /\ Len(e.text) = K - 1 /\ e.left * 2 + d.left = text[K]
    BY <1>4, <1>23, Zenon DEF Coupled
  <2>2. Completed(e.text, e.left * 2, 3, canonical)
    BY <1>3, <2>1, Zenon DEF EncodeEnds
  <2>3. e.left * 2 = text[K]
    BY <1>6, <1>7, <1>23, <2>1
  <2>4. \A i \in 1 .. 3 : CharAt(text, K + i) = Pad
    BY <1>6, <1>10, <1>23
  <2>5. 3 \in {1, 3, 4, 6}
    OBVIOUS
  <2>. QED
    BY <1>9, <2>1, <2>2, <2>3, <2>4, <2>5, Zenon
<1>24. CASE d.mode = 7
  <2>1. e.mode = 4 /\ Len(e.text) = K - 1 /\ e.left * 8 + d.left = text[K]
    BY <1>4, <1>24, Zenon DEF Coupled
  <2>2. Completed(e.text, e.left * 8, 1, canonical)
    BY <1>3, <2>1, Zenon DEF EncodeEnds
  <2>3. e.left * 8 = text[K]
    BY <1>6, <1>7, <1>24, <2>1
  <2>4. \A i \in 1 .. 1 : CharAt(text, K + i) = Pad
    BY <1>6, <1>10, <1>24
  <2>5. 1 \in {1, 3, 4, 6}
    OBVIOUS
  <2>. QED
    BY <1>9, <2>1, <2>2, <2>3, <2>4, <2>5, Zenon
<1>. QED
  BY <1>2, <1>5, <1>20, <1>21, <1>22, <1>23, <1>24
-----------------------------------------------------------------------------
(* The invariant. *)

\* What the family of a connection may be.
Hosted == Families \cup {"none", "other"}

\* It has a host or an address, and one kind of host.
ConnOK ==
    /\ conn.host \in Text /\ conn.family \in Hosted /\ conn.port \in Port
    /\ ~(conn.isDns /\ conn.isOnion)
    /\ conn.isDns \/ conn.isOnion => conn.family = "none"
    /\ conn.isSet <=> conn.isDns \/ conn.isOnion \/ conn.family # "none"

\* Its port is the one that was meant.
PortKept == Plain(desc.text) /\ conn.isSet => conn.port = PortMeant

\* A well-formed .onion name is known for one.
OnionKept ==
    desc.text.host = "onion" /\ desc.text.label # <<>> /\ ~Invalid(desc.text.label) =>
        conn.isOnion

\* Why a packet may be on the network.
PacketOK(p) ==
    /\ conn.isSet /\ p \in Packets
    /\ \/ p.via = "lookup" /\ p.port = conn.port /\ ~HasProxy /\ conn.isDns
       \/ /\ p.via = "direct" /\ p.port = conn.port
          /\ ~HasProxy /\ ~conn.isOnion /\ FamilyPermitted(p.family)
       \/ p.via = "proxy" /\ CanConnectProxy
       \/ p.via = "request" /\ p.port = conn.port /\ CanConnectProxy
NetOK == \A p \in net : PacketOK(p)

\* Only addresses that may be tried are kept.
ResolvedOK ==
    m_resolved \in Seq(IP) /\ \A i \in DOMAIN m_resolved : FamilyPermitted(m_resolved[i])

\* What holds of the candidate from the constructor on, and the whole.
Fixed == desc \in Descs /\ ConnOK /\ PortKept /\ OnionKept /\ RoundTrips
Inv == Fixed /\ NetOK /\ ResolvedOK

-----------------------------------------------------------------------------
(* What the constructor makes of a text. *)

\* All that is needed to know of the largest port.
LEMMA MaxPortFacts == MaxPort \in Nat /\ MaxPort > 0
BY DEF MaxPort

\* A connection to an address is set and has no host.
LEMMA AddressedFields ==
    ASSUME NEW c, NEW family, NEW port, c = Addressed(family, port)
    PROVE  /\ c.isSet /\ ~c.isDns /\ ~c.isOnion
           /\ c.host = NoText /\ c.family = family /\ c.port = port
BY DEF Addressed, Unset

\* A connection to a name is set; EndsInOnion says which kind of name it is.
LEMMA NamedFields ==
    ASSUME NEW c, NEW host, NEW port, c = Named(host, port)
    PROVE  /\ c.isSet /\ (c.isDns <=> ~EndsInOnion(host)) /\ (c.isOnion <=> EndsInOnion(host))
           /\ c.host = host /\ c.family = "none" /\ c.port = port
<1>. DEFINE onion == EndsInOnion(host)
<1>1. c = [Unset EXCEPT !.isSet = TRUE, !.host = host, !.port = port,
                        !.isDns = ~onion, !.isOnion = onion]
  BY Zenon DEF Named
<1>. HIDE DEF onion
<1>2. /\ c.isSet /\ c.isDns = ~onion /\ c.isOnion = onion
      /\ c.host = host /\ c.family = "none" /\ c.port = port
  BY <1>1 DEF Unset
<1>. QED
  BY <1>2, Zenon DEF onion

\* What a candidate is, field by field.
LEMMA DescFields ==
    ASSUME NEW d \in Descs
    PROVE  /\ d.text \in Text /\ d.portIn \in Port /\ d.nFamily \subseteq Families
           /\ d.family \in {"text", "IPV4", "IPV6", "UNIX", "other"}
           /\ d.text.port \in Int /\ d.text.host \in Hosts /\ d.text.label \in Seq(Char)
<1>1. ASSUME NEW ports, NEW e \in [text : Text,
                                  family : {"text", "IPV4", "IPV6", "UNIX", "other"},
                                  portIn : ports, nFamily : SUBSET Families,
                                  doResolve : {"NO_RESOLVE", "RESOLVE_ONLY", "RESOLVE_CONNECT"},
                                  proxy : {"unset", "address", "name"},
                                  type : {"SOCKS5", "SOCKS5_FORCE_DOMAIN_TYPE"}]
      PROVE  /\ e.text \in Text /\ e.portIn \in ports /\ e.nFamily \subseteq Families
             /\ e.family \in {"text", "IPV4", "IPV6", "UNIX", "other"}
  OBVIOUS
<1>2. ASSUME NEW ints, NEW t \in [host : Hosts, label : Seq(Char), port : ints]
      PROVE  t.port \in ints /\ t.host \in Hosts /\ t.label \in Seq(Char)
  OBVIOUS
<1>3. d \in Desc
  BY ConstantsAssumption
<1>4. /\ d.text \in Text /\ d.portIn \in Port /\ d.nFamily \subseteq Families
      /\ d.family \in {"text", "IPV4", "IPV6", "UNIX", "other"}
  BY <1>1, <1>3, Zenon DEF Desc
<1>. QED
  BY <1>2, <1>4, Zenon DEF Text

\* What a text is, field by field.
LEMMA TextFields ==
    ASSUME NEW t \in Text
    PROVE  t.port \in Int /\ t.host \in Hosts /\ t.label \in Seq(Char)
BY DEF Text

\* Another port makes another text with the same host.
LEMMA Unported ==
    ASSUME NEW t \in Text, NEW port \in Int, NEW u, u = [t EXCEPT !.port = port]
    PROVE  u \in Text /\ u.host = t.host /\ u.label = t.label /\ u.port = port
<1>1. ASSUME NEW hosts, NEW labels, NEW ints, NEW p \in ints,
             NEW s \in [host : hosts, label : labels, port : ints],
             NEW v, v = [s EXCEPT !.port = p]
      PROVE  /\ v \in [host : hosts, label : labels, port : ints]
             /\ v.host = s.host /\ v.label = s.label /\ v.port = p
  <2>1. v \in [host : hosts, label : labels, port : ints]
    BY <1>1
  <2>2. v.host = s.host /\ v.label = s.label /\ v.port = p
    BY <1>1
  <2>. QED
    BY <2>1, <2>2
<1>. QED
  BY <1>1, Zenon DEF Text

\* No text is one, too.
LEMMA NoTextIsText == NoText \in Text
<1>1. ASSUME NEW hosts, NEW labels, NEW ints,
             NEW h \in hosts, NEW l \in labels, NEW p \in ints
      PROVE  [host |-> h, label |-> l, port |-> p] \in [host : hosts, label : labels, port : ints]
  OBVIOUS
<1>2. "" \in Hosts /\ NoColon \in Int /\ <<>> \in Seq(Char)
  BY DEF Hosts, NoColon
<1>. QED
  BY <1>1, <1>2, Zenon DEF Text, NoText

\* The parser of sockaddrs, family by family.
LEMMA ParsesFacts ==
    ASSUME NEW text
    PROVE  /\ ParsesAs(text, "IPV4") <=>
                  text.host = "v4" /\ (text.port = NoColon \/ IsPort(text.port))
           /\ ParsesAs(text, "IPV6") <=>
                  \/ text.host = "v6"
                  \/ text.host = "[v6]" /\ (text.port = NoColon \/ IsPort(text.port))
<1>1. "IPV4" # "IPV6"
  OBVIOUS
<1>. QED
  BY <1>1, Zenon DEF ParsesAs

\* The four ways through the constructor.
LEMMA FromTextCases ==
    ASSUME NEW text, NEW portIn
    PROVE  \/ text = NoText /\ FromText(text, portIn) = Unset
           \/ \E f \in IP :
                 /\ ParsesAs(text, f)
                 /\ FromText(text, portIn) =
                        Addressed(f, IF ParsedPort(text) = 0 THEN portIn ELSE ParsedPort(text))
           \/ /\ \A f \in IP : ~ParsesAs(text, f)
              /\ Splits(text)
              /\ FromText(text, portIn) =
                     Named([text EXCEPT !.port = NoColon], SplitPort(text, portIn))
           \/ /\ \A f \in IP : ~ParsesAs(text, f)
              /\ ~Splits(text)
              /\ FromText(text, portIn) = Named(text, portIn)
<1>1. CASE text # NoText /\ \E f \in IP : ParsesAs(text, f)
  <2>. DEFINE f == CHOOSE f \in IP : ParsesAs(text, f)
  <2>1. f \in IP /\ ParsesAs(text, f)
    BY <1>1, Zenon
  <2>2. FromText(text, portIn) =
            Addressed(f, IF ParsedPort(text) = 0 THEN portIn ELSE ParsedPort(text))
    BY <1>1, Zenon DEF FromText
  <2>. QED
    BY <2>1, <2>2, Zenon
<1>2. CASE text = NoText
  BY <1>2, Zenon DEF FromText
<1>3. CASE text # NoText /\ \A f \in IP : ~ParsesAs(text, f)
  BY <1>3, Zenon DEF FromText
<1>. QED
  BY <1>1, <1>2, <1>3, Zenon

\* A port that is one fits.
LEMMA PortFacts == \A n : IsPort(n) => n \in Port /\ n # 0 /\ n # NoColon
<1>. SUFFICES ASSUME NEW n, IsPort(n) PROVE n \in Port /\ n # 0 /\ n # NoColon
  BY Zenon
<1>0. n \in 1 .. MaxPort
  BY MaxPortFacts DEF IsPort
<1>1. n \in Port
  BY <1>0, MaxPortFacts DEF Port
<1>2. n # 0
  BY <1>0, MaxPortFacts
<1>3. n # NoColon
  BY <1>0, MaxPortFacts DEF NoColon
<1>. QED
  BY <1>1, <1>2, <1>3

\* What is not a port, but fits, is 0; the marks do not fit.
LEMMA NoPortFacts ==
    /\ \A n : n \in Port /\ ~IsPort(n) => n = 0
    /\ NoColon \notin Port /\ NoDigits \notin Port /\ NoColon # NoDigits
<1>1. ASSUME NEW n \in Port, ~IsPort(n) PROVE n = 0
  <2>1. n \in Int
    BY MaxPortFacts DEF Port
  <2>. QED
    BY <1>1, <2>1, MaxPortFacts DEF IsPort, Port
<1>2. NoColon \notin Port /\ NoDigits \notin Port /\ NoColon # NoDigits
  BY MaxPortFacts DEF Port, NoColon, NoDigits
<1>. QED
  BY <1>1, <1>2

\* What the parser of sockaddrs accepts, and the port it finds.
LEMMA ParsedPortFacts ==
    ASSUME NEW text \in Text, NEW f \in IP, ParsesAs(text, f), 
           text.host = "v6" => text.port = NoColon
    PROVE  /\ text.host \in {"v4", "v6", "[v6]"}
           /\ text.port = NoColon \/ IsPort(text.port)
           /\ ParsedPort(text) \in Port
<1>1. /\ text.host \in {"v4", "v6", "[v6]"}
      /\ text.port = NoColon \/ IsPort(text.port)
  BY ParsesFacts DEF IP
<1>2. CASE text.port = NoColon
  BY <1>1, <1>2, MaxPortFacts DEF ParsedPort, Port
<1>3. CASE text.port # NoColon
  <2>1. ParsedPort(text) = text.port /\ text.port \in Port
    BY <1>1, <1>3, PortFacts, Zenon DEF ParsedPort
  <2>. QED
    BY <1>1, <2>1
<1>. QED
  BY <1>2, <1>3

\* The constructor makes a connection to a host or to an address, or none.
LEMMA FromTextFacts ==
    ASSUME NEW text \in Text, NEW portIn \in Port, text.host = "v6" => text.port = NoColon,
           NEW c, c = FromText(text, portIn)
    PROVE  /\ c.host \in Text /\ c.family \in Hosted /\ c.port \in Port
           /\ ~(c.isDns /\ c.isOnion)
           /\ c.isDns \/ c.isOnion => c.family = "none"
           /\ c.isSet <=> c.isDns \/ c.isOnion \/ c.family # "none"
<1>. DEFINE unported == [text EXCEPT !.port = NoColon]
<1>1. NoText \in Text
  BY NoTextIsText
<1>2. unported \in Text
  <2>1. NoColon \in Int
    BY DEF NoColon
  <2>. QED
    BY <2>1, Unported, Zenon
<1>3. CASE c = Unset
  BY <1>1, <1>3, MaxPortFacts DEF Unset, Hosted, Port
<1>4. ASSUME NEW f \in IP, ParsesAs(text, f),
             c = Addressed(f, IF ParsedPort(text) = 0 THEN portIn ELSE ParsedPort(text))
      PROVE  /\ c.isSet /\ ~c.isDns /\ ~c.isOnion /\ c.host = NoText
             /\ c.family \in Hosted \ {"none"} /\ c.port \in Port
  <2>1. ParsedPort(text) \in Port
    BY <1>4, ParsedPortFacts, Zenon
  <2>. DEFINE port == IF ParsedPort(text) = 0 THEN portIn ELSE ParsedPort(text)
  <2>2. port \in Port
    BY <2>1, Zenon
  <2>3. f \in Hosted \ {"none"}
    BY DEF IP, Hosted, Families
  <2>. HIDE DEF port
  <2>4. c = Addressed(f, port)
    BY <1>4, Zenon DEF port
  <2>. QED
    BY <2>2, <2>3, <2>4, AddressedFields
<1>5. ASSUME NEW host \in Text, NEW port \in Port, c = Named(host, port)
      PROVE  /\ c.isSet /\ ~(c.isDns /\ c.isOnion) /\ (c.isDns \/ c.isOnion)
             /\ c.host \in Text /\ c.family = "none" /\ c.port \in Port
  BY <1>5, NamedFields
<1>6. SplitPort(text, portIn) \in Port
  <2>1. 0 \in Port
    BY MaxPortFacts DEF Port
  <2>. QED
    BY <2>1, Zenon DEF SplitPort
<1>7. \/ c = Unset
      \/ \E f \in IP : /\ ParsesAs(text, f)
                       /\ c = Addressed(f, IF ParsedPort(text) = 0 THEN portIn
                                                                 ELSE ParsedPort(text))
      \/ \E host \in Text, port \in Port : c = Named(host, port)
  BY <1>2, <1>6, FromTextCases, Zenon
<1>. QED
  BY <1>1, <1>3, <1>4, <1>5, <1>7 DEF Hosted

\* The port a text names, in PortMeant.
Meant(text, portIn) ==
    IF text.port \in {NoColon, NoDigits} THEN portIn
    ELSE IF IsPort(text.port) THEN text.port
    ELSE 0

\* Whichever way the text is read, the port is the one it names.
LEMMA FromTextPort ==
    ASSUME NEW text \in Text, NEW portIn \in Port, text.host = "v6" => text.port = NoColon,
           Plain(text), NEW c, c = FromText(text, portIn), c.isSet
    PROVE  c.port = Meant(text, portIn)
<1>1. c # Unset
  <2>1. ~Unset.isSet
    BY DEF Unset
  <2>. QED
    BY <2>1
<1>2. ASSUME NEW f \in IP, ParsesAs(text, f),
             c = Addressed(f, IF ParsedPort(text) = 0 THEN portIn ELSE ParsedPort(text))
      PROVE  c.port = Meant(text, portIn)
  <2>1. c.port = IF ParsedPort(text) = 0 THEN portIn ELSE ParsedPort(text)
    BY <1>2, AddressedFields
  <2>2. text.port = NoColon \/ IsPort(text.port)
    BY <1>2, ParsedPortFacts, Zenon
  <2>3. CASE text.port = NoColon
    BY <2>1, <2>3, Zenon DEF ParsedPort, Meant
  <2>4. CASE IsPort(text.port)
    <3>1. /\ text.port # NoColon /\ text.port # 0
          /\ text.port # NoDigits
      BY <2>4, PortFacts, NoPortFacts, Zenon
    <3>. QED
      BY <2>1, <2>4, <3>1, Zenon DEF ParsedPort, Meant
  <2>. QED
    BY <2>2, <2>3, <2>4
<1>3. ASSUME \A f \in IP : ~ParsesAs(text, f), Splits(text),
             c = Named([text EXCEPT !.port = NoColon], SplitPort(text, portIn))
      PROVE  c.port = Meant(text, portIn)
  <2>1. c.port = SplitPort(text, portIn) /\ text.port # NoColon
    <3>1. c.port = SplitPort(text, portIn)
      BY <1>3, NamedFields
    <3>. QED
      BY <1>3, <3>1, Zenon DEF Splits
  <2>2. CASE text.port = NoDigits
    BY <2>1, <2>2, Zenon DEF SplitPort, Meant
  <2>3. CASE text.port # NoDigits /\ IsPort(text.port)
    BY <2>1, <2>3, PortFacts, Zenon DEF SplitPort, Meant
  <2>4. CASE text.port # NoDigits /\ ~IsPort(text.port)
    BY <2>1, <2>4, NoPortFacts, Zenon DEF SplitPort, Meant
  <2>. QED
    BY <2>2, <2>3, <2>4
<1>4. ASSUME \A f \in IP : ~ParsesAs(text, f), ~Splits(text), c = Named(text, portIn)
      PROVE  c.port = Meant(text, portIn)
  <2>1. c.port = portIn
    BY <1>4, NamedFields
  <2>2. text.host \notin {"v6", "[v6]", "colons"}
    BY <1>4, Zenon DEF Plain
  <2>3. text.port = NoColon
    BY <1>4, <2>2, Zenon DEF Splits
  <2>. QED
    BY <2>1, <2>3, Zenon DEF Meant
<1>. QED
  BY <1>1, <1>2, <1>3, <1>4, FromTextCases, Zenon

\* A well-formed label before ".onion" is recognised with and without a port.
LEMMA FromTextOnion ==
    ASSUME NEW text \in Text, NEW portIn \in Port,
           text.host = "onion", text.label # <<>>, ~Invalid(text.label),
           NEW c, c = FromText(text, portIn)
    PROVE  c.isOnion
<1>1. Len(text.label) > 0
  <2>1. text.label \in Seq(Char)
    BY TextFields
  <2>. QED
    BY <2>1
<1>2. /\ text # NoText
      /\ ~ParsesAs(text, "IPV4") /\ ~ParsesAs(text, "IPV6")
  <2>1. NoText.host # "onion"
    BY DEF NoText
  <2>2. ~(text.host \in {"v4", "v6", "[v6]"})
    OBVIOUS
  <2>. QED
    BY <2>1, <2>2, ParsesFacts, Zenon
<1>3. Splits(text) <=> text.port # NoColon
  BY DEF Splits
<1>4. ASSUME NEW host \in Text, host.host = "onion", host.label = text.label,
             host.port = NoColon, NEW port, c = Named(host, port)
      PROVE  c.isOnion
  <2>1. EndsInOnion(host)
    BY <1>1, <1>4, Zenon DEF EndsInOnion
  <2>. QED
    BY <1>4, <2>1, NamedFields
<1>5. CASE text.port = NoColon
  BY <1>2, <1>3, <1>4, <1>5, FromTextCases, Zenon DEF IP
<1>6. CASE text.port # NoColon
  <2>. DEFINE host == [text EXCEPT !.port = NoColon]
  <2>1. NoColon \in Int
    BY DEF NoColon
  <2>2. /\ host \in Text /\ host.host = "onion" /\ host.label = text.label
        /\ host.port = NoColon
    BY <2>1, Unported
  <2>3. c = Named(host, SplitPort(text, portIn))
    BY <1>2, <1>3, <1>6, FromTextCases, Zenon DEF IP
  <2>. QED
    BY <1>4, <2>2, <2>3, Zenon
<1>. QED
  BY <1>5, <1>6

\* An address prints as a text that only this address parses.
LEMMA AddressRoundTrip ==
    ASSUME NEW f \in IP, NEW port, IsPort(port), NEW c, c = Addressed(f, port), NEW portIn
    PROVE  FromText(ConnToString(c), portIn) = c
<1>1. ~c.isDns /\ ~c.isOnion /\ c.family = f /\ c.port = port
  BY AddressedFields
<1>. DEFINE text == ConnToString(c)
<1>2. port # 0 /\ port # NoColon
  BY PortFacts, Zenon
<1>3. ASSUME NEW host, NEW t, t = [host |-> host, label |-> <<>>, port |-> port]
      PROVE  t.host = host /\ t.port = port
  BY <1>3
<1>4. /\ text.port = port
      /\ (f = "IPV4" => text.host = "v4") /\ (f = "IPV6" => text.host = "[v6]")
  <2>1. "IPV4" # "IPV6"
    OBVIOUS
  <2>2. CASE f = "IPV4"
    <3>1. text = [host |-> "v4", label |-> <<>>, port |-> port]
      BY <1>1, <2>1, <2>2, Zenon DEF ConnToString
    <3>. QED
      BY <1>3, <2>1, <2>2, <3>1, Zenon
  <2>3. CASE f = "IPV6"
    <3>1. text = [host |-> "[v6]", label |-> <<>>, port |-> port]
      BY <1>1, <2>1, <2>3, Zenon DEF ConnToString
    <3>. QED
      BY <1>3, <2>1, <2>3, <3>1, Zenon
  <2>. QED
    BY <2>2, <2>3 DEF IP
<1>. HIDE DEF text
<1>5. ASSUME NEW g \in IP PROVE ParsesAs(text, g) <=> g = f
  BY <1>4, ParsesFacts DEF IP
<1>6. text # NoText
  <2>1. NoText.port = NoColon
    BY DEF NoText
  <2>. QED
    BY <1>2, <1>4, <2>1, Zenon
<1>7. PICK g \in IP : /\ ParsesAs(text, g)
                      /\ FromText(text, portIn) =
                           Addressed(g, IF ParsedPort(text) = 0 THEN portIn ELSE ParsedPort(text))
  BY <1>5, <1>6, FromTextCases, Zenon
<1>8. g = f /\ ParsedPort(text) = port
  BY <1>2, <1>4, <1>5, <1>7, Zenon DEF ParsedPort
<1>. QED
  BY <1>2, <1>7, <1>8, Zenon DEF text

\* A name prints as the name and the port.
LEMMA NameRoundTrip ==
    ASSUME NEW host \in Text, host.port = NoColon, NEW port \in Port,
           host.host \notin {"v4", "v6", "[v6]", "colons"},
           NEW c, c = Named(host, port), NEW portIn
    PROVE  FromText(ConnToString(c), portIn) = c
<1>1. c.host = host /\ c.port = port /\ (c.isDns \/ c.isOnion)
  BY NamedFields
<1>. DEFINE text == [host EXCEPT !.port = port]
<1>2. ConnToString(c) = text
  <2>1. c.host.port = NoColon
    BY <1>1, Zenon
  <2>2. c.family # "IPV4" /\ c.family # "IPV6"
    BY NamedFields
  <2>3. ConnToString(c) = [c.host EXCEPT !.port = c.port]
    BY <1>1, <2>1, <2>2, Zenon DEF ConnToString
  <2>. QED
    BY <1>1, <2>3, Zenon
<1>3. port \in Int /\ NoColon \in Int /\ port # NoColon /\ port # NoDigits
  <2>1. port \in Int
    BY MaxPortFacts DEF Port
  <2>2. NoColon \in Int
    BY DEF NoColon
  <2>. QED
    BY <2>1, <2>2, NoPortFacts, Zenon
<1>4. text \in Text /\ text.host = host.host /\ text.label = host.label /\ text.port = port
  BY <1>3, Unported
<1>5. [text EXCEPT !.port = NoColon] = host
  BY DEF Text
<1>. HIDE DEF text
<1>6. text # NoText
  <2>1. NoText.port = NoColon
    BY DEF NoText
  <2>. QED
    BY <1>3, <1>4, <2>1, Zenon
<1>7. ~ParsesAs(text, "IPV4") /\ ~ParsesAs(text, "IPV6")
  BY <1>4, ParsesFacts, Zenon
<1>8. Splits(text) /\ SplitPort(text, portIn) = port
  BY <1>3, <1>4, Zenon DEF Splits, SplitPort
<1>9. FromText(text, portIn) = Named([text EXCEPT !.port = NoColon], SplitPort(text, portIn))
  BY <1>6, <1>7, <1>8, FromTextCases, Zenon DEF IP
<1>. QED
  BY <1>2, <1>5, <1>8, <1>9, Zenon

\* So what is made of a text prints as a text that makes the same.
LEMMA TextRoundTrip ==
    ASSUME NEW text \in Text, NEW portIn \in Port, text.host = "v6" => text.port = NoColon,
           Plain(text), NEW c, c = FromText(text, portIn), c.isSet,
           ~(c.isDns /\ c.host.host = "v4"), c.port = 0 => c.family = "none", NEW q
    PROVE  FromText(ConnToString(c), q) = c
<1>1. c # Unset
  <2>1. ~Unset.isSet
    BY DEF Unset
  <2>. QED
    BY <2>1
<1>2. ASSUME NEW f \in IP, ParsesAs(text, f),
             c = Addressed(f, IF ParsedPort(text) = 0 THEN portIn ELSE ParsedPort(text))
      PROVE  FromText(ConnToString(c), q) = c
  <2>. DEFINE port == IF ParsedPort(text) = 0 THEN portIn ELSE ParsedPort(text)
  <2>1. port \in Port
    BY <1>2, ParsedPortFacts, Zenon
  <2>. HIDE DEF port
  <2>2. c = Addressed(f, port)
    BY <1>2, Zenon DEF port
  <2>3. c.family # "none" /\ c.port = port
    BY <2>2, AddressedFields DEF IP
  <2>4. IsPort(port)
    BY <2>1, <2>3, NoPortFacts, Zenon
  <2>. QED
    BY <2>2, <2>4, AddressRoundTrip, Zenon
<1>3. ASSUME NEW host \in Text, host.port = NoColon, host.host = text.host,
             text.host \notin {"v6", "[v6]", "colons"}, NEW port \in Port, c = Named(host, port)
      PROVE  FromText(ConnToString(c), q) = c
  <2>1. c.host = host /\ (c.isDns \/ EndsInOnion(host))
    BY <1>3, NamedFields
  <2>2. host.host # "v4"
    <3>1. EndsInOnion(host) => host.host = "onion"
      BY Zenon DEF EndsInOnion
    <3>2. "onion" # "v4"
      OBVIOUS
    <3>. QED
      BY <2>1, <3>1, <3>2, Zenon
  <2>3. host.host \notin {"v4", "v6", "[v6]", "colons"}
    BY <1>3, <2>2, Zenon
  <2>. QED
    BY <1>3, <2>3, NameRoundTrip, Zenon
<1>4. ASSUME \A f \in IP : ~ParsesAs(text, f), Splits(text),
             c = Named([text EXCEPT !.port = NoColon], SplitPort(text, portIn))
      PROVE  FromText(ConnToString(c), q) = c
  <2>. DEFINE host == [text EXCEPT !.port = NoColon]
              port == SplitPort(text, portIn)
  <2>1. NoColon \in Int
    BY DEF NoColon
  <2>2. host \in Text /\ host.port = NoColon /\ host.host = text.host
    BY <2>1, Unported
  <2>3. 0 \in Port
    BY MaxPortFacts DEF Port
  <2>4. port \in Port
    BY <2>3, Zenon DEF SplitPort
  <2>5. text.host \notin {"v6", "[v6]", "colons"}
    BY <1>4, Zenon DEF Splits
  <2>6. c = Named(host, port)
    BY <1>4, Zenon
  <2>. HIDE DEF host, port
  <2>. QED
    BY <1>3, <2>2, <2>4, <2>5, <2>6, Zenon
<1>5. ASSUME \A f \in IP : ~ParsesAs(text, f), ~Splits(text), c = Named(text, portIn)
      PROVE  FromText(ConnToString(c), q) = c
  <2>1. text.host \notin {"v6", "[v6]", "colons"}
    BY <1>5, Zenon DEF Plain
  <2>2. text.port = NoColon
    BY <1>5, <2>1, Zenon DEF Splits
  <2>. QED
    BY <1>3, <1>5, <2>1, <2>2, Zenon
<1>. QED
  BY <1>1, <1>2, <1>4, <1>5, FromTextCases, Zenon

-----------------------------------------------------------------------------
(* The steps. *)

\* The constructors establish the invariant.
LEMMA InitInv == Init => Inv
<1>. SUFFICES ASSUME Init PROVE Inv
  OBVIOUS
<1>1. /\ desc \in Descs
      /\ desc.text \in Text /\ desc.portIn \in Port
      /\ desc.family \in {"text", "IPV4", "IPV6", "UNIX", "other"}
  BY DescFields DEF Init
<1>4. ASSUME desc.family # "text" PROVE ConnOK /\ PortKept /\ OnionKept /\ RoundTrips
  <2>1. conn = Addressed(desc.family, desc.portIn)
    BY <1>4, Zenon DEF Init
  <2>2. conn.family \in Hosted /\ conn.family # "none"
    BY <1>1, <1>4, <2>1, AddressedFields DEF Hosted, Families
  <2>3. /\ conn.isSet /\ ~conn.isDns /\ ~conn.isOnion /\ conn.host \in Text
        /\ conn.port \in Port
    <3>1. /\ conn.isSet /\ ~conn.isDns /\ ~conn.isOnion /\ conn.host = NoText
          /\ conn.port = desc.portIn
      BY <2>1, AddressedFields
    <3>. QED
      BY <1>1, <3>1, NoTextIsText, Zenon
  <2>a. ConnOK
    BY <2>2, <2>3 DEF ConnOK
  <2>4. PortKept
    BY <1>4, <2>1, AddressedFields DEF PortKept, PortMeant
  <2>5. OnionKept
    <3>1. desc.text = NoText
      BY <1>1, <1>4, ConstantsAssumption, Zenon
    <3>2. NoText.host # "onion"
      BY DEF NoText
    <3>. QED
      BY <3>1, <3>2, Zenon DEF OnionKept
  <2>6. RoundTrips
    <3>. SUFFICES ASSUME conn.family \in IP \cup {"none"},
                         conn.port = 0 => conn.family = "none", NEW q
                  PROVE  FromText(ConnToString(conn), q) = conn
      BY DEF RoundTrips
    <3>1. conn.family = desc.family /\ conn.port = desc.portIn
      BY <2>1, AddressedFields
    <3>2. desc.family \in IP /\ IsPort(desc.portIn)
      BY <1>1, <2>2, <3>1, NoPortFacts, Zenon
    <3>. QED
      BY <2>1, <3>2, AddressRoundTrip, Zenon
  <2>. QED
    BY <2>a, <2>4, <2>5, <2>6
<1>5. ASSUME desc.family = "text" PROVE ConnOK /\ PortKept /\ OnionKept /\ RoundTrips
  <2>1. conn = FromText(desc.text, desc.portIn)
    BY <1>5, Zenon DEF Init
  <2>2. desc.text.host = "v6" => desc.text.port = NoColon
    BY <1>1, ConstantsAssumption
  <2>3. ConnOK
    BY <1>1, <2>1, <2>2, FromTextFacts, Zenon DEF ConnOK
  <2>4. PortKept
    <3>1. PortMeant = Meant(desc.text, desc.portIn)
      BY <1>5, Zenon DEF PortMeant, Meant
    <3>. QED
      BY <1>1, <2>1, <2>2, <3>1, FromTextPort, Zenon DEF PortKept
  <2>5. OnionKept
    BY <1>1, <2>1, FromTextOnion, Zenon DEF OnionKept
  <2>6. RoundTrips
    <3>. SUFFICES ASSUME conn.isSet, Plain(desc.text),
                         ~(conn.isDns /\ conn.host.host = "v4"),
                         conn.port = 0 => conn.family = "none", NEW q
                  PROVE  FromText(ConnToString(conn), q) = conn
      BY DEF RoundTrips, Misnamed
    <3>. QED
      BY <1>1, <2>1, <2>2, TextRoundTrip, Zenon
  <2>. QED
    BY <2>3, <2>4, <2>5, <2>6
<1>6. NetOK /\ ResolvedOK
  <2>1. net = {} /\ m_resolved = <<>>
    BY Zenon DEF Init
  <2>2. DOMAIN m_resolved = {} /\ m_resolved \in Seq(IP)
    BY <2>1
  <2>. QED
    BY <2>1, <2>2, Zenon DEF NetOK, ResolvedOK
<1>. QED
  BY <1>1, <1>4, <1>5, <1>6 DEF Inv, Fixed

\* Nothing that is decided once changes.
LEMMA Same ==
    ASSUME Inv, UNCHANGED <<desc, conn>>
    PROVE  /\ Fixed'
           /\ \A p : PacketOK(p)' <=> PacketOK(p)
           /\ \A f : FamilyPermitted(f)' <=> FamilyPermitted(f)
<1>1. Fixed'
  <2>1. ConnOK'
    BY Zenon DEF Inv, Fixed, ConnOK
  <2>2. PortKept'
    BY Zenon DEF Inv, Fixed, PortKept, PortMeant
  <2>3. OnionKept'
    BY Zenon DEF Inv, Fixed, OnionKept
  <2>4. RoundTrips'
    BY DEF Inv, Fixed, RoundTrips, Misnamed
  <2>. QED
    BY <2>1, <2>2, <2>3, <2>4, Zenon DEF Inv, Fixed
<1>2. ASSUME NEW f PROVE FamilyPermitted(f)' <=> FamilyPermitted(f)
  BY Zenon DEF FamilyPermitted
<1>3. ASSUME NEW p PROVE PacketOK(p)' <=> PacketOK(p)
  BY Zenon DEF PacketOK, HasProxy, CanConnectProxy, FamilyPermitted
<1>. QED
  BY <1>1, <1>2, <1>3, Zenon

\* A callback that sends nothing keeps the invariant.
LEMMA NothingSent ==
    ASSUME Inv, UNCHANGED <<desc, conn, net, m_resolved>>
    PROVE  Inv'
BY Same, Zenon DEF Inv, NetOK, ResolvedOK

\* A packet is what it was made of.
LEMMA PacketFields ==
    ASSUME NEW via, NEW family, NEW port, NEW p, p = Packet(via, family, port)
    PROVE  p.via = via /\ p.family = family /\ p.port = port
BY DEF Packet

\* It is one if that was of the types.
LEMMA PacketTyped ==
    ASSUME NEW via \in {"lookup", "direct", "proxy", "request"},
           NEW family \in Families \cup {"none", "domain"}, NEW port \in Port
    PROVE  Packet(via, family, port) \in Packets
BY DEF Packet, Packets

\* The port of a connection and the families that are permitted are of the types.
LEMMA InvTyped ==
    ASSUME Inv
    PROVE  conn.port \in Port /\ \A f : FamilyPermitted(f) => f \in Families
<1>1. conn.port \in Port
  BY Zenon DEF Inv, Fixed, ConnOK
<1>. QED
  BY <1>1 DEF FamilyPermitted, Families

\* One that sends a packet keeps it if the packet is justified.
LEMMA Sent ==
    ASSUME Inv, UNCHANGED <<desc, conn, m_resolved>>,
           NEW p, PacketOK(p), net' = net \/ net' = net \cup {p}
    PROVE  Inv'
<1>1. Fixed' /\ NetOK'
  BY Same, Zenon DEF Inv, NetOK
<1>2. ResolvedOK'
  BY Same, Zenon DEF Inv, ResolvedOK
<1>. QED
  BY <1>1, <1>2, Zenon DEF Inv

\* StartConnection tests the proxy before the kind of host.
LEMMA StartConnectionInv ==
    ASSUME Inv, StartConnection
    PROVE  Inv'
<1>1. UNCHANGED <<desc, conn, m_resolved>>
  BY DEF StartConnection
<1>2. CASE Kind = "none"
  BY <1>1, <1>2, NothingSent, Zenon DEF StartConnection
<1>3. CASE Kind \in {"CResolveOnly", "CDNSConnection"}
  <2>1. conn.isSet /\ conn.isDns /\ ~HasProxy
    BY <1>3 DEF Kind
  <2>2. DoResolve
    BY <1>3, Zenon DEF StartConnection
  <2>. DEFINE p == Packet("lookup", "none", conn.port)
  <2>3. net' = net \/ net' = net \cup {p}
    BY <2>2, Zenon DEF DoResolve
  <2>4. PacketOK(p)
    <3>1. p.via = "lookup" /\ p.port = conn.port
      BY PacketFields
    <3>2. p \in Packets
      BY InvTyped, PacketTyped
    <3>. QED
      BY <2>1, <3>1, <3>2, Zenon DEF PacketOK
  <2>. QED
    BY <1>1, <2>3, <2>4, Sent
<1>4. CASE Kind = "CProxyConn"
  <2>1. conn.isSet
    BY <1>4 DEF Kind
  <2>2. ConnectProxy
    BY <1>4, Zenon DEF StartConnection
  <2>. DEFINE p == Packet("proxy", "none", 0)
  <2>3. CASE net' = net
    BY <1>1, <2>3, NothingSent
  <2>4. CASE net' # net
    <3>1. CanConnectProxy /\ net' = net \cup {p}
      BY <2>2, <2>4, Zenon DEF ConnectProxy
    <3>2. p.via = "proxy" /\ p \in Packets
      <4>1. 0 \in Port
        BY MaxPortFacts DEF Port
      <4>. QED
        BY <4>1, PacketFields, PacketTyped
    <3>3. PacketOK(p)
      BY <2>1, <3>1, <3>2, Zenon DEF PacketOK
    <3>. QED
      BY <1>1, <3>1, <3>3, Sent
  <2>. QED
    BY <2>3, <2>4
<1>5. CASE Kind = "CDirectConnection"
  <2>1. conn.isSet /\ ~HasProxy
    BY <1>5 DEF Kind
  <2>2. ConnectDirect
    BY <1>5, Zenon DEF StartConnection
  <2>. DEFINE p == Packet("direct", conn.family, conn.port)
  <2>3. CASE net' = net
    BY <1>1, <2>3, NothingSent
  <2>4. CASE net' # net
    <3>1. CanConnectDirect /\ net' = net \cup {p}
      BY <2>2, <2>4, Zenon DEF ConnectDirect
    <3>2. p.via = "direct" /\ p.family = conn.family /\ p.port = conn.port
      BY PacketFields
    <3>a. p \in Packets
      <4>1. conn.family \in Families
        BY <3>1, InvTyped, Zenon DEF CanConnectDirect
      <4>. QED
        BY <4>1, InvTyped, PacketTyped
    <3>3. PacketOK(p)
      BY <2>1, <3>1, <3>2, <3>a, Zenon DEF PacketOK, CanConnectDirect
    <3>. QED
      BY <1>1, <3>1, <3>3, Sent
  <2>. QED
    BY <2>3, <2>4
<1>6. Kind \in {"none", "CResolveOnly", "CDNSConnection", "CProxyConn", "CDirectConnection"}
  BY DEF Kind
<1>. QED
  BY <1>2, <1>3, <1>4, <1>5, <1>6

\* ConnectResolved takes a permitted address of a lookup that no proxy forbade.
LEMMA ConnectResolvedInv ==
    ASSUME Inv, UNCHANGED <<desc, conn>>, NEW response \in Seq(IP), ConnectResolved(response),
           \A i \in DOMAIN response : FamilyPermitted(response[i]),
           ~HasProxy, conn.isSet, ~conn.isOnion
    PROVE  Inv'
<1>. DEFINE permitted == {i \in 1 .. Len(response) : FamilyPermitted(response[i])}
<1>1. CASE permitted = {}
  <2>1. m_resolved' = <<>> /\ net' = net
    BY <1>1, Zenon DEF ConnectResolved
  <2>2. ResolvedOK'
    BY <2>1 DEF ResolvedOK
  <2>. QED
    BY <2>1, <2>2, Same, Zenon DEF Inv, NetOK
<1>2. CASE permitted # {}
  <2>1. PICK first \in permitted :
            /\ m_resolved' = SubSeq(response, first, Len(response))
            /\ net' = net \cup {Packet("direct", response[first], conn.port)}
    BY <1>2, Zenon DEF ConnectResolved
  <2>. DEFINE p == Packet("direct", response[first], conn.port)
  <2>2. PacketOK(p)
    <3>1. p.via = "direct" /\ p.family = response[first] /\ p.port = conn.port
      BY PacketFields
    <3>2. p \in Packets
      <4>1. response[first] \in Families
        BY InvTyped, Zenon
      <4>. QED
        BY <4>1, InvTyped, PacketTyped
    <3>. QED
      BY <3>1, <3>2, Zenon DEF PacketOK
  <2>3. Fixed' /\ NetOK'
    BY <2>1, <2>2, Same, Zenon DEF Inv, NetOK
  <2>4. ResolvedOK'
    <3>. DEFINE rest == SubSeq(response, first, Len(response))
    <3>1. first \in 1 .. Len(response)
      OBVIOUS
    <3>2. rest \in Seq(IP) /\ \A i \in DOMAIN rest : rest[i] = response[first + i - 1]
                             /\ first + i - 1 \in DOMAIN response
      BY <3>1
    <3>. HIDE DEF rest
    <3>3. \A i \in DOMAIN rest : FamilyPermitted(rest[i])
      BY <3>2, Zenon
    <3>. QED
      BY <2>1, <3>2, <3>3, Same, Zenon DEF rest, ResolvedOK
  <2>. QED
    BY <2>3, <2>4, Zenon DEF Inv
<1>. QED
  BY <1>1, <1>2

\* Every step keeps the invariant.
LEMMA NextInv == Inv /\ [Next]_vars => Inv'
<1>. SUFFICES ASSUME Inv, [Next]_vars PROVE Inv'
  OBVIOUS
<1>1. ASSUME NEW response \in Responses, OnResolveSuccess(response) PROVE Inv'
  <2>1. PICK p \in net : p.via = "lookup"
    BY <1>1, Zenon DEF OnResolveSuccess, InFlight
  <2>2. ~HasProxy /\ conn.isSet /\ conn.isDns /\ ~conn.isOnion
    BY <2>1 DEF Inv, NetOK, PacketOK, Fixed, ConnOK
  <2>3. /\ response \in Seq(IP)
        /\ \A i \in DOMAIN response : FamilyPermitted(response[i])
    <3>1. PICK n \in 1 .. MaxAnswers : response \in [1 .. n -> ResolveFamilies]
      BY DEF Responses
    <3>2. n \in Nat
      BY ConstantsAssumption
    <3>3. ResolveFamilies \subseteq IP /\ ResolveFamilies \subseteq desc.nFamily
      BY DEF ResolveFamilies, IP
    <3>4. response \in Seq(IP) /\ DOMAIN response = 1 .. n
      BY <3>1, <3>2, <3>3
    <3>5. ASSUME NEW i \in DOMAIN response PROVE FamilyPermitted(response[i])
      BY <3>1, <3>3, <3>4 DEF FamilyPermitted, IP
    <3>. QED
      BY <3>4, <3>5
  <2>4. UNCHANGED <<desc, conn>>
    BY <1>1 DEF OnResolveSuccess
  <2>5. CASE object = "CResolveOnly"
    <3>1. m_resolved' = response /\ net' = net
      BY <1>1, <2>5, Zenon DEF OnResolveSuccess
    <3>. QED
      BY <2>3, <2>4, <3>1, Same, Zenon DEF Inv, NetOK, ResolvedOK
  <2>6. CASE object # "CResolveOnly"
    <3>1. ConnectResolved(response)
      BY <1>1, <2>6, Zenon DEF OnResolveSuccess
    <3>. QED
      BY <2>2, <2>3, <2>4, <3>1, ConnectResolvedInv, Zenon
  <2>. QED
    BY <2>5, <2>6
<1>2. CASE OnConnectFailure
  <2>1. PICK p \in net : p.via = "direct"
    BY <1>2, Zenon DEF OnConnectFailure, InFlight
  <2>2. ~HasProxy /\ conn.isSet /\ ~conn.isOnion
    BY <2>1 DEF Inv, NetOK, PacketOK
  <2>3. UNCHANGED <<desc, conn>>
    BY <1>2 DEF OnConnectFailure
  <2>4. CASE Len(m_resolved) > 1
    <3>1. ConnectResolved(Tail(m_resolved))
      BY <1>2, <2>4, Zenon DEF OnConnectFailure
    <3>. DEFINE rest == Tail(m_resolved)
    <3>2. /\ m_resolved \in Seq(IP)
          /\ \A i \in DOMAIN m_resolved : FamilyPermitted(m_resolved[i])
      BY Zenon DEF Inv, ResolvedOK
    <3>3. rest \in Seq(IP) /\ \A i \in DOMAIN rest : rest[i] = m_resolved[i + 1]
                             /\ i + 1 \in DOMAIN m_resolved
      BY <2>4, <3>2
    <3>. HIDE DEF rest
    <3>4. \A i \in DOMAIN rest : FamilyPermitted(rest[i])
      BY <3>2, <3>3, Zenon
    <3>. QED
      BY <2>2, <2>3, <3>1, <3>3, <3>4, ConnectResolvedInv, Zenon DEF rest
  <2>5. CASE ~(Len(m_resolved) > 1)
    <3>1. UNCHANGED <<net, m_resolved>>
      BY <1>2, <2>5, Zenon DEF OnConnectFailure
    <3>. QED
      BY <2>3, <3>1, NothingSent
  <2>. QED
    BY <2>4, <2>5
<1>3. CASE ProxyRequest
  <2>1. PICK p \in net : p.via = "proxy"
    BY <1>3, Zenon DEF ProxyRequest, InFlight
  <2>2. CanConnectProxy /\ conn.isSet
    BY <2>1 DEF Inv, NetOK, PacketOK
  <2>3. UNCHANGED <<desc, conn, m_resolved>>
    BY <1>3 DEF ProxyRequest
  <2>. DEFINE q == Packet("request", RequestType, conn.port)
  <2>4. net' = net \/ net' = net \cup {q}
    BY <1>3, Zenon DEF ProxyRequest
  <2>5. PacketOK(q)
    <3>1. q.via = "request" /\ q.port = conn.port
      BY PacketFields
    <3>2. q \in Packets
      <4>1. RequestType \in Families \cup {"none", "domain"}
        BY DEF RequestType, IP, Families
      <4>. QED
        BY <4>1, InvTyped, PacketTyped
    <3>. QED
      BY <2>2, <3>1, <3>2, Zenon DEF PacketOK
  <2>. QED
    BY <2>3, <2>4, <2>5, Sent
<1>4. CASE \/ OnResolveFailure \/ OnConnectSuccess \/ ProxyUnreachable \/ OnProxyFailure
           \/ OnProxySuccess \/ UNCHANGED vars
  BY <1>4, NothingSent DEF OnResolveFailure, OnConnectSuccess, ProxyUnreachable, OnProxyFailure,
     OnProxySuccess, vars
<1>. QED
  BY <1>1, <1>2, <1>3, <1>4, StartConnectionInv, Zenon DEF Next

-----------------------------------------------------------------------------
(* The theorems. *)

\* The inductive invariant holds of every candidate, whatever resolver, peers and proxy do.
THEOREM Invariance == Spec => []Inv
<1>. QED
  BY InitInv, NextInv, PTL DEF Spec

\* StartConnection and the callbacks put nothing but the connection to the proxy and the
\* request on the network when a proxy is set.
THEOREM ProxyNeverBypassed == Spec => []OnlyThroughProxy
<1>1. Inv => OnlyThroughProxy
  BY DEF Inv, NetOK, PacketOK, OnlyThroughProxy
<1>. QED
  BY <1>1, Invariance, PTL

\* CanConnectDirect, CanConnectProxy and SetResolveFamily let through only what nFamily
\* and doResolve permit.
THEOREM FamiliesKept == Spec => []FamilyRespected
<1>1. Inv => FamilyRespected
  <2>. SUFFICES ASSUME Inv PROVE FamilyRespected
    OBVIOUS
  <2>1. \A i \in DOMAIN m_resolved : FamilyPermitted(m_resolved[i])
    BY Zenon DEF Inv, ResolvedOK
  <2>2. ASSUME NEW p \in net, p.via = "direct" PROVE p.family \in desc.nFamily
    BY <2>2 DEF Inv, NetOK, PacketOK, FamilyPermitted
  <2>3. ASSUME NEW p \in net, p.via \in {"proxy", "request"} PROVE CanConnectProxy
    BY <2>3 DEF Inv, NetOK, PacketOK
  <2>4. CanConnectProxy => /\ conn.isDns => desc.doResolve = "RESOLVE_CONNECT"
                           /\ conn.isOnion => "ONION_PROXY" \in desc.nFamily
                           /\ conn.family # "none" => conn.family \in desc.nFamily
    BY DEF CanConnectProxy, FamilyPermitted, Inv, Fixed, ConnOK
  <2>. QED
    BY <2>1, <2>2, <2>3, <2>4, Zenon DEF FamilyRespected
<1>. QED
  BY <1>1, Invariance, PTL

\* The port of every lookup, connection and request is the one the candidate means.
THEOREM PortsArrive == Spec => []PortReachesNetwork
<1>1. Inv => PortReachesNetwork
  BY DEF Inv, Fixed, PortKept, NetOK, PacketOK, PortReachesNetwork
<1>. QED
  BY <1>1, Invariance, PTL

\* CConnectionBase(ToString()) is the connection that was printed.
THEOREM PrintedIsParsed == Spec => []RoundTrips
<1>1. Inv => RoundTrips
  BY Zenon DEF Inv, Fixed
<1>. QED
  BY <1>1, Invariance, PTL

\* The half of OnionNotLookedUp that is the constructor's and StartConnection's: an .onion
\* name whose label the decoder accepts is given to nobody but a proxy.
OnionNotAsked ==
    desc.text.host = "onion" /\ desc.text.label # <<>> /\ ~Invalid(desc.text.label) =>
        \A p \in net : p.via \in {"proxy", "request"}

\* A label that DecodeBase32 accepts is never looked up.
THEOREM OnionsKept == Spec => []OnionNotAsked
<1>1. Inv => OnionNotAsked
  BY DEF Inv, Fixed, OnionKept, ConnOK, NetOK, PacketOK, OnionNotAsked
<1>. QED
  BY <1>1, Invariance, PTL

\* A host that EncodeBase32 has made, before ".onion", is never looked up: the label is
\* accepted, as what is encoded decodes.
THEOREM EncodedOnionsKept == Spec => []OnionNotLookedUp
<1>1. Inv /\ OnionNotAsked => OnionNotLookedUp
  <2>1. \A bytes \in Samples : ~Invalid(EncodeBase32(bytes))
    BY ConstantsAssumption, EncodedDecodes
  <2>. QED
    BY <2>1, Zenon DEF OnionNotAsked, OnionNotLookedUp
<1>. QED
  BY <1>1, Invariance, OnionsKept, PTL

\* StartConnection makes an object of these, once.
ObjectOK ==
    object \in {"", "none", "CResolveOnly", "CDNSConnection", "CProxyConn", "CDirectConnection"}

\* No other step makes one.
LEMMA ObjectKept == Spec => []ObjectOK
<1>1. Init => ObjectOK
  BY DEF Init, ObjectOK
<1>2. ObjectOK /\ [Next]_vars => ObjectOK'
  <2>1. [Next]_vars => object' = Kind \/ object' = object
    BY Zenon DEF Next, vars, StartConnection, OnResolveSuccess, OnResolveFailure,
       OnConnectSuccess, OnConnectFailure, ProxyRequest, ProxyUnreachable, OnProxyFailure,
       OnProxySuccess
  <2>. QED
    BY <2>1 DEF ObjectOK, Kind
<1>. QED
  BY <1>1, <1>2, PTL DEF Spec

\* A connection that is set has exactly one of an address, a name and an .onion name, and
\* what goes onto the network, and the ports and addresses in it, are of their types.
LEMMA Typed ==
    ASSUME Inv, ObjectOK
    PROVE  TypeOK
<1>1. net \subseteq Packets
  BY Zenon DEF Inv, NetOK, PacketOK
<1>. QED
  BY <1>1, Zenon DEF Inv, Fixed, ConnOK, ResolvedOK, ObjectOK, TypeOK

\* A host is taken for what it is: EndsInOnion accepts every encoded label, and no label
\* that is a second text for the same bytes.
THEOREM HostsKnown == Spec => []HostsRecognised
<1>1. Inv => DecodesEncoded /\ OnionCanonical
  <2>. SUFFICES ASSUME Inv PROVE DecodesEncoded /\ OnionCanonical
    OBVIOUS
  <2>1. desc.text.label \in Seq(Char)
    <3>1. desc \in Descs
      BY Zenon DEF Inv, Fixed
    <3>. QED
      BY <3>1, DescFields
  <2>2. DecodesEncoded
    BY ConstantsAssumption, EncodedDecodes DEF DecodesEncoded
  <2>3. OnionCanonical
    BY <2>1, DecodedCanonical, Zenon DEF OnionCanonical
  <2>. QED
    BY <2>2, <2>3
<1>2. Inv /\ ObjectOK => TypeOK
  BY Typed
<1>3. OnionNotLookedUp /\ DecodesEncoded /\ OnionCanonical /\ TypeOK => HostsRecognised
  BY Zenon DEF HostsRecognised
<1>. QED
  BY <1>1, <1>2, <1>3, Invariance, ObjectKept, EncodedOnionsKept, PTL
=============================================================================
