------------------------------- MODULE Base32 -------------------------------
(***************************************************************************)
(* EncodeBase32 and DecodeBase32 (src/base32.cpp).                          *)
(*                                                                         *)
(* A byte is a number below 256. A character of a text is the number of its *)
(* symbol, 0 to 31 (both functions treat upper and lower case alike as far  *)
(* as they meet it), Pad for '=', Junk for any other; the end of the text   *)
(* reads as the byte 0 of a C string, no symbol either.                     *)
(*                                                                         *)
(* The code has one case per `mode`, the number of bytes or symbols         *)
(* processed modulo 5 or 8. What a case does follows from how many bits     *)
(* (`kept`) are left over when it begins; `left` holds them, right-aligned. *)
(***************************************************************************)
EXTENDS Integers, Sequences

Byte == 0 .. 255
Symbol == 0 .. 31
Pad == 32
Junk == 33
Char == Symbol \cup {Pad, Junk}

\* decode32_table.at(c) != -1
IsSymbol(c) == c \in Symbol
\* p[i], which may be the terminating 0.
CharAt(text, i) == IF i <= Len(text) THEN text[i] ELSE Junk

-----------------------------------------------------------------------------
(* Encoding. *)

\* Bits left over after `mode` bytes of a group of five: 0, 3, 1, 4, 2.
EncoderKept(mode) == (3 * mode) % 5
nPadding == <<0, 6, 4, 3, 1>>

\* One byte: one or two symbols, and what is left over.
EncodeByte(state, byte) ==
    LET bits == EncoderKept(state.mode) + 8
        value == state.left * 256 + byte
        out == IF bits >= 10 THEN <<value \div 2^(bits - 5), (value \div 2^(bits - 10)) % 32>>
                             ELSE <<value \div 2^(bits - 5)>>
    IN  [mode |-> (state.mode + 1) % 5, left |-> value % 2^(bits % 5), text |-> state.text \o out]

\* What there is after each number of bytes.
Encoder(bytes) ==
    LET after[n \in 0 .. Len(bytes)] ==
            IF n = 0 THEN [mode |-> 0, left |-> 0, text |-> <<>>]
                     ELSE EncodeByte(after[n - 1], bytes[n])
    IN  after

EncodeBase32(bytes) ==
    LET end == Encoder(bytes)[Len(bytes)]
        last == <<end.left * 2^(5 - EncoderKept(end.mode))>>
    IN  IF end.mode = 0 THEN end.text
        ELSE end.text \o last \o [i \in 1 .. nPadding[end.mode + 1] |-> Pad]

-----------------------------------------------------------------------------
(* Decoding. *)

\* Bits left over after `mode` symbols of a group of eight: 0, 5, 2, 7, 4, 1, 6, 3.
DecoderKept(mode) == (5 * mode) % 8

\* One symbol: a byte if there are enough bits, and what is left over.
DecodeSymbol(state, dec) ==
    LET bits == DecoderKept(state.mode) + 5
        value == state.left * 32 + dec
    IN  [mode |-> (state.mode + 1) % 8,
         left |-> value % 2^(bits % 8),
         bytes |-> IF bits >= 8 THEN Append(state.bytes, (value \div 2^(bits - 8)) % 256)
                                ELSE state.bytes]

\* The loop stops at the first character that is no symbol.
NumSymbols(text) ==
    CHOOSE n \in 0 .. Len(text) :
        (\A i \in 1 .. n : IsSymbol(text[i])) /\ ~IsSymbol(CharAt(text, n + 1))

\* What there is after each number of symbols.
Decoder(text) ==
    LET after[n \in 0 .. NumSymbols(text)] ==
            IF n = 0 THEN [mode |-> 0, left |-> 0, bytes |-> <<>>]
                     ELSE DecodeSymbol(after[n - 1], text[n])
    IN  after

Decoded(text) == Decoder(text)[NumSymbols(text)]

DecodeBase32(text) == Decoded(text).bytes

\* The number of '=' that complete a group of eight; no text ends after 1, 3 or 6.
PaddingOf(mode) ==
    CASE mode = 2 -> 6 [] mode = 4 -> 4 [] mode = 5 -> 3 [] mode = 7 -> 1

\* Mutant: the bits left over are not looked at.
Invalid_AnyLeft(text) ==
    LET end == Decoded(text)
        n == NumSymbols(text)
    IN  \/ end.mode \in {1, 3, 6}
        \/ /\ end.mode \in {2, 4, 5, 7}
           /\ \/ \E i \in 1 .. PaddingOf(end.mode) : CharAt(text, n + i) # Pad
              \/ IsSymbol(CharAt(text, n + PaddingOf(end.mode) + 1))

\* *pfInvalid. After complete groups (mode 0) anything may follow.
Invalid(text) ==
    LET end == Decoded(text)
        n == NumSymbols(text)
    IN  \/ end.mode \in {1, 3, 6}
        \/ /\ end.mode \in {2, 4, 5, 7}
           /\ \/ end.left # 0
              \/ \E i \in 1 .. PaddingOf(end.mode) : CharAt(text, n + i) # Pad
              \/ IsSymbol(CharAt(text, n + PaddingOf(end.mode) + 1))
=============================================================================
