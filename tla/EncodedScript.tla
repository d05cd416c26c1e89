--------------------------- MODULE EncodedScript ---------------------------
(***************************************************************************)
(* deny.rs, decode_powershell_encoded_command: the payload of an           *)
(* -EncodedCommand, which is base64 of UTF-16 with at most two = behind.   *)
(*                                                                         *)
(* Simplifications: white space is not typed, and lone surrogates are      *)
(* units like any other.                                                   *)
(***************************************************************************)
EXTENDS Integers, Sequences

CONSTANTS
  Sextet,  \* base64 digits by value; Pad is =, NoDigit any other letter
  MaxCode  \* bound on the letters of a payload

Pad == 64
NoDigit == 65

ASSUME SextetAssumption == Sextet \subseteq 0 .. NoDigit

VARIABLE letters  \* of a payload

-----------------------------------------------------------------------------
(* The decoder. *)

\* 2 to the power of n is Power[n + 1].
Power == <<1, 2, 4, 8, 16, 32, 64, 128>>

\* The letters without the = behind them.
Digits(s) ==
  SubSeq(s, 1, CHOOSE n \in 0 .. Len(s) : (n = 0 \/ s[n] # Pad) /\ \A i \in (n + 1) .. Len(s) : s[i] = Pad)

NoBytes == [out |-> <<>>, acc |-> 0, bits |-> 0]

\* One digit more: the bytes so far, the bits left over and their number.
Shift(st, d) ==
  LET acc == st.acc * 64 + d
      bits == st.bits + 6
      low == Power[bits - 7]
  IN IF bits >= 8
     THEN [out |-> Append(st.out, acc \div low), acc |-> acc % low, bits |-> bits - 8]
     ELSE [out |-> st.out, acc |-> acc, bits |-> bits]

Decoded(digits) ==
  LET upto[i \in 0 .. Len(digits)] == IF i = 0 THEN NoBytes ELSE Shift(upto[i - 1], digits[i])
  IN upto[Len(digits)]

AllDigits(digits) == \A i \in 1 .. Len(digits) : digits[i] < Pad

\* Mutant: a single digit over is let go.
LooseBytes(s) ==
  LET digits == Digits(s)
  IN IF Len(s) - Len(digits) <= 2 /\ AllDigits(digits) /\ Decoded(digits).acc = 0
     THEN {Decoded(digits).out} ELSE {}

\* The bytes of s, if it is the code of any.
DecodedBytes(s) ==
  LET digits == Digits(s)
  IN IF /\ Len(s) - Len(digits) <= 2 /\ AllDigits(digits)
        /\ Len(digits) % 4 # 1
        /\ Decoded(digits).acc = 0
     THEN {Decoded(digits).out} ELSE {}

\* decode_powershell_encoded_command: the bytes in pairs, low byte first.
DecodedUnits(s) ==
  {[i \in 1 .. (Len(bs) \div 2) |-> bs[2 * i - 1] + 256 * bs[2 * i]] :
     bs \in {b \in DecodedBytes(s) : s # <<>> /\ Len(b) % 2 = 0}}

-----------------------------------------------------------------------------
(* Any payload, letter by letter. *)

Letter(d) == Len(letters) < MaxCode /\ letters' = Append(letters, d)

CodeInit == letters = <<>>
CodeNext == \E d \in Sextet : Letter(d)
CodeSpec == CodeInit /\ [][CodeNext]_letters

\* Bit j of n, from below.
Bit(n, j) == (n \div Power[j + 1]) % 2

\* The bits of the units us, byte by byte, are those of the digits of s: no bit is
\* left over that no byte has, and no digit has only such.
HasTheBits(s, us) ==
  LET digits == Digits(s)
      byte(b) == (us[b \div 2 + 1] \div (IF b % 2 = 0 THEN 1 ELSE 256)) % 256
  IN /\ 6 * Len(digits) - 16 * Len(us) \in 0 .. 5
     /\ \A k \in 0 .. (6 * Len(digits) - 1) :
          Bit(digits[k \div 6 + 1], 5 - (k % 6)) =
            IF k \div 8 < 2 * Len(us) THEN Bit(byte(k \div 8), 7 - (k % 8)) ELSE 0

\* The script that is searched is the one that PowerShell runs: its units are the
\* bits of the payload. (decode_powershell_encoded_command, decode_rfc4648_base64)
DecodesTheBits == \A us \in DecodedUnits(letters) : HasTheBits(letters, us)
=============================================================================
