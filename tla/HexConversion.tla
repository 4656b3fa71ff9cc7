----------------------------- MODULE HexConversion -----------------------------
(***************************************************************************)
(* convert_char_to_hex_reg of the EEPROM driver, which store_reg_addr and  *)
(* store_write_byte apply to the text after 0x.                            *)
(*                                                                         *)
(* A character is a pair: the range the code finds it in and its distance  *)
(* from the first character of that range.                                 *)
(***************************************************************************)
EXTENDS Integers, Sequences

CONSTANT Count   \* the number of characters: 4 for an address, 2 for a byte

\* out is an int, which holds seven hexadecimal digits.
ASSUME CountAssumption == Count \in 1 .. 7

Chars == ({"0..9"} \X (0 .. 9)) \cup ({"a..f", "A..F"} \X (0 .. 5)) \cup {<<"other", 0>>}

VARIABLES in, i, out, ret

vars == <<in, i, out, ret>>

Init ==
  /\ in \in [1 .. Count -> Chars]
  /\ i = 0
  /\ out = 0
  /\ ret = "looping"

\* 1 << (4*k).
Weight[k \in 0 .. Count] == IF k = 0 THEN 1 ELSE 16 * Weight[k - 1]

\* (in[i] - tmp_char) << (4*(count-1-i)); the digits' bits are disjoint, so
\* the | that follows is a sum.
Shifted(k) == k * Weight[Count - 1 - i]

digit ==
  /\ ret = "looping"
  /\ i < Count
  /\ in[i + 1][1] # "other"
  /\ out' = out + Shifted(in[i + 1][2])
  /\ i' = i + 1
  /\ UNCHANGED <<in, ret>>

\* A loop that skips what is not a digit.
not_a_digit_skipped ==
  /\ ret = "looping"
  /\ i < Count
  /\ in[i + 1][1] = "other"
  /\ i' = i + 1
  /\ UNCHANGED <<in, out, ret>>

not_a_digit ==
  /\ ret = "looping"
  /\ i < Count
  /\ in[i + 1][1] = "other"
  /\ out' = -1
  /\ ret' = "-1"
  /\ UNCHANGED <<in, i>>

converted ==
  /\ ret = "looping"
  /\ i = Count
  /\ ret' = "0"
  /\ UNCHANGED <<in, i, out>>

Next == digit \/ not_a_digit \/ converted

Spec == Init /\ [][Next]_vars

-----------------------------------------------------------------------------
(* The reference: the value of a hexadecimal number.                       *)

Digit(c) == IF c[1] = "0..9" THEN c[2] ELSE 10 + c[2]

\* The values of the first 0, 1 ... Count characters of a text.
Values(text) ==
  LET V[k \in 0 .. Count] == IF k = 0 THEN 0 ELSE 16 * V[k - 1] + Digit(text[k])
  IN V

HexValue == Values(in)[Count]

Decimal == \A k \in 1 .. Count : in[k][1] = "0..9"

(***************************************************************************)
(* A conversion succeeds if and only if every character is a hexadecimal   *)
(* digit; the result then fits the register (a byte for two characters, 16 *)
(* bits for four), so the callers' casts lose nothing, and it is the value *)
(* of the text if the text has only the digits 0 to 9.                     *)
(***************************************************************************)
AcceptsAndConverts ==
  /\ ret = "-1" => \E k \in 1 .. Count : in[k][1] = "other"
  /\ ret = "0" => /\ \A k \in 1 .. Count : in[k][1] # "other"
                  /\ out \in 0 .. Weight[Count] - 1
                  /\ Decimal => out = HexValue

(***************************************************************************)
(* A hexadecimal text is converted to its value.                           *)
(***************************************************************************)
HexConverts == ret = "0" => out = HexValue
=============================================================================
