------------------------------ MODULE MoeDequant -----------------------------
(* How the gfx942 MoE kernels turn MXFP4 weights into bf16                  *)
(* (csrc/gfx942/mxfp4_moe_common.h), and the repack of the weights that they*)
(* rely on (moonmath_amd/moe.py).  A 32-bit word is the sequence of its     *)
(* bytes, least significant first; a bf16 is its 16 bits.                   *)
EXTENDS Integers, Sequences, SequencesExt

(* v_perm_b32: bytes of the table src1, src0; selector 12 gives a zero.    *)
vperm(src0, src1, sel) ==
  [i \in 1 .. 4 |-> IF sel[i] = 12 THEN 0 ELSE (src1 \o src0)[(sel[i] % 8) + 1]]

(* A packed add of d to both halves of a word, each modulo 2^16.           *)
Halves(lo, hi, d) ==
  LET a == (lo + d) % 65536
      b == (hi + d) % 65536
  IN <<a % 256, a \div 256, b % 256, b \div 256>>

(* The bf16 magnitudes of E2M1 with the E8M0 exponent added, as a table of *)
(* high bytes and one of low bytes; 0.0 comes from selector 12.            *)
scaled_table(e8m0) ==
  LET d == (e8m0 * 128) % 65536
      s0 == Halves(65408, 0, d)         \* 0.5, 1.0, biased by -0x3F80
      s1 == Halves(64, 65280, d)        \* 1.5, unused
      s2 == Halves(128, 192, d)         \* 2.0, 3.0
      s3 == Halves(256, 320, d)         \* 4.0, 6.0
  IN [hi_lo |-> vperm(s1, s0, <<12, 1, 3, 5>>), hi_hi |-> vperm(s3, s2, <<1, 3, 5, 7>>),
      lo_lo |-> vperm(s1, s0, <<12, 0, 2, 4>>), lo_hi |-> vperm(s3, s2, <<0, 2, 4, 6>>)]

Low(w) == [i \in 1 .. 4 |-> w[i] % 16]
High(w) == [i \in 1 .. 4 |-> w[i] \div 16]

(* Four nibbles of a word, one in each byte, to four bf16.                 *)
UnpackHalf(x, T) ==
  LET mag == [i \in 1 .. 4 |-> x[i] % 8]
      hb == vperm(T.hi_hi, T.hi_lo, mag)
      lb == vperm(T.lo_hi, T.lo_lo, mag)
      Signed(i) == IF x[i] >= 8 /\ hb[i] < 128 THEN hb[i] + 128 ELSE hb[i]
  IN [i \in 1 .. 4 |-> Signed(i) * 256 + lb[i]]

(* Mutant: in the stock order, low and high nibble of each byte in turn.   *)
unpack8_stock(w, T) ==
  LET lo == UnpackHalf(Low(w), T)
      hi == UnpackHalf(High(w), T)
  IN [m \in 1 .. 8 |-> IF m % 2 = 1 THEN lo[(m + 1) \div 2] ELSE hi[m \div 2]]

(* All low nibbles, then all high ones.                                    *)
unpack8(w, T) == UnpackHalf(Low(w), T) \o UnpackHalf(High(w), T)

(* repack_mxfp4 on four bytes of stock weights, whose byte b holds k = 2b  *)
(* low and 2b + 1 high: byte j then holds k = j low and k = 4 + j high.    *)
_canon_neg_zero(nib) == IF nib = 8 THEN 0 ELSE nib

repack_word(w) ==
  LET v == [m \in 1 .. 8 |-> _canon_neg_zero(IF m % 2 = 1 THEN w[(m + 1) \div 2] % 16
                                                          ELSE w[m \div 2] \div 16)]
  IN [j \in 1 .. 4 |-> v[j] + 16 * v[j + 4]]

-----------------------------------------------------------------------------
(* What E2M1 and E8M0 mean: the nibble's sign and magnitude times          *)
(* 2^(e8m0 - 127), where that is a normal bf16 (or zero).                  *)
E2M1Exponent(q) == IF q = 1 THEN -1 ELSE (q \div 2) - 1
E2M1Fraction(q) == IF q = 1 THEN 0 ELSE (q % 2) * 64

Bf16Of(nib, e8m0) ==
  LET q == nib % 8
      sign == IF nib > 8 THEN 32768 ELSE 0
  IN IF q = 0 THEN 0 ELSE sign + (E2M1Exponent(q) + e8m0) * 128 + E2M1Fraction(q)

InRange(e8m0) == e8m0 - 1 >= 1 /\ e8m0 + 2 <= 254

(* Eight consecutive k of a column in the stock layout.                    *)
StockWord(nibs) == [b \in 1 .. 4 |-> nibs[2 * b - 1] + 16 * nibs[2 * b]]
Decoded(nibs, e8m0) == unpack8(repack_word(StockWord(nibs)), scaled_table(e8m0))
Meant(nibs, e8m0) == [m \in 1 .. 8 |-> Bf16Of(nibs[m], e8m0)]
=============================================================================
