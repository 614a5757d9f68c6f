---------------------------- MODULE AttnWaveProofs ----------------------------
(***************************************************************************)
(* Proofs about one wave of the gfx950 attention kernels.                  *)
(*                                                                         *)
(* LoadsOwnRowsHolds: every load brings its own tile's rows.  Unpaged, a   *)
(* resource reaches the tiles up to the next rare one (Reaches, Near,      *)
(* Aimed, Warned); paged, it is the run's own, and the pages taken         *)
(* run ahead of it by as much as the ring does (Holding, VBehind, Pages).  *)
(*                                                                         *)
(* SumsInRangeHolds: no P is NaN or above 2^RescaleThreshold.  Seeds never *)
(* rise above a score (Seeded), so a score relative to its frame is NaN,   *)
(* infinite or at most two scores (Related), and a moved frame takes it    *)
(* below the threshold (Shifts).                                           *)
(***************************************************************************)
EXTENDS AttnWave, FiniteSetTheorems, SequenceTheorems, WellFoundedInduction, TLAPS

(* A quotient and its remainder.                                           *)
LEMMA Quotient ==
  ASSUME NEW y \in Nat \ {0}, NEW x \in Int
  PROVE  /\ x \div y \in Int /\ x % y \in 0 .. y - 1
         /\ x = (x \div y) * y + (x % y)
         /\ x \in Nat => x \div y \in Nat
  BY SMT

(* Products with a natural keep the order.                                 *)
LEMMA TimesMonotone ==
  ASSUME NEW a \in Int, NEW b \in Int, NEW y \in Nat, a <= b
  PROVE  a * y <= b * y
  BY SMT

(* A product of naturals is one.                                           *)
LEMMA ProductIsNat ==
  ASSUME NEW a \in Nat, NEW b \in Nat
  PROVE  a * b \in Nat
  BY SMT

(* A number is its digits in base y.                                       *)
LEMMA OneQuotient ==
  ASSUME NEW y \in Nat \ {0}, NEW q \in Int, NEW d \in 0 .. y - 1, NEW x \in Int, x = q * y + d
  PROVE  x \div y = q /\ x % y = d
<1>1. PICK q2 \in Int, d2 \in 0 .. y - 1 : q2 = x \div y /\ d2 = x % y /\ x = q2 * y + d2
  BY Quotient
<1>2. q2 = q
  <2>1. ASSUME q2 < q PROVE FALSE
    <3>1. (q2 + 1) * y <= q * y
      BY <2>1, TimesMonotone
    <3>2. (q2 + 1) * y = q2 * y + y
      OBVIOUS
    <3>3. QED
      BY <1>1, <3>1, <3>2
  <2>2. ASSUME q < q2 PROVE FALSE
    <3>1. (q + 1) * y <= q2 * y
      BY <2>2, TimesMonotone
    <3>2. (q + 1) * y = q * y + y
      OBVIOUS
    <3>3. QED
      BY <1>1, <3>1, <3>2
  <2>3. QED
    BY <2>1, <2>2
<1>3. QED
  BY <1>1, <1>2

(* A run of m tokens from a multiple of m lies in one page of pages of a   *)
(* multiple of m.                                                          *)
Multiple(x, m) == \E q \in Int : x = q * m

(* What a multiple is written as.                                          *)
LEMMA MultipleOf ==
  ASSUME NEW m, NEW x, NEW q \in Int, x = q * m
  PROVE  Multiple(x, m)
BY Zenon DEF Multiple

(* A multiple leaves no remainder, and only a multiple does.               *)
LEMMA MultipleIs ==
  ASSUME NEW m \in Nat \ {0}, NEW x \in Int
  PROVE  Multiple(x, m) <=> x % m = 0
<1>1. ASSUME Multiple(x, m) PROVE x % m = 0
  BY <1>1, OneQuotient, 0 \in 0 .. m - 1 DEF Multiple
<1>2. ASSUME x % m = 0 PROVE Multiple(x, m)
  <2>1. PICK q \in Int : q = x \div m /\ x = q * m + 0
    BY <1>2, Quotient
  <2>2. x = q * m
    BY <2>1
  <2>3. QED
    BY <2>2, Zenon DEF Multiple
<1>3. QED
  BY <1>1, <1>2

(* Sums and differences of multiples.                                      *)
LEMMA MultipleSum ==
  ASSUME NEW m \in Nat \ {0}, NEW x \in Int, NEW y \in Int, Multiple(x, m), Multiple(y, m)
  PROVE  Multiple(x + y, m) /\ Multiple(x - y, m)
<1>1. PICK p \in Int, q \in Int : x = p * m /\ y = q * m
  BY DEF Multiple
<1>2. PICK a \in Int, b \in Int : a = p + q /\ b = p - q
  OBVIOUS
<1>3. x + y = a * m /\ x - y = b * m
  BY <1>1, <1>2
<1>4. QED
  BY <1>3, MultipleOf

(* Products of multiples.                                                  *)
LEMMA MultipleProduct ==
  ASSUME NEW m \in Nat \ {0}, NEW x \in Int, NEW y \in Int, Multiple(x, m)
  PROVE  Multiple(y * x, m)
<1>1. PICK p \in Int : x = p * m
  BY DEF Multiple
<1>2. PICK a \in Int : a = y * p
  OBVIOUS
<1>3. y * x = a * m
  BY <1>1, <1>2
<1>4. QED
  BY <1>3, MultipleOf

(* All m tokens from a multiple of m are on its page, one after the        *)
(* other.                                                                  *)
LEMMA WithinPage ==
  ASSUME NEW m \in Nat \ {0}, NEW R \in Nat \ {0}, NEW v \in Nat, NEW i \in 0 .. m - 1,
         Multiple(R, m), Multiple(v, m)
  PROVE  (v + i) \div R = v \div R /\ (v + i) % R = (v % R) + i
<1>1. PICK e \in Nat, d \in 0 .. R - 1 : e = v \div R /\ d = v % R /\ v = e * R + d
  <2>1. v \in Int
    OBVIOUS
  <2>2. QED
    BY <2>1, Quotient, Zenon
<1>7. v = e * R + d
  BY <1>1
<1>10. d < R /\ d \in Int
  OBVIOUS
<1>2. Multiple(d, m)
  <2>1. Multiple(e * R, m)
    BY MultipleProduct
  <2>2. PICK z \in Int : z = e * R
    OBVIOUS
  <2>3. d = v - z
    BY <1>7, <2>2
  <2>4. QED
    BY <2>1, <2>2, <2>3, MultipleSum
<1>3. d + i < R
  <2>1. PICK p \in Int, q \in Int : d = p * m /\ R = q * m
    BY <1>2, Zenon DEF Multiple
  <2>2. p < q
    <3>1. ASSUME q <= p PROVE FALSE
      <4>1. q * m <= p * m
        BY <3>1, TimesMonotone
      <4>2. R <= d
        BY <2>1, <4>1, Zenon
      <4>3. QED
        BY <1>10, <4>2
    <3>2. QED
      BY <3>1
  <2>3. (p + 1) * m <= q * m
    BY <2>2, TimesMonotone
  <2>4. (p + 1) * m = p * m + m
    OBVIOUS
  <2>5. d + m <= R
    BY <2>1, <2>3, <2>4, Zenon
  <2>6. QED
    BY <1>10, <2>5
<1>4. PICK x \in Int : x = v + i
  OBVIOUS
<1>5. PICK s \in 0 .. R - 1 : s = d + i /\ x = e * R + s
  BY <1>3, <1>4, <1>7
<1>9. e \in Int
  OBVIOUS
<1>8. x \div R = e /\ x % R = s
  BY <1>5, <1>9, OneQuotient, Zenon
<1>6. QED
  BY <1>1, <1>4, <1>5, <1>8

(* The rows of a wave divide a tile, and where it starts.                  *)
LEMMA Counts ==
  ASSUME NEW c \in Calls
  PROVE  /\ RowCount(c) \in Nat \ {0} /\ RowCount(c) <= KvTile /\ DmaRow0(c) \in Nat
         /\ c.paged => Multiple(KvTile, RowCount(c)) /\ Multiple(DmaRow0(c), RowCount(c))
<1>1. c.wave \in 0 .. NumWaves - 1 /\ NumWaves \in Nat \ {0} /\ KvTile \in Nat \ {0}
  BY CallsAssumption, WorkItemsAssumption
<1>2. PICK h \in Nat \ {0} : h = NumWaves \div 2 /\ NumWaves = h + h
  <2>1. /\ NumWaves \div 2 \in Nat
        /\ NumWaves = (NumWaves \div 2) * 2 + (NumWaves % 2)
    <3>1. NumWaves \in Nat /\ NumWaves \in Int /\ 2 \in Nat \ {0}
      BY <1>1
    <3>2. QED
      BY <3>1, Quotient, Zenon
  <2>2. PICK h \in Nat : h = NumWaves \div 2 /\ NumWaves = h * 2 + 0
    BY <2>1, LoadsAssumption
  <2>3. QED
    BY <1>1, <2>2
<1>3. PICK q \in Nat \ {0} : KvTile \div NumWaves = q /\ KvTile = q * NumWaves
  <2>1. KvTile \div NumWaves \in Nat /\ KvTile = (KvTile \div NumWaves) * NumWaves + (KvTile % NumWaves)
    <3>1. KvTile \in Nat /\ KvTile \in Int
      BY <1>1
    <3>2. QED
      BY <1>1, <3>1, Quotient, Zenon
  <2>2. PICK q \in Nat : q = KvTile \div NumWaves /\ KvTile = q * NumWaves
    BY <1>1, <2>1, LoadsAssumption
  <2>3. q # 0
    BY <1>1, <2>2
  <2>4. QED
    BY <2>2, <2>3
<1>4. PICK s \in Nat \ {0} : s = q + q /\ KvTile \div h = s /\ KvTile = s * h
  <2>1. PICK s \in Nat \ {0} : s = q + q
    OBVIOUS
  <2>2. KvTile = s * h + 0
    BY <1>2, <1>3, <2>1
  <2>3. KvTile \div h = s
    <3>1. KvTile \in Int /\ s \in Int /\ 0 \in 0 .. h - 1
      BY <1>1
    <3>2. QED
      BY <2>2, <3>1, OneQuotient, Zenon
  <2>4. QED
    BY <2>1, <2>2, <2>3
<1>5. c.wave % h \in 0 .. h - 1
  <2>1. c.wave \in Int
    BY <1>1
  <2>2. QED
    BY <2>1, Quotient, Zenon
<1>6. q <= KvTile /\ s <= KvTile
  <2>1. 1 * q <= NumWaves * q /\ 1 * s <= h * s
    BY <1>1, <1>2, <1>3, <1>4, TimesMonotone
  <2>2. QED
    BY <1>1, <1>3, <1>4, <2>1
<1>7. CASE ~c.mla
  <2>1. RowCount(c) = q /\ DmaRow0(c) = c.wave * q
    BY <1>3, <1>7 DEF RowCount, DmaRow0
  <2>2. c.wave * q \in Nat
    BY <1>1, ProductIsNat
  <2>3. KvTile = NumWaves * q
    BY <1>1, <1>3
  <2>4. Multiple(KvTile, q) /\ Multiple(c.wave * q, q)
    <3>1. NumWaves \in Int /\ c.wave \in Int
      BY <1>1
    <3>2. QED
      BY <2>3, <3>1, MultipleOf, Zenon
  <2>5. QED
    BY <1>6, <2>1, <2>2, <2>4
<1>8. CASE c.mla /\ c.paged
  <2>1. RowCount(c) = s /\ DmaRow0(c) = (c.wave % h) * s
    BY <1>2, <1>4, <1>8 DEF RowCount, DmaRow0, GroupWaves
  <2>2. PICK g \in Nat : g = c.wave % h
    BY <1>5
  <2>3. g * s \in Nat
    BY ProductIsNat
  <2>4. KvTile = h * s
    BY <1>4
  <2>5. Multiple(KvTile, s) /\ Multiple(g * s, s)
    <3>1. g \in Int /\ h \in Int
      OBVIOUS
    <3>2. QED
      BY <2>4, <3>1, MultipleOf, Zenon
  <2>6. QED
    BY <1>6, <2>1, <2>2, <2>3, <2>5
<1>9. CASE c.mla /\ ~c.paged
  BY <1>1, <1>9 DEF RowCount, DmaRow0
<1>10. QED
  BY <1>7, <1>8, <1>9, CallsAssumption

(* A row fits a resource's range when it is one of the rows left.          *)
LEMMA Spans ==
  ASSUME NEW rb \in Nat, NEW d \in Nat \ {0}, d <= rb, NEW left \in Nat, NEW x \in Nat
  PROVE  /\ x * rb + d <= (left - 1) * rb + d <=> x < left
         /\ x * rb + d <= left * rb <=> x < left
<1>1. PICK y \in Int : y = left - 1
  OBVIOUS
<1>2. PICK a \in Int, b \in Int, e \in Int : a = x * rb /\ b = y * rb /\ e = left * rb
  OBVIOUS
<1>3. e = b + rb
  BY <1>1, <1>2
<1>4. ASSUME x < left PROVE a <= b
  BY <1>1, <1>2, <1>4, TimesMonotone
<1>5. ASSUME ~(x < left) PROVE e <= a
  BY <1>2, <1>5, TimesMonotone
<1>6. QED
  BY <1>1, <1>2, <1>3, <1>4, <1>5

(* The offset of a wave's row i of a tile is its rows' from the resource's *)
(* first.                                                                  *)
LEMMA OffsetOf ==
  ASSUME NEW k \in Nat, NEW rb \in Nat, NEW n \in Nat, NEW i \in Nat
  PROVE  n * (k * rb) + i * rb = (n * k + i) * rb
OBVIOUS

(* Key i of a wave's run of tile n; what a load brings for it, and ought to.*)
KeyOf(c, lo, n, i) == (lo + n) * KvTile + DmaRow0(c) + i
Brought(rsrc, at) == IF at + DBytes <= rsrc.range THEN rsrc.base + at ELSE Zeros
Own(c, ring, k) == IF k < c.skv THEN RowOf(c, ring, k) ELSE Zeros

(* A resource of tile m reaches the rows of a tile n before Max32.         *)
LEMMA UnpagedRow ==
  ASSUME NEW c \in Calls, ~c.paged, NEW ring \in {"K", "V"}, NEW lo \in Nat, NEW m \in Nat, NEW n \in Nat, m <= n,
         (n - m + 1) * TileBytes(c, ring) <= Max32,
         NEW i \in DmaRows(c), NEW at, at = (n - m) * TileBytes(c, ring) + i * RowBytes(c, ring),
         NEW rsrc, rsrc = kv_rsrc(c, lo, ring, m)
  PROVE  Brought(rsrc, at) = Own(c, ring, KeyOf(c, lo, n, i))
<1>1. PICK rb \in Nat, d \in Nat \ {0}, kt \in Nat \ {0}, dr \in Nat :
        /\ rb = RowBytes(c, ring) /\ d = DBytes /\ d <= rb /\ kt = KvTile /\ dr = DmaRow0(c) /\ Max32 \in Nat
        /\ i \in Nat /\ i < kt /\ c.kv0 \in Nat /\ c.skv \in Nat
  <2>1. i \in 0 .. RowCount(c) - 1
    BY DEF DmaRows
  <2>2. RowCount(c) \in Nat \ {0} /\ RowCount(c) <= KvTile /\ DmaRow0(c) \in Nat
    BY Counts
  <2>3. /\ c.kv0 \in Nat /\ c.skv \in Nat
        /\ RowBytes(c, ring) \in Nat /\ DBytes <= RowBytes(c, ring)
    BY CallsAssumption
  <2>4. KvTile \in Nat \ {0} /\ DBytes \in Nat \ {0} /\ Max32 \in Nat
    BY LoadsAssumption, WorkItemsAssumption
  <2>5. i \in Nat /\ i < KvTile
    BY <2>1, <2>2, <2>4
  <2>6. QED
    BY <2>2, <2>3, <2>4, <2>5
<1>2. PICK g \in Nat, x \in Nat : g = n - m /\ x = g * kt + i
  <2>1. PICK g \in Nat : g = n - m
    OBVIOUS
  <2>2. g * kt \in Nat
    BY ProductIsNat
  <2>3. QED
    BY <1>1, <2>1, <2>2
<1>3. at = x * rb
  <2>1. at = g * (kt * rb) + i * rb
    BY <1>1, <1>2 DEF TileBytes
  <2>2. QED
    BY <1>1, <1>2, <2>1, OffsetOf
<1>4. x * rb + d <= Max32
  <2>1. (g + 1) * (kt * rb) <= Max32
    BY <1>1, <1>2 DEF TileBytes
  <2>2. (g + 1) * (kt * rb) = ((g + 1) * kt) * rb
    OBVIOUS
  <2>3. PICK y \in Nat : y = (g + 1) * kt
    BY ProductIsNat
  <2>4. x + 1 <= y
    BY <1>1, <1>2, <2>3
  <2>5. (x + 1) * rb <= y * rb
    BY <2>4, TimesMonotone
  <2>6. (x + 1) * rb = x * rb + rb
    OBVIOUS
  <2>7. PICK a \in Int, b \in Int : a = x * rb /\ b = y * rb
    OBVIOUS
  <2>8. QED
    BY <1>1, <2>1, <2>2, <2>3, <2>5, <2>6, <2>7
<1>5. PICK p \in Nat, s \in Nat : p = m * kt /\ s = lo * kt
  BY ProductIsNat
<1>6. PICK left \in Nat : left = Most(c.skv - s - (p + dr), 0)
  BY <1>1 DEF Most
<1>7. /\ rsrc.base = (c.kv0 + s + (p + dr)) * rb
      /\ rsrc.range = IF left = 0 THEN 0 ELSE Least((left - 1) * rb + d, Max32)
  BY <1>1, <1>5, <1>6 DEF kv_rsrc, num_rows, kv_row0
<1>8. KeyOf(c, lo, n, i) = s + p + dr + x
  <2>1. n = m + g
    BY <1>2
  <2>2. (lo + n) * kt = lo * kt + m * kt + g * kt
    BY <2>1
  <2>3. PICK z \in Int : z = g * kt
    OBVIOUS
  <2>4. QED
    BY <1>1, <1>2, <1>5, <2>2, <2>3 DEF KeyOf
<1>9. KeyOf(c, lo, n, i) < c.skv <=> x < left
  BY <1>1, <1>6, <1>8 DEF Most
<1>10. at + DBytes <= rsrc.range <=> x < left
  <2>1. CASE left = 0
    <3>1. at \in Nat
      BY <1>3, ProductIsNat
    <3>2. QED
      BY <1>1, <1>7, <2>1, <3>1
  <2>2. CASE left # 0
    <3>1. x * rb + d <= (left - 1) * rb + d <=> x < left
      BY <1>1, Spans
    <3>2. PICK a \in Int, b \in Int : a = x * rb /\ b = (left - 1) * rb
      OBVIOUS
    <3>3. rsrc.range = Least(b + d, Max32) /\ at = a
      BY <1>3, <1>7, <2>2, <3>2
    <3>4. a + d <= b + d <=> x < left
      BY <3>1, <3>2
    <3>5. a + d <= Max32
      BY <1>4, <3>2
    <3>6. QED
      BY <1>1, <3>3, <3>4, <3>5 DEF Least
  <2>3. QED
    BY <2>1, <2>2
<1>11. rsrc.base + at = RowOf(c, ring, KeyOf(c, lo, n, i))
  <2>1. RowOf(c, ring, KeyOf(c, lo, n, i)) = (c.kv0 + (s + p + dr + x)) * rb
    BY <1>1, <1>8 DEF RowOf
  <2>2. (c.kv0 + s + (p + dr)) * rb + x * rb = (c.kv0 + (s + p + dr + x)) * rb
    BY <1>1
  <2>3. QED
    BY <1>3, <1>7, <2>1, <2>2
<1>12. QED
  BY <1>9, <1>10, <1>11 DEF Brought, Own

(* What a paged resource built for the run of tokens from vk holds.        *)
ResourceAt(c, ring, vk) ==
  [base |-> c.table[page_entry(c, vk)] * c.page_bytes + (vk % PageRows(c)) * RowBytes(c, ring),
   range |-> Least(Most(c.kv0 + c.skv - vk, 0), RowsCap) * RowBytes(c, ring)]
RunOf(c, lo, n) == c.kv0 + lo * KvTile + n * KvTile + DmaRow0(c)

(* Runs start at multiples of their length.                                *)
LEMMA Runs ==
  ASSUME NEW c \in Calls, c.paged, NEW lo \in Nat, NEW n \in Nat
  PROVE  RunOf(c, lo, n) \in Nat /\ Multiple(RunOf(c, lo, n), RowCount(c)) /\ c.kv0 <= RunOf(c, lo, n)
<1>1. PICK m \in Nat \ {0}, kt \in Nat, dr \in Nat, k0 \in Nat :
        /\ m = RowCount(c) /\ kt = KvTile /\ dr = DmaRow0(c) /\ k0 = c.kv0
        /\ Multiple(kt, m) /\ Multiple(dr, m) /\ k0 % m = 0
  <2>1. /\ RowCount(c) \in Nat \ {0} /\ DmaRow0(c) \in Nat
        /\ Multiple(KvTile, RowCount(c)) /\ Multiple(DmaRow0(c), RowCount(c))
    BY Counts
  <2>2. c.kv0 \in Nat /\ c.kv0 % RowCount(c) = 0
    BY CallsAssumption
  <2>3. KvTile \in Nat
    BY WorkItemsAssumption
  <2>4. QED
    BY <2>1, <2>2, <2>3
<1>2. Multiple(k0, m)
  BY <1>1, MultipleIs
<1>3. PICK a \in Nat, b \in Nat : a = lo * kt /\ b = n * kt /\ Multiple(a, m) /\ Multiple(b, m)
  <2>1. kt \in Int /\ lo \in Int /\ n \in Int
    OBVIOUS
  <2>2. Multiple(lo * kt, m) /\ Multiple(n * kt, m)
    BY <1>1, <2>1, MultipleProduct, Zenon
  <2>3. lo * kt \in Nat /\ n * kt \in Nat
    BY ProductIsNat
  <2>4. QED
    BY <2>2, <2>3
<1>5. PICK x \in Nat : x = k0 + a /\ Multiple(x, m)
  <2>1. k0 \in Int /\ a \in Int /\ Multiple(k0, m) /\ Multiple(a, m)
    BY <1>2, <1>3
  <2>2. Multiple(k0 + a, m)
    BY <2>1, MultipleSum, Zenon
  <2>4. k0 + a \in Nat
    OBVIOUS
  <2>3. QED
    BY <2>2, <2>4
<1>6. PICK y \in Nat : y = x + b /\ Multiple(y, m)
  <2>1. x \in Int /\ b \in Int /\ Multiple(x, m) /\ Multiple(b, m)
    BY <1>3, <1>5
  <2>2. Multiple(x + b, m)
    BY <2>1, MultipleSum, Zenon
  <2>4. x + b \in Nat
    OBVIOUS
  <2>3. QED
    BY <2>2, <2>4
<1>7. PICK z \in Nat : z = y + dr /\ Multiple(z, m)
  <2>1. y \in Int /\ dr \in Int /\ Multiple(y, m) /\ Multiple(dr, m)
    BY <1>1, <1>6
  <2>2. Multiple(y + dr, m)
    BY <2>1, MultipleSum, Zenon
  <2>4. y + dr \in Nat
    OBVIOUS
  <2>3. QED
    BY <2>2, <2>4
<1>8. RunOf(c, lo, n) = z
  BY <1>1, <1>3, <1>5, <1>6, <1>7 DEF RunOf
<1>9. QED
  BY <1>1, <1>3, <1>5, <1>6, <1>7, <1>8

(* A token's entry is within the sequence's part of the table, and a       *)
(* token's own when the sequence has it.                                   *)
LEMMA EntryIs ==
  ASSUME NEW c \in Calls, c.paged, NEW v \in Nat, c.kv0 <= v
  PROVE  /\ v < c.kv0 + c.skv => page_entry(c, v) = v \div PageRows(c)
         /\ c.skv > 0 => c.table[page_entry(c, v)] \in c.pages
<1>1. c.kv0 \in Nat /\ c.skv \in Nat
  BY CallsAssumption
<1>2. c.pages = {c.table[(c.kv0 + k) \div PageRows(c)] : k \in 0 .. c.skv - 1}
  BY CallsAssumption
<1>3. v < c.kv0 + c.skv => page_entry(c, v) = v \div PageRows(c)
  BY <1>1 DEF page_entry, kv_last, Least
<1>4. ASSUME c.skv > 0 PROVE c.table[page_entry(c, v)] \in c.pages
  <2>1. PICK k \in 0 .. c.skv - 1 : Least(v, kv_last(c)) = c.kv0 + k
    <3>1. PICK l \in Nat : l = Least(v, kv_last(c)) /\ c.kv0 <= l /\ l <= c.kv0 + c.skv - 1
      BY <1>1, <1>4 DEF Least, kv_last
    <3>2. l - c.kv0 \in 0 .. c.skv - 1 /\ l = c.kv0 + (l - c.kv0)
      BY <1>1, <3>1
    <3>3. QED
      BY <3>1, <3>2
  <2>2. QED
    BY <1>2, <2>1 DEF page_entry
<1>5. QED
  BY <1>3, <1>4

(* Its loads bring its own rows.                                           *)
LEMMA PagedRow ==
  ASSUME NEW c \in Calls, c.paged, NEW ring \in {"K", "V"}, NEW lo \in Nat, NEW n \in Nat,
         NEW i \in DmaRows(c), NEW at, at = 0 + i * RowBytes(c, ring),
         NEW rsrc, rsrc = ResourceAt(c, ring, RunOf(c, lo, n))
  PROVE  Brought(rsrc, at) = Own(c, ring, KeyOf(c, lo, n, i))
<1>1. PICK rb \in Nat, d \in Nat \ {0}, kt \in Nat \ {0}, m \in Nat \ {0}, dr \in Nat, pb \in Nat, pr \in Nat \ {0} :
        /\ rb = RowBytes(c, ring) /\ d = DBytes /\ d <= rb /\ kt = KvTile /\ dr = DmaRow0(c)
        /\ m = RowCount(c) /\ m <= kt /\ kt <= RowsCap /\ RowsCap \in Nat
        /\ i \in 0 .. m - 1 /\ c.kv0 \in Nat /\ c.skv \in Nat
        /\ pb = c.page_bytes /\ pr = PageRows(c) /\ Multiple(pr, m)
  <2>1. RowCount(c) \in Nat \ {0} /\ RowCount(c) <= KvTile /\ DmaRow0(c) \in Nat
    BY Counts
  <2>2. /\ c.kv0 \in Nat /\ c.skv \in Nat
        /\ RowBytes(c, ring) \in Nat /\ DBytes <= RowBytes(c, ring)
        /\ c.page_bytes \in Nat /\ PageRows(c) \in Nat \ {0} /\ PageRows(c) % RowCount(c) = 0
    BY CallsAssumption
  <2>3. KvTile \in Nat \ {0} /\ DBytes \in Nat \ {0} /\ RowsCap \in Nat /\ KvTile <= RowsCap
    BY LoadsAssumption, WorkItemsAssumption
  <2>4. Multiple(PageRows(c), RowCount(c))
    BY <2>1, <2>2, MultipleIs
  <2>5. QED
    BY <2>1, <2>2, <2>3, <2>4 DEF DmaRows
<1>2. PICK v \in Nat : v = RunOf(c, lo, n) /\ Multiple(v, m) /\ c.kv0 <= v
  BY <1>1, Runs
<1>3. c.kv0 + KeyOf(c, lo, n, i) = v + i
  <2>1. PICK a \in Int, b \in Int : a = lo * kt /\ b = n * kt /\ (lo + n) * kt = a + b
    OBVIOUS
  <2>2. QED
    BY <1>1, <1>2, <2>1 DEF KeyOf, RunOf
<1>4. KeyOf(c, lo, n, i) \in Int
  BY <1>1 DEF KeyOf
<1>5. PICK left \in Nat : left = Least(Most(c.kv0 + c.skv - v, 0), RowsCap)
  BY <1>1, <1>2 DEF Least, Most
<1>6. KeyOf(c, lo, n, i) < c.skv <=> i < left
  BY <1>1, <1>2, <1>3, <1>4, <1>5 DEF Least, Most
<1>7. at + DBytes <= rsrc.range <=> i < left
  <2>1. rsrc.range = left * rb /\ at = 0 + i * rb
    BY <1>1, <1>2, <1>5 DEF ResourceAt
  <2>2. i * rb + d <= left * rb <=> i < left
    BY <1>1, Spans
  <2>3. PICK a \in Int, b \in Int : a = i * rb /\ b = left * rb
    BY <1>1
  <2>4. QED
    BY <1>1, <2>1, <2>2, <2>3
<1>8. ASSUME KeyOf(c, lo, n, i) < c.skv PROVE rsrc.base + at = RowOf(c, ring, KeyOf(c, lo, n, i))
  <2>1. v < c.kv0 + c.skv /\ c.skv > 0
    BY <1>1, <1>2, <1>3, <1>4, <1>8
  <2>2. PICK e, g \in Nat : e = v \div pr /\ g = c.table[e] /\ page_entry(c, v) = e
    <3>1. page_entry(c, v) = v \div PageRows(c) /\ c.table[page_entry(c, v)] \in c.pages
      BY <1>2, <2>1, EntryIs
    <3>2. c.pages \subseteq Nat
      BY CallsAssumption
    <3>3. QED
      BY <1>1, <3>1, <3>2
  <2>3. PICK x \in Nat : x = v % pr
    <3>1. v \in Int /\ pr \in Nat \ {0}
      BY <1>1
    <3>2. v % pr \in 0 .. pr - 1
      BY <3>1, Quotient, Zenon
    <3>3. PICK z : z = v % pr
      OBVIOUS
    <3>4. z \in 0 .. pr - 1
      BY <3>2, <3>3, Zenon
    <3>5. z \in Nat
      BY <3>1, <3>4
    <3>6. QED
      BY <3>3, <3>5, Zenon
  <2>4. (v + i) \div pr = e /\ (v + i) % pr = x + i
    <3>1. (v + i) \div pr = v \div pr /\ (v + i) % pr = (v % pr) + i
      <4>1. /\ i \in 0 .. m - 1 /\ Multiple(pr, m) /\ Multiple(v, m)
            /\ m \in Nat \ {0} /\ pr \in Nat \ {0} /\ v \in Nat
        BY <1>1, <1>2
      <4>2. QED
        BY <4>1, WithinPage, ZenonT(30)
    <3>2. QED
      BY <2>2, <2>3, <3>1, Zenon
  <2>5. rsrc.base = g * pb + x * rb
    BY <1>1, <1>2, <2>2, <2>3 DEF ResourceAt
  <2>6. RowOf(c, ring, KeyOf(c, lo, n, i)) = g * pb + (x + i) * rb
    BY <1>1, <1>3, <2>2, <2>4 DEF RowOf
  <2>7. PICK a \in Int, b \in Int, y \in Int : a = g * pb /\ b = x * rb /\ y = i * rb /\ (x + i) * rb = b + y
    BY <1>1
  <2>8. QED
    BY <1>1, <2>5, <2>6, <2>7
<1>9. QED
  BY <1>6, <1>7, <1>8 DEF Brought, Own

(* The rings of D128 and MLA, and how far ahead each one's loads run.      *)
LEMMA RingsAre ==
  ASSUME NEW c \in Calls
  PROVE  /\ Rings(c) \subseteq {"K", "V"} /\ PageRing(c) \in Rings(c)
         /\ \A ring \in Rings(c) : Ahead(c, ring) \in 0 .. 2 /\ (c.mla => Ahead(c, ring) = 1)
         /\ c.mla => Rings(c) = {PageRing(c)}
         /\ ~c.mla => Rings(c) = {"K", "V"} /\ PageRing(c) = "K" /\ Ahead(c, "K") = Ahead(c, "V") + 1
BY CallsAssumption DEF Rings, PageRing, Ahead

(* An unpaged load of tile n through a resource built at tile m brings     *)
(* its own rows, once the tiles from m to n fit 32 bits of offset.         *)
LEMMA UnpagedLoad ==
  ASSUME NEW c \in Calls, ~c.paged, NEW ring \in Rings(c), NEW lo \in Nat, NEW m \in Nat, NEW n \in Nat, m <= n,
         (n - m + 1) * TileBytes(c, ring) <= Max32,
         NEW r, r.rsrc[ring] = kv_rsrc(c, lo, ring, m), NEW off, off = (n - m) * TileBytes(c, ring)
  PROVE  OwnRows(c, lo, Load(c, r, ring, n, off))
<1>1. PICK x : x = Load(c, r, ring, n, off)
  OBVIOUS
<1>2. ASSUME NEW i \in DmaRows(c)
      PROVE  x.rows[i] = Own(c, ring, KeyOf(c, lo, n, i))
  <2>1. PICK at, rsrc : at = off + i * RowBytes(c, ring) /\ rsrc = r.rsrc[ring]
    OBVIOUS
  <2>2. x.rows[i] = Brought(rsrc, at)
    BY <1>1, <2>1 DEF Load, Brought
  <2>3. ring \in {"K", "V"}
    BY RingsAre
  <2>4. at = (n - m) * TileBytes(c, ring) + i * RowBytes(c, ring) /\ rsrc = kv_rsrc(c, lo, ring, m)
    BY <2>1
  <2>5. Brought(rsrc, at) = Own(c, ring, KeyOf(c, lo, n, i))
    BY <2>3, <2>4, UnpagedRow
  <2>6. QED
    BY <2>2, <2>5, Zenon
<1>3. x.tile = n /\ x.ring = ring
  BY <1>1 DEF Load
<1>4. QED
  BY <1>1, <1>2, <1>3 DEF OwnRows, KeyOf, Own

(* A paged load through the resource of its own run brings its own rows.   *)
LEMMA PagedLoad ==
  ASSUME NEW c \in Calls, c.paged, NEW ring \in Rings(c), NEW lo \in Nat, NEW n \in Nat,
         NEW r, r.rsrc[ring] = ResourceAt(c, ring, RunOf(c, lo, n))
  PROVE  OwnRows(c, lo, Load(c, r, ring, n, 0))
<1>1. PICK x : x = Load(c, r, ring, n, 0)
  OBVIOUS
<1>2. ASSUME NEW i \in DmaRows(c)
      PROVE  x.rows[i] = Own(c, ring, KeyOf(c, lo, n, i))
  <2>1. PICK at, rsrc : at = 0 + i * RowBytes(c, ring) /\ rsrc = r.rsrc[ring]
    OBVIOUS
  <2>2. x.rows[i] = Brought(rsrc, at)
    BY <1>1, <2>1 DEF Load, Brought
  <2>3. ring \in {"K", "V"}
    BY RingsAre
  <2>4. rsrc = ResourceAt(c, ring, RunOf(c, lo, n))
    BY <2>1
  <2>5. Brought(rsrc, at) = Own(c, ring, KeyOf(c, lo, n, i))
    BY <2>1, <2>3, <2>4, PagedRow
  <2>6. QED
    BY <2>2, <2>5, Zenon
<1>3. x.tile = n /\ x.ring = ring
  BY <1>1 DEF Load
<1>4. QED
  BY <1>1, <1>2, <1>3 DEF OwnRows, KeyOf, Own

-----------------------------------------------------------------------------
(* What a wave's registers hold.                                           *)
IsRegs(c, r) ==
  /\ r = [rsrc |-> r.rsrc, rsrc_t0 |-> r.rsrc_t0, off |-> r.off,
          vk |-> r.vk, page |-> r.page, next_page |-> r.next_page, entry |-> r.entry]
  /\ r.rsrc = [ring \in Rings(c) |-> r.rsrc[ring]]

Reaches(c, lo, r, n) ==
  /\ r.rsrc_t0 \in 0 .. n
  /\ \A ring \in Rings(c) : r.rsrc[ring] = kv_rsrc(c, lo, ring, r.rsrc_t0)
Near(c, r, n) == n - r.rsrc_t0 < rsrc_tiles(c)
Aimed(c, r, n) == \A ring \in Rings(c) : r.off[ring] = (n + Ahead(c, ring) - r.rsrc_t0) * TileBytes(c, ring)

(* A resource's tiles: at least one and some to spare.                     *)
Spare(c, s, tb) ==
  /\ \A ring \in {"K", "V"} : TileBytes(c, ring) \in Nat /\ TileBytes(c, ring) <= tb
  /\ s * tb <= Max32 /\ 3 <= s /\ rsrc_tiles(c) = s - (IF c.mla THEN 1 ELSE 2)

(* rsrc_tiles is two or, of MLA, one short of what 32 bits reach.          *)
LEMMA TilesSpared ==
  ASSUME NEW c \in Calls, ~c.paged
  PROVE  \E s \in Nat, tb \in Nat : Spare(c, s, tb)
<1>1. PICK tk \in Nat \ {0}, tv \in Nat \ {0} :
        tk = TileBytes(c, "K") /\ tv = TileBytes(c, "V") /\ 3 * tk <= Max32 /\ 3 * tv <= Max32 /\ Max32 \in Nat
  <2>1. ASSUME NEW q \in {"K", "V"} PROVE TileBytes(c, q) \in Nat \ {0} /\ 3 * TileBytes(c, q) <= Max32
    <3>1. PICK rb \in Nat, kt \in Nat : rb = RowBytes(c, q) /\ kt = KvTile /\ rb # 0 /\ kt # 0
      BY CallsAssumption, WorkItemsAssumption, LoadsAssumption
    <3>2. kt * rb \in Nat \ {0}
      BY <3>1
    <3>3. QED
      BY <3>1, <3>2, CallsAssumption DEF TileBytes
  <2>2. QED
    BY <2>1, LoadsAssumption
<1>2. PICK tb \in Nat \ {0} : tb = Most(tk, tv) /\ tk <= tb /\ tv <= tb /\ 3 * tb <= Max32
  BY <1>1 DEF Most
<1>3. PICK s \in Nat, d \in Nat : s = Max32 \div tb /\ Max32 = s * tb + d /\ d < tb
  <2>1. Max32 \in Int /\ Max32 \in Nat
    BY <1>1
  <2>2. Max32 \div tb \in Nat /\ Max32 % tb \in 0 .. tb - 1 /\ Max32 = (Max32 \div tb) * tb + (Max32 % tb)
    BY <2>1, Quotient, Zenon
  <2>3. QED
    BY <2>2
<1>4. rsrc_tiles(c) = s - (IF c.mla THEN 1 ELSE 2)
  BY <1>1, <1>2, <1>3 DEF rsrc_tiles
<1>5. 3 <= s
  <2>1. ASSUME s < 3 PROVE FALSE
    <3>1. (s + 1) * tb <= 3 * tb
      BY <2>1, TimesMonotone
    <3>2. (s + 1) * tb = s * tb + tb
      OBVIOUS
    <3>3. PICK a \in Int : a = s * tb
      OBVIOUS
    <3>4. QED
      BY <1>1, <1>2, <1>3, <3>1, <3>2, <3>3
  <2>2. QED
    BY <2>1
<1>6. s * tb <= Max32
  <2>1. PICK a \in Int : a = s * tb
    OBVIOUS
  <2>2. QED
    BY <1>3, <2>1
<1>7. QED
  BY <1>1, <1>2, <1>4, <1>5, <1>6 DEF Spare

(* An offset near enough is no wider than 32 bits, with a tile to spare.   *)
LEMMA TilesReach ==
  ASSUME NEW c \in Calls, ~c.paged, NEW ring \in Rings(c), NEW g \in Nat, g < rsrc_tiles(c)
  PROVE  /\ (g + Ahead(c, ring) + 1) * TileBytes(c, ring) <= Max32
         /\ TileBytes(c, ring) \in Nat
<1>1. PICK s \in Nat, tb \in Nat : Spare(c, s, tb)
  BY TilesSpared
<1>4. rsrc_tiles(c) = s - (IF c.mla THEN 1 ELSE 2)
  BY <1>1 DEF Spare
<1>5. PICK e \in Nat, y \in Nat : e = g + Ahead(c, ring) + 1 /\ e <= s /\ y = TileBytes(c, ring) /\ y <= tb
  <2>1. Ahead(c, ring) \in 0 .. 2 /\ (c.mla => Ahead(c, ring) = 1) /\ ring \in {"K", "V"}
    BY RingsAre
  <2>2. g + Ahead(c, ring) + 1 <= s
    BY <1>4, <2>1
  <2>3. QED
    BY <1>1, <2>1, <2>2 DEF Spare
<1>6. e * y <= s * tb
  <2>1. e * y <= s * y
    BY <1>5, TimesMonotone
  <2>2. y * s <= tb * s
    BY <1>5, TimesMonotone
  <2>3. PICK a \in Int, b \in Int, z \in Int : a = e * y /\ b = s * y /\ z = s * tb /\ b = y * s /\ z = tb * s
    OBVIOUS
  <2>4. QED
    BY <2>1, <2>2, <2>3
<1>7. PICK a \in Int, z \in Int : a = e * y /\ z = s * tb
  OBVIOUS
<1>9. s * tb <= Max32 /\ Max32 \in Nat
  BY <1>1, LoadsAssumption DEF Spare
<1>8. QED
  BY <1>5, <1>6, <1>7, <1>9

(* Unpaged: the loads of a block.                                          *)
LEMMA UnpagedBlock ==
  ASSUME NEW c \in Calls, ~c.paged, NEW lo \in Nat, NEW n \in Nat, NEW r,
         Reaches(c, lo, r, n), Near(c, r, n), Aimed(c, r, n)
  PROVE  \A x \in BlockLoads(c, r, n) : OwnRows(c, lo, x)
<1>1. SUFFICES ASSUME NEW ring \in Rings(c)
               PROVE  OwnRows(c, lo, Load(c, r, ring, n + Ahead(c, ring), r.off[ring]))
  BY DEF BlockLoads
<1>2. PICK m \in Nat, a \in Nat, k \in Nat : m = r.rsrc_t0 /\ m <= n /\ a = Ahead(c, ring) /\ k = n + a
  BY RingsAre DEF Reaches
<1>3. (k - m + 1) * TileBytes(c, ring) <= Max32
  <2>1. PICK g \in Nat : g = n - m /\ g < rsrc_tiles(c)
    BY <1>2 DEF Near
  <2>2. (g + Ahead(c, ring) + 1) * TileBytes(c, ring) <= Max32
    BY <2>1, TilesReach, Zenon
  <2>3. k - m + 1 = g + Ahead(c, ring) + 1
    BY <1>2, <2>1
  <2>4. QED
    BY <2>2, <2>3, Zenon
<1>4. r.off[ring] = (k - m) * TileBytes(c, ring)
  BY <1>2 DEF Aimed
<1>5. r.rsrc[ring] = kv_rsrc(c, lo, ring, m)
  BY <1>2 DEF Reaches
<1>6. m <= k
  BY <1>2
<1>7. QED
  BY <1>2, <1>3, <1>4, <1>5, <1>6, UnpagedLoad, Zenon

(* A softmax's extras move the resources in time.                          *)
LEMMA Moves ==
  ASSUME NEW c \in Calls, ~c.paged, NEW lo \in Nat, NEW n \in Nat, NEW r, IsRegs(c, r), Reaches(c, lo, r, n),
         NEW q, q = move_rsrc(c, lo, r, n)
  PROVE  IsRegs(c, q) /\ Reaches(c, lo, q, n) /\ Near(c, q, n)
<1>1. PICK s \in Nat, tb \in Nat : Spare(c, s, tb)
  BY TilesSpared
<1>2. rsrc_tiles(c) \in Int /\ 0 < rsrc_tiles(c)
  BY <1>1 DEF Spare
<1>3. r.rsrc_t0 \in 0 .. n
  BY DEF Reaches
<1>4. CASE n - r.rsrc_t0 < rsrc_tiles(c)
  BY <1>4 DEF move_rsrc, Near
<1>5. CASE ~(n - r.rsrc_t0 < rsrc_tiles(c))
  <2>1. q = [r EXCEPT !.rsrc_t0 = n, !.rsrc = [ring \in Rings(c) |-> kv_rsrc(c, lo, ring, n)]]
    BY <1>5 DEF move_rsrc
  <2>2. q = [rsrc |-> [ring \in Rings(c) |-> kv_rsrc(c, lo, ring, n)], rsrc_t0 |-> n, off |-> r.off,
             vk |-> r.vk, page |-> r.page, next_page |-> r.next_page, entry |-> r.entry]
    BY <2>1 DEF IsRegs
  <2>3. IsRegs(c, q) /\ q.rsrc_t0 = n /\ \A ring \in Rings(c) : q.rsrc[ring] = kv_rsrc(c, lo, ring, n)
    BY <2>2 DEF IsRegs
  <2>4. QED
    BY <1>2, <2>3 DEF Reaches, Near
<1>6. QED
  BY <1>4, <1>5

(* The offsets of block n.                                                 *)
LEMMA Aims ==
  ASSUME NEW c \in Calls, ~c.paged, NEW lo \in Nat, NEW n \in Nat, NEW r,
         IsRegs(c, r), Reaches(c, lo, r, n), Near(c, r, n), NEW q, q = set_dma(c, r, n)
  PROVE  IsRegs(c, q) /\ Reaches(c, lo, q, n) /\ Near(c, q, n) /\ Aimed(c, q, n) /\ q.rsrc_t0 = r.rsrc_t0
<1>1. q = [rsrc |-> r.rsrc, rsrc_t0 |-> r.rsrc_t0,
           off |-> [ring \in Rings(c) |->
                     ((n - r.rsrc_t0 + Ahead(c, ring)) * TileBytes(c, ring)) % (Max32 + 1)],
           vk |-> r.vk, page |-> r.page, next_page |-> r.next_page, entry |-> r.entry]
  BY DEF set_dma, IsRegs
<1>2. IsRegs(c, q) /\ q.rsrc = r.rsrc /\ q.rsrc_t0 = r.rsrc_t0
  BY <1>1 DEF IsRegs
<1>3. Reaches(c, lo, q, n) /\ Near(c, q, n)
  BY <1>2 DEF Reaches, Near
<1>4. ASSUME NEW ring \in Rings(c)
      PROVE  q.off[ring] = (n + Ahead(c, ring) - q.rsrc_t0) * TileBytes(c, ring)
  <2>1. PICK g \in Nat : g = n - r.rsrc_t0 /\ g < rsrc_tiles(c)
    BY DEF Near, Reaches
  <2>2. PICK a \in Nat : a = Ahead(c, ring)
    BY RingsAre
  <2>3. PICK y \in Nat : y = TileBytes(c, ring) /\ (g + a + 1) * y <= Max32
    BY <2>1, <2>2, TilesReach
  <2>4. PICK x \in Nat : x = (g + a) * y
    BY ProductIsNat
  <2>5. x <= Max32
    <3>1. (g + a) * y <= (g + a + 1) * y
      BY TimesMonotone
    <3>2. PICK z \in Int : z = (g + a + 1) * y
      OBVIOUS
    <3>3. QED
      BY <2>3, <2>4, <3>1, <3>2, LoadsAssumption
  <2>6. x % (Max32 + 1) = x
    <3>1. PICK m \in Nat \ {0} : m = Max32 + 1
      BY LoadsAssumption
    <3>2. PICK z \in Int : z = 0 /\ x = z * m + x
      OBVIOUS
    <3>5. x \in 0 .. m - 1 /\ x \in Int
      BY <2>5, <3>1, LoadsAssumption
    <3>3. x % m = x
      BY <3>2, <3>5, OneQuotient
    <3>4. QED
      BY <3>1, <3>3, Zenon
  <2>7. q.off[ring] = ((n - r.rsrc_t0 + Ahead(c, ring)) * TileBytes(c, ring)) % (Max32 + 1)
    BY <1>1
  <2>8. n + Ahead(c, ring) - q.rsrc_t0 = g + a /\ n - r.rsrc_t0 + Ahead(c, ring) = g + a
    BY <1>2, <2>1, <2>2 DEF Reaches
  <2>9. QED
    BY <2>3, <2>4, <2>6, <2>7, <2>8, Zenon
<1>5. QED
  BY <1>2, <1>3, <1>4 DEF Aimed

-----------------------------------------------------------------------------
(* Paged: the resource of the run of tile n, and the page of a run.        *)
PageAt(c, lo, n) == c.table[page_entry(c, RunOf(c, lo, n))]
Pages(c, lo, r, n) == r.page = PageAt(c, lo, n) /\ r.next_page = PageAt(c, lo, n + 1)

Holding(c, lo, r, n) ==
  /\ r.rsrc_t0 = 0 /\ \A ring \in Rings(c) : r.off[ring] = 0
  /\ r.vk = RunOf(c, lo, n) /\ r.entry = page_entry(c, RunOf(c, lo, n + 2))
  /\ r.rsrc[PageRing(c)] = ResourceAt(c, PageRing(c), RunOf(c, lo, n))

VBehind(c, lo, r, n) == ~c.mla => n \in Nat \ {0} /\ r.rsrc["V"] = ResourceAt(c, "V", RunOf(c, lo, n - 1))

(* The wave's runs are a tile apart.                                       *)
LEMMA RunStep ==
  ASSUME NEW c \in Calls, c.paged, NEW lo \in Nat, NEW n \in Nat
  PROVE  /\ RunOf(c, lo, n) + KvTile = RunOf(c, lo, n + 1)
         /\ RunOf(c, lo, n) + 2 * KvTile = RunOf(c, lo, n + 2)
<1>1. PICK kt \in Nat, dr \in Nat, k0 \in Nat : kt = KvTile /\ dr = DmaRow0(c) /\ k0 = c.kv0
  BY Counts, CallsAssumption, WorkItemsAssumption
<1>2. (n + 1) * kt = n * kt + kt /\ (n + 2) * kt = n * kt + 2 * kt
  OBVIOUS
<1>3. PICK a \in Int, b \in Int : a = lo * kt /\ b = n * kt
  OBVIOUS
<1>4. QED
  BY <1>1, <1>2, <1>3 DEF RunOf

(* D128's K and V pages have one layout: one resource serves both.         *)
LEMMA HeldAlike ==
  ASSUME NEW c \in Calls, c.paged, ~c.mla, NEW v
  PROVE  ResourceAt(c, "K", v) = ResourceAt(c, "V", v)
BY CallsAssumption DEF ResourceAt, RowBytes

(* A resource built for the next run.                                      *)
LEMMA Builds ==
  ASSUME NEW c \in Calls, c.paged, NEW lo \in Nat, NEW n \in Nat, NEW r, IsRegs(c, r),
         r.vk + KvTile = RunOf(c, lo, n), r.page = PageAt(c, lo, n), r.rsrc_t0 = 0,
         \A ring \in Rings(c) : r.off[ring] = 0,
         NEW q, q = page_rsrc(c, r)
  PROVE  /\ IsRegs(c, q) /\ Holding(c, lo, q, n) /\ q.page = r.page /\ q.next_page = r.next_page
         /\ ~c.mla => q.rsrc["V"] = r.rsrc["V"]
<1>1. PICK v : v = RunOf(c, lo, n)
  OBVIOUS
<1>2. ResourceAt(c, PageRing(c), v) =
        [base |-> r.page * c.page_bytes + (v % PageRows(c)) * RowBytes(c, PageRing(c)),
         range |-> Least(Most(c.kv0 + c.skv - v, 0), RowsCap) * RowBytes(c, PageRing(c))]
  BY <1>1 DEF ResourceAt, PageAt
<1>3. v + 2 * KvTile = RunOf(c, lo, n + 2)
  BY <1>1, RunStep
<1>4. q = [r EXCEPT !.vk = v, !.rsrc[PageRing(c)] = ResourceAt(c, PageRing(c), v),
                    !.entry = page_entry(c, v + 2 * KvTile)]
  BY <1>1, <1>2 DEF page_rsrc
<1>5. q = [rsrc |-> [r.rsrc EXCEPT ![PageRing(c)] = ResourceAt(c, PageRing(c), v)], rsrc_t0 |-> r.rsrc_t0,
           off |-> r.off, vk |-> v, page |-> r.page, next_page |-> r.next_page,
           entry |-> page_entry(c, RunOf(c, lo, n + 2))]
  BY <1>3, <1>4 DEF IsRegs
<1>6. PageRing(c) \in Rings(c) /\ (~c.mla => Rings(c) = {"K", "V"} /\ PageRing(c) = "K")
  BY RingsAre
<1>7. /\ q.rsrc = [ring \in Rings(c) |-> q.rsrc[ring]]
      /\ q.rsrc[PageRing(c)] = ResourceAt(c, PageRing(c), v) /\ (~c.mla => q.rsrc["V"] = r.rsrc["V"])
  BY <1>5, <1>6 DEF IsRegs
<1>8. QED
  BY <1>1, <1>5, <1>7 DEF IsRegs, Holding

(* v_rsrc_at_k hands K's resource down to V and changes nothing else.      *)
LEMMA Follows ==
  ASSUME NEW c \in Calls, c.paged, NEW r, IsRegs(c, r), NEW q, q = v_rsrc_at_k(c, r)
  PROVE  /\ IsRegs(c, q) /\ q.rsrc_t0 = r.rsrc_t0 /\ q.off = r.off /\ q.vk = r.vk
         /\ q.page = r.page /\ q.next_page = r.next_page /\ q.entry = r.entry
         /\ q.rsrc[PageRing(c)] = r.rsrc[PageRing(c)]
         /\ ~c.mla => q.rsrc["V"] = r.rsrc["K"]
<1>1. CASE c.mla
  BY <1>1 DEF v_rsrc_at_k
<1>2. CASE ~c.mla
  <2>1. Rings(c) = {"K", "V"} /\ PageRing(c) = "K"
    BY <1>2, RingsAre
  <2>2. q = [rsrc |-> [r.rsrc EXCEPT !["V"] = r.rsrc["K"]], rsrc_t0 |-> r.rsrc_t0, off |-> r.off,
             vk |-> r.vk, page |-> r.page, next_page |-> r.next_page, entry |-> r.entry]
    BY <1>2 DEF v_rsrc_at_k, IsRegs
  <2>3. /\ q.rsrc = [ring \in Rings(c) |-> q.rsrc[ring]]
        /\ q.rsrc["K"] = r.rsrc["K"] /\ q.rsrc["V"] = r.rsrc["K"]
    BY <2>1, <2>2 DEF IsRegs
  <2>4. QED
    BY <2>1, <2>2, <2>3 DEF IsRegs
<1>3. QED
  BY <1>1, <1>2

(* next_rsrc goes from tile n's resource and page n + 1 to tile n + 1's.   *)
LEMMA NextRsrc ==
  ASSUME NEW c \in Calls, c.paged, NEW lo \in Nat, NEW n \in Nat, NEW r, IsRegs(c, r), Holding(c, lo, r, n),
         Pages(c, lo, r, n + 1), NEW q, q = next_rsrc(c, r)
  PROVE  IsRegs(c, q) /\ Holding(c, lo, q, n + 1) /\ VBehind(c, lo, q, n + 1) /\ Pages(c, lo, q, n + 1)
<1>1. PICK s : s = v_rsrc_at_k(c, r)
  OBVIOUS
<1>2. /\ IsRegs(c, s) /\ s.rsrc_t0 = 0 /\ s.off = r.off /\ s.vk = RunOf(c, lo, n) /\ s.page = PageAt(c, lo, n + 1)
      /\ s.next_page = r.next_page /\ (~c.mla => s.rsrc["V"] = r.rsrc["K"])
  BY <1>1, Follows DEF Holding, Pages
<1>3. q = page_rsrc(c, s)
  BY <1>1 DEF next_rsrc
<1>4. s.vk + KvTile = RunOf(c, lo, n + 1) /\ \A ring \in Rings(c) : s.off[ring] = 0
  BY <1>2, RunStep DEF Holding
<1>5. n + 1 \in Nat
  OBVIOUS
<1>6. /\ IsRegs(c, q) /\ Holding(c, lo, q, n + 1) /\ q.page = s.page /\ q.next_page = s.next_page
      /\ ~c.mla => q.rsrc["V"] = s.rsrc["V"]
  BY <1>2, <1>3, <1>4, <1>5, Builds
<1>7. VBehind(c, lo, q, n + 1)
  <2>1. SUFFICES ASSUME ~c.mla PROVE n + 1 \in Nat \ {0} /\ q.rsrc["V"] = ResourceAt(c, "V", RunOf(c, lo, n + 1 - 1))
    BY DEF VBehind
  <2>2. q.rsrc["V"] = ResourceAt(c, "K", RunOf(c, lo, n))
    BY <1>2, <1>6, <2>1, RingsAre DEF Holding
  <2>3. n + 1 - 1 = n /\ n + 1 \in Nat \ {0}
    OBVIOUS
  <2>4. QED
    BY <2>1, <2>2, <2>3, HeldAlike
<1>8. QED
  BY <1>2, <1>6, <1>7 DEF Pages

(* next_page takes the page after, and changes no resource.                *)
LEMMA NextPage ==
  ASSUME NEW c \in Calls, c.paged, NEW lo \in Nat, NEW n \in Nat, NEW r, IsRegs(c, r), Holding(c, lo, r, n),
         Pages(c, lo, r, n), NEW q, q = next_page(c, r)
  PROVE  /\ IsRegs(c, q) /\ Holding(c, lo, q, n) /\ Pages(c, lo, q, n + 1)
         /\ VBehind(c, lo, r, n) => VBehind(c, lo, q, n)
<1>1. q = [rsrc |-> r.rsrc, rsrc_t0 |-> r.rsrc_t0, off |-> r.off, vk |-> r.vk,
           page |-> r.next_page, next_page |-> c.table[r.entry], entry |-> r.entry]
  BY DEF next_page, IsRegs
<1>2. IsRegs(c, q) /\ Holding(c, lo, q, n)
  BY <1>1 DEF IsRegs, Holding
<1>3. n + 1 + 1 = n + 2
  OBVIOUS
<1>4. Pages(c, lo, q, n + 1)
  BY <1>1, <1>3 DEF Pages, Holding, PageAt
<1>5. QED
  BY <1>1, <1>2, <1>4 DEF VBehind

(* Paged: the loads of a block.                                            *)
LEMMA PagedBlock ==
  ASSUME NEW c \in Calls, c.paged, NEW lo \in Nat, NEW t0 \in Nat, NEW r, NEW n, n = t0 + Ahead(c, PageRing(c)),
         Holding(c, lo, r, n), VBehind(c, lo, r, n)
  PROVE  \A x \in BlockLoads(c, r, t0) : OwnRows(c, lo, x)
<1>1. SUFFICES ASSUME NEW ring \in Rings(c)
               PROVE  OwnRows(c, lo, Load(c, r, ring, t0 + Ahead(c, ring), r.off[ring]))
  BY DEF BlockLoads
<1>2. r.off[ring] = 0
  BY DEF Holding
<1>3. PICK k \in Nat : k = t0 + Ahead(c, ring)
  BY RingsAre
<1>4. r.rsrc[ring] = ResourceAt(c, ring, RunOf(c, lo, k))
  <2>1. CASE ring = PageRing(c)
    BY <1>3, <2>1 DEF Holding
  <2>2. CASE ring # PageRing(c)
    <3>1. ~c.mla /\ ring = "V" /\ k = n - 1
      <4>1. ~c.mla /\ ring = "V"
        BY <2>2, RingsAre
      <4>2. PICK a \in Nat : Ahead(c, "V") = a /\ Ahead(c, PageRing(c)) = a + 1
        BY <4>1, RingsAre
      <4>3. QED
        BY <1>3, <4>1, <4>2
    <3>2. QED
      BY <3>1 DEF VBehind
  <2>3. QED
    BY <2>1, <2>2
<1>5. QED
  BY <1>2, <1>3, <1>4, PagedLoad

-----------------------------------------------------------------------------
(* The prologue.                                                           *)
LEMMA FirstRegs ==
  ASSUME NEW c \in Calls, NEW lo \in Nat, NEW r, r = Registers(c, lo)
  PROVE  /\ IsRegs(c, r) /\ r.rsrc_t0 = 0 /\ \A ring \in Rings(c) : r.off[ring] = 0
         /\ \A ring \in Rings(c) : r.rsrc[ring] = kv_rsrc(c, lo, ring, 0)
         /\ c.paged => /\ r.vk + KvTile = RunOf(c, lo, 0) /\ r.vk + 2 * KvTile = RunOf(c, lo, 1)
                       /\ r.vk + 3 * KvTile = RunOf(c, lo, 2) /\ r.vk + 4 * KvTile = RunOf(c, lo, 3)
                       /\ r.vk + 5 * KvTile = RunOf(c, lo, 4)
<1>1. /\ IsRegs(c, r) /\ r.rsrc_t0 = 0 /\ \A ring \in Rings(c) : r.off[ring] = 0
      /\ \A ring \in Rings(c) : r.rsrc[ring] = kv_rsrc(c, lo, ring, 0)
  BY DEF Registers, IsRegs
<1>2. PICK kt \in Nat, dr \in Nat, k0 \in Nat : kt = KvTile /\ dr = DmaRow0(c) /\ k0 = c.kv0
  BY Counts, CallsAssumption, WorkItemsAssumption
<1>3. PICK a \in Int : a = lo * kt
  OBVIOUS
<1>4. r.vk = k0 + a + dr - kt
  BY <1>2, <1>3 DEF Registers, kv_row0
<1>5. /\ RunOf(c, lo, 0) = k0 + a + 0 * kt + dr /\ RunOf(c, lo, 1) = k0 + a + 1 * kt + dr
      /\ RunOf(c, lo, 2) = k0 + a + 2 * kt + dr /\ RunOf(c, lo, 3) = k0 + a + 3 * kt + dr
      /\ RunOf(c, lo, 4) = k0 + a + 4 * kt + dr
  BY <1>2, <1>3 DEF RunOf
<1>6. QED
  BY <1>1, <1>2, <1>4, <1>5

(* Block 0's registers: unpaged, offsets are still to be set.              *)
Ready(c, lo, r) ==
  IF ~c.paged THEN IsRegs(c, r) /\ Reaches(c, lo, r, 0) /\ Near(c, r, 0)
  ELSE LET n == Ahead(c, PageRing(c)) IN
       IsRegs(c, r) /\ Holding(c, lo, r, n) /\ VBehind(c, lo, r, n) /\ Pages(c, lo, r, n + 1)
AllOwn(c, lo, loads) == \A x \in loads : OwnRows(c, lo, x)

(* The unpaged prologue builds resources at tile 0; its loads bring their  *)
(* own rows.                                                               *)
LEMMA UnpagedStarts ==
  ASSUME NEW c \in Calls, ~c.paged, NEW lo \in Nat, NEW p, p = prologue(c, lo)
  PROVE  Ready(c, lo, p.regs) /\ AllOwn(c, lo, p.loads)
<1>1. PICK r : r = Registers(c, lo)
  OBVIOUS
<1>2. p.regs = r /\ p.loads = {Load(c, r, ring, 0, 0) : ring \in Rings(c)}
               \cup IF c.mla \/ GroupA(c) THEN {} ELSE {Load(c, r, "K", 1, TileBytes(c, "K"))}
  BY <1>1 DEF prologue, UnpagedPrologue
<1>3. PICK s \in Nat, tb \in Nat : Spare(c, s, tb)
  BY TilesSpared
<1>4. 0 \in Nat /\ 0 < rsrc_tiles(c)
  BY <1>3 DEF Spare
<1>5. Ready(c, lo, r)
  BY <1>1, <1>4, FirstRegs DEF Ready, Reaches, Near
<1>6. ASSUME NEW ring \in Rings(c) PROVE OwnRows(c, lo, Load(c, r, ring, 0, 0))
  <2>1. PICK y \in Nat : y = TileBytes(c, ring) /\ (0 + Ahead(c, ring) + 1) * y <= Max32
    BY <1>4, TilesReach
  <2>2. PICK a \in Nat : a = Ahead(c, ring)
    BY RingsAre
  <2>3. (0 - 0 + 1) * TileBytes(c, ring) <= Max32 /\ 0 = (0 - 0) * TileBytes(c, ring)
    <3>1. 1 * y <= (0 + a + 1) * y
      BY TimesMonotone
    <3>2. PICK z \in Int : z = (0 + a + 1) * y
      OBVIOUS
    <3>3. QED
      BY <2>1, <2>2, <3>1, <3>2, LoadsAssumption
  <2>4. r.rsrc[ring] = kv_rsrc(c, lo, ring, 0)
    BY <1>1, FirstRegs
  <2>5. QED
    BY <1>4, <2>3, <2>4, UnpagedLoad
<1>7. ASSUME ~c.mla, ~GroupA(c) PROVE OwnRows(c, lo, Load(c, r, "K", 1, TileBytes(c, "K")))
  <2>1. "K" \in Rings(c) /\ Ahead(c, "K") = 2
    BY <1>7 DEF Rings, Ahead
  <2>2. PICK y \in Nat : y = TileBytes(c, "K") /\ (0 + Ahead(c, "K") + 1) * y <= Max32
    BY <1>4, <2>1, TilesReach
  <2>3. (1 - 0 + 1) * TileBytes(c, "K") <= Max32 /\ TileBytes(c, "K") = (1 - 0) * TileBytes(c, "K")
    BY <2>1, <2>2, LoadsAssumption
  <2>4. r.rsrc["K"] = kv_rsrc(c, lo, "K", 0)
    BY <1>1, <2>1, FirstRegs
  <2>5. 1 \in Nat /\ 0 <= 1
    OBVIOUS
  <2>6. QED
    BY <1>4, <2>1, <2>3, <2>4, <2>5, UnpagedLoad
<1>8. QED
  BY <1>2, <1>5, <1>6, <1>7 DEF AllOwn

(* rsrc_at builds a run's resource from its page.                          *)
LEMMA BuildsAt ==
  ASSUME NEW c \in Calls, c.paged, NEW lo \in Nat, NEW n \in Nat, NEW r, IsRegs(c, r),
         r.vk + KvTile = RunOf(c, lo, n), r.rsrc_t0 = 0, \A ring \in Rings(c) : r.off[ring] = 0,
         NEW page, page = PageAt(c, lo, n), NEW q, q = rsrc_at(c, r, page)
  PROVE  /\ IsRegs(c, q) /\ Holding(c, lo, q, n) /\ q.page = page /\ q.next_page = r.next_page
         /\ ~c.mla => q.rsrc["V"] = r.rsrc["V"]
<1>1. PICK s : s = [r EXCEPT !.page = page]
  OBVIOUS
<1>2. s = [rsrc |-> r.rsrc, rsrc_t0 |-> r.rsrc_t0, off |-> r.off, vk |-> r.vk, page |-> page,
           next_page |-> r.next_page, entry |-> r.entry]
  BY <1>1 DEF IsRegs
<1>3. /\ IsRegs(c, s) /\ s.vk + KvTile = RunOf(c, lo, n) /\ s.page = PageAt(c, lo, n) /\ s.rsrc_t0 = 0
      /\ \A ring \in Rings(c) : s.off[ring] = 0
  BY <1>2 DEF IsRegs
<1>4. q = page_rsrc(c, s)
  BY <1>1 DEF rsrc_at
<1>5. QED
  BY <1>2, <1>3, <1>4, Builds

(* MLA's paged prologue: tile 0's load, and the resource and pages of      *)
(* tile 1.                                                                 *)
LEMMA MlaPagedStarts ==
  ASSUME NEW c \in Calls, c.paged, c.mla, NEW lo \in Nat, NEW p, p = prologue(c, lo)
  PROVE  Ready(c, lo, p.regs) /\ AllOwn(c, lo, p.loads)
<1>1. PICK r : r = Registers(c, lo)
  OBVIOUS
<1>2. PICK tile0 : tile0 = rsrc_at(c, r, PageAt(c, lo, 0))
  OBVIOUS
<1>3. /\ IsRegs(c, r) /\ r.rsrc_t0 = 0 /\ \A ring \in Rings(c) : r.off[ring] = 0
      /\ r.vk + KvTile = RunOf(c, lo, 0) /\ r.vk + 2 * KvTile = RunOf(c, lo, 1)
  BY <1>1, FirstRegs
<1>4. 0 \in Nat /\ 1 \in Nat /\ 0 + 1 = 1 /\ 0 + 2 = 2 /\ 1 + 1 = 2
  OBVIOUS
<1>5. IsRegs(c, tile0) /\ Holding(c, lo, tile0, 0)
  BY <1>2, <1>3, <1>4, BuildsAt
<1>6. tile0.vk = RunOf(c, lo, 0) /\ tile0.vk + KvTile = RunOf(c, lo, 1) /\ tile0.vk + 2 * KvTile = RunOf(c, lo, 2)
  BY <1>4, <1>5, RunStep DEF Holding
<1>7. PICK s : s = [tile0 EXCEPT !.next_page = PageAt(c, lo, 2)]
  OBVIOUS
<1>8. s = [rsrc |-> tile0.rsrc, rsrc_t0 |-> tile0.rsrc_t0, off |-> tile0.off, vk |-> tile0.vk,
           page |-> tile0.page, next_page |-> PageAt(c, lo, 2), entry |-> tile0.entry]
  BY <1>5, <1>7 DEF IsRegs
<1>9. /\ IsRegs(c, s) /\ s.rsrc_t0 = 0 /\ \A ring \in Rings(c) : s.off[ring] = 0
      /\ s.vk + KvTile = RunOf(c, lo, 1) /\ s.next_page = PageAt(c, lo, 2)
  BY <1>5, <1>6, <1>8 DEF IsRegs, Holding
<1>10. PICK block0 : block0 = rsrc_at(c, s, PageAt(c, lo, 1))
  OBVIOUS
<1>11. IsRegs(c, block0) /\ Holding(c, lo, block0, 1) /\ Pages(c, lo, block0, 1)
  BY <1>4, <1>9, <1>10, BuildsAt DEF Pages
<1>12. PageAt(c, lo, 0) = c.table[page_entry(c, r.vk + KvTile)]
       /\ PageAt(c, lo, 1) = c.table[page_entry(c, r.vk + 2 * KvTile)]
       /\ PageAt(c, lo, 2) = c.table[page_entry(c, tile0.vk + 2 * KvTile)]
  BY <1>3, <1>6 DEF PageAt
<1>13. p.regs = next_page(c, block0) /\ p.loads = {Load(c, tile0, PageRing(c), 0, 0)}
  BY <1>1, <1>2, <1>7, <1>10, <1>12 DEF prologue, MlaPagedPrologue
<1>14. /\ IsRegs(c, p.regs) /\ Holding(c, lo, p.regs, 1) /\ Pages(c, lo, p.regs, 1 + 1)
  BY <1>4, <1>11, <1>13, NextPage
<1>15. Ahead(c, PageRing(c)) = 1 /\ PageRing(c) \in Rings(c)
  BY RingsAre
<1>16. Ready(c, lo, p.regs)
  BY <1>14, <1>15 DEF Ready, VBehind
<1>17. tile0.rsrc[PageRing(c)] = ResourceAt(c, PageRing(c), RunOf(c, lo, 0))
  BY <1>5 DEF Holding
<1>18. OwnRows(c, lo, Load(c, tile0, PageRing(c), 0, 0))
  BY <1>4, <1>15, <1>17, PagedLoad
<1>19. QED
  BY <1>13, <1>16, <1>18 DEF AllOwn

(* D128's paged prologue, group A's and B's: K loads ahead of V, whose     *)
(* resource is the K one of the tile before.                               *)
LEMMA D128PagedStarts ==
  ASSUME NEW c \in Calls, c.paged, ~c.mla, NEW lo \in Nat, NEW p, p = prologue(c, lo)
  PROVE  Ready(c, lo, p.regs) /\ AllOwn(c, lo, p.loads)
<1>1. PICK r : r = Registers(c, lo)
  OBVIOUS
<1>2. /\ IsRegs(c, r) /\ r.rsrc_t0 = 0 /\ \A ring \in Rings(c) : r.off[ring] = 0
      /\ r.vk + KvTile = RunOf(c, lo, 0) /\ r.vk + 2 * KvTile = RunOf(c, lo, 1)
      /\ r.vk + 3 * KvTile = RunOf(c, lo, 2) /\ r.vk + 4 * KvTile = RunOf(c, lo, 3)
      /\ r.vk + 5 * KvTile = RunOf(c, lo, 4)
  BY <1>1, FirstRegs
<1>3. /\ 0 \in Nat /\ 1 \in Nat /\ 2 \in Nat /\ 0 + 1 = 1 /\ 1 + 1 = 2 /\ 2 + 1 = 3 /\ 2 + 2 = 4 /\ 3 + 1 = 4 /\ 4 + 1 = 5
      /\ 1 - 1 = 0 /\ 2 - 1 = 1
  OBVIOUS
<1>4. Rings(c) = {"K", "V"} /\ PageRing(c) = "K" /\ Ahead(c, "K") = IF GroupA(c) THEN 1 ELSE 2
  BY RingsAre DEF Ahead
<1>5. PICK x : x = rsrc_at(c, r, PageAt(c, lo, 0))
  OBVIOUS
<1>6. PICK tile0 : tile0 = v_rsrc_at_k(c, x)
  OBVIOUS
<1>7. IsRegs(c, x) /\ Holding(c, lo, x, 0)
  BY <1>2, <1>3, <1>5, BuildsAt
<1>8. /\ IsRegs(c, tile0) /\ tile0.rsrc_t0 = 0 /\ \A ring \in Rings(c) : tile0.off[ring] = 0
      /\ tile0.vk = RunOf(c, lo, 0)
      /\ tile0.rsrc["K"] = ResourceAt(c, "K", RunOf(c, lo, 0)) /\ tile0.rsrc["V"] = ResourceAt(c, "V", RunOf(c, lo, 0))
  BY <1>4, <1>6, <1>7, Follows, HeldAlike DEF Holding
<1>9. PICK tile1 : tile1 = IF GroupA(c) THEN tile0 ELSE rsrc_at(c, tile0, PageAt(c, lo, 1))
  OBVIOUS
<1>10. /\ IsRegs(c, tile1) /\ tile1.rsrc_t0 = 0 /\ \A ring \in Rings(c) : tile1.off[ring] = 0
       /\ GroupA(c) => tile1.rsrc["K"] = ResourceAt(c, "K", RunOf(c, lo, 0))
       /\ ~GroupA(c) => tile1.rsrc["K"] = ResourceAt(c, "K", RunOf(c, lo, 1))
  <2>1. CASE GroupA(c)
    BY <1>8, <1>9, <2>1
  <2>2. CASE ~GroupA(c)
    <3>1. tile0.vk + KvTile = RunOf(c, lo, 1)
      BY <1>3, <1>8, RunStep
    <3>2. IsRegs(c, tile1) /\ Holding(c, lo, tile1, 1)
      BY <1>3, <1>8, <1>9, <2>2, <3>1, BuildsAt
    <3>3. QED
      BY <1>4, <2>2, <3>2 DEF Holding
  <2>3. QED
    BY <2>1, <2>2
<1>11. PICK n \in {1, 2} : n = Ahead(c, "K")
  BY <1>4
<1>12. PICK y : y = v_rsrc_at_k(c, tile1)
  OBVIOUS
<1>13. /\ IsRegs(c, y) /\ y.rsrc_t0 = 0 /\ \A ring \in Rings(c) : y.off[ring] = 0
       /\ y.rsrc["V"] = ResourceAt(c, "V", RunOf(c, lo, n - 1))
  <2>1. /\ IsRegs(c, y) /\ y.rsrc_t0 = 0 /\ y.off = tile1.off /\ y.rsrc["V"] = tile1.rsrc["K"]
    BY <1>10, <1>12, Follows
  <2>2. tile1.rsrc["K"] = ResourceAt(c, "K", RunOf(c, lo, n - 1))
    BY <1>3, <1>4, <1>10, <1>11
  <2>3. QED
    BY <1>10, <2>1, <2>2, HeldAlike
<1>14. PICK z : z = [y EXCEPT !.vk = r.vk + n * KvTile]
  OBVIOUS
<1>15. z = [rsrc |-> y.rsrc, rsrc_t0 |-> y.rsrc_t0, off |-> y.off, vk |-> r.vk + n * KvTile, page |-> y.page,
            next_page |-> y.next_page, entry |-> y.entry]
  BY <1>13, <1>14 DEF IsRegs
<1>16. r.vk \in Int /\ KvTile \in Int
  BY <1>1, Counts, CallsAssumption, WorkItemsAssumption DEF Registers, kv_row0
<1>17. /\ r.vk + n * KvTile + KvTile = RunOf(c, lo, n)
       /\ PageAt(c, lo, n) = c.table[page_entry(c, r.vk + (n + 1) * KvTile)]
       /\ PageAt(c, lo, n + 1) = c.table[page_entry(c, r.vk + ((n + 1) + 1) * KvTile)]
       /\ PageAt(c, lo, n + 2) = c.table[page_entry(c, r.vk + ((n + 2) + 1) * KvTile)]
  <2>1. CASE n = 1
    BY <1>2, <1>16, <2>1 DEF PageAt
  <2>2. CASE n = 2
    BY <1>2, <1>16, <2>2 DEF PageAt
  <2>3. QED
    BY <2>1, <2>2
<1>18. /\ IsRegs(c, z) /\ z.rsrc_t0 = 0 /\ \A ring \in Rings(c) : z.off[ring] = 0
       /\ z.vk + KvTile = RunOf(c, lo, n) /\ z.rsrc["V"] = ResourceAt(c, "V", RunOf(c, lo, n - 1))
  BY <1>13, <1>15, <1>17 DEF IsRegs
<1>19. PICK block0 : block0 = rsrc_at(c, z, PageAt(c, lo, n))
  OBVIOUS
<1>20. IsRegs(c, block0) /\ Holding(c, lo, block0, n) /\ VBehind(c, lo, block0, n)
  BY <1>18, <1>19, BuildsAt DEF VBehind
<1>21. PICK q : q = [block0 EXCEPT !.page = PageAt(c, lo, n + 1), !.next_page = PageAt(c, lo, n + 2)]
  OBVIOUS
<1>22. q = [rsrc |-> block0.rsrc, rsrc_t0 |-> block0.rsrc_t0, off |-> block0.off, vk |-> block0.vk,
            page |-> PageAt(c, lo, n + 1), next_page |-> PageAt(c, lo, n + 2), entry |-> block0.entry]
  BY <1>20, <1>21 DEF IsRegs
<1>23. IsRegs(c, q) /\ Holding(c, lo, q, n) /\ VBehind(c, lo, q, n)
  BY <1>20, <1>22 DEF IsRegs, Holding, VBehind
<1>24. n + 1 + 1 = n + 2
  BY <1>11
<1>25. Ready(c, lo, q)
  BY <1>4, <1>11, <1>22, <1>23, <1>24 DEF Ready, Pages
<1>26. /\ PageAt(c, lo, 0) = c.table[page_entry(c, r.vk + (0 + 1) * KvTile)]
       /\ PageAt(c, lo, 1) = c.table[page_entry(c, r.vk + (1 + 1) * KvTile)]
  BY <1>2, <1>16 DEF PageAt
<1>27. /\ p.regs = q
       /\ p.loads = {Load(c, tile0, ring, 0, 0) : ring \in Rings(c)}
                      \cup IF GroupA(c) THEN {} ELSE {Load(c, tile1, "K", 1, 0)}
  BY <1>1, <1>5, <1>6, <1>9, <1>11, <1>12, <1>14, <1>17, <1>19, <1>21, <1>26 DEF prologue, PagedPrologue
<1>28. ASSUME NEW ring \in Rings(c) PROVE OwnRows(c, lo, Load(c, tile0, ring, 0, 0))
  <2>1. tile0.rsrc[ring] = ResourceAt(c, ring, RunOf(c, lo, 0))
    BY <1>4, <1>8
  <2>2. QED
    BY <1>3, <2>1, PagedLoad
<1>29. ASSUME ~GroupA(c) PROVE OwnRows(c, lo, Load(c, tile1, "K", 1, 0))
  BY <1>3, <1>4, <1>10, <1>29, PagedLoad
<1>30. QED
  BY <1>25, <1>27, <1>28, <1>29 DEF AllOwn

(* Every prologue leaves what block 0 needs.                               *)
LEMMA PrologueStarts ==
  ASSUME NEW c \in Calls, NEW lo \in Nat, NEW p, p = prologue(c, lo)
  PROVE  Ready(c, lo, p.regs) /\ AllOwn(c, lo, p.loads)
BY UnpagedStarts, MlaPagedStarts, D128PagedStarts

-----------------------------------------------------------------------------
(* A wave's way through its tiles.  Unpaged, the next rare tile comes      *)
(* before the offsets would reach their last tile.                         *)
Warned(c, r, n, next) == next <= n \/ next < r.rsrc_t0 + rsrc_tiles(c)

UnpagedAt(c, lo, r, place, n, next) ==
  /\ IsRegs(c, r) /\ Reaches(c, lo, r, n)
  /\ place \in {"block", "softmax"} => Near(c, r, n) /\ Warned(c, r, n, next)
  /\ place = "block" => Aimed(c, r, n)

PagedAt(c, lo, r, place, n) ==
  LET a == Ahead(c, PageRing(c))
      held == IF place = "softmax" THEN n + a + 1 ELSE n + a
  IN /\ IsRegs(c, r) /\ Holding(c, lo, r, held) /\ VBehind(c, lo, r, held)
     /\ Pages(c, lo, r, IF place = "block" THEN held + 1 ELSE held)

RegsAt(c, lo, r, place, n, next) ==
  /\ ~c.paged => UnpagedAt(c, lo, r, place, n, next)
  /\ c.paged => PagedAt(c, lo, r, place, n)

(* The pages run ahead by as much as the ring they are of.                 *)
LEMMA AheadIs ==
  ASSUME NEW c \in Calls, NEW n \in Nat
  PROVE  \E a \in Nat : a = Ahead(c, PageRing(c)) /\ n + a \in Nat /\ n + a + 1 \in Nat
BY RingsAre

(* A resource's tiles, counted.                                            *)
LEMMA TilesInt ==
  ASSUME NEW c \in Calls
  PROVE  rsrc_tiles(c) \in Int
BY TilesSpared, NeverMoves \in Int DEF rsrc_tiles, Spare, NeverMoves

(* After the prologue and its set_dma a wave is at block 0.                *)
LEMMA PrologueAt ==
  ASSUME NEW c \in Calls, NEW lo \in Nat, NEW q, q = set_dma(c, prologue(c, lo).regs, 0)
  PROVE  RegsAt(c, lo, q, "block", 0, 0) /\ AllOwn(c, lo, prologue(c, lo).loads)
<1>1. PICK r : r = prologue(c, lo).regs
  OBVIOUS
<1>2. Ready(c, lo, r) /\ AllOwn(c, lo, prologue(c, lo).loads)
  BY <1>1, PrologueStarts
<1>3. 0 \in Nat
  OBVIOUS
<1>4. CASE ~c.paged
  <2>1. IsRegs(c, r) /\ Reaches(c, lo, r, 0) /\ Near(c, r, 0)
    BY <1>2, <1>4 DEF Ready
  <2>2. IsRegs(c, q) /\ Reaches(c, lo, q, 0) /\ Near(c, q, 0) /\ Aimed(c, q, 0)
    BY <1>1, <1>3, <1>4, <2>1, Aims
  <2>3. QED
    BY <1>2, <1>4, <2>2 DEF RegsAt, UnpagedAt, Warned
<1>5. CASE c.paged
  <2>1. q = r
    BY <1>1, <1>5 DEF set_dma
  <2>2. PICK a \in Nat : a = Ahead(c, PageRing(c)) /\ 0 + a = a
    BY RingsAre
  <2>3. QED
    BY <1>2, <1>5, <2>1, <2>2 DEF Ready, RegsAt, PagedAt
<1>6. QED
  BY <1>4, <1>5

(* A block's loads bring their own rows, and leave the registers of its    *)
(* softmax, or of the tail.                                                *)
LEMMA BlockAt ==
  ASSUME NEW c \in Calls, NEW lo \in Nat, NEW n \in Nat, NEW r, NEW next, RegsAt(c, lo, r, "block", n, next),
         NEW q, q = next_rsrc(c, r)
  PROVE  /\ RegsAt(c, lo, q, "softmax", n, next) /\ RegsAt(c, lo, q, "tail", n + 1, next)
         /\ AllOwn(c, lo, BlockLoads(c, r, n))
<1>1. CASE ~c.paged
  <2>1. IsRegs(c, r) /\ Reaches(c, lo, r, n) /\ Near(c, r, n) /\ Aimed(c, r, n) /\ Warned(c, r, n, next) /\ q = r
    BY <1>1 DEF RegsAt, UnpagedAt, next_rsrc
  <2>2. Reaches(c, lo, q, n + 1)
    BY <2>1 DEF Reaches
  <2>3. QED
    BY <1>1, <2>1, <2>2, UnpagedBlock DEF RegsAt, UnpagedAt, AllOwn
<1>2. CASE c.paged
  <2>1. PICK a \in Nat : a = Ahead(c, PageRing(c)) /\ n + a \in Nat /\ n + a + 1 \in Nat
    BY AheadIs
  <2>2. PICK k \in Nat : k = n + a /\ n + 1 + a = k + 1
    BY <2>1
  <2>3. IsRegs(c, r) /\ Holding(c, lo, r, k) /\ VBehind(c, lo, r, k) /\ Pages(c, lo, r, k + 1)
    BY <1>2, <2>1, <2>2 DEF RegsAt, PagedAt
  <2>4. IsRegs(c, q) /\ Holding(c, lo, q, k + 1) /\ VBehind(c, lo, q, k + 1) /\ Pages(c, lo, q, k + 1)
    BY <1>2, <2>3, NextRsrc
  <2>5. AllOwn(c, lo, BlockLoads(c, r, n))
    BY <1>2, <2>1, <2>2, <2>3, PagedBlock DEF AllOwn
  <2>6. QED
    BY <1>2, <2>1, <2>2, <2>4, <2>5 DEF RegsAt, PagedAt
<1>3. QED
  BY <1>1, <1>2

(* The registers of block n, set up at a softmax or by a block alone.      *)
LEMMA SetUpUnpaged ==
  ASSUME NEW c \in Calls, ~c.paged, NEW lo \in Nat, NEW n \in Nat, NEW r, IsRegs(c, r), Reaches(c, lo, r, n),
         NEW x, x = move_rsrc(c, lo, r, n) \/ (x = r /\ Near(c, r, n)), NEW q, q = set_dma(c, x, n)
  PROVE  /\ IsRegs(c, q) /\ Reaches(c, lo, q, n) /\ Near(c, q, n) /\ Aimed(c, q, n)
         /\ q.rsrc_t0 = x.rsrc_t0 /\ x.rsrc_t0 \in 0 .. n
<1>1. IsRegs(c, x) /\ Reaches(c, lo, x, n) /\ Near(c, x, n)
  BY Moves
<1>2. IsRegs(c, q) /\ Reaches(c, lo, q, n) /\ Near(c, q, n) /\ Aimed(c, q, n) /\ q.rsrc_t0 = x.rsrc_t0
  BY <1>1, Aims
<1>3. QED
  BY <1>1, <1>2 DEF Reaches

(* Paged, no resource is moved and no offset set: pages move instead.      *)
LEMMA SetUpPaged ==
  ASSUME NEW c \in Calls, c.paged, NEW lo \in Nat, NEW n \in Nat, n < NeverMoves, NEW r, r.rsrc_t0 = 0,
         NEW x, x = move_rsrc(c, lo, r, n) \/ x = r
  PROVE  set_dma(c, x, n) = r /\ x = r
<1>1. n - 0 < rsrc_tiles(c)
  BY DEF rsrc_tiles
<1>2. x = r
  BY <1>1 DEF move_rsrc
<1>3. QED
  BY <1>2 DEF set_dma

(* A softmax, rare or not, leaves the registers of the next block: no      *)
(* resource passes its last tile between two rare ones.                    *)
LEMMA SoftmaxAt ==
  ASSUME NEW c \in Calls, NEW lo \in Nat, NEW n \in Nat, n + 1 < NeverMoves \/ ~c.paged, NEW r, NEW next \in Int,
         NEW u \in Int, RegsAt(c, lo, r, "softmax", n, next), NEW x, NEW q, NEW later,
         x = IF n >= next THEN move_rsrc(c, lo, next_page(c, r), n + 1) ELSE next_page(c, r),
         q = set_dma(c, x, n + 1),
         later = IF n >= next THEN Most(n + 1, Least(u, x.rsrc_t0 + rsrc_tiles(c) - 1)) ELSE next
  PROVE  RegsAt(c, lo, q, "block", n + 1, later) /\ later \in Int
<1>1. PICK m \in Nat : m = n + 1
  OBVIOUS
<1>2. PICK tiles \in Int : tiles = rsrc_tiles(c)
  BY TilesInt
<1>3. CASE ~c.paged
  <2>1. next_page(c, r) = r
    BY <1>3 DEF next_page
  <2>2. IsRegs(c, r) /\ Reaches(c, lo, r, n) /\ Near(c, r, n) /\ Warned(c, r, n, next)
    BY <1>3 DEF RegsAt, UnpagedAt
  <2>3. r.rsrc_t0 \in 0 .. n
    BY <2>2 DEF Reaches
  <2>4. Reaches(c, lo, r, m)
    BY <1>1, <2>2, <2>3 DEF Reaches
  <2>5. n < next => Near(c, r, m)
    BY <1>1, <1>2, <2>2, <2>3 DEF Near, Warned
  <2>6. (n >= next => x = move_rsrc(c, lo, r, m)) /\ (n < next => x = r) /\ q = set_dma(c, x, m)
    BY <1>1, <2>1
  <2>7. /\ IsRegs(c, q) /\ Reaches(c, lo, q, m) /\ Near(c, q, m) /\ Aimed(c, q, m)
        /\ q.rsrc_t0 = x.rsrc_t0 /\ x.rsrc_t0 \in 0 .. m
    <3>1. x = move_rsrc(c, lo, r, m) \/ (x = r /\ Near(c, r, m))
      BY <2>5, <2>6
    <3>2. QED
      BY <1>3, <2>2, <2>4, <2>6, <3>1, SetUpUnpaged
  <2>8. later \in Int /\ Warned(c, q, m, later)
    <3>1. PICK t0 \in Int : t0 = x.rsrc_t0 /\ q.rsrc_t0 = t0
      BY <2>7
    <3>2. CASE n >= next
      <4>1. later = Most(m, Least(u, t0 + tiles - 1))
        BY <1>1, <1>2, <3>1, <3>2
      <4>2. later \in Int /\ (later <= m \/ later < t0 + tiles)
        BY <4>1 DEF Most, Least
      <4>3. QED
        BY <1>2, <3>1, <4>2 DEF Warned
    <3>3. CASE n < next
      <4>1. later = next /\ x = r
        BY <2>6, <3>3
      <4>2. next < t0 + tiles
        BY <1>2, <2>2, <3>1, <3>3, <4>1 DEF Warned
      <4>3. QED
        BY <1>2, <3>1, <4>1, <4>2 DEF Warned
    <3>4. QED
      BY <3>2, <3>3
  <2>9. QED
    BY <1>1, <1>3, <2>7, <2>8 DEF RegsAt, UnpagedAt
<1>4. CASE c.paged
  <2>1. PICK a \in Nat : a = Ahead(c, PageRing(c)) /\ n + a \in Nat /\ n + a + 1 \in Nat
    BY AheadIs
  <2>2. PICK k \in Nat : k = n + a + 1 /\ n + 1 + a = k
    BY <2>1
  <2>3. IsRegs(c, r) /\ Holding(c, lo, r, k) /\ VBehind(c, lo, r, k) /\ Pages(c, lo, r, k)
    BY <1>4, <2>1, <2>2 DEF RegsAt, PagedAt
  <2>4. PICK y : y = next_page(c, r)
    OBVIOUS
  <2>5. IsRegs(c, y) /\ Holding(c, lo, y, k) /\ VBehind(c, lo, y, k) /\ Pages(c, lo, y, k + 1)
    BY <1>4, <2>3, <2>4, NextPage
  <2>6. q = y /\ x = y
    <3>1. /\ y.rsrc_t0 = 0 /\ m < NeverMoves /\ (x = move_rsrc(c, lo, y, m) \/ x = y)
          /\ q = set_dma(c, x, m)
      BY <1>1, <1>4, <2>4, <2>5 DEF Holding
    <3>2. QED
      BY <1>4, <3>1, SetUpPaged
  <2>7. later \in Int
    <3>1. PICK t0 \in Int : t0 = x.rsrc_t0
      BY <2>5, <2>6 DEF Holding
    <3>2. QED
      BY <1>2, <3>1 DEF Most, Least
  <2>8. QED
    BY <1>4, <2>1, <2>2, <2>5, <2>6, <2>7 DEF RegsAt, PagedAt
<1>5. QED
  BY <1>3, <1>4

(* A dma_only_block's loads bring their own rows, and it leaves the next   *)
(* one's registers.                                                        *)
LEMMA TailAt ==
  ASSUME NEW c \in Calls, NEW lo \in Nat, NEW n \in Nat, n < NeverMoves \/ ~c.paged, NEW r, NEW next,
         RegsAt(c, lo, r, "tail", n, next), NEW x, NEW q,
         x = set_dma(c, next_page(c, move_rsrc(c, lo, r, n)), n), q = next_rsrc(c, x)
  PROVE  RegsAt(c, lo, q, "tail", n + 1, next) /\ AllOwn(c, lo, BlockLoads(c, x, n))
<1>1. CASE ~c.paged
  <2>1. IsRegs(c, r) /\ Reaches(c, lo, r, n)
    BY <1>1 DEF RegsAt, UnpagedAt
  <2>2. x = set_dma(c, move_rsrc(c, lo, r, n), n) /\ q = x
    BY <1>1 DEF next_page, next_rsrc
  <2>3. IsRegs(c, x) /\ Reaches(c, lo, x, n) /\ Near(c, x, n) /\ Aimed(c, x, n)
    BY <1>1, <2>1, <2>2, SetUpUnpaged
  <2>4. Reaches(c, lo, q, n + 1)
    BY <2>2, <2>3 DEF Reaches
  <2>5. QED
    BY <1>1, <2>2, <2>3, <2>4, UnpagedBlock DEF RegsAt, UnpagedAt, AllOwn
<1>2. CASE c.paged
  <2>1. PICK a \in Nat : a = Ahead(c, PageRing(c)) /\ n + a \in Nat /\ n + a + 1 \in Nat
    BY AheadIs
  <2>2. PICK k \in Nat : k = n + a /\ n + 1 + a = k + 1
    BY <2>1
  <2>3. IsRegs(c, r) /\ Holding(c, lo, r, k) /\ VBehind(c, lo, r, k) /\ Pages(c, lo, r, k)
    BY <1>2, <2>1, <2>2 DEF RegsAt, PagedAt
  <2>4. move_rsrc(c, lo, r, n) = r
    <3>1. r.rsrc_t0 = 0 /\ n - 0 < rsrc_tiles(c)
      BY <1>2, <2>3 DEF Holding, rsrc_tiles
    <3>2. QED
      BY <3>1 DEF move_rsrc
  <2>5. x = next_page(c, r)
    BY <1>2, <2>4 DEF set_dma
  <2>6. IsRegs(c, x) /\ Holding(c, lo, x, k) /\ VBehind(c, lo, x, k) /\ Pages(c, lo, x, k + 1)
    BY <1>2, <2>3, <2>5, NextPage
  <2>7. IsRegs(c, q) /\ Holding(c, lo, q, k + 1) /\ VBehind(c, lo, q, k + 1) /\ Pages(c, lo, q, k + 1)
    BY <1>2, <2>6, NextRsrc
  <2>8. AllOwn(c, lo, BlockLoads(c, x, n))
    BY <1>2, <2>1, <2>2, <2>6, PagedBlock DEF AllOwn
  <2>9. QED
    BY <1>2, <2>1, <2>2, <2>7, <2>8 DEF RegsAt, PagedAt
<1>3. QED
  BY <1>1, <1>2

-----------------------------------------------------------------------------
Moving == {"block", "softmax", "tail"}

LoadsInv ==
  /\ call \in Calls /\ part \in DOMAIN call.parts
  /\ AllOwn(call, Lo, issued)
  /\ pc \in Moving => t \in Nat /\ rare \in Int /\ RegsAt(call, Lo, regs, pc, t, rare)
  /\ pc = "softmax" => t < NumLive
  /\ call.paged /\ call.skv > 0 /\ pc # "prologue" => {regs.page, regs.next_page} \subseteq call.pages

(* A part's bounds, and that its live tiles are of its own.                *)
LEMMA PartIs ==
  ASSUME call \in Calls, part \in DOMAIN call.parts
  PROVE  /\ Lo \in Nat /\ NumTiles \in Int /\ NumUnmasked \in Int
         /\ \A n \in Nat : n < NumLive => n < NumTiles
         /\ call.paged => NumTiles < NeverMoves
<1>1. /\ call.causal \in BOOLEAN /\ call.skv \in Nat /\ call.sq \in Int /\ call.row0 \in Int
      /\ call.parts \in Seq(Nat \X Nat)
      /\ call.paged => \A p \in DOMAIN call.parts : call.parts[p][2] - call.parts[p][1] < NeverMoves
  BY CallsAssumption
<1>2. call.parts[part] \in Nat \X Nat
  BY <1>1
<1>3. Lo \in Nat /\ NumTiles \in Int /\ (call.paged => NumTiles < NeverMoves)
  BY <1>1, <1>2 DEF Lo, NumTiles
<1>4. Cardinality(Rows) \in Nat
  BY FramesAssumption, FS_CardinalityType
<1>5. /\ Item.skv = call.skv /\ Item.sq = call.sq /\ Item.tile_lo = Lo /\ Item.tile_hi = Lo + NumTiles
  BY DEF Item
<1>6. KvTile \in Nat \ {0}
  BY WorkItemsAssumption
<1>7. NumUnmasked \in Int
  <2>1. PICK a \in Int, b \in Int : a = Item.skv \div KvTile /\ b = (call.row0 + Item.skv - Item.sq + 1) \div KvTile
    <3>1. Item.skv \in Int /\ (call.row0 + Item.skv - Item.sq + 1) \in Int
      BY <1>1, <1>5
    <3>2. PICK a \in Int : a = Item.skv \div KvTile
      BY <1>6, <3>1, Quotient, Zenon
    <3>4. PICK b \in Int : b = (call.row0 + Item.skv - Item.sq + 1) \div KvTile
      BY <1>6, <3>1, Quotient, Zenon
    <3>3. QED
      BY <3>2, <3>4, Zenon
  <2>2. QED
    BY <1>3, <1>5, <2>1 DEF NumUnmasked, num_unmasked, Most, Least
<1>8. ASSUME NEW n \in Nat, n < NumLive PROVE n < NumTiles
  <2>1. PICK last \in Int : last = call.row0 + Cardinality(Rows) - 1 + Item.skv - Item.sq
    <3>1. PICK x \in Int, k \in Int, q \in Int : x = call.row0 /\ k = Item.skv /\ q = Item.sq
      BY <1>1, <1>5
    <3>2. x + Cardinality(Rows) - 1 + k - q \in Int
      BY <1>4
    <3>3. QED
      BY <3>1, <3>2
  <2>2. PICK d \in Int : d = last \div KvTile
    BY <1>6, Quotient
  <2>3. Item.tile_hi - Item.tile_lo = NumTiles
    BY <1>3, <1>5
  <2>4. NumLive = IF ~call.causal THEN IF call.row0 + Cardinality(Rows) > 0 THEN NumTiles ELSE 0
                  ELSE IF last < 0 THEN 0 ELSE Most(0, Least(NumTiles, d + 1 - Lo))
    BY <1>5, <2>1, <2>2, <2>3 DEF NumLive, num_live
  <2>5. QED
    BY <1>1, <1>3, <1>8, <2>4 DEF Most, Least
<1>9. QED
  BY <1>3, <1>7, <1>8

(* A wave starts with nothing issued.                                      *)
LEMMA LoadsStart == Init => LoadsInv
<1>1. SUFFICES ASSUME Init PROVE LoadsInv
  OBVIOUS
<1>2. call \in Calls /\ part = 1 /\ pc = "prologue" /\ issued = {}
  BY <1>1 DEF Init
<1>3. part \in DOMAIN call.parts
  BY <1>2, CallsAssumption
<1>4. QED
  BY <1>2, <1>3 DEF LoadsInv, Moving, AllOwn

(* A page taken is one of the sequence's.                                  *)
LEMMA OwnPages ==
  ASSUME NEW c \in Calls, c.paged, c.skv > 0, NEW lo \in Nat, NEW n \in Nat, NEW r, NEW place,
         PagedAt(c, lo, r, place, n)
  PROVE  {r.page, r.next_page} \subseteq c.pages
<1>1. PICK a \in Nat : a = Ahead(c, PageRing(c))
  BY RingsAre
<1>2. PICK k \in Nat : Pages(c, lo, r, k)
  <2>1. n + a + 1 \in Nat /\ n + a \in Nat
    OBVIOUS
  <2>2. CASE place = "block"
    BY <1>1, <2>1, <2>2 DEF PagedAt
  <2>3. CASE place = "softmax"
    BY <1>1, <2>1, <2>3 DEF PagedAt
  <2>4. CASE place # "block" /\ place # "softmax"
    BY <1>1, <2>1, <2>4 DEF PagedAt
  <2>5. QED
    BY <2>2, <2>3, <2>4
<1>3. ASSUME NEW j \in Nat PROVE PageAt(c, lo, j) \in c.pages
  <2>1. RunOf(c, lo, j) \in Nat /\ c.kv0 <= RunOf(c, lo, j)
    BY Runs
  <2>2. QED
    BY <2>1, EntryIs DEF PageAt
<1>4. k + 1 \in Nat
  OBVIOUS
<1>5. QED
  BY <1>2, <1>3, <1>4 DEF Pages

(* Every step of a wave issues its own rows' loads alone.                  *)
LEMMA LoadsKept == LoadsInv /\ [Next]_vars => LoadsInv'
<1>1. SUFFICES ASSUME LoadsInv, [Next]_vars PROVE LoadsInv'
  OBVIOUS
<1>2. /\ call \in Calls /\ part \in DOMAIN call.parts /\ AllOwn(call, Lo, issued)
      /\ pc \in Moving => t \in Nat /\ rare \in Int /\ RegsAt(call, Lo, regs, pc, t, rare)
      /\ pc = "softmax" => t < NumLive
      /\ call.paged /\ call.skv > 0 /\ pc # "prologue" => {regs.page, regs.next_page} \subseteq call.pages
  BY <1>1 DEF LoadsInv
<1>3. PICK lo \in Nat, tiles \in Int, unmasked \in Int :
        /\ lo = Lo /\ tiles = NumTiles /\ unmasked = NumUnmasked /\ (call.paged => tiles < NeverMoves)
        /\ \A n \in Nat : n < NumLive => n < tiles
  BY <1>2, PartIs
<1>4. call' = call
  BY <1>1 DEF Next, Prologue, MfmaBlock, LastBlock, Softmax, DmaOnlyBlock, PartEnd, WholeEnd, MergeParts, Done, vars
(* The next state of a wave that goes on within its part.                  *)
<1>5. ASSUME part' = part, AllOwn(call, lo, issued'), pc' \in Moving, t' \in Nat, rare' \in Int,
             RegsAt(call, lo, regs', pc', t', rare'), pc' = "softmax" => t' < NumLive
      PROVE  LoadsInv'
  <2>1. Lo' = lo /\ NumLive' = NumLive
    BY <1>3, <1>4, <1>5 DEF Lo, NumLive, Item, NumTiles
  <2>2. call.paged /\ call.skv > 0 => {regs'.page, regs'.next_page} \subseteq call.pages
    BY <1>2, <1>5, OwnPages DEF RegsAt
  <2>3. QED
    BY <1>2, <1>4, <1>5, <2>1, <2>2 DEF LoadsInv
<1>6. CASE Prologue
  <2>1. /\ regs' = set_dma(call, prologue(call, lo).regs, 0) /\ issued' = prologue(call, lo).loads
        /\ rare' = 0 /\ t' = 0 /\ pc' = "block" /\ part' = part
    BY <1>3, <1>6 DEF Prologue
  <2>2. RegsAt(call, lo, regs', "block", 0, 0) /\ AllOwn(call, lo, issued')
    BY <1>2, <2>1, PrologueAt
  <2>3. QED
    BY <1>5, <2>1, <2>2 DEF Moving
<1>7. CASE MfmaBlock
  <2>1. /\ pc = "block" /\ t < NumLive /\ issued' = BlockLoads(call, regs, t) /\ regs' = next_rsrc(call, regs)
        /\ pc' = "softmax" /\ part' = part /\ t' = t /\ rare' = rare
    BY <1>7 DEF MfmaBlock, BlockLoading
  <2>2. t \in Nat /\ rare \in Int /\ RegsAt(call, lo, regs, "block", t, rare)
    BY <1>2, <1>3, <2>1 DEF Moving
  <2>3. RegsAt(call, lo, regs', "softmax", t, rare) /\ AllOwn(call, lo, issued')
    BY <1>2, <2>1, <2>2, BlockAt
  <2>4. QED
    BY <1>5, <2>1, <2>2, <2>3 DEF Moving
<1>8. CASE LastBlock
  <2>1. /\ pc = "block" /\ issued' = BlockLoads(call, regs, t) /\ regs' = next_rsrc(call, regs)
        /\ pc' = "tail" /\ part' = part /\ t' = t + 1 /\ rare' = rare
    BY <1>8 DEF LastBlock, BlockLoading
  <2>2. t \in Nat /\ rare \in Int /\ RegsAt(call, lo, regs, "block", t, rare)
    BY <1>2, <1>3, <2>1 DEF Moving
  <2>3. RegsAt(call, lo, regs', "tail", t + 1, rare) /\ AllOwn(call, lo, issued')
    BY <1>2, <2>1, <2>2, BlockAt
  <2>4. QED
    BY <1>5, <2>1, <2>2, <2>3 DEF Moving
<1>9. CASE Softmax
  <2>1. pc = "softmax" /\ pc' = "block" /\ part' = part /\ issued' = issued /\ t' = t + 1
    BY <1>9 DEF Softmax
  <2>2. t \in Nat /\ rare \in Int /\ RegsAt(call, lo, regs, "softmax", t, rare) /\ t < NumLive
    BY <1>2, <1>3, <2>1 DEF Moving
  <2>3. PICK x : x = IF t >= rare THEN move_rsrc(call, lo, next_page(call, regs), t + 1) ELSE next_page(call, regs)
    OBVIOUS
  <2>4. /\ regs' = set_dma(call, x, t + 1)
        /\ rare' = IF t >= rare THEN Most(t + 1, Least(unmasked, x.rsrc_t0 + rsrc_tiles(call) - 1)) ELSE rare
    BY <1>3, <1>9, <2>3 DEF Softmax, RareFrom
  <2>5. t + 1 < NeverMoves \/ ~call.paged
    <3>1. t < tiles
      BY <1>3, <2>2
    <3>2. QED
      BY <1>3, <2>2, <3>1 DEF NeverMoves
  <2>6. RegsAt(call, lo, regs', "block", t + 1, rare') /\ rare' \in Int
    BY <1>2, <2>2, <2>3, <2>4, <2>5, SoftmaxAt
  <2>7. QED
    BY <1>2, <1>3, <1>5, <2>1, <2>2, <2>6 DEF Moving
<1>10. CASE DmaOnlyBlock
  <2>1. pc = "tail" /\ t <= tiles /\ pc' = pc /\ part' = part /\ t' = t + 1 /\ rare' = rare
    BY <1>3, <1>10 DEF DmaOnlyBlock
  <2>2. t \in Nat /\ rare \in Int /\ RegsAt(call, lo, regs, "tail", t, rare)
    BY <1>2, <1>3, <2>1 DEF Moving
  <2>3. PICK x : x = set_dma(call, next_page(call, move_rsrc(call, lo, regs, t)), t)
    OBVIOUS
  <2>4. issued' = BlockLoads(call, x, t) /\ regs' = next_rsrc(call, x)
    BY <1>3, <1>10, <2>3 DEF DmaOnlyBlock
  <2>5. t < NeverMoves \/ ~call.paged
    BY <1>3, <2>1, <2>2 DEF NeverMoves
  <2>6. RegsAt(call, lo, regs', "tail", t + 1, rare) /\ AllOwn(call, lo, issued')
    BY <1>2, <2>2, <2>3, <2>4, <2>5, TailAt
  <2>7. QED
    BY <1>5, <2>1, <2>2, <2>6 DEF Moving
<1>11. CASE PartEnd
  <2>1. /\ pc = "tail" /\ issued' = {} /\ regs' = regs
        /\ part' = part \/ (part' = part + 1 /\ part < Len(call.parts))
        /\ pc' \in {"prologue", "merge"}
    BY <1>11 DEF PartEnd
  <2>2. part' \in DOMAIN call.parts
    <3>1. call.parts \in Seq(Nat \X Nat)
      BY <1>2, CallsAssumption
    <3>2. DOMAIN call.parts = 1 .. Len(call.parts) /\ Len(call.parts) \in Nat
      BY <3>1
    <3>3. QED
      BY <1>2, <2>1, <3>2
  <2>3. QED
    BY <1>2, <1>4, <2>1, <2>2 DEF LoadsInv, AllOwn, Moving
<1>12. CASE WholeEnd \/ MergeParts
  <2>1. part' = part /\ issued' = issued /\ regs' = regs /\ pc' = "done" /\ pc # "prologue"
    BY <1>12 DEF WholeEnd, MergeParts
  <2>2. Lo' = Lo
    BY <1>4, <2>1 DEF Lo
  <2>3. QED
    BY <1>2, <1>4, <2>1, <2>2 DEF LoadsInv, Moving
<1>13. CASE UNCHANGED vars
  BY <1>1, <1>13 DEF LoadsInv, vars, Lo, NumLive, Item, NumTiles, RegsAt
<1>14. QED
  BY <1>1, <1>6, <1>7, <1>8, <1>9, <1>10, <1>11, <1>12, <1>13 DEF Next, Done

(* Every load brings its own tile's rows.                                  *)
THEOREM LoadsOwnRowsHolds == Spec => []LoadsOwnRows
<1>1. LoadsInv => LoadsOwnRows
  BY DEF LoadsInv, LoadsOwnRows, AllOwn
<1>2. QED
  BY <1>1, LoadsStart, LoadsKept, PTL DEF Spec

-----------------------------------------------------------------------------
(* A set of naturals has a least one.                                      *)
LEMMA LeastNatural ==
  ASSUME NEW T, T \subseteq Nat, T # {}
  PROVE  \E x \in T : \A y \in T : x <= y
<1> DEFINE Less == {p \in Nat \X Nat : p[1] < p[2]}
<1>1. IsWellFoundedOn(Less, Nat)
  BY NatLessThanWellFounded DEF OpToRel
<1> HIDE DEF Less
<1>2. PICK x \in T : \A y \in T : <<y, x>> \notin Less
  BY <1>1, WFMin
<1>3. ASSUME NEW y \in T, y < x PROVE <<y, x>> \in Less
  <2> DEFINE p == <<y, x>>
  <2>1. p \in Nat \X Nat /\ p[1] < p[2]
    BY <1>3
  <2>2. QED
    BY <2>1 DEF Less
<1>4. \A y \in T : ~ (y < x)
  BY <1>2, <1>3, Zenon
<1>5. x \in Nat /\ \A y \in T : y \in Nat
  OBVIOUS
<1>6. QED
  BY <1>4, <1>5

(* A bounded set of integers has a maximum, and Max is it.                 *)
LEMMA MaxIs ==
  ASSUME NEW S \in SUBSET Int, S # {}, NEW b \in Int, \A x \in S : x <= b
  PROVE  Max(S) \in S /\ \A x \in S : x <= Max(S)
<1> DEFINE below == {b - x : x \in S}
<1>1. below \subseteq Nat /\ below # {}
  <2>1. ASSUME NEW x \in S PROVE b - x \in Nat /\ b - x \in below
    <3>1. x \in Int /\ x <= b
      OBVIOUS
    <3>2. b - x \in Nat
      BY <3>1
    <3>3. b - x \in below
      OBVIOUS
    <3>4. QED
      BY <3>2, <3>3
  <2>2. PICK x \in S : TRUE
    OBVIOUS
  <2>3. QED
    BY <2>1, <2>2, Zenon
<1>2. PICK n \in below : \A k \in below : n <= k
  <2> HIDE DEF below
  <2>1. QED
    BY <1>1, LeastNatural
<1>4. PICK m \in S : n = b - m
  BY <1>2
<1>5. \A x \in S : m >= x
  <2>1. TAKE x \in S
  <2>2. b - x \in below
    OBVIOUS
  <2>3. n <= b - x
    BY <1>2, <2>2
  <2>4. QED
    BY <1>4, <2>3
<1>6. Max(S) \in S /\ \A x \in S : Max(S) >= x
  BY <1>5, Zenon DEF Max
<1>7. QED
  BY <1>6

(* The floats' marks.                                                      *)
LEMMA Marks ==
  /\ {NaN, PlusInf, MaxFinite, NegInf, MaskScore, Frame0, RescaleHeadroom, RescaleThreshold, MaxExp} \subseteq Int
  /\ MaxFinite < PlusInf /\ PlusInf < NaN /\ -MaxFinite <= MaskScore /\ MaskScore < NegInf /\ NegInf < 0
  /\ 0 < Frame0 /\ 0 < RescaleHeadroom /\ RescaleHeadroom < MaxFinite
  /\ 0 <= RescaleThreshold /\ RescaleThreshold <= MaxExp /\ MaxExp < MaxFinite /\ -PlusInf < -MaxFinite
  /\ NegInf < -Frame0
BY DEF NaN, PlusInf, MaxFinite, NegInf, MaskScore, Frame0, RescaleHeadroom, RescaleThreshold, MaxExp

(* A sum of floats: NaN, one of them that is not finite, or their sum.     *)
LEMMA PlusIs ==
  ASSUME NEW x \in Int, NEW y \in Int
  PROVE  /\ Plus(x, y) \in Int
         /\ \/ Plus(x, y) = NaN
            \/ Plus(x, y) \in {x, y} /\ ~IsFinite(Plus(x, y))
            \/ IsFinite(x) /\ IsFinite(y) /\ Plus(x, y) = x + y
<1>1. CASE NaN \in {x, y} \/ {x, y} = {PlusInf, -PlusInf}
  BY <1>1, Marks DEF Plus
<1>2. CASE ~(NaN \in {x, y} \/ {x, y} = {PlusInf, -PlusInf}) /\ \E z \in {x, y} : ~IsFinite(z)
  <2>1. Plus(x, y) = CHOOSE z \in {x, y} : ~IsFinite(z)
    BY <1>2, Zenon DEF Plus
  <2>2. Plus(x, y) \in {x, y} /\ ~IsFinite(Plus(x, y))
    BY <1>2, <2>1, Zenon
  <2>3. QED
    BY <2>2
<1>3. CASE ~(NaN \in {x, y} \/ {x, y} = {PlusInf, -PlusInf}) /\ ~\E z \in {x, y} : ~IsFinite(z)
  <2>1. Plus(x, y) = x + y
    BY <1>3, Zenon DEF Plus
  <2>2. QED
    BY <1>3, <2>1
<1>4. QED
  BY <1>1, <1>2, <1>3

(* No sum of floats that are neither NaN nor +inf is.                      *)
LEMMA LowPlus ==
  ASSUME NEW m, m = MaxFinite, NEW x \in Int, NEW y \in Int, x <= m, y <= m
  PROVE  \/ Plus(x, y) \in {x, y} /\ Plus(x, y) < -m
         \/ IsFinite(x) /\ IsFinite(y) /\ Plus(x, y) = x + y
<1>1. CASE \E z \in {x, y} : ~IsFinite(z)
  <2>1. ~(NaN \in {x, y} \/ {x, y} = {PlusInf, -PlusInf})
    <3>1. NaN # x /\ NaN # y /\ PlusInf # x /\ PlusInf # y
      BY Marks
    <3>2. QED
      BY <3>1, Zenon
  <2>2. Plus(x, y) = CHOOSE z \in {x, y} : ~IsFinite(z)
    BY <1>1, <2>1, Zenon DEF Plus
  <2>3. Plus(x, y) \in {x, y} /\ ~IsFinite(Plus(x, y))
    BY <1>1, <2>2, Zenon
  <2>4. QED
    BY <2>3, Marks DEF IsFinite
<1>2. CASE ~\E z \in {x, y} : ~IsFinite(z)
  <2>1. IsFinite(x) /\ IsFinite(y)
    BY <1>2
  <2>2. ~(NaN \in {x, y} \/ {x, y} = {PlusInf, -PlusInf})
    <3>1. NaN # x /\ NaN # y /\ PlusInf # x /\ PlusInf # y
      BY Marks
    <3>2. QED
      BY <3>1, Zenon
  <2>3. Plus(x, y) = x + y
    BY <1>2, <2>2, Zenon DEF Plus
  <2>4. QED
    BY <2>1, <2>3
<1>3. QED
  BY <1>1, <1>2

(* The largest of bounded scores, NaN dropped or kept.                     *)
LEMMA MaxesAre ==
  ASSUME NEW S \in SUBSET Int, \A x \in S : x <= NaN
  PROVE  /\ DropMax(S) \in (S \ {NaN}) \cup {MaskScore} /\ \A x \in S \ {NaN} : x <= DropMax(S)
         /\ KeepMax(S) \in S \cup {MaskScore} /\ \A x \in S : x <= KeepMax(S)
         /\ MaskScore <= DropMax(S) /\ MaskScore <= KeepMax(S)
         /\ DropMax(S) \in Int /\ KeepMax(S) \in Int
<1>1. PICK m \in Int, n \in Int : m = MaskScore /\ n = NaN /\ m <= n
  BY Marks
<1>2. /\ DropMax(S) \in (S \ {n}) \cup {m} /\ \A x \in (S \ {n}) \cup {m} : x <= DropMax(S)
      /\ KeepMax(S) \in S \cup {m} /\ \A x \in S \cup {m} : x <= KeepMax(S)
  <2>1. (S \ {n}) \cup {m} \in SUBSET Int /\ (S \ {n}) \cup {m} # {} /\ \A x \in (S \ {n}) \cup {m} : x <= n
    BY <1>1
  <2>2. S \cup {m} \in SUBSET Int /\ S \cup {m} # {} /\ \A x \in S \cup {m} : x <= n
    BY <1>1
  <2>3. DropMax(S) = Max((S \ {n}) \cup {m}) /\ KeepMax(S) = Max(S \cup {m})
    BY <1>1, Zenon DEF DropMax, KeepMax
  <2>4. /\ Max((S \ {n}) \cup {m}) \in (S \ {n}) \cup {m}
        /\ \A x \in (S \ {n}) \cup {m} : x <= Max((S \ {n}) \cup {m})
    BY <2>1, MaxIs
  <2>5. Max(S \cup {m}) \in S \cup {m} /\ \A x \in S \cup {m} : x <= Max(S \cup {m})
    BY <2>2, MaxIs
  <2>6. QED
    BY <2>3, <2>4, <2>5, Zenon
<1>3. QED
  BY <1>1, <1>2

(* A score by itself, and relative to a frame.                             *)
TwoScores == MaxScore + MaxScore
Lone(x) == x \in Int /\ (x = NaN \/ x = PlusInf \/ x <= MaxScore)
Relative(x) == x \in Int /\ (x = NaN \/ x = PlusInf \/ x <= TwoScores)
Seed(x) == x \in Int /\ x <= MaxScore
Seed0 == -(Frame0 \div Scale)

(* A score, its scaled sum with another, and the first seed fit the        *)
(* floats.                                                                 *)
LEMMA Ranges ==
  /\ Scale \in Nat \ {0} /\ MaxScore \in Nat /\ TwoScores \in Nat
  /\ TwoScores * Scale + RescaleHeadroom <= MaxFinite /\ TwoScores + RescaleHeadroom <= MaxFinite
  /\ Seed0 \in Int /\ -Frame0 <= Seed0 /\ Seed0 <= 0
<1>1. Scale \in Nat \ {0}
  BY FramesAssumption
<1>2. PICK w \in Nat, h \in Nat, f \in Nat : /\ w = MaxFinite - RescaleHeadroom /\ h = RescaleHeadroom /\ f = Frame0
                                            /\ MaxFinite = w + h
  BY Marks
<1>3. PICK y \in Nat \ {0} : y = 2 * Scale /\ y = Scale + Scale
  BY <1>1
<1>4. PICK q \in Nat, d \in Nat : q = MaxScore /\ w = q * y + d
  <2>1. w \in Int
    OBVIOUS
  <2>2. MaxScore = w \div y
    BY <1>2, <1>3, Zenon DEF MaxScore
  <2>3. /\ w \div y \in Nat /\ w % y \in 0 .. y - 1 /\ w = (w \div y) * y + (w % y)
    BY <2>1, Quotient
  <2>4. PICK d \in 0 .. y - 1 : d = w % y
    BY <2>3, Zenon
  <2>5. d \in Nat
    OBVIOUS
  <2>6. QED
    BY <2>2, <2>3, <2>4, <2>5, Zenon
<1>5. q * y = (q + q) * Scale
  BY <1>1, <1>3
<1>6. PICK p \in Nat : p = (q + q) * Scale /\ q + q <= p
  BY <1>1
<1>7. PICK z \in Nat : z = Frame0 \div Scale /\ z <= f
  <2>1. PICK z \in Nat, r \in Nat : z = f \div Scale /\ f = z * Scale + r
    <3>1. f \in Int
      OBVIOUS
    <3>2. f \div Scale \in Nat /\ f % Scale \in 0 .. Scale - 1 /\ f = (f \div Scale) * Scale + (f % Scale)
      BY <1>1, <3>1, Quotient
    <3>3. PICK r \in 0 .. Scale - 1 : r = f % Scale
      BY <3>2, Zenon
    <3>4. r \in Nat
      BY <1>1
    <3>5. QED
      BY <3>2, <3>3, <3>4, Zenon
  <2>2. z <= z * Scale /\ z * Scale \in Nat
    BY <1>1
  <2>3. f = z * Scale + r
    BY <2>1
  <2>4. z <= f
    BY <2>2, <2>3
  <2>5. QED
    BY <1>2, <2>1, <2>4
<1>8. TwoScores = q + q /\ TwoScores \in Nat
  BY <1>4 DEF TwoScores
<1>9. TwoScores * Scale = p
  BY <1>6, <1>8, Zenon
<1>10. p + h <= w + h
  BY <1>4, <1>5, <1>6
<1>11. /\ TwoScores * Scale + RescaleHeadroom <= MaxFinite /\ TwoScores + RescaleHeadroom <= MaxFinite
  BY <1>2, <1>6, <1>8, <1>9, <1>10
<1>12. Seed0 \in Int /\ -Frame0 <= Seed0 /\ Seed0 <= 0
  BY <1>2, <1>7 DEF Seed0
<1>13. QED
  BY <1>1, <1>4, <1>8, <1>11, <1>12

(* A score and a seed: no more than two scores.                            *)
LEMMA Sums ==
  ASSUME NEW x, Lone(x), NEW y, Seed(y)
  PROVE  Relative(Plus(x, y))
<1>1. PICK n \in Int, f \in Int, b \in Nat, m \in Int :
        n = NaN /\ f = PlusInf /\ b = MaxScore /\ m = MaxFinite /\ m < f /\ f < n /\ TwoScores = b + b
  BY Marks, Ranges DEF TwoScores
<1>2. x \in Int /\ (x = n \/ x = f \/ x <= b) /\ y \in Int /\ y <= b
  BY <1>1 DEF Lone, Seed
<1>3. PICK z \in Int : z = Plus(x, y) /\ (z = n \/ z \in {x, y} \/ (x <= m /\ z = x + y))
  BY <1>1, <1>2, PlusIs DEF IsFinite
<1>4. z = n \/ z = f \/ z <= b + b
  BY <1>1, <1>2, <1>3
<1>5. QED
  BY <1>1, <1>3, <1>4 DEF Relative

(* Scaling keeps the order of what stays finite.                           *)
LEMMA Scalings ==
  ASSUME NEW x \in Int, NEW y \in Int, x <= y, y <= TwoScores
  PROVE  /\ Scaled(y) \in Int /\ Scaled(y) + RescaleHeadroom <= MaxFinite /\ Scaled(x) \in Int
         /\ Scaled(x) + RescaleHeadroom <= MaxFinite
         /\ IsFinite(Scaled(x)) => Scaled(x) <= Scaled(y)
<1>1. PICK s \in Nat \ {0}, w \in Nat, h \in Nat, m \in Nat :
        s = Scale /\ w = TwoScores /\ h = RescaleHeadroom /\ m = MaxFinite /\ w * s + h <= m /\ w + h <= m
  <2>1. RescaleHeadroom \in Nat /\ MaxFinite \in Nat
    BY Marks
  <2>2. QED
    BY <2>1, Ranges, Zenon
<1>2. x * s <= y * s /\ y * s <= w * s
  BY <1>1, TimesMonotone
<1>3. PICK a \in Int, b \in Int, c \in Int : a = x * s /\ b = y * s /\ c = w * s
  OBVIOUS
<1>4. a <= b /\ b + h <= m
  BY <1>1, <1>2, <1>3
<1>5. /\ Scaled(x) = IF x <= m /\ -x <= m THEN a ELSE x
      /\ Scaled(y) = IF y <= m /\ -y <= m THEN b ELSE y
  BY <1>1, <1>3 DEF Scaled, IsFinite
<1>6. x + h <= m /\ y + h <= m
  BY <1>1
<1>7. PICK u \in Int, v \in Int : /\ u = Scaled(x) /\ u = (IF x <= m /\ -x <= m THEN a ELSE x)
                                 /\ v = Scaled(y) /\ v = (IF y <= m /\ -y <= m THEN b ELSE y)
  BY <1>5
<1>8. v + h <= m /\ u + h <= m /\ (u <= m /\ -u <= m => u <= v)
  BY <1>4, <1>6, <1>7
<1>9. QED
  BY <1>1, <1>7, <1>8 DEF IsFinite

(* A score not outgrown, in log2 units.                                    *)
LEMMA NotOutgrown ==
  ASSUME NEW x \in Int, x <= RescaleThreshold \div Scale
  PROVE  Scaled(x) \in Int /\ Scaled(x) <= RescaleThreshold
<1>1. PICK s \in Nat \ {0}, t8 \in Nat : s = Scale /\ t8 = RescaleThreshold
  BY Marks, Ranges
<1>2. PICK q \in Nat, d \in Nat : q = t8 \div s /\ t8 = q * s + d
  <2>1. t8 \in Int
    OBVIOUS
  <2>2. t8 \div s \in Nat /\ t8 % s \in 0 .. s - 1 /\ t8 = (t8 \div s) * s + (t8 % s)
    BY <2>1, Quotient
  <2>3. PICK d \in 0 .. s - 1 : d = t8 % s
    BY <2>2, Zenon
  <2>4. d \in Nat
    OBVIOUS
  <2>5. QED
    BY <2>2, <2>3, <2>4, Zenon
<1>3. x <= q
  BY <1>1, <1>2
<1>4. x * s <= q * s
  BY <1>3, TimesMonotone
<1>5. PICK a \in Int, b \in Int : a = x * s /\ b = q * s /\ q <= b
  OBVIOUS
<1>6. t8 = b + d
  BY <1>2, <1>5, Zenon
<1>7. a <= t8 /\ x <= t8
  BY <1>3, <1>4, <1>5, <1>6
<1>8. Scaled(x) = IF IsFinite(x) THEN a ELSE x
  BY <1>1, <1>5 DEF Scaled
<1>9. QED
  BY <1>1, <1>7, <1>8

(* The frame moves past its row's largest score, by the headroom, and the  *)
(* row's scores follow: none is left above the threshold.                  *)
Below8(x) == x \in Int /\ x <= RescaleThreshold
Shift(top) == DropMax({Plus(Scaled(top), RescaleHeadroom), 0})

(* A row's shift is finite, and takes every score up to its largest below  *)
(* the threshold.                                                          *)
LEMMA Shifts ==
  ASSUME NEW top \in Int, top <= TwoScores
  PROVE  Shift(top) \in 0 .. MaxFinite
         /\ \A x \in Int : x <= top => Below8(Minus(Scaled(x), Shift(top)))
<1>1. PICK h \in Nat, m \in Nat, n \in Int, k \in Int :
        h = RescaleHeadroom /\ m = MaxFinite /\ n = NaN /\ k = MaskScore /\ m < n /\ k < 0 /\ h < m
  BY Marks
<1>2. PICK u \in Int : u = Scaled(top) /\ u + h <= m
  BY <1>1, Scalings
<1>3. PICK a \in Int : /\ a = Plus(u, h)
                       /\ (a = u /\ a < -m) \/ (a = u + h /\ IsFinite(u))
  <2>1. u \in Int /\ h \in Int /\ u <= m /\ h <= m /\ m = MaxFinite
    BY <1>1, <1>2
  <2>2. (Plus(u, h) \in {u, h} /\ Plus(u, h) < -m) \/ (IsFinite(u) /\ Plus(u, h) = u + h)
    BY <2>1, LowPlus, Zenon
  <2>3. QED
    BY <1>1, <1>2, <2>2
<1>4. a <= m
  BY <1>2, <1>3
<1>5. PICK s \in Int : s = Shift(top) /\ s \in {a, 0, k} /\ 0 <= s /\ a <= s
  <2>1. {a, 0} \in SUBSET Int /\ \A x \in {a, 0} : x <= NaN
    BY <1>1, <1>4
  <2>2. /\ DropMax({a, 0}) \in ({a, 0} \ {NaN}) \cup {MaskScore} /\ DropMax({a, 0}) \in Int
        /\ \A x \in {a, 0} \ {NaN} : x <= DropMax({a, 0})
    BY <2>1, MaxesAre
  <2>3. a # NaN /\ 0 # NaN
    BY <1>1, <1>4
  <2>4. Shift(top) = DropMax({a, 0})
    BY <1>1, <1>2, <1>3, Zenon DEF Shift
  <2>5. QED
    BY <1>1, <2>2, <2>3, <2>4
<1>6. s \in 0 .. m
  BY <1>1, <1>4, <1>5
<1>7. ASSUME NEW x \in Int, x <= top PROVE Below8(Minus(Scaled(x), s))
  <2>1. PICK v \in Int : v = Scaled(x) /\ v + h <= m /\ (IsFinite(v) => v <= u)
    BY <1>1, <1>2, <1>7, Scalings
  <2>2. PICK z \in Int : z = -s /\ Neg(s) = z
    BY <1>1, <1>5, <1>6 DEF Neg
  <2>3. PICK r \in Int : r = Plus(v, z) /\ (r < -m \/ (IsFinite(v) /\ r = v + z))
    <3>1. v \in Int /\ z \in Int /\ v <= m /\ z <= m /\ m = MaxFinite
      BY <1>1, <1>6, <2>1, <2>2
    <3>2. (Plus(v, z) \in {v, z} /\ Plus(v, z) < -m) \/ (IsFinite(v) /\ Plus(v, z) = v + z)
      BY <3>1, LowPlus, Zenon
    <3>3. QED
      BY <2>1, <2>2, <3>2
  <2>4. r <= 0
    BY <1>3, <1>5, <2>1, <2>2, <2>3, <1>1 DEF IsFinite
  <2>5. r = Minus(Scaled(x), s)
    BY <2>1, <2>2, <2>3, Zenon DEF Minus
  <2>6. 0 <= RescaleThreshold /\ RescaleThreshold \in Int
    BY Marks
  <2>7. QED
    BY <2>4, <2>5, <2>6 DEF Below8
<1>8. QED
  BY <1>1, <1>5, <1>6, <1>7

(* A seed that follows stays a seed.                                       *)
LEMMA SeedFollows ==
  ASSUME NEW y, Seed(y), NEW d \in 0 .. MaxFinite
  PROVE  Seed(Minus(y, d \div Scale))
<1>1. PICK m \in Nat, b \in Nat, n \in Int : m = MaxFinite /\ b = MaxScore /\ n = NaN /\ m < n /\ b <= m
  <2>1. MaxFinite \in Nat /\ NaN \in Int /\ MaxFinite < NaN
    BY Marks
  <2>2. MaxScore \in Nat /\ MaxScore <= MaxFinite
    BY Ranges, Marks DEF TwoScores
  <2>3. QED
    BY <2>1, <2>2
<1>2. PICK q \in Nat : q = d \div Scale /\ q <= m
  <2>1. PICK s \in Nat \ {0} : s = Scale
    BY Ranges
  <2>2. PICK q \in Nat, r \in Nat : q = d \div s /\ d = q * s + r
    <3>1. d \in Nat /\ d \in Int
      BY <1>1
    <3>2. d \div s \in Nat /\ d % s \in 0 .. s - 1 /\ d = (d \div s) * s + (d % s)
      BY <3>1, Quotient
    <3>3. PICK r \in 0 .. s - 1 : r = d % s
      BY <3>2, Zenon
    <3>4. r \in Nat
      OBVIOUS
    <3>5. QED
      BY <3>2, <3>3, <3>4, Zenon
  <2>3. q <= q * s /\ q * s \in Nat
    OBVIOUS
  <2>4. d = q * s + r
    BY <2>2
  <2>5. d <= m /\ d \in Nat
    BY <1>1
  <2>6. q <= m
    BY <2>3, <2>4, <2>5
  <2>7. QED
    BY <2>1, <2>2, <2>6
<1>3. PICK z \in Int : z = -q /\ Neg(q) = z
  BY <1>1, <1>2 DEF Neg
<1>4. y \in Int /\ y <= b /\ z <= m /\ y <= m
  BY <1>1, <1>2, <1>3 DEF Seed
<1>5. (Plus(y, z) \in {y, z} /\ Plus(y, z) < -m) \/ Plus(y, z) = y + z
  BY <1>1, <1>4, LowPlus
<1>6. Plus(y, z) \in Int /\ Plus(y, z) <= b
  BY <1>1, <1>2, <1>3, <1>4, <1>5
<1>7. QED
  BY <1>1, <1>2, <1>3, <1>6 DEF Seed, Minus

(* The first tile's seed is known: a row's frame moves by a score.         *)
Early(x) == Lone(x) /\ (NegInf < x => Seed0 - MaxScore <= x)

(* What the first QK gives.                                                *)
LEMMA EarlyScores ==
  ASSUME NEW x \in Int, x = NaN \/ x = PlusInf \/ x = -PlusInf \/ x \in -MaxScore .. MaxScore
  PROVE  Early(Plus(x, Seed0)) /\ Lone(x)
<1>1. PICK n \in Int, f \in Int, b \in Nat, m \in Nat, z \in Int, g \in Int :
        /\ n = NaN /\ f = PlusInf /\ b = MaxScore /\ m = MaxFinite /\ z = Seed0 /\ g = NegInf
        /\ m < f /\ f < n /\ z <= 0 /\ -m <= z /\ -m <= g /\ b <= m /\ g < 0
  <2>1. MaxFinite \in Nat /\ {NaN, PlusInf, NegInf} \subseteq Int
    BY Marks
  <2>2. MaxScore \in Nat /\ MaxScore <= MaxFinite /\ Seed0 \in Int /\ Seed0 <= 0 /\ -MaxFinite <= Seed0
    BY Ranges, Marks DEF TwoScores
  <2>3. MaxFinite < PlusInf /\ PlusInf < NaN /\ -MaxFinite <= NegInf /\ NegInf < 0
    BY Marks
  <2>4. QED
    BY <2>1, <2>2, <2>3
<1>2. x = n \/ x = f \/ x = -f \/ (-b <= x /\ x <= b)
  BY <1>1
<1>3. PICK s \in Int : s = Plus(x, z) /\ (s = n \/ (s \in {x, z} /\ (s > m \/ s < -m)) \/ (x <= m /\ s = x + z))
  <2>1. /\ Plus(x, z) \in Int
        /\ \/ Plus(x, z) = n
           \/ Plus(x, z) \in {x, z} /\ ~IsFinite(Plus(x, z))
           \/ IsFinite(x) /\ IsFinite(z) /\ Plus(x, z) = x + z
    BY <1>1, PlusIs, Zenon
  <2>2. PICK s \in Int : s = Plus(x, z)
    BY <2>1
  <2>3. IsFinite(s) <=> s <= m /\ -s <= m
    BY <1>1 DEF IsFinite
  <2>4. IsFinite(x) => x <= m
    BY <1>1 DEF IsFinite
  <2>5. QED
    BY <1>1, <2>1, <2>2, <2>3, <2>4
<1>4. /\ s = n \/ s = f \/ s <= b
      /\ g < s => z - b <= s
  BY <1>1, <1>2, <1>3
<1>5. QED
  BY <1>1, <1>2, <1>3, <1>4 DEF Early, Lone

(* A row's shift by a largest score of its first tile: the seed stays a    *)
(* seed, the scores two scores.                                            *)
LEMMA FirstShift ==
  ASSUME NEW top, Early(top), top # NaN, NegInf < top
  PROVE  /\ Seed(Minus(Seed0, Minus(top, Seed0)))
         /\ \A x : Lone(x) => Relative(Minus(x, Minus(top, Seed0)))
<1>1. PICK n \in Int, f \in Int, b \in Nat, m \in Nat, z \in Int, g \in Int :
        /\ n = NaN /\ f = PlusInf /\ b = MaxScore /\ m = MaxFinite /\ z = Seed0 /\ g = NegInf
        /\ m < f /\ f < n /\ z <= 0 /\ -m <= g /\ g < 0 /\ b - z <= m
  <2>1. MaxFinite \in Nat /\ {NaN, PlusInf, NegInf, Frame0, RescaleHeadroom} \subseteq Int
    BY Marks
  <2>2. /\ MaxScore \in Nat /\ MaxScore + RescaleHeadroom <= MaxFinite
        /\ Seed0 \in Int /\ Seed0 <= 0 /\ -Frame0 <= Seed0
    BY Ranges, Marks DEF TwoScores
  <2>3. MaxFinite < PlusInf /\ PlusInf < NaN /\ -MaxFinite <= NegInf /\ NegInf < 0 /\ Frame0 <= RescaleHeadroom
    BY Marks DEF Frame0, RescaleHeadroom
  <2>4. QED
    BY <2>1, <2>2, <2>3
<1>2. top \in Int /\ (top = f \/ top <= b) /\ z - b <= top /\ g < top
  BY <1>1 DEF Early, Lone
<1>3. PICK y \in Nat : y = -z /\ Neg(z) = y
  BY <1>1 DEF Neg
<1>4. PICK d \in Int : d = Plus(top, y) /\ ((top = f /\ d = f) \/ (top # f /\ d = top + y))
  <2>1. CASE top = f
    <3>1. y <= m /\ ~IsFinite(f) /\ IsFinite(y)
      BY <1>1, <1>3 DEF IsFinite
    <3>2. n \notin {f, y} /\ y # f /\ y # -f
      BY <1>1, <3>1
    <3>3. ~(NaN \in {top, y} \/ {top, y} = {PlusInf, -PlusInf}) /\ \E w \in {top, y} : ~IsFinite(w)
      BY <1>1, <2>1, <3>1, <3>2
    <3>4. Plus(top, y) = CHOOSE w \in {top, y} : ~IsFinite(w)
      BY <3>3, Zenon DEF Plus
    <3>5. Plus(top, y) = f
      BY <2>1, <3>1, <3>3, <3>4, Zenon
    <3>6. QED
      BY <1>1, <2>1, <3>5
  <2>2. CASE top # f
    <3>1. top <= m /\ y <= m /\ y \in Int /\ top \in Int /\ m = MaxFinite
      BY <1>1, <1>2, <1>3, <2>2
    <3>2. (Plus(top, y) \in {top, y} /\ Plus(top, y) < -m) \/ Plus(top, y) = top + y
      BY <3>1, LowPlus, Zenon
    <3>3. Plus(top, y) = top + y
      BY <1>1, <1>2, <1>3, <3>1, <3>2
    <3>4. QED
      BY <2>2, <3>1, <3>3
  <2>3. QED
    BY <2>1, <2>2
<1>5. d = Minus(top, Seed0)
  BY <1>1, <1>3, <1>4, Zenon DEF Minus
<1>6. PICK c \in Int : c = -d /\ Neg(d) = c /\ c <= b /\ z + c <= b
  <2>1. d # NaN
    BY <1>1, <1>2, <1>3, <1>4
  <2>2. Neg(d) = -d
    BY <2>1 DEF Neg
  <2>3. -d <= b /\ z - d <= b
    BY <1>1, <1>2, <1>3, <1>4
  <2>4. QED
    BY <2>2, <2>3
<1>7. Seed(Plus(z, c))
  <2>1. z \in Int /\ c \in Int /\ z <= m /\ c <= m /\ m = MaxFinite
    BY <1>1, <1>6
  <2>2. (Plus(z, c) \in {z, c} /\ Plus(z, c) < -m) \/ Plus(z, c) = z + c
    BY <2>1, LowPlus, Zenon
  <2>3. Plus(z, c) \in Int /\ Plus(z, c) <= b
    BY <1>1, <1>6, <2>2
  <2>4. QED
    BY <1>1, <2>3 DEF Seed
<1>8. ASSUME NEW x, Lone(x) PROVE Relative(Plus(x, c))
  <2>1. Seed(c)
    BY <1>1, <1>6 DEF Seed
  <2>2. QED
    BY <1>8, <2>1, Sums
<1>9. QED
  BY <1>1, <1>5, <1>6, <1>7, <1>8, Zenon DEF Minus

-----------------------------------------------------------------------------
(* A wave's frames.                                                        *)
Fields == {"seed", "s", "p", "o", "l", "moved", "m"}
Seeded(f) ==
  /\ DOMAIN f = Fields /\ \A r \in Rows : Seed(f.seed[r])
  /\ f.moved => \A r \in Rows : f.m[r] \in 0 .. MaxFinite
Held8(p) == \A r \in Rows : ~p[r].nan /\ \A k \in DOMAIN p[r].e : p[r].e[k] <= RescaleThreshold
Related(s) == \A r \in Rows : DOMAIN s[r] = KeysOfTile /\ \A i \in KeysOfTile : Relative(s[r][i])
FirstSeeds(f) == ~f.moved /\ \A r \in Rows : f.seed[r] = Seed0
FirstScores(f) ==
  /\ \A r \in Rows : f.seed[r] = Seed0
  /\ \A r \in Rows : DOMAIN f.s[r] = KeysOfTile /\ \A i \in KeysOfTile : Early(f.s[r][i])

(* Sums, and PV, leave the frames alone.                                   *)
Same(f, g) ==
  DOMAIN g = DOMAIN f /\ g.seed = f.seed /\ g.s = f.s /\ g.p = f.p /\ g.moved = f.moved /\ g.m = f.m

(* row_sums and pv change neither frames nor scores.                       *)
LEMMA SumsKeep ==
  ASSUME NEW f, DOMAIN f = Fields
  PROVE  Same(f, row_sums(f)) /\ Same(f, pv(f))
BY DEF Fields, Same, row_sums, pv

(* The block's sums and PV.                                                *)
LEMMA PvKeeps ==
  ASSUME NEW f, DOMAIN f = Fields
  PROVE  Same(f, Pv(f))
<1>1. CASE SumsAtEnd
  BY <1>1, SumsKeep DEF Pv
<1>2. CASE ~SumsAtEnd
  <2>1. PICK g : g = row_sums(f)
    OBVIOUS
  <2>2. Same(f, g) /\ DOMAIN g = Fields
    BY <2>1, SumsKeep DEF Same
  <2>3. Same(g, pv(g)) /\ Pv(f) = pv(g)
    BY <1>2, <2>1, <2>2, SumsKeep DEF Pv
  <2>4. QED
    BY <2>2, <2>3 DEF Same
<1>3. QED
  BY <1>1, <1>2

(* What lagged follows the frames.                                         *)
LEMMA FollowKeeps ==
  ASSUME NEW f, Seeded(f), NEW now
  PROVE  LET g == follow_frames(f, now) IN
         /\ Seeded(g)
         /\ ~f.moved => g = f
<1>1. CASE ~f.moved
  BY <1>1 DEF follow_frames
<1>2. CASE f.moved
  <2>1. PICK g : g = follow_frames(f, now)
    OBVIOUS
  <2>2. PICK o, l : g = [f EXCEPT !.seed = [r \in Rows |-> Minus(f.seed[r], f.m[r] \div Scale)], !.o = o, !.l = l]
    BY <1>2, <2>1 DEF follow_frames
  <2>3. DOMAIN g = Fields /\ g.moved = f.moved /\ g.m = f.m
    BY <2>2 DEF Seeded, Fields
  <2>4. g.seed = [r \in Rows |-> Minus(f.seed[r], f.m[r] \div Scale)]
    BY <2>2 DEF Seeded, Fields
  <2>5. ASSUME NEW r \in Rows PROVE Seed(g.seed[r])
    <3>1. Seed(f.seed[r]) /\ f.m[r] \in 0 .. MaxFinite
      BY <1>2 DEF Seeded
    <3>2. Seed(Minus(f.seed[r], f.m[r] \div Scale))
      BY <3>1, SeedFollows
    <3>3. g.seed[r] = Minus(f.seed[r], f.m[r] \div Scale)
      BY <2>4, Zenon
    <3>4. QED
      BY <3>2, <3>3, Zenon
  <2>6. \A r \in Rows : g.m[r] \in 0 .. MaxFinite
    BY <1>2, <2>3, Zenon DEF Seeded
  <2>7. Seeded(g)
    BY <2>3, <2>5, <2>6, Zenon DEF Seeded
  <2>8. QED
    BY <1>2, <2>1, <2>7
<1>3. QED
  BY <1>1, <1>2

(* QK: scores relative to their seeds.                                     *)
LEMMA QkScores ==
  ASSUME NEW f, Seeded(f), NEW s,
         \A r \in Rows : \A i \in KeysOfTile :
            s[r][i] \in Int /\ (s[r][i] \in {NaN, PlusInf, -PlusInf} \/ s[r][i] \in -MaxScore .. MaxScore)
  PROVE  LET g == qk(f, s) IN
         /\ Seeded(g) /\ Related(g.s)
         /\ FirstSeeds(f) => FirstScores(g)
<1>1. PICK g : g = qk(f, s)
  OBVIOUS
<1>2. /\ DOMAIN g = Fields /\ g.seed = f.seed /\ g.moved = f.moved /\ g.m = f.m
      /\ g.s = [r \in Rows |-> [i \in KeysOfTile |-> Plus(s[r][i], f.seed[r])]]
  BY <1>1 DEF qk, Seeded, Fields
<1>3. Seeded(g)
  BY <1>2, Zenon DEF Seeded
<1>4. ASSUME NEW r \in Rows
      PROVE  /\ DOMAIN g.s[r] = KeysOfTile
             /\ \A i \in KeysOfTile : g.s[r][i] = Plus(s[r][i], f.seed[r])
  <2>1. g.s[r] = [i \in KeysOfTile |-> Plus(s[r][i], f.seed[r])]
    BY <1>2, Zenon
  <2>2. QED
    BY <2>1, Zenon
<1>5. ASSUME NEW r \in Rows, NEW i \in KeysOfTile
      PROVE  Lone(s[r][i]) /\ Early(Plus(s[r][i], Seed0))
  <2>1. PICK x \in Int : x = s[r][i] /\ (x = NaN \/ x = PlusInf \/ x = -PlusInf \/ x \in -MaxScore .. MaxScore)
    OBVIOUS
  <2>2. Lone(x) /\ Early(Plus(x, Seed0))
    BY <2>1, EarlyScores
  <2>3. QED
    BY <2>1, <2>2, Zenon
<1>6. Related(g.s)
  <2>1. ASSUME NEW r \in Rows, NEW i \in KeysOfTile PROVE Relative(g.s[r][i])
    <3>1. Seed(f.seed[r]) /\ Lone(s[r][i])
      BY <1>5, Zenon DEF Seeded
    <3>2. Relative(Plus(s[r][i], f.seed[r]))
      BY <3>1, Sums, Zenon
    <3>3. QED
      BY <1>4, <3>2, Zenon
  <2>2. QED
    BY <1>4, <2>1, Zenon DEF Related
<1>7. ASSUME FirstSeeds(f) PROVE FirstScores(g)
  <2>1. \A r \in Rows : g.seed[r] = Seed0 /\ f.seed[r] = Seed0
    BY <1>2, <1>7, Zenon DEF FirstSeeds
  <2>2. ASSUME NEW r \in Rows, NEW i \in KeysOfTile PROVE Early(g.s[r][i])
    BY <1>4, <1>5, <2>1, Zenon
  <2>3. QED
    BY <1>4, <2>1, <2>2, Zenon DEF FirstScores
<1>8. QED
  BY <1>1, <1>3, <1>6, <1>7

(* Masks.                                                                  *)
LEMMA Masked == Early(MaskScore) /\ Relative(MaskScore)
<1>1. MaskScore \in Int /\ NegInf \in Int /\ MaskScore < NegInf /\ NegInf < 0
  BY Marks
<1>2. MaxScore \in Nat /\ TwoScores \in Nat
  BY Ranges
<1>3. MaskScore <= MaxScore /\ MaskScore <= TwoScores /\ ~(NegInf < MaskScore)
  BY <1>1, <1>2
<1>4. QED
  BY <1>1, <1>3, Zenon DEF Early, Lone, Relative

(* Masking keeps scores in range, in the first tile and later.             *)
LEMMA MasksKeep ==
  ASSUME NEW f, Seeded(f), NEW limits
  PROVE  LET g == mask_scores(f, limits) IN
         /\ Seeded(g)
         /\ Related(f.s) => Related(g.s)
         /\ FirstScores(f) => FirstScores(g)
<1>1. PICK g : g = mask_scores(f, limits)
  OBVIOUS
<1>2. /\ DOMAIN g = Fields /\ g.seed = f.seed /\ g.moved = f.moved /\ g.m = f.m
      /\ g.s = [r \in Rows |-> [i \in KeysOfTile |-> IF i > limits[r] THEN MaskScore ELSE f.s[r][i]]]
  BY <1>1 DEF mask_scores, Seeded, Fields
<1>3. ASSUME NEW r \in Rows
      PROVE  /\ DOMAIN g.s[r] = KeysOfTile
             /\ \A i \in KeysOfTile : g.s[r][i] = MaskScore \/ g.s[r][i] = f.s[r][i]
  <2>1. g.s[r] = [i \in KeysOfTile |-> IF i > limits[r] THEN MaskScore ELSE f.s[r][i]]
    BY <1>2, Zenon
  <2>2. QED
    BY <2>1, Zenon
<1>4. Seeded(g)
  BY <1>2, Zenon DEF Seeded
<1>5. Related(f.s) => Related(g.s)
  BY <1>3, Masked, Zenon DEF Related
<1>6. FirstScores(f) => FirstScores(g)
  BY <1>2, <1>3, Masked, Zenon DEF FirstScores
<1>7. QED
  BY <1>1, <1>4, <1>5, <1>6, Zenon

(* A row's first shift.                                                    *)
Movable(shift) ==
  Seed(Minus(Seed0, shift)) /\ \A x : Lone(x) => Relative(Minus(x, shift))

(* A row without a score to move to stays.                                 *)
LEMMA NoShift == Movable(0)
<1>1. PICK m \in Nat, z \in Int, b \in Nat, n \in Int :
        m = MaxFinite /\ z = Seed0 /\ b = MaxScore /\ n = NaN /\ z <= 0 /\ m < n
  <2>1. MaxFinite \in Nat /\ NaN \in Int /\ MaxFinite < NaN
    BY Marks
  <2>2. MaxScore \in Nat /\ Seed0 \in Int /\ Seed0 <= 0
    BY Ranges
  <2>3. QED
    BY <2>1, <2>2, Zenon
<1>2. Neg(0) = 0
  <2>1. 0 # NaN
    BY <1>1
  <2>2. Neg(0) = -0
    BY <2>1, Zenon DEF Neg
  <2>3. QED
    BY <2>2
<1>3. z \in Int /\ 0 \in Int /\ z <= m /\ 0 <= m /\ m = MaxFinite
  BY <1>1
<1>4. (Plus(z, 0) \in {z, 0} /\ Plus(z, 0) < -m) \/ Plus(z, 0) = z + 0
  BY <1>3, LowPlus, Zenon
<1>5. Plus(z, 0) \in Int /\ Plus(z, 0) <= b
  BY <1>1, <1>4
<1>6. Seed(Minus(Seed0, 0))
  BY <1>1, <1>2, <1>5 DEF Seed, Minus
<1>7. Seed(0)
  BY <1>1 DEF Seed
<1>8. \A x : Lone(x) => Relative(Minus(x, 0))
  BY <1>2, <1>7, Sums, Zenon DEF Minus
<1>9. QED
  BY <1>6, <1>8 DEF Movable

(* A row's largest score.                                                  *)
LEMMA RowMax ==
  ASSUME NEW s, DOMAIN s = KeysOfTile, \A i \in KeysOfTile : Early(s[i])
  PROVE  Early(DropMax(Range(s))) /\ DropMax(Range(s)) # NaN
<1>1. Range(s) \in SUBSET Int /\ \A x \in Range(s) : x <= NaN /\ Early(x)
  <2>1. PICK n \in Int, f \in Int, b \in Nat : n = NaN /\ f = PlusInf /\ b = MaxScore /\ f <= n /\ b <= n
    <3>1. NaN \in Int /\ PlusInf \in Int /\ PlusInf < NaN /\ MaxFinite \in Int /\ MaxFinite < PlusInf
      BY Marks
    <3>2. MaxScore \in Nat /\ MaxScore <= MaxFinite
      BY Ranges, Marks DEF TwoScores
    <3>3. PlusInf <= NaN /\ MaxScore <= NaN
      BY <3>1, <3>2
    <3>4. QED
      BY <3>1, <3>2, <3>3, Zenon
  <2>2. ASSUME NEW x \in Range(s) PROVE x \in Int /\ x <= NaN /\ Early(x)
    <3>1. PICK i \in KeysOfTile : x = s[i]
      BY Zenon DEF Range
    <3>2. Early(x)
      BY <3>1, Zenon
    <3>3. QED
      BY <2>1, <3>2 DEF Early, Lone
  <2>3. QED
    BY <2>2
<1>2. PICK S \in SUBSET Int : S = Range(s) /\ \A x \in S : x <= NaN /\ Early(x)
  BY <1>1
<1>3. DropMax(S) \in (S \ {NaN}) \cup {MaskScore}
  BY <1>2, MaxesAre
<1>4. MaskScore # NaN
  BY Marks
<1>5. QED
  BY <1>2, <1>3, <1>4, Masked, Zenon

(* The first tile's frames, moved to its scores.                           *)
LEMMA FirstFramesMove ==
  ASSUME NEW f, Seeded(f), FirstScores(f), Related(f.s)
  PROVE  Seeded(set_row_frames(f)) /\ Related(set_row_frames(f).s)
<1>1. PICK shift : shift = [r \in Rows |->
          IF DropMax(Range(f.s[r])) > NegInf THEN Minus(DropMax(Range(f.s[r])), f.seed[r]) ELSE 0]
  OBVIOUS
<1>2. set_row_frames(f) = f \/ set_row_frames(f) = shift_frames(f, shift)
  BY <1>1, Zenon DEF set_row_frames
<1>3. ASSUME NEW r \in Rows PROVE Movable(shift[r]) /\ f.seed[r] = Seed0
  <2>1. f.seed[r] = Seed0 /\ DOMAIN f.s[r] = KeysOfTile /\ \A i \in KeysOfTile : Early(f.s[r][i])
    BY Zenon DEF FirstScores
  <2>2. PICK top : top = DropMax(Range(f.s[r])) /\ Early(top) /\ top # NaN
    BY <2>1, RowMax, Zenon
  <2>3. shift[r] = IF top > NegInf THEN Minus(top, Seed0) ELSE 0
    BY <1>1, <2>1, <2>2, Zenon
  <2>4. CASE top > NegInf
    <3>1. NegInf < top
      BY <2>2, <2>4, Marks DEF Early, Lone
    <3>2. Movable(Minus(top, Seed0))
      BY <2>2, <3>1, FirstShift, Zenon DEF Movable
    <3>3. QED
      BY <2>1, <2>3, <2>4, <3>2, Zenon
  <2>5. CASE ~(top > NegInf)
    BY <2>1, <2>3, <2>5, NoShift, Zenon
  <2>6. QED
    BY <2>4, <2>5
<1>4. PICK g : g = shift_frames(f, shift)
  OBVIOUS
<1>5. /\ DOMAIN g = Fields /\ g.moved = f.moved /\ g.m = f.m
      /\ g.seed = [r \in Rows |-> Minus(f.seed[r], shift[r])]
      /\ g.s = [r \in Rows |-> [i \in KeysOfTile |-> Minus(f.s[r][i], shift[r])]]
  BY <1>4 DEF shift_frames, Seeded, Fields
<1>6. Seeded(g)
  <2>1. ASSUME NEW r \in Rows PROVE Seed(g.seed[r])
    BY <1>3, <1>5, Zenon DEF Movable
  <2>2. QED
    BY <1>5, <2>1, Zenon DEF Seeded
<1>7. Related(g.s)
  <2>1. ASSUME NEW r \in Rows PROVE DOMAIN g.s[r] = KeysOfTile /\ \A i \in KeysOfTile : Relative(g.s[r][i])
    <3>1. g.s[r] = [i \in KeysOfTile |-> Minus(f.s[r][i], shift[r])]
      BY <1>5, Zenon
    <3>2. ASSUME NEW i \in KeysOfTile PROVE Relative(g.s[r][i])
      <4>1. g.s[r][i] = Minus(f.s[r][i], shift[r])
        BY <3>1, Zenon
      <4>2. Lone(f.s[r][i])
        BY Zenon DEF FirstScores, Early
      <4>3. QED
        BY <1>3, <4>1, <4>2, Zenon DEF Movable
    <3>3. QED
      BY <3>1, <3>2, Zenon
  <2>2. QED
    BY <2>1, Zenon DEF Related
<1>8. QED
  BY <1>2, <1>4, <1>6, <1>7, Zenon

(* The extras of a rare tile.                                              *)
LEMMA ExtrasKeep ==
  ASSUME NEW f, Seeded(f), Related(f.s), t = 0 => FirstScores(f)
  PROVE  Seeded(Extras(f)) /\ Related(Extras(f).s)
<1>1. PICK limits : limits = [r \in Rows |-> LastKey(r) - Key0(t)]
  OBVIOUS
<1>2. PICK g : g = IF t < NumUnmasked THEN f ELSE mask_scores(f, limits)
  OBVIOUS
<1>3. Seeded(g) /\ Related(g.s) /\ (t = 0 => FirstScores(g))
  <2>1. g = f \/ g = mask_scores(f, limits)
    BY <1>2, Zenon
  <2>2. QED
    BY <2>1, MasksKeep, Zenon
<1>4. Extras(f) = IF t = 0 THEN set_row_frames(g) ELSE g
  BY <1>1, <1>2, Zenon DEF Extras
<1>5. QED
  BY <1>3, <1>4, FirstFramesMove, Zenon

(* P of scores at most the threshold.                                      *)
LEMMA ExpHeld ==
  ASSUME NEW g, DOMAIN g = Fields, NEW key0 \in Int,
         \A r \in Rows : \A i \in KeysOfTile : Below8(g.s[r][i])
  PROVE  LET h == exp_scores(g, key0) IN
         /\ DOMAIN h = Fields /\ h.seed = g.seed /\ h.moved = g.moved /\ h.m = g.m
         /\ Held8(h.p)
<1>1. PICK h : h = exp_scores(g, key0)
  OBVIOUS
<1>2. /\ DOMAIN h = Fields /\ h.seed = g.seed /\ h.moved = g.moved /\ h.m = g.m
      /\ h.p = [r \in Rows |-> Exp2(g.s[r], key0)]
  BY <1>1 DEF exp_scores, Fields
<1>3. ASSUME NEW r \in Rows
      PROVE  ~h.p[r].nan /\ \A k \in DOMAIN h.p[r].e : h.p[r].e[k] <= RescaleThreshold
  <2>1. PICK s : s = g.s[r]
    OBVIOUS
  <2>2. PICK K, p : K = {key0 + i : i \in KeysOfTile} /\ p = [k \in K |-> s[k - key0]]
    OBVIOUS
  <2>3. ASSUME NEW k \in K PROVE Below8(p[k])
    <3>1. PICK i \in KeysOfTile : k = key0 + i
      BY <2>2
    <3>2. i \in Int
      BY FramesAssumption
    <3>3. k - key0 = i
      BY <3>1, <3>2
    <3>4. p[k] = s[i]
      BY <2>2, <3>3
    <3>5. QED
      BY <2>1, <3>4
  <2>4. DOMAIN p = K
    BY <2>2
  <2>5. ~ \E k \in DOMAIN p : p[k] > MaxExp
    BY <2>3, <2>4, Marks DEF Below8
  <2>6. PICK T \in SUBSET K : Exp2(s, key0).e = [k \in T |-> p[k]]
    <3>1. PICK T : T = {k \in DOMAIN p : p[k] >= MinExp /\ p[k] <= MaxExp}
      OBVIOUS
    <3>2. Exp2(s, key0).e = Restrict(p, T)
      BY <2>2, <3>1 DEF Exp2, Keep
    <3>3. Restrict(p, T) = [k \in T |-> p[k]]
      BY Zenon DEF Restrict
    <3>4. T \in SUBSET K
      BY <2>4, <3>1
    <3>5. QED
      BY <3>2, <3>3, <3>4, Zenon
  <2>7. ~Exp2(s, key0).nan
    BY <2>2, <2>5 DEF Exp2
  <2>8. h.p[r] = Exp2(s, key0)
    BY <1>2, <2>1, Zenon
  <2>9. \A k \in DOMAIN Exp2(s, key0).e : Exp2(s, key0).e[k] <= RescaleThreshold
    BY <2>3, <2>6 DEF Below8
  <2>10. QED
    BY <2>7, <2>8, <2>9
<1>4. QED
  BY <1>1, <1>2, <1>3, Zenon DEF Held8

(* Every score is in a lane of its row.                                    *)
LEMMA InItsLane ==
  ASSUME NEW i \in KeysOfTile
  PROVE  LaneOf(i) \in Lanes /\ \A s : s[i] \in InLane(s, LaneOf(i))
<1>1. PICK n \in Nat : n = Cardinality(Lanes) /\ Lanes = 0 .. n - 1 /\ Lanes # {}
  BY FramesAssumption, FS_CardinalityType
<1>2. n \in Nat \ {0} /\ i \in Int
  <2>1. PICK x \in Lanes : TRUE
    BY <1>1
  <2>2. x \in 0 .. n - 1
    BY <1>1, Zenon
  <2>3. i \in Nat
    BY FramesAssumption
  <2>4. QED
    BY <2>2, <2>3
<1>3. i % n \in 0 .. n - 1
  BY <1>2, Quotient
<1>4. LaneOf(i) \in Lanes
  BY <1>1, <1>3, Zenon DEF LaneOf
<1>5. QED
  BY <1>4, Zenon DEF InLane

(* A lane's largest score bounds its scores.                               *)
LEMMA LaneMax ==
  ASSUME NEW s, \A i \in KeysOfTile : Relative(s[i]), NEW g \in Lanes
  PROVE  /\ Relative(KeepMax(InLane(s, g)))
         /\ \A x \in InLane(s, g) : x \in Int /\ x <= KeepMax(InLane(s, g))
<1>1. PICK n \in Int, f \in Int, b \in Nat : n = NaN /\ f = PlusInf /\ b = TwoScores /\ f <= n /\ b <= n
  <2>1. NaN \in Int /\ PlusInf \in Int /\ PlusInf < NaN /\ MaxFinite \in Int /\ MaxFinite < PlusInf
    BY Marks
  <2>2. TwoScores \in Nat /\ TwoScores <= MaxFinite
    BY Ranges, Marks
  <2>3. PlusInf <= NaN /\ TwoScores <= NaN
    BY <2>1, <2>2
  <2>4. QED
    BY <2>1, <2>2, <2>3, Zenon
<1>2. ASSUME NEW x \in InLane(s, g) PROVE x \in Int /\ x <= NaN /\ Relative(x)
  <2>1. Relative(x)
    BY Zenon DEF InLane
  <2>2. QED
    BY <1>1, <2>1 DEF Relative
<1>3. PICK S \in SUBSET Int : S = InLane(s, g) /\ \A x \in S : x <= NaN /\ Relative(x)
  BY <1>2
<1>4. KeepMax(S) \in S \cup {MaskScore} /\ \A x \in S : x <= KeepMax(S)
  BY <1>3, MaxesAre
<1>5. Relative(KeepMax(S))
  BY <1>3, <1>4, Masked, Zenon
<1>6. QED
  BY <1>3, <1>4, <1>5, Zenon

(* A tile whose scores outgrow no frame.                                   *)
LEMMA StillInFrame ==
  ASSUME NEW f, Related(f.s), ~frames_outgrown(f), NEW r \in Rows, NEW i \in KeysOfTile
  PROVE  Below8(Scaled(f.s[r][i]))
<1>1. PICK g, s : g \in Lanes /\ g = LaneOf(i) /\ s = f.s[r] /\ s[i] \in InLane(s, g)
  BY InItsLane, Zenon
<1>2. \A j \in KeysOfTile : Relative(s[j])
  BY <1>1, Zenon DEF Related
<1>3. PICK k \in Int, x \in Int : k = KeepMax(InLane(s, g)) /\ x = s[i] /\ x <= k
  <2>1. Relative(KeepMax(InLane(s, g))) /\ s[i] \in Int /\ s[i] <= KeepMax(InLane(s, g))
    BY <1>1, <1>2, LaneMax, Zenon
  <2>2. QED
    BY <2>1 DEF Relative
<1>4. PICK w \in Int : w = RescaleThreshold \div Scale
  <2>1. Scale \in Nat \ {0} /\ RescaleThreshold \in Int
    BY Marks, Ranges
  <2>2. QED
    BY <2>1, Quotient, Zenon
<1>5. ~(k > w)
  BY <1>1, <1>3, <1>4, Zenon DEF frames_outgrown
<1>6. x <= RescaleThreshold \div Scale
  BY <1>3, <1>4, <1>5
<1>7. Scaled(x) \in Int /\ Scaled(x) <= RescaleThreshold
  BY <1>6, NotOutgrown
<1>8. QED
  BY <1>1, <1>3, <1>7 DEF Below8

(* A row whose frame is moved, unless it has a NaN or +inf score.          *)
Lane(f, r, g) == KeepMax(InLane(f.s[r], g))
Top(f, r) == DropMax({Lane(f, r, g) : g \in Lanes})

(* Its shift is finite, and every score of it lands below the threshold.   *)
LEMMA MovedRow ==
  ASSUME NEW f, Related(f.s), NEW r \in Rows, \A g \in Lanes : ~(Lane(f, r, g) > MaxFinite)
  PROVE  /\ Shift(Top(f, r)) \in 0 .. MaxFinite
         /\ \A i \in KeysOfTile : Below8(Minus(Scaled(f.s[r][i]), Shift(Top(f, r))))
<1>1. PICK n \in Int, p \in Int, b \in Nat, m \in Nat :
        n = NaN /\ p = PlusInf /\ b = TwoScores /\ m = MaxFinite /\ m < p /\ p < n /\ b <= m
  <2>1. NaN \in Int /\ PlusInf \in Int /\ PlusInf < NaN /\ MaxFinite \in Nat /\ MaxFinite < PlusInf
    BY Marks
  <2>2. TwoScores \in Nat /\ TwoScores <= MaxFinite
    BY Ranges, Marks
  <2>3. QED
    BY <2>1, <2>2, Zenon
<1>2. PICK s : s = f.s[r] /\ \A j \in KeysOfTile : Relative(s[j])
  BY Zenon DEF Related
<1>3. ASSUME NEW g \in Lanes PROVE Lane(f, r, g) \in Int /\ Lane(f, r, g) <= b
  <2>1. PICK x : x = Lane(f, r, g) /\ Relative(x) /\ ~(x > m)
    BY <1>1, <1>2, LaneMax, Zenon DEF Lane
  <2>2. QED
    BY <1>1, <2>1 DEF Relative
<1>4. PICK S \in SUBSET Int : /\ S = {Lane(f, r, g) : g \in Lanes} /\ \A x \in S : x <= b /\ x # NaN /\ x <= NaN
                             /\ \A g \in Lanes : Lane(f, r, g) \in S
  <2>1. ASSUME NEW g \in Lanes PROVE /\ Lane(f, r, g) \in Int /\ Lane(f, r, g) <= b
                                     /\ Lane(f, r, g) # NaN /\ Lane(f, r, g) <= NaN
    BY <1>1, <1>3
  <2>2. PICK S : S = {Lane(f, r, g) : g \in Lanes}
    OBVIOUS
  <2>3. \A x \in S : \E g \in Lanes : x = Lane(f, r, g)
    BY <2>2, Zenon
  <2>4. \A g \in Lanes : Lane(f, r, g) \in S
    BY <2>2, Zenon
  <2>5. \A x \in S : x \in Int /\ x <= b /\ x # NaN /\ x <= NaN
    BY <2>1, <2>3, Zenon
  <2>6. QED
    BY <2>2, <2>4, <2>5, Zenon
<1>5. PICK top \in Int : top = Top(f, r) /\ top \in S \cup {MaskScore} /\ \A x \in S : x <= top
  <2>1. /\ DropMax(S) \in (S \ {NaN}) \cup {MaskScore} /\ \A x \in S \ {NaN} : x <= DropMax(S)
        /\ DropMax(S) \in Int
    BY <1>4, MaxesAre
  <2>2. Top(f, r) = DropMax(S)
    BY <1>4, Zenon DEF Top
  <2>3. QED
    BY <1>4, <2>1, <2>2
<1>6. top <= TwoScores
  <2>1. MaskScore \in Int /\ MaskScore < NegInf /\ NegInf \in Int /\ NegInf < 0
    BY Marks
  <2>2. MaskScore <= b
    BY <2>1
  <2>3. QED
    BY <1>1, <1>4, <1>5, <2>2, Zenon
<1>7. ASSUME NEW i \in KeysOfTile PROVE f.s[r][i] \in Int /\ f.s[r][i] <= top
  <2>1. PICK g \in Lanes : s[i] \in InLane(s, g)
    BY InItsLane, Zenon
  <2>2. s[i] \in Int /\ s[i] <= Lane(f, r, g)
    BY <1>2, <2>1, LaneMax, Zenon DEF Lane
  <2>3. Lane(f, r, g) <= top /\ Lane(f, r, g) \in Int
    <3>1. Lane(f, r, g) \in S
      BY <1>4, Zenon
    <3>2. Lane(f, r, g) \in Int /\ Lane(f, r, g) <= top
      BY <1>3, <1>5, <3>1, Zenon
    <3>3. QED
      BY <3>2
  <2>4. QED
    BY <1>2, <2>2, <2>3
<1>8. /\ Shift(top) \in 0 .. MaxFinite
      /\ \A x \in Int : x <= top => Below8(Minus(Scaled(x), Shift(top)))
  BY <1>6, Shifts
<1>9. QED
  BY <1>5, <1>7, <1>8, Zenon

(* Moved frames: rows with a NaN or +inf score are masked.                 *)
MovedTo(f, g) ==
  /\ DOMAIN g = Fields /\ g.seed = f.seed /\ \A r \in Rows : g.m[r] \in 0 .. MaxFinite
  /\ \A r \in Rows : \A i \in KeysOfTile : Below8(g.s[r][i])

(* move_frames and mask_nonfinite leave every score below the threshold    *)
(* and every shift finite.                                                 *)
LEMMA MovedFrames ==
  ASSUME NEW f, Seeded(f), Related(f.s), NEW scaled, DOMAIN scaled = Fields, NEW now,
         scaled.seed = f.seed, scaled.s = [r \in Rows |-> [i \in KeysOfTile |-> Scaled(f.s[r][i])]]
  PROVE  MovedTo(f, move_frames(f, scaled, now))
<1>1. PICK bad : bad = {r \in Rows : \E g \in Lanes : Lane(f, r, g) > MaxFinite}
  OBVIOUS
<1>2. PICK m, l, s : /\ m = [r \in Rows |-> Shift(Top(f, r))]
                     /\ l = [r \in Rows |-> IF now THEN TimesExp2(f.l[r], Neg(m[r])) ELSE f.l[r]]
                     /\ s = [r \in Rows |-> [i \in KeysOfTile |-> Minus(scaled.s[r][i], m[r])]]
  OBVIOUS
<1>3. PICK moved : moved = [scaled EXCEPT !.m = m, !.s = s, !.l = l]
  OBVIOUS
<1>4. PICK g : g = move_frames(f, scaled, now)
  OBVIOUS
<1>5. g = IF bad = {} THEN moved ELSE mask_nonfinite(moved, bad)
  <2>1. m = [r \in Rows |-> DropMax({Plus(Scaled(DropMax({KeepMax(InLane(f.s[r], q)) : q \in Lanes})), RescaleHeadroom), 0})]
    BY <1>2, Zenon DEF Shift, Top, Lane
  <2>2. bad = {r \in Rows : \E q \in Lanes : KeepMax(InLane(f.s[r], q)) > MaxFinite}
    BY <1>1, Zenon DEF Lane
  <2>3. QED
    BY <1>2, <1>3, <1>4, <2>1, <2>2, Zenon DEF move_frames
<1>6. DOMAIN moved = Fields /\ moved.seed = f.seed /\ moved.m = m /\ moved.s = s
  BY <1>3 DEF Fields
<1>7. \/ bad = {} /\ g = moved
      \/ /\ DOMAIN g = Fields /\ g.seed = moved.seed
         /\ g.m = [r \in Rows |-> IF r \in bad THEN 0 ELSE moved.m[r]]
         /\ g.s = [r \in Rows |-> IF r \in bad THEN [i \in KeysOfTile |-> MaskScore] ELSE moved.s[r]]
  <2>1. CASE bad = {}
    BY <1>5, <2>1, Zenon
  <2>2. CASE bad # {}
    BY <1>5, <1>6, <2>2 DEF mask_nonfinite, Fields
  <2>3. QED
    BY <2>1, <2>2
<1>8. DOMAIN g = Fields /\ g.seed = f.seed
  BY <1>6, <1>7, Zenon
<1>9. ASSUME NEW r \in Rows PROVE g.m[r] \in 0 .. MaxFinite /\ \A i \in KeysOfTile : Below8(g.s[r][i])
  <2>1. CASE r \in bad
    <3>1. g.m[r] = 0 /\ g.s[r] = [i \in KeysOfTile |-> MaskScore]
      BY <1>7, <2>1, Zenon
    <3>2. MaskScore \in Int /\ MaskScore < NegInf /\ NegInf \in Int /\ NegInf < 0 /\ MaxFinite \in Nat /\ RescaleThreshold \in Nat
      BY Marks
    <3>3. Below8(MaskScore) /\ 0 \in 0 .. MaxFinite
      BY <3>2 DEF Below8
    <3>4. QED
      BY <3>1, <3>3, Zenon
  <2>2. CASE r \notin bad
    <3>1. \A q \in Lanes : ~(Lane(f, r, q) > MaxFinite)
      BY <1>1, <2>2, Zenon
    <3>2. /\ Shift(Top(f, r)) \in 0 .. MaxFinite
          /\ \A i \in KeysOfTile : Below8(Minus(Scaled(f.s[r][i]), Shift(Top(f, r))))
      BY <3>1, MovedRow
    <3>3. g.m[r] = m[r] /\ g.s[r] = s[r]
      BY <1>6, <1>7, <2>2, Zenon
    <3>4. m[r] = Shift(Top(f, r))
      BY <1>2, Zenon
    <3>5. ASSUME NEW i \in KeysOfTile PROVE s[r][i] = Minus(Scaled(f.s[r][i]), m[r])
      <4>1. s[r] = [j \in KeysOfTile |-> Minus(scaled.s[r][j], m[r])]
        BY <1>2, Zenon
      <4>2. scaled.s[r] = [j \in KeysOfTile |-> Scaled(f.s[r][j])]
        BY Zenon
      <4>3. s[r][i] = Minus(scaled.s[r][i], m[r]) /\ scaled.s[r][i] = Scaled(f.s[r][i])
        BY <4>1, <4>2, Zenon
      <4>4. QED
        BY <4>3, Zenon
    <3>6. QED
      BY <3>2, <3>3, <3>4, <3>5, Zenon
  <2>3. QED
    BY <2>1, <2>2
<1>10. QED
  BY <1>4, <1>8, <1>9, Zenon DEF MovedTo

(* A tile's softmax: P in range, and the frames to follow.                 *)
LEMMA SoftmaxHolds ==
  ASSUME NEW f, Seeded(f), Related(f.s), NEW key0 \in Int, NEW now
  PROVE  LET g == softmax_rows(f, key0, now) IN Seeded(g) /\ Held8(g.p)
<1>1. PICK scaled : scaled = [scale_scores(f) EXCEPT !.moved = frames_outgrown(f)]
  OBVIOUS
<1>2. PICK g : g = IF frames_outgrown(f) THEN move_frames(f, scaled, now) ELSE scaled
  OBVIOUS
<1>3. PICK h : h = softmax_rows(f, key0, now)
  OBVIOUS
<1>4. h = exp_scores(g, key0)
  BY <1>1, <1>2, <1>3, Zenon DEF softmax_rows
<1>5. /\ DOMAIN scaled = Fields /\ scaled.seed = f.seed
      /\ scaled.s = [r \in Rows |-> [i \in KeysOfTile |-> Scaled(f.s[r][i])]]
  BY <1>1 DEF scale_scores, Seeded, Fields
<1>6. scaled.moved = frames_outgrown(f)
  <2>1. PICK x : x = frames_outgrown(f)
    OBVIOUS
  <2>2. scaled = [scale_scores(f) EXCEPT !.moved = x]
    BY <1>1, <2>1, Zenon
  <2>3. scaled.moved = x
    BY <2>2 DEF scale_scores, Seeded, Fields
  <2>4. QED
    BY <2>1, <2>3, Zenon
<1>7. CASE frames_outgrown(f)
  <2>1. g = move_frames(f, scaled, now)
    BY <1>2, <1>7, Zenon
  <2>2. /\ DOMAIN g = Fields /\ g.seed = f.seed /\ \A r \in Rows : g.m[r] \in 0 .. MaxFinite
        /\ \A r \in Rows : \A i \in KeysOfTile : Below8(g.s[r][i])
    <3>1. MovedTo(f, move_frames(f, scaled, now))
      BY <1>5, MovedFrames
    <3>2. QED
      BY <2>1, <3>1, Zenon DEF MovedTo
  <2>3. /\ DOMAIN h = Fields /\ h.seed = g.seed /\ h.m = g.m
        /\ Held8(h.p)
    BY <1>4, <2>2, ExpHeld, Zenon
  <2>4. Seeded(h)
    BY <2>2, <2>3, Zenon DEF Seeded
  <2>5. QED
    BY <1>3, <2>3, <2>4, Zenon
<1>8. CASE ~frames_outgrown(f)
  <2>1. g = scaled
    BY <1>2, <1>8, Zenon
  <2>2. ASSUME NEW r \in Rows, NEW i \in KeysOfTile PROVE Below8(g.s[r][i])
    <3>1. g.s[r] = [j \in KeysOfTile |-> Scaled(f.s[r][j])]
      BY <1>5, <2>1, Zenon
    <3>2. g.s[r][i] = Scaled(f.s[r][i])
      BY <3>1, Zenon
    <3>3. QED
      BY <1>8, <3>2, StillInFrame, Zenon
  <2>3. /\ DOMAIN h = Fields /\ h.seed = g.seed /\ h.moved = g.moved
        /\ Held8(h.p)
    BY <1>4, <1>5, <2>1, <2>2, ExpHeld, Zenon
  <2>4. ~h.moved
    BY <1>6, <1>8, <2>1, <2>3, Zenon
  <2>5. Seeded(h)
    BY <1>5, <2>1, <2>3, <2>4, Zenon DEF Seeded
  <2>6. QED
    BY <1>3, <2>3, <2>5, Zenon
<1>9. QED
  BY <1>7, <1>8

-----------------------------------------------------------------------------
SumsInv ==
  /\ pc \in {"block", "softmax"} => Seeded(frames)
  /\ pc = "block" => Held8(frames.p) /\ (t = 0 => FirstSeeds(frames))
  /\ pc = "softmax" => Related(frames.s) /\ (t = 0 => FirstScores(frames))

(* The first frames.                                                       *)
LEMMA FirstFramesHold == Seeded(FirstFrames) /\ Held8(FirstFrames.p) /\ FirstSeeds(FirstFrames)
<1>1. PICK f : f = FirstFrames
  OBVIOUS
<1>2. /\ DOMAIN f = Fields /\ ~f.moved
      /\ f.seed = [r \in Rows |-> -(Frame0 \div Scale)] /\ f.p = [r \in Rows |-> ZeroSum]
  BY <1>1 DEF FirstFrames, Fields
<1>3. \A r \in Rows : f.seed[r] = Seed0 /\ f.p[r] = ZeroSum
  BY <1>2, Zenon DEF Seed0
<1>4. Seed(Seed0)
  BY Ranges DEF Seed
<1>5. ~ZeroSum.nan /\ DOMAIN ZeroSum.e = {}
  BY DEF ZeroSum, NoKeys
<1>6. Seeded(f)
  BY <1>2, <1>3, <1>4, Zenon DEF Seeded
<1>7. Held8(f.p)
  BY <1>3, <1>5 DEF Held8
<1>8. FirstSeeds(f)
  BY <1>2, <1>3, Zenon DEF FirstSeeds
<1>9. QED
  BY <1>1, <1>6, <1>7, <1>8, Zenon

(* A wave starts before its first frames.                                  *)
LEMMA SumsStart == Init => SumsInv
BY DEF Init, SumsInv

(* Every step of a wave keeps its frames seeded and its P in range.        *)
LEMMA SumsKept == LoadsInv /\ SumsInv /\ [Next]_vars => SumsInv'
<1>1. SUFFICES ASSUME LoadsInv, SumsInv, [Next]_vars PROVE SumsInv'
  OBVIOUS
<1>2. call \in Calls /\ part \in DOMAIN call.parts /\ (pc \in Moving => t \in Nat)
  BY <1>1 DEF LoadsInv
<1>3. CASE Prologue
  <2>1. frames' = FirstFrames /\ pc' = "block" /\ t' = 0
    BY <1>3 DEF Prologue
  <2>2. QED
    BY <2>1, FirstFramesHold DEF SumsInv
<1>4. CASE MfmaBlock
  <2>1. PICK s : /\ \A r \in Rows : s[r] \in call.scores[r]
                 /\ frames' = qk(Followed, s) /\ pc = "block" /\ pc' = "softmax" /\ t' = t
    BY <1>4 DEF MfmaBlock
  <2>2. Seeded(frames) /\ (t = 0 => FirstSeeds(frames))
    BY <1>1, <2>1 DEF SumsInv
  <2>3. PICK g : g = follow_frames(frames, GroupA(call)) /\ Seeded(g) /\ (~frames.moved => g = frames)
    BY <2>2, FollowKeeps
  <2>4. PICK h : h = Pv(g) /\ Same(g, h)
    BY <2>3, PvKeeps DEF Seeded
  <2>5. Seeded(h) /\ (FirstSeeds(g) => FirstSeeds(h))
    BY <2>3, <2>4, Zenon DEF Same, Seeded, FirstSeeds
  <2>6. ASSUME NEW r \in Rows, NEW i \in KeysOfTile
        PROVE  s[r][i] \in Int /\ (s[r][i] \in {NaN, PlusInf, -PlusInf} \/ s[r][i] \in -MaxScore .. MaxScore)
    <3>1. s[r][i] \in {NaN, PlusInf, -PlusInf} \/ s[r][i] \in -MaxScore .. MaxScore
      BY <1>2, <2>1, ScoresAssumption, Zenon
    <3>2. {NaN, PlusInf} \subseteq Int /\ MaxScore \in Int
      BY Marks, Ranges
    <3>3. QED
      BY <3>1, <3>2
  <2>7. frames' = qk(h, s)
    BY <2>1, <2>3, <2>4, Zenon DEF Followed
  <2>8. /\ Seeded(frames') /\ Related(frames'.s)
        /\ FirstSeeds(h) => FirstScores(frames')
    BY <2>5, <2>6, <2>7, QkScores, Zenon
  <2>9. t = 0 => FirstSeeds(h)
    BY <2>2, <2>3, <2>5, Zenon DEF FirstSeeds
  <2>10. QED
    BY <2>1, <2>8, <2>9 DEF SumsInv
<1>5. CASE Softmax
  <2>1. PICK now, f, g : /\ pc = "softmax" /\ pc' = "block" /\ t' = t + 1
                         /\ f \in {Extras(frames), frames} /\ g = softmax_rows(f, Key0(t), now)
                         /\ frames' \in {row_sums(g), g}
    BY <1>5 DEF Softmax
  <2>2. Seeded(frames) /\ Related(frames.s) /\ (t = 0 => FirstScores(frames)) /\ t \in Nat
    BY <1>1, <1>2, <2>1 DEF SumsInv, Moving
  <2>3. Seeded(f) /\ Related(f.s)
    BY <2>1, <2>2, ExtrasKeep
  <2>4. Key0(t) \in Int
    <3>1. Lo \in Nat /\ KvTile \in Nat
      BY <1>2, PartIs, WorkItemsAssumption
    <3>2. QED
      BY <2>2, <3>1 DEF Key0
  <2>5. Seeded(g) /\ Held8(g.p)
    BY <2>1, <2>3, <2>4, SoftmaxHolds
  <2>6. Same(g, row_sums(g))
    BY <2>5, SumsKeep DEF Seeded
  <2>7. Seeded(frames') /\ Held8(frames'.p)
    BY <2>1, <2>5, <2>6, Zenon DEF Same, Seeded
  <2>8. t' # 0
    BY <2>1, <2>2
  <2>9. QED
    BY <2>1, <2>7, <2>8 DEF SumsInv
<1>6. CASE LastBlock \/ DmaOnlyBlock \/ PartEnd \/ WholeEnd \/ MergeParts
  <2>1. pc' \notin {"block", "softmax"}
    BY <1>6 DEF LastBlock, DmaOnlyBlock, PartEnd, WholeEnd, MergeParts
  <2>2. QED
    BY <2>1 DEF SumsInv
<1>7. CASE UNCHANGED vars
  BY <1>1, <1>7 DEF SumsInv, vars
<1>8. QED
  BY <1>1, <1>3, <1>4, <1>5, <1>6, <1>7 DEF Next, Done

(* Every P stays in range of its frame, and none is NaN.                   *)
THEOREM SumsInRangeHolds == Spec => []SumsInRange
<1>1. SumsInv => SumsInRange
  BY DEF SumsInv, Held8, SumsInRange
<1>2. QED
  BY <1>1, LoadsStart, LoadsKept, SumsStart, SumsKept, PTL DEF Spec
==============================================================================
