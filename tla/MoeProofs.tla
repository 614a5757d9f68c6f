------------------------------ MODULE MoeProofs ------------------------------
(***************************************************************************)
(* What a gfx942 MoE launch writes, for any tile, number of waves, dies,   *)
(* columns, blocks and routing.                                            *)
(*                                                                         *)
(* Every column of every row owed has one writer: the dies' swizzle sends  *)
(* the live workgroups one to one onto the grid (OneWorkgroup), and a      *)
(* column has one chunk, block, wave, tile and lane (Digits).              *)
(*                                                                         *)
(* A wave stores the sum over all of K (StoresFullSumHolds).  The invariant*)
(* InStep says of each wave which loads precede how many younger           *)
(* operations (Behind) at each instruction of its program, so that a wait  *)
(* that leaves no more than those behind finds the load landed (Arrived),  *)
(* and that all waves stand between the same two barriers, so that the     *)
(* rows of A that a product reads are all there and stay.                  *)
(*                                                                         *)
(* Weights decode exactly: eight nibbles of any values are followed through*)
(* the repack and the two byte lookups of a scaled table (DecodedIs).      *)
(***************************************************************************)
EXTENDS MoeKernel, FiniteSetTheorems, SequenceTheorems, TLAPS

(* What integer division is.                                               *)
LEMMA Quotient ==
  ASSUME NEW y \in Nat \ {0}, NEW x \in Int
  PROVE  /\ x \div y \in Int /\ x % y \in 0 .. y - 1
         /\ x = (x \div y) * y + (x % y)
         /\ x \in Nat => x \div y \in Nat
  BY SMT

LEMMA TimesMonotone ==
  ASSUME NEW a \in Int, NEW b \in Int, NEW y \in Nat, a <= b
  PROVE  a * y <= b * y
  BY SMT

LEMMA ProductIsNat ==
  ASSUME NEW a \in Nat, NEW b \in Nat
  PROVE  a * b \in Nat /\ (a # 0 /\ b # 0 => a * b # 0)
  BY SMT

LEMMA Divided ==
  ASSUME NEW y \in Nat \ {0}, NEW x \in Nat
  PROVE  \E q \in Nat, r \in 0 .. y - 1 : x = q * y + r /\ q = x \div y /\ r = x % y
<1>1. x \in Int
  OBVIOUS
<1>2. x \div y \in Nat /\ x % y \in 0 .. y - 1 /\ x = (x \div y) * y + (x % y)
  BY <1>1, Quotient
<1>3. QED
  BY <1>2, Zenon

(* A number has one quotient and one remainder.                            *)
LEMMA OneQuotient ==
  ASSUME NEW y \in Nat \ {0}, NEW p \in Int, NEW q \in Int, NEW r \in 0 .. y - 1, NEW s \in 0 .. y - 1,
         p * y + r = q * y + s
  PROVE  p = q /\ r = s
<1>1. p * y \in Int /\ q * y \in Int /\ (p + 1) * y = p * y + y /\ (q + 1) * y = q * y + y
  BY SMT
<1>2. ~ (p < q)
  <2>1. SUFFICES ASSUME p < q PROVE FALSE
    OBVIOUS
  <2>2. (p + 1) * y <= q * y
    BY <2>1, TimesMonotone, p + 1 \in Int, p + 1 <= q
  <2>3. QED
    BY <1>1, <2>2
<1>3. ~ (q < p)
  <2>1. SUFFICES ASSUME q < p PROVE FALSE
    OBVIOUS
  <2>2. (q + 1) * y <= p * y
    BY <2>1, TimesMonotone, q + 1 \in Int, q + 1 <= p
  <2>3. QED
    BY <1>1, <2>2
<1>4. QED
  BY <1>1, <1>2, <1>3

(* l is below the number of y's that cover d exactly if l * y is below d.  *)
LEMMA CeilOf ==
  ASSUME NEW d \in Nat, NEW y \in Nat \ {0}, NEW l \in Int
  PROVE  Ceil(d, y) \in Nat /\ (l < Ceil(d, y) <=> l * y < d)
<1> DEFINE m == (d + y - 1) \div y
<1>1. m \in Nat /\ m * y <= d + y - 1 /\ d + y - 1 < m * y + y
  <2>1. d + y - 1 \in Nat
    OBVIOUS
  <2>2. PICK q \in Nat, r \in 0 .. y - 1 : d + y - 1 = q * y + r /\ q = (d + y - 1) \div y
    BY <2>1, Divided
  <2>3. q * y \in Nat
    BY ProductIsNat
  <2>4. QED
    BY <2>2, <2>3
<1>2. (m + 1) * y = m * y + y /\ (l + 1) * y = l * y + y /\ l * y \in Int /\ m * y \in Int
  BY <1>1
<1> HIDE DEF m
<1>3. l < m => l * y < d
  BY <1>1, <1>2, TimesMonotone, l + 1 <= m <=> l < m, l + 1 \in Int
<1>4. ~(l < m) => ~(l * y < d)
  BY <1>1, <1>2, TimesMonotone, m <= l <=> ~(l < m)
<1>5. QED
  BY <1>1, <1>3, <1>4 DEF m, Ceil

-----------------------------------------------------------------------------
(* The low digits of a number stay below the next place.                   *)
LEMMA Below ==
  ASSUME NEW y \in Nat \ {0}, NEW z \in Nat \ {0}, NEW b \in 0 .. y - 1, NEW c \in 0 .. z - 1
  PROVE  y * z \in Nat \ {0} /\ b * z + c \in 0 .. y * z - 1
<1>1. y * z \in Nat \ {0} /\ b * z \in Nat
  BY ProductIsNat
<1>2. (y - 1) * z = y * z - z /\ b * z <= (y - 1) * z
  BY TimesMonotone, y - 1 \in Int
<1>3. QED
  BY <1>1, <1>2

(* A number has one digit at each place: j blocks of x by y by z.          *)
Number(x, y, z, j, a, b, c) == j * (x * (y * z)) + a * (y * z) + b * z + c
Only(x, y, z, n, j, a, b, c) ==
  /\ n = Number(x, y, z, j, a, b, c)
  /\ \A i \in Nat, d \in 0 .. x - 1, e \in 0 .. y - 1, f \in 0 .. z - 1 :
       n = Number(x, y, z, i, d, e, f) => i = j /\ d = a /\ e = b /\ f = c

LEMMA Digits ==
  ASSUME NEW x \in Nat \ {0}, NEW y \in Nat \ {0}, NEW z \in Nat \ {0}, NEW n \in Nat
  PROVE  \E j \in Nat, a \in 0 .. x - 1, b \in 0 .. y - 1, c \in 0 .. z - 1 :
           Only(x, y, z, n, j, a, b, c)
<1>1. PICK v \in Nat \ {0}, u \in Nat \ {0} : v = y * z /\ u = x * v
  <2>1. y * z \in Nat \ {0}
    BY ProductIsNat
  <2>2. x * (y * z) \in Nat \ {0}
    BY <2>1, ProductIsNat
  <2>3. QED
    BY <2>1, <2>2
<1>2. PICK j \in Nat, o \in 0 .. u - 1 : n = j * u + o
  BY ZenonT(60), Divided
<1>3. PICK a \in Nat, r \in 0 .. v - 1 : o = a * v + r
  <2>1. o \in Nat
    OBVIOUS
  <2>2. QED
    BY ZenonT(60), <2>1, Divided
<1>4. a \in 0 .. x - 1
  <2>1. SUFFICES ASSUME x <= a PROVE FALSE
    OBVIOUS
  <2>2. x * v <= a * v /\ x * v \in Int /\ a * v \in Int
    BY <2>1, TimesMonotone
  <2>3. QED
    BY <1>1, <1>3, <2>2
<1>5. PICK b \in Nat, c \in 0 .. z - 1 : r = b * z + c
  <2>1. r \in Nat
    OBVIOUS
  <2>2. QED
    BY ZenonT(60), <2>1, Divided
<1>6. b \in 0 .. y - 1
  <2>1. SUFFICES ASSUME y <= b PROVE FALSE
    OBVIOUS
  <2>2. y * z <= b * z /\ y * z \in Int /\ b * z \in Int
    BY <2>1, TimesMonotone
  <2>3. QED
    BY <1>1, <1>5, <2>2
<1>7. n = j * u + a * v + b * z + c
  <2>1. j * u \in Int /\ a * v \in Int /\ b * z \in Int
    BY SMT
  <2>2. QED
    BY <2>1, <1>2, <1>3, <1>5
<1>8. ASSUME NEW i \in Nat, NEW d \in 0 .. x - 1, NEW e \in 0 .. y - 1, NEW f \in 0 .. z - 1,
             n = Number(x, y, z, i, d, e, f)
      PROVE  i = j /\ d = a /\ e = b /\ f = c
  <2>1. PICK s \in 0 .. v - 1 : s = e * z + f
    BY <1>1, Below
  <2>2. PICK p \in 0 .. u - 1 : p = d * v + s
    BY <1>1, Below
  <2>3. i * u + p = j * u + o
    <3>1. i * u \in Int /\ d * v \in Int /\ e * z \in Int
      BY SMT
    <3>2. n = i * u + d * v + e * z + f
      BY <1>1, <1>8 DEF Number
    <3>3. QED
      BY <1>2, <2>1, <2>2, <3>1, <3>2
  <2>4. i = j /\ p = o
    BY <2>3, OneQuotient
  <2>5. d = a /\ s = r
    <3>1. d * v + s = a * v + r
      BY <1>3, <2>2, <2>4
    <3>2. QED
      BY <3>1, OneQuotient
  <2>6. e = b /\ f = c
    <3>1. e * z + f = b * z + c
      BY <1>5, <2>1, <2>5
    <3>2. QED
      BY <3>1, OneQuotient
  <2>7. QED
    BY <2>4, <2>5, <2>6
<1>9. n = Number(x, y, z, j, a, b, c)
  BY <1>1, <1>7 DEF Number
<1>10. Only(x, y, z, n, j, a, b, c)
  BY <1>8, <1>9, Zenon DEF Only
<1>11. QED
  BY <1>4, <1>6, <1>10

-----------------------------------------------------------------------------
(* A die's first place, and how many places it has.                        *)
Base(per, rem, die) == die * per + (IF die < rem THEN die ELSE rem)
Share(per, rem, die) == IF die < rem THEN per + 1 ELSE per

LEMMA DieIs ==
  ASSUME NEW live \in Nat, NEW lin \in Nat
  PROVE  LET per == live \div NumXcds
             rem == live % NumXcds
         IN /\ per \in Nat /\ rem \in 0 .. NumXcds - 1 /\ live = per * NumXcds + rem
            /\ lin >= live => xcd_linear(lin, live) = -1
            /\ lin < live =>
                 xcd_linear(lin, live) = Base(per, rem, lin % NumXcds) + lin \div NumXcds
<1> DEFINE per == live \div NumXcds
           rem == live % NumXcds
<1>1. NumXcds \in Nat \ {0}
  BY MoeGridAssumption
<1>2. per \in Nat /\ rem \in 0 .. NumXcds - 1 /\ live = per * NumXcds + rem
  BY <1>1, Quotient, live \in Int
<1>3. xcd_linear(lin, live) = IF lin >= live THEN -1 ELSE Base(per, rem, lin % NumXcds) + lin \div NumXcds
  BY DEF xcd_linear, Base
<1> HIDE DEF per, rem
<1>4. lin >= live \/ lin < live
  OBVIOUS
<1>5. QED
  BY <1>2, <1>3 DEF per, rem

LEMMA Bases ==
  ASSUME NEW per \in Nat, NEW rem \in Nat, NEW d \in Nat, NEW e \in Nat, d < e
  PROVE  /\ Base(per, rem, d) \in Nat /\ Base(per, rem, e) \in Nat
         /\ Base(per, rem, d) + Share(per, rem, d) <= Base(per, rem, e)
<1>1. d * per \in Nat /\ e * per \in Nat
  BY ProductIsNat
<1>2. (d + 1) * per = d * per + per /\ (d + 1) * per <= e * per
  BY TimesMonotone, d + 1 <= e
<1>3. QED
  BY <1>1, <1>2 DEF Base, Share

(* The q-th workgroup sent to a die is a live one just if q is in its share*)
LEMMA InShare ==
  ASSUME NEW per \in Nat, NEW x \in Nat \ {0}, NEW rem \in 0 .. x - 1, NEW die \in 0 .. x - 1, NEW q \in Nat
  PROVE  q * x + die < per * x + rem <=> q < Share(per, rem, die)
<1>1. q * x \in Nat /\ per * x \in Nat /\ (q + 1) * x = q * x + x /\ (per + 1) * x = per * x + x
  BY ProductIsNat, SMT
<1>2. CASE q < per
  <2>1. (q + 1) * x <= per * x
    BY <1>2, TimesMonotone, q + 1 <= per
  <2>2. QED
    BY <1>1, <1>2, <2>1 DEF Share
<1>3. CASE q = per
  BY <1>1, <1>3 DEF Share
<1>4. CASE q > per
  <2>1. (per + 1) * x <= q * x
    BY <1>4, TimesMonotone, per + 1 <= q
  <2>2. QED
    BY <1>1, <1>4, <2>1 DEF Share
<1>5. QED
  BY <1>2, <1>3, <1>4

LEMMA Grows ==
  ASSUME NEW live \in Nat, NEW c \in Nat, NEW d \in Nat, c < live, d < live, c % NumXcds < d % NumXcds
  PROVE  xcd_linear(c, live) # xcd_linear(d, live)
<1> DEFINE per == live \div NumXcds
           rem == live % NumXcds
<1>1. PICK x \in Nat \ {0} : x = NumXcds
  BY MoeGridAssumption
<1>2. /\ per \in Nat /\ rem \in 0 .. x - 1 /\ live = per * x + rem
      /\ xcd_linear(c, live) = Base(per, rem, c % x) + c \div x
      /\ xcd_linear(d, live) = Base(per, rem, d % x) + d \div x
  BY ZenonT(60), <1>1, DieIs
<1> HIDE DEF per, rem
<1>3. PICK p \in Nat, a \in 0 .. x - 1 : c = p * x + a /\ p = c \div x /\ a = c % x
  BY Divided
<1>4. PICK q \in Nat, b \in 0 .. x - 1 : d = q * x + b /\ q = d \div x /\ b = d % x
  BY Divided
<1>5. p < Share(per, rem, a)
  BY <1>2, <1>3, InShare
<1>6. /\ Base(per, rem, a) \in Nat /\ Base(per, rem, b) \in Nat
      /\ Base(per, rem, a) + Share(per, rem, a) <= Base(per, rem, b)
  BY <1>1, <1>2, <1>3, <1>4, Bases
<1>7. Share(per, rem, a) \in Nat
  BY <1>2 DEF Share
<1>8. QED
  BY <1>2, <1>3, <1>4, <1>5, <1>6, <1>7

(* Every place of the live grid has just one workgroup.                    *)
OnlyAt(live, spot, c) ==
  xcd_linear(c, live) = spot /\ \A d \in Nat : xcd_linear(d, live) = spot => d = c

LEMMA OneWorkgroup ==
  ASSUME NEW live \in Nat, NEW spot \in 0 .. live - 1
  PROVE  \E c \in 0 .. live - 1 : OnlyAt(live, spot, c)
<1> DEFINE per == live \div NumXcds
           rem == live % NumXcds
<1>1. PICK x \in Nat \ {0} : x = NumXcds
  BY MoeGridAssumption
<1>2. /\ per \in Nat /\ rem \in 0 .. x - 1 /\ live = per * x + rem
      /\ \A c \in Nat : /\ c >= live => xcd_linear(c, live) = -1
                        /\ c < live => xcd_linear(c, live) = Base(per, rem, c % x) + c \div x
  BY <1>1, DieIs
<1> HIDE DEF per, rem
<1>3. \E die \in 0 .. x - 1, q \in Nat : q < Share(per, rem, die) /\ spot = Base(per, rem, die) + q
  <2>1. rem * (per + 1) = rem * per + rem /\ rem * per \in Nat /\ per * x \in Nat
    BY <1>2, ProductIsNat, SMT
  <2>2. CASE spot < rem * (per + 1)
    <3>1. PICK die \in Nat, q \in 0 .. per : spot = die * (per + 1) + q
      <4>1. PICK w \in Nat \ {0} : w = per + 1
        BY <1>2
      <4>2. PICK die \in Nat, q \in 0 .. w - 1 : spot = die * w + q
        BY Divided, spot \in Nat
      <4>3. q \in 0 .. per
        BY <1>2, <4>1
      <4>4. QED
        BY <4>1, <4>2, <4>3
    <3>2. die < rem
      <4>1. SUFFICES ASSUME rem <= die PROVE FALSE
        BY <1>2
      <4>2. rem * (per + 1) <= die * (per + 1)
        BY <1>2, <4>1, TimesMonotone, per + 1 \in Nat
      <4>3. rem * (per + 1) \in Int /\ die * (per + 1) \in Int
        BY <1>2
      <4>4. QED
        BY <2>2, <3>1, <4>2, <4>3
    <3>3. die * (per + 1) = die * per + die /\ die * per \in Nat
      BY <1>2, ProductIsNat, SMT
    <3>4. die \in 0 .. x - 1 /\ q \in Nat /\ Share(per, rem, die) = per + 1 /\ Base(per, rem, die) = die * per + die
      BY <1>2, <3>1, <3>2 DEF Base, Share
    <3>5. q < Share(per, rem, die) /\ spot = Base(per, rem, die) + q
      BY <1>2, <3>1, <3>3, <3>4
    <3>6. QED
      BY <3>4, <3>5
  <2>3. CASE spot >= rem * (per + 1)
    <3>1. per \in Nat \ {0}
      BY <1>2, <2>1, <2>3
    <3>2. PICK z \in Nat : z = spot - rem * (per + 1)
      BY <1>2, <2>1, <2>3
    <3>3. PICK i \in Nat, q \in 0 .. per - 1 : z = i * per + q
      BY <3>1, Divided
    <3>4. (x - rem) * per = x * per - rem * per /\ x * per = per * x /\ (rem + i) * per = rem * per + i * per
          /\ i * per \in Nat
      BY <1>2, ProductIsNat, SMT
    <3>5. i < x - rem
      <4>1. SUFFICES ASSUME x - rem <= i PROVE FALSE
        BY <1>2
      <4>2. (x - rem) * per <= i * per
        BY <1>2, <4>1, TimesMonotone, x - rem \in Int
      <4>3. QED
        BY <1>2, <2>1, <3>2, <3>3, <3>4, <4>2
    <3>6. rem + i \in 0 .. x - 1 /\ Base(per, rem, rem + i) = (rem + i) * per + rem
          /\ Share(per, rem, rem + i) = per
      BY <1>2, <3>5 DEF Base, Share
    <3>7. spot = Base(per, rem, rem + i) + q
      BY <1>2, <2>1, <3>2, <3>3, <3>4, <3>6
    <3>8. q \in Nat /\ q < Share(per, rem, rem + i)
      BY <1>2, <3>3, <3>6
    <3>9. QED
      BY <3>6, <3>7, <3>8
  <2>4. QED
    BY <1>2, <2>1, <2>2, <2>3
<1>4. PICK die \in 0 .. x - 1, q \in Nat : q < Share(per, rem, die) /\ spot = Base(per, rem, die) + q
  BY <1>3
<1>5. PICK c \in Nat : c = q * x + die
  BY ProductIsNat
<1>6. c < live /\ c \div x = q /\ c % x = die
  <2>1. PICK p \in Nat, r \in 0 .. x - 1 : c = p * x + r /\ p = c \div x /\ r = c % x
    BY Divided
  <2>2. p = q /\ r = die
    BY <1>5, <2>1, OneQuotient
  <2>3. q * x + die < per * x + rem
    BY <1>2, <1>4, InShare
  <2>4. QED
    BY <1>2, <1>5, <2>1, <2>2, <2>3
<1>7. xcd_linear(c, live) = spot
  BY <1>2, <1>4, <1>6
<1>8. ASSUME NEW d \in Nat, xcd_linear(d, live) = spot PROVE d = c
  <2>1. d < live
    BY <1>2, <1>8
  <2>2. ~ (c % x < d % x) /\ ~ (d % x < c % x)
    BY <1>1, <1>6, <1>7, <1>8, <2>1, Grows
  <2>3. PICK p \in Nat, r \in 0 .. x - 1 : d = p * x + r /\ p = d \div x /\ r = d % x
    BY Divided
  <2>4. r = die
    BY <1>6, <2>2, <2>3
  <2>5. spot = Base(per, rem, die) + p /\ Base(per, rem, die) \in Nat
    <3>1. die * per \in Nat
      BY <1>2, ProductIsNat
    <3>2. xcd_linear(d, live) = Base(per, rem, d % x) + d \div x
      BY <1>2, <2>1
    <3>3. Base(per, rem, die) \in Nat
      BY <1>2, <3>1 DEF Base
    <3>4. QED
      BY <1>8, <2>3, <2>4, <3>2, <3>3
  <2>6. p = q
    BY <1>4, <2>5
  <2>7. QED
    BY <1>5, <2>3, <2>4, <2>6
<1>9. OnlyAt(live, spot, c) /\ c \in 0 .. live - 1
  BY <1>5, <1>6, <1>7, <1>8 DEF OnlyAt
<1>10. QED
  BY <1>9

-----------------------------------------------------------------------------
(* What a launched job is.                                                 *)
Tiles(job) == IF job.kernel = "gateup" THEN job.nt ELSE nt_for(job.bm, job.nt)

Sound(job) ==
  /\ job.kernel \in {"gateup", "down"} /\ job.N \in Nat /\ job.n_steps \in Int /\ job.blocks \in Nat
  /\ job.valid \in Nat /\ job.stride_cm \in Nat \ {0}
  /\ job.sorted \in Seq(Nat) /\ job.experts \in Seq(Int)
  /\ Rows(job) \in Nat \ {0} /\ Tiles(job) \in Nat \ {0} /\ ColumnWaves(job) \in Nat \ {0}
  /\ BN(job) = ColumnWaves(job) * (Tiles(job) * Tile)
  /\ Len(job.sorted) = live_m(job) * Rows(job)
  /\ live_m(job) \in Nat /\ live_m(job) <= job.blocks /\ live_m(job) <= Len(job.experts)
  /\ job.N <= job.stride_cm
  /\ job.kernel = "down" => Tiles(job) \in {1, 2} /\ (Tiles(job) = 2 => job.N % 2 = 0)

LEMMA GateUpTiles ==
  ASSUME NEW bm, NEW situ \in BOOLEAN, NEW N \in Nat
  PROVE  GateUpNt(bm, situ, N) \in 1 .. 3
<1> DEFINE wide == {nt \in 2 .. (IF situ THEN 2 ELSE 3) : Covered(situ, N, nt) = Covered(situ, N, 1)}
<1>1. wide \subseteq {2, 3}
  OBVIOUS
<1>2. GateUpNt(bm, situ, N) =
        IF bm = 1 \/ wide = {} THEN 1 ELSE CHOOSE nt \in wide : \A x \in wide : x <= nt
  BY DEF GateUpNt
<1> HIDE DEF wide
<1>3. CASE 3 \in wide
  <2>1. \A x \in wide : x <= 3
    BY <1>1
  <2>2. PICK v \in wide : v = CHOOSE nt \in wide : \A x \in wide : x <= nt
    BY <1>3, <2>1, Zenon
  <2>3. GateUpNt(bm, situ, N) \in {1, v}
    BY <1>2, <2>2, Zenon
  <2>4. v \in {2, 3}
    BY <1>1, <2>2, Zenon
  <2>5. QED
    BY <2>3, <2>4
<1>4. CASE 2 \in wide /\ 3 \notin wide
  <2>1. \A x \in wide : x <= 2
    BY <1>1, <1>4
  <2>2. PICK v \in wide : v = CHOOSE nt \in wide : \A x \in wide : x <= nt
    BY <1>4, <2>1, Zenon
  <2>3. GateUpNt(bm, situ, N) \in {1, v}
    BY <1>2, <2>2, Zenon
  <2>4. v \in {2, 3}
    BY <1>1, <2>2, Zenon
  <2>5. QED
    BY <2>3, <2>4
<1>5. CASE wide = {}
  BY <1>2, <1>5
<1>6. QED
  BY <1>1, <1>3, <1>4, <1>5

LEMMA JobSound ==
  ASSUME NEW c \in Calls, Admits(c), Built(c)
  PROVE  Sound(Job(c))
<1> DEFINE job == Job(c)
<1>1. /\ c \in Arguments
      /\ Len(c.sorted) % Rows(c) = 0
      /\ Len(c.sorted) <= c.blocks * Rows(c) /\ Len(c.sorted) <= Len(c.experts) * Rows(c)
      /\ c.N <= c.stride_cm
      /\ c.kernel = "down" /\ nt_for(c.bm, c.nt) = 2 => c.N % 2 = 0
  BY CallsAssumption
<1>2. c.kernel \in {"gateup", "down"} /\ c.bm \in Nat /\ c.nt \in Int /\ c.N \in Nat /\ c.situ \in BOOLEAN
      /\ c.blocks \in Nat /\ c.n_steps \in Int /\ c.valid \in Nat /\ c.stride_cm \in Nat \ {0}
      /\ c.sorted \in Seq(Nat) /\ c.experts \in Seq(Int)
  <2>1. c.kernel \in {"gateup", "down"} /\ c.bm \in Nat /\ c.nt \in Int /\ c.N \in Nat /\ c.situ \in BOOLEAN
    BY <1>1 DEF Arguments
  <2>2. c.blocks \in Nat /\ c.n_steps \in Int /\ c.valid \in Nat /\ c.stride_cm \in Nat \ {0}
    BY <1>1 DEF Arguments
  <2>3. c.sorted \in Seq(Nat) /\ c.experts \in Seq(Int)
    BY <1>1 DEF Arguments
  <2>4. QED
    BY <2>1, <2>2, <2>3
<1>3. GateUpNt(c.bm, c.situ, c.N) \in 1 .. 3
  BY <1>2, GateUpTiles
<1>4. /\ job.kernel = c.kernel /\ job.bm = c.bm /\ job.N = c.N /\ job.situ = c.situ /\ job.blocks = c.blocks
      /\ job.sorted = c.sorted /\ job.experts = c.experts /\ job.stride_cm = c.stride_cm
      /\ job.n_steps = c.n_steps /\ job.valid = c.valid
      /\ job.nt = IF c.kernel = "gateup" THEN GateUpNt(c.bm, c.situ, c.N) ELSE c.nt
  BY <1>1 DEF Arguments, Job, NtOf
<1> HIDE DEF job
<1>5. c.bm \in 1 .. 4
  BY <1>2 DEF Built
<1>6. Tile \in Nat \ {0} /\ NumWaves \in Nat \ {0} /\ NumWaves \div 2 \in Nat \ {0}
  BY MoeGridAssumption
<1>7. Rows(job) \in Nat \ {0} /\ Rows(job) = Rows(c)
  <2>1. c.bm * Tile \in Nat \ {0}
    BY <1>5, <1>6, ProductIsNat
  <2>2. QED
    BY <1>4, <2>1 DEF Rows
<1>8. /\ Tiles(job) \in Nat \ {0} /\ ColumnWaves(job) \in Nat \ {0}
      /\ BN(job) = ColumnWaves(job) * Tiles(job) * Tile
      /\ c.kernel = "down" => Tiles(job) \in {1, 2} /\ Tiles(job) = nt_for(c.bm, c.nt)
  <2>1. CASE c.kernel = "gateup"
    BY <1>2, <1>3, <1>4, <1>6, <2>1 DEF Tiles, ColumnWaves, BN, GateUpBN, WavesPerProj
  <2>2. CASE c.kernel = "down"
    BY <1>4, <1>6, <2>2 DEF Tiles, ColumnWaves, BN, bn_for, DownWaves, nt_for
  <2>3. QED
    BY <1>2, <2>1, <2>2
<1>9. ColumnWaves(job) * Tiles(job) * Tile = ColumnWaves(job) * (Tiles(job) * Tile)
  BY <1>6, <1>8, SMT
<1>10. PICK h \in Nat \ {0}, n \in Nat : h = Rows(job) /\ n = Len(job.sorted)
  BY <1>2, <1>4, <1>7
<1>11. PICK q \in Nat : n = q * h
  <2>1. PICK q \in Nat, r \in 0 .. h - 1 : n = q * h + r /\ r = n % h
    BY Divided
  <2>2. r = 0 /\ q * h \in Nat
    BY <1>1, <1>4, <1>7, <1>10, <2>1, ProductIsNat
  <2>3. QED
    BY <2>1, <2>2
<1>12. live_m(job) = q
  <2>1. Ceil(n, h) \in Nat /\ ~ (q < Ceil(n, h)) /\ (q - 1 < Ceil(n, h) <=> (q - 1) * h < n)
    <3>1. ~ (q * h < n)
      BY <1>11
    <3>2. q - 1 \in Int
      OBVIOUS
    <3>3. QED
      BY <3>1, <3>2, CeilOf
  <2>2. (q - 1) * h = q * h - h /\ q * h \in Int
    BY SMT
  <2>3. PICK m \in Nat : m = Ceil(n, h)
    BY <2>1
  <2>4. m = q
    BY <1>11, <2>1, <2>2, <2>3
  <2>5. QED
    BY <1>10, <2>3, <2>4 DEF live_m
<1>13. ASSUME NEW b \in Nat, n <= b * h PROVE q <= b
  <2>1. SUFFICES ASSUME b + 1 <= q PROVE FALSE
    OBVIOUS
  <2>2. (b + 1) * h <= q * h /\ (b + 1) * h = b * h + h /\ b * h \in Int /\ q * h \in Int
    BY <2>1, TimesMonotone
  <2>3. QED
    BY <1>11, <1>13, <2>2
<1>14. q <= job.blocks /\ q <= Len(job.experts)
  BY SMTT(30), <1>1, <1>2, <1>4, <1>7, <1>10, <1>13
<1>15. QED
  <2>1. Len(job.sorted) = live_m(job) * Rows(job) /\ live_m(job) \in Nat
        /\ live_m(job) <= job.blocks /\ live_m(job) <= Len(job.experts)
    BY <1>10, <1>11, <1>12, <1>14
  <2>2. BN(job) = ColumnWaves(job) * (Tiles(job) * Tile)
    BY <1>8, <1>9
  <2>3. QED
    BY <1>1, <1>2, <1>4, <1>7, <1>8, <2>1, <2>2 DEF Sound, job

-----------------------------------------------------------------------------
(* A column's block, wave, tile and lane.                                  *)
Takes(job, nb, s, n) == FirstColumn(job, nb, s) <= n /\ n < FirstColumn(job, nb, s) + Width(job)
Placed(job, n, j, s) ==
  /\ j * BN(job) <= n /\ Takes(job, j * BN(job), s, n)
  /\ \A i \in Nat, u \in LaneStores(job) : Takes(job, i * BN(job), u, n) => i = j /\ u = s

LEMMA GateUpColumn ==
  ASSUME NEW job, Sound(job), job.kernel = "gateup", NEW n \in Nat
  PROVE  \E j \in Nat, s \in LaneStores(job) : Placed(job, n, j, s)
<1>1. PICK W \in Nat \ {0}, t \in Nat \ {0}, T \in Nat \ {0} :
        W = ColumnWaves(job) /\ t = job.nt /\ T = Tile /\ BN(job) = W * (t * T)
  BY MoeGridAssumption DEF Sound, Tiles
<1>2. LaneStores(job) = (0 .. W - 1) \X (0 .. t - 1) \X (0 .. T - 1) /\ Width(job) = 1
  BY <1>1 DEF LaneStores, Width
<1>3. ASSUME NEW i \in Nat, NEW u \in LaneStores(job)
      PROVE  /\ FirstColumn(job, i * BN(job), u) = Number(W, t, T, i, u[1], u[2], u[3])
             /\ FirstColumn(job, i * BN(job), u) \in Nat /\ i * BN(job) <= FirstColumn(job, i * BN(job), u)
  <2>1. u[1] \in 0 .. W - 1 /\ u[2] \in 0 .. t - 1 /\ u[3] \in 0 .. T - 1
    BY <1>2, <1>3
  <2>2. u[1] * t * T = u[1] * (t * T) /\ u[1] * t * T \in Nat /\ u[2] * T \in Nat /\ i * (W * (t * T)) \in Nat
    BY <2>1, ProductIsNat, SMT
  <2>3. FirstColumn(job, i * BN(job), u) = i * (W * (t * T)) + u[1] * t * T + u[2] * T + u[3]
    BY <1>1 DEF FirstColumn
  <2>4. QED
    BY <1>1, <2>1, <2>2, <2>3 DEF Number
<1>4. PICK j \in Nat, a \in 0 .. W - 1, b \in 0 .. t - 1, c \in 0 .. T - 1 :
        Only(W, t, T, n, j, a, b, c)
  BY Digits
<1>5. PICK s \in LaneStores(job) : s[1] = a /\ s[2] = b /\ s[3] = c /\ s = <<a, b, c>>
  BY <1>2
<1>6. j * BN(job) <= n /\ Takes(job, j * BN(job), s, n)
  BY <1>2, <1>3, <1>4, <1>5 DEF Takes, Only
<1>7. ASSUME NEW i \in Nat, NEW u \in LaneStores(job), Takes(job, i * BN(job), u, n) PROVE i = j /\ u = s
  <2>1. n = Number(W, t, T, i, u[1], u[2], u[3])
    BY <1>2, <1>3, <1>7 DEF Takes
  <2>2. PICK d \in 0 .. W - 1, e \in 0 .. t - 1, f \in 0 .. T - 1 :
          u[1] = d /\ u[2] = e /\ u[3] = f /\ u = <<d, e, f>>
    BY <1>2, <1>7
  <2>3. i = j /\ d = a /\ e = b /\ f = c
    BY <1>4, <2>1, <2>2 DEF Only
  <2>4. QED
    BY <1>5, <2>2, <2>3
<1>8. QED
  BY <1>6, <1>7 DEF Placed

LEMMA DownColumn ==
  ASSUME NEW job, Sound(job), job.kernel = "down", NEW n \in Nat
  PROVE  \E j \in Nat, s \in LaneStores(job) : Placed(job, n, j, s)
<1>1. PICK W \in Nat \ {0}, t \in Nat \ {0}, T \in Nat \ {0} :
        W = ColumnWaves(job) /\ t = nt_for(job.bm, job.nt) /\ T = Tile /\ BN(job) = W * (t * T)
  BY MoeGridAssumption DEF Sound, Tiles
<1>2. LaneStores(job) = (0 .. W - 1) \X {0} \X (0 .. T - 1) /\ Width(job) = t
  BY <1>1 DEF LaneStores, Width
<1>3. ASSUME NEW i \in Nat, NEW u \in LaneStores(job)
      PROVE  /\ \A e \in Nat : FirstColumn(job, i * BN(job), u) + e = Number(W, T, t, i, u[1], u[3], e)
             /\ FirstColumn(job, i * BN(job), u) \in Nat /\ i * BN(job) <= FirstColumn(job, i * BN(job), u)
  <2>1. u[1] \in 0 .. W - 1 /\ u[3] \in 0 .. T - 1
    BY <1>2, <1>3
  <2>2. u[1] * t * T = u[1] * (T * t) /\ u[1] * t * T \in Nat /\ u[3] * t \in Nat /\ t * T = T * t
        /\ i * (W * (T * t)) \in Nat
    BY <2>1, ProductIsNat, SMT
  <2>3. FirstColumn(job, i * BN(job), u) = i * (W * (T * t)) + u[1] * t * T + u[3] * t
    BY <1>1, <2>2 DEF FirstColumn
  <2>4. QED
    BY <1>1, <2>1, <2>2, <2>3 DEF Number
<1>4. PICK j \in Nat, a \in 0 .. W - 1, b \in 0 .. T - 1, c \in 0 .. t - 1 :
        Only(W, T, t, n, j, a, b, c)
  BY Digits
<1>5. PICK s \in LaneStores(job) : s[1] = a /\ s[3] = b /\ s = <<a, 0, b>>
  BY <1>2
<1>6. j * BN(job) <= n /\ Takes(job, j * BN(job), s, n)
  <2>1. FirstColumn(job, j * BN(job), s) + c = n
    BY <1>3, <1>4, <1>5 DEF Only
  <2>2. PICK x \in Nat : x = FirstColumn(job, j * BN(job), s) /\ j * BN(job) <= x
    BY <1>3
  <2>3. j * BN(job) \in Int
    BY <1>1, ProductIsNat
  <2>4. QED
    BY <1>2, <2>1, <2>2, <2>3 DEF Takes
<1>7. ASSUME NEW i \in Nat, NEW u \in LaneStores(job), Takes(job, i * BN(job), u, n) PROVE i = j /\ u = s
  <2>1. PICK e \in 0 .. t - 1 : n = FirstColumn(job, i * BN(job), u) + e
    <3>1. PICK x \in Nat : x = FirstColumn(job, i * BN(job), u) /\ x <= n /\ n < x + t
      BY <1>2, <1>3, <1>7 DEF Takes
    <3>2. n - x \in 0 .. t - 1 /\ n = x + (n - x)
      BY <3>1
    <3>3. QED
      BY <3>1, <3>2
  <2>2. n = Number(W, T, t, i, u[1], u[3], e)
    BY <1>3, <2>1
  <2>3. PICK d \in 0 .. W - 1, f \in 0 .. T - 1 : u[1] = d /\ u[3] = f /\ u = <<d, 0, f>>
    BY <1>2, <1>7
  <2>4. i = j /\ d = a /\ f = b
    BY <1>4, <2>2, <2>3 DEF Only
  <2>5. QED
    BY <1>5, <2>3, <2>4
<1>8. QED
  BY <1>6, <1>7 DEF Placed

(* A column's block is in one chunk of the grid's.                         *)
Chunked(job, j) ==
  \A c : pid_n(job, c) \in Nat =>
    /\ pid_n(job, c) = j \div Chunk(job) => j * BN(job) \in Begins(job, c)
    /\ \A nb \in Begins(job, c) :
         nb < job.N /\ \E i \in Nat : nb = i * BN(job) /\ pid_n(job, c) = i \div Chunk(job)

LEMMA ChunkIs ==
  ASSUME NEW job, Sound(job), NEW j \in Nat, j * BN(job) < job.N
  PROVE  /\ Chunk(job) \in Nat \ {0} /\ GridX(job) \in Nat \ {0} /\ j \div Chunk(job) \in 0 .. GridX(job) - 1
         /\ Chunked(job, j)
<1>1. PICK bn \in Nat \ {0}, N \in Nat : bn = BN(job) /\ N = job.N
  <2>1. Tiles(job) * Tile \in Nat \ {0}
    BY ProductIsNat, MoeGridAssumption DEF Sound
  <2>2. ColumnWaves(job) * (Tiles(job) * Tile) \in Nat \ {0}
    BY <2>1, ProductIsNat DEF Sound
  <2>3. QED
    BY <2>2 DEF Sound
<1>2. PICK total \in Nat : total = Ceil(N, bn)
  BY CeilOf
<1>3. j < total
  BY <1>1, <1>2, CeilOf
<1>4. PICK ch \in Nat \ {0} : ch = Chunk(job)
  BY SMTT(30), <1>1, <1>2, <1>3 DEF Chunk, Sound
<1>5. PICK p \in Nat, r \in 0 .. ch - 1 : j = p * ch + r /\ p = j \div ch
  BY Divided
<1>6. PICK g \in Nat : g = Ceil(total, ch) /\ g = GridX(job)
  BY <1>1, <1>2, <1>4, CeilOf DEF GridX
<1>7. p \in 0 .. g - 1
  <2>1. p * ch \in Nat
    BY ProductIsNat
  <2>2. p * ch < total
    BY <1>3, <1>5, <2>1
  <2>3. p < Ceil(total, ch)
    BY <2>2, CeilOf, p \in Int
  <2>4. QED
    BY <1>6, <2>3
<1>8. ASSUME NEW c, pid_n(job, c) \in Nat
      PROVE  /\ pid_n(job, c) = p => j * bn \in Begins(job, c)
             /\ \A nb \in Begins(job, c) :
                  nb < N /\ \E i \in Nat : nb = i * bn /\ pid_n(job, c) = i \div ch
  <2>1. PICK y \in Nat : y = pid_n(job, c)
    BY <1>8
  <2>2. Begins(job, c) = {nb \in {y * ch * bn + i * bn : i \in 0 .. ch - 1} : nb < N}
    BY <1>1, <1>4, <2>1 DEF Begins
  <2>3. ASSUME NEW i \in Nat PROVE y * ch * bn + i * bn = (y * ch + i) * bn
    BY SMT
  <2>4. ASSUME y = p PROVE j * bn \in Begins(job, c)
    <3>1. j * bn = y * ch * bn + r * bn
      BY <1>5, <2>3, <2>4
    <3>2. QED
      BY <1>1, <2>2, <3>1
  <2>5. ASSUME NEW nb \in Begins(job, c) PROVE nb < N /\ \E i \in Nat : nb = i * bn /\ y = i \div ch
    <3>1. PICK k \in 0 .. ch - 1 : nb = y * ch * bn + k * bn /\ nb < N
      BY <2>2, <2>5
    <3>2. PICK i \in Nat : i = y * ch + k
      BY ProductIsNat
    <3>3. PICK q \in Nat, s \in 0 .. ch - 1 : i = q * ch + s /\ q = i \div ch
      BY Divided
    <3>4. q = y
      BY <3>2, <3>3, OneQuotient
    <3>5. nb = i * bn
      BY <2>3, <3>1, <3>2
    <3>6. QED
      BY <3>1, <3>3, <3>4, <3>5
  <2>6. QED
    BY <2>1, <2>4, <2>5
<1>9. QED
  BY <1>1, <1>4, <1>5, <1>6, <1>7, <1>8 DEF Chunked

(* A block's column has one writer, if its expert is here.                 *)
LEMMA OneWriter ==
  ASSUME NEW job, Sound(job), NEW m \in 0 .. live_m(job) - 1, NEW n \in 0 .. job.N - 1
  PROVE  \E x : /\ Writers(job, m, n) = IF job.experts[m + 1] >= 0 THEN {x} ELSE {}
               /\ x[2][2] \in LaneStores(job) /\ Takes(job, x[2][1], x[2][2], n)
               /\ \E j \in Nat : x[2][1] = j * BN(job)
<1>1. PICK live \in Nat \ {0}, N \in Nat : live = live_m(job) /\ N = job.N /\ m \in 0 .. live - 1 /\ n \in 0 .. N - 1
  BY DEF Sound
<1>2. PICK j \in Nat, s \in LaneStores(job) : Placed(job, n, j, s)
  <2>1. n \in Nat
    BY <1>1
  <2>2. job.kernel = "gateup" \/ job.kernel = "down"
    BY DEF Sound
  <2>3. QED
    BY <2>1, <2>2, GateUpColumn, DownColumn
<1>3. j * BN(job) \in Int
  <2>1. Tiles(job) * Tile \in Nat \ {0}
    BY ProductIsNat, MoeGridAssumption DEF Sound
  <2>2. ColumnWaves(job) * (Tiles(job) * Tile) \in Nat \ {0}
    BY <2>1, ProductIsNat DEF Sound
  <2>3. QED
    BY <2>2 DEF Sound
<1>4. j * BN(job) < job.N
  BY <1>1, <1>2, <1>3 DEF Placed
<1>5. PICK g \in Nat \ {0}, p \in Nat :
        g = GridX(job) /\ p \in 0 .. g - 1 /\ p = j \div Chunk(job) /\ Chunked(job, j)
  <2>1. GridX(job) \in Nat \ {0} /\ j \div Chunk(job) \in 0 .. GridX(job) - 1 /\ Chunked(job, j)
    BY <1>4, ChunkIs
  <2>2. QED
    BY <2>1
<1>6. PICK all \in Nat, spot \in Nat : all = live * g /\ spot = m * g + p /\ spot \in 0 .. all - 1
  <2>1. live * g \in Nat \ {0} /\ m * g + p \in 0 .. live * g - 1
    BY <1>1, <1>5, Below
  <2>2. QED
    BY <2>1
<1>7. PICK c \in 0 .. all - 1 : OnlyAt(all, spot, c)
  BY <1>6, OneWorkgroup
<1>8. c \in Ctas(job) /\ \A d \in Ctas(job) : d \in Nat
  <2>1. live <= job.blocks /\ job.blocks \in Nat
    BY <1>1 DEF Sound
  <2>2. live * g <= job.blocks * g /\ job.blocks * g = g * job.blocks /\ g * job.blocks \in Nat
    BY <2>1, TimesMonotone, ProductIsNat
  <2>3. Ctas(job) = 0 .. g * job.blocks - 1
    BY <1>5 DEF Ctas
  <2>4. QED
    BY <1>6, <2>2, <2>3
<1>9. ASSUME NEW d
      PROVE  Linear(job, d) = xcd_linear(d, all) /\ pid_m(job, d) = Linear(job, d) \div g
             /\ pid_n(job, d) = Linear(job, d) % g
  BY <1>1, <1>5, <1>6 DEF Linear, pid_m, pid_n
<1>10. Linear(job, c) = spot /\ pid_m(job, c) = m /\ pid_n(job, c) = p
  <2>1. PICK q \in Nat, r \in 0 .. g - 1 : spot = q * g + r /\ q = spot \div g /\ r = spot % g
    BY Divided, spot \in Nat
  <2>2. q * g + r = m * g + p
    BY <1>6, <2>1
  <2>3. q = m /\ r = p
    <3>1. m \in Int /\ q \in Int /\ p \in 0 .. g - 1
      BY <1>1, <1>5
    <3>2. QED
      BY <2>2, <3>1, OneQuotient
  <2>4. QED
    BY <1>7, <1>9, <2>1, <2>3 DEF OnlyAt
<1>11. Works(job, c) <=> job.experts[m + 1] >= 0
  BY <1>6, <1>10 DEF Works
<1>12. ASSUME NEW d \in Ctas(job), Works(job, d), pid_m(job, d) = m
       PROVE  pid_n(job, d) \in Nat /\ job.experts[m + 1] >= 0 /\ (pid_n(job, d) = p => d = c)
  <2>1. xcd_linear(d, all) \in Int
    <3>1. d \in Nat
      BY <1>8
    <3>2. d \div NumXcds \in Nat /\ d % NumXcds \in 0 .. NumXcds - 1
      BY <3>1, Quotient, MoeGridAssumption, d \in Int
    <3>3. PICK per \in Nat, rem \in Nat, die \in Nat :
            per = all \div NumXcds /\ rem = all % NumXcds /\ die = d % NumXcds
      <4>1. all \div NumXcds \in Nat /\ all % NumXcds \in 0 .. NumXcds - 1
        BY Quotient, MoeGridAssumption, all \in Int
      <4>2. QED
        BY <3>2, <4>1, MoeGridAssumption
    <3>4. die * per \in Nat
      BY ProductIsNat
    <3>5. QED
      BY <3>1, <3>2, <3>3, <3>4 DEF xcd_linear
  <2>2. PICK l \in Nat : l = Linear(job, d)
    BY <1>9, <2>1, <1>12 DEF Works
  <2>3. PICK q \in Nat, r \in 0 .. g - 1 : l = q * g + r /\ q = l \div g /\ r = l % g
    BY Divided
  <2>4. q = m /\ r = pid_n(job, d)
    BY <1>9, <1>12, <2>2, <2>3
  <2>5. r = p => l = spot
    BY <1>6, <2>3, <2>4
  <2>6. r = p => d = c
    BY <1>7, <1>8, <1>9, <2>2, <2>5 DEF OnlyAt
  <2>7. QED
    BY <1>12, <2>4, <2>6 DEF Works
<1> DEFINE x == <<c, <<j * BN(job), s>>>>
<1>13. ASSUME NEW w \in Writers(job, m, n) PROVE w = x /\ job.experts[m + 1] >= 0
  <2>1. PICK d, st : /\ d \in Workers(job, m) /\ st \in Stores(job, d)
                     /\ w = <<d, st>> /\ Takes(job, st[1], st[2], n)
    BY <1>13 DEF Writers, Takes
  <2>2. d \in Ctas(job) /\ Works(job, d) /\ pid_m(job, d) = m
    BY <2>1 DEF Workers
  <2>3. PICK nb \in Begins(job, d), u \in LaneStores(job) : st = <<nb, u>>
    BY <2>1 DEF Stores
  <2>4. pid_n(job, d) \in Nat /\ job.experts[m + 1] >= 0 /\ (pid_n(job, d) = p => d = c)
    BY <2>2, <1>12
  <2>5. PICK i \in Nat : nb = i * BN(job) /\ pid_n(job, d) = i \div Chunk(job)
    BY <1>5, <2>3, <2>4 DEF Chunked
  <2>6. i = j /\ u = s
    BY <1>2, <2>1, <2>3, <2>5 DEF Placed
  <2>7. d = c
    BY <1>5, <2>4, <2>5, <2>6
  <2>8. QED
    BY <2>1, <2>3, <2>4, <2>5, <2>6, <2>7
<1>14. ASSUME job.experts[m + 1] >= 0 PROVE x \in Writers(job, m, n)
  <2>1. c \in Workers(job, m)
    BY <1>8, <1>10, <1>11, <1>14 DEF Workers
  <2>2. j * BN(job) \in Begins(job, c)
    BY <1>5, <1>10 DEF Chunked
  <2>3. FirstColumn(job, j * BN(job), s) < job.N
    <3>1. PICK f : f = FirstColumn(job, j * BN(job), s)
      OBVIOUS
    <3>2. f \in Int
      BY <1>3, <3>1 DEF FirstColumn, LaneStores
    <3>3. QED
      BY <1>1, <1>2, <3>1, <3>2 DEF Takes, Placed
  <2>4. <<j * BN(job), s>> \in Stores(job, c)
    BY <2>2, <2>3 DEF Stores
  <2>5. QED
    BY <1>2, <2>1, <2>4 DEF Writers, Takes, Placed
<1>15. Writers(job, m, n) = IF job.experts[m + 1] >= 0 THEN {x} ELSE {}
  BY <1>13, <1>14
<1>16. x[2][2] = s /\ x[2][1] = j * BN(job)
  OBVIOUS
<1>17. s \in LaneStores(job) /\ Takes(job, j * BN(job), s, n)
  BY <1>2 DEF Placed
<1> HIDE DEF x
<1>18. QED
  BY <1>15, <1>16, <1>17

-----------------------------------------------------------------------------
(* A store's columns are all C's: where two are stored as one, both are.   *)
LEMMA ColumnsInside ==
  ASSUME NEW job, Sound(job), NEW j \in Nat, NEW s \in LaneStores(job), NEW n \in 0 .. job.N - 1,
         Takes(job, j * BN(job), s, n)
  PROVE  \E first \in Nat, u \in Nat, w \in Nat \ {0} :
           /\ first = FirstColumn(job, j * BN(job), s) /\ w = Width(job)
           /\ u = (IF job.kernel = "gateup" THEN 0 ELSE j * BN(job) + s[1] * Width(job) * Tile)
           /\ u <= first /\ first + w <= job.N
<1>1. PICK W \in Nat \ {0}, t \in Nat \ {0}, T \in Nat \ {0}, N \in Nat :
        W = ColumnWaves(job) /\ t = Tiles(job) /\ T = Tile /\ BN(job) = W * (t * T) /\ N = job.N
  BY MoeGridAssumption DEF Sound
<1>2. j * BN(job) \in Nat
  <2>1. t * T \in Nat /\ W * (t * T) \in Nat /\ j * (W * (t * T)) \in Nat
    BY ProductIsNat
  <2>2. QED
    BY <1>1, <2>1
<1>3. CASE job.kernel = "gateup"
  <2>1. s[1] \in Nat /\ s[2] \in Nat /\ s[3] \in Nat /\ job.nt = t /\ Width(job) = 1
    BY <1>1, <1>3 DEF LaneStores, Tiles, Width
  <2>2. s[1] * t * T \in Nat /\ s[2] * T \in Nat
    BY <2>1, ProductIsNat
  <2>3. PICK first \in Nat : first = FirstColumn(job, j * BN(job), s)
    BY <1>1, <1>2, <1>3, <2>1, <2>2 DEF FirstColumn
  <2>4. first + 1 <= N
    BY <1>1, <2>3 DEF Takes
  <2>5. QED
    BY <1>1, <1>3, <2>1, <2>3, <2>4
<1>4. CASE job.kernel = "down"
  <2>1. /\ s[1] \in Nat /\ s[3] \in Nat /\ nt_for(job.bm, job.nt) = t /\ Width(job) = t
        /\ t \in {1, 2} /\ (t = 2 => N % 2 = 0)
    BY <1>1, <1>4 DEF LaneStores, Tiles, Width, Sound
  <2>2. s[1] * t * T \in Nat /\ s[3] * t \in Nat
    BY <2>1, ProductIsNat
  <2>3. PICK first \in Nat, u \in Nat :
          /\ first = FirstColumn(job, j * BN(job), s) /\ u = j * BN(job) + s[1] * t * T
          /\ first = u + s[3] * t
    <3>1. PICK b \in Nat : b = j * BN(job)
      BY <1>2
    <3>2. FirstColumn(job, b, s) = b + s[1] * t * T + s[3] * t
      BY <1>1, <1>4, <2>1 DEF FirstColumn
    <3>3. PICK x \in Nat, y \in Nat : x = s[1] * t * T /\ y = s[3] * t
      BY <2>2
    <3>4. b + x \in Nat /\ b + x + y \in Nat
      OBVIOUS
    <3>5. QED
      BY <3>1, <3>2, <3>3, <3>4
  <2>4. first < N
    BY <1>1, <2>3 DEF Takes
  <2>5. t = 2 => first % 2 = 0
    <3>1. SUFFICES ASSUME t = 2 PROVE first % 2 = 0
      OBVIOUS
    <3>2. PICK h \in Nat : h = j * (W * T) + s[1] * T + s[3]
      <4>1. W * T \in Nat /\ j * (W * T) \in Nat /\ s[1] * T \in Nat
        BY <2>1, ProductIsNat
      <4>2. QED
        BY <2>1, <4>1
    <3>3. j * (W * (2 * T)) = 2 * (j * (W * T)) /\ s[1] * 2 * T = 2 * (s[1] * T)
      BY <2>1, SMT
    <3>4. j * (W * T) \in Nat /\ s[1] * T \in Nat
      BY <2>1, ProductIsNat, W * T \in Nat
    <3>5. first = 2 * h
      BY <1>1, <2>1, <2>3, <3>1, <3>2, <3>3, <3>4
    <3>6. QED
      BY <3>5
  <2>6. first + t <= N
    BY <1>1, <2>1, <2>4, <2>5
  <2>7. u <= first
    BY <2>2, <2>3
  <2>8. QED
    BY <1>1, <1>4, <2>1, <2>3, <2>6, <2>7
<1>5. QED
  BY <1>3, <1>4 DEF Sound

LEMMA StoreLands ==
  ASSUME NEW job, Sound(job), Fits(job), NEW j \in Nat, NEW s \in LaneStores(job), NEW n \in 0 .. job.N - 1,
         Takes(job, j * BN(job), s, n), NEW slot \in Nat
  PROVE  Lands(job, slot, j * BN(job), s) =
           IF slot < job.valid THEN {(slot * job.stride_cm + FirstColumn(job, j * BN(job), s)) * 2} ELSE {}
<1>1. PICK first \in Nat, u \in Nat, w \in Nat \ {0} :
        /\ first = FirstColumn(job, j * BN(job), s) /\ w = Width(job)
        /\ u = (IF job.kernel = "gateup" THEN 0 ELSE j * BN(job) + s[1] * Width(job) * Tile)
        /\ u <= first /\ first + w <= job.N
  BY ColumnsInside
<1>2. PICK st \in Nat \ {0}, v \in Nat, N \in Nat, range \in Nat \ {0} :
        st = job.stride_cm /\ v = job.valid /\ N = job.N /\ range = OffsetRange /\ N <= st
  BY MoeGridAssumption DEF Sound
<1>3. PICK C \in Nat, R \in Nat : C = v * st /\ R = slot * st
  BY ProductIsNat
<1>4. (v + 1) * st * 2 <= range /\ (v + 1) * st = C + st
  BY <1>2, <1>3 DEF Fits
<1>5. C * 2 + st * 2 <= range
  BY <1>4
<1>6. c_records(job) = C * 2 /\ v * st * 2 = C * 2
  BY <1>2, <1>3, <1>5 DEF c_records, records
<1>7. PICK row \in Nat : row = row_off(job, slot) /\ row = IF slot < v THEN R * 2 ELSE C * 2
  BY <1>2, <1>3, <1>6 DEF row_off
<1>8. slot < v => R + st <= C
  <2>1. SUFFICES ASSUME slot < v PROVE R + st <= C
    OBVIOUS
  <2>2. (slot + 1) * st <= v * st /\ (slot + 1) * st = slot * st + st
    BY <2>1, TimesMonotone
  <2>3. QED
    BY <1>3, <2>2
<1>9. row <= C * 2 /\ first * 2 < st * 2
  BY <1>1, <1>2, <1>7, <1>8
<1>10. row + (first * 2 - u * 2) \in 0 .. range - 1
  BY <1>1, <1>5, <1>9
<1>11. (row + (first * 2 - u * 2)) % range = row + (first * 2 - u * 2)
  BY <1>10
<1>12. Lands(job, slot, j * BN(job), s) =
         IF row + first * 2 + 2 * w <= C * 2 THEN {row + first * 2} ELSE {}
  <2>1. PICK offset : offset = ((row + (first * 2 - u * 2)) % range) + u * 2
    OBVIOUS
  <2>2. offset = row + first * 2
    BY <1>11, <2>1
  <2>3. Lands(job, slot, j * BN(job), s) = IF offset + 2 * w <= C * 2 THEN {offset} ELSE {}
    BY <1>1, <1>2, <1>6, <1>7, <2>1 DEF Lands
  <2>4. QED
    BY <2>2, <2>3
<1>13. CASE slot < v
  <2>1. row + first * 2 + 2 * w <= C * 2 /\ row + first * 2 = (R + first) * 2
    BY <1>1, <1>2, <1>7, <1>8, <1>13
  <2>2. QED
    BY <1>1, <1>2, <1>3, <1>12, <1>13, <2>1
<1>14. CASE ~ (slot < v)
  <2>1. ~ (row + first * 2 + 2 * w <= C * 2)
    BY <1>7, <1>14
  <2>2. QED
    BY <1>2, <1>12, <1>14, <2>1
<1>15. QED
  BY <1>13, <1>14

LEMMA JobWrites ==
  ASSUME NEW job, Sound(job), NEW m \in 0 .. live_m(job) - 1, NEW n \in 0 .. job.N - 1
  PROVE  LET by == Writers(job, m, n) IN
         /\ Cardinality(by) = (IF job.experts[m + 1] >= 0 THEN 1 ELSE 0)
         /\ Fits(job) => \A x \in by, r \in 1 .. Rows(job) :
              LET slot == job.sorted[m * Rows(job) + r]
                  first == FirstColumn(job, x[2][1], x[2][2])
              IN Lands(job, slot, x[2][1], x[2][2]) =
                   (IF slot < job.valid THEN {(slot * job.stride_cm + first) * 2} ELSE {})
<1>1. PICK x : /\ Writers(job, m, n) = IF job.experts[m + 1] >= 0 THEN {x} ELSE {}
               /\ x[2][2] \in LaneStores(job) /\ Takes(job, x[2][1], x[2][2], n)
               /\ \E j \in Nat : x[2][1] = j * BN(job)
  BY OneWriter
<1>2. Cardinality({x}) = 1 /\ Cardinality({}) = 0
  BY FS_Singleton, FS_EmptySet
<1>3. ASSUME Fits(job), NEW r \in 1 .. Rows(job)
      PROVE  LET slot == job.sorted[m * Rows(job) + r] IN
             Lands(job, slot, x[2][1], x[2][2]) =
               IF slot < job.valid THEN {(slot * job.stride_cm + FirstColumn(job, x[2][1], x[2][2])) * 2} ELSE {}
  <2>1. PICK h \in Nat \ {0}, live \in Nat : h = Rows(job) /\ live = live_m(job)
    BY DEF Sound
  <2>2. m * h + r \in 1 .. live * h
    <3>1. m \in 0 .. live - 1 /\ r - 1 \in 0 .. h - 1 /\ live # 0
      BY <2>1
    <3>2. m * h + (r - 1) \in 0 .. live * h - 1 /\ live * h \in Nat
      BY <2>1, <3>1, Below
    <3>3. m * h \in Int
      BY <2>1, <3>1
    <3>4. QED
      BY <2>1, <3>2, <3>3
  <2>3. PICK slot \in Nat : slot = job.sorted[m * h + r]
    <3>1. PICK i \in Nat : i = m * h + r /\ i \in 1 .. live * h
      BY <2>2
    <3>2. job.sorted \in Seq(Nat) /\ Len(job.sorted) = live * h
      BY <2>1 DEF Sound
    <3>3. job.sorted[i] \in Nat
      BY <3>1, <3>2
    <3>4. QED
      BY <3>1, <3>3
  <2>4. PICK j \in Nat : x[2][1] = j * BN(job)
    BY <1>1
  <2>5. Lands(job, slot, j * BN(job), x[2][2]) =
          IF slot < job.valid THEN {(slot * job.stride_cm + FirstColumn(job, j * BN(job), x[2][2])) * 2} ELSE {}
    BY <1>1, <1>3, <2>4, StoreLands
  <2>6. QED
    BY <2>1, <2>3, <2>4, <2>5
<1>4. Cardinality(Writers(job, m, n)) = (IF job.experts[m + 1] >= 0 THEN 1 ELSE 0)
  BY <1>1, <1>2
<1>5. \A y \in Writers(job, m, n) : y = x
  BY <1>1
<1>6. QED
  BY <1>3, <1>4, <1>5

-----------------------------------------------------------------------------
(* Between a call's entry and its launch the arguments are a call's.       *)
Entered == place = "entry" => call \in Calls

LEMMA EnteredKeeps == Entered /\ [Next]_vars => Entered'
<1> SUFFICES ASSUME Entered, [Next]_vars PROVE Entered'
  OBVIOUS
<1>1. CASE Enter
  BY <1>1 DEF Enter, Entered
<1>2. CASE Raise
  BY <1>2 DEF Raise, Entered
<1>3. CASE LaunchNothing
  BY <1>3 DEF LaunchNothing, Entered
<1>4. CASE \E cta \in Ctas(Job(call)) : Launch(cta)
  BY <1>4 DEF Launch, Entered
<1>5. ASSUME NEW w \in WaveIds, Run(w) PROVE Entered'
  <2>1. UNCHANGED <<call, place>>
    BY <1>5, Zenon DEF Run, Issue, wait_vmcnt, Publish, Multiply, Clear, PublishGate, TakeGate, StoreC
  <2>2. QED
    BY <2>1 DEF Entered
<1>6. CASE Barrier
  BY <1>6 DEF Barrier, Entered
<1>7. CASE Done
  BY <1>7 DEF Done, Entered, vars
<1>8. CASE UNCHANGED vars
  BY <1>8 DEF Entered, vars
<1>9. QED
  BY <1>1, <1>2, <1>3, <1>4, <1>5, <1>6, <1>7, <1>8 DEF Next

(* Each column of each row that a launch owes has exactly one writer, a    *)
(* padding row and a row of an expert elsewhere none, and where C fits the *)
(* offsets each store lands on its own row and columns.                    *)
THEOREM EveryOutputOnceHolds == Spec => []EveryOutputOnce
<1>1. Init => Entered
  BY DEF Init, Entered
<1>2. Entered /\ [Next]_vars => Entered'
  BY EnteredKeeps
<1>3. Entered => EveryOutputOnce
  <2>1. SUFFICES ASSUME Entered, place = "entry", Admits(call), Built(call) PROVE EveryOutputOnce
    BY DEF EveryOutputOnce
  <2>2. Sound(Job(call))
    BY <2>1, JobSound DEF Entered
  <2>3. QED
    BY <2>2, JobWrites DEF EveryOutputOnce
<1>4. QED
  BY <1>1, <1>2, <1>3, PTL DEF Spec

-----------------------------------------------------------------------------
LEMMA StepsInside ==
  ASSUME NEW blocks \in Nat, NEW N \in Nat \ {0}, NEW cus \in Nat, NEW bm \in {1, 2, 4}, NEW nt \in {1, 2}
  PROVE  moe_down_n_steps(blocks, N, cus, bm, nt) \in 1 .. Ceil(N, bn_for(bm, nt))
<1> DEFINE total == Ceil(N, bn_for(bm, nt))
           want == 12 * (IF cus > 0 THEN cus ELSE 304)
           wide == IF blocks > 0 THEN (total * blocks) \div want ELSE total
           fit == IF wide < 1 THEN 1 ELSE IF wide > total THEN total ELSE wide
           decode == IF bm = 1 /\ fit < 4 /\ total >= 4 /\ blocks <= 2 * cus
                        /\ (total \div 4) * blocks >= 2 * cus
                     THEN 4 ELSE fit
           tall == IF bm > 1 /\ total >= 2 /\ decode < total \div 2 THEN total \div 2 ELSE decode
           even == total \div Ceil(total, tall)
<1>1. moe_down_n_steps(blocks, N, cus, bm, nt) = IF even < 1 THEN 1 ELSE IF even > total THEN total ELSE even
  BY Zenon DEF moe_down_n_steps
<1>2. total \in Nat \ {0}
  <2>1. DownWaves(bm) \in Nat \ {0} /\ nt_for(bm, nt) \in Nat \ {0} /\ Tile \in Nat \ {0}
    BY MoeGridAssumption DEF DownWaves, nt_for
  <2>2. DownWaves(bm) * nt_for(bm, nt) \in Nat \ {0}
    BY <2>1, ProductIsNat
  <2>3. bn_for(bm, nt) \in Nat \ {0}
    BY <2>1, <2>2, ProductIsNat DEF bn_for
  <2>4. 0 < Ceil(N, bn_for(bm, nt)) /\ Ceil(N, bn_for(bm, nt)) \in Nat
    BY <2>3, CeilOf
  <2>5. QED
    BY <2>4
<1>3. want \in Nat \ {0}
  OBVIOUS
<1> HIDE DEF total, want
<1>4. wide \in Nat
  <2>1. total * blocks \in Nat
    BY <1>2, ProductIsNat
  <2>2. (total * blocks) \div want \in Nat
    BY <1>3, <2>1, Quotient, total * blocks \in Int
  <2>3. QED
    BY <1>2, <2>2
<1> HIDE DEF wide
<1>5. fit \in 1 .. total
  BY <1>2, <1>4
<1> HIDE DEF fit
<1>6. decode \in 1 .. total
  BY <1>2, <1>5
<1> HIDE DEF decode
<1>7. tall \in 1 .. total
  BY <1>2, <1>6
<1> HIDE DEF tall
<1>8. even \in Nat
  <2>1. Ceil(total, tall) \in Nat /\ 0 < Ceil(total, tall)
    BY <1>2, <1>7, CeilOf
  <2>2. QED
    BY <1>2, <2>1, Quotient, total \in Int
<1> HIDE DEF even
<1>9. moe_down_n_steps(blocks, N, cus, bm, nt) \in 1 .. total
  BY <1>1, <1>2, <1>8
<1>10. QED
  BY <1>9 DEF total

(* Whatever load the planners are asked for, the tile they answer has a    *)
(* kernel for that K, and the columns a workgroup sweeps are the matrix's. *)
THEOREM PlansAreBuiltHolds == Spec => []PlansAreBuilt
<1>1. ASSUME NEW l \in Loads, NEW K \in Ks
      PROVE  LET g == moe_gateup_block_m(l[1], l[2])
                 d == moe_down_block_m(l[1], l[2], K)
                 nt == moe_down_nt(l[1], l[2])
                 n == moe_down_n_steps(l[3], l[4], l[5], d, nt)
             IN /\ gateup_tile_ok(g) /\ Built([kernel |-> "gateup", bm |-> g])
                /\ d # 0 => /\ down_tile_ok(d) /\ down_k_ok(K)
                            /\ Built([kernel |-> "down", bm |-> d, K |-> K])
                            /\ n \in 1 .. Ceil(l[4], bn_for(d, nt))
  <2>1. PICK g, d, nt :
          g = moe_gateup_block_m(l[1], l[2]) /\ d = moe_down_block_m(l[1], l[2], K) /\ nt = moe_down_nt(l[1], l[2])
    OBVIOUS
  <2>2. g \in {1, 2, 3} /\ nt \in {1, 2}
    BY <2>1, Zenon DEF moe_gateup_block_m, moe_down_nt
  <2>3. d # 0 => /\ d \in {1, 2, 4} /\ K % 128 = 0 /\ K \div 128 \in DownKSteps
                 /\ (d = 4 => K \div 128 = 3)
    BY <2>1 DEF moe_down_block_m
  <2>4. d # 0 => moe_down_n_steps(l[3], l[4], l[5], d, nt) \in 1 .. Ceil(l[4], bn_for(d, nt))
    BY <2>2, <2>3, StepsInside, LoadsAssumption
  <2>5. gateup_tile_ok(g) /\ Built([kernel |-> "gateup", bm |-> g])
    BY <2>2 DEF gateup_tile_ok, Built
  <2>6. d # 0 => down_tile_ok(d) /\ down_k_ok(K) /\ Built([kernel |-> "down", bm |-> d, K |-> K])
    BY <2>3 DEF down_tile_ok, down_k_ok, Built
  <2>7. QED
    BY <2>1, <2>4, <2>5, <2>6
<1>2. PlansAreBuilt
  BY <1>1, Zenon DEF PlansAreBuilt
<1>3. QED
  BY <1>2, PTL

-----------------------------------------------------------------------------
(* What a wave's operations keep the sort of.                              *)
Sorts ==
  /\ issued \in [WaveIds -> Int] /\ landed \in [WaveIds -> Int]
  /\ load \in [WaveIds -> [Registers -> [val : Int, last : Int]]]
  /\ lds = [s \in Slots |-> [w \in WaveIds |-> lds[s][w]]]
  /\ gate = [w \in WaveIds |-> gate[w]]
  /\ sum = [w \in WaveIds |-> sum[w]]
  /\ at = [w \in WaveIds |-> at[w]]

(* The last load to a register had value v, and k operations follow it; or *)
(* it has landed.                                                          *)
Behind(w, r, v, k) == load[w][r].val = v /\ load[w][r].last + k <= issued[w]
Arrived(w, r, v) == load[w][r].val = v /\ load[w][r].last <= landed[w]

LEMMA ArrivedHeld ==
  ASSUME NEW w, NEW r, NEW v, Arrived(w, r, v)
  PROVE  Held(w, r) = v
  BY DEF Arrived, Held

LEMMA MaxOf ==
  ASSUME NEW a \in Int, NEW b \in Int
  PROVE  Max({a, b}) = IF a >= b THEN a ELSE b
<1>1. PICK m \in {a, b} : m = (IF a >= b THEN a ELSE b)
  OBVIOUS
<1>2. \A y \in {a, b} : m >= y
  BY <1>1
<1>3. \A x \in {a, b} : (\A y \in {a, b} : x >= y) => x = m
  BY <1>1
<1>4. (CHOOSE x \in {a, b} : \A y \in {a, b} : x >= y) = m
  BY <1>2, <1>3
<1>5. QED
  BY <1>1, <1>4 DEF Max

-----------------------------------------------------------------------------
(* What a wave that is not the one to move keeps.                          *)
Same(u) ==
  /\ issued'[u] = issued[u] /\ landed'[u] = landed[u] /\ load'[u] = load[u]
  /\ sum'[u] = sum[u] /\ at'[u] = at[u]

(* What each operation does to its wave, and that it leaves the others be. *)
Alone(w) == Sorts' /\ at'[w] = Following(w) /\ \A u \in WaveIds \ {w} : Same(u)
Private == lds' = lds /\ gate' = gate

Issued(w, r, v, k) ==
  /\ Alone(w) /\ Private /\ sum' = sum
  /\ Behind(w, r, v, 0)'
  /\ \A s \in Registers \ {r}, x, n \in Int : Behind(w, s, x, n) => Behind(w, s, x, n + k)'
  /\ \A s \in Registers \ {r} : \A x : Arrived(w, s, x) => Arrived(w, s, x)'

Waited(w, left) ==
  /\ Alone(w) /\ Private /\ sum' = sum
  /\ \A r \in Registers, v, n \in Int : Behind(w, r, v, n) => Behind(w, r, v, n)'
  /\ \A r \in Registers, v, n \in Int : Behind(w, r, v, n) /\ n >= left => Arrived(w, r, v)'
  /\ \A r \in Registers : \A v : Arrived(w, r, v) => Arrived(w, r, v)'

Stored(w) ==
  /\ Alone(w) /\ Private /\ sum' = sum
  /\ \A r \in Registers, v, n \in Int : Behind(w, r, v, n) => Behind(w, r, v, n)'

(* A step that leaves a wave's registers alone.                            *)
Still(w) ==
  /\ \A r, v, n : Behind(w, r, v, n) => Behind(w, r, v, n)'
  /\ \A r, v : Arrived(w, r, v) => Arrived(w, r, v)'

Wrote(w, s, v) ==
  /\ Alone(w) /\ Still(w) /\ sum' = sum
  /\ lds'[s][w] = v
  /\ \A t \in Slots, u \in WaveIds : t # s \/ u # w => lds'[t][u] = lds[t][u]

Multiplies(w, a, b) == Alone(w) /\ Still(w) /\ Private /\ sum'[w] = Append(sum[w], <<a, b>>)
Clears(w) == Alone(w) /\ Still(w) /\ Private /\ sum'[w] = <<>>
HandsOver(w) ==
  /\ Alone(w) /\ Still(w) /\ sum' = sum
  /\ gate'[w] = sum[w] /\ \A u \in WaveIds \ {w} : gate'[u] = gate[u]
Taken(w) == Alone(w) /\ Still(w) /\ Private /\ sum' = sum

LEMMA IssueDoes ==
  ASSUME Sorts, NEW w \in WaveIds, NEW r \in Registers, NEW v \in Int, NEW k \in Int,
         Now(w) = Load(r, v, k), Issue(w)
  PROVE  Issued(w, r, v, k)
<1> DEFINE now == Now(w)
           next == Following(w)
<1>0. now.ops = k /\ now.val = v /\ now.reg = r
  BY DEF Load
<1>1. /\ issued' = [issued EXCEPT ![w] = @ + k]
      /\ load' = [load EXCEPT ![w][r] = [val |-> v, last |-> issued[w] + k]]
      /\ at' = [at EXCEPT ![w] = next]
      /\ UNCHANGED <<landed, lds, gate, sum>>
  BY <1>0 DEF Issue, Step
<1> HIDE DEF now, next
<1>2. Sorts'
  <2>0. issued[w] + k \in Int
    BY DEF Sorts
  <2>1. issued' \in [WaveIds -> Int]
    BY <1>1, <2>0 DEF Sorts
  <2>4. at' = [u \in WaveIds |-> at'[u]]
    BY <1>1 DEF Sorts
  <2>2. load' \in [WaveIds -> [Registers -> [val : Int, last : Int]]]
    BY <1>1 DEF Sorts
  <2>3. QED
    BY <1>1, <2>1, <2>2, <2>4 DEF Sorts
<1>3. issued'[w] = issued[w] + k /\ at'[w] = next
  BY <1>1 DEF Sorts
<1>4. load'[w][r] = [val |-> v, last |-> issued[w] + k]
  BY <1>1 DEF Sorts
<1>5. \A s \in Registers \ {r} : load'[w][s] = load[w][s]
  BY <1>1 DEF Sorts
<1>6. \A u \in WaveIds \ {w} : Same(u)
  BY <1>1 DEF Sorts, Same
<1>7. Behind(w, r, v, 0)'
  BY <1>3, <1>4 DEF Behind, Sorts
<1>8. \A s \in Registers \ {r}, x, n \in Int : Behind(w, s, x, n) => Behind(w, s, x, n + k)'
  BY <1>3, <1>5 DEF Behind, Sorts
<1>9. \A s \in Registers \ {r} : \A x : Arrived(w, s, x) => Arrived(w, s, x)'
  BY <1>1, <1>5 DEF Arrived
<1>10. QED
  BY <1>1, <1>2, <1>3, <1>6, <1>7, <1>8, <1>9 DEF next, Issued, Alone, Private

LEMMA WaitDoes ==
  ASSUME Sorts, NEW w \in WaveIds, NEW left \in Int, Now(w) = Wait(left), wait_vmcnt(w)
  PROVE  Waited(w, left)
<1> DEFINE now == Now(w)
           next == Following(w)
           top == Max({landed[w], issued[w] - left})
<1>0. now.left = left
  BY DEF Wait
<1>1. /\ landed' = [landed EXCEPT ![w] = top]
      /\ at' = [at EXCEPT ![w] = next]
      /\ UNCHANGED <<issued, load, lds, gate, sum>>
  BY <1>0 DEF wait_vmcnt, Step
<1>2. landed[w] \in Int /\ issued[w] \in Int
  BY DEF Sorts
<1>3. top = IF landed[w] >= issued[w] - left THEN landed[w] ELSE issued[w] - left
  BY <1>2, MaxOf
<1>4. top \in Int /\ top >= landed[w] /\ top >= issued[w] - left
  BY <1>2, <1>3
<1> HIDE DEF now, next, top
<1>5. Sorts'
  BY <1>1, <1>4 DEF Sorts
<1>6. landed'[w] = top /\ at'[w] = next
  BY <1>1 DEF Sorts
<1>7. \A u \in WaveIds \ {w} : Same(u)
  BY <1>1 DEF Sorts, Same
<1>8. \A r \in Registers : load[w][r].last \in Int
  BY DEF Sorts
<1>9. \A r \in Registers, v, n \in Int : Behind(w, r, v, n) => Behind(w, r, v, n)'
  BY <1>1 DEF Behind
<1>10. \A r \in Registers, v, n \in Int : Behind(w, r, v, n) /\ n >= left => Arrived(w, r, v)'
  BY <1>1, <1>2, <1>4, <1>6, <1>8 DEF Behind, Arrived
<1>11. \A r \in Registers : \A v : Arrived(w, r, v) => Arrived(w, r, v)'
  BY <1>1, <1>2, <1>4, <1>6, <1>8 DEF Arrived
<1>12. QED
  BY <1>1, <1>5, <1>6, <1>7, <1>9, <1>10, <1>11 DEF next, Waited, Alone, Private

LEMMA StoreDoes ==
  ASSUME Sorts, NEW w \in WaveIds, NEW s, NEW k \in Nat, Now(w) = Store(s, k), StoreC(w)
  PROVE  Stored(w)
<1> DEFINE now == Now(w)
           next == Following(w)
<1>0. now.ops = k
  BY DEF Store
<1>1. /\ issued' = [issued EXCEPT ![w] = @ + k]
      /\ at' = [at EXCEPT ![w] = next]
      /\ UNCHANGED <<landed, load, lds, gate, sum>>
  BY <1>0 DEF StoreC, Step
<1> HIDE DEF now, next
<1>2. Sorts'
  <2>0. issued[w] + k \in Int
    BY DEF Sorts
  <2>1. issued' \in [WaveIds -> Int]
    BY <1>1, <2>0 DEF Sorts
  <2>4. at' = [u \in WaveIds |-> at'[u]]
    BY <1>1 DEF Sorts
  <2>2. QED
    BY <1>1, <2>1, <2>4 DEF Sorts
<1>3. issued'[w] = issued[w] + k /\ at'[w] = next /\ issued[w] \in Int
  BY <1>1 DEF Sorts
<1>4. \A u \in WaveIds \ {w} : Same(u)
  BY <1>1 DEF Sorts, Same
<1>5. \A r \in Registers, v, n \in Int : Behind(w, r, v, n) => Behind(w, r, v, n)'
  BY <1>1, <1>3 DEF Behind, Sorts
<1>6. QED
  BY <1>1, <1>2, <1>3, <1>4, <1>5 DEF next, Stored, Alone, Private

LEMMA StillIs ==
  ASSUME NEW w, UNCHANGED memory
  PROVE  Still(w)
  BY DEF Still, Behind, Arrived, memory

LEMMA PublishDoes ==
  ASSUME Sorts, NEW w \in WaveIds, NEW r \in Registers, NEW s \in Slots, NEW v,
         Now(w) = WriteA(r, s), Publish(w), Arrived(w, r, v)
  PROVE  Wrote(w, s, v)
<1> DEFINE now == Now(w)
           next == Following(w)
           held == Held(w, r)
<1>0. now.slot = s /\ now.reg = r /\ held = v
  BY ArrivedHeld DEF WriteA
<1>1. /\ lds' = [lds EXCEPT ![s][w] = v]
      /\ gate' = NoSums
      /\ at' = [at EXCEPT ![w] = next]
      /\ UNCHANGED <<memory, sum>>
  BY <1>0 DEF Publish, Step
<1> HIDE DEF now, next, held
<1>2. Sorts'
  <2>1. lds' = [x \in Slots |-> [y \in WaveIds |-> lds'[x][y]]]
    BY <1>1 DEF Sorts
  <2>2. QED
    BY <1>1, <2>1 DEF Sorts, NoSums, memory
<1>3. lds'[s][w] = v /\ \A t \in Slots, u \in WaveIds : t # s \/ u # w => lds'[t][u] = lds[t][u]
  BY <1>1 DEF Sorts
<1>4. \A u \in WaveIds \ {w} : Same(u)
  BY <1>1 DEF Sorts, Same, memory
<1>5. at'[w] = next
  BY <1>1 DEF Sorts
<1>6. Still(w)
  BY <1>1, StillIs
<1>7. QED
  BY <1>5, <1>6, <1>1, <1>2, <1>3, <1>4 DEF next, Alone, Private, Wrote

LEMMA MultiplyDoes ==
  ASSUME Sorts, NEW w \in WaveIds, NEW r \in Registers, NEW slots, NEW val, NEW a, NEW b,
         Now(w) = Product(r, slots, val), Multiply(w), Arrived(w, r, b),
         IF call.kernel = "down" THEN a = val /\ ARows(slots) = 0 ELSE a = ARows(slots)
  PROVE  Multiplies(w, a, b)
<1> DEFINE now == Now(w)
           next == Following(w)
           held == Held(w, r)
<1>0. now.slots = slots /\ now.reg = r /\ now.val = val /\ held = b
  BY ArrivedHeld DEF Product
<1>1. 0 # Junk
  BY DEF Junk
<1>2. /\ sum' = [sum EXCEPT ![w] = Append(@, <<a, b>>)]
      /\ at' = [at EXCEPT ![w] = next]
      /\ UNCHANGED <<memory, lds, gate>>
  BY <1>0, <1>1 DEF Multiply, Step
<1> HIDE DEF now, next, held
<1>3. Sorts'
  BY <1>2 DEF Sorts, memory
<1>4. \A u \in WaveIds \ {w} : Same(u)
  BY <1>2 DEF Sorts, Same, memory
<1>5. at'[w] = next /\ sum'[w] = Append(sum[w], <<a, b>>)
  BY <1>2 DEF Sorts
<1>6. Still(w)
  BY <1>2, StillIs
<1>7. QED
  BY <1>5, <1>6, <1>2, <1>3, <1>4 DEF next, Alone, Private, Multiplies

LEMMA ClearDoes ==
  ASSUME Sorts, NEW w \in WaveIds, Clear(w)
  PROVE  Clears(w)
<1> DEFINE next == Following(w)
<1>1. /\ sum' = [sum EXCEPT ![w] = <<>>]
      /\ at' = [at EXCEPT ![w] = next]
      /\ UNCHANGED <<memory, lds, gate>>
  BY DEF Clear, Step
<1> HIDE DEF next
<1>3. Sorts'
  BY <1>1 DEF Sorts, memory
<1>4. \A u \in WaveIds \ {w} : Same(u)
  BY <1>1 DEF Sorts, Same, memory
<1>5. at'[w] = next /\ sum'[w] = <<>>
  BY <1>1 DEF Sorts
<1>6. Still(w)
  BY <1>1, StillIs
<1>7. QED
  BY <1>5, <1>6, <1>1, <1>3, <1>4 DEF next, Alone, Private, Clears

LEMMA PublishGateDoes ==
  ASSUME Sorts, NEW w \in WaveIds, PublishGate(w)
  PROVE  HandsOver(w)
<1> DEFINE next == Following(w)
<1>1. /\ gate' = [gate EXCEPT ![w] = sum[w]]
      /\ lds' = [s \in Slots |-> [x \in WaveIds |-> Junk]]
      /\ at' = [at EXCEPT ![w] = next]
      /\ UNCHANGED <<memory, sum>>
  BY DEF PublishGate, Step
<1> HIDE DEF next
<1>3. Sorts'
  BY <1>1 DEF Sorts, memory
<1>4. \A u \in WaveIds \ {w} : Same(u)
  BY <1>1 DEF Sorts, Same, memory
<1>5. at'[w] = next /\ gate'[w] = sum[w] /\ \A u \in WaveIds \ {w} : gate'[u] = gate[u]
  BY <1>1 DEF Sorts
<1>6. Still(w)
  BY <1>1, StillIs
<1>7. QED
  BY <1>5, <1>6, <1>1, <1>3, <1>4 DEF next, Alone, Private, HandsOver

LEMMA TakeGateDoes ==
  ASSUME Sorts, NEW w \in WaveIds, TakeGate(w), gate[Partner(w)] = sum[w]
  PROVE  Taken(w)
<1> DEFINE next == Following(w)
<1>1. /\ sum' = [sum EXCEPT ![w] = sum[w]]
      /\ at' = [at EXCEPT ![w] = next]
      /\ UNCHANGED <<memory, lds, gate>>
  BY DEF TakeGate, Step
<1> HIDE DEF next
<1>2. sum' = sum
  BY <1>1 DEF Sorts
<1>3. Sorts'
  BY <1>1, <1>2 DEF Sorts, memory
<1>4. \A u \in WaveIds \ {w} : Same(u)
  BY <1>1 DEF Sorts, Same, memory
<1>5. at'[w] = next
  BY <1>1 DEF Sorts
<1>6. Still(w)
  BY <1>1, StillIs
<1>7. QED
  BY <1>5, <1>6, <1>1, <1>2, <1>3, <1>4 DEF next, Alone, Private, Taken

-----------------------------------------------------------------------------
(* What a wave does next, and where it goes from there.                    *)
LEMMA RunIs ==
  ASSUME NEW w, at[w].part # End, Run(w)
  PROVE  /\ Now(w).op = "load" => Issue(w)
         /\ Now(w).op = "wait" => wait_vmcnt(w)
         /\ Now(w).op = "write_a" => Publish(w)
         /\ Now(w).op = "mfma" => Multiply(w)
         /\ Now(w).op = "store" => StoreC(w)
         /\ Now(w).op = "clear" => Clear(w)
         /\ Now(w).op = "gate" => PublishGate(w)
         /\ Now(w).op = "glu" => TakeGate(w)
         /\ Now(w).op # "barrier"
<1> DEFINE op == Now(w).op
<1>1. Issue(w) => op = "load"
  BY DEF Issue, At
<1>2. wait_vmcnt(w) => op = "wait"
  BY DEF wait_vmcnt, At
<1>3. Publish(w) => op = "write_a"
  BY DEF Publish, At
<1>4. Multiply(w) => op = "mfma"
  BY DEF Multiply, At
<1>5. StoreC(w) => op = "store"
  BY DEF StoreC, At
<1>6. Clear(w) => op = "clear"
  BY DEF Clear, At
<1>7. PublishGate(w) => op = "gate"
  BY DEF PublishGate, At
<1>8. TakeGate(w) => op = "glu"
  BY DEF TakeGate, At
<1>9. Issue(w) \/ wait_vmcnt(w) \/ Publish(w) \/ Multiply(w) \/ StoreC(w) \/ Clear(w) \/ PublishGate(w) \/ TakeGate(w)
  BY DEF Run
<1> HIDE DEF op
<1>10. QED
  BY <1>1, <1>2, <1>3, <1>4, <1>5, <1>6, <1>7, <1>8, <1>9 DEF op

LEMMA FollowingIs ==
  ASSUME NEW w, NEW p, NEW n \in Nat, at[w] = [part |-> p, n |-> n]
  PROVE  /\ n < Len(Code(w, p)) => Following(w) = [part |-> p, n |-> n + 1]
         /\ ~(n < Len(Code(w, p))) => Following(w) = Start(After(w, p))
         /\ Now(w) = Code(w, p)[n]
<1> DEFINE c == Code(w, p)
           a == After(w, p)
<1>1. at[w].part = p /\ at[w].n = n
  OBVIOUS
<1>2. Following(w) = IF n < Len(c) THEN [at[w] EXCEPT !.n = @ + 1] ELSE Start(a)
  BY <1>1 DEF Following
<1>3. Now(w) = c[n]
  BY <1>1 DEF Now
<1> HIDE DEF c, a
<1>4. QED
  BY <1>2, <1>3 DEF c, a

-----------------------------------------------------------------------------
(* gateup.                                                                 *)
LEMMA Turns ==
  ASSUME NEW i \in Nat
  PROVE  /\ {A(i), B(i)} \subseteq Registers /\ {A(i + 1), B(i + 1)} \subseteq Registers
         /\ A(i + 2) = A(i) /\ B(i + 2) = B(i)
         /\ A(i + 1) # A(i) /\ B(i + 1) # B(i)
         /\ A(i) # B(i) /\ A(i) # B(i + 1) /\ A(i + 1) # B(i) /\ A(i + 1) # B(i + 1)
         /\ i % 2 \in {0, 1} /\ (i + 1) % 2 \in {0, 1} /\ (i + 1) % 2 # i % 2 /\ (i + 2) % 2 = i % 2
<1>1. /\ i % 2 \in {0, 1} /\ (i + 1) % 2 \in {0, 1} /\ (i + 1) % 2 # i % 2 /\ (i + 2) % 2 = i % 2
  BY SMT
<1>2. /\ AReg[1] = "A0" /\ AReg[2] = "A1" /\ BReg[1] = "B0" /\ BReg[2] = "B1"
  BY DEF AReg, BReg
<1>3. \/ i % 2 = 0 /\ (i + 1) % 2 = 1 /\ (i + 2) % 2 = 0
      \/ i % 2 = 1 /\ (i + 1) % 2 = 0 /\ (i + 2) % 2 = 1
  BY <1>1
<1>4. \/ A(i) = "A0" /\ B(i) = "B0" /\ A(i + 1) = "A1" /\ B(i + 1) = "B1" /\ A(i + 2) = "A0" /\ B(i + 2) = "B0"
      \/ A(i) = "A1" /\ B(i) = "B1" /\ A(i + 1) = "A0" /\ B(i + 1) = "B0" /\ A(i + 2) = "A1" /\ B(i + 2) = "B1"
  BY <1>2, <1>3 DEF A, B
<1>5. QED
  BY <1>1, <1>4 DEF Registers

LEMMA SlabCode ==
  ASSUME NEW i \in Nat
  PROVE  /\ Len(slab_body(i)) = 7
         /\ slab_body(i)[1] = Wait(SLAB_OPS)
         /\ slab_body(i)[7] = Do("barrier")
         /\ Early => /\ slab_body(i)[2] = issue_a(i + 2)
                     /\ slab_body(i)[3] = Product(B(i), {i % 2}, i)
                     /\ slab_body(i)[4] = Wait(B_OPS + Grans)
                     /\ slab_body(i)[5] = WriteA(A(i + 1), (i + 1) % 2)
                     /\ slab_body(i)[6] = issue_b(i + 2)
         /\ ~Early => /\ slab_body(i)[2] = Product(B(i), {i % 2}, i)
                      /\ slab_body(i)[3] = Wait(B_OPS)
                      /\ slab_body(i)[4] = WriteA(A(i + 1), (i + 1) % 2)
                      /\ slab_body(i)[5] = issue_a(i + 2)
                      /\ slab_body(i)[6] = issue_b(i + 2)
<1> DEFINE x == Product(B(i), {i % 2}, i)
           y == WriteA(A(i + 1), (i + 1) % 2)
           f == issue_a(i + 2)
           g == issue_b(i + 2)
           k == Wait(SLAB_OPS)
           m == Wait(B_OPS)
           n == Wait(B_OPS + Grans)
           z == Do("barrier")
<1>1. slab_body(i) = IF Early THEN <<k, f, x, n, y, g, z>> ELSE <<k, x, m, y, f, g, z>>
  BY DEF slab_body
<1> HIDE DEF x, y, f, g, k, m, n, z
<1>2. QED
  BY <1>1 DEF x, y, f, g, k, m, n, z

LEMMA PrimeCode ==
  /\ Len(Prime) = 7
  /\ Prime[1] = Load(A(0), 0, Grans) /\ Prime[2] = Load(B(0), 0, B_OPS)
  /\ Prime[3] = Load(A(1), 1, Grans) /\ Prime[4] = Load(B(1), 1, B_OPS)
  /\ Prime[5] = Wait(B_OPS + SLAB_OPS) /\ Prime[6] = WriteA(A(0), 0) /\ Prime[7] = Do("barrier")
<1> DEFINE x == issue_a(0)
           y == issue_b(0)
           f == issue_a(1)
           g == issue_b(1)
           k == Wait(B_OPS + SLAB_OPS)
           m == WriteA(A(0), 0)
           z == Do("barrier")
<1>1. Prime = <<x, y, f, g, k, m, z>>
  BY DEF Prime
<1>2. x = Load(A(0), 0, Grans) /\ y = Load(B(0), 0, B_OPS) /\ f = Load(A(1), 1, Grans) /\ g = Load(B(1), 1, B_OPS)
  BY DEF issue_a, issue_b
<1> HIDE DEF x, y, f, g, k, m, z
<1>3. QED
  BY <1>1, <1>2 DEF k, m, z

(* The products of n steps with B's slabs from the first on.               *)
Pairs(first, n) == [i \in 1 .. n |-> <<i - 1, first + i - 1>>]

LEMMA OneMore ==
  ASSUME NEW f \in Int, NEW n \in Nat
  PROVE  Append(Pairs(f, n), <<n, f + n>>) = Pairs(f, n + 1)
<1> DEFINE s == Pairs(f, n)
           e == <<n, f + n>>
<1>1. s \in Seq(Int \X Int) /\ Len(s) = n /\ e \in Int \X Int
  BY DEF Pairs
<1>2. \A i \in 1 .. n : s[i] = <<i - 1, f + i - 1>>
  BY DEF Pairs
<1> HIDE DEF s
<1>3. /\ Append(s, e) \in Seq(Int \X Int) /\ Len(Append(s, e)) = n + 1
      /\ \A i \in 1 .. n : Append(s, e)[i] = s[i]
      /\ Append(s, e)[n + 1] = e
  BY <1>1, AppendProperties
<1>4. \A i \in 1 .. n + 1 : Append(s, e)[i] = <<i - 1, f + i - 1>>
  <2>1. n + 1 - 1 = n /\ f + (n + 1) - 1 = f + n
    OBVIOUS
  <2>2. SUFFICES ASSUME NEW i \in 1 .. n + 1 PROVE Append(s, e)[i] = <<i - 1, f + i - 1>>
    OBVIOUS
  <2>3. CASE i = n + 1
    BY <1>3, <2>1, <2>3
  <2>4. CASE i # n + 1
    <3>1. i \in 1 .. n
      BY <2>4
    <3>2. QED
      BY <1>2, <1>3, <3>1
  <2>5. QED
    BY <2>3, <2>4
<1> DEFINE q == Append(s, e)
<1>5. q \in Seq(Int \X Int) /\ Len(q) = n + 1 /\ \A i \in 1 .. n + 1 : q[i] = <<i - 1, f + i - 1>>
  BY <1>3, <1>4
<1> HIDE DEF q
<1>6. q = [i \in 1 .. n + 1 |-> q[i]]
  BY <1>5
<1>7. q = Pairs(f, n + 1)
  BY <1>5, <1>6 DEF Pairs
<1>8. QED
  BY <1>7 DEF q, s

(* A call of gateup: g granules, b operations for a slab of B, s slabs.     *)
GateUpCall(g, b, s) ==
  /\ call.kernel = "gateup" /\ call.situ \in BOOLEAN
  /\ g = Grans /\ b = B_OPS /\ s = Slabs /\ s = KSteps
  /\ Waves \subseteq WaveIds /\ Waves # {}
  /\ call.situ => \A w \in Waves : ~IsGate(w) => Partner(w) \in Waves /\ IsGate(Partner(w))

(* Where the loads of slab i and the next stand before it is multiplied.   *)
Ahead(w, i, g, b) ==
  Behind(w, B(i), i, g + b) /\ Behind(w, A(i + 1), i + 1, b) /\ Behind(w, B(i + 1), i + 1, 0)

PrimeAt(w, n, g, b) ==
  /\ n \in 1 .. 7 /\ sum[w] = Pairs(0, 0)
  /\ n = 2 => Behind(w, A(0), 0, 0)
  /\ n = 3 => Behind(w, A(0), 0, b) /\ Behind(w, B(0), 0, 0)
  /\ n = 4 => Behind(w, A(0), 0, b + g) /\ Behind(w, B(0), 0, g) /\ Behind(w, A(1), 1, 0)
  /\ n = 5 => Behind(w, A(0), 0, b + g + b)
  /\ n = 6 => Arrived(w, A(0), 0)
  /\ n \in 5 .. 7 => Ahead(w, 0, g, b)
  /\ n = 7 => lds[0][w] = 0

(* A slab of a 16-row tile, and of a taller one.                           *)
EarlyAt(w, i, n, g, b) ==
  /\ n = 2 => Behind(w, A(i + 1), i + 1, b) /\ Behind(w, B(i + 1), i + 1, 0)
  /\ n \in 2 .. 3 => Arrived(w, B(i), i)
  /\ n \in 3 .. 4 => Behind(w, A(i + 1), i + 1, b + g)
  /\ n = 5 => Arrived(w, A(i + 1), i + 1)
  /\ n \in 3 .. 6 => Behind(w, B(i + 1), i + 1, g) /\ Behind(w, A(i + 2), i + 2, 0)
  /\ sum[w] = Pairs(0, IF n > 3 THEN i + 1 ELSE i)
  /\ n > 5 => lds[(i + 1) % 2][w] = i + 1

LateAt(w, i, n, g, b) ==
  /\ n = 2 => Arrived(w, B(i), i)
  /\ n \in 2 .. 3 => Behind(w, A(i + 1), i + 1, b)
  /\ n = 4 => Arrived(w, A(i + 1), i + 1)
  /\ n \in 2 .. 5 => Behind(w, B(i + 1), i + 1, 0)
  /\ n = 6 => Behind(w, B(i + 1), i + 1, g) /\ Behind(w, A(i + 2), i + 2, 0)
  /\ sum[w] = Pairs(0, IF n > 2 THEN i + 1 ELSE i)
  /\ n > 4 => lds[(i + 1) % 2][w] = i + 1

SlabAt(w, i, n, g, b) ==
  /\ n \in 1 .. 7
  /\ lds[i % 2][w] = i
  /\ n = 1 => Ahead(w, i, g, b)
  /\ IF g = 1 THEN EarlyAt(w, i, n, g, b) ELSE LateAt(w, i, n, g, b)
  /\ n = 7 => Ahead(w, i + 1, g, b)

(* The sums of all of K, in the accumulators, and handed over.             *)
Full(w, s) == sum[w] = Pairs(0, s)
Handed(w, s) == gate[w] = Pairs(0, s)

GateUpAt(w, p, n, g, b, s) ==
  \/ p = Part("prime", 0, 0) /\ PrimeAt(w, n, g, b)
  \/ \E i \in 0 .. s - 1 : p = Part("slab", i, 0) /\ SlabAt(w, i, n, g, b)
  \/ p = Part("drain", s, 0) /\ n \in {1, 2} /\ Full(w, s)
  \/ p = Part("gate", 0, 0) /\ call.situ /\ Full(w, s)
     /\ IF IsGate(w) THEN n = 1 \/ (n = 2 /\ Handed(w, s)) ELSE n = 1
  \/ p = Part("glu", 0, 0) /\ call.situ /\ ~IsGate(w) /\ n \in {1, 2} /\ Full(w, s) /\ Handed(Partner(w), s)
  \/ p = End /\ n = 1

(* A step within a part that leaves the other waves' LDS and gate as set.   *)
Within(w, p, n) ==
  /\ Sorts' /\ at'[w] = [part |-> p, n |-> n + 1]
  /\ \A u \in WaveIds \ {w} : Same(u)
Apart(w) == \A u \in WaveIds \ {w}, s \in Slots : lds'[s][u] = lds[s][u]

LEMMA PrimeStep ==
  ASSUME Sorts, NEW g \in Nat, NEW b \in Nat, NEW s \in Nat, GateUpCall(g, b, s),
         NEW w \in Waves, NEW n, PrimeAt(w, n, g, b), Run(w),
         at[w] = [part |-> Part("prime", 0, 0), n |-> n]
  PROVE  Within(w, Part("prime", 0, 0), n) /\ PrimeAt(w, n + 1, g, b)' /\ Apart(w)
<1> DEFINE p == Part("prime", 0, 0)
<1>1. p # End /\ at[w] = [part |-> p, n |-> n] /\ at[w].part = p /\ Code(w, p) = Prime /\ w \in WaveIds /\ n \in Nat /\ n \in 1 .. 7
  BY DEF Part, End, Code, GateUpCode, GateUpCall, PrimeAt
<1>2. /\ {A(0), B(0), A(1), B(1)} \subseteq Registers
      /\ A(0) # B(0) /\ A(0) # A(1) /\ A(0) # B(1) /\ B(0) # A(1) /\ B(0) # B(1) /\ A(1) # B(1)
      /\ 0 + 1 = 1 /\ 0 \in Slots
  <2>1. 0 \in Nat /\ 0 + 1 = 1
    OBVIOUS
  <2>2. QED
    BY <2>1, Turns DEF Slots
<1> HIDE DEF p
<1>3. /\ n < 7 => Following(w) = [part |-> p, n |-> n + 1]
      /\ Now(w) = Prime[n]
  <2>1. /\ n < Len(Code(w, p)) => Following(w) = [part |-> p, n |-> n + 1]
        /\ Now(w) = Code(w, p)[n]
    BY <1>1, FollowingIs
  <2>2. QED
    BY <1>1, <2>1, PrimeCode
<1>4. n = 7 => FALSE
  BY <1>1, <1>3, RunIs, PrimeCode DEF Do
<1>5. g = Grans /\ b = B_OPS /\ SLAB_OPS = g + b /\ g \in Int /\ b \in Int
  BY DEF GateUpCall, SLAB_OPS
<1>6. CASE n = 1
  <2>1. Now(w) = Load(A(0), 0, g) /\ Issue(w)
    BY <1>1, <1>3, <1>5, <1>6, RunIs, PrimeCode DEF Load
  <2>2. Issued(w, A(0), 0, g)
    BY <1>1, <1>2, <1>5, <1>6, <2>1, IssueDoes
  <2>3. PrimeAt(w, 2, g, b)'
    BY <1>1, <1>2, <1>5, <1>6, <2>2 DEF PrimeAt, Ahead, Issued, Alone, Private
  <2>4. Within(w, p, n) /\ Apart(w)
    BY <1>1, <1>2, <1>3, <1>6, <2>2 DEF Issued, Alone, Private, Within, Apart
  <2>5. QED
    BY <1>6, <2>3, <2>4 DEF p
<1>7. CASE n = 2
  <2>1. Now(w) = Load(B(0), 0, b) /\ Issue(w)
    BY <1>1, <1>3, <1>5, <1>7, RunIs, PrimeCode DEF Load
  <2>2. Issued(w, B(0), 0, b)
    BY <1>1, <1>2, <1>5, <1>7, <2>1, IssueDoes
  <2>6. Behind(w, A(0), 0, 0 + b)' /\ 0 + b = b
    BY <1>1, <1>2, <1>5, <1>7, <2>2 DEF PrimeAt, Issued
  <2>3. PrimeAt(w, 3, g, b)'
    BY <1>1, <1>2, <1>5, <1>7, <2>2, <2>6 DEF PrimeAt, Ahead, Issued, Alone, Private
  <2>4. Within(w, p, n) /\ Apart(w)
    BY <1>1, <1>2, <1>3, <1>7, <2>2 DEF Issued, Alone, Private, Within, Apart
  <2>5. QED
    BY <1>7, <2>3, <2>4 DEF p
<1>8. CASE n = 3
  <2>1. Now(w) = Load(A(1), 1, g) /\ Issue(w)
    BY <1>1, <1>3, <1>5, <1>8, RunIs, PrimeCode DEF Load
  <2>2. Issued(w, A(1), 1, g)
    BY <1>1, <1>2, <1>5, <1>8, <2>1, IssueDoes
  <2>6. Behind(w, A(0), 0, b + g)' /\ Behind(w, B(0), 0, 0 + g)' /\ 0 + g = g
    BY <1>1, <1>2, <1>5, <1>8, <2>2 DEF PrimeAt, Issued
  <2>3. PrimeAt(w, 4, g, b)'
    BY <1>1, <1>2, <1>5, <1>8, <2>2, <2>6 DEF PrimeAt, Ahead, Issued, Alone, Private
  <2>4. Within(w, p, n) /\ Apart(w)
    BY <1>1, <1>2, <1>3, <1>8, <2>2 DEF Issued, Alone, Private, Within, Apart
  <2>5. QED
    BY <1>8, <2>3, <2>4 DEF p
<1>9. CASE n = 4
  <2>1. Now(w) = Load(B(1), 1, b) /\ Issue(w)
    BY <1>1, <1>3, <1>5, <1>9, RunIs, PrimeCode DEF Load
  <2>2. Issued(w, B(1), 1, b)
    BY <1>1, <1>2, <1>5, <1>9, <2>1, IssueDoes
  <2>6. Behind(w, A(0), 0, b + g + b)' /\ Behind(w, B(0), 0, g + b)' /\ Behind(w, A(1), 1, 0 + b)' /\ 0 + b = b
    BY <1>1, <1>2, <1>5, <1>9, <2>2 DEF PrimeAt, Issued
  <2>3. PrimeAt(w, 5, g, b)'
    BY <1>1, <1>2, <1>5, <1>9, <2>2, <2>6 DEF PrimeAt, Ahead, Issued, Alone, Private
  <2>4. Within(w, p, n) /\ Apart(w)
    BY <1>1, <1>2, <1>3, <1>9, <2>2 DEF Issued, Alone, Private, Within, Apart
  <2>5. QED
    BY <1>9, <2>3, <2>4 DEF p
<1>10. CASE n = 5
  <2>1. Now(w) = Wait(b + (g + b)) /\ wait_vmcnt(w)
    BY <1>1, <1>3, <1>5, <1>10, RunIs, PrimeCode DEF Wait
  <2>2. Waited(w, b + (g + b))
    BY <1>1, <1>2, <1>5, <1>10, <2>1, WaitDoes
  <2>3. PrimeAt(w, 6, g, b)'
    BY <1>1, <1>2, <1>5, <1>10, <2>2 DEF PrimeAt, Ahead, Waited, Alone, Private
  <2>4. Within(w, p, n) /\ Apart(w)
    BY <1>1, <1>2, <1>3, <1>10, <2>2 DEF Waited, Alone, Private, Within, Apart
  <2>5. QED
    BY <1>10, <2>3, <2>4 DEF p
<1>11. CASE n = 6
  <2>1. Now(w) = WriteA(A(0), 0) /\ Publish(w)
    BY <1>1, <1>3, <1>5, <1>11, RunIs, PrimeCode DEF WriteA
  <2>2. Wrote(w, 0, 0)
    BY <1>1, <1>2, <1>5, <1>11, <2>1, PublishDoes DEF PrimeAt
  <2>3. PrimeAt(w, 7, g, b)'
    BY <1>1, <1>2, <1>5, <1>11, <2>2 DEF PrimeAt, Ahead, Wrote, Alone, Private, Still
  <2>4. Within(w, p, n) /\ Apart(w)
    BY <1>1, <1>2, <1>3, <1>11, <2>2 DEF Wrote, Alone, Private, Within, Apart
  <2>5. QED
    BY <1>11, <2>3, <2>4 DEF p
<1>12. QED
  BY <1>1, <1>4, <1>6, <1>7, <1>8, <1>9, <1>10, <1>11 DEF p

LEMMA SlabRows ==
  ASSUME call.kernel = "gateup", Waves # {}, NEW t, NEW i, \A u \in Waves : lds[t][u] = i
  PROVE  ARows({t}) = i
<1> DEFINE in == {lds[s][w] : s \in {t}, w \in Waves}
<1>1. in = {i}
  <2>1. \A x \in in : x = i
    OBVIOUS
  <2>2. PICK u \in Waves : TRUE
    OBVIOUS
  <2>3. i \in in
    BY <2>2
  <2>4. QED
    BY <2>1, <2>3
<1>2. ARows({t}) = IF Cardinality(in) = 1 THEN CHOOSE x \in in : TRUE ELSE Junk
  BY DEF ARows
<1> HIDE DEF in
<1>3. Cardinality(in) = 1
  BY <1>1, FS_Singleton
<1>4. (CHOOSE x \in {i} : TRUE) = i
  OBVIOUS
<1>5. QED
  BY <1>1, <1>2, <1>3, <1>4

LEMMA SlabStep ==
  ASSUME Sorts, NEW g \in Nat, NEW b \in Nat, NEW s \in Nat, GateUpCall(g, b, s),
         NEW w \in Waves, NEW n, NEW i \in Nat, SlabAt(w, i, n, g, b), Run(w),
         at[w] = [part |-> Part("slab", i, 0), n |-> n],
         \A u \in Waves : lds[i % 2][u] = i
  PROVE  Within(w, Part("slab", i, 0), n) /\ SlabAt(w, i, n + 1, g, b)' /\ Apart(w)
<1> DEFINE p == Part("slab", i, 0)
<1>1. p # End /\ at[w] = [part |-> p, n |-> n] /\ at[w].part = p /\ w \in WaveIds /\ n \in Nat /\ n \in 1 .. 7
  BY DEF Part, End, GateUpCall, SlabAt
<1>2. Code(w, p) = slab_body(i)
  BY DEF Part, Code, GateUpCode, GateUpCall
<1> HIDE DEF p
<1> DEFINE r == i % 2
           t == (i + 1) % 2
           x == A(i)
           y == A(i + 1)
           z == B(i)
           v == B(i + 1)
<1>3. /\ {x, y, z, v} \subseteq Registers /\ A(i + 2) = x /\ B(i + 2) = z
      /\ x # y /\ x # z /\ x # v /\ y # z /\ y # v /\ z # v
      /\ r \in Slots /\ t \in Slots /\ r # t
      /\ A(i + 1 + 1) = x /\ B(i + 1 + 1) = z /\ i + 1 + 1 = i + 2 /\ i + 1 \in Int /\ i + 2 \in Int
  <2>1. i + 1 + 1 = i + 2 /\ i + 1 \in Int /\ i + 2 \in Int
    OBVIOUS
  <2>2. QED
    BY <2>1, Turns DEF Slots
<1>4. g = Grans /\ b = B_OPS /\ SLAB_OPS = g + b /\ B_OPS + Grans = b + g /\ g \in Int /\ b \in Int /\ (Early <=> g = 1)
  BY DEF GateUpCall, SLAB_OPS, Grans, Early
<1>5. /\ n < 7 => Following(w) = [part |-> p, n |-> n + 1]
      /\ Now(w) = slab_body(i)[n]
  <2>1. /\ n < Len(Code(w, p)) => Following(w) = [part |-> p, n |-> n + 1]
        /\ Now(w) = Code(w, p)[n]
    BY <1>1, FollowingIs
  <2>2. QED
    BY <1>1, <1>2, <2>1, SlabCode
<1>6. n # 7
  <2>1. Now(w).op # "barrier"
    BY <1>1, RunIs
  <2>2. Do("barrier").op = "barrier"
    BY DEF Do
  <2>3. slab_body(i)[7] = Do("barrier")
    BY SlabCode, Zenon
  <2>4. QED
    BY <1>5, <2>1, <2>2, <2>3
<1>7. ARows({r}) = i
  BY SlabRows DEF GateUpCall
<1>8. Append(Pairs(0, i), <<i, i>>) = Pairs(0, i + 1)
  <2>1. 0 + i = i /\ 0 \in Int
    OBVIOUS
  <2>2. Append(Pairs(0, i), <<i, 0 + i>>) = Pairs(0, i + 1)
    BY <2>1, OneMore
  <2>3. QED
    BY <2>1, <2>2
<1>9. /\ slab_body(i)[1] = Wait(g + b)
      /\ g = 1 => /\ slab_body(i)[2] = Load(x, i + 2, g)
                  /\ slab_body(i)[3] = Product(z, {r}, i)
                  /\ slab_body(i)[4] = Wait(b + g)
                  /\ slab_body(i)[5] = WriteA(y, t)
                  /\ slab_body(i)[6] = Load(z, i + 2, b)
      /\ g # 1 => /\ slab_body(i)[2] = Product(z, {r}, i)
                  /\ slab_body(i)[3] = Wait(b)
                  /\ slab_body(i)[4] = WriteA(y, t)
                  /\ slab_body(i)[5] = Load(x, i + 2, g)
                  /\ slab_body(i)[6] = Load(z, i + 2, b)
  BY <1>3, <1>4, SlabCode DEF issue_a, issue_b
<1>10. /\ lds[r][w] = i
       /\ n = 1 => Behind(w, z, i, g + b) /\ Behind(w, y, i + 1, b) /\ Behind(w, v, i + 1, 0)
       /\ IF g = 1 THEN EarlyAt(w, i, n, g, b) ELSE LateAt(w, i, n, g, b)
  BY <1>1 DEF SlabAt, Ahead
<1> HIDE DEF r, t, x, y, z, v
<1> DEFINE Goes == Within(w, p, n) /\ Apart(w)
<1>11. CASE n = 1 /\ g = 1
  <2>1. Now(w) = Wait(g + b) /\ wait_vmcnt(w)
    BY <1>1, <1>5, <1>9, <1>11, RunIs DEF Wait
  <2>2. Waited(w, g + b)
    BY <1>1, <1>3, <1>4, <1>7, <1>10, <1>11, <2>1, WaitDoes DEF GateUpCall, EarlyAt
  <2>3. lds'[r][w] = i /\ sum'[w] = Pairs(0, i) /\ Arrived(w, z, i)' /\ Behind(w, y, i + 1, b)' /\ Behind(w, v, i + 1, 0)'
    BY <1>1, <1>3, <1>4, <1>8, <1>10, <1>11, <2>2 DEF EarlyAt, Waited, Alone, Private, r, t, x, y, z, v
  <2>4. Goes
    BY <1>1, <1>3, <1>5, <1>11, <2>2 DEF Waited, Alone, Private, Within, Apart
  <2>5. SlabAt(w, i, n + 1, g, b)'
    BY <1>3, <1>4, <1>11, <2>3 DEF SlabAt, EarlyAt, Ahead, r, t, x, y, z, v
  <2>6. QED
    BY <2>4, <2>5 DEF p
<1>12. CASE n = 2 /\ g = 1
  <2>1. Now(w) = Load(x, i + 2, g) /\ Issue(w)
    BY <1>1, <1>5, <1>9, <1>12, RunIs DEF Load
  <2>2. Issued(w, x, i + 2, g)
    BY <1>1, <1>3, <1>4, <1>7, <1>10, <1>12, <2>1, IssueDoes DEF GateUpCall, EarlyAt
  <2>3. lds'[r][w] = i /\ sum'[w] = Pairs(0, i) /\ Arrived(w, z, i)' /\ Behind(w, y, i + 1, b + g)' /\ Behind(w, v, i + 1, 0 + g)' /\ 0 + g = g /\ Behind(w, x, i + 2, 0)'
    BY <1>1, <1>3, <1>4, <1>8, <1>10, <1>12, <2>2 DEF EarlyAt, Issued, Alone, Private, r, t, x, y, z, v
  <2>4. Goes
    BY <1>1, <1>3, <1>5, <1>12, <2>2 DEF Issued, Alone, Private, Within, Apart
  <2>5. SlabAt(w, i, n + 1, g, b)'
    BY <1>3, <1>4, <1>12, <2>3 DEF SlabAt, EarlyAt, Ahead, r, t, x, y, z, v
  <2>6. QED
    BY <2>4, <2>5 DEF p
<1>13. CASE n = 3 /\ g = 1
  <2>1. Now(w) = Product(z, {r}, i) /\ Multiply(w)
    BY <1>1, <1>5, <1>9, <1>13, RunIs DEF Product
  <2>2. Multiplies(w, i, i)
    BY <1>1, <1>3, <1>4, <1>7, <1>10, <1>13, <2>1, MultiplyDoes DEF GateUpCall, EarlyAt, z
  <2>3. lds'[r][w] = i /\ sum'[w] = Pairs(0, i + 1) /\ Behind(w, y, i + 1, b + g)' /\ Behind(w, v, i + 1, g)' /\ Behind(w, x, i + 2, 0)'
    BY <1>1, <1>3, <1>4, <1>8, <1>10, <1>13, <2>2 DEF EarlyAt, Multiplies, Still, Alone, Private, r, t, x, y, z, v
  <2>4. Goes
    BY <1>1, <1>3, <1>5, <1>13, <2>2 DEF Multiplies, Alone, Private, Within, Apart
  <2>5. SlabAt(w, i, n + 1, g, b)'
    BY <1>3, <1>4, <1>13, <2>3 DEF SlabAt, EarlyAt, Ahead, r, t, x, y, z, v
  <2>6. QED
    BY <2>4, <2>5 DEF p
<1>14. CASE n = 4 /\ g = 1
  <2>1. Now(w) = Wait(b + g) /\ wait_vmcnt(w)
    BY <1>1, <1>5, <1>9, <1>14, RunIs DEF Wait
  <2>2. Waited(w, b + g)
    BY <1>1, <1>3, <1>4, <1>7, <1>10, <1>14, <2>1, WaitDoes DEF GateUpCall, EarlyAt
  <2>3. lds'[r][w] = i /\ sum'[w] = Pairs(0, i + 1) /\ Arrived(w, y, i + 1)' /\ Behind(w, v, i + 1, g)' /\ Behind(w, x, i + 2, 0)'
    BY <1>1, <1>3, <1>4, <1>8, <1>10, <1>14, <2>2 DEF EarlyAt, Waited, Alone, Private, r, t, x, y, z, v
  <2>4. Goes
    BY <1>1, <1>3, <1>5, <1>14, <2>2 DEF Waited, Alone, Private, Within, Apart
  <2>5. SlabAt(w, i, n + 1, g, b)'
    BY <1>3, <1>4, <1>14, <2>3 DEF SlabAt, EarlyAt, Ahead, r, t, x, y, z, v
  <2>6. QED
    BY <2>4, <2>5 DEF p
<1>15. CASE n = 5 /\ g = 1
  <2>1. Now(w) = WriteA(y, t) /\ Publish(w)
    BY <1>1, <1>5, <1>9, <1>15, RunIs DEF WriteA
  <2>2. Wrote(w, t, i + 1)
    BY <1>1, <1>3, <1>4, <1>7, <1>10, <1>15, <2>1, PublishDoes DEF GateUpCall, EarlyAt, y
  <2>3. lds'[r][w] = i /\ lds'[t][w] = i + 1 /\ sum'[w] = Pairs(0, i + 1) /\ Behind(w, v, i + 1, g)' /\ Behind(w, x, i + 2, 0)'
    BY <1>1, <1>3, <1>4, <1>8, <1>10, <1>15, <2>2 DEF EarlyAt, Wrote, Still, Alone, Private, r, t, x, y, z, v
  <2>4. Goes
    BY <1>1, <1>3, <1>5, <1>15, <2>2 DEF Wrote, Alone, Private, Within, Apart
  <2>5. SlabAt(w, i, n + 1, g, b)'
    BY <1>3, <1>4, <1>15, <2>3 DEF SlabAt, EarlyAt, Ahead, r, t, x, y, z, v
  <2>6. QED
    BY <2>4, <2>5 DEF p
<1>16. CASE n = 6 /\ g = 1
  <2>1. Now(w) = Load(z, i + 2, b) /\ Issue(w)
    BY <1>1, <1>5, <1>9, <1>16, RunIs DEF Load
  <2>2. Issued(w, z, i + 2, b)
    BY <1>1, <1>3, <1>4, <1>7, <1>10, <1>16, <2>1, IssueDoes DEF GateUpCall, EarlyAt
  <2>3. lds'[r][w] = i /\ lds'[t][w] = i + 1 /\ sum'[w] = Pairs(0, i + 1) /\ Behind(w, v, i + 1, g + b)' /\ Behind(w, x, i + 2, 0 + b)' /\ 0 + b = b /\ Behind(w, z, i + 2, 0)'
    BY <1>1, <1>3, <1>4, <1>8, <1>10, <1>16, <2>2 DEF EarlyAt, Issued, Alone, Private, r, t, x, y, z, v
  <2>4. Goes
    BY <1>1, <1>3, <1>5, <1>16, <2>2 DEF Issued, Alone, Private, Within, Apart
  <2>5. SlabAt(w, i, n + 1, g, b)'
    BY <1>3, <1>4, <1>16, <2>3 DEF SlabAt, EarlyAt, Ahead, r, t, x, y, z, v
  <2>6. QED
    BY <2>4, <2>5 DEF p
<1>17. CASE n = 1 /\ g # 1
  <2>1. Now(w) = Wait(g + b) /\ wait_vmcnt(w)
    BY <1>1, <1>5, <1>9, <1>17, RunIs DEF Wait
  <2>2. Waited(w, g + b)
    BY <1>1, <1>3, <1>4, <1>7, <1>10, <1>17, <2>1, WaitDoes DEF GateUpCall, LateAt
  <2>3. lds'[r][w] = i /\ sum'[w] = Pairs(0, i) /\ Arrived(w, z, i)' /\ Behind(w, y, i + 1, b)' /\ Behind(w, v, i + 1, 0)'
    <3>1. sum[w] = Pairs(0, i) /\ lds[r][w] = i
      BY <1>10, <1>17 DEF LateAt
    <3>2. Behind(w, z, i, g + b) /\ Behind(w, y, i + 1, b) /\ Behind(w, v, i + 1, 0)
      BY <1>10, <1>17
    <3>3. z \in Registers /\ y \in Registers /\ v \in Registers
      BY <1>3 DEF y, z, v
    <3>4. Arrived(w, z, i)' /\ Behind(w, y, i + 1, b)' /\ Behind(w, v, i + 1, 0)'
      BY <1>3, <1>4, <2>2, <3>2, <3>3 DEF Waited
    <3>5. QED
      BY <2>2, <3>1, <3>4 DEF Waited, Private
  <2>4. Goes
    BY <1>1, <1>3, <1>5, <1>17, <2>2 DEF Waited, Alone, Private, Within, Apart
  <2>5. SlabAt(w, i, n + 1, g, b)'
    BY <1>3, <1>4, <1>17, <2>3 DEF SlabAt, LateAt, Ahead, r, t, x, y, z, v
  <2>6. QED
    BY <2>4, <2>5 DEF p
<1>18. CASE n = 2 /\ g # 1
  <2>1. Now(w) = Product(z, {r}, i) /\ Multiply(w)
    BY <1>1, <1>5, <1>9, <1>18, RunIs DEF Product
  <2>2. Multiplies(w, i, i)
    BY <1>1, <1>3, <1>4, <1>7, <1>10, <1>18, <2>1, MultiplyDoes DEF GateUpCall, LateAt, z
  <2>3. lds'[r][w] = i /\ sum'[w] = Pairs(0, i + 1) /\ Behind(w, y, i + 1, b)' /\ Behind(w, v, i + 1, 0)'
    BY <1>1, <1>3, <1>4, <1>8, <1>10, <1>18, <2>2 DEF LateAt, Multiplies, Still, Alone, Private, r, t, x, y, z, v
  <2>4. Goes
    BY <1>1, <1>3, <1>5, <1>18, <2>2 DEF Multiplies, Alone, Private, Within, Apart
  <2>5. SlabAt(w, i, n + 1, g, b)'
    BY <1>3, <1>4, <1>18, <2>3 DEF SlabAt, LateAt, Ahead, r, t, x, y, z, v
  <2>6. QED
    BY <2>4, <2>5 DEF p
<1>19. CASE n = 3 /\ g # 1
  <2>1. Now(w) = Wait(b) /\ wait_vmcnt(w)
    BY <1>1, <1>5, <1>9, <1>19, RunIs DEF Wait
  <2>2. Waited(w, b)
    BY <1>1, <1>3, <1>4, <1>7, <1>10, <1>19, <2>1, WaitDoes DEF GateUpCall, LateAt
  <2>3. lds'[r][w] = i /\ sum'[w] = Pairs(0, i + 1) /\ Arrived(w, y, i + 1)' /\ Behind(w, v, i + 1, 0)'
    BY <1>1, <1>3, <1>4, <1>8, <1>10, <1>19, <2>2 DEF LateAt, Waited, Alone, Private, r, t, x, y, z, v
  <2>4. Goes
    BY <1>1, <1>3, <1>5, <1>19, <2>2 DEF Waited, Alone, Private, Within, Apart
  <2>5. SlabAt(w, i, n + 1, g, b)'
    BY <1>3, <1>4, <1>19, <2>3 DEF SlabAt, LateAt, Ahead, r, t, x, y, z, v
  <2>6. QED
    BY <2>4, <2>5 DEF p
<1>20. CASE n = 4 /\ g # 1
  <2>1. Now(w) = WriteA(y, t) /\ Publish(w)
    BY <1>1, <1>5, <1>9, <1>20, RunIs DEF WriteA
  <2>2. Wrote(w, t, i + 1)
    BY <1>1, <1>3, <1>4, <1>7, <1>10, <1>20, <2>1, PublishDoes DEF GateUpCall, LateAt, y
  <2>3. lds'[r][w] = i /\ lds'[t][w] = i + 1 /\ sum'[w] = Pairs(0, i + 1) /\ Behind(w, v, i + 1, 0)'
    BY <1>1, <1>3, <1>4, <1>8, <1>10, <1>20, <2>2 DEF LateAt, Wrote, Still, Alone, Private, r, t, x, y, z, v
  <2>4. Goes
    BY <1>1, <1>3, <1>5, <1>20, <2>2 DEF Wrote, Alone, Private, Within, Apart
  <2>5. SlabAt(w, i, n + 1, g, b)'
    BY <1>3, <1>4, <1>20, <2>3 DEF SlabAt, LateAt, Ahead, r, t, x, y, z, v
  <2>6. QED
    BY <2>4, <2>5 DEF p
<1>21. CASE n = 5 /\ g # 1
  <2>1. Now(w) = Load(x, i + 2, g) /\ Issue(w)
    BY <1>1, <1>5, <1>9, <1>21, RunIs DEF Load
  <2>2. Issued(w, x, i + 2, g)
    BY <1>1, <1>3, <1>4, <1>7, <1>10, <1>21, <2>1, IssueDoes DEF GateUpCall, LateAt
  <2>3. lds'[r][w] = i /\ lds'[t][w] = i + 1 /\ sum'[w] = Pairs(0, i + 1) /\ Behind(w, v, i + 1, 0 + g)' /\ 0 + g = g /\ Behind(w, x, i + 2, 0)'
    BY <1>1, <1>3, <1>4, <1>8, <1>10, <1>21, <2>2 DEF LateAt, Issued, Alone, Private, r, t, x, y, z, v
  <2>4. Goes
    BY <1>1, <1>3, <1>5, <1>21, <2>2 DEF Issued, Alone, Private, Within, Apart
  <2>5. SlabAt(w, i, n + 1, g, b)'
    BY <1>3, <1>4, <1>21, <2>3 DEF SlabAt, LateAt, Ahead, r, t, x, y, z, v
  <2>6. QED
    BY <2>4, <2>5 DEF p
<1>22. CASE n = 6 /\ g # 1
  <2>1. Now(w) = Load(z, i + 2, b) /\ Issue(w)
    BY <1>1, <1>5, <1>9, <1>22, RunIs DEF Load
  <2>2. Issued(w, z, i + 2, b)
    BY <1>1, <1>3, <1>4, <1>7, <1>10, <1>22, <2>1, IssueDoes DEF GateUpCall, LateAt
  <2>3. lds'[r][w] = i /\ lds'[t][w] = i + 1 /\ sum'[w] = Pairs(0, i + 1) /\ Behind(w, v, i + 1, g + b)' /\ Behind(w, x, i + 2, 0 + b)' /\ 0 + b = b /\ Behind(w, z, i + 2, 0)'
    BY <1>1, <1>3, <1>4, <1>8, <1>10, <1>22, <2>2 DEF LateAt, Issued, Alone, Private, r, t, x, y, z, v
  <2>4. Goes
    BY <1>1, <1>3, <1>5, <1>22, <2>2 DEF Issued, Alone, Private, Within, Apart
  <2>5. SlabAt(w, i, n + 1, g, b)'
    BY <1>3, <1>4, <1>22, <2>3 DEF SlabAt, LateAt, Ahead, r, t, x, y, z, v
  <2>6. QED
    BY <2>4, <2>5 DEF p
<1>23. QED
  BY <1>1, <1>6, <1>11, <1>12, <1>13, <1>14, <1>15, <1>16, <1>17, <1>18, <1>19, <1>20, <1>21, <1>22 DEF p

(* How many barriers a wave has behind it.                                 *)
GateUpRound(p, s) ==
  CASE p.name = "prime" -> 0
    [] p.name = "slab" -> p.i + 1
    [] p.name = "drain" -> s + 1
    [] p.name = "gate" -> s + 2
    [] p.name = "glu" -> s + 3
    [] p.name = "end" -> IF call.situ THEN s + 3 ELSE s + 1

(* What a step from part p leaves the other waves.                         *)
Spares(w, p) ==
  /\ \A u \in WaveIds \ {w} : Same(u)
  /\ p.name # "gate" => Apart(w)
  /\ p.name \notin {"prime", "slab"} => \A u \in WaveIds \ {w} : gate'[u] = gate[u]
  /\ p.name = "glu" => gate' = gate

GateUpGoes(w, p, g, b, s) ==
  /\ Sorts' /\ Spares(w, p)
  /\ \E q, m : /\ at'[w] = [part |-> q, n |-> m] /\ GateUpAt(w, q, m, g, b, s)'
               /\ GateUpRound(q, s) = GateUpRound(p, s)

LEMMA DrainStep ==
  ASSUME Sorts, NEW g \in Nat, NEW b \in Nat, NEW s \in Nat, GateUpCall(g, b, s), call' = call,
         NEW w \in Waves, NEW n \in {1, 2}, Full(w, s), Run(w),
         at[w] = [part |-> Part("drain", s, 0), n |-> n]
  PROVE  GateUpGoes(w, Part("drain", s, 0), g, b, s)
<1> DEFINE p == Part("drain", s, 0)
           last == IF call.situ THEN Do("barrier") ELSE Store(0, 1)
<1>1. /\ p # End /\ at[w] = [part |-> p, n |-> n] /\ at[w].part = p /\ w \in WaveIds /\ n \in Nat
      /\ p.name = "drain"
  BY DEF Part, End, GateUpCall
<1>2. Code(w, p) = <<Wait(0), last>>
  BY DEF Part, Code, GateUpCode, GateUpCall
<1>3. After(w, p) = IF call.situ THEN Part("gate", 0, 0) ELSE End
  BY DEF Part, After, GateUpAfter, GateUpCall
<1> HIDE DEF p, last
<1>4. /\ n = 1 => Following(w) = [part |-> p, n |-> 2] /\ Now(w) = Wait(0)
      /\ n = 2 => Following(w) = Start(After(w, p)) /\ Now(w) = last
  <2>1. /\ n < Len(Code(w, p)) => Following(w) = [part |-> p, n |-> n + 1]
        /\ ~(n < Len(Code(w, p))) => Following(w) = Start(After(w, p))
        /\ Now(w) = Code(w, p)[n]
    BY <1>1, FollowingIs
  <2>2. QED
    BY <1>1, <1>2, <2>1
<1>5. CASE n = 1
  <2>1. Now(w) = Wait(0) /\ wait_vmcnt(w)
    BY <1>1, <1>4, <1>5, RunIs DEF Wait
  <2>2. Waited(w, 0)
    BY <1>1, <2>1, WaitDoes
  <2>3. at'[w] = [part |-> p, n |-> 2] /\ Sorts' /\ Full(w, s)'
    BY <1>4, <1>5, <2>2 DEF Waited, Alone, Full
  <2>4. Spares(w, p)
    BY <1>1, <2>2 DEF Waited, Alone, Private, Spares, Apart
  <2>5. GateUpAt(w, p, 2, g, b, s)'
    BY <2>3 DEF GateUpAt, p
  <2>6. QED
    BY <2>3, <2>4, <2>5 DEF GateUpGoes, p
<1>6. CASE n = 2
  <2>1. Now(w).op # "barrier"
    BY <1>1, RunIs
  <2>2. ~call.situ /\ Now(w) = Store(0, 1)
    BY <1>4, <1>6, <2>1 DEF last, Do
  <2>3. StoreC(w)
    BY <1>1, <2>2, RunIs DEF Store
  <2>4. Stored(w)
    BY <1>1, <2>2, <2>3, StoreDoes
  <2>5. at'[w] = [part |-> End, n |-> 1] /\ Sorts'
    BY <1>3, <1>4, <1>6, <2>2, <2>4 DEF Stored, Alone, Start
  <2>6. Spares(w, p)
    BY <1>1, <2>4 DEF Stored, Alone, Private, Spares, Apart
  <2>7. GateUpAt(w, End, 1, g, b, s)'
    BY DEF GateUpAt
  <2>8. GateUpRound(End, s) = GateUpRound(p, s)
    BY <1>1, <2>2 DEF GateUpRound, End, Part
  <2>9. QED
    BY <2>5, <2>6, <2>7, <2>8 DEF GateUpGoes, p
<1>7. QED
  BY <1>5, <1>6

LEMMA GateStep ==
  ASSUME Sorts, NEW g \in Nat, NEW b \in Nat, NEW s \in Nat, GateUpCall(g, b, s), call' = call,
         NEW w \in Waves, NEW n \in {1, 2}, n = 2 => IsGate(w), Full(w, s), Run(w), call.situ,
         at[w] = [part |-> Part("gate", 0, 0), n |-> n]
  PROVE  GateUpGoes(w, Part("gate", 0, 0), g, b, s)
<1> DEFINE p == Part("gate", 0, 0)
<1>1. /\ p # End /\ at[w] = [part |-> p, n |-> n] /\ at[w].part = p /\ w \in WaveIds /\ n \in Nat
      /\ p.name = "gate"
  BY DEF Part, End, GateUpCall
<1>2. Code(w, p) = IF IsGate(w) THEN <<Do("gate"), Do("barrier")>> ELSE <<Do("barrier")>>
  BY DEF Part, Code, GateUpCode, GateUpCall
<1> HIDE DEF p
<1>3. /\ n < Len(Code(w, p)) => Following(w) = [part |-> p, n |-> n + 1]
      /\ Now(w) = Code(w, p)[n]
  BY <1>1, FollowingIs
<1>4. Now(w).op # "barrier"
  BY <1>1, RunIs
<1>5. n = 1 /\ IsGate(w) /\ Now(w) = Do("gate")
  BY <1>2, <1>3, <1>4 DEF Do
<1>6. Following(w) = [part |-> p, n |-> 2]
  BY <1>2, <1>3, <1>5
<1>7. PublishGate(w)
  BY <1>1, <1>5, RunIs DEF Do
<1>8. HandsOver(w)
  BY <1>1, <1>7, PublishGateDoes
<1>9. at'[w] = [part |-> p, n |-> 2] /\ Sorts' /\ Full(w, s)' /\ Handed(w, s)'
  BY <1>6, <1>8 DEF HandsOver, Alone, Full, Handed
<1>10. Spares(w, p)
  BY <1>1, <1>8 DEF HandsOver, Alone, Spares
<1>11. GateUpAt(w, p, 2, g, b, s)'
  BY <1>5, <1>9 DEF GateUpAt, IsGate, p
<1>12. QED
  BY <1>9, <1>10, <1>11 DEF GateUpGoes, p

LEMMA GluStep ==
  ASSUME Sorts, NEW g \in Nat, NEW b \in Nat, NEW s \in Nat, GateUpCall(g, b, s), call' = call,
         NEW w \in Waves, NEW n \in {1, 2}, ~IsGate(w), Full(w, s), Handed(Partner(w), s), Run(w), call.situ,
         at[w] = [part |-> Part("glu", 0, 0), n |-> n]
  PROVE  GateUpGoes(w, Part("glu", 0, 0), g, b, s)
<1> DEFINE p == Part("glu", 0, 0)
<1>1. /\ p # End /\ at[w] = [part |-> p, n |-> n] /\ at[w].part = p /\ w \in WaveIds /\ n \in Nat
      /\ p.name = "glu"
  BY DEF Part, End, GateUpCall
<1>2. Code(w, p) = <<Do("glu"), Store(0, 1)>> /\ After(w, p) = End
  BY DEF Part, Code, GateUpCode, After, GateUpAfter, GateUpCall
<1> HIDE DEF p
<1>3. /\ n = 1 => Following(w) = [part |-> p, n |-> 2] /\ Now(w) = Do("glu")
      /\ n = 2 => Following(w) = Start(End) /\ Now(w) = Store(0, 1)
  <2>1. /\ n < Len(Code(w, p)) => Following(w) = [part |-> p, n |-> n + 1]
        /\ ~(n < Len(Code(w, p))) => Following(w) = Start(After(w, p))
        /\ Now(w) = Code(w, p)[n]
    BY <1>1, FollowingIs
  <2>2. QED
    BY <1>1, <1>2, <2>1
<1>4. CASE n = 1
  <2>1. TakeGate(w)
    BY <1>1, <1>3, <1>4, RunIs DEF Do
  <2>2. Taken(w)
    BY <1>1, <2>1, TakeGateDoes DEF Full, Handed
  <2>3. at'[w] = [part |-> p, n |-> 2] /\ Sorts' /\ Full(w, s)' /\ gate' = gate
    BY <1>3, <1>4, <2>2 DEF Taken, Alone, Private, Full
  <2>4. Spares(w, p)
    BY <1>1, <2>2 DEF Taken, Alone, Private, Spares, Apart
  <2>5. GateUpAt(w, p, 2, g, b, s)'
    BY <2>3 DEF GateUpAt, IsGate, Handed, Partner, p
  <2>6. QED
    BY <2>3, <2>4, <2>5 DEF GateUpGoes, p
<1>5. CASE n = 2
  <2>1. StoreC(w) /\ Now(w) = Store(0, 1)
    BY <1>1, <1>3, <1>5, RunIs DEF Store
  <2>2. Stored(w)
    BY <1>1, <2>1, StoreDoes
  <2>3. at'[w] = [part |-> End, n |-> 1] /\ Sorts'
    BY <1>3, <1>5, <2>2 DEF Stored, Alone, Start
  <2>4. Spares(w, p)
    BY <1>1, <2>2 DEF Stored, Alone, Private, Spares, Apart
  <2>5. GateUpAt(w, End, 1, g, b, s)'
    BY DEF GateUpAt
  <2>6. GateUpRound(End, s) = GateUpRound(p, s)
    BY <1>1 DEF GateUpRound, End, Part
  <2>7. QED
    BY <2>3, <2>4, <2>5, <2>6 DEF GateUpGoes, p
<1>6. QED
  BY <1>4, <1>5

LEMMA GateUpStep ==
  ASSUME Sorts, NEW g \in Nat, NEW b \in Nat, NEW s \in Nat, GateUpCall(g, b, s), call' = call,
         NEW w \in Waves, NEW p, NEW n, at[w] = [part |-> p, n |-> n], GateUpAt(w, p, n, g, b, s), Run(w),
         \A i \in 0 .. s - 1 : p = Part("slab", i, 0) => \A u \in Waves : lds[i % 2][u] = i
  PROVE  GateUpGoes(w, p, g, b, s) /\ p # End
<1>1. CASE p = Part("prime", 0, 0) /\ PrimeAt(w, n, g, b)
  <2>1. Within(w, p, n) /\ PrimeAt(w, n + 1, g, b)' /\ Apart(w)
    BY <1>1, PrimeStep
  <2>2. GateUpAt(w, p, n + 1, g, b, s)'
    BY <1>1, <2>1 DEF GateUpAt
  <2>3. Spares(w, p) /\ p # End
    BY <1>1, <2>1 DEF Spares, Within, Part, End
  <2>4. QED
    BY <2>1, <2>2, <2>3 DEF GateUpGoes, Within
<1>2. CASE \E i \in 0 .. s - 1 : p = Part("slab", i, 0) /\ SlabAt(w, i, n, g, b)
  <2>1. PICK i \in 0 .. s - 1 : p = Part("slab", i, 0) /\ SlabAt(w, i, n, g, b)
    BY <1>2
  <2>2. i \in Nat
    OBVIOUS
  <2>3. Within(w, p, n) /\ SlabAt(w, i, n + 1, g, b)' /\ Apart(w)
    BY <2>1, <2>2, SlabStep
  <2>4. GateUpAt(w, p, n + 1, g, b, s)'
    BY <2>1, <2>3 DEF GateUpAt
  <2>5. Spares(w, p) /\ p # End
    BY <2>1, <2>3 DEF Spares, Within, Part, End
  <2>6. QED
    BY <2>3, <2>4, <2>5 DEF GateUpGoes, Within
<1>3. CASE p = Part("drain", s, 0) /\ n \in {1, 2} /\ Full(w, s)
  BY <1>3, DrainStep DEF Part, End
<1>4. CASE p = Part("gate", 0, 0) /\ call.situ /\ Full(w, s)
           /\ IF IsGate(w) THEN n = 1 \/ (n = 2 /\ Handed(w, s)) ELSE n = 1
  BY <1>4, GateStep DEF Part, End
<1>5. CASE p = Part("glu", 0, 0) /\ call.situ /\ ~IsGate(w) /\ n \in {1, 2} /\ Full(w, s) /\ Handed(Partner(w), s)
  BY <1>5, GluStep DEF Part, End
<1>6. CASE p = End
  <2>1. at[w].part = End
    BY <1>6
  <2>2. FALSE
    BY <2>1 DEF Run, Issue, wait_vmcnt, Publish, Multiply, StoreC, Clear, PublishGate, TakeGate, At
  <2>3. QED
    BY <2>2
<1>7. QED
  BY <1>1, <1>2, <1>3, <1>4, <1>5, <1>6 DEF GateUpAt

(* A wave in the same round as the one that moved is where it was.         *)
LEMMA SameKeeps ==
  ASSUME NEW u, Same(u)
  PROVE  /\ \A r, v, n : Behind(u, r, v, n) => Behind(u, r, v, n)'
         /\ \A r, v : Arrived(u, r, v) => Arrived(u, r, v)'
         /\ sum'[u] = sum[u]
  BY DEF Same, Behind, Arrived

LEMMA GateUpStays ==
  ASSUME NEW g \in Nat, NEW b \in Nat, NEW s \in Nat, GateUpCall(g, b, s), call' = call,
         NEW u \in Waves, NEW q, NEW m, GateUpAt(u, q, m, g, b, s), Still(u), sum'[u] = sum[u],
         q.name \in {"prime", "slab"} => \A t \in Slots : lds'[t][u] = lds[t][u],
         q.name = "gate" => gate'[u] = gate[u], q.name = "glu" => gate' = gate
  PROVE  GateUpAt(u, q, m, g, b, s)'
<1>2. /\ \A r, v, n : Behind(u, r, v, n) => Behind(u, r, v, n)'
      /\ \A r, v : Arrived(u, r, v) => Arrived(u, r, v)'
      /\ sum'[u] = sum[u]
  BY DEF Still
<1>4. CASE q = Part("prime", 0, 0) /\ PrimeAt(u, m, g, b)
  <2>1. q.name = "prime" /\ 0 \in Slots
    BY <1>4 DEF Part, Slots
  <2>2. lds'[0][u] = lds[0][u]
    BY <2>1
  <2>3. PrimeAt(u, m, g, b)'
    BY <1>2, <1>4, <2>2 DEF PrimeAt, Ahead
  <2>4. QED
    BY <1>4, <2>3 DEF GateUpAt
<1>5. ASSUME NEW i \in 0 .. s - 1, q = Part("slab", i, 0), SlabAt(u, i, m, g, b) PROVE GateUpAt(u, q, m, g, b, s)'
  <2>1. q.name = "slab" /\ i \in Nat
    BY <1>5 DEF Part
  <2>3. i % 2 \in Slots /\ (i + 1) % 2 \in Slots
    BY <2>1, Turns DEF Slots
  <2>4. lds'[i % 2][u] = lds[i % 2][u] /\ lds'[(i + 1) % 2][u] = lds[(i + 1) % 2][u]
    BY <2>1, <2>3
  <2>5. EarlyAt(u, i, m, g, b) => EarlyAt(u, i, m, g, b)'
    BY <1>2, <2>4 DEF EarlyAt
  <2>6. LateAt(u, i, m, g, b) => LateAt(u, i, m, g, b)'
    BY <1>2, <2>4 DEF LateAt
  <2>7. Ahead(u, i, g, b) => Ahead(u, i, g, b)'
    BY <1>2 DEF Ahead
  <2>8. Ahead(u, i + 1, g, b) => Ahead(u, i + 1, g, b)'
    BY <1>2 DEF Ahead
  <2>9. SlabAt(u, i, m, g, b)'
    BY <1>5, <2>4, <2>5, <2>6, <2>7, <2>8 DEF SlabAt
  <2>10. QED
    BY <1>5, <2>9 DEF GateUpAt
<1>6. CASE q = Part("drain", s, 0) /\ m \in {1, 2} /\ Full(u, s)
  BY <1>2, <1>6 DEF GateUpAt, Full
<1>7. CASE /\ q = Part("gate", 0, 0) /\ call.situ /\ Full(u, s)
           /\ IF IsGate(u) THEN m = 1 \/ (m = 2 /\ Handed(u, s)) ELSE m = 1
  <2>1. gate'[u] = gate[u]
    BY <1>7 DEF Part
  <2>2. QED
    BY <1>2, <1>7, <2>1 DEF GateUpAt, Full, Handed, IsGate
<1>8. CASE q = Part("glu", 0, 0) /\ call.situ /\ ~IsGate(u) /\ m \in {1, 2} /\ Full(u, s) /\ Handed(Partner(u), s)
  <2>1. gate' = gate
    BY <1>8 DEF Part
  <2>2. QED
    BY <1>2, <1>8, <2>1 DEF GateUpAt, Full, Handed, IsGate, Partner
<1>9. CASE q = End /\ m = 1
  BY <1>9 DEF GateUpAt
<1>10. QED
  BY <1>4, <1>5, <1>6, <1>7, <1>8, <1>9 DEF GateUpAt

LEMMA GateUpKept ==
  ASSUME NEW g \in Nat, NEW b \in Nat, NEW s \in Nat, GateUpCall(g, b, s), call' = call,
         NEW w \in Waves, NEW p, Spares(w, p),
         NEW u \in Waves, u # w, NEW q, NEW m, GateUpAt(u, q, m, g, b, s),
         GateUpRound(q, s) = GateUpRound(p, s), NEW k, GateUpAt(w, p, k, g, b, s), p # End
  PROVE  GateUpAt(u, q, m, g, b, s)'
<1>1. u \in WaveIds /\ u # w /\ Same(u)
  BY DEF GateUpCall, Spares
<1>2. Still(u) /\ sum'[u] = sum[u]
  BY <1>1, SameKeeps DEF Still
<1>3. ASSUME NEW x, NEW l, NEW v, GateUpAt(v, x, l, g, b, s)
      PROVE  \/ x.name = "prime" /\ GateUpRound(x, s) = 0
             \/ x.name = "slab" /\ GateUpRound(x, s) \in 1 .. s
             \/ x.name = "drain" /\ GateUpRound(x, s) = s + 1
             \/ x.name = "gate" /\ GateUpRound(x, s) = s + 2
             \/ x.name = "glu" /\ GateUpRound(x, s) = s + 3
             \/ x = End /\ x.name = "end" /\ GateUpRound(x, s) \in {s + 1, s + 3}
  BY <1>3 DEF GateUpAt, GateUpRound, Part, End
<1>4. q.name \in {"prime", "slab"} => \A t \in Slots : lds'[t][u] = lds[t][u]
  <2>1. q.name \in {"prime", "slab"} => p.name # "gate"
    BY <1>3
  <2>2. QED
    BY <1>1, <2>1 DEF Spares, Apart
<1>5. q.name = "gate" => gate'[u] = gate[u]
  <2>1. q.name = "gate" => p.name \notin {"prime", "slab"}
    BY <1>3
  <2>2. QED
    BY <1>1, <2>1 DEF Spares
<1>6. q.name = "glu" => gate' = gate
  <2>1. q.name = "glu" => p.name = "glu"
    BY <1>3
  <2>2. QED
    BY <1>1, <2>1 DEF Spares
<1>7. QED
  BY <1>2, <1>4, <1>5, <1>6, GateUpStays

-----------------------------------------------------------------------------
(* A barrier takes a wave to the next round.                               *)
LEMMA EndsPart ==
  ASSUME NEW w, NEW p, NEW n \in Nat, at[w] = [part |-> p, n |-> n], n = Len(Code(w, p))
  PROVE  Following(w) = [part |-> After(w, p), n |-> 1]
<1>1. /\ n < Len(Code(w, p)) => Following(w) = [part |-> p, n |-> n + 1]
      /\ ~(n < Len(Code(w, p))) => Following(w) = Start(After(w, p))
      /\ Now(w) = Code(w, p)[n]
  BY FollowingIs
<1>2. QED
  BY <1>1 DEF Start

LEMMA GateUpBarrier ==
  ASSUME Sorts, NEW g \in Nat, NEW b \in Nat, NEW s \in Nat, GateUpCall(g, b, s), UNCHANGED <<call, memory, lds, gate, sum>>,
         NEW w \in Waves, NEW p, NEW n, at[w] = [part |-> p, n |-> n], GateUpAt(w, p, n, g, b, s), At(w, "barrier"),
         p.name = "gate" /\ ~IsGate(w) => Handed(Partner(w), s)
  PROVE  \E q, m : /\ Following(w) = [part |-> q, n |-> m] /\ GateUpAt(w, q, m, g, b, s)'
                   /\ GateUpRound(q, s) = GateUpRound(p, s) + 1
<1>1. Now(w).op = "barrier" /\ p # End /\ call.kernel = "gateup" /\ s = Slabs
  BY DEF At, GateUpCall
<1>2. Still(w)
  BY StillIs
<1>3. ASSUME NEW i \in 0 .. s, lds[i % 2][w] = i, sum[w] = Pairs(0, i), Ahead(w, i, g, b),
             NEW q, q = SlabOrDrain(i)
      PROVE  GateUpAt(w, q, 1, g, b, s)' /\ GateUpRound(q, s) = i + 1
  <2>1. CASE i = s
    <3>1. q = Part("drain", s, 0)
      BY <1>1, <1>3, <2>1 DEF SlabOrDrain
    <3>2. GateUpAt(w, q, 1, g, b, s)'
      BY <1>3, <2>1, <3>1 DEF GateUpAt, Full
    <3>3. GateUpRound(q, s) = i + 1
      BY <2>1, <3>1 DEF GateUpRound, Part
    <3>4. QED
      BY <3>2, <3>3
  <2>2. CASE i # s
    <3>1. q = Part("slab", i, 0) /\ i \in 0 .. s - 1
      BY <1>1, <1>3, <2>2 DEF SlabOrDrain
    <3>2. SlabAt(w, i, 1, g, b)'
      BY <1>2, <1>3 DEF SlabAt, EarlyAt, LateAt, Ahead, Still
    <3>3. GateUpAt(w, q, 1, g, b, s)'
      BY <3>1, <3>2 DEF GateUpAt
    <3>4. GateUpRound(q, s) = i + 1
      BY <3>1 DEF GateUpRound, Part
    <3>5. QED
      BY <3>3, <3>4
  <2>3. QED
    BY <2>1, <2>2
<1>4. CASE p = Part("prime", 0, 0) /\ PrimeAt(w, n, g, b)
  <2>1. Code(w, p) = Prime /\ After(w, p) = SlabOrDrain(0) /\ GateUpRound(p, s) = 0 /\ n \in 1 .. 7
    BY <1>1, <1>4 DEF Code, GateUpCode, After, GateUpAfter, GateUpRound, Part, PrimeAt
  <2>2. n \in Nat /\ Now(w) = Prime[n]
    BY <2>1, FollowingIs
  <2>3. n = 7
    <3>1. \A k \in 1 .. 6 : Prime[k].op # "barrier"
      BY PrimeCode DEF Load, Wait, WriteA
    <3>2. QED
      BY <1>1, <2>1, <2>2, <3>1
  <2>4. 0 % 2 = 0 /\ 0 \in 0 .. s
    OBVIOUS
  <2>5. Following(w) = [part |-> SlabOrDrain(0), n |-> 1]
    BY <2>1, <2>2, <2>3, EndsPart, PrimeCode
  <2>6. PICK q : q = SlabOrDrain(0)
    OBVIOUS
  <2>7. lds[0 % 2][w] = 0 /\ sum[w] = Pairs(0, 0) /\ Ahead(w, 0, g, b)
    BY <1>4, <2>3, <2>4 DEF PrimeAt
  <2>8. GateUpAt(w, q, 1, g, b, s)' /\ GateUpRound(q, s) = 0 + 1
    BY <1>3, <2>4, <2>6, <2>7
  <2>9. QED
    BY <2>1, <2>5, <2>6, <2>8
<1>5. ASSUME NEW i \in 0 .. s - 1, p = Part("slab", i, 0), SlabAt(w, i, n, g, b)
      PROVE  \E q, m : /\ Following(w) = [part |-> q, n |-> m] /\ GateUpAt(w, q, m, g, b, s)'
                       /\ GateUpRound(q, s) = GateUpRound(p, s) + 1
  <2>1. Code(w, p) = slab_body(i) /\ After(w, p) = SlabOrDrain(i + 1) /\ GateUpRound(p, s) = i + 1 /\ n \in 1 .. 7
    BY <1>1, <1>5 DEF Code, GateUpCode, After, GateUpAfter, GateUpRound, Part, SlabAt
  <2>2. i \in Nat /\ n \in Nat
    BY <2>1
  <2>3. Now(w) = slab_body(i)[n]
    BY <2>1, <2>2, FollowingIs
  <2>4. n = 7
    <3>1. \A k \in 1 .. 6 : slab_body(i)[k].op # "barrier"
      <4>1. /\ slab_body(i)[1] = Wait(SLAB_OPS) /\ slab_body(i)[6] = issue_b(i + 2)
            /\ slab_body(i)[2] \in {issue_a(i + 2), Product(B(i), {i % 2}, i)}
            /\ slab_body(i)[3] \in {Wait(B_OPS), Product(B(i), {i % 2}, i)}
            /\ slab_body(i)[4] \in {Wait(B_OPS + Grans), WriteA(A(i + 1), (i + 1) % 2)}
            /\ slab_body(i)[5] \in {WriteA(A(i + 1), (i + 1) % 2), issue_a(i + 2)}
        BY <2>2, SlabCode, Zenon
      <4>2. /\ \A k : Wait(k).op # "barrier" /\ issue_a(k).op # "barrier" /\ issue_b(k).op # "barrier"
            /\ \A r, k : WriteA(r, k).op # "barrier" /\ \A v : Product(r, k, v).op # "barrier"
        BY DEF issue_a, issue_b, Load, Wait, WriteA, Product
      <4>3. /\ slab_body(i)[1].op # "barrier" /\ slab_body(i)[2].op # "barrier"
            /\ slab_body(i)[3].op # "barrier" /\ slab_body(i)[4].op # "barrier"
            /\ slab_body(i)[5].op # "barrier" /\ slab_body(i)[6].op # "barrier"
        BY <4>1, <4>2, Zenon
      <4>4. QED
        BY <4>3
    <3>2. QED
      BY <1>1, <2>1, <2>3, <3>1
  <2>5. /\ lds[(i + 1) % 2][w] = i + 1 /\ sum[w] = Pairs(0, i + 1) /\ Ahead(w, i + 1, g, b)
        /\ i + 1 \in 0 .. s
    BY <1>5, <2>4 DEF SlabAt, EarlyAt, LateAt
  <2>6. Following(w) = [part |-> SlabOrDrain(i + 1), n |-> 1]
    <3>1. Len(Code(w, p)) = 7
      BY <2>1, <2>2, SlabCode
    <3>2. QED
      BY <2>1, <2>2, <2>4, <3>1, EndsPart
  <2>7. PICK q : q = SlabOrDrain(i + 1)
    OBVIOUS
  <2>8. GateUpAt(w, q, 1, g, b, s)' /\ GateUpRound(q, s) = i + 1 + 1
    BY <1>3, <2>5, <2>7
  <2>9. QED
    BY <2>1, <2>6, <2>7, <2>8
<1>6. CASE p = Part("drain", s, 0) /\ n \in {1, 2} /\ Full(w, s)
  <2> DEFINE last == IF call.situ THEN Do("barrier") ELSE Store(0, 1)
  <2>1. /\ Code(w, p) = <<Wait(0), last>> /\ After(w, p) = (IF call.situ THEN Part("gate", 0, 0) ELSE End)
        /\ GateUpRound(p, s) = s + 1
    BY <1>1, <1>6 DEF Code, GateUpCode, After, GateUpAfter, GateUpRound, Part
  <2> HIDE DEF last
  <2>2. Len(Code(w, p)) = 2 /\ Code(w, p)[1] = Wait(0) /\ Code(w, p)[2] = last
    BY <2>1
  <2>3. Now(w) = Code(w, p)[n]
    BY <1>6, FollowingIs
  <2>4. n = 2 /\ call.situ
    BY <1>1, <1>6, <2>2, <2>3 DEF Wait, Store, last
  <2>5. GateUpAt(w, Part("gate", 0, 0), 1, g, b, s)'
    <3>1. call' = call /\ sum' = sum
      OBVIOUS
    <3>2. call.situ' /\ Full(w, s)'
      BY <1>6, <2>4, <3>1 DEF Full
    <3>3. QED
      BY <3>2 DEF GateUpAt
  <2>6. GateUpRound(Part("gate", 0, 0), s) = s + 2
    BY DEF GateUpRound, Part
  <2>7. Following(w) = [part |-> Part("gate", 0, 0), n |-> 1]
    BY <1>6, <2>1, <2>2, <2>4, EndsPart
  <2>8. QED
    BY <2>1, <2>5, <2>6, <2>7
<1>7. CASE /\ p = Part("gate", 0, 0) /\ call.situ /\ Full(w, s)
           /\ IF IsGate(w) THEN n = 1 \/ (n = 2 /\ Handed(w, s)) ELSE n = 1
  <2>1. /\ Code(w, p) = (IF IsGate(w) THEN <<Do("gate"), Do("barrier")>> ELSE <<Do("barrier")>>)
        /\ After(w, p) = (IF IsGate(w) THEN End ELSE Part("glu", 0, 0)) /\ GateUpRound(p, s) = s + 2
        /\ p.name = "gate"
    BY <1>1, <1>7 DEF Code, GateUpCode, After, GateUpAfter, GateUpRound, Part
  <2>2. CASE IsGate(w)
    <3>1. Len(Code(w, p)) = 2 /\ Code(w, p)[1] = Do("gate")
      BY <2>1, <2>2
    <3>2. Now(w) = Code(w, p)[n]
      BY <1>7, FollowingIs
    <3>3. n = 2
      BY <1>1, <1>7, <2>2, <3>1, <3>2 DEF Do
    <3>4. GateUpAt(w, End, 1, g, b, s)' /\ GateUpRound(End, s) = s + 3
      BY <1>7 DEF GateUpAt, GateUpRound, End, Part
    <3>5. Following(w) = [part |-> End, n |-> 1]
      BY <2>1, <2>2, <3>1, <3>3, EndsPart
    <3>6. QED
      BY <2>1, <3>3, <3>4, <3>5
  <2>3. CASE ~IsGate(w)
    <3>1. Len(Code(w, p)) = 1 /\ n = 1
      BY <1>7, <2>1, <2>3
    <3>2. Following(w) = [part |-> Part("glu", 0, 0), n |-> 1]
      BY <2>1, <2>3, <3>1, EndsPart
    <3>3. GateUpAt(w, Part("glu", 0, 0), 1, g, b, s)' /\ GateUpRound(Part("glu", 0, 0), s) = s + 3
      BY <1>7, <2>1, <2>3 DEF GateUpAt, GateUpRound, Full, Handed, IsGate, Partner, Part
    <3>4. QED
      BY <2>1, <3>2, <3>3
  <2>4. QED
    BY <2>2, <2>3
<1>8. CASE p = Part("glu", 0, 0) /\ n \in {1, 2}
  <2>1. Code(w, p) = <<Do("glu"), Store(0, 1)>>
    BY <1>1, <1>8 DEF Code, GateUpCode, Part
  <2>2. Now(w) = Code(w, p)[n]
    BY <1>8, FollowingIs
  <2>3. QED
    BY <1>1, <1>8, <2>1, <2>2 DEF Do, Store
<1>9. QED
  BY <1>1, <1>4, <1>5, <1>6, <1>7, <1>8 DEF GateUpAt

-----------------------------------------------------------------------------
(* down.                                                                   *)
(* A call of down: k steps of K, o operations for a slot of the ring,      *)
(* c batches of A, t column steps.                                         *)
DownCall(k, o, c, t) ==
  /\ call.kernel = "down" /\ call.bm \in Nat
  /\ k = KSteps /\ k \in 1 .. 6 /\ o = SLOT_OPS /\ c = Batches /\ c \in 1 .. 3 /\ PerBatch \in Nat
  /\ t = steps
  /\ Waves \subseteq WaveIds

LEMMA Slots6 ==
  /\ "A0" \in Registers
  /\ \A x \in 0 .. 5 : Slot(x) \in Registers /\ Slot(x) # "A0"
  /\ \A x, y \in 0 .. 5 : x # y => Slot(x) # Slot(y)
<1>1. /\ BReg[1] = "B0" /\ BReg[2] = "B1" /\ BReg[3] = "B2"
      /\ BReg[4] = "B3" /\ BReg[5] = "B4" /\ BReg[6] = "B5"
  BY DEF BReg
<1>2. /\ Slot(0) = "B0" /\ Slot(1) = "B1" /\ Slot(2) = "B2"
      /\ Slot(3) = "B3" /\ Slot(4) = "B4" /\ Slot(5) = "B5"
  BY <1>1 DEF Slot
<1>3. \A x \in 0 .. 5 : x = 0 \/ x = 1 \/ x = 2 \/ x = 3 \/ x = 4 \/ x = 5
  OBVIOUS
<1>4. "A0" \in Registers /\ \A x \in 0 .. 5 : Slot(x) \in Registers /\ Slot(x) # "A0"
  BY <1>2, <1>3 DEF Registers
<1>5. ASSUME NEW x \in 0 .. 5, NEW y \in 0 .. 5, x # y PROVE Slot(x) # Slot(y)
  BY <1>2, <1>3, <1>5
<1>6. QED
  BY <1>4, <1>5

LEMMA Turn ==
  ASSUME NEW d \in Int, NEW o \in Nat
  PROVE  d * o \in Int /\ (d + 1) * o = d * o + o /\ 0 * o = 0 /\ 1 * o = o
  BY SMT

(* A slot's last load with d slots loaded since.                           *)
Lag(w, x, v, d, o) == Behind(w, Slot(x), v, d * o)

(* The ring before step j of K: the slots before j refilled with the next  *)
(* column step's weights, those from j on holding this one's.              *)
RingAt(w, this, next, j, k, o) ==
  \A x \in 0 .. k - 1 :
    IF x < j THEN Lag(w, x, next * k + x, j - 1 - x, o) ELSE Lag(w, x, this * k + x, k - 1 - x + j, o)

Written(w, c) == \A x \in 0 .. c - 1 : lds[x][w] = x
Next1(step, t) == IF step + 1 < t THEN step + 1 ELSE step

BatchAt(w, i, n, c) ==
  /\ Written(w, i)
  /\ n \in 1 .. (IF i < c - 1 THEN 3 ELSE 1)
  /\ n = 2 => Behind(w, "A0", i, 0)
  /\ n = 3 => Arrived(w, "A0", i)

PrimedTo(w, ks, k, o, c) ==
  /\ Written(w, c - 1) /\ Behind(w, "A0", c - 1, ks * o)
  /\ \A x \in 0 .. ks - 1 : Lag(w, x, x, ks - 1 - x, o)

StagedAt(w, n, k, o, c) ==
  /\ RingAt(w, 0, 0, 0, k, o) /\ Written(w, c - 1)
  /\ n \in 1 .. 3
  /\ n = 1 => Behind(w, "A0", c - 1, k * o)
  /\ n = 2 => Arrived(w, "A0", c - 1)
  /\ n = 3 => Written(w, c)

ColumnAt(w, step, ks, n, k, o, t) ==
  /\ n \in 1 .. 3
  /\ RingAt(w, step, Next1(step, t), ks, k, o)
  /\ n = 2 => Arrived(w, Slot(ks), step * k + ks)
  /\ sum[w] = Pairs(step * k, IF n = 3 THEN ks + 1 ELSE ks)

DownAt(w, p, n, k, o, c, t) ==
  \/ \E i \in 0 .. c - 1 : p = Part("batch", i, 0) /\ BatchAt(w, i, n, c)
  \/ \E ks \in 0 .. k - 1 : p = Part("ring", 0, ks) /\ n = 1 /\ PrimedTo(w, ks, k, o, c)
  \/ p = Part("staged", 0, 0) /\ StagedAt(w, n, k, o, c)
  \/ Written(w, c) /\ n = 1 /\ \E i \in 0 .. t - 1 : p = Part("clear", i, 0) /\ RingAt(w, i, i, 0, k, o)
  \/ Written(w, c) /\ \E i \in 0 .. t - 1, ks \in 0 .. k - 1 : p = Part("column", i, ks) /\ ColumnAt(w, i, ks, n, k, o, t)
  \/ Written(w, c) /\ n = 1 /\ \E i \in 0 .. t - 1 :
       p = Part("store", i, 0) /\ RingAt(w, Next1(i, t), Next1(i, t), 0, k, o) /\ sum[w] = Pairs(i * k, k)
  \/ Written(w, c) /\ n = 1 /\ p = Part("drain", 0, 0)
  \/ Written(w, c) /\ n = 1 /\ p = End

DownRound(p) == IF p.name \in {"batch", "ring", "staged"} THEN 0 ELSE 1

DownGoes(w, p, k, o, c, t) ==
  /\ Sorts' /\ (\A u \in WaveIds \ {w} : Same(u)) /\ Apart(w)
  /\ \E q, m : at'[w] = [part |-> q, n |-> m] /\ DownAt(w, q, m, k, o, c, t)' /\ DownRound(q) = DownRound(p)

(* Issuing into another register puts a slot one further behind.           *)
LEMMA LagKept ==
  ASSUME NEW w, NEW k \in 1 .. 6, NEW o \in Nat, NEW r, NEW v, Issued(w, r, v, o),
         NEW x \in 0 .. k - 1, r # Slot(x), NEW a \in Int, NEW d \in Int, Lag(w, x, a, d, o)
  PROVE  Lag(w, x, a, d + 1, o)'
<1>1. d * o \in Int /\ (d + 1) * o = d * o + o
  BY Turn
<1>2. Slot(x) \in Registers \ {r}
  BY Slots6
<1>3. Behind(w, Slot(x), a, d * o + o)'
  BY <1>1, <1>2 DEF Issued, Lag
<1>4. QED
  BY <1>1, <1>3 DEF Lag

LEMMA RingStill ==
  ASSUME NEW w, \A r \in Registers, v, n \in Int : Behind(w, r, v, n) => Behind(w, r, v, n)',
         NEW this \in Int, NEW next \in Int, NEW j \in Int, NEW k \in 1 .. 6, NEW o \in Nat, RingAt(w, this, next, j, k, o)
  PROVE  RingAt(w, this, next, j, k, o)'
<1>1. ASSUME NEW x \in 0 .. k - 1, NEW v \in Int, NEW d \in Int, Lag(w, x, v, d, o) PROVE Lag(w, x, v, d, o)'
  <2>1. d * o \in Int /\ Slot(x) \in Registers
    BY Turn, Slots6
  <2>2. QED
    BY <1>1, <2>1 DEF Lag
<1>2. \A x \in 0 .. k - 1 : next * k + x \in Int /\ this * k + x \in Int /\ j - 1 - x \in Int /\ k - 1 - x + j \in Int
  BY SMT
<1>3. QED
  BY <1>1, <1>2 DEF RingAt

(* The refill of slot j is the ring's next state.                          *)
LEMMA RingTurns ==
  ASSUME NEW w, NEW this \in Int, NEW next \in Int, NEW k \in 1 .. 6, NEW j \in 0 .. k - 1, NEW o \in Nat,
         RingAt(w, this, next, j, k, o), Issued(w, Slot(j), next * k + j, o)
  PROVE  RingAt(w, this, next, j + 1, k, o)'
<1>1. SUFFICES ASSUME NEW x \in 0 .. k - 1
               PROVE IF x < j + 1 THEN Lag(w, x, next * k + x, j + 1 - 1 - x, o)'
                     ELSE Lag(w, x, this * k + x, k - 1 - x + (j + 1), o)'
  BY DEF RingAt
<1>2. next * k + x \in Int /\ this * k + x \in Int /\ j - 1 - x \in Int /\ k - 1 - x + j \in Int
  BY SMT
<1>3. j - 1 - x + 1 = j + 1 - 1 - x /\ k - 1 - x + j + 1 = k - 1 - x + (j + 1)
  OBVIOUS
<1>4. CASE x < j
  <2>1. Slot(j) # Slot(x)
    BY <1>4, Slots6
  <2>2. Lag(w, x, next * k + x, j - 1 - x, o)
    BY <1>4 DEF RingAt
  <2>3. Lag(w, x, next * k + x, j - 1 - x + 1, o)'
    BY <1>2, <2>1, <2>2, LagKept
  <2>4. QED
    BY <1>3, <1>4, <2>3
<1>5. CASE x > j
  <2>1. Slot(j) # Slot(x)
    BY <1>5, Slots6
  <2>2. Lag(w, x, this * k + x, k - 1 - x + j, o)
    BY <1>5 DEF RingAt
  <2>3. Lag(w, x, this * k + x, k - 1 - x + j + 1, o)'
    BY <1>2, <2>1, <2>2, LagKept
  <2>4. QED
    BY <1>3, <1>5, <2>3
<1>6. CASE x = j
  <2>1. (j + 1 - 1 - x) * o = 0
    BY <1>6, Turn
  <2>2. QED
    BY <1>6, <2>1 DEF Issued, Lag
<1>7. QED
  BY <1>4, <1>5, <1>6

(* Refilled throughout, the ring is the next column step's.                *)
LEMMA RingComesRound ==
  ASSUME NEW w, NEW this \in Int, NEW next \in Int, NEW other \in Int, NEW k \in 1 .. 6, NEW o \in Nat,
         RingAt(w, this, next, k, k, o)'
  PROVE  RingAt(w, next, other, 0, k, o)'
<1>1. SUFFICES ASSUME NEW x \in 0 .. k - 1 PROVE Lag(w, x, next * k + x, k - 1 - x + 0, o)'
  BY DEF RingAt
<1>2. x < k /\ k - 1 - x + 0 = k - 1 - x
  OBVIOUS
<1>3. QED
  BY <1>2 DEF RingAt

LEMMA RingStarts ==
  ASSUME NEW w, NEW this, NEW next, NEW other, NEW k \in 1 .. 6, NEW o, RingAt(w, this, next, 0, k, o)
  PROVE  RingAt(w, this, other, 0, k, o)
  BY DEF RingAt

LEMMA WrittenKept ==
  ASSUME NEW w, NEW c \in 1 .. 3, NEW i \in 0 .. c, Written(w, i), \A s \in Slots : lds'[s][w] = lds[s][w]
  PROVE  Written(w, i)'
  BY DEF Written, Slots

LEMMA BatchStep ==
  ASSUME Sorts, NEW k, NEW o \in Nat, NEW c, NEW t \in Nat, DownCall(k, o, c, t), call' = call,
         NEW w \in Waves, NEW n, NEW i \in 0 .. c - 1, BatchAt(w, i, n, c), Run(w),
         at[w] = [part |-> Part("batch", i, 0), n |-> n]
  PROVE  DownGoes(w, Part("batch", i, 0), k, o, c, t)
<1> DEFINE p == Part("batch", i, 0)
<1>1. /\ p # End /\ at[w] = [part |-> p, n |-> n] /\ at[w].part = p /\ w \in WaveIds /\ n \in Nat
      /\ DownRound(p) = 0 /\ c \in 1 .. 3 /\ k \in 1 .. 6 /\ i \in Slots /\ "A0" \in Registers
      /\ n \in 1 .. (IF i < c - 1 THEN 3 ELSE 1)
  BY Slots6 DEF Part, End, DownCall, BatchAt, DownRound, Slots
<1>2. PICK d \in Nat : d = PerBatch
  BY DEF DownCall
<1>3. Code(w, p) = batch(i) /\ c = Batches
  BY DEF Part, Code, DownCode, DownCall
<1>4. After(w, p) = IF i < c - 1 THEN Part("batch", i + 1, 0) ELSE Part("ring", 0, 0)
  BY <1>3 DEF Part, After, DownAfter, DownCall
<1>5. batch(i) = IF i < c - 1 THEN <<Load("A0", i, d), Wait(0), WriteA("A0", i)>> ELSE <<Load("A0", i, d)>>
  BY <1>2, <1>3 DEF batch
<1> HIDE DEF p
<1>6. /\ n < Len(batch(i)) => Following(w) = [part |-> p, n |-> n + 1]
      /\ ~(n < Len(batch(i))) => Following(w) = Start(After(w, p))
      /\ Now(w) = batch(i)[n]
  BY <1>1, <1>3, FollowingIs
<1>7. CASE n = 1
  <2>1. Now(w) = Load("A0", i, d) /\ Issue(w)
    <3>1. Now(w) = Load("A0", i, d)
      BY <1>5, <1>6, <1>7
    <3>2. QED
      BY <1>1, <3>1, RunIs DEF Load
  <2>2. Issued(w, "A0", i, d)
    BY <1>1, <2>1, IssueDoes
  <2>3. Written(w, i)' /\ Behind(w, "A0", i, 0)' /\ Apart(w)
    <3>1. \A s \in Slots : lds'[s][w] = lds[s][w]
      BY <2>2 DEF Issued, Private
    <3>2. QED
      BY <1>1, <2>2, <3>1, WrittenKept DEF BatchAt, Issued, Private, Apart
  <2>4. CASE i < c - 1
    <3>1. at'[w] = [part |-> p, n |-> 2]
      BY <1>5, <1>6, <1>7, <2>2, <2>4 DEF Issued, Alone
    <3>2. DownAt(w, p, 2, k, o, c, t)'
      BY <2>3, <2>4 DEF DownAt, BatchAt, p
    <3>3. QED
      BY <2>2, <2>3, <3>1, <3>2 DEF DownGoes, Issued, Alone, p
  <2>5. CASE ~(i < c - 1)
    <3>1. at'[w] = [part |-> Part("ring", 0, 0), n |-> 1]
      BY <1>4, <1>5, <1>6, <1>7, <2>2, <2>5 DEF Issued, Alone, Start
    <3>2. PrimedTo(w, 0, k, o, c)'
      <4>1. i = c - 1 /\ 0 * o = 0
        BY <1>1, <2>5, Turn, 0 \in Int
      <4>2. QED
        BY <2>3, <4>1 DEF PrimedTo
    <3>3. DownAt(w, Part("ring", 0, 0), 1, k, o, c, t)'
      BY <1>1, <3>2 DEF DownAt
    <3>4. DownRound(Part("ring", 0, 0)) = 0
      BY DEF DownRound, Part
    <3>5. QED
      BY <1>1, <2>2, <2>3, <3>1, <3>3, <3>4 DEF DownGoes, Issued, Alone, p
  <2>6. QED
    BY <2>4, <2>5
<1>8. CASE n = 2
  <2>1. Now(w) = Wait(0) /\ i < c - 1 /\ Following(w) = [part |-> p, n |-> 3]
    BY <1>1, <1>5, <1>6, <1>8
  <2>2. wait_vmcnt(w)
    BY <1>1, <2>1, RunIs DEF Wait
  <2>3. Waited(w, 0)
    BY <1>1, <2>1, <2>2, WaitDoes
  <2>4. Written(w, i)' /\ Arrived(w, "A0", i)' /\ Apart(w)
    <3>1. \A s \in Slots : lds'[s][w] = lds[s][w]
      BY <2>3 DEF Waited, Private
    <3>2. Behind(w, "A0", i, 0) /\ i \in Int /\ 0 >= 0
      BY <1>8 DEF BatchAt
    <3>3. Arrived(w, "A0", i)'
      BY <1>1, <2>3, <3>2 DEF Waited
    <3>4. QED
      BY <1>1, <2>3, <3>1, <3>3, WrittenKept DEF BatchAt, Waited, Private, Apart
  <2>5. DownAt(w, p, 3, k, o, c, t)'
    BY <2>1, <2>4 DEF DownAt, BatchAt, p
  <2>6. QED
    BY <2>1, <2>3, <2>4, <2>5 DEF DownGoes, Waited, Alone, p
<1>9. CASE n = 3
  <2>1. Now(w) = WriteA("A0", i) /\ i < c - 1 /\ Following(w) = [part |-> Part("batch", i + 1, 0), n |-> 1]
    BY <1>1, <1>4, <1>5, <1>6, <1>9 DEF Start
  <2>2. Publish(w)
    BY <1>1, <2>1, RunIs DEF WriteA
  <2>3. Wrote(w, i, i)
    BY <1>1, <1>9, <2>1, <2>2, PublishDoes DEF BatchAt
  <2>4. Written(w, i + 1)' /\ Apart(w)
    <3>1. \A x \in 0 .. i - 1 : lds'[x][w] = x
      BY <1>1, <2>3 DEF BatchAt, Written, Wrote, Slots
    <3>2. lds'[i][w] = i
      BY <2>3 DEF Wrote
    <3>3. \A x \in 0 .. i + 1 - 1 : x \in 0 .. i - 1 \/ x = i
      OBVIOUS
    <3>4. QED
      BY <1>1, <2>3, <3>1, <3>2, <3>3 DEF Written, Wrote, Apart
  <2>5. BatchAt(w, i + 1, 1, c)' /\ i + 1 \in 0 .. c - 1
    BY <1>1, <2>1, <2>4 DEF BatchAt
  <2>6. DownAt(w, Part("batch", i + 1, 0), 1, k, o, c, t)'
    BY <2>5 DEF DownAt
  <2>7. DownRound(Part("batch", i + 1, 0)) = 0
    BY DEF DownRound, Part
  <2>8. QED
    BY <1>1, <2>1, <2>3, <2>4, <2>6, <2>7 DEF DownGoes, Wrote, Alone, p
<1>10. QED
  BY <1>1, <1>7, <1>8, <1>9

LEMMA RingStep ==
  ASSUME Sorts, NEW k, NEW o \in Nat, NEW c, NEW t \in Nat, DownCall(k, o, c, t), call' = call,
         NEW w \in Waves, NEW ks \in 0 .. k - 1, PrimedTo(w, ks, k, o, c), Run(w),
         at[w] = [part |-> Part("ring", 0, ks), n |-> 1]
  PROVE  DownGoes(w, Part("ring", 0, ks), k, o, c, t)
<1> DEFINE p == Part("ring", 0, ks)
<1>1. /\ p # End /\ at[w] = [part |-> p, n |-> 1] /\ at[w].part = p /\ w \in WaveIds
      /\ DownRound(p) = 0 /\ c \in 1 .. 3 /\ k \in 1 .. 6 /\ k = KSteps
      /\ Slot(ks) \in Registers \ {"A0"} /\ "A0" \in Registers
  BY Slots6 DEF Part, End, DownCall, DownRound
<1>2. Code(w, p) = <<Load(Slot(ks), ks, o)>>
  <2>1. 0 * KSteps + ks = ks
    BY <1>1
  <2>2. QED
    BY <2>1 DEF Part, Code, DownCode, DownCall, issue
<1>3. After(w, p) = IF ks + 1 < k THEN Part("ring", 0, ks + 1) ELSE Part("staged", 0, 0)
  BY <1>1 DEF Part, After, DownAfter, DownCall
<1> HIDE DEF p
<1>4. Now(w) = Load(Slot(ks), ks, o) /\ Following(w) = [part |-> After(w, p), n |-> 1]
  <2>1. Now(w) = Code(w, p)[1]
    BY <1>1, FollowingIs
  <2>2. Following(w) = [part |-> After(w, p), n |-> 1]
    BY <1>1, <1>2, EndsPart
  <2>3. QED
    BY <1>2, <2>1, <2>2
<1>5. Issue(w)
  BY <1>1, <1>4, RunIs DEF Load
<1>6. Issued(w, Slot(ks), ks, o)
  BY <1>1, <1>4, <1>5, IssueDoes
<1>7. Written(w, c - 1)' /\ Apart(w)
  <2>1. \A s \in Slots : lds'[s][w] = lds[s][w]
    BY <1>6 DEF Issued, Private
  <2>2. QED
    BY <1>1, <1>6, <2>1, WrittenKept DEF PrimedTo, Issued, Private, Apart
<1>8. Behind(w, "A0", c - 1, (ks + 1) * o)'
  <2>1. (ks + 1) * o = ks * o + o /\ ks * o \in Int /\ c - 1 \in Int
    BY <1>1, Turn
  <2>2. Behind(w, "A0", c - 1, ks * o + o)'
    BY <1>1, <1>6, <2>1 DEF PrimedTo, Issued
  <2>3. QED
    BY <2>1, <2>2
<1>9. ASSUME NEW x \in 0 .. ks PROVE Lag(w, x, x, ks - x, o)'
  <2>1. CASE x = ks
    <3>1. (ks - x) * o = 0
      BY <2>1, Turn
    <3>2. QED
      BY <1>6, <2>1, <3>1 DEF Issued, Lag
  <2>2. CASE x # ks
    <3>1. x \in 0 .. ks - 1 /\ x \in Int /\ ks - 1 - x \in Int /\ ks - 1 - x + 1 = ks - x /\ x \in 0 .. k - 1
      BY <1>1, <2>2
    <3>2. Slot(x) # Slot(ks)
      BY <1>1, <2>2, Slots6
    <3>3. Lag(w, x, x, ks - 1 - x, o)
      BY <3>1 DEF PrimedTo
    <3>4. Lag(w, x, x, ks - 1 - x + 1, o)'
      BY <1>1, <1>6, <3>1, <3>2, <3>3, LagKept
    <3>5. QED
      BY <3>1, <3>4
  <2>3. QED
    BY <2>1, <2>2
<1>10. CASE ks + 1 < k
  <2>1. \A x \in 0 .. ks + 1 - 1 : x \in 0 .. ks /\ ks + 1 - 1 - x = ks - x
    OBVIOUS
  <2>6. ASSUME NEW x \in 0 .. ks + 1 - 1 PROVE Lag(w, x, x, ks + 1 - 1 - x, o)'
    BY <1>9, <2>1
  <2>2. PrimedTo(w, ks + 1, k, o, c)' /\ ks + 1 \in 0 .. k - 1
    BY <1>1, <1>7, <1>8, <1>10, <2>6 DEF PrimedTo
  <2>3. DownAt(w, Part("ring", 0, ks + 1), 1, k, o, c, t)'
    BY <2>2 DEF DownAt
  <2>4. DownRound(Part("ring", 0, ks + 1)) = 0
    BY DEF DownRound, Part
  <2>5. QED
    BY <1>1, <1>3, <1>4, <1>6, <1>7, <1>10, <2>3, <2>4 DEF DownGoes, Issued, Alone, p
<1>11. CASE ~(ks + 1 < k)
  <2>1. k = ks + 1 /\ \A x \in 0 .. k - 1 : x \in 0 .. ks /\ k - 1 - x + 0 = ks - x /\ 0 * k + x = x /\ ~(x < 0)
    BY <1>1, <1>11
  <2>2. RingAt(w, 0, 0, 0, k, o)'
    BY <1>9, <2>1 DEF RingAt
  <2>3. StagedAt(w, 1, k, o, c)'
    BY <1>7, <1>8, <2>1, <2>2 DEF StagedAt
  <2>4. DownAt(w, Part("staged", 0, 0), 1, k, o, c, t)'
    BY <2>3 DEF DownAt
  <2>5. DownRound(Part("staged", 0, 0)) = 0
    BY DEF DownRound, Part
  <2>6. QED
    BY <1>1, <1>3, <1>4, <1>6, <1>7, <1>11, <2>4, <2>5 DEF DownGoes, Issued, Alone, p
<1>12. QED
  BY <1>10, <1>11

LEMMA StagedStep ==
  ASSUME Sorts, NEW k, NEW o \in Nat, NEW c, NEW t \in Nat, DownCall(k, o, c, t), call' = call,
         NEW w \in Waves, NEW n, StagedAt(w, n, k, o, c), Run(w),
         at[w] = [part |-> Part("staged", 0, 0), n |-> n]
  PROVE  DownGoes(w, Part("staged", 0, 0), k, o, c, t)
<1> DEFINE p == Part("staged", 0, 0)
<1>1. /\ p # End /\ at[w] = [part |-> p, n |-> n] /\ at[w].part = p /\ w \in WaveIds /\ n \in 1 .. 3 /\ n \in Nat
      /\ c \in 1 .. 3 /\ k \in 1 .. 6 /\ c - 1 \in Slots /\ "A0" \in Registers /\ c - 1 \in 0 .. c /\ c - 1 \in Int
      /\ k * o \in Int
  BY Slots6, Turn DEF Part, End, DownCall, StagedAt, Slots
<1>2. Code(w, p) = <<Wait(k * o), WriteA("A0", c - 1), Do("barrier")>>
  BY DEF Part, Code, DownCode, DownCall, RING_OPS
<1> HIDE DEF p
<1>3. /\ n < 3 => Following(w) = [part |-> p, n |-> n + 1]
      /\ Now(w) = <<Wait(k * o), WriteA("A0", c - 1), Do("barrier")>>[n]
  <2>1. /\ n < Len(Code(w, p)) => Following(w) = [part |-> p, n |-> n + 1]
        /\ Now(w) = Code(w, p)[n]
    BY <1>1, FollowingIs
  <2>2. Len(Code(w, p)) = 3
    BY <1>2
  <2>3. QED
    BY <1>2, <2>1, <2>2
<1>4. Now(w).op # "barrier"
  BY <1>1, RunIs
<1>5. CASE n = 1
  <2>1. Now(w) = Wait(k * o)
    BY <1>3, <1>5
  <2>2. wait_vmcnt(w)
    BY <1>1, <2>1, RunIs DEF Wait
  <2>3. Waited(w, k * o)
    BY <1>1, <2>1, <2>2, WaitDoes
  <2>4. Written(w, c - 1)' /\ Apart(w)
    <3>1. \A s \in Slots : lds'[s][w] = lds[s][w]
      BY <2>3 DEF Waited, Private
    <3>2. QED
      BY <1>1, <2>3, <3>1, WrittenKept DEF StagedAt, Waited, Private, Apart
  <2>5. Arrived(w, "A0", c - 1)'
    BY <1>1, <1>5, <2>3 DEF StagedAt, Waited
  <2>6. RingAt(w, 0, 0, 0, k, o)'
    <3>1. RingAt(w, 0, 0, 0, k, o) /\ 0 \in Int
      BY DEF StagedAt
    <3>2. \A r \in Registers, v, m \in Int : Behind(w, r, v, m) => Behind(w, r, v, m)'
      BY <2>3 DEF Waited
    <3>3. QED
      BY <1>1, <3>1, <3>2, RingStill
  <2>7. StagedAt(w, 2, k, o, c)'
    BY <2>4, <2>5, <2>6 DEF StagedAt
  <2>8. QED
    BY <1>3, <1>5, <2>3, <2>4, <2>7 DEF DownGoes, DownAt, Waited, Alone, p
<1>6. CASE n = 2
  <2>1. Now(w) = WriteA("A0", c - 1)
    BY <1>3, <1>6
  <2>2. Publish(w)
    BY <1>1, <2>1, RunIs DEF WriteA
  <2>3. Wrote(w, c - 1, c - 1)
    BY <1>1, <1>6, <2>1, <2>2, PublishDoes DEF StagedAt
  <2>4. Written(w, c - 1)' /\ Written(w, c)' /\ Apart(w)
    <3>1. \A x \in 0 .. c - 1 - 1 : lds'[x][w] = x
      BY <1>1, <2>3 DEF StagedAt, Written, Wrote, Slots
    <3>2. lds'[c - 1][w] = c - 1
      BY <2>3 DEF Wrote
    <3>3. \A x \in 0 .. c - 1 : x \in 0 .. c - 1 - 1 \/ x = c - 1
      BY <1>1
    <3>4. QED
      BY <1>1, <2>3, <3>1, <3>2, <3>3 DEF Written, Wrote, Apart
  <2>5. RingAt(w, 0, 0, 0, k, o)'
    <3>1. RingAt(w, 0, 0, 0, k, o) /\ 0 \in Int
      BY DEF StagedAt
    <3>2. \A r \in Registers, v, m \in Int : Behind(w, r, v, m) => Behind(w, r, v, m)'
      BY <2>3 DEF Wrote, Still
    <3>3. QED
      BY <1>1, <3>1, <3>2, RingStill
  <2>6. StagedAt(w, 3, k, o, c)'
    BY <2>4, <2>5 DEF StagedAt
  <2>7. QED
    BY <1>3, <1>6, <2>3, <2>4, <2>6 DEF DownGoes, DownAt, Wrote, Alone, p
<1>7. CASE n = 3
  <2>1. Now(w) = Do("barrier")
    BY <1>3, <1>7
  <2>2. QED
    BY <1>4, <2>1 DEF Do
<1>8. QED
  BY <1>1, <1>5, <1>6, <1>7

LEMMA ClearStep ==
  ASSUME Sorts, NEW k, NEW o \in Nat, NEW c, NEW t \in Nat, DownCall(k, o, c, t), call' = call,
         NEW w \in Waves, NEW i \in 0 .. t - 1, RingAt(w, i, i, 0, k, o), Written(w, c), Run(w),
         at[w] = [part |-> Part("clear", i, 0), n |-> 1]
  PROVE  DownGoes(w, Part("clear", i, 0), k, o, c, t)
<1> DEFINE p == Part("clear", i, 0)
<1>1. /\ p # End /\ at[w] = [part |-> p, n |-> 1] /\ at[w].part = p /\ w \in WaveIds
      /\ c \in 1 .. 3 /\ c \in 0 .. c /\ k \in 1 .. 6 /\ DownRound(p) = 1 /\ i \in Int /\ Next1(i, t) \in Int
  BY DEF Part, End, DownCall, DownRound, Next1
<1>2. Code(w, p) = <<Do("clear")>> /\ After(w, p) = Part("column", i, 0)
  BY DEF Part, Code, DownCode, After, DownAfter, DownCall
<1> HIDE DEF p
<1>3. Now(w) = Do("clear")
  BY <1>1, <1>2, FollowingIs
<1>4. Following(w) = [part |-> Part("column", i, 0), n |-> 1]
  BY <1>1, <1>2, EndsPart
<1>5. Clear(w)
  BY <1>1, <1>3, RunIs DEF Do
<1>6. Clears(w)
  BY <1>1, <1>5, ClearDoes
<1>7. Written(w, c)' /\ Apart(w)
  <2>1. \A s \in Slots : lds'[s][w] = lds[s][w]
    BY <1>6 DEF Clears, Private
  <2>2. QED
    BY <1>1, <1>6, <2>1, WrittenKept DEF Clears, Private, Apart
<1>8. RingAt(w, i, Next1(i, t), 0, k, o)'
  <2>1. RingAt(w, i, Next1(i, t), 0, k, o)
    BY <1>1, RingStarts
  <2>2. QED
    <3>1. \A r \in Registers, v, m \in Int : Behind(w, r, v, m) => Behind(w, r, v, m)'
      BY <1>6 DEF Clears, Still
    <3>2. QED
      BY <1>1, <2>1, <3>1, 0 \in Int, RingStill
<1>9. sum'[w] = Pairs(i * k, 0)
  BY <1>6 DEF Clears, Pairs
<1>10. ColumnAt(w, i, 0, 1, k, o, t)'
  BY <1>8, <1>9 DEF ColumnAt
<1>11. DownAt(w, Part("column", i, 0), 1, k, o, c, t)'
  BY <1>1, <1>7, <1>10 DEF DownAt
<1>12. DownRound(Part("column", i, 0)) = 1
  BY DEF DownRound, Part
<1>13. QED
  BY <1>1, <1>4, <1>6, <1>7, <1>11, <1>12 DEF DownGoes, Clears, Alone, p

LEMMA StoreStep ==
  ASSUME Sorts, NEW k, NEW o \in Nat, NEW c, NEW t \in Nat, DownCall(k, o, c, t), call' = call,
         NEW w \in Waves, NEW i \in 0 .. t - 1, RingAt(w, Next1(i, t), Next1(i, t), 0, k, o), Written(w, c), Run(w),
         at[w] = [part |-> Part("store", i, 0), n |-> 1]
  PROVE  DownGoes(w, Part("store", i, 0), k, o, c, t)
<1> DEFINE p == Part("store", i, 0)
<1>1. /\ p # End /\ at[w] = [part |-> p, n |-> 1] /\ at[w].part = p /\ w \in WaveIds
      /\ c \in 1 .. 3 /\ c \in 0 .. c /\ k \in 1 .. 6 /\ DownRound(p) = 1 /\ i \in Int /\ Next1(i, t) \in Int
      /\ t = steps /\ 4 * call.bm \in Nat
  BY DEF Part, End, DownCall, DownRound, Next1
<1>2. PICK d \in Nat : d = 4 * call.bm
  BY <1>1
<1>3. Code(w, p) = <<Store(i, d)>> /\ After(w, p) = IF i + 1 < t THEN Part("clear", i + 1, 0) ELSE Part("drain", 0, 0)
  BY <1>1, <1>2 DEF Part, Code, DownCode, After, DownAfter, DownCall
<1> HIDE DEF p
<1>4. Now(w) = Store(i, d)
  BY <1>1, <1>3, FollowingIs
<1>5. Following(w) = [part |-> After(w, p), n |-> 1]
  BY <1>1, <1>3, EndsPart
<1>6. StoreC(w)
  BY <1>1, <1>4, RunIs DEF Store
<1>7. Stored(w)
  BY <1>1, <1>4, <1>6, StoreDoes
<1>8. Written(w, c)' /\ Apart(w)
  <2>1. \A s \in Slots : lds'[s][w] = lds[s][w]
    BY <1>7 DEF Stored, Private
  <2>2. QED
    BY <1>1, <1>7, <2>1, WrittenKept DEF Stored, Private, Apart
<1>9. RingAt(w, Next1(i, t), Next1(i, t), 0, k, o)'
  <2>1. \A r \in Registers, v, m \in Int : Behind(w, r, v, m) => Behind(w, r, v, m)'
    BY <1>7 DEF Stored
  <2>2. QED
    BY <1>1, <2>1, 0 \in Int, RingStill
<1>10. CASE i + 1 < t
  <2>1. Next1(i, t) = i + 1 /\ i + 1 \in 0 .. t - 1
    BY <1>10 DEF Next1
  <2>2. RingAt(w, i + 1, i + 1, 0, k, o)'
    BY <1>9, <2>1
  <2>3. DownAt(w, Part("clear", i + 1, 0), 1, k, o, c, t)'
    BY <1>8, <2>1, <2>2 DEF DownAt
  <2>4. DownRound(Part("clear", i + 1, 0)) = 1
    BY DEF DownRound, Part
  <2>5. QED
    BY <1>1, <1>3, <1>5, <1>7, <1>8, <1>10, <2>3, <2>4 DEF DownGoes, Stored, Alone, p
<1>11. CASE ~(i + 1 < t)
  <2>1. DownAt(w, Part("drain", 0, 0), 1, k, o, c, t)'
    BY <1>8 DEF DownAt
  <2>2. DownRound(Part("drain", 0, 0)) = 1
    BY DEF DownRound, Part
  <2>3. QED
    BY <1>1, <1>3, <1>5, <1>7, <1>8, <1>11, <2>1, <2>2 DEF DownGoes, Stored, Alone, p
<1>12. QED
  BY <1>10, <1>11

LEMMA LastStep ==
  ASSUME Sorts, NEW k, NEW o \in Nat, NEW c, NEW t \in Nat, DownCall(k, o, c, t), call' = call,
         NEW w \in Waves, Written(w, c), Run(w), at[w] = [part |-> Part("drain", 0, 0), n |-> 1]
  PROVE  DownGoes(w, Part("drain", 0, 0), k, o, c, t)
<1> DEFINE p == Part("drain", 0, 0)
<1>1. /\ p # End /\ at[w] = [part |-> p, n |-> 1] /\ at[w].part = p /\ w \in WaveIds
      /\ c \in 1 .. 3 /\ c \in 0 .. c /\ DownRound(p) = 1
  BY DEF Part, End, DownCall, DownRound
<1>2. Code(w, p) = <<Wait(0)>> /\ After(w, p) = End
  BY DEF Part, Code, DownCode, After, DownAfter, DownCall
<1> HIDE DEF p
<1>3. Now(w) = Wait(0)
  BY <1>1, <1>2, FollowingIs
<1>4. Following(w) = [part |-> End, n |-> 1]
  BY <1>1, <1>2, EndsPart
<1>5. wait_vmcnt(w)
  BY <1>1, <1>3, RunIs DEF Wait
<1>6. Waited(w, 0)
  BY <1>1, <1>3, <1>5, WaitDoes
<1>7. Written(w, c)' /\ Apart(w)
  <2>1. \A s \in Slots : lds'[s][w] = lds[s][w]
    BY <1>6 DEF Waited, Private
  <2>2. QED
    BY <1>1, <1>6, <2>1, WrittenKept DEF Waited, Private, Apart
<1>8. DownAt(w, End, 1, k, o, c, t)'
  BY <1>7 DEF DownAt
<1>9. DownRound(End) = 1
  BY DEF DownRound, End, Part
<1>10. QED
  BY <1>1, <1>4, <1>6, <1>7, <1>8, <1>9 DEF DownGoes, Waited, Alone, p

LEMMA ColumnStep ==
  ASSUME Sorts, NEW k, NEW o \in Nat, NEW c, NEW t \in Nat, DownCall(k, o, c, t), call' = call,
         NEW w \in Waves, NEW n, NEW i \in 0 .. t - 1, NEW ks \in 0 .. k - 1,
         ColumnAt(w, i, ks, n, k, o, t), Written(w, c), Run(w), \A u \in Waves : Written(u, c),
         at[w] = [part |-> Part("column", i, ks), n |-> n]
  PROVE  DownGoes(w, Part("column", i, ks), k, o, c, t)
<1> DEFINE p == Part("column", i, ks)
<1>1. /\ p # End /\ at[w] = [part |-> p, n |-> n] /\ at[w].part = p /\ w \in WaveIds /\ n \in 1 .. 3 /\ n \in Nat
      /\ c \in 1 .. 3 /\ c \in 0 .. c /\ k \in 1 .. 6 /\ k = KSteps /\ DownRound(p) = 1 /\ ks \in Nat
      /\ call.kernel = "down" /\ Slot(ks) \in Registers
  BY Slots6 DEF Part, End, DownCall, ColumnAt, DownRound
<1>2. PICK r \in Int : r = Next1(i, t)
  BY DEF Next1
<1>3. i * k + ks \in Int /\ r * k + ks \in Int /\ i * k \in Int /\ k * o \in Int /\ k * o - o \in Int
  BY <1>1, <1>2
<1>4. Code(w, p) = <<Wait(k * o - o), Product(Slot(ks), 0 .. c - 1, ks), Load(Slot(ks), r * k + ks, o)>>
  BY <1>2 DEF Part, Code, DownCode, DownCall, RING_OPS, Column, issue, Refill, Next1
<1>5. After(w, p) = IF ks + 1 < k THEN Part("column", i, ks + 1) ELSE Part("store", i, 0)
  BY <1>1 DEF Part, After, DownAfter
<1>6. RingAt(w, i, r, ks, k, o) /\ sum[w] = Pairs(i * k, IF n = 3 THEN ks + 1 ELSE ks)
  BY <1>2 DEF ColumnAt
<1> HIDE DEF p
<1>7. /\ n < 3 => Following(w) = [part |-> p, n |-> n + 1]
      /\ n = 3 => Following(w) = [part |-> After(w, p), n |-> 1]
      /\ n = 1 => Now(w) = Wait(k * o - o)
      /\ n = 2 => Now(w) = Product(Slot(ks), 0 .. c - 1, ks)
      /\ n = 3 => Now(w) = Load(Slot(ks), r * k + ks, o)
  <2>1. /\ n < Len(Code(w, p)) => Following(w) = [part |-> p, n |-> n + 1]
        /\ Now(w) = Code(w, p)[n]
    BY <1>1, FollowingIs
  <2>2. Len(Code(w, p)) = 3
    BY <1>4
  <2>3. n = 3 => Following(w) = [part |-> After(w, p), n |-> 1]
    BY <1>1, <2>2, EndsPart
  <2>4. QED
    BY <1>4, <2>1, <2>2, <2>3
<1>8. ASSUME NEW m, at'[w] = [part |-> p, n |-> m], ColumnAt(w, i, ks, m, k, o, t)', Written(w, c)', Sorts',
             \A u \in WaveIds \ {w} : Same(u), Apart(w)
      PROVE  DownGoes(w, p, k, o, c, t)
  <2>1. DownAt(w, p, m, k, o, c, t)'
    BY <1>8 DEF DownAt, p
  <2>2. QED
    BY <1>8, <2>1 DEF DownGoes
<1>9. CASE n = 1
  <2>1. wait_vmcnt(w)
    BY <1>1, <1>7, <1>9, RunIs DEF Wait
  <2>2. Waited(w, k * o - o)
    BY <1>1, <1>3, <1>7, <1>9, <2>1, WaitDoes
  <2>3. Written(w, c)' /\ Apart(w)
    <3>1. \A s \in Slots : lds'[s][w] = lds[s][w]
      BY <2>2 DEF Waited, Private
    <3>2. QED
      BY <1>1, <2>2, <3>1, WrittenKept DEF Waited, Private, Apart
  <2>4. Arrived(w, Slot(ks), i * k + ks)'
    <3>1. Lag(w, ks, i * k + ks, k - 1 - ks + ks, o)
      BY <1>6 DEF RingAt
    <3>2. k - 1 - ks + ks = k - 1 /\ (k - 1) * o = k * o - o
      BY <1>1
    <3>3. Behind(w, Slot(ks), i * k + ks, k * o - o) /\ k * o - o >= k * o - o
      BY <1>3, <3>1, <3>2 DEF Lag
    <3>4. QED
      BY <1>1, <1>3, <2>2, <3>3 DEF Waited
  <2>5. RingAt(w, i, r, ks, k, o)'
    <3>1. \A x \in Registers, v, m \in Int : Behind(w, x, v, m) => Behind(w, x, v, m)'
      BY <2>2 DEF Waited
    <3>2. QED
      BY <1>1, <1>6, <3>1, i \in Int, ks \in Int, RingStill
  <2>6. sum'[w] = Pairs(i * k, ks)
    BY <1>6, <1>9, <2>2 DEF Waited
  <2>7. ColumnAt(w, i, ks, 2, k, o, t)'
    BY <1>2, <2>4, <2>5, <2>6 DEF ColumnAt
  <2>8. QED
    BY <1>7, <1>8, <1>9, <2>2, <2>3, <2>7 DEF Waited, Alone, p
<1>10. CASE n = 2
  <2>1. Multiply(w)
    BY <1>1, <1>7, <1>10, RunIs DEF Product
  <2>2. ARows(0 .. c - 1) = 0
    BY <1>1 DEF ARows, Written
  <2>3. Arrived(w, Slot(ks), i * k + ks)
    BY <1>10 DEF ColumnAt
  <2>4. Multiplies(w, ks, i * k + ks)
    BY <1>1, <1>7, <1>10, <2>1, <2>2, <2>3, MultiplyDoes
  <2>5. Written(w, c)' /\ Apart(w)
    <3>1. \A s \in Slots : lds'[s][w] = lds[s][w]
      BY <2>4 DEF Multiplies, Private
    <3>2. QED
      BY <1>1, <2>4, <3>1, WrittenKept DEF Multiplies, Private, Apart
  <2>6. RingAt(w, i, r, ks, k, o)'
    <3>1. \A x \in Registers, v, m \in Int : Behind(w, x, v, m) => Behind(w, x, v, m)'
      BY <2>4 DEF Multiplies, Still
    <3>2. QED
      BY <1>1, <1>6, <3>1, i \in Int, ks \in Int, RingStill
  <2>7. sum'[w] = Pairs(i * k, ks + 1)
    <3>1. Append(Pairs(i * k, ks), <<ks, i * k + ks>>) = Pairs(i * k, ks + 1)
      BY <1>1, <1>3, OneMore
    <3>2. sum'[w] = Append(sum[w], <<ks, i * k + ks>>) /\ sum[w] = Pairs(i * k, ks)
      BY <1>6, <1>10, <2>4 DEF Multiplies
    <3>3. QED
      BY <3>1, <3>2
  <2>8. ColumnAt(w, i, ks, 3, k, o, t)'
    BY <1>2, <2>6, <2>7 DEF ColumnAt
  <2>9. QED
    BY <1>7, <1>8, <1>10, <2>4, <2>5, <2>8 DEF Multiplies, Alone, p
<1>11. CASE n = 3
  <2>1. Issue(w)
    BY <1>1, <1>7, <1>11, RunIs DEF Load
  <2>2. Issued(w, Slot(ks), r * k + ks, o)
    BY <1>1, <1>3, <1>7, <1>11, <2>1, o \in Int, IssueDoes
  <2>3. Written(w, c)' /\ Apart(w)
    <3>1. \A s \in Slots : lds'[s][w] = lds[s][w]
      BY <2>2 DEF Issued, Private
    <3>2. QED
      BY <1>1, <2>2, <3>1, WrittenKept DEF Issued, Private, Apart
  <2>4. RingAt(w, i, r, ks + 1, k, o)'
    BY <1>1, <1>6, <2>2, i \in Int, RingTurns
  <2>5. sum'[w] = Pairs(i * k, ks + 1)
    BY <1>6, <1>11, <2>2 DEF Issued
  <2>6. CASE ks + 1 < k
    <3>1. ColumnAt(w, i, ks + 1, 1, k, o, t)' /\ ks + 1 \in 0 .. k - 1
      BY <1>1, <1>2, <2>4, <2>5, <2>6 DEF ColumnAt
    <3>2. DownAt(w, Part("column", i, ks + 1), 1, k, o, c, t)'
      BY <2>3, <3>1 DEF DownAt
    <3>3. DownRound(Part("column", i, ks + 1)) = 1
      BY DEF DownRound, Part
    <3>4. QED
      BY <1>1, <1>5, <1>7, <1>11, <2>2, <2>3, <2>6, <3>2, <3>3 DEF DownGoes, Issued, Alone, p
  <2>7. CASE ~(ks + 1 < k)
    <3>1. ks + 1 = k
      BY <1>1, <2>7
    <3>2. RingAt(w, r, r, 0, k, o)'
      BY <1>1, <2>4, <3>1, i \in Int, RingComesRound
    <3>3. DownAt(w, Part("store", i, 0), 1, k, o, c, t)'
      BY <1>2, <2>3, <2>5, <3>1, <3>2 DEF DownAt
    <3>4. DownRound(Part("store", i, 0)) = 1
      BY DEF DownRound, Part
    <3>5. QED
      BY <1>1, <1>5, <1>7, <1>11, <2>2, <2>3, <2>7, <3>3, <3>4 DEF DownGoes, Issued, Alone, p
  <2>8. QED
    BY <2>6, <2>7
<1>12. QED
  BY <1>1, <1>9, <1>10, <1>11 DEF p

LEMMA DownStep ==
  ASSUME Sorts, NEW k, NEW o \in Nat, NEW c, NEW t \in Nat, DownCall(k, o, c, t), call' = call,
         NEW w \in Waves, NEW p, NEW n, at[w] = [part |-> p, n |-> n], DownAt(w, p, n, k, o, c, t), Run(w),
         DownRound(p) = 1 => \A u \in Waves : Written(u, c)
  PROVE  DownGoes(w, p, k, o, c, t) /\ p # End
<1>1. CASE \E i \in 0 .. c - 1 : p = Part("batch", i, 0) /\ BatchAt(w, i, n, c)
  BY <1>1, BatchStep DEF Part, End
<1>2. CASE \E ks \in 0 .. k - 1 : p = Part("ring", 0, ks) /\ n = 1 /\ PrimedTo(w, ks, k, o, c)
  BY <1>2, RingStep DEF Part, End
<1>3. CASE p = Part("staged", 0, 0) /\ StagedAt(w, n, k, o, c)
  BY <1>3, StagedStep DEF Part, End
<1>4. ASSUME Written(w, c), n = 1, NEW i \in 0 .. t - 1, p = Part("clear", i, 0), RingAt(w, i, i, 0, k, o)
      PROVE  DownGoes(w, p, k, o, c, t) /\ p # End
  BY <1>4, ClearStep DEF Part, End
<1>5. ASSUME Written(w, c), NEW i \in 0 .. t - 1, NEW ks \in 0 .. k - 1, p = Part("column", i, ks), ColumnAt(w, i, ks, n, k, o, t)
      PROVE  DownGoes(w, p, k, o, c, t) /\ p # End
  <2>1. DownRound(p) = 1 /\ p # End
    BY <1>5 DEF DownRound, Part, End
  <2>2. QED
    BY <1>5, <2>1, ColumnStep
<1>6. ASSUME Written(w, c), n = 1, NEW i \in 0 .. t - 1, p = Part("store", i, 0), RingAt(w, Next1(i, t), Next1(i, t), 0, k, o)
      PROVE  DownGoes(w, p, k, o, c, t) /\ p # End
  BY <1>6, StoreStep DEF Part, End
<1>7. CASE Written(w, c) /\ n = 1 /\ p = Part("drain", 0, 0)
  BY <1>7, LastStep DEF Part, End
<1>8. CASE p = End
  <2>1. at[w].part = End
    BY <1>8
  <2>2. FALSE
    BY <2>1 DEF Run, Issue, wait_vmcnt, Publish, Multiply, StoreC, Clear, PublishGate, TakeGate, At
  <2>3. QED
    BY <2>2
<1>9. QED
  BY <1>1, <1>2, <1>3, <1>4, <1>5, <1>6, <1>7, <1>8 DEF DownAt

LEMMA DownStays ==
  ASSUME NEW k \in 1 .. 6, NEW o \in Nat, NEW c \in 1 .. 3, NEW t \in Nat,
         NEW u, NEW q, NEW m, DownAt(u, q, m, k, o, c, t), Still(u), sum'[u] = sum[u],
         \A s \in Slots : lds'[s][u] = lds[s][u]
  PROVE  DownAt(u, q, m, k, o, c, t)'
<1>1. /\ \A r, v, n : Behind(u, r, v, n) => Behind(u, r, v, n)'
      /\ \A r, v : Arrived(u, r, v) => Arrived(u, r, v)'
  BY DEF Still
<1>2. \A i \in 0 .. c : Written(u, i) => Written(u, i)'
  BY WrittenKept
<1>3. \A x, v, d : Lag(u, x, v, d, o) => Lag(u, x, v, d, o)'
  BY <1>1 DEF Lag
<1>4. \A a, b, j : RingAt(u, a, b, j, k, o) => RingAt(u, a, b, j, k, o)'
  BY <1>3 DEF RingAt
<1>5. c \in 0 .. c /\ c - 1 \in 0 .. c /\ \A i \in 0 .. c - 1 : i \in 0 .. c
  OBVIOUS
<1>6. ASSUME NEW i \in 0 .. c - 1, BatchAt(u, i, m, c) PROVE BatchAt(u, i, m, c)'
  BY <1>1, <1>2, <1>5, <1>6 DEF BatchAt
<1>7. ASSUME NEW ks, PrimedTo(u, ks, k, o, c) PROVE PrimedTo(u, ks, k, o, c)'
  BY <1>1, <1>2, <1>3, <1>5, <1>7 DEF PrimedTo
<1>8. StagedAt(u, m, k, o, c) => StagedAt(u, m, k, o, c)'
  BY <1>1, <1>2, <1>4, <1>5 DEF StagedAt
<1>9. \A i, ks : ColumnAt(u, i, ks, m, k, o, t) => ColumnAt(u, i, ks, m, k, o, t)'
  BY <1>1, <1>4 DEF ColumnAt
<1>10. CASE \E i \in 0 .. c - 1 : q = Part("batch", i, 0) /\ BatchAt(u, i, m, c)
  BY <1>6, <1>10 DEF DownAt
<1>11. CASE \E ks \in 0 .. k - 1 : q = Part("ring", 0, ks) /\ m = 1 /\ PrimedTo(u, ks, k, o, c)
  BY <1>7, <1>11 DEF DownAt
<1>12. CASE q = Part("staged", 0, 0) /\ StagedAt(u, m, k, o, c)
  BY <1>8, <1>12 DEF DownAt
<1>13. CASE Written(u, c) /\ m = 1 /\ \E i \in 0 .. t - 1 : q = Part("clear", i, 0) /\ RingAt(u, i, i, 0, k, o)
  BY <1>2, <1>4, <1>5, <1>13 DEF DownAt
<1>14. CASE Written(u, c) /\ \E i \in 0 .. t - 1, ks \in 0 .. k - 1 : q = Part("column", i, ks) /\ ColumnAt(u, i, ks, m, k, o, t)
  BY <1>2, <1>5, <1>9, <1>14 DEF DownAt
<1>15. CASE Written(u, c) /\ m = 1 /\ \E i \in 0 .. t - 1 :
              q = Part("store", i, 0) /\ RingAt(u, Next1(i, t), Next1(i, t), 0, k, o) /\ sum[u] = Pairs(i * k, k)
  BY <1>2, <1>4, <1>5, <1>15 DEF DownAt
<1>16. CASE Written(u, c) /\ m = 1 /\ (q = Part("drain", 0, 0) \/ q = End)
  BY <1>2, <1>5, <1>16 DEF DownAt
<1>17. QED
  BY <1>10, <1>11, <1>12, <1>13, <1>14, <1>15, <1>16 DEF DownAt

LEMMA DownBarrier ==
  ASSUME Sorts, NEW k, NEW o \in Nat, NEW c, NEW t \in Nat, DownCall(k, o, c, t), t > 0,
         UNCHANGED <<call, memory, lds, gate, sum>>,
         NEW w \in Waves, NEW p, NEW n, at[w] = [part |-> p, n |-> n], DownAt(w, p, n, k, o, c, t), At(w, "barrier")
  PROVE  /\ DownRound(p) = 0
         /\ \E q, m : Following(w) = [part |-> q, n |-> m] /\ DownAt(w, q, m, k, o, c, t)' /\ DownRound(q) = 1
<1>1. Now(w).op = "barrier" /\ p # End /\ call.kernel = "down" /\ c = Batches /\ k = KSteps /\ c \in 1 .. 3 /\ k \in 1 .. 6
  BY DEF At, DownCall
<1>2. n \in Nat
  BY DEF DownAt, BatchAt, StagedAt, ColumnAt
<1>3. Now(w) = Code(w, p)[n]
  BY <1>2, FollowingIs
<1>4. ASSUME NEW i \in 0 .. c - 1, p = Part("batch", i, 0), BatchAt(w, i, n, c) PROVE FALSE
  <2>1. Code(w, p) = IF i < c - 1 THEN <<Load("A0", i, PerBatch), Wait(0), WriteA("A0", i)>> ELSE <<Load("A0", i, PerBatch)>>
    BY <1>1, <1>4 DEF Code, DownCode, Part, batch
  <2>2. n \in 1 .. (IF i < c - 1 THEN 3 ELSE 1)
    BY <1>4 DEF BatchAt
  <2>3. CASE i < c - 1
    <3>1. n = 1 \/ n = 2 \/ n = 3
      BY <2>2, <2>3
    <3>2. QED
      BY <1>1, <1>3, <2>1, <2>3, <3>1 DEF Load, Wait, WriteA
  <2>4. CASE ~(i < c - 1)
    <3>1. n = 1
      BY <2>2, <2>4
    <3>2. QED
      BY <1>1, <1>3, <2>1, <2>4, <3>1 DEF Load
  <2>5. QED
    BY <2>3, <2>4
<1>5. ASSUME NEW ks, p = Part("ring", 0, ks), n = 1 PROVE FALSE
  <2>1. Code(w, p) = <<issue(0, ks)>>
    BY <1>1, <1>5 DEF Code, DownCode, Part
  <2>2. QED
    BY <1>1, <1>3, <1>5, <2>1 DEF issue, Load
<1>6. ASSUME NEW i, p = Part("clear", i, 0), n = 1 PROVE FALSE
  <2>1. Code(w, p) = <<Do("clear")>>
    BY <1>1, <1>6 DEF Code, DownCode, Part
  <2>2. QED
    BY <1>1, <1>3, <1>6, <2>1 DEF Do
<1>7. ASSUME NEW i, NEW ks, p = Part("column", i, ks), n \in 1 .. 3 PROVE FALSE
  <2>1. Code(w, p) = Column(i, ks)
    BY <1>1, <1>7 DEF Code, DownCode, Part
  <2>2. n = 1 \/ n = 2 \/ n = 3
    BY <1>7
  <2>3. QED
    BY <1>1, <1>3, <2>1, <2>2 DEF Column, issue, Load, Wait, Product
<1>8. ASSUME NEW i, p = Part("store", i, 0), n = 1 PROVE FALSE
  <2>1. Code(w, p) = <<Store(i, 4 * call.bm)>>
    BY <1>1, <1>8 DEF Code, DownCode, Part
  <2>2. QED
    BY <1>1, <1>3, <1>8, <2>1 DEF Store
<1>9. ASSUME p = Part("drain", 0, 0), n = 1 PROVE FALSE
  <2>1. Code(w, p) = <<Wait(0)>>
    BY <1>1, <1>9 DEF Code, DownCode, Part
  <2>2. QED
    BY <1>1, <1>3, <1>9, <2>1 DEF Wait
<1>10. p = Part("staged", 0, 0) /\ StagedAt(w, n, k, o, c)
  BY <1>1, <1>4, <1>5, <1>6, <1>7, <1>8, <1>9 DEF DownAt, ColumnAt
<1>11. Code(w, p) = <<Wait(RING_OPS), WriteA("A0", Batches - 1), Do("barrier")>> /\ After(w, p) = Part("clear", 0, 0)
  BY <1>1, <1>10 DEF Code, DownCode, After, DownAfter, Part
<1>12. n = 3 /\ Len(Code(w, p)) = 3
  <2>1. n = 1 \/ n = 2 \/ n = 3
    BY <1>10 DEF StagedAt
  <2>2. QED
    BY <1>1, <1>3, <1>11, <2>1 DEF Wait, WriteA
<1>13. Following(w) = [part |-> Part("clear", 0, 0), n |-> 1]
  BY <1>2, <1>11, <1>12, EndsPart
<1>14. Written(w, c)' /\ RingAt(w, 0, 0, 0, k, o)'
  <2>1. Written(w, c) /\ RingAt(w, 0, 0, 0, k, o)
    BY <1>10, <1>12 DEF StagedAt
  <2>2. QED
    BY <2>1 DEF Written, RingAt, Lag, Behind, memory
<1>15. DownAt(w, Part("clear", 0, 0), 1, k, o, c, t)'
  BY <1>14 DEF DownAt
<1>16. DownRound(p) = 0 /\ DownRound(Part("clear", 0, 0)) = 1
  BY <1>10 DEF DownRound, Part
<1>17. QED
  BY <1>13, <1>15, <1>16

-----------------------------------------------------------------------------
(* A running call's constants.                                             *)
LEMMA GateUpWidth ==
  ASSUME NEW bm, NEW situ \in BOOLEAN, NEW N \in Nat
  PROVE  /\ GateUpNt(bm, situ, N) \in 1 .. 3
         /\ bm = 1 => GateUpNt(bm, situ, N) = 1
         /\ situ => GateUpNt(bm, situ, N) <= 2
<1> DEFINE wide == {nt \in 2 .. (IF situ THEN 2 ELSE 3) : Covered(situ, N, nt) = Covered(situ, N, 1)}
<1>1. GateUpNt(bm, situ, N) =
        IF bm = 1 \/ wide = {} THEN 1 ELSE CHOOSE nt \in wide : \A x \in wide : x <= nt
  BY DEF GateUpNt
<1>2. situ => wide \subseteq {2}
  <2>1. \A x \in wide : x \in 2 .. (IF situ THEN 2 ELSE 3)
    OBVIOUS
  <2> HIDE DEF wide
  <2>2. QED
    BY <2>1
<1> HIDE DEF wide
<1>3. GateUpNt(bm, situ, N) \in 1 .. 3
  BY GateUpTiles
<1>4. CASE situ /\ ~(bm = 1 \/ wide = {})
  <2>1. wide = {2}
    BY <1>2, <1>4
  <2>2. \A x \in wide : x <= 2
    BY <2>1
  <2>3. (CHOOSE nt \in wide : \A x \in wide : x <= nt) \in wide
    BY <2>1, <2>2
  <2>4. QED
    BY <1>1, <1>3, <1>4, <2>1, <2>3
<1>5. QED
  BY <1>1, <1>3, <1>4

Launched == call \in Calls /\ Admits(call) /\ Built(call)

LEMMA LaunchedHas ==
  ASSUME Launched
  PROVE  /\ call.kernel \in {"gateup", "down"} /\ call.K \in Nat /\ call.situ \in BOOLEAN /\ call.N \in Nat
         /\ call.kernel = "gateup" => call.bm \in 1 .. 3 /\ call.K % 256 = 0
         /\ call.kernel = "down" => /\ call.bm \in {1, 2, 4} /\ call.nt \in {1, 2}
                                    /\ KSteps \in {3, 4, 6} /\ (call.bm = 4 => KSteps = 3)
<1>1. /\ call \in Arguments
      /\ call.kernel = "gateup" => moe_gateup_supports_k(call.K)
  BY CallsAssumption DEF Launched
<1>2. /\ call.kernel \in {"gateup", "down"} /\ call.K \in Nat /\ call.situ \in BOOLEAN /\ call.N \in Nat
  BY <1>1 DEF Arguments
<1>3. call.kernel = "gateup" => call.bm \in 1 .. 3
  BY DEF Launched, Built
<1>4. call.kernel = "down" => down_op(call) /\ call.bm \in {1, 2, 4}
                              /\ call.K \div 128 \in DownKSteps /\ (call.bm = 4 => call.K \div 128 = 3)
  BY <1>2 DEF Launched, Built, Admits
<1>5. call.kernel = "down" => call.nt \in {1, 2}
  BY <1>4 DEF down_op
<1>6. QED
  BY <1>1, <1>2, <1>3, <1>4, <1>5 DEF moe_gateup_supports_k, DownKSteps, KSteps

LEMMA EvenSlabs ==
  ASSUME NEW K \in Nat, K % 256 = 0
  PROVE  K \div 128 \in Nat /\ 2 * ((K \div 128) \div 2) = K \div 128
<1>1. PICK q \in Nat : K = 256 * q
  <2>1. K = (K \div 256) * 256 + (K % 256) /\ K \div 256 \in Nat
    BY Quotient, 256 \in Nat \ {0}
  <2>2. QED
    BY <2>1
<1>2. K \div 128 = 2 * q
  BY <1>1
<1>3. (2 * q) \div 2 = q
  BY <1>1
<1>4. QED
  BY <1>1, <1>2, <1>3

LEMMA GateUpHas ==
  ASSUME Launched, call.kernel = "gateup"
  PROVE  /\ GateUpCall(Grans, B_OPS, Slabs) /\ Grans \in Nat /\ B_OPS \in Nat /\ Slabs \in Nat
         /\ Nt \in 1 .. 3 /\ (call.bm = 1 => Nt = 1) /\ (call.situ => Nt <= 2)
<1>1. /\ call.K \in Nat /\ call.situ \in BOOLEAN /\ call.N \in Nat /\ call.bm \in 1 .. 3 /\ call.K % 256 = 0
      /\ call \in Arguments
  BY LaunchedHas, CallsAssumption DEF Launched
<1>2. Nt = GateUpNt(call.bm, call.situ, call.N)
  BY <1>1 DEF Nt, NtOf
<1>3. Nt \in 1 .. 3 /\ (call.bm = 1 => Nt = 1) /\ (call.situ => Nt <= 2)
  BY <1>1, <1>2, GateUpWidth
<1>4. KSteps \in Nat /\ Slabs = KSteps
  BY <1>1, EvenSlabs DEF KSteps, Slabs
<1>5. Grans \in Nat /\ B_OPS \in Nat
  BY <1>1, <1>3 DEF Grans, B_OPS
<1>6. Waves = 0 .. NumWaves - 1 /\ Waves \subseteq WaveIds /\ Waves # {}
  <2>1. NumWaves \in Nat \ {0}
    BY MoeGridAssumption
  <2>2. Waves = 0 .. NumWaves - 1
    BY DEF Waves, WavesOf
  <2>3. 0 \in Waves
    BY <2>1, <2>2
  <2>4. \A w \in 0 .. NumWaves - 1 : w \in 0 .. 2 * NumWaves - 1
    BY <2>1
  <2>5. QED
    BY <2>2, <2>3, <2>4 DEF WaveIds, MaxWaves
<1>7. ASSUME call.situ, NEW w \in Waves, ~IsGate(w) PROVE Partner(w) \in Waves /\ IsGate(Partner(w))
  <2>1. NumWaves \in Nat \ {0} /\ NumWaves % 2 = 0
    BY MoeGridAssumption
  <2>2. PICK h \in Nat : NumWaves = 2 * h /\ h = NumWaves \div 2
    <3>1. NumWaves = (NumWaves \div 2) * 2 + (NumWaves % 2) /\ NumWaves \div 2 \in Nat
      BY <2>1, Quotient, 2 \in Nat \ {0}
    <3>2. QED
      BY <2>1, <3>1
  <2>3. WavesPerProj(call.situ) = h
    BY <1>7, <2>2 DEF WavesPerProj
  <2>4. w \in 0 .. 2 * h - 1 /\ ~(w < h)
    BY <1>6, <1>7, <2>2, <2>3 DEF IsGate
  <2>5. w - h \in 0 .. 2 * h - 1 /\ w - h < h
    BY <2>4
  <2>6. Partner(w) = w - h
    BY <2>3 DEF Partner
  <2>7. QED
    BY <1>6, <2>2, <2>3, <2>5, <2>6 DEF IsGate
<1>8. QED
  BY <1>1, <1>3, <1>4, <1>5, <1>6, <1>7 DEF GateUpCall

LEMMA DownHas ==
  ASSUME Launched, call.kernel = "down"
  PROVE  /\ DownCall(KSteps, SLOT_OPS, Batches, steps)
         /\ SLOT_OPS \in Nat /\ call.bm \in {1, 2, 4} /\ KSteps \in {3, 4, 6} /\ (call.bm = 4 => KSteps = 3)
         /\ nt_for(call.bm, Nt) \in {1, 2} /\ (call.bm > 1 => nt_for(call.bm, Nt) = 2)
<1>1. call.bm \in {1, 2, 4} /\ KSteps \in {3, 4, 6} /\ (call.bm = 4 => KSteps = 3)
  BY LaunchedHas
<1>2. nt_for(call.bm, Nt) \in {1, 2} /\ (call.bm > 1 => nt_for(call.bm, Nt) = 2)
  BY <1>1 DEF nt_for
<1>3. SLOT_OPS \in Nat
  BY <1>2 DEF SLOT_OPS
<1>4. GransPerThread \in {3, 4, 6, 8, 12}
  BY <1>1 DEF GransPerThread
<1>5. /\ GransPerThread = 3 => PerBatch = 3 /\ Batches = 1
      /\ GransPerThread = 4 => PerBatch = 4 /\ Batches = 1
      /\ GransPerThread = 6 => PerBatch = 3 /\ Batches = 2
      /\ GransPerThread = 8 => PerBatch = 4 /\ Batches = 2
      /\ GransPerThread = 12 => PerBatch = 4 /\ Batches = 3
  BY SMTT(30) DEF PerBatch, Batches
<1>6. PerBatch \in Nat /\ Batches \in 1 .. 3
  BY <1>4, <1>5
<1>7. Waves \subseteq WaveIds
  BY <1>1, MoeGridAssumption DEF Waves, WavesOf, WaveIds, MaxWaves, DownWaves
<1>8. QED
  BY <1>1, <1>2, <1>3, <1>6, <1>7 DEF DownCall

LEMMA ShapeHas == Launched => ShapeOf \in Shapes
<1> SUFFICES ASSUME Launched PROVE ShapeOf \in Shapes
  OBVIOUS
<1>1. CASE call.kernel = "gateup"
  <2>1. /\ call.bm \in 1 .. 3 /\ call.situ \in BOOLEAN
        /\ Nt \in 1 .. 3 /\ (call.bm = 1 => Nt = 1) /\ (call.situ => Nt <= 2)
    BY <1>1, GateUpHas, LaunchedHas
  <2> DEFINE gateup == {x \in (1 .. 3) \X (1 .. 3) \X BOOLEAN : (x[1] = 1 => x[2] = 1) /\ (x[3] => x[2] <= 2)}
  <2>2. ShapeOf = Shape("gateup", call.bm, Nt, 1, call.situ)
    BY <1>1 DEF ShapeOf
  <2>3. PICK x \in gateup : x = <<call.bm, Nt, call.situ>>
    BY <2>1
  <2>4. Shape("gateup", x[1], x[2], 1, x[3]) \in Shapes
    BY DEF Shapes
  <2>5. QED
    BY <2>2, <2>3, <2>4
<1>2. CASE call.kernel = "down"
  <2>1. /\ call.bm \in {1, 2, 4} /\ KSteps \in {3, 4, 6} /\ (call.bm = 4 => KSteps = 3)
        /\ nt_for(call.bm, Nt) \in {1, 2} /\ (call.bm > 1 => nt_for(call.bm, Nt) = 2)
    BY <1>2, DownHas
  <2> DEFINE down == {x \in {1, 2, 4} \X {1, 2} \X {3, 4, 6} : (x[1] > 1 => x[2] = 2) /\ (x[1] = 4 => x[3] = 3)}
  <2>2. ShapeOf = Shape("down", call.bm, nt_for(call.bm, Nt), KSteps, FALSE)
    BY <1>2 DEF ShapeOf
  <2>3. PICK x \in down : x = <<call.bm, nt_for(call.bm, Nt), KSteps>>
    BY <2>1
  <2>4. Shape("down", x[1], x[2], x[3], FALSE) \in Shapes
    BY DEF Shapes
  <2>5. QED
    BY <2>2, <2>3, <2>4
<1>3. QED
  BY <1>1, <1>2, LaunchedHas

LEMMA StepsAreFinite ==
  ASSUME NEW job, Sound(job), NEW cta
  PROVE  Cardinality(Begins(job, cta)) \in Nat
<1>1. PICK bn \in Nat \ {0}, N \in Nat : bn = BN(job) /\ N = job.N
  <2>1. Tiles(job) * Tile \in Nat \ {0}
    BY ProductIsNat, MoeGridAssumption DEF Sound
  <2>2. ColumnWaves(job) * (Tiles(job) * Tile) \in Nat \ {0}
    BY <2>1, ProductIsNat DEF Sound
  <2>3. QED
    BY <2>2 DEF Sound
<1>2. PICK total \in Nat : total = Ceil(N, bn)
  BY CeilOf
<1>3. Chunk(job) \in Int
  BY <1>1, <1>2 DEF Chunk, Sound
<1> DEFINE all == 0 .. Chunk(job) - 1
           first == pid_n(job, cta) * Chunk(job) * BN(job)
           f == [i \in all |-> first + i * BN(job)]
           image == {f[i] : i \in all}
<1>4. IsFiniteSet(all)
  BY <1>3, FS_Interval
<1>5. f \in [all -> image]
  OBVIOUS
<1>6. \A y \in image : \E i \in all : f[i] = y
  OBVIOUS
<1>7. f \in Surjection(all, image)
  BY <1>5, <1>6 DEF Surjection
<1>10. \A S, T : \A g \in Surjection(S, T) : IsFiniteSet(S) => IsFiniteSet(T)
  BY FS_Surjection, Zenon
<1> HIDE DEF all, image, f
<1>8. IsFiniteSet(image)
  BY <1>4, <1>7, <1>10, Zenon
<1>9. Begins(job, cta) \subseteq image
  BY DEF Begins, image, f, all
<1>11. QED
  BY <1>8, <1>9, FS_Subset, FS_CardinalityType

-----------------------------------------------------------------------------
(* Where all of a workgroup's waves stand: between the same two barriers.  *)
GateUpRunning(g, b, s) ==
  /\ GateUpCall(g, b, s)
  /\ \E x : \A w \in Waves : \E p, n :
       at[w] = [part |-> p, n |-> n] /\ GateUpAt(w, p, n, g, b, s) /\ GateUpRound(p, s) = x

DownRunning(k, o, c, t) ==
  /\ DownCall(k, o, c, t)
  /\ IF t = 0 THEN \A w \in Waves : at[w] = Start(End)
     ELSE \E x : \A w \in Waves : \E p, n :
            at[w] = [part |-> p, n |-> n] /\ DownAt(w, p, n, k, o, c, t) /\ DownRound(p) = x

LEMMA GateUpCallKept ==
  ASSUME NEW g, NEW b, NEW s, GateUpCall(g, b, s), call' = call
  PROVE  GateUpCall(g, b, s)' /\ Waves' = Waves
BY DEF GateUpCall, Grans, B_OPS, Nt, NtOf, Slabs, KSteps, Waves, WavesOf, IsGate, Partner

LEMMA DownCallKept ==
  ASSUME NEW k, NEW o, NEW c, NEW t, DownCall(k, o, c, t), UNCHANGED <<call, steps>>
  PROVE  DownCall(k, o, c, t)' /\ Waves' = Waves
BY DEF DownCall, KSteps, SLOT_OPS, Batches, PerBatch, GransPerThread, Nt, NtOf, Waves, WavesOf

(* In slab i's round every wave has published its rows of slab i.          *)
LEMMA SlabRound ==
  ASSUME NEW g \in Nat, NEW b \in Nat, NEW s \in Nat, GateUpCall(g, b, s), NEW u \in Waves, NEW q, NEW m,
         GateUpAt(u, q, m, g, b, s), NEW i \in 0 .. s - 1, GateUpRound(q, s) = i + 1
  PROVE  lds[i % 2][u] = i
<1>1. CASE q = Part("prime", 0, 0)
  BY <1>1 DEF GateUpRound, Part
<1>2. CASE \E j \in 0 .. s - 1 : q = Part("slab", j, 0) /\ SlabAt(u, j, m, g, b)
  <2>1. PICK j \in 0 .. s - 1 : q = Part("slab", j, 0) /\ SlabAt(u, j, m, g, b)
    BY <1>2
  <2>2. j = i
    BY <2>1 DEF GateUpRound, Part
  <2>3. QED
    BY <2>1, <2>2 DEF SlabAt
<1>3. CASE q = Part("drain", s, 0) \/ q = Part("gate", 0, 0) \/ q = Part("glu", 0, 0) \/ q = End
  BY <1>3 DEF GateUpRound, Part, End
<1>4. QED
  BY <1>1, <1>2, <1>3 DEF GateUpAt

LEMMA GateUpRuns ==
  ASSUME Sorts, NEW g \in Nat, NEW b \in Nat, NEW s \in Nat, GateUpRunning(g, b, s), call' = call,
         NEW w \in Waves, Run(w)
  PROVE  Sorts' /\ GateUpRunning(g, b, s)' /\ \A u \in WaveIds \ {w} : Same(u)
<1>1. PICK x : \A u \in Waves : \E p, n :
        at[u] = [part |-> p, n |-> n] /\ GateUpAt(u, p, n, g, b, s) /\ GateUpRound(p, s) = x
  BY DEF GateUpRunning
<1>2. GateUpCall(g, b, s) /\ GateUpCall(g, b, s)' /\ Waves' = Waves
  BY GateUpCallKept DEF GateUpRunning
<1>3. PICK p, n : at[w] = [part |-> p, n |-> n] /\ GateUpAt(w, p, n, g, b, s) /\ GateUpRound(p, s) = x
  BY <1>1
<1>4. ASSUME NEW i \in 0 .. s - 1, p = Part("slab", i, 0), NEW u \in Waves PROVE lds[i % 2][u] = i
  <2>1. x = i + 1
    BY <1>3, <1>4 DEF GateUpRound, Part
  <2>2. PICK q, m : GateUpAt(u, q, m, g, b, s) /\ GateUpRound(q, s) = x
    BY <1>1
  <2>3. QED
    BY <1>2, <2>1, <2>2, SlabRound
<1>5. GateUpGoes(w, p, g, b, s) /\ p # End
  BY <1>2, <1>3, <1>4, GateUpStep
<1>6. \A u \in Waves' : \E q, m :
        at'[u] = [part |-> q, n |-> m] /\ GateUpAt(u, q, m, g, b, s)' /\ GateUpRound(q, s) = x
  <2>1. SUFFICES ASSUME NEW u \in Waves PROVE \E q, m :
          at'[u] = [part |-> q, n |-> m] /\ GateUpAt(u, q, m, g, b, s)' /\ GateUpRound(q, s) = x
    BY <1>2
  <2>2. CASE u = w
    BY <1>3, <1>5, <2>2 DEF GateUpGoes
  <2>3. CASE u # w
    <3>1. PICK q, m : at[u] = [part |-> q, n |-> m] /\ GateUpAt(u, q, m, g, b, s) /\ GateUpRound(q, s) = x
      BY <1>1
    <3>2. Spares(w, p)
      BY <1>5 DEF GateUpGoes
    <3>3. GateUpAt(u, q, m, g, b, s)'
      BY <1>2, <1>3, <1>5, <2>3, <3>1, <3>2, GateUpKept
    <3>4. u \in WaveIds
      BY <1>2 DEF GateUpCall
    <3>5. at'[u] = at[u]
      BY <2>3, <3>2, <3>4 DEF Spares, Same
    <3>6. QED
      BY <3>1, <3>3, <3>5
  <2>4. QED
    BY <2>2, <2>3
<1>7. GateUpRound(End, s)' = GateUpRound(End, s)
  BY DEF GateUpRound
<1>8. \A q : GateUpRound(q, s)' = GateUpRound(q, s)
  BY DEF GateUpRound
<1>9. GateUpRunning(g, b, s)'
  BY <1>2, <1>6, <1>8 DEF GateUpRunning
<1>10. QED
  BY <1>5, <1>9 DEF GateUpGoes, Spares

LEMMA GateUpCrosses ==
  ASSUME Sorts, NEW g \in Nat, NEW b \in Nat, NEW s \in Nat, GateUpRunning(g, b, s), Barrier
  PROVE  Sorts' /\ GateUpRunning(g, b, s)' /\ \A u \in WaveIds \ Waves : at'[u] = at[u]
<1>1. PICK x : \A u \in Waves : \E p, n :
        at[u] = [part |-> p, n |-> n] /\ GateUpAt(u, p, n, g, b, s) /\ GateUpRound(p, s) = x
  BY DEF GateUpRunning
<1>2. UNCHANGED <<call, memory, lds, gate, sum>> /\ UNCHANGED <<issued, landed, load>>
  BY DEF Barrier, memory
<1>3. /\ \A w \in Waves : At(w, "barrier")
      /\ at' = [w \in WaveIds |-> IF w \in Waves THEN Following(w) ELSE at[w]]
  BY DEF Barrier
<1>4. GateUpCall(g, b, s) /\ GateUpCall(g, b, s)' /\ Waves' = Waves /\ Waves \subseteq WaveIds
  BY <1>2, GateUpCallKept DEF GateUpRunning, GateUpCall
<1>5. Sorts'
  BY <1>2, <1>3, Zenon DEF Sorts
<1>6. ASSUME NEW w \in Waves
      PROVE \E q, m : at'[w] = [part |-> q, n |-> m] /\ GateUpAt(w, q, m, g, b, s)' /\ GateUpRound(q, s) = x + 1
  <2>1. PICK p, n : at[w] = [part |-> p, n |-> n] /\ GateUpAt(w, p, n, g, b, s) /\ GateUpRound(p, s) = x
    BY <1>1
  <2>2. ASSUME p.name = "gate", ~IsGate(w) PROVE Handed(Partner(w), s)
    <3>1. p = Part("gate", 0, 0) /\ call.situ
      BY <2>1, <2>2 DEF GateUpAt, Part, End
    <3>2. x = s + 2
      BY <2>1, <3>1 DEF GateUpRound, Part
    <3> DEFINE v == Partner(w)
    <3>3. v \in Waves /\ IsGate(v)
      BY <1>4, <2>2, <3>1 DEF GateUpCall
    <3>4. PICK q, m : at[v] = [part |-> q, n |-> m] /\ GateUpAt(v, q, m, g, b, s) /\ GateUpRound(q, s) = x
      BY <1>1, <3>3
    <3> HIDE DEF v
    <3>5. q = Part("gate", 0, 0)
      BY <3>1, <3>2, <3>4 DEF GateUpAt, GateUpRound, Part, End
    <3>6. m = 1 \/ Handed(v, s)
      BY <3>3, <3>4, <3>5 DEF GateUpAt, Part, End
    <3>7. ASSUME m = 1 PROVE FALSE
      <4>1. Code(v, q) = <<Do("gate"), Do("barrier")>>
        BY <1>4, <3>3, <3>5, Zenon DEF Code, GateUpCode, Part, GateUpCall
      <4>2. Now(v) = Do("gate")
        BY <3>4, <3>7, <4>1 DEF Now
      <4>3. QED
        BY <1>3, <3>3, <4>2 DEF At, Do
    <3>8. QED
      BY <3>6, <3>7 DEF v
  <2>3. \E q, m : /\ Following(w) = [part |-> q, n |-> m] /\ GateUpAt(w, q, m, g, b, s)'
                  /\ GateUpRound(q, s) = GateUpRound(p, s) + 1
    BY <1>2, <1>3, <1>4, <2>1, <2>2, GateUpBarrier
  <2>4. at'[w] = Following(w)
    BY <1>3, <1>4
  <2>5. QED
    BY <2>1, <2>3, <2>4
<1>7. \A q : GateUpRound(q, s)' = GateUpRound(q, s)
  BY <1>2 DEF GateUpRound
<1>8. GateUpRunning(g, b, s)'
  BY <1>4, <1>6, <1>7 DEF GateUpRunning
<1>9. QED
  BY <1>3, <1>4, <1>5, <1>8

LEMMA DownRuns ==
  ASSUME Sorts, NEW k, NEW o \in Nat, NEW c, NEW t \in Nat, DownRunning(k, o, c, t), UNCHANGED <<call, steps>>,
         NEW w \in Waves, Run(w)
  PROVE  Sorts' /\ DownRunning(k, o, c, t)' /\ \A u \in WaveIds \ {w} : Same(u)
<1>1. DownCall(k, o, c, t) /\ DownCall(k, o, c, t)' /\ Waves' = Waves /\ Waves \subseteq WaveIds
      /\ k \in 1 .. 6 /\ c \in 1 .. 3
  BY DownCallKept DEF DownRunning, DownCall
<1>2. t > 0
  <2>1. SUFFICES ASSUME t = 0 PROVE FALSE
    OBVIOUS
  <2>2. at[w].part = End
    BY <2>1 DEF DownRunning, Start
  <2>3. QED
    BY <2>2, Zenon DEF Run, At, Issue, wait_vmcnt, Publish, Multiply, Clear, PublishGate, TakeGate, StoreC
<1>10. t # 0
  BY <1>2
<1>3. PICK x : \A u \in Waves : \E p, n :
        at[u] = [part |-> p, n |-> n] /\ DownAt(u, p, n, k, o, c, t) /\ DownRound(p) = x
  BY <1>10, Zenon DEF DownRunning
<1>4. PICK p, n : at[w] = [part |-> p, n |-> n] /\ DownAt(w, p, n, k, o, c, t) /\ DownRound(p) = x
  BY <1>3
<1>5. ASSUME DownRound(p) = 1, NEW u \in Waves PROVE Written(u, c)
  <2>1. PICK q, m : DownAt(u, q, m, k, o, c, t) /\ DownRound(q) = 1
    BY <1>3, <1>4, <1>5
  <2>2. ASSUME q.name \in {"batch", "ring", "staged"} PROVE FALSE
    BY <2>1, <2>2 DEF DownRound
  <2>3. \/ \E i : q = Part("batch", i, 0)
        \/ \E i : q = Part("ring", 0, i)
        \/ q = Part("staged", 0, 0)
        \/ Written(u, c)
    BY <2>1, Zenon DEF DownAt
  <2>4. QED
    BY <2>2, <2>3 DEF Part
<1>6. DownGoes(w, p, k, o, c, t) /\ p # End
  BY <1>1, <1>4, <1>5, DownStep
<1>7. \A u \in Waves' : \E q, m :
        at'[u] = [part |-> q, n |-> m] /\ DownAt(u, q, m, k, o, c, t)' /\ DownRound(q) = x
  <2>1. SUFFICES ASSUME NEW u \in Waves PROVE \E q, m :
          at'[u] = [part |-> q, n |-> m] /\ DownAt(u, q, m, k, o, c, t)' /\ DownRound(q) = x
    BY <1>1
  <2>2. CASE u = w
    BY <1>4, <1>6, <2>2 DEF DownGoes
  <2>3. CASE u # w
    <3>1. PICK q, m : at[u] = [part |-> q, n |-> m] /\ DownAt(u, q, m, k, o, c, t) /\ DownRound(q) = x
      BY <1>3
    <3>2. Same(u) /\ \A y \in Slots : lds'[y][u] = lds[y][u]
      BY <1>1, <1>6, <2>3 DEF DownGoes, Apart
    <3>3. Still(u) /\ sum'[u] = sum[u] /\ at'[u] = at[u]
      BY <3>2, SameKeeps DEF Still, Same
    <3>4. DownAt(u, q, m, k, o, c, t)'
      BY <1>1, <3>1, <3>2, <3>3, DownStays
    <3>5. QED
      BY <3>1, <3>3, <3>4
  <2>4. QED
    BY <2>2, <2>3
<1>8. DownRunning(k, o, c, t)'
  BY <1>1, <1>7, <1>10, Zenon DEF DownRunning
<1>9. QED
  BY <1>6, <1>8 DEF DownGoes

LEMMA DownCrosses ==
  ASSUME Sorts, NEW k, NEW o \in Nat, NEW c, NEW t \in Nat, DownRunning(k, o, c, t), Barrier
  PROVE  Sorts' /\ DownRunning(k, o, c, t)' /\ \A u \in WaveIds \ Waves : at'[u] = at[u]
<1>1. UNCHANGED <<call, memory, lds, gate, sum>> /\ UNCHANGED <<issued, landed, load>> /\ steps' = steps
  BY DEF Barrier, memory
<1>2. /\ \A w \in Waves : At(w, "barrier")
      /\ at' = [w \in WaveIds |-> IF w \in Waves THEN Following(w) ELSE at[w]]
  BY DEF Barrier
<1>3. DownCall(k, o, c, t) /\ DownCall(k, o, c, t)' /\ Waves' = Waves /\ Waves \subseteq WaveIds
  BY <1>1, DownCallKept DEF DownRunning, DownCall
<1>4. Sorts'
  BY <1>1, <1>2, Zenon DEF Sorts
<1>5. CASE t = 0
  <2>1. \A w \in Waves : at[w] = Start(End)
    BY <1>5 DEF DownRunning
  <2>2. ASSUME NEW w \in Waves PROVE FALSE
    BY <1>2, <2>1 DEF At, Start
  <2>3. DownRunning(k, o, c, t)'
    BY <1>3, <1>5, <2>2 DEF DownRunning
  <2>4. QED
    BY <1>2, <1>4, <2>3
<1>6. CASE t > 0
  <2>1. PICK x : \A u \in Waves : \E p, n :
          at[u] = [part |-> p, n |-> n] /\ DownAt(u, p, n, k, o, c, t) /\ DownRound(p) = x
    BY <1>6 DEF DownRunning
  <2>2. ASSUME NEW w \in Waves
        PROVE \E q, m : at'[w] = [part |-> q, n |-> m] /\ DownAt(w, q, m, k, o, c, t)' /\ DownRound(q) = 1
    <3>1. PICK p, n : at[w] = [part |-> p, n |-> n] /\ DownAt(w, p, n, k, o, c, t)
      BY <2>1
    <3>2. \E q, m : Following(w) = [part |-> q, n |-> m] /\ DownAt(w, q, m, k, o, c, t)' /\ DownRound(q) = 1
      BY <1>1, <1>2, <1>3, <1>6, <3>1, DownBarrier
    <3>3. at'[w] = Following(w)
      BY <1>2, <1>3
    <3>4. QED
      BY <3>2, <3>3
  <2>3. t # 0
    BY <1>6
  <2>5. DownRunning(k, o, c, t)'
    BY <1>3, <2>2, <2>3, Zenon DEF DownRunning
  <2>4. QED
    BY <1>2, <1>3, <1>4, <2>5
<1>7. QED
  BY <1>5, <1>6

-----------------------------------------------------------------------------
(* The invariant: a running workgroup's waves stand between the same two   *)
(* barriers, each at an instruction that finds what it takes.              *)
Idle(w) == at[w] = Start(End)
Running ==
  /\ Launched /\ steps \in Nat
  /\ \A w \in WaveIds \ Waves : Idle(w)
  /\ call.kernel = "gateup" => \E g, b, s \in Nat : GateUpRunning(g, b, s)
  /\ call.kernel = "down" => \E k, o, c, t \in Nat : DownRunning(k, o, c, t)

InStep ==
  /\ Sorts
  /\ place # "load" => call \in Calls
  /\ place # "running" => sum = NoSums /\ \A w \in WaveIds : Idle(w)
  /\ place = "running" => Running

LEMMA InStepStarts == Init => InStep
<1> SUFFICES ASSUME Init PROVE InStep
  OBVIOUS
<1>1. Sorts
  BY DEF Init, Sorts, NoSums, Junk
<1>2. QED
  BY <1>1 DEF Init, InStep, Idle, NoSums

LEMMA IdleRests ==
  ASSUME NEW w, Idle(w)
  PROVE  ~Run(w) /\ ~At(w, "barrier")
<1>1. at[w].part = End
  BY DEF Idle, Start
<1>2. QED
  BY <1>1, Zenon DEF Run, At, Issue, wait_vmcnt, Publish, Multiply, Clear, PublishGate, TakeGate, StoreC

LEMMA LaunchedKept ==
  ASSUME Launched, call' = call
  PROVE  Launched' /\ Waves' = Waves
BY DEF Launched, Admits, Built, gateup_op, down_op, CheckCommon, Waves, WavesOf

LEMMA LaunchInStep ==
  ASSUME InStep, NEW cta, Launch(cta)
  PROVE  InStep'
<1>1. /\ place = "entry" /\ Admits(call) /\ Built(call) /\ call' = call /\ place' = "running"
      /\ UNCHANGED <<issued, landed, load, lds, gate, sum>>
      /\ steps' = Cardinality(Begins(Job(call), cta))
      /\ at' = [w \in WaveIds |-> Start(IF steps' > 0 /\ w \in Waves THEN First ELSE End)]
  BY DEF Launch, memory
<1>2. Launched /\ Sorts /\ sum = NoSums
  BY <1>1 DEF InStep, Launched
<1>3. Launched' /\ Waves' = Waves
  BY <1>1, <1>2, LaunchedKept
<1>4. steps' \in Nat
  BY <1>1, <1>2, JobSound, StepsAreFinite DEF Launched
<1>5. Sorts'
  BY <1>1, <1>2, Zenon DEF Sorts
<1>6. \A w \in WaveIds : sum'[w] = Pairs(0, 0)
  BY <1>1, <1>2 DEF NoSums, Pairs
<1>7. ASSUME call.kernel = "gateup" PROVE \E g, b, s \in Nat : GateUpRunning(g, b, s)'
  <2>1. \E g, b, s \in Nat : GateUpCall(g, b, s)
    BY <1>2, <1>7, GateUpHas
  <2>2. PICK g \in Nat, b \in Nat, s \in Nat : GateUpCall(g, b, s)
    BY <2>1
  <2>3. GateUpCall(g, b, s)' /\ Waves \subseteq WaveIds
    BY <1>1, <2>2, GateUpCallKept DEF GateUpCall
  <2>8. PICK p : p = IF steps' > 0 THEN Part("prime", 0, 0) ELSE End
    OBVIOUS
  <2>4. ASSUME NEW w \in Waves PROVE at'[w] = [part |-> p, n |-> 1] /\ GateUpAt(w, p, 1, g, b, s)'
    <3>1. at'[w] = [part |-> p, n |-> 1]
      BY <1>1, <1>7, <2>3, <2>8 DEF Start, First
    <3>2. PrimeAt(w, 1, g, b)'
      BY <1>6, <2>3 DEF PrimeAt, Pairs
    <3>3. QED
      BY <2>8, <3>1, <3>2 DEF GateUpAt
  <2>5. \E x : \A w \in Waves' : \E q, n :
          at'[w] = [part |-> q, n |-> n] /\ GateUpAt(w, q, n, g, b, s)' /\ GateUpRound(q, s)' = x
    <3>1. PICK x : x = GateUpRound(p, s)'
      OBVIOUS
    <3>2. \A w \in Waves' : \E q, n :
            at'[w] = [part |-> q, n |-> n] /\ GateUpAt(w, q, n, g, b, s)' /\ GateUpRound(q, s)' = x
      BY <1>3, <2>4, <3>1
    <3>3. QED
      BY <3>2
  <2>6. GateUpRunning(g, b, s)'
    BY <2>3, <2>5 DEF GateUpRunning
  <2>7. QED
    BY <2>6
<1>8. ASSUME call.kernel = "down" PROVE \E k, o, c, t \in Nat : DownRunning(k, o, c, t)'
  <2>1. \E k, o, c \in Nat : DownCall(k, o, c, steps)
    BY <1>2, <1>8, DownHas DEF DownCall
  <2>2. PICK k \in Nat, o \in Nat, c \in Nat : DownCall(k, o, c, steps)
    BY <2>1
  <2>3. PICK t \in Nat : t = steps'
    BY <1>4
  <2>4. DownCall(k, o, c, t)' /\ Waves \subseteq WaveIds /\ k \in 1 .. 6 /\ c \in 1 .. 3
    BY <1>1, <2>2, <2>3 DEF DownCall, KSteps, SLOT_OPS, Batches, PerBatch, GransPerThread, Nt, NtOf, Waves, WavesOf
  <2>5. CASE t = 0
    <3>1. \A w \in Waves' : at'[w] = Start(End)
      BY <1>1, <1>3, <2>3, <2>4, <2>5
    <3>2. QED
      BY <2>4, <2>5, <3>1 DEF DownRunning
  <2>6. CASE t # 0
    <3>1. ASSUME NEW w \in Waves
          PROVE  at'[w] = [part |-> Part("batch", 0, 0), n |-> 1] /\ DownAt(w, Part("batch", 0, 0), 1, k, o, c, t)'
      <4>1. at'[w] = [part |-> Part("batch", 0, 0), n |-> 1]
        BY <1>1, <1>8, <2>3, <2>4, <2>6 DEF Start, First
      <4>2. BatchAt(w, 0, 1, c)'
        BY <2>4 DEF BatchAt, Written
      <4>3. QED
        BY <2>4, <4>1, <4>2 DEF DownAt
    <3>2. \E x : \A w \in Waves' : \E q, n :
            at'[w] = [part |-> q, n |-> n] /\ DownAt(w, q, n, k, o, c, t)' /\ DownRound(q) = x
      <4> WITNESS DownRound(Part("batch", 0, 0))
      <4> QED
        BY <1>3, <3>1
    <3>3. DownRunning(k, o, c, t)'
      BY <2>4, <2>6, <3>2, Zenon DEF DownRunning
    <3>4. QED
      BY <3>3
  <2>7. QED
    BY <2>5, <2>6
<1>9. \A w \in WaveIds' \ Waves' : Idle(w)'
  BY <1>1, <1>3 DEF Idle, WaveIds
<1>10. Running'
  BY <1>1, <1>3, <1>4, <1>7, <1>8, <1>9, Zenon DEF Running
<1>11. QED
  BY <1>1, <1>5, <1>10 DEF InStep

LEMMA RunInStep ==
  ASSUME InStep, NEW w \in WaveIds, Run(w)
  PROVE  InStep'
<1>1. ~Idle(w) /\ place = "running" /\ Running /\ Sorts /\ w \in Waves
  BY IdleRests DEF InStep, Running
<1>2. UNCHANGED <<call, place, steps>>
  BY Zenon DEF Run, Issue, wait_vmcnt, Publish, Multiply, Clear, PublishGate, TakeGate, StoreC
<1>3. Launched' /\ Waves' = Waves /\ call.kernel \in {"gateup", "down"}
  BY <1>1, <1>2, LaunchedKept, LaunchedHas DEF Running
<1>4. CASE call.kernel = "gateup"
  <2>1. PICK g \in Nat, b \in Nat, s \in Nat : GateUpRunning(g, b, s)
    BY <1>1, <1>4 DEF Running
  <2>2. Sorts' /\ GateUpRunning(g, b, s)' /\ \A u \in WaveIds \ {w} : Same(u)
    BY <1>1, <1>2, <2>1, GateUpRuns
  <2>3. \A u \in WaveIds \ Waves : Idle(u)'
    BY <1>1, <2>2 DEF Running, Idle, Same
  <2>4. Running'
    BY <1>1, <1>2, <1>3, <1>4, <2>2, <2>3 DEF Running
  <2>5. QED
    BY <1>1, <1>2, <2>2, <2>4 DEF InStep
<1>5. CASE call.kernel = "down"
  <2>1. PICK k \in Nat, o \in Nat, c \in Nat, t \in Nat : DownRunning(k, o, c, t)
    BY <1>1, <1>5 DEF Running
  <2>2. Sorts' /\ DownRunning(k, o, c, t)' /\ \A u \in WaveIds \ {w} : Same(u)
    BY <1>1, <1>2, <2>1, DownRuns
  <2>3. \A u \in WaveIds \ Waves : Idle(u)'
    BY <1>1, <2>2 DEF Running, Idle, Same
  <2>4. Running'
    BY <1>1, <1>2, <1>3, <1>5, <2>2, <2>3 DEF Running
  <2>5. QED
    BY <1>1, <1>2, <2>2, <2>4 DEF InStep
<1>6. QED
  BY <1>3, <1>4, <1>5

LEMMA BarrierInStep ==
  ASSUME InStep, place = "running", Barrier
  PROVE  InStep'
<1>1. Running /\ Sorts
  BY DEF InStep
<1>2. UNCHANGED <<call, place, steps>>
  BY DEF Barrier
<1>3. Launched' /\ Waves' = Waves /\ call.kernel \in {"gateup", "down"}
  BY <1>1, <1>2, LaunchedKept, LaunchedHas DEF Running
<1>4. ASSUME Sorts', \A u \in WaveIds \ Waves : at'[u] = at[u],
             \/ call.kernel = "gateup" /\ \E g, b, s \in Nat : GateUpRunning(g, b, s)'
             \/ call.kernel = "down" /\ \E k, o, c, t \in Nat : DownRunning(k, o, c, t)'
      PROVE  InStep'
  <2>1. \A u \in WaveIds \ Waves : Idle(u)'
    BY <1>1, <1>4 DEF Running, Idle
  <2>2. Running'
    BY <1>1, <1>2, <1>3, <1>4, <2>1 DEF Running
  <2>3. QED
    BY <1>1, <1>2, <1>4, <2>2 DEF InStep
<1>5. CASE call.kernel = "gateup"
  <2>1. PICK g \in Nat, b \in Nat, s \in Nat : GateUpRunning(g, b, s)
    BY <1>1, <1>5 DEF Running
  <2>2. Sorts' /\ GateUpRunning(g, b, s)' /\ \A u \in WaveIds \ Waves : at'[u] = at[u]
    BY <1>1, <2>1, GateUpCrosses
  <2>3. \E i, j, m \in Nat : GateUpRunning(i, j, m)'
    BY <2>2, Zenon
  <2>4. QED
    BY <1>4, <1>5, <2>2, <2>3
<1>6. CASE call.kernel = "down"
  <2>1. PICK k \in Nat, o \in Nat, c \in Nat, t \in Nat : DownRunning(k, o, c, t)
    BY <1>1, <1>6 DEF Running
  <2>2. Sorts' /\ DownRunning(k, o, c, t)' /\ \A u \in WaveIds \ Waves : at'[u] = at[u]
    BY <1>1, <2>1, DownCrosses
  <2>3. \E i, j, m, n \in Nat : DownRunning(i, j, m, n)'
    BY <2>2, Zenon
  <2>4. QED
    BY <1>4, <1>6, <2>2, <2>3
<1>7. QED
  BY <1>3, <1>5, <1>6

LEMMA InStepKeeps == InStep /\ [Next]_vars => InStep'
<1> SUFFICES ASSUME InStep, [Next]_vars PROVE InStep'
  OBVIOUS
<1>1. ASSUME UNCHANGED <<issued, landed, load, lds, gate, sum, at>>, place # "running", place' # "running", call' \in Calls
      PROVE  InStep'
  <2>1. Sorts'
    BY <1>1, Zenon DEF InStep, Sorts
  <2>2. QED
    BY <1>1, <2>1, Zenon DEF InStep, Idle, NoSums, Start
<1>2. CASE Enter
  BY <1>1, <1>2 DEF Enter, kernel, memory
<1>3. CASE Raise \/ LaunchNothing
  BY <1>1, <1>3 DEF Raise, LaunchNothing, kernel, memory, InStep
<1>4. ASSUME NEW cta, Launch(cta) PROVE InStep'
  BY <1>4, LaunchInStep
<1>5. ASSUME NEW w \in WaveIds, Run(w) PROVE InStep'
  BY <1>5, RunInStep
<1>6. CASE place = "running" /\ Barrier
  BY <1>6, BarrierInStep
<1>7. CASE UNCHANGED vars
  <2>1. UNCHANGED <<call, place, steps, at, issued, landed, load, lds, gate, sum>>
    BY <1>7 DEF vars, memory
  <2>2. Sorts'
    BY <2>1, Zenon DEF InStep, Sorts
  <2>4. \A w : Still(w)
    BY <2>1, StillIs DEF memory
  <2>3. ASSUME Running PROVE Running'
    <3>1. Launched' /\ Waves' = Waves
      BY <2>1, <2>3, LaunchedKept DEF Running
    <3>2. ASSUME NEW g \in Nat, NEW b \in Nat, NEW s \in Nat, GateUpRunning(g, b, s) PROVE GateUpRunning(g, b, s)'
      <4>1. GateUpCall(g, b, s)'
        BY <2>1, <3>2, GateUpCallKept DEF GateUpRunning
      <4>2. PICK x : \A w \in Waves : \E p, n :
              at[w] = [part |-> p, n |-> n] /\ GateUpAt(w, p, n, g, b, s) /\ GateUpRound(p, s) = x
        BY <3>2 DEF GateUpRunning
      <4>3. \A q : GateUpRound(q, s)' = GateUpRound(q, s)
        BY <2>1 DEF GateUpRound
      <4>4. ASSUME NEW w \in Waves
            PROVE  \E p, n : at'[w] = [part |-> p, n |-> n] /\ GateUpAt(w, p, n, g, b, s)' /\ GateUpRound(p, s)' = x
        <5>1. PICK p, n : at[w] = [part |-> p, n |-> n] /\ GateUpAt(w, p, n, g, b, s) /\ GateUpRound(p, s) = x
          BY <4>2
        <5>2. GateUpAt(w, p, n, g, b, s)'
          BY <2>1, <2>4, <3>2, <5>1, GateUpStays DEF GateUpRunning
        <5>3. QED
          BY <2>1, <4>3, <5>1, <5>2
      <4>5. QED
        BY <3>1, <4>1, <4>4 DEF GateUpRunning
    <3>3. ASSUME NEW k, NEW o \in Nat, NEW c, NEW t \in Nat, DownRunning(k, o, c, t) PROVE DownRunning(k, o, c, t)'
      <4>1. DownCall(k, o, c, t) /\ DownCall(k, o, c, t)' /\ k \in 1 .. 6 /\ c \in 1 .. 3
        BY <2>1, <3>3, DownCallKept DEF DownRunning, DownCall
      <4>2. CASE t = 0
        BY <2>1, <3>1, <3>3, <4>1, <4>2 DEF DownRunning
      <4>3. CASE t # 0
        <5>1. PICK x : \A w \in Waves : \E p, n :
                at[w] = [part |-> p, n |-> n] /\ DownAt(w, p, n, k, o, c, t) /\ DownRound(p) = x
          BY <3>3, <4>3, Zenon DEF DownRunning
        <5>2. ASSUME NEW w \in Waves
              PROVE  \E p, n : at'[w] = [part |-> p, n |-> n] /\ DownAt(w, p, n, k, o, c, t)' /\ DownRound(p) = x
          <6>1. PICK p, n : at[w] = [part |-> p, n |-> n] /\ DownAt(w, p, n, k, o, c, t) /\ DownRound(p) = x
            BY <5>1
          <6>2. DownAt(w, p, n, k, o, c, t)'
            BY <2>1, <2>4, <4>1, <6>1, DownStays
          <6>3. QED
            BY <2>1, <6>1, <6>2
        <5>3. QED
          BY <3>1, <4>1, <4>3, <5>2, Zenon DEF DownRunning
      <4>4. QED
        BY <4>2, <4>3
    <3>4. call.kernel = "gateup" => \E g, b, s \in Nat : GateUpRunning(g, b, s)'
      BY <2>3, <3>2 DEF Running
    <3>5. call.kernel = "down" => \E k, o, c, t \in Nat : DownRunning(k, o, c, t)'
      BY <2>3, <3>3 DEF Running
    <3>6. \A w \in WaveIds' \ Waves' : Idle(w)'
      BY <2>1, <2>3, <3>1 DEF Running, Idle, WaveIds
    <3>7. QED
      BY <2>1, <2>3, <3>1, <3>4, <3>5, <3>6 DEF Running
  <2>9. QED
    BY <2>1, <2>2, <2>3 DEF InStep, Idle
<1>8. QED
  BY <1>2, <1>3, <1>4, <1>5, <1>6, <1>7 DEF Next, Done

(* Where the invariant holds, a wave that stores has all of its sum.       *)
LEMMA FullSumOf ==
  ASSUME InStep, NEW w \in WaveIds, At(w, "store")
  PROVE  sum[w] = FullSum(w) /\ ShapeOf \in Shapes
<1>1. ~Idle(w)
  BY DEF At, Idle, Start
<1>2. place = "running" /\ Running /\ Launched /\ w \in Waves
  BY <1>1 DEF InStep, Running
<1>3. CASE call.kernel = "gateup"
  <2>1. PICK g \in Nat, b \in Nat, s \in Nat : GateUpRunning(g, b, s)
    BY <1>2, <1>3 DEF Running
  <2>2. PICK p, n : at[w] = [part |-> p, n |-> n] /\ GateUpAt(w, p, n, g, b, s)
    BY <1>2, <2>1 DEF GateUpRunning
  <2>3. s = KSteps /\ Code(w, p) = GateUpCode(w, p)
    BY <1>3, <2>1 DEF GateUpRunning, GateUpCall, Code
  <2>4. p # End /\ Now(w) = GateUpCode(w, p)[n] /\ Now(w).op = "store"
    BY <2>2, <2>3 DEF At, Now
  <2>5. Full(w, s)
    <3>1. ASSUME p = Part("prime", 0, 0), PrimeAt(w, n, g, b) PROVE FALSE
      <4>1. GateUpCode(w, p) = Prime
        BY <3>1 DEF GateUpCode, Part
      <4>2. n \in 1 .. 7 /\ Prime[n].op = "store"
        BY <2>4, <3>1, <4>1 DEF PrimeAt
      <4>3. QED
        BY <4>2, PrimeCode DEF Load, Wait, WriteA, Do
    <3>2. ASSUME NEW i \in 0 .. s - 1, p = Part("slab", i, 0), SlabAt(w, i, n, g, b) PROVE FALSE
      <4>1. GateUpCode(w, p) = slab_body(i)
        BY <3>2 DEF GateUpCode, Part
      <4>2. n \in 1 .. 7 /\ slab_body(i)[n].op = "store"
        BY <2>4, <3>2, <4>1 DEF SlabAt
      <4>3. QED
        <5>1. i \in Nat
          OBVIOUS
        <5>2. slab_body(i)[n].op \in {"wait", "load", "mfma", "write_a", "barrier"}
          <6> DEFINE ops == {"wait", "load", "mfma", "write_a", "barrier"}
          <6>1. /\ \A x : Wait(x).op \in ops /\ Do("barrier").op \in ops
                /\ \A x, y : WriteA(x, y).op \in ops
                /\ \A x, y, z : Product(x, y, z).op \in ops
                /\ \A x : issue_a(x).op \in ops /\ issue_b(x).op \in ops
            BY DEF Load, Wait, WriteA, Product, Do, issue_a, issue_b
          <6> HIDE DEF ops
          <6>2. n = 1 \/ n = 2 \/ n = 3 \/ n = 4 \/ n = 5 \/ n = 6 \/ n = 7
            BY <4>2
          <6>3. slab_body(i)[1].op \in ops /\ slab_body(i)[7].op \in ops
            BY <5>1, <6>1, SlabCode
          <6>4. CASE Early
            <7>1. /\ slab_body(i)[2].op \in ops /\ slab_body(i)[3].op \in ops /\ slab_body(i)[4].op \in ops
                  /\ slab_body(i)[5].op \in ops /\ slab_body(i)[6].op \in ops
              <8>1. /\ slab_body(i)[2] = issue_a(i + 2) /\ slab_body(i)[3] = Product(B(i), {i % 2}, i)
                    /\ slab_body(i)[4] = Wait(B_OPS + Grans) /\ slab_body(i)[5] = WriteA(A(i + 1), (i + 1) % 2)
                    /\ slab_body(i)[6] = issue_b(i + 2)
                BY <5>1, <6>4, SlabCode
              <8>2. QED
                BY <6>1, <8>1, Zenon
            <7>2. QED
              BY <6>2, <6>3, <7>1, Zenon DEF ops
          <6>5. CASE ~Early
            <7>1. /\ slab_body(i)[2].op \in ops /\ slab_body(i)[3].op \in ops /\ slab_body(i)[4].op \in ops
                  /\ slab_body(i)[5].op \in ops /\ slab_body(i)[6].op \in ops
              BY <5>1, <6>1, <6>5, SlabCode
            <7>2. QED
              BY <6>2, <6>3, <7>1, Zenon DEF ops
          <6>6. QED
            BY <6>4, <6>5
        <5>3. QED
          BY <4>2, <5>2
    <3>3. QED
      BY <2>2, <2>4, <3>1, <3>2, Zenon DEF GateUpAt
  <2>6. QED
    BY <1>2, <1>3, <2>3, <2>5, ShapeHas DEF Full, Pairs, FullSum
<1>4. CASE call.kernel = "down"
  <2>1. PICK k \in Nat, o \in Nat, c \in Nat, t \in Nat : DownRunning(k, o, c, t)
    BY <1>2, <1>4 DEF Running
  <2>2. t # 0
    BY <1>1, <1>2, <2>1 DEF DownRunning, Idle
  <2>3. PICK p, n : at[w] = [part |-> p, n |-> n] /\ DownAt(w, p, n, k, o, c, t)
    BY <1>2, <2>1, <2>2, Zenon DEF DownRunning
  <2>4. k = KSteps /\ c = Batches /\ Code(w, p) = DownCode(p) /\ DownCall(k, o, c, t)
    BY <1>4, <2>1 DEF DownRunning, DownCall, Code
  <2>5. p # End /\ Now(w) = DownCode(p)[n] /\ Now(w).op = "store"
    BY <2>3, <2>4 DEF At, Now
  <2>6. \E i \in 0 .. t - 1 : p = Part("store", i, 0) /\ n = 1 /\ sum[w] = Pairs(i * k, k)
    <3>1. ASSUME NEW i \in 0 .. c - 1, p = Part("batch", i, 0), BatchAt(w, i, n, c) PROVE FALSE
      <4>1. DownCode(p) = batch(i)
        BY <3>1 DEF DownCode, Part
      <4>2. n \in 1 .. (IF i < c - 1 THEN 3 ELSE 1) /\ batch(i)[n].op = "store"
        BY <2>5, <3>1, <4>1 DEF BatchAt
      <4>3. QED
        BY <2>4, <4>2 DEF batch, Load, Wait, WriteA
    <3>2. ASSUME NEW ks, p = Part("ring", 0, ks), n = 1 PROVE FALSE
      <4>1. DownCode(p) = <<issue(0, ks)>>
        BY <3>2 DEF DownCode, Part
      <4>2. QED
        BY <2>5, <3>2, <4>1 DEF issue, Load
    <3>3. ASSUME p = Part("staged", 0, 0), StagedAt(w, n, k, o, c) PROVE FALSE
      <4>1. DownCode(p) = <<Wait(RING_OPS), WriteA("A0", Batches - 1), Do("barrier")>>
        BY <3>3 DEF DownCode, Part
      <4>2. n \in 1 .. 3
        BY <3>3 DEF StagedAt
      <4>3. QED
        BY <2>5, <4>1, <4>2 DEF Wait, WriteA, Do
    <3>4. ASSUME NEW i, p = Part("clear", i, 0), n = 1 PROVE FALSE
      <4>1. DownCode(p) = <<Do("clear")>>
        BY <3>4 DEF DownCode, Part
      <4>2. QED
        BY <2>5, <3>4, <4>1 DEF Do
    <3>5. ASSUME NEW i, NEW ks, p = Part("column", i, ks), ColumnAt(w, i, ks, n, k, o, t) PROVE FALSE
      <4>1. DownCode(p) = Column(i, ks)
        BY <3>5 DEF DownCode, Part
      <4>2. n \in 1 .. 3
        BY <3>5 DEF ColumnAt
      <4>3. QED
        BY <2>5, <4>1, <4>2 DEF Column, Wait, Product, issue, Load
    <3>6. ASSUME p = Part("drain", 0, 0), n = 1 PROVE FALSE
      <4>1. DownCode(p) = <<Wait(0)>>
        BY <3>6 DEF DownCode, Part
      <4>2. QED
        BY <2>5, <3>6, <4>1 DEF Wait
    <3>7. QED
      BY <2>3, <2>5, <3>1, <3>2, <3>3, <3>4, <3>5, <3>6, Zenon DEF DownAt
  <2>7. PICK i \in 0 .. t - 1 : p = Part("store", i, 0) /\ n = 1 /\ sum[w] = Pairs(i * k, k)
    BY <2>6
  <2>8. Now(w).step = i
    BY <2>5, <2>7 DEF DownCode, Part, Store
  <2>9. QED
    BY <1>2, <1>4, <2>4, <2>7, <2>8, ShapeHas DEF Pairs, FullSum
<1>5. QED
  BY <1>2, <1>3, <1>4, LaunchedHas

(* A wave stores the sum over all of K, the product of the right slabs of  *)
(* A and B at each step, for every call that the entry points let through, *)
(* every workgroup and every order of the waves between barriers.  That a  *)
(* slab's product is the product is a fact about the kernels' lanes at     *)
(* full size, which the hypothesis names and the run evaluates.            *)
THEOREM StoresFullSumHolds ==
  ASSUME SoundShapes = Shapes
  PROVE  Spec => []StoresFullSum
<1>1. Init => InStep
  BY InStepStarts
<1>2. InStep /\ [Next]_vars => InStep'
  BY InStepKeeps
<1>3. InStep => StoresFullSum
  BY FullSumOf DEF StoresFullSum
<1>4. QED
  BY <1>1, <1>2, <1>3, PTL DEF Spec

-----------------------------------------------------------------------------
(* Dequantisation: a word of eight nibbles, and its block's scale.         *)

(* A bf16's bytes.                                                         *)
LEMMA Bytes ==
  ASSUME NEW a \in Nat, a < 65536
  PROVE  /\ a \div 256 \in 0 .. 255 /\ a % 256 \in 0 .. 255 /\ (a \div 256) * 256 + (a % 256) = a
         /\ a \div 256 < 128 <=> a < 32768
<1>1. a \in Int /\ 256 \in Nat \ {0}
  OBVIOUS
<1>2. a \div 256 \in Nat /\ a % 256 \in 0 .. 255 /\ a = (a \div 256) * 256 + (a % 256)
  BY <1>1, Quotient
<1>3. PICK q \in Nat, r \in 0 .. 255 : q = a \div 256 /\ r = a % 256 /\ a = q * 256 + r
  BY <1>2
<1>4. QED
  BY <1>3

(* Words of any bytes.                                                     *)
Bytes4(w) == \E S : w \in Seq(S) /\ Len(w) = 4

LEMMA Concat ==
  ASSUME NEW S, NEW s \in Seq(S), NEW t \in Seq(S), NEW f, f = s \o t
  PROVE  /\ f \in Seq(S) /\ Len(f) = Len(s) + Len(t)
         /\ \A k \in 1 .. Len(s) + Len(t) : f[k] = IF k <= Len(s) THEN s[k] ELSE t[k - Len(s)]
BY ConcatProperties, Zenon

EightOf(f, s, t) ==
  /\ f = [m \in 1 .. 8 |-> f[m]]
  /\ f[1] = s[1] /\ f[2] = s[2] /\ f[3] = s[3] /\ f[4] = s[4]
  /\ f[5] = t[1] /\ f[6] = t[2] /\ f[7] = t[3] /\ f[8] = t[4]

LEMMA Eight ==
  ASSUME NEW U, NEW s \in Seq(U), NEW t \in Seq(U), NEW f \in Seq(U),
         Len(s) = 4, Len(t) = 4, Len(f) = Len(s) + Len(t),
         \A k \in 1 .. Len(s) + Len(t) : f[k] = IF k <= Len(s) THEN s[k] ELSE t[k - Len(s)]
  PROVE  EightOf(f, s, t)
BY DEF EightOf

LEMMA Joined ==
  ASSUME NEW s, NEW t, Bytes4(s), Bytes4(t), NEW f, f = s \o t
  PROVE  EightOf(f, s, t)
<1>1. PICK S : s \in Seq(S) /\ Len(s) = 4
  BY DEF Bytes4
<1>2. PICK R : t \in Seq(R) /\ Len(t) = 4
  BY DEF Bytes4
<1>3. s \in Seq(S \cup R) /\ t \in Seq(S \cup R)
  BY <1>1, <1>2
<1>4. PICK U : s \in Seq(U) /\ t \in Seq(U)
  BY <1>3
<1>5. /\ f \in Seq(U) /\ Len(f) = Len(s) + Len(t)
      /\ \A k \in 1 .. Len(s) + Len(t) : f[k] = IF k <= Len(s) THEN s[k] ELSE t[k - Len(s)]
  BY <1>4, Concat
<1>6. QED
  BY <1>1, <1>2, <1>4, <1>5, Eight, Zenon

LEMMA WordOf ==
  ASSUME NEW w, w = [i \in 1 .. 4 |-> w[i]]
  PROVE  Bytes4(w)
<1>1. w \in [1 .. 4 -> {w[i] : i \in 1 .. 4}]
  OBVIOUS
<1>2. PICK S : w \in [1 .. 4 -> S]
  BY <1>1
<1>3. w \in Seq(S) /\ Len(w) = 4
  BY <1>2
<1>4. QED
  BY <1>3 DEF Bytes4

LEMMA Four ==
  ASSUME NEW a, NEW b, NEW c, NEW d
  PROVE  Bytes4(<<a, b, c, d>>)
BY WordOf

(* A selector's byte: the second source's, then the first's.               *)
Selected(v, n, s0, s1) ==
  /\ n = 12 => v = 0
  /\ n = 0 => v = s1[1]
  /\ n = 1 => v = s1[2]
  /\ n = 2 => v = s1[3]
  /\ n = 3 => v = s1[4]
  /\ n = 4 => v = s0[1]
  /\ n = 5 => v = s0[2]
  /\ n = 6 => v = s0[3]
  /\ n = 7 => v = s0[4]

LEMMA PermOf ==
  ASSUME NEW s0, NEW s1, Bytes4(s0), Bytes4(s1), NEW sel, NEW i \in 1 .. 4, NEW v, v = vperm(s0, s1, sel)[i]
  PROVE  Selected(v, sel[i], s0, s1)
<1>1. PICK f : f = s1 \o s0
  OBVIOUS
<1>2. v = IF sel[i] = 12 THEN 0 ELSE f[(sel[i] % 8) + 1]
  BY <1>1 DEF vperm
<1>3. EightOf(f, s1, s0)
  BY <1>1, Joined, Zenon
<1>5. /\ 0 % 8 = 0 /\ 1 % 8 = 1 /\ 2 % 8 = 2 /\ 3 % 8 = 3
      /\ 4 % 8 = 4 /\ 5 % 8 = 5 /\ 6 % 8 = 6 /\ 7 % 8 = 7
  OBVIOUS
<1>6. PICK n, g : n = sel[i] /\ g = f
  OBVIOUS
<1>7. EightOf(g, s1, s0) /\ v = IF n = 12 THEN 0 ELSE g[(n % 8) + 1]
  BY <1>2, <1>3, <1>6
<1>8. Selected(v, n, s0, s1)
  BY <1>5, <1>7 DEF EightOf, Selected
<1>9. QED
  BY <1>6, <1>8

LEMMA PermIn ==
  ASSUME NEW s0, NEW s1, NEW sel
  PROVE  Bytes4(vperm(s0, s1, sel))
<1>1. PICK f : f = vperm(s0, s1, sel)
  OBVIOUS
<1>2. f = [i \in 1 .. 4 |-> f[i]]
  BY <1>1 DEF vperm
<1>3. QED
  BY <1>1, <1>2, WordOf

(* Both halves of a word after the exponent's packed add.                  *)
Added16(x, d) == (x + d) % 65536

HalfWord(w, x, y) ==
  /\ Bytes4(w)
  /\ w[1] = x % 256 /\ w[2] = x \div 256
  /\ w[3] = y % 256 /\ w[4] = y \div 256

LEMMA HalvesOf ==
  ASSUME NEW lo \in Int, NEW hi \in Int, NEW d \in Int, NEW w, w = Halves(lo, hi, d)
  PROVE  HalfWord(w, Added16(lo, d), Added16(hi, d))
<1>1. w = <<Added16(lo, d) % 256, Added16(lo, d) \div 256, Added16(hi, d) % 256, Added16(hi, d) \div 256>>
  BY DEF Halves, Added16
<1>2. QED
  BY <1>1, Four DEF HalfWord

(* The bf16 of an E2M1 magnitude: 0, 0.5, 1, 1.5, 2, 3, 4, 6.              *)
Magnitude(q, e) == IF q = 0 THEN 0 ELSE (E2M1Exponent(q) + e) * 128 + E2M1Fraction(q)

LEMMA Magnitudes ==
  ASSUME NEW e \in Int, 2 <= e, e <= 252
  PROVE  /\ Magnitude(0, e) = 0 /\ Magnitude(1, e) = e * 128 - 128 /\ Magnitude(2, e) = e * 128
         /\ Magnitude(3, e) = e * 128 + 64 /\ Magnitude(4, e) = e * 128 + 128
         /\ Magnitude(5, e) = e * 128 + 192 /\ Magnitude(6, e) = e * 128 + 256
         /\ Magnitude(7, e) = e * 128 + 320
BY SMT DEF Magnitude, E2M1Exponent, E2M1Fraction

LEMMA MagnitudeIn ==
  ASSUME NEW e \in Int, 2 <= e, e <= 252, NEW q \in 0 .. 7
  PROVE  Magnitude(q, e) \in Nat /\ Magnitude(q, e) < 32768
BY Magnitudes, q = 0 \/ q = 1 \/ q = 2 \/ q = 3 \/ q = 4 \/ q = 5 \/ q = 6 \/ q = 7

(* The four table words: high and low bytes of magnitudes 0 .. 3, 4 .. 7.  *)
LEMMA TableOf ==
  ASSUME NEW e \in Int, 2 <= e, e <= 252, NEW T, T = scaled_table(e)
  PROVE  /\ Bytes4(T.hi_lo) /\ Bytes4(T.hi_hi) /\ Bytes4(T.lo_lo) /\ Bytes4(T.lo_hi)
         /\ \A q \in 0 .. 3 : T.hi_lo[q + 1] = Magnitude(q, e) \div 256 /\ T.lo_lo[q + 1] = Magnitude(q, e) % 256
         /\ \A q \in 4 .. 7 : T.hi_hi[q - 3] = Magnitude(q, e) \div 256 /\ T.lo_hi[q - 3] = Magnitude(q, e) % 256
<1>1. PICK d \in Int : d = (e * 128) % 65536 /\ d = e * 128
  <2>1. e * 128 \in Nat /\ e * 128 < 65536
    OBVIOUS
  <2>2. \A x \in Nat : x < 65536 => x % 65536 = x
    OBVIOUS
  <2>3. QED
    BY <2>1, <2>2
<1>2. /\ Added16(65408, d) = Magnitude(1, e) /\ Added16(0, d) = Magnitude(2, e)
      /\ Added16(64, d) = Magnitude(3, e)
      /\ Added16(128, d) = Magnitude(4, e) /\ Added16(192, d) = Magnitude(5, e)
      /\ Added16(256, d) = Magnitude(6, e) /\ Added16(320, d) = Magnitude(7, e)
  <2>1. \A x \in Nat : x < 65536 => x % 65536 = x /\ (x + 65536) % 65536 = x
    OBVIOUS
  <2>2. PICK x \in Nat : x < 65536 /\ x = e * 128 - 128 /\ 65408 + d = x + 65536
    BY <1>1
  <2>3. d \in Nat /\ 320 + d < 65536 /\ 0 + d = d
    BY <1>1
  <2>4. QED
    BY <1>1, <2>1, <2>2, <2>3, Magnitudes DEF Added16
<1>4. PICK s0, s1, s2, s3 :
        /\ s0 = Halves(65408, 0, d) /\ s1 = Halves(64, 65280, d)
        /\ s2 = Halves(128, 192, d) /\ s3 = Halves(256, 320, d)
  OBVIOUS
<1>5. /\ Bytes4(s0) /\ Bytes4(s1) /\ Bytes4(s2) /\ Bytes4(s3)
      /\ s0[1] = Magnitude(1, e) % 256 /\ s0[2] = Magnitude(1, e) \div 256
      /\ s0[3] = Magnitude(2, e) % 256 /\ s0[4] = Magnitude(2, e) \div 256
      /\ s1[1] = Magnitude(3, e) % 256 /\ s1[2] = Magnitude(3, e) \div 256
      /\ s2[1] = Magnitude(4, e) % 256 /\ s2[2] = Magnitude(4, e) \div 256
      /\ s2[3] = Magnitude(5, e) % 256 /\ s2[4] = Magnitude(5, e) \div 256
      /\ s3[1] = Magnitude(6, e) % 256 /\ s3[2] = Magnitude(6, e) \div 256
      /\ s3[3] = Magnitude(7, e) % 256 /\ s3[4] = Magnitude(7, e) \div 256
  <2>1. /\ 65408 \in Int /\ 0 \in Int /\ 64 \in Int /\ 65280 \in Int
        /\ 128 \in Int /\ 192 \in Int /\ 256 \in Int /\ 320 \in Int
    BY SMT
  <2>2. /\ HalfWord(s0, Added16(65408, d), Added16(0, d)) /\ HalfWord(s1, Added16(64, d), Added16(65280, d))
        /\ HalfWord(s2, Added16(128, d), Added16(192, d)) /\ HalfWord(s3, Added16(256, d), Added16(320, d))
    BY <1>1, <1>4, <2>1, HalvesOf, SMT
  <2>3. QED
    BY <1>2, <2>2, SMT DEF HalfWord
<1>6. /\ T.hi_lo = vperm(s1, s0, <<12, 1, 3, 5>>) /\ T.hi_hi = vperm(s3, s2, <<1, 3, 5, 7>>)
      /\ T.lo_lo = vperm(s1, s0, <<12, 0, 2, 4>>) /\ T.lo_hi = vperm(s3, s2, <<0, 2, 4, 6>>)
  BY <1>1, <1>4, SMT DEF scaled_table
<1>7. Bytes4(T.hi_lo) /\ Bytes4(T.hi_hi) /\ Bytes4(T.lo_lo) /\ Bytes4(T.lo_hi)
  BY <1>6, PermIn
<1>8. Magnitude(0, e) \div 256 = 0 /\ Magnitude(0, e) % 256 = 0
  BY DEF Magnitude
<1>11. T.hi_lo[1] = 0 /\ T.hi_lo[2] = s0[2] /\ T.hi_lo[3] = s0[4] /\ T.hi_lo[4] = s1[2]
  <2>1. PICK sel : sel = <<12, 1, 3, 5>>
    OBVIOUS
  <2>2. sel[1] = 12 /\ sel[2] = 1 /\ sel[3] = 3 /\ sel[4] = 5
    BY <2>1
  <2>3. 1 \in 1 .. 4 /\ 2 \in 1 .. 4 /\ 3 \in 1 .. 4 /\ 4 \in 1 .. 4
    OBVIOUS
  <2>4. QED
    BY <1>5, <1>6, <2>1, <2>2, <2>3, PermOf DEF Selected
<1>12. T.hi_hi[1] = s2[2] /\ T.hi_hi[2] = s2[4] /\ T.hi_hi[3] = s3[2] /\ T.hi_hi[4] = s3[4]
  <2>1. PICK sel : sel = <<1, 3, 5, 7>>
    OBVIOUS
  <2>2. sel[1] = 1 /\ sel[2] = 3 /\ sel[3] = 5 /\ sel[4] = 7
    BY <2>1
  <2>3. 1 \in 1 .. 4 /\ 2 \in 1 .. 4 /\ 3 \in 1 .. 4 /\ 4 \in 1 .. 4
    OBVIOUS
  <2>4. QED
    BY <1>5, <1>6, <2>1, <2>2, <2>3, PermOf DEF Selected
<1>13. T.lo_lo[1] = 0 /\ T.lo_lo[2] = s0[1] /\ T.lo_lo[3] = s0[3] /\ T.lo_lo[4] = s1[1]
  <2>1. PICK sel : sel = <<12, 0, 2, 4>>
    OBVIOUS
  <2>2. sel[1] = 12 /\ sel[2] = 0 /\ sel[3] = 2 /\ sel[4] = 4
    BY <2>1
  <2>3. 1 \in 1 .. 4 /\ 2 \in 1 .. 4 /\ 3 \in 1 .. 4 /\ 4 \in 1 .. 4
    OBVIOUS
  <2>4. QED
    BY <1>5, <1>6, <2>1, <2>2, <2>3, PermOf DEF Selected
<1>14. T.lo_hi[1] = s2[1] /\ T.lo_hi[2] = s2[3] /\ T.lo_hi[3] = s3[1] /\ T.lo_hi[4] = s3[3]
  <2>1. PICK sel : sel = <<0, 2, 4, 6>>
    OBVIOUS
  <2>2. sel[1] = 0 /\ sel[2] = 2 /\ sel[3] = 4 /\ sel[4] = 6
    BY <2>1
  <2>3. 1 \in 1 .. 4 /\ 2 \in 1 .. 4 /\ 3 \in 1 .. 4 /\ 4 \in 1 .. 4
    OBVIOUS
  <2>4. QED
    BY <1>5, <1>6, <2>1, <2>2, <2>3, PermOf DEF Selected
<1>15. ASSUME NEW q \in 0 .. 3
       PROVE  T.hi_lo[q + 1] = Magnitude(q, e) \div 256 /\ T.lo_lo[q + 1] = Magnitude(q, e) % 256
  <2>1. q = 0 \/ q = 1 \/ q = 2 \/ q = 3
    OBVIOUS
  <2>2. QED
    BY <1>5, <1>8, <1>11, <1>13, <2>1
<1>16. ASSUME NEW q \in 4 .. 7
       PROVE  T.hi_hi[q - 3] = Magnitude(q, e) \div 256 /\ T.lo_hi[q - 3] = Magnitude(q, e) % 256
  <2>1. q = 4 \/ q = 5 \/ q = 6 \/ q = 7
    OBVIOUS
  <2>2. QED
    BY <1>5, <1>12, <1>14, <2>1
<1>17. QED
  BY <1>7, <1>15, <1>16

(* A nibble unpacks to its bf16: two lookups and a sign.                   *)
LEMMA UnpackedIs ==
  ASSUME NEW e \in Int, 2 <= e, e <= 252, NEW x, NEW i \in 1 .. 4, NEW n \in 0 .. 15, x[i] = n
  PROVE  n # 8 => UnpackHalf(x, scaled_table(e))[i] = Bf16Of(n, e)
<1>1. PICK T : T = scaled_table(e)
  OBVIOUS
<1>2. PICK q \in 0 .. 7 : q = n % 8 /\ n = (IF n >= 8 THEN 8 ELSE 0) + q
  <2>1. n = 0 \/ n = 1 \/ n = 2 \/ n = 3 \/ n = 4 \/ n = 5 \/ n = 6 \/ n = 7 \/ n = 8 \/ n = 9 \/ n = 10
        \/ n = 11 \/ n = 12 \/ n = 13 \/ n = 14 \/ n = 15
    OBVIOUS
  <2>2. QED
    BY <2>1
<1>3. PICK mag : mag = [j \in 1 .. 4 |-> x[j] % 8]
  OBVIOUS
<1>4. mag[i] = q
  BY <1>2, <1>3
<1>5. PICK mg \in Nat : mg < 32768 /\ mg = Magnitude(q, e)
  BY MagnitudeIn
<1>6. vperm(T.hi_hi, T.hi_lo, mag)[i] = mg \div 256 /\ vperm(T.lo_hi, T.lo_lo, mag)[i] = mg % 256
  <2>1. /\ Bytes4(T.hi_lo) /\ Bytes4(T.hi_hi) /\ Bytes4(T.lo_lo) /\ Bytes4(T.lo_hi)
    BY <1>1, TableOf
  <2>2. PICK hb, lb : hb = vperm(T.hi_hi, T.hi_lo, mag)[i] /\ lb = vperm(T.lo_hi, T.lo_lo, mag)[i]
    OBVIOUS
  <2>6. Selected(hb, q, T.hi_hi, T.hi_lo) /\ Selected(lb, q, T.lo_hi, T.lo_lo)
    BY <1>4, <2>1, <2>2, PermOf
  <2>3. CASE q \in 0 .. 3
    <3>1. T.hi_lo[q + 1] = mg \div 256 /\ T.lo_lo[q + 1] = mg % 256
      BY <1>1, <1>5, <2>3, TableOf
    <3>2. hb = T.hi_lo[q + 1] /\ lb = T.lo_lo[q + 1]
      <4>1. q = 0 \/ q = 1 \/ q = 2 \/ q = 3
        BY <2>3
      <4>2. QED
        BY <2>6, <4>1 DEF Selected
    <3>3. QED
      BY <2>2, <3>1, <3>2
  <2>4. CASE q \in 4 .. 7
    <3>1. T.hi_hi[q - 3] = mg \div 256 /\ T.lo_hi[q - 3] = mg % 256
      BY <1>1, <1>5, <2>4, TableOf
    <3>2. hb = T.hi_hi[q - 3] /\ lb = T.lo_hi[q - 3]
      <4>1. (q = 4 /\ q - 3 = 1) \/ (q = 5 /\ q - 3 = 2) \/ (q = 6 /\ q - 3 = 3) \/ (q = 7 /\ q - 3 = 4)
        BY <2>4
      <4>2. QED
        BY <2>6, <4>1 DEF Selected
    <3>3. QED
      BY <2>2, <3>1, <3>2
  <2>5. QED
    BY <2>3, <2>4
<1>7. UnpackHalf(x, T)[i] =
        (IF n >= 8 /\ mg \div 256 < 128 THEN mg \div 256 + 128 ELSE mg \div 256) * 256 + (mg % 256)
  BY <1>3, <1>6 DEF UnpackHalf
<1>8. mg \div 256 \in 0 .. 255 /\ mg % 256 \in 0 .. 255 /\ (mg \div 256) * 256 + (mg % 256) = mg
      /\ mg \div 256 < 128
  BY <1>5, Bytes
<1>9. UnpackHalf(x, T)[i] = (IF n >= 8 THEN 32768 ELSE 0) + mg
  BY <1>7, <1>8
<1>10. n # 8 => Bf16Of(n, e) = (IF n >= 8 THEN 32768 ELSE 0) + mg
  <2>1. SUFFICES ASSUME n # 8 PROVE Bf16Of(n, e) = (IF n >= 8 THEN 32768 ELSE 0) + mg
    OBVIOUS
  <2>2. Bf16Of(n, e) = IF q = 0 THEN 0 ELSE (IF n > 8 THEN 32768 ELSE 0) + (E2M1Exponent(q) + e) * 128 + E2M1Fraction(q)
    BY <1>2 DEF Bf16Of
  <2>3. q = 0 => n = 0 /\ mg = 0
    BY <1>2, <1>5, <2>1 DEF Magnitude
  <2>4. q # 0 => mg = (E2M1Exponent(q) + e) * 128 + E2M1Fraction(q) /\ E2M1Exponent(q) \in Int /\ E2M1Fraction(q) \in Int
    BY <1>5 DEF Magnitude, E2M1Exponent, E2M1Fraction
  <2>5. QED
    BY <2>1, <2>2, <2>3, <2>4
<1>11. QED
  BY <1>1, <1>9, <1>10

(* The repack puts nibbles 1 .. 4 low and 5 .. 8 high, and -0 as 0.        *)
LEMMA Nibble ==
  ASSUME NEW a \in 0 .. 15, NEW b \in 0 .. 15
  PROVE  (a + 16 * b) % 16 = a /\ (a + 16 * b) \div 16 = b
<1>1. PICK x \in Int : x = a + 16 * b
  OBVIOUS
<1>2. x % 16 \in 0 .. 15 /\ x \div 16 \in Int /\ x = (x \div 16) * 16 + (x % 16)
  BY Quotient, 16 \in Nat \ {0}
<1>3. PICK q \in Int, r \in 0 .. 15 : q = x \div 16 /\ r = x % 16 /\ x = q * 16 + r
  BY <1>2
<1>4. QED
  BY <1>1, <1>3

LEMMA Repacked ==
  ASSUME NEW nibs, \A m \in 1 .. 8 : nibs[m] \in 0 .. 15
  PROVE  \A j \in 1 .. 4 : /\ Low(repack_word(StockWord(nibs)))[j] = _canon_neg_zero(nibs[j])
                           /\ High(repack_word(StockWord(nibs)))[j] = _canon_neg_zero(nibs[j + 4])
<1>1. PICK w : w = StockWord(nibs)
  OBVIOUS
<1>2. \A b \in 1 .. 4 : w[b] % 16 = nibs[2 * b - 1] /\ w[b] \div 16 = nibs[2 * b]
  <2>1. SUFFICES ASSUME NEW b \in 1 .. 4 PROVE w[b] % 16 = nibs[2 * b - 1] /\ w[b] \div 16 = nibs[2 * b]
    OBVIOUS
  <2>2. w[b] = nibs[2 * b - 1] + 16 * nibs[2 * b] /\ nibs[2 * b - 1] \in 0 .. 15 /\ nibs[2 * b] \in 0 .. 15
    BY <1>1 DEF StockWord
  <2>3. QED
    BY <2>2, Nibble
<1>3. PICK v : v = [m \in 1 .. 8 |-> _canon_neg_zero(IF m % 2 = 1 THEN w[(m + 1) \div 2] % 16 ELSE w[m \div 2] \div 16)]
  OBVIOUS
<1>4. ASSUME NEW m \in 1 .. 8 PROVE v[m] = _canon_neg_zero(nibs[m]) /\ v[m] \in 0 .. 15
  <2>1. v[m] = _canon_neg_zero(IF m % 2 = 1 THEN w[(m + 1) \div 2] % 16 ELSE w[m \div 2] \div 16)
    BY <1>3
  <2>2. (IF m % 2 = 1 THEN w[(m + 1) \div 2] % 16 ELSE w[m \div 2] \div 16) = nibs[m]
    <3>1. m = 1 \/ m = 2 \/ m = 3 \/ m = 4 \/ m = 5 \/ m = 6 \/ m = 7 \/ m = 8
      OBVIOUS
    <3>2. /\ w[1] % 16 = nibs[1] /\ w[1] \div 16 = nibs[2] /\ w[2] % 16 = nibs[3] /\ w[2] \div 16 = nibs[4]
          /\ w[3] % 16 = nibs[5] /\ w[3] \div 16 = nibs[6] /\ w[4] % 16 = nibs[7] /\ w[4] \div 16 = nibs[8]
      BY <1>2
    <3>3. QED
      BY <3>1, <3>2
  <2>3. QED
    BY <2>1, <2>2 DEF _canon_neg_zero
<1>5. repack_word(w) = [j \in 1 .. 4 |-> v[j] + 16 * v[j + 4]]
  BY <1>3 DEF repack_word
<1>6. ASSUME NEW j \in 1 .. 4
      PROVE  /\ Low(repack_word(w))[j] = _canon_neg_zero(nibs[j])
             /\ High(repack_word(w))[j] = _canon_neg_zero(nibs[j + 4])
  <2>1. j \in 1 .. 8 /\ j + 4 \in 1 .. 8
    OBVIOUS
  <2>2. PICK a \in 0 .. 15, b \in 0 .. 15 :
          a = v[j] /\ b = v[j + 4] /\ a = _canon_neg_zero(nibs[j]) /\ b = _canon_neg_zero(nibs[j + 4])
    BY <1>4, <2>1
  <2>3. repack_word(w)[j] = a + 16 * b
    BY <1>5, <2>2
  <2>4. QED
    BY <2>2, <2>3, Nibble DEF Low, High
<1>7. QED
  BY <1>1, <1>6

(* Any eight nibbles decode to what they mean.                             *)
LEMMA DecodedIs ==
  ASSUME NEW e \in Int, 2 <= e, e <= 252, NEW nibs, \A m \in 1 .. 8 : nibs[m] \in 0 .. 15
  PROVE  Decoded(nibs, e) = Meant(nibs, e)
<1>1. PICK w, T : w = repack_word(StockWord(nibs)) /\ T = scaled_table(e)
  OBVIOUS
<1>2. \A j \in 1 .. 4 : Low(w)[j] = _canon_neg_zero(nibs[j]) /\ High(w)[j] = _canon_neg_zero(nibs[j + 4])
  BY <1>1, Repacked
<1>3. ASSUME NEW x, NEW i \in 1 .. 4, NEW m \in 1 .. 8, x[i] = _canon_neg_zero(nibs[m])
      PROVE  UnpackHalf(x, T)[i] = Bf16Of(nibs[m], e)
  <2>1. PICK n \in 0 .. 15 : n = _canon_neg_zero(nibs[m]) /\ n # 8
    BY DEF _canon_neg_zero
  <2>2. UnpackHalf(x, T)[i] = Bf16Of(n, e)
    BY <1>1, <1>3, <2>1, UnpackedIs
  <2>3. nibs[m] = 8 => Bf16Of(n, e) = Bf16Of(nibs[m], e)
    <3>1. 8 % 8 = 0 /\ 0 % 8 = 0
      OBVIOUS
    <3>2. Bf16Of(8, e) = 0 /\ Bf16Of(0, e) = 0
      BY <3>1 DEF Bf16Of
    <3>3. QED
      BY <2>1, <3>2 DEF _canon_neg_zero
  <2>4. nibs[m] # 8 => n = nibs[m]
    BY <2>1 DEF _canon_neg_zero
  <2>5. QED
    BY <2>2, <2>3, <2>4
<1>4. PICK lo, hi : lo = UnpackHalf(Low(w), T) /\ hi = UnpackHalf(High(w), T)
  OBVIOUS
<1>5. \A j \in 1 .. 4 : lo[j] = Bf16Of(nibs[j], e) /\ hi[j] = Bf16Of(nibs[j + 4], e)
  BY <1>2, <1>3, <1>4
<1>6. lo = [i \in 1 .. 4 |-> lo[i]] /\ hi = [i \in 1 .. 4 |-> hi[i]]
  BY <1>4 DEF UnpackHalf
<1>7. Decoded(nibs, e) = lo \o hi
  BY <1>1, <1>4 DEF Decoded, unpack8
<1>8. lo \o hi = Meant(nibs, e)
  <2>1. Bytes4(lo) /\ Bytes4(hi)
    BY <1>6, WordOf
  <2>2. PICK f : f = lo \o hi
    OBVIOUS
  <2>3. EightOf(f, lo, hi)
    BY <2>1, <2>2, Joined, Zenon
  <2>4. ASSUME NEW m \in 1 .. 8 PROVE f[m] = Bf16Of(nibs[m], e)
    <3>1. m = 1 \/ m = 2 \/ m = 3 \/ m = 4 \/ m = 5 \/ m = 6 \/ m = 7 \/ m = 8
      OBVIOUS
    <3>2. /\ lo[1] = Bf16Of(nibs[1], e) /\ lo[2] = Bf16Of(nibs[2], e)
          /\ lo[3] = Bf16Of(nibs[3], e) /\ lo[4] = Bf16Of(nibs[4], e)
          /\ hi[1] = Bf16Of(nibs[5], e) /\ hi[2] = Bf16Of(nibs[6], e)
          /\ hi[3] = Bf16Of(nibs[7], e) /\ hi[4] = Bf16Of(nibs[8], e)
      BY <1>5
    <3>3. QED
      BY <2>3, <3>1, <3>2 DEF EightOf
  <2>5. QED
    BY <2>2, <2>3, <2>4 DEF Meant, EightOf
<1>9. QED
  BY <1>7, <1>8

(* Any eight weights decode to the bf16s they mean, whatever the scale in  *)
(* range: repack_word keeps each nibble where UnpackHalf looks for it and  *)
(* turns -0 into 0, and the table's packed 16-bit adds fold the scale into *)
(* each exponent without a carry between the halves.                       *)
THEOREM DequantExactHolds == Spec => []DequantExact
<1>1. DequantExact
  <2>1. ASSUME NEW e \in Scales, NEW q \in 0 .. 15, InRange(e) PROVE Decoded(Nibbles(q), e) = Meant(Nibbles(q), e)
    <3>1. e \in Int /\ 2 <= e /\ e <= 252
      BY <2>1, ScalesAssumption DEF InRange
    <3>2. \A m \in 1 .. 8 : Nibbles(q)[m] \in 0 .. 15
      <4>1. SUFFICES ASSUME NEW m \in 1 .. 8 PROVE (q + 5 * m) % 16 \in 0 .. 15
        BY DEF Nibbles
      <4>2. q + 5 * m \in Int
        OBVIOUS
      <4>3. QED
        BY <4>2, Quotient, 16 \in Nat \ {0}
    <3>3. QED
      BY <3>1, <3>2, DecodedIs
  <2>2. QED
    BY <2>1 DEF DequantExact
<1>2. QED
  BY <1>1, PTL
=============================================================================
