-------------------------- MODULE MlaDecodeProofs --------------------------
(***************************************************************************)
(* The MLA decode, for every set of calls, on every machine.  First its    *)
(* division of a request, for every length, rank count, part count and     *)
(* tile size: ranks share the positions before the causal end, parts share *)
(* a rank's tokens, and a request has between one unit and one per tile.   *)
(* Then the division as invariants of the specification, and its walk.     *)
(***************************************************************************)
EXTENDS MlaDecode, FiniteSetTheorems, WellFoundedInduction, TLAPS

(* What integer division is.                                               *)
LEMMA Division ==
  ASSUME NEW x \in Int, NEW y \in Nat \ {0}
  PROVE  /\ x \div y \in Int /\ x % y \in 0 .. y - 1
         /\ x = (x \div y) * y + (x % y)
  BY SMT

LEMMA TimesMonotone ==
  ASSUME NEW a \in Int, NEW b \in Int, NEW y \in Nat, a <= b
  PROVE  a * y <= b * y
  BY SMT

(* l is below the number of y's that cover d exactly if l * y is below d.  *)
LEMMA CeilDivision ==
  ASSUME NEW d \in Int, NEW y \in Nat \ {0}, NEW l \in Int
  PROVE  cdiv(d, y) \in Int /\ (l < cdiv(d, y) <=> l * y < d)
<1> DEFINE m == (d + y - 1) \div y
<1>1. m \in Int /\ m * y <= d + y - 1 /\ d + y - 1 < m * y + y
  BY Division, d + y - 1 \in Int
<1>2. (m + 1) * y = m * y + y /\ (l + 1) * y = l * y + y /\ l * y \in Int /\ m * y \in Int
  BY <1>1
<1> HIDE DEF m
<1>3. l < m => l * y < d
  BY <1>1, <1>2, TimesMonotone, l + 1 <= m <=> l < m, l + 1 \in Int
<1>4. ~(l < m) => ~(l * y < d)
  BY <1>1, <1>2, TimesMonotone, m <= l <=> ~(l < m)
<1>5. QED
  BY <1>1, <1>3, <1>4 DEF m, cdiv

-----------------------------------------------------------------------------
(* A set of naturals has a least one.                                      *)
LEMMA LeastNatural ==
  ASSUME NEW T, T \subseteq Nat, T # {}
  PROVE  \E x \in T : \A y \in T : x <= y
<1> DEFINE Less == {p \in Nat \X Nat : p[1] < p[2]}
<1>1. IsWellFoundedOn(Less, Nat)
  BY NatLessThanWellFounded DEF OpToRel
<1> HIDE DEF Less
<1>2. PICK x \in T : \A y \in T : <<y, x>> \notin Less
  BY <1>1, WFMin
<1>3. ASSUME NEW y \in T, y < x PROVE <<y, x>> \in Less
  <2> DEFINE p == <<y, x>>
  <2>1. p \in Nat \X Nat /\ p[1] < p[2]
    BY <1>3
  <2>2. QED
    BY <2>1 DEF Less
<1>4. \A y \in T : ~ (y < x)
  BY <1>2, <1>3, Zenon
<1>5. x \in Nat /\ \A y \in T : y \in Nat
  OBVIOUS
<1>6. QED
  BY <1>4, <1>5

(* SumTo is what its definition says, for any f.                           *)
LEMMA SumToStep ==
  ASSUME NEW f
  PROVE  SumTo(f, 0) = 0 /\ \A n \in Nat : SumTo(f, n + 1) = SumTo(f, n) + f[n]
<1> DEFINE NextSum(s, m) == IF m = 0 THEN 0 ELSE s[m - 1] + f[m - 1]
           Good(s, n) == s = [m \in 0 .. n |-> NextSum(s, m)]
           bad == {n \in Nat : ~ \E s : Good(s, n)}
<1>1. bad = {}
  <2> SUFFICES ASSUME bad # {} PROVE FALSE
    OBVIOUS
  <2>1. PICK n \in bad : \A y \in bad : n <= y
    BY LeastNatural, bad \subseteq Nat
  <2>2. CASE n = 0
    <3> DEFINE s == [m \in 0 .. 0 |-> 0]
    <3>1. Good(s, 0)
      BY SMT
    <3>2. QED
      BY <2>1, <2>2, <3>1
  <2>3. CASE n # 0
    <3>1. n \in Nat /\ n - 1 \in Nat /\ n - 1 \notin bad
      BY <2>1, <2>3
    <3>2. PICK s : Good(s, n - 1)
      BY <3>1
    <3> DEFINE u == [m \in 0 .. n |-> IF m = n THEN s[n - 1] + f[n - 1] ELSE s[m]]
    <3>3. Good(u, n)
      <4>1. ASSUME NEW m \in 0 .. n PROVE u[m] = NextSum(u, m)
        <5>1. CASE m = n
          BY <3>1, <5>1
        <5>2. CASE m # n
          <6>1. m \in 0 .. n - 1 /\ u[m] = s[m] /\ s[m] = NextSum(s, m)
            BY <3>1, <3>2, <5>2
          <6>2. m # 0 => m - 1 \in 0 .. n /\ m - 1 # n
            BY <3>1, <5>2
          <6>3. QED
            BY <6>1, <6>2
        <5>3. QED
          BY <5>1, <5>2
      <4> QED
        BY <4>1
    <3>4. QED
      BY <2>1, <3>3
  <2>4. QED
    BY <2>2, <2>3
<1>2. ASSUME NEW n \in Nat, NEW m \in Nat, NEW s, NEW u, Good(s, n), Good(u, m), n <= m
      PROVE  \A k \in 0 .. n : s[k] = u[k]
  <2> DEFINE differ == {k \in 0 .. n : s[k] # u[k]}
  <2> SUFFICES ASSUME differ # {} PROVE FALSE
    OBVIOUS
  <2>1. PICK k \in differ : \A y \in differ : k <= y
    BY LeastNatural, differ \subseteq Nat
  <2>2. k \in 0 .. n /\ k \in 0 .. m /\ s[k] # u[k]
    BY <2>1, <1>2
  <2>3. s[k] = NextSum(s, k) /\ u[k] = NextSum(u, k)
    BY <2>2, <1>2
  <2>4. k # 0
    BY <2>2, <2>3
  <2>5. k - 1 \in 0 .. n /\ k - 1 \notin differ
    BY <2>1, <2>2, <2>4
  <2>6. s[k - 1] = u[k - 1]
    BY <2>5
  <2>7. QED
    BY <2>2, <2>3, <2>6
<1> DEFINE g(n) == CHOOSE s : Good(s, n)
           all == [n \in Nat |-> g(n)[n]]
<1>3. ASSUME NEW n \in Nat PROVE Good(g(n), n)
  BY <1>1, n \notin bad
<1> HIDE DEF bad, Good, g
<1>4. ASSUME NEW n \in Nat PROVE all[n] = NextSum(all, n)
  <2>1. g(n)[n] = NextSum(g(n), n)
    BY <1>3 DEF Good
  <2>2. n # 0 => g(n - 1)[n - 1] = g(n)[n - 1]
    <3>1. SUFFICES ASSUME n # 0 PROVE g(n - 1)[n - 1] = g(n)[n - 1]
      OBVIOUS
    <3>2. n - 1 \in Nat /\ n - 1 <= n /\ n - 1 \in 0 .. n - 1
      BY <3>1
    <3>3. Good(g(n - 1), n - 1) /\ Good(g(n), n)
      BY <3>2, <1>3
    <3>4. QED
      BY <3>2, <3>3, <1>2
  <2>3. n # 0 => n - 1 \in Nat
    OBVIOUS
  <2>4. QED
    BY <2>1, <2>2, <2>3
<1>5. all = [n \in Nat |-> NextSum(all, n)]
  BY <1>4
<1> DEFINE sum == CHOOSE s : s = [n \in Nat |-> NextSum(s, n)]
<1> HIDE DEF all
<1>6. sum = [n \in Nat |-> NextSum(sum, n)]
  BY <1>5
<1>7. \A n : SumTo(f, n) = sum[n]
  BY DEF SumTo
<1> HIDE DEF sum
<1>8. sum[0] = 0
  BY <1>6
<1>9. ASSUME NEW n \in Nat PROVE sum[n + 1] = sum[n] + f[n]
  <2>1. n + 1 \in Nat /\ n + 1 # 0 /\ (n + 1) - 1 = n
    OBVIOUS
  <2>2. sum[n + 1] = NextSum(sum, n + 1)
    BY <1>6, <2>1
  <2>3. QED
    BY <2>1, <2>2
<1>10. QED
  BY <1>7, <1>8, <1>9

-----------------------------------------------------------------------------
(* A rank holds its l-th position below an end exactly if l is below the   *)
(* rank's local end.                                                       *)
LEMMA RanksShare ==
  ASSUME NEW e \in Int, NEW world \in Nat \ {0}, NEW rank \in 0 .. world - 1, NEW l \in Nat
  PROVE  local_end(e, rank, world) \in Nat /\ (l < local_end(e, rank, world) <=> l * world + rank < e)
<1>1. l * world \in Nat /\ 0 * world = 0
  BY SMT
<1>2. CASE e <= rank
  BY <1>1, <1>2 DEF local_end
<1>3. CASE e > rank
  <2>1. cdiv(e - rank, world) \in Int
    BY CeilDivision
  <2>2. l < cdiv(e - rank, world) <=> l * world < e - rank
    BY CeilDivision
  <2>3. 0 < cdiv(e - rank, world) <=> 0 * world < e - rank
    BY CeilDivision
  <2>4. QED
    BY <1>1, <1>3, <2>1, <2>2, <2>3 DEF local_end
<1>4. QED
  BY <1>2, <1>3

(* The parts of a request are n windows side by side that cover its tokens:*)
(* a token is in the window of one part.                                   *)
LEMMA PartIsNat ==
  ASSUME NEW len \in Nat, NEW n \in Nat \ {0}
  PROVE  /\ per_part(len, n) \in Nat /\ len <= n * per_part(len, n)
         /\ len > 0 => per_part(len, n) > 0
<1> DEFINE q == cdiv(len, n * TileTokens)
<1>1. TileTokens \in Nat \ {0} /\ n * TileTokens \in Nat \ {0}
  BY SplitAssumption, SMT
<1>2. \A l \in Int : q \in Int /\ (l < q <=> l * (n * TileTokens) < len)
  BY <1>1, CeilDivision
<1>3. (0 - 1) * (n * TileTokens) < 0 /\ 0 * (n * TileTokens) = 0
  BY <1>1
<1>4. q \in Nat /\ (len > 0 => q > 0)
  BY <1>2, <1>3
<1>5. len <= q * (n * TileTokens)
  <2>1. q * (n * TileTokens) \in Int
    BY <1>1, <1>4
  <2>2. QED
    BY <1>2, <1>4, <2>1
<1> HIDE DEF q
<1>6. per_part(len, n) = q * TileTokens
  BY DEF per_part, q
<1>7. q * (n * TileTokens) = n * (q * TileTokens)
  BY <1>1, <1>4, SMT
<1>8. q * TileTokens \in Nat /\ (q > 0 => q * TileTokens > 0)
  BY <1>1, <1>4, SMT
<1>9. QED
  BY <1>4, <1>5, <1>6, <1>7, <1>8

LEMMA PartsShare ==
  ASSUME NEW len \in Nat, NEW n \in Nat \ {0}, NEW tok \in Nat, tok < len
  PROVE  /\ \E j \in 0 .. n - 1 : win_lo(len, j, n) <= tok /\ tok < win_hi(len, j, n)
         /\ \A j, k \in 0 .. n - 1 :
              /\ win_lo(len, j, n) <= tok /\ tok < win_hi(len, j, n)
              /\ win_lo(len, k, n) <= tok /\ tok < win_hi(len, k, n)
              => j = k
<1> DEFINE p == per_part(len, n)
<1>1. p \in Nat \ {0} /\ len <= n * p
  BY PartIsNat
<1>2. \A j \in 0 .. n - 1 : win_lo(len, j, n) = j * p /\ j * p \in Nat
                        /\ (tok < win_hi(len, j, n) <=> tok < j * p + p)
  BY <1>1 DEF win_lo, win_hi, Least
<1> HIDE DEF p
<1> DEFINE d == tok \div p
<1>3. d \in Int /\ d * p <= tok /\ tok < d * p + p
  BY <1>1, Division
<1> HIDE DEF d
<1>4. \A j \in Int : j * p <= tok /\ tok < j * p + p => j = d
  <2> SUFFICES ASSUME NEW j \in Int, j * p <= tok, tok < j * p + p PROVE j = d
    OBVIOUS
  <2>1. (j + 1) * p = j * p + p /\ (d + 1) * p = d * p + p
        /\ j * p \in Int /\ d * p \in Int
    BY <1>1, <1>3
  <2>2. ~(j + 1 <= d)
    BY <1>1, <1>3, <2>1, TimesMonotone
  <2>3. ~(d + 1 <= j)
    BY <1>1, <1>3, <2>1, TimesMonotone
  <2>4. QED
    BY <1>3, <2>2, <2>3
<1>5. d \in 0 .. n - 1
  <2>1. (0 - 1) * p + p = 0 /\ d * p \in Int /\ n * p \in Int
    BY <1>1, <1>3
  <2>2. ~(d <= 0 - 1)
    BY <1>1, <1>3, <2>1, TimesMonotone
  <2>3. ~(n <= d)
    BY <1>1, <1>3, <2>1, TimesMonotone
  <2>4. QED
    BY <1>3, <2>2, <2>3
<1>6. QED
  BY <1>2, <1>3, <1>4, <1>5

-----------------------------------------------------------------------------
(* The numbers of a call are what they should be.                          *)
LEMMA CallFacts ==
  ASSUME NEW c, IsCall(c)
  PROVE  /\ c.B \in Nat \ {0} /\ c.q_len \in Nat \ {0} /\ c.H \in Nat \ {0}
         /\ c.nt \in Nat \ {0} /\ c.world \in Nat \ {0}
         /\ rows(c) \in Nat \ {0} /\ c.q_len * c.H \in Nat \ {0}
         /\ \A i \in Requests(c) : c.glen[i] \in Nat
         /\ TileTokens \in Nat \ {0} /\ MfmaTile \in Nat \ {0}
<1>1. /\ c.B \in Nat \ {0} /\ c.q_len \in Nat \ {0} /\ c.H \in Nat \ {0}
      /\ c.nt \in Nat \ {0} /\ c.world \in Nat \ {0}
      /\ \A i \in Requests(c) : c.glen[i] \in Nat
  BY DEF IsCall
<1>2. TileTokens \in Nat \ {0} /\ MfmaTile \in Nat \ {0}
  BY SplitAssumption
<1>3. \A x, y \in Nat \ {0} : x * y \in Nat \ {0}
  BY SMT
<1>4. QED
  BY <1>1, <1>2, <1>3 DEF rows

LEMMA KvLenIsNat ==
  ASSUME NEW c, IsCall(c), NEW r \in 0 .. c.world - 1, NEW i \in Requests(c)
  PROVE  kv_len(c, r, i) \in Nat /\ kv_len(c, r, i) = local_end(c.glen[i], r, c.world)
<1>1. kv_len(c, r, i) = local_end(c.glen[i], r, c.world)
  BY DEF kv_len, local_end
<1>2. local_end(c.glen[i], r, c.world) \in Nat
  <2>1. c.glen[i] \in Int /\ c.world \in Nat \ {0}
    BY CallFacts
  <2>2. QED
    BY <2>1, RanksShare, 0 \in Nat
<1>3. QED
  BY <1>1, <1>2

(* Where a row of the slice stops in a part: where the part does, or where *)
(* the row's positions do.                                                 *)
LEMMA KvEnd ==
  ASSUME NEW c, IsCall(c), NEW r \in 0 .. c.world - 1, NEW i \in Requests(c),
         NEW n \in Nat \ {0}, NEW j \in 0 .. n - 1, NEW slice \in Nat, NEW p \in Nat
  PROVE  LET len == kv_len(c, r, i)
             e == kv_end(c, r, i, j, n, slice, p)
             causal == local_causal_end(c, r, i, (slice * rows(c) + p) \div c.H)
         IN /\ win_lo(len, j, n) \in Nat /\ win_hi(len, j, n) \in Nat /\ win_hi(len, j, n) <= len
            /\ e \in Nat /\ e <= win_hi(len, j, n) /\ causal \in Nat
            /\ p < live_rows(c, slice) =>
                 \A tok \in Nat : tok < e <=> tok < win_hi(len, j, n) /\ tok < causal
<1> DEFINE len == kv_len(c, r, i)
           qpos == (slice * rows(c) + p) \div c.H
           causal == local_causal_end(c, r, i, qpos)
<1>1. len \in Nat
  BY KvLenIsNat
<1>2. per_part(len, n) \in Nat
  BY <1>1, PartIsNat
<1>3. win_lo(len, j, n) \in Nat
  BY <1>2, SMT DEF win_lo
<1>4. win_hi(len, j, n) \in Nat /\ win_hi(len, j, n) <= len
  BY <1>1, <1>2, <1>3 DEF win_hi, Least
<1>5. qpos \in Int
  <2>1. slice * rows(c) + p \in Int
    BY CallFacts, SMT
  <2>2. QED
    BY <2>1, CallFacts, Division
<1>6. causal \in Nat
  <2>1. c.glen[i] - (c.q_len - 1 - qpos) \in Int
    BY <1>5, CallFacts
  <2>2. QED
    BY <2>1, CallFacts, RanksShare, 0 \in Nat DEF local_causal_end
<1> HIDE DEF causal, len, qpos
<1>7. kv_end(c, r, i, j, n, slice, p) =
        Least(win_hi(len, j, n), IF p < live_rows(c, slice) THEN Least(len, causal) ELSE len)
  BY DEF kv_end, causal, len, qpos
<1>8. /\ kv_end(c, r, i, j, n, slice, p) \in Nat
      /\ kv_end(c, r, i, j, n, slice, p) <= win_hi(len, j, n)
      /\ p < live_rows(c, slice) =>
           \A tok \in Nat : tok < kv_end(c, r, i, j, n, slice, p)
                           <=> tok < win_hi(len, j, n) /\ tok < causal
  BY <1>1, <1>4, <1>6, <1>7 DEF Least
<1>9. QED
  BY <1>3, <1>4, <1>6, <1>8 DEF causal, len, qpos

(* Masked or not, whole tiles or a last part of one, a row counts what lies*)
(* from the part's first token to the row's end.                           *)
LEMMA CountedIs ==
  ASSUME NEW c, IsCall(c), NEW r \in 0 .. c.world - 1, NEW i \in Requests(c),
         NEW n \in Nat \ {0}, NEW j \in 0 .. n - 1, NEW slice \in Nat, NEW p \in Nat
  PROVE  Counted(c, r, i, j, n, slice, p) =
           {tok \in Nat : /\ win_lo(kv_len(c, r, i), j, n) <= tok
                          /\ tok < kv_end(c, r, i, j, n, slice, p)}
<1> DEFINE len == kv_len(c, r, i)
           lo == win_lo(len, j, n)
           hi == win_hi(len, j, n)
           e == kv_end(c, r, i, j, n, slice, p)
           cut == kv_tiles(len, j, n)
<1>1. lo \in Nat /\ hi \in Nat /\ e \in Nat /\ e <= hi
  BY KvEnd
<1>2. TileTokens \in Nat \ {0} /\ MfmaTile \in Nat \ {0}
  BY CallFacts
<1>3. cut \in Nat /\ (hi > lo => hi - lo <= cut * TileTokens)
  <2>1. CASE ~(hi > lo)
    BY <2>1 DEF kv_tiles
  <2>2. CASE hi > lo
    <3>1. cut = cdiv(hi - lo, TileTokens)
      BY <2>2 DEF kv_tiles
    <3>2. cut \in Int
      BY <1>1, <1>2, <3>1, CeilDivision, 0 \in Int
    <3>3. (0 < cut <=> 0 * TileTokens < hi - lo) /\ (cut < cut <=> cut * TileTokens < hi - lo)
      <4>1. hi - lo \in Int /\ 0 \in Int
        BY <1>1
      <4>2. QED
        BY <1>2, <3>1, <3>2, <4>1, CeilDivision
    <3>4. 0 * TileTokens = 0 /\ cut * TileTokens \in Int
      BY <1>2, <3>2
    <3>5. QED
      BY <1>1, <2>2, <3>2, <3>3, <3>4
  <2>3. QED
    BY <2>1, <2>2
<1>4. e \in Lane_ends(c, r, i, j, n, slice, p)
  <2> DEFINE tile == p \div MfmaTile
  <2>1. p \in tile * MfmaTile .. tile * MfmaTile + MfmaTile - 1
    <3>1. tile \in Int /\ p % MfmaTile \in 0 .. MfmaTile - 1 /\ p = tile * MfmaTile + (p % MfmaTile)
      BY <1>2, Division
    <3>2. QED
      BY <1>2, <3>1
  <2>2. QED
    BY <2>1 DEF Lane_ends
<1>5. ASSUME NEW tok \in Int, whole(c, r, i, j, n, slice, p, tile_of(lo, tok)), lo <= tok
      PROVE  tok < e
  <2>1. tile_of(lo, tok) + TileTokens <= e
    BY <1>4, <1>5 DEF whole
  <2>2. (tok - lo) \div TileTokens \in Int /\ (tok - lo) % TileTokens \in 0 .. TileTokens - 1
        /\ tok - lo = ((tok - lo) \div TileTokens) * TileTokens + ((tok - lo) % TileTokens)
    <3>1. tok - lo \in Int
      BY <1>1
    <3>2. QED
      BY <1>2, <3>1, Division
  <2>3. ((tok - lo) \div TileTokens) * TileTokens \in Int
    BY <1>2, <2>2
  <2>4. tok < tile_of(lo, tok) + TileTokens
    BY <1>1, <1>2, <2>2, <2>3 DEF tile_of
  <2>5. tile_of(lo, tok) \in Int
    BY <1>1, <2>3 DEF tile_of
  <2>6. QED
    BY <1>1, <1>2, <2>1, <2>4, <2>5
<1> DEFINE counted == {tok \in lo .. lo + cut * TileTokens - 1 :
                         \/ whole(c, r, i, j, n, slice, p, tile_of(lo, tok))
                         \/ tok < e}
<1>6. Counted(c, r, i, j, n, slice, p) = counted
  BY DEF Counted
<1> HIDE DEF lo, hi, e, cut, len
<1>7. cut * TileTokens \in Nat
  BY <1>2, <1>3
<1>8. counted = {tok \in Nat : lo <= tok /\ tok < e}
  <2>1. ASSUME NEW tok \in counted PROVE tok \in Nat /\ lo <= tok /\ tok < e
    BY <1>1, <1>5, <1>7
  <2>2. ASSUME NEW tok \in Nat, lo <= tok, tok < e PROVE tok \in counted
    BY <1>1, <1>3, <1>7, <2>2
  <2>3. QED
    BY <2>1, <2>2
<1>9. QED
  BY <1>6, <1>8 DEF lo, e, len

-----------------------------------------------------------------------------
(* A number below y and a multiple of y add up to one number each.         *)
LEMMA PlaceIsUnique ==
  ASSUME NEW y \in Nat \ {0}, NEW a \in Int, NEW b \in Int,
         NEW s \in 0 .. y - 1, NEW u \in 0 .. y - 1, a * y + s = b * y + u
  PROVE  a = b /\ s = u
<1>1. a * y \in Int /\ b * y \in Int /\ (a + 1) * y = a * y + y /\ (b + 1) * y = b * y + y
  BY SMT
<1>2. ~(a + 1 <= b)
  BY <1>1, TimesMonotone
<1>3. ~(b + 1 <= a)
  BY <1>1, TimesMonotone
<1>4. a = b
  BY <1>2, <1>3
<1>5. QED
  BY <1>1, <1>4

(* The merge's slice and slot of a row are where decode had it, and a slice*)
(* has the row.                                                            *)
LEMMA RowPlace ==
  ASSUME NEW c, IsCall(c), NEW row \in 0 .. c.q_len * c.H - 1
  PROVE  /\ merge_slice(c, row) \in Nat /\ merge_slot(c, row) \in Nat
         /\ merge_slice(c, row) * rows(c) + merge_slot(c, row) = row
         /\ merge_slot(c, row) < live_rows(c, merge_slice(c, row))
         /\ row \div c.H \in 0 .. c.q_len - 1
<1> DEFINE k == row \div rows(c)
           m == row % rows(c)
           q == row \div c.H
<1>1. row \in Int /\ row < c.q_len * c.H /\ 0 <= row /\ c.q_len * c.H \in Nat
      /\ rows(c) \in Nat \ {0} /\ c.H \in Nat \ {0} /\ c.q_len \in Nat \ {0}
  BY CallFacts
<1>2. k \in Int /\ m \in 0 .. rows(c) - 1 /\ row = k * rows(c) + m
  BY <1>1, Division
<1>3. q \in Int /\ row % c.H \in 0 .. c.H - 1 /\ row = q * c.H + (row % c.H)
  BY <1>1, Division
<1> HIDE DEF k, m, q
<1>4. k \in Nat
  <2>1. (0 - 1) * rows(c) + rows(c) = 0 /\ k * rows(c) \in Int
    BY <1>1, <1>2
  <2>2. ~(k <= 0 - 1)
    BY <1>1, <1>2, <2>1, TimesMonotone
  <2>3. QED
    BY <1>2, <2>2
<1>5. q \in 0 .. c.q_len - 1
  <2>1. (0 - 1) * c.H + c.H = 0 /\ q * c.H \in Int
    BY <1>1, <1>3
  <2>2. ~(q <= 0 - 1)
    BY <1>1, <1>3, <2>1, TimesMonotone
  <2>3. ASSUME c.q_len <= q PROVE FALSE
    <3>1. c.q_len * c.H <= q * c.H
      BY <1>1, <1>3, <2>3, TimesMonotone
    <3>2. QED
      BY <1>1, <1>3, <2>1, <3>1
  <2>4. QED
    BY <1>1, <1>3, <2>2, <2>3
<1>6. k * rows(c) \in Nat
  BY <1>1, <1>4
<1>7. merge_slice(c, row) = k /\ merge_slot(c, row) = m /\ row \div c.H = q
  BY DEF merge_slice, merge_slot, k, m, q
<1>8. m < live_rows(c, k)
  BY <1>1, <1>2, <1>4, <1>6 DEF live_rows, Least
<1>9. QED
  BY <1>1, <1>2, <1>4, <1>5, <1>7, <1>8

(* Where row ends, in global positions.                                    *)
GlobalEnd(c, i, row) == c.glen[i] - (c.q_len - 1 - row \div c.H)

LEMMA GlobalEndIs ==
  ASSUME NEW c, IsCall(c), NEW i \in Requests(c), NEW row \in 0 .. c.q_len * c.H - 1
  PROVE  GlobalEnd(c, i, row) \in Int /\ GlobalEnd(c, i, row) <= c.glen[i] /\ c.glen[i] \in Nat
<1>1. c.glen[i] \in Nat /\ c.q_len \in Nat
  BY CallFacts
<1>2. row \div c.H \in 0 .. c.q_len - 1
  BY RowPlace
<1>3. QED
  BY <1>1, <1>2 DEF GlobalEnd

(* Part j of rank r has a token of row.                                    *)
InPart(c, i, row, n, r, j, tok) ==
  /\ win_lo(kv_len(c, r, i), j, n[r]) <= tok
  /\ tok < win_hi(kv_len(c, r, i), j, n[r])
  /\ tok < local_end(GlobalEnd(c, i, row), r, c.world)

LEMMA ReadsAre ==
  ASSUME NEW c, IsCall(c), NEW i \in Requests(c), NEW row \in 0 .. c.q_len * c.H - 1,
         NEW n \in [0 .. c.world - 1 -> Nat \ {0}], NEW x
  PROVE  x \in Reads(c, i, row, n) <=>
           \E r \in 0 .. c.world - 1 : \E j \in 0 .. n[r] - 1 : \E tok \in Nat :
             x = <<r, j, tok>> /\ InPart(c, i, row, n, r, j, tok)
<1> DEFINE slice == merge_slice(c, row)
           slot == merge_slot(c, row)
           count(r, j) == Counted(c, r, i, j, n[r], slice, slot)
<1>1. slice \in Nat /\ slot \in Nat /\ slot < live_rows(c, slice) /\ slice * rows(c) + slot = row
  BY RowPlace
<1>2. x \in Reads(c, i, row, n) <=>
        \E r \in 0 .. c.world - 1 : \E j \in 0 .. n[r] - 1 : \E tok \in count(r, j) : x = <<r, j, tok>>
  BY DEF Reads
<1>3. ASSUME NEW r \in 0 .. c.world - 1, NEW j \in 0 .. n[r] - 1, NEW tok
      PROVE  tok \in count(r, j) <=> tok \in Nat /\ InPart(c, i, row, n, r, j, tok)
  <2>1. n[r] \in Nat \ {0}
    OBVIOUS
  <2>2. count(r, j) = {t \in Nat : /\ win_lo(kv_len(c, r, i), j, n[r]) <= t
                                 /\ t < kv_end(c, r, i, j, n[r], slice, slot)}
    BY <1>1, <2>1, CountedIs
  <2>3. \A t \in Nat : t < kv_end(c, r, i, j, n[r], slice, slot) <=>
                        /\ t < win_hi(kv_len(c, r, i), j, n[r])
                        /\ t < local_causal_end(c, r, i, (slice * rows(c) + slot) \div c.H)
    BY <1>1, <2>1, KvEnd
  <2>4. local_causal_end(c, r, i, (slice * rows(c) + slot) \div c.H)
          = local_end(GlobalEnd(c, i, row), r, c.world)
    BY <1>1 DEF local_causal_end, GlobalEnd
  <2> HIDE DEF count
  <2>5. QED
    BY <2>2, <2>3, <2>4 DEF InPart
<1> HIDE DEF count
<1>4. QED
  BY <1>2, <1>3

(* For any numbers of parts: over ranks and parts a row counts each of the *)
(* positions it may attend once, and no other.                             *)
THEOREM PositionsCountedOnce ==
  ASSUME NEW c, IsCall(c), NEW i \in Requests(c), NEW row \in 0 .. c.q_len * c.H - 1,
         NEW n \in [0 .. c.world - 1 -> Nat \ {0}]
  PROVE  CountsOnce(c, i, row, n)
<1> DEFINE end == GlobalEnd(c, i, row)
           len(r) == kv_len(c, r, i)
           R == 0 .. c.world - 1
<1>1. /\ c.world \in Nat \ {0} /\ end \in Int /\ c.glen[i] \in Nat /\ end <= c.glen[i]
      /\ attended(c, i, row) = 0 .. end - 1
  BY CallFacts, GlobalEndIs DEF attended, GlobalEnd
<1> HIDE DEF end
<1>2. \A r \in R : n[r] \in Nat \ {0} /\ len(r) \in Nat
  BY KvLenIsNat
<1>3. \A r \in R, tok \in Nat :
        /\ tok < local_end(end, r, c.world) <=> tok * c.world + r < end
        /\ tok < len(r) <=> tok * c.world + r < c.glen[i]
  <2> TAKE r \in R, tok \in Nat
  <2>1. len(r) = local_end(c.glen[i], r, c.world)
    BY KvLenIsNat
  <2>2. tok < local_end(end, r, c.world) <=> tok * c.world + r < end
    BY <1>1, RanksShare
  <2>3. c.glen[i] \in Int
    BY <1>1
  <2>4. tok < local_end(c.glen[i], r, c.world) <=> tok * c.world + r < c.glen[i]
    BY <1>1, <2>3, RanksShare
  <2>5. QED
    BY <2>1, <2>2, <2>4
<1>4. ASSUME NEW x \in Reads(c, i, row, n)
      PROVE  \E r \in R : \E j \in 0 .. n[r] - 1 : \E tok \in Nat :
               /\ x = <<r, j, tok>>
               /\ win_lo(len(r), j, n[r]) <= tok /\ tok < win_hi(len(r), j, n[r])
               /\ tok * c.world + r < end /\ tok < len(r)
  <2>1. PICK r \in R : \E j \in 0 .. n[r] - 1 : \E tok \in Nat :
               /\ x = <<r, j, tok>>
               /\ win_lo(len(r), j, n[r]) <= tok /\ tok < win_hi(len(r), j, n[r])
               /\ tok < local_end(end, r, c.world)
    <3>1. \E r \in R : \E j \in 0 .. n[r] - 1 : \E tok \in Nat :
             x = <<r, j, tok>> /\ InPart(c, i, row, n, r, j, tok)
      BY <1>4, ReadsAre
    <3>2. QED
      BY <3>1 DEF InPart, end
  <2>2. PICK j \in 0 .. n[r] - 1, tok \in Nat :
               /\ x = <<r, j, tok>>
               /\ win_lo(len(r), j, n[r]) <= tok /\ tok < win_hi(len(r), j, n[r])
               /\ tok < local_end(end, r, c.world)
    BY <2>1
  <2>3. tok * c.world + r < end /\ tok * c.world + r \in Int
    BY <1>1, <1>3, <2>2
  <2>4. tok < len(r)
    <3>1. tok * c.world + r < c.glen[i]
      BY <1>1, <2>3
    <3>2. QED
      BY <1>3, <3>1
  <2>5. QED
    BY <2>2, <2>3, <2>4
<1>5. ASSUME NEW x \in Reads(c, i, row, n) PROVE position(c, x) \in 0 .. end - 1
  <2>1. PICK r \in R, tok \in Nat : (\E j : x = <<r, j, tok>>) /\ tok * c.world + r < end
    BY <1>4
  <2>2. tok * c.world \in Nat
    BY <1>1
  <2>3. position(c, x) = tok * c.world + r
    BY <2>1 DEF position
  <2>4. QED
    BY <1>1, <2>1, <2>2, <2>3
<1>6. ASSUME NEW pos \in 0 .. end - 1 PROVE \E x \in Reads(c, i, row, n) : position(c, x) = pos
  <2> DEFINE tok == pos \div c.world
             r == pos % c.world
  <2>0. pos \in Int /\ 0 <= pos /\ pos < end /\ c.world \in Nat \ {0}
    BY <1>1, <1>6
  <2>1. tok \in Int /\ r \in R /\ pos = tok * c.world + r
    BY <2>0, Division
  <2> HIDE DEF tok, r
  <2>2. tok \in Nat
    <3>1. (0 - 1) * c.world + c.world = 0 /\ tok * c.world \in Int
      BY <1>1, <2>1
    <3>2. ~(tok <= 0 - 1)
      BY <2>0, <2>1, <3>1, TimesMonotone
    <3>3. QED
      BY <2>1, <3>2
  <2>3. tok < local_end(end, r, c.world) /\ tok < len(r)
    <3>1. tok * c.world + r < end /\ tok * c.world + r < c.glen[i]
      BY <1>1, <2>0, <2>1
    <3>2. QED
      BY <1>3, <2>1, <2>2, <3>1
  <2>4. PICK j \in 0 .. n[r] - 1 : win_lo(len(r), j, n[r]) <= tok /\ tok < win_hi(len(r), j, n[r])
    BY <1>2, <2>1, <2>2, <2>3, PartsShare
  <2>5. <<r, j, tok>> \in Reads(c, i, row, n)
    BY <2>1, <2>2, <2>3, <2>4, ReadsAre DEF end, InPart
  <2>6. position(c, <<r, j, tok>>) = pos
    BY <2>1 DEF position
  <2>7. QED
    BY <2>5, <2>6
<1>7. ASSUME NEW x \in Reads(c, i, row, n), NEW y \in Reads(c, i, row, n), position(c, x) = position(c, y)
      PROVE  x = y
  <2>1. PICK r \in R : \E j \in 0 .. n[r] - 1 : \E tok \in Nat :
               /\ x = <<r, j, tok>>
               /\ win_lo(len(r), j, n[r]) <= tok /\ tok < win_hi(len(r), j, n[r])
               /\ tok * c.world + r < end /\ tok < len(r)
    BY <1>4
  <2>2. PICK j \in 0 .. n[r] - 1, tok \in Nat :
               /\ x = <<r, j, tok>>
               /\ win_lo(len(r), j, n[r]) <= tok /\ tok < win_hi(len(r), j, n[r])
               /\ tok * c.world + r < end /\ tok < len(r)
    BY <2>1
  <2>3. PICK s \in R : \E k \in 0 .. n[s] - 1 : \E u \in Nat :
               /\ y = <<s, k, u>>
               /\ win_lo(len(s), k, n[s]) <= u /\ u < win_hi(len(s), k, n[s])
               /\ u * c.world + s < end /\ u < len(s)
    BY <1>4
  <2>4. PICK k \in 0 .. n[s] - 1, u \in Nat :
               /\ y = <<s, k, u>>
               /\ win_lo(len(s), k, n[s]) <= u /\ u < win_hi(len(s), k, n[s])
               /\ u * c.world + s < end /\ u < len(s)
    BY <2>3
  <2>5. tok * c.world + r = u * c.world + s
    BY <1>7, <2>2, <2>4 DEF position
  <2>6. tok = u /\ r = s
    <3>1. tok \in Int /\ u \in Int
      OBVIOUS
    <3>2. QED
      BY <1>1, <2>5, <3>1, PlaceIsUnique
  <2>7. j = k
    BY <1>2, <2>2, <2>4, <2>6, PartsShare
  <2>8. QED
    BY <2>2, <2>4, <2>6, <2>7
<1>8. {position(c, x) : x \in Reads(c, i, row, n)} = attended(c, i, row)
  BY <1>1, <1>5, <1>6
<1>9. QED
  BY <1>7, <1>8 DEF CountsOnce

-----------------------------------------------------------------------------
(* Sums of naturals are naturals.                                          *)
LEMMA SumToIsNat ==
  ASSUME NEW f, NEW n \in Nat, \A k \in 0 .. n - 1 : f[k] \in Nat
  PROVE  \A m \in 0 .. n : SumTo(f, m) \in Nat
<1> DEFINE bad == {m \in 0 .. n : SumTo(f, m) \notin Nat}
<1> SUFFICES ASSUME bad # {} PROVE FALSE
  OBVIOUS
<1>1. PICK m \in bad : \A y \in bad : m <= y
  BY LeastNatural, bad \subseteq Nat
<1>2. m \in 0 .. n /\ SumTo(f, m) \notin Nat
  BY <1>1
<1>3. m # 0
  BY <1>2, SumToStep
<1>4. m - 1 \in 0 .. n - 1 /\ m - 1 \in Nat /\ m - 1 \in 0 .. n
  BY <1>2, <1>3
<1>5. SumTo(f, m - 1) \in Nat
  BY <1>1, <1>4
<1>6. SumTo(f, (m - 1) + 1) = SumTo(f, m - 1) + f[m - 1]
  BY <1>4, SumToStep
<1>7. (m - 1) + 1 = m
  BY <1>2
<1>8. QED
  BY <1>2, <1>4, <1>5, <1>6, <1>7

LEMMA TilesOf ==
  ASSUME NEW c, IsCall(c), NEW r \in 0 .. c.world - 1
  PROVE  /\ \A i \in Requests(c) : tiles_of(c, r, i) \in 1 .. MaxSplitTiles
         /\ spare_tiles(c, r) \in Nat
<1>1. MaxSplitTiles \in Nat \ {0} /\ TileTokens \in Nat \ {0}
  BY SplitAssumption
<1>2. ASSUME NEW i \in Requests(c) PROVE tiles_of(c, r, i) \in 1 .. MaxSplitTiles
  <2>1. kv_len(c, r, i) \in Int
    BY KvLenIsNat
  <2>2. cdiv(kv_len(c, r, i), TileTokens) \in Int
    BY <1>1, <2>1, CeilDivision, 0 \in Int
  <2>3. QED
    BY <1>1, <2>2 DEF tiles_of, split_tiles, Least
<1> DEFINE f == [i \in Requests(c) |-> tiles_of(c, r, i) - 1]
<1>3. \A k \in 0 .. c.B - 1 : f[k] \in Nat
  BY <1>1, <1>2 DEF Requests
<1>4. c.B \in Nat
  BY CallFacts
<1> HIDE DEF f
<1>5. SumTo(f, c.B) \in Nat
  BY <1>3, <1>4, SumToIsNat
<1>6. QED
  BY <1>2, <1>5 DEF spare_tiles, f

(* The grid has no more CTAs than the machine CUs, and a unit for each     *)
(* request at least.                                                       *)
LEMMA GridFits ==
  ASSUME NEW c, IsCall(c)
  PROVE  /\ slices_of(c) \in Nat \ {0} /\ parts_for(c) \in Nat \ {0}
         /\ units_total(c) \in Nat /\ c.B <= units_total(c)
         /\ n_ctas(c) = slices_of(c) * units_total(c) /\ n_ctas(c) <= NumCU
         /\ units_total(c) <= n_ctas(c)
<1> DEFINE s == slices_of(c)
           p == parts_for(c)
<1>1. c.B \in Nat \ {0} /\ NumCU \in Nat \ {0} /\ rows(c) \in Nat \ {0} /\ c.q_len * c.H \in Nat \ {0}
  BY CallFacts, SplitAssumption
<1>2. s \in Nat \ {0}
  <2>1. s \in Int /\ (0 < s <=> 0 * rows(c) < c.q_len * c.H)
    BY <1>1, CeilDivision, 0 \in Int DEF slices_of
  <2>2. 0 * rows(c) = 0
    BY <1>1
  <2>3. QED
    BY <1>1, <2>1, <2>2
<1>3. c.B * s \in Nat \ {0} /\ c.B * s <= NumCU
  BY <1>1, <1>2, SMT DEF IsCall, Fits
<1> DEFINE q == NumCU \div (c.B * s)
<1> HIDE DEF s
<1>4. q \in Int /\ q * (c.B * s) <= NumCU
  <2> DEFINE y == c.B * s
  <2>1. y \in Nat \ {0} /\ NumCU \in Int
    BY <1>1, <1>3
  <2> HIDE DEF y
  <2>2. NumCU \div y \in Int /\ NumCU % y \in 0 .. y - 1 /\ NumCU = (NumCU \div y) * y + (NumCU % y)
    BY <2>1, Division
  <2>3. (NumCU \div y) * y \in Int
    BY <2>1, <2>2
  <2>4. (NumCU \div y) * y <= NumCU
    BY <2>1, <2>2, <2>3
  <2>5. QED
    BY <2>2, <2>4 DEF y
<1>5. p = IF q < 1 THEN 1 ELSE q
  BY DEF parts_for, s
<1> HIDE DEF p, q
<1>6. p \in Nat \ {0} /\ p * (c.B * s) <= NumCU
  BY <1>3, <1>4, <1>5
<1>7. /\ c.B * p \in Nat /\ c.B <= c.B * p
      /\ c.B * s * p = s * (c.B * p) /\ c.B * s * p = p * (c.B * s)
      /\ c.B * p <= s * (c.B * p)
  <2>1. \A x, y \in Nat \ {0} : x * y \in Nat /\ x <= x * y /\ y <= x * y
    BY SMT
  <2>2. c.B * s * p = s * (c.B * p) /\ c.B * s * p = p * (c.B * s)
    BY <1>1, <1>2, <1>6, SMT
  <2>3. c.B * p \in Nat \ {0}
    BY <1>1, <1>6, <2>1
  <2>4. QED
    BY <1>1, <1>2, <1>6, <2>1, <2>2, <2>3
<1>8. QED
  BY <1>2, <1>6, <1>7 DEF units_total, n_ctas, s, p

(* A request's share: a unit at least, no more than its tiles, and of the  *)
(* spare units in proportion to its spare tiles at most.                   *)
LEMMA ShareBounds ==
  ASSUME NEW t \in Nat \ {0}, NEW total \in Nat, NEW batch \in Nat, batch <= total, NEW spare \in Nat
  PROVE  /\ Share(t, total, batch, spare) \in 1 .. t
         /\ spare = 0 => Share(t, total, batch, spare) = 1
         /\ spare * (Share(t, total, batch, spare) - 1) <= (t - 1) * (total - batch)
<1> DEFINE a == (t - 1) * (total - batch)
           q == a \div spare
<1>1. a \in Nat
  <2>1. \A x, y \in Nat : x * y \in Nat
    BY SMT
  <2>2. QED
    BY <2>1, t - 1 \in Nat, total - batch \in Nat
<1> HIDE DEF a
<1>2. CASE spare = 0
  BY <1>1, <1>2 DEF Share, Least, a
<1>3. CASE spare # 0
  <2>1. q \in Int /\ q * spare <= a /\ a < q * spare + spare
    <3>1. a \in Int /\ spare \in Nat \ {0}
      BY <1>1, <1>3
    <3>2. q \in Int /\ a % spare \in 0 .. spare - 1 /\ a = q * spare + (a % spare)
      BY <3>1, Division
    <3> HIDE DEF q
    <3>3. q * spare \in Int
      BY <3>1, <3>2
    <3>4. QED
      BY <3>1, <3>2, <3>3
  <2>2. (0 - 1) * spare + spare = 0
    OBVIOUS
  <2>3. q \in Nat
    <3>1. ~(q <= 0 - 1)
      BY <1>1, <2>1, <2>2, TimesMonotone
    <3>2. QED
      BY <2>1, <3>1
  <2>4. Share(t, total, batch, spare) = Least(1 + q, t)
    BY <1>3 DEF Share, a
  <2> HIDE DEF q
  <2>5. Share(t, total, batch, spare) \in 1 .. t /\ Share(t, total, batch, spare) - 1 <= q
    BY <2>3, <2>4 DEF Least
  <2>6. (Share(t, total, batch, spare) - 1) * spare <= q * spare
    <3>1. Share(t, total, batch, spare) - 1 \in Int
      BY <2>5
    <3>2. QED
      BY <2>3, <2>5, <3>1, TimesMonotone
  <2>7. spare * (Share(t, total, batch, spare) - 1) = (Share(t, total, batch, spare) - 1) * spare
    BY <2>5
  <2>8. QED
    BY <1>1, <1>3, <2>1, <2>3, <2>5, <2>6, <2>7 DEF a
<1>4. QED
  BY <1>2, <1>3

(* A request has a unit and no more units than tiles, and all of them      *)
(* together no more than a slice's units.                                  *)
LEMMA UnitsOf ==
  ASSUME NEW c, IsCall(c), NEW r \in 0 .. c.world - 1, NEW i \in Requests(c)
  PROVE  /\ units(c, r, i) \in 1 .. tiles_of(c, r, i)
         /\ spare_tiles(c, r) = 0 => units(c, r, i) = 1
         /\ spare_tiles(c, r) * (units(c, r, i) - 1)
              <= (tiles_of(c, r, i) - 1) * (units_total(c) - c.B)
<1>1. tiles_of(c, r, i) \in Nat \ {0} /\ spare_tiles(c, r) \in Nat
  BY TilesOf, SplitAssumption
<1>2. units_total(c) \in Nat /\ c.B \in Nat /\ c.B <= units_total(c)
  BY GridFits, CallFacts
<1>3. QED
  BY <1>1, <1>2, ShareBounds DEF units

LEMMA FirstUnitIsNat ==
  ASSUME NEW c, IsCall(c), NEW r \in 0 .. c.world - 1
  PROVE  /\ \A m \in 0 .. c.B : first_unit(c, r, m) \in Nat
         /\ first_unit(c, r, 0) = 0
         /\ \A i \in Requests(c) : first_unit(c, r, i + 1) = first_unit(c, r, i) + units(c, r, i)
<1> DEFINE f == [j \in Requests(c) |-> units(c, r, j)]
<1>1. c.B \in Nat /\ \A i \in Requests(c) : f[i] = units(c, r, i) /\ units(c, r, i) \in Nat /\ i \in Nat
  <2>1. \A i \in Requests(c) : tiles_of(c, r, i) \in Nat
    BY TilesOf
  <2>2. QED
    BY <2>1, CallFacts, UnitsOf DEF Requests
<1>2. \A m : first_unit(c, r, m) = SumTo(f, m)
  BY DEF first_unit
<1> HIDE DEF f
<1>3. \A m \in 0 .. c.B : SumTo(f, m) \in Nat
  BY <1>1, SumToIsNat DEF Requests
<1>4. QED
  BY <1>1, <1>2, <1>3, SumToStep

(* No unit lies past the grid: the shares add up to a slice's units at     *)
(* most, for every batch of lengths.                                       *)
THEOREM UnitsFitTheGrid ==
  ASSUME NEW c, IsCall(c), NEW r \in 0 .. c.world - 1
  PROVE  first_unit(c, r, c.B) <= units_total(c)
<1> DEFINE U == units_total(c)
           s == spare_tiles(c, r)
           T == [j \in Requests(c) |-> tiles_of(c, r, j) - 1]
           F(m) == first_unit(c, r, m)
           Bound(m) == /\ s = 0 => F(m) = m
                       /\ s * (F(m) - m) <= SumTo(T, m) * (U - c.B)
           bad == {m \in 0 .. c.B : ~ Bound(m)}
<1>1. U \in Nat /\ c.B \in Nat \ {0} /\ c.B <= U /\ s \in Nat /\ s = SumTo(T, c.B)
  BY GridFits, CallFacts, TilesOf DEF spare_tiles
<1>2. \A i \in Requests(c) :
        /\ T[i] = tiles_of(c, r, i) - 1 /\ T[i] \in Nat /\ units(c, r, i) \in Nat /\ i \in Nat
        /\ s = 0 => units(c, r, i) = 1
        /\ s * (units(c, r, i) - 1) <= T[i] * (U - c.B)
  <2> TAKE i \in Requests(c)
  <2>1. tiles_of(c, r, i) \in Nat \ {0}
    BY TilesOf
  <2>2. QED
    BY <1>1, <2>1, UnitsOf DEF Requests
<1>3. /\ \A m \in 0 .. c.B : F(m) \in Nat /\ SumTo(T, m) \in Nat
      /\ F(0) = 0 /\ SumTo(T, 0) = 0
      /\ \A i \in Requests(c) : /\ F(i + 1) = F(i) + units(c, r, i)
                              /\ SumTo(T, i + 1) = SumTo(T, i) + T[i]
  <2>1. \A m \in 0 .. c.B : SumTo(T, m) \in Nat
    BY <1>1, <1>2, SumToIsNat DEF Requests
  <2>2. QED
    BY <1>2, <2>1, FirstUnitIsNat, SumToStep
<1> HIDE DEF U, s, T, F
<1>4. bad = {}
  <2> SUFFICES ASSUME bad # {} PROVE FALSE
    OBVIOUS
  <2>1. PICK m \in bad : \A y \in bad : m <= y
    BY LeastNatural, bad \subseteq Nat
  <2>2. m # 0
    <3>1. s * (F(0) - 0) = 0 /\ SumTo(T, 0) * (U - c.B) = 0
      BY <1>1, <1>3
    <3>2. Bound(0)
      BY <1>3, <3>1
    <3>3. QED
      BY <2>1, <3>2
  <2> DEFINE i == m - 1
  <2>3. i \in Requests(c) /\ i + 1 = m /\ i \in 0 .. c.B /\ i \in Nat /\ m \in 0 .. c.B
    BY <1>1, <2>1, <2>2 DEF Requests
  <2>4. Bound(i)
    BY <2>1, <2>3
  <2> HIDE DEF i
  <2>5. F(m) = F(i) + units(c, r, i) /\ SumTo(T, m) = SumTo(T, i) + T[i]
    BY <1>3, <2>3
  <2> DEFINE u == units(c, r, i)
             x == F(i)
             y == SumTo(T, i)
             d == U - c.B
  <2>6. u \in Nat /\ x \in Nat /\ y \in Nat /\ d \in Nat /\ T[i] \in Nat
        /\ s * (u - 1) <= T[i] * d /\ s * (x - i) <= y * d
    <3>1. u \in Nat /\ x \in Nat /\ y \in Nat /\ T[i] \in Nat
      BY <1>2, <1>3, <2>3
    <3>2. d \in Nat
      BY <1>1
    <3>3. s * (u - 1) <= T[i] * d
      BY <1>2, <2>3
    <3>4. s * (x - i) <= y * d
      BY <2>4
    <3>5. QED
      BY <3>1, <3>2, <3>3, <3>4
  <2> HIDE DEF u, x, y, d
  <2>7. s * ((x + u) - (i + 1)) <= (y + T[i]) * d
    <3>1. /\ s * ((x + u) - (i + 1)) = s * (x - i) + s * (u - 1)
          /\ (y + T[i]) * d = y * d + T[i] * d
          /\ {s * (x - i), s * (u - 1), y * d, T[i] * d} \subseteq Int
      BY <1>1, <2>3, <2>6, SMT
    <3>2. QED
      BY <2>6, <3>1
  <2>8. s = 0 => F(m) = m
    BY <1>2, <1>3, <2>3, <2>4, <2>5
  <2>9. Bound(m)
    BY <2>3, <2>5, <2>7, <2>8 DEF u, x, y, d
  <2>10. QED
    BY <2>1, <2>9
<1>5. Bound(c.B)
  BY <1>1, <1>4
<1> HIDE DEF bad
<1>6. F(c.B) <= U
  <2>1. F(c.B) \in Nat
    BY <1>1, <1>3
  <2>2. CASE s = 0
    BY <1>1, <1>5, <2>2
  <2>3. CASE s # 0
    <3> DEFINE a == F(c.B) - c.B
               b == U - c.B
    <3>1. a \in Int /\ b \in Int /\ s \in Nat \ {0} /\ s * a <= s * b
      BY <1>1, <1>5, <2>1, <2>3
    <3> HIDE DEF a, b
    <3>2. b + 1 <= a => (b + 1) * s <= a * s
      BY <3>1, TimesMonotone
    <3>3. (b + 1) * s = s * b + s /\ a * s = s * a /\ s * a \in Int /\ s * b \in Int
      BY <3>1
    <3>4. a <= b
      BY <3>1, <3>2, <3>3
    <3>5. QED
      BY <1>1, <2>1, <3>4 DEF a, b
  <2>4. QED
    BY <2>2, <2>3
<1>7. QED
  BY <1>6 DEF F, U

-----------------------------------------------------------------------------
LEMMA LeastIsMin ==
  ASSUME NEW T, T \subseteq Int, NEW x \in T, \A y \in T : x <= y
  PROVE  Min(T) = x
<1> DEFINE m == Min(T)
<1>1. m \in T /\ \A y \in T : m <= y
  BY DEF Min
<1> HIDE DEF m
<1>2. m \in Int /\ x \in Int /\ m <= x /\ x <= m
  BY <1>1
<1>3. QED
  BY <1>2 DEF m

(* The units of the requests before m: of any m, as a wave's scan goes on  *)
(* past the batch.                                                         *)
UnitsBefore(c, r, m) == SumTo([k \in Nat |-> mine(c, r, k)], m)

LEMMA UnitsBeforeIs ==
  ASSUME NEW c, IsCall(c), NEW r \in 0 .. c.world - 1
  PROVE  /\ UnitsBefore(c, r, 0) = 0
         /\ \A m \in Nat : /\ mine(c, r, m) \in Nat /\ UnitsBefore(c, r, m) \in Nat
                          /\ UnitsBefore(c, r, m + 1) = UnitsBefore(c, r, m) + mine(c, r, m)
<1> DEFINE f == [k \in Nat |-> mine(c, r, k)]
<1>1. ASSUME NEW m \in Nat PROVE f[m] = mine(c, r, m) /\ mine(c, r, m) \in Nat
  <2>1. c.B \in Nat
    BY CallFacts
  <2>2. \A i \in Requests(c) : tiles_of(c, r, i) \in Nat
    BY TilesOf
  <2>3. \A i \in Requests(c) : units(c, r, i) \in Nat
    BY <2>2, UnitsOf
  <2>4. QED
    BY <2>1, <2>3 DEF mine, Requests
<1>2. \A m : UnitsBefore(c, r, m) = SumTo(f, m)
  BY DEF UnitsBefore
<1> HIDE DEF f
<1>3. \A m \in Nat : SumTo(f, m) \in Nat
  <2> TAKE m \in Nat
  <2>1. m \in 0 .. m /\ \A k \in 0 .. m - 1 : f[k] \in Nat
    BY <1>1
  <2>2. QED
    BY <2>1, SumToIsNat
<1>4. QED
  BY <1>1, <1>2, <1>3, SumToStep

LEMMA UnitsBeforeMonotone ==
  ASSUME NEW c, IsCall(c), NEW r \in 0 .. c.world - 1, NEW a \in Nat, NEW b \in Nat, a <= b
  PROVE  UnitsBefore(c, r, a) <= UnitsBefore(c, r, b)
<1> DEFINE G(m) == UnitsBefore(c, r, m)
           bad == {k \in Nat : a <= k /\ G(k) < G(a)}
<1>1. \A m \in Nat : G(m) \in Nat /\ G(m) <= G(m + 1)
  BY UnitsBeforeIs
<1> HIDE DEF G
<1>2. bad = {}
  <2> SUFFICES ASSUME bad # {} PROVE FALSE
    OBVIOUS
  <2>1. PICK k \in bad : \A y \in bad : k <= y
    BY LeastNatural, bad \subseteq Nat
  <2>2. k # a /\ k \in Nat /\ a <= k /\ G(k) < G(a)
    BY <1>1, <2>1
  <2>3. k - 1 \in Nat /\ a <= k - 1 /\ k - 1 \notin bad /\ (k - 1) + 1 = k
    BY <2>1, <2>2
  <2>4. G(a) <= G(k - 1) /\ G(k - 1) <= G((k - 1) + 1)
    BY <1>1, <2>3
  <2>5. QED
    BY <1>1, <2>2, <2>3, <2>4
<1>3. QED
  BY <1>1, <1>2 DEF G

LEMMA UnitsBeforeIsFirst ==
  ASSUME NEW c, IsCall(c), NEW r \in 0 .. c.world - 1
  PROVE  \A m \in 0 .. c.B : UnitsBefore(c, r, m) = first_unit(c, r, m)
<1> DEFINE G(m) == UnitsBefore(c, r, m)
           F(m) == first_unit(c, r, m)
           bad == {m \in 0 .. c.B : G(m) # F(m)}
<1>1. c.B \in Nat /\ G(0) = F(0)
      /\ \A i \in Requests(c) : G(i + 1) = G(i) + units(c, r, i) /\ F(i + 1) = F(i) + units(c, r, i)
  <2>1. \A i \in Requests(c) : i \in Nat /\ i < c.B
    BY CallFacts DEF Requests
  <2>2. \A i \in Requests(c) : G(i + 1) = G(i) + units(c, r, i)
    BY <2>1, UnitsBeforeIs DEF mine
  <2>3. QED
    BY <2>2, CallFacts, UnitsBeforeIs, FirstUnitIsNat
<1> HIDE DEF G, F
<1> SUFFICES ASSUME bad # {} PROVE FALSE
  BY DEF G, F
<1>2. PICK m \in bad : \A y \in bad : m <= y
  BY LeastNatural, bad \subseteq Nat
<1>3. m \in 0 .. c.B /\ G(m) # F(m) /\ m # 0
  BY <1>1, <1>2
<1>4. m - 1 \in Requests(c) /\ m - 1 \in 0 .. c.B /\ m - 1 \notin bad /\ (m - 1) + 1 = m
  BY <1>1, <1>2, <1>3 DEF Requests
<1>5. QED
  BY <1>1, <1>3, <1>4

(* A block's scan goes on from where the blocks before it stopped.         *)
LEMMA ScanIs ==
  ASSUME NEW c, IsCall(c), NEW r \in 0 .. c.world - 1, NEW b \in Nat
  PROVE  \A l \in Lanes : upto(c, r, b, l)
           = UnitsBefore(c, r, b * WaveSize + l + 1) - UnitsBefore(c, r, b * WaveSize)
<1> DEFINE f == [m \in Lanes |-> mine(c, r, b * WaveSize + m)]
           G(m) == UnitsBefore(c, r, m)
           o == b * WaveSize
           Same(m) == SumTo(f, m) = G(o + m) - G(o)
           bad == {m \in 0 .. WaveSize : ~ Same(m)}
<1>1. WaveSize \in Nat \ {0} /\ o \in Nat
  <2>1. WaveSize \in Nat \ {0}
    BY SplitAssumption
  <2>2. QED
    BY <2>1, SMT
<1> HIDE DEF o
<1>2. /\ SumTo(f, 0) = 0 /\ \A m \in Nat : G(m) \in Nat
      /\ \A m \in Lanes : /\ SumTo(f, m + 1) = SumTo(f, m) + f[m] /\ f[m] = mine(c, r, o + m)
                          /\ G((o + m) + 1) = G(o + m) + f[m] /\ f[m] \in Nat
  <2>1. ASSUME NEW m \in Lanes PROVE m \in Nat /\ o + m \in Nat
    BY <1>1 DEF Lanes
  <2>2. SumTo(f, 0) = 0 /\ \A m \in Lanes : SumTo(f, m + 1) = SumTo(f, m) + f[m]
    BY <2>1, SumToStep
  <2>3. ASSUME NEW m \in Lanes PROVE f[m] = mine(c, r, o + m)
    BY DEF o
  <2> HIDE DEF f
  <2>4. QED
    BY <2>1, <2>2, <2>3, UnitsBeforeIs
<1> HIDE DEF f, G
<1>3. bad = {}
  <2> SUFFICES ASSUME bad # {} PROVE FALSE
    OBVIOUS
  <2>1. PICK m \in bad : \A y \in bad : m <= y
    BY <1>1, LeastNatural, bad \subseteq Nat
  <2>2. m \in 0 .. WaveSize /\ ~ Same(m)
    BY <2>1
  <2>3. m # 0
    BY <1>1, <1>2, <2>2
  <2>4. m - 1 \in Lanes /\ m - 1 \in 0 .. WaveSize /\ Same(m - 1) /\ (m - 1) + 1 = m
    BY <1>1, <2>1, <2>2, <2>3 DEF Lanes
  <2>5. (o + (m - 1)) + 1 = o + m /\ o + (m - 1) \in Nat
    BY <1>1, <2>2, <2>3
  <2>6. SumTo(f, m) = SumTo(f, m - 1) + f[m - 1] /\ G(o + m) = G(o + (m - 1)) + f[m - 1]
        /\ f[m - 1] \in Nat
    BY <1>2, <2>4, <2>5
  <2>7. QED
    BY <1>1, <1>2, <2>2, <2>4, <2>5, <2>6
<1>4. ASSUME NEW l \in Lanes PROVE upto(c, r, b, l) = G(o + l + 1) - G(o)
  <2>1. l + 1 \in 0 .. WaveSize /\ o + (l + 1) = o + l + 1
    BY <1>1 DEF Lanes
  <2>2. Same(l + 1)
    BY <1>3, <2>1
  <2>3. upto(c, r, b, l) = SumTo(f, l + 1)
    BY DEF upto, f
  <2>4. QED
    BY <2>1, <2>2, <2>3
<1>5. QED
  BY <1>4 DEF G, o

LEMMA BlocksBefore ==
  ASSUME NEW c, IsCall(c), NEW r \in 0 .. c.world - 1
  PROVE  \A b \in Nat : first(c, r, b) = UnitsBefore(c, r, b * WaveSize)
<1> DEFINE g == [k \in Nat |-> upto(c, r, k, WaveSize - 1)]
           G(m) == UnitsBefore(c, r, m)
           bad == {b \in Nat : SumTo(g, b) # G(b * WaveSize)}
<1>1. WaveSize \in Nat \ {0} /\ WaveSize - 1 \in Lanes
  BY SplitAssumption DEF Lanes
<1>2. SumTo(g, 0) = 0 /\ G(0) = 0 /\ \A m \in Nat : G(m) \in Nat
  BY SumToStep, UnitsBeforeIs
<1>3. ASSUME NEW b \in Nat
      PROVE  SumTo(g, b + 1) = SumTo(g, b) + (G(b * WaveSize + WaveSize) - G(b * WaveSize))
  <2>1. upto(c, r, b, WaveSize - 1) = G(b * WaveSize + (WaveSize - 1) + 1) - G(b * WaveSize)
    BY <1>1, ScanIs
  <2>2. b * WaveSize + (WaveSize - 1) + 1 = b * WaveSize + WaveSize
    BY <1>1, b * WaveSize \in Int
  <2>3. SumTo(g, b + 1) = SumTo(g, b) + g[b] /\ g[b] = upto(c, r, b, WaveSize - 1)
    BY SumToStep
  <2>4. QED
    BY <2>1, <2>2, <2>3
<1>4. \A b : first(c, r, b) = SumTo(g, b)
  BY DEF first
<1> HIDE DEF g, G
<1> SUFFICES ASSUME bad # {} PROVE FALSE
  BY <1>4 DEF G
<1>5. PICK b \in bad : \A y \in bad : b <= y
  BY LeastNatural, bad \subseteq Nat
<1>6. b # 0
  <2>1. 0 * WaveSize = 0
    BY <1>1
  <2>2. QED
    BY <1>2, <1>5, <2>1
<1> DEFINE a == b - 1
<1>7. a \in Nat /\ a + 1 = b /\ a \notin bad
  BY <1>5, <1>6
<1> HIDE DEF a
<1>8. a * WaveSize + WaveSize = b * WaveSize /\ a * WaveSize \in Nat /\ b * WaveSize \in Nat
  <2>1. (a + 1) * WaveSize = a * WaveSize + WaveSize /\ a * WaveSize \in Nat
    BY <1>1, <1>7
  <2>2. QED
    BY <1>1, <1>7, <2>1
<1>9. SumTo(g, b) = SumTo(g, a) + (G(b * WaveSize) - G(a * WaveSize)) /\ SumTo(g, a) = G(a * WaveSize)
  BY <1>3, <1>7, <1>8
<1>10. QED
  BY <1>2, <1>5, <1>8, <1>9

-----------------------------------------------------------------------------
(* owner undoes first_unit: each of a request's units finds the request,   *)
(* its first unit and its count, however many waves of lanes the batch     *)
(* takes; a unit nobody has finds none.                                    *)
LEMMA PastIs ==
  ASSUME NEW c, IsCall(c), NEW r \in 0 .. c.world - 1, NEW unit \in Nat, NEW b \in Nat
  PROVE  past(c, r, unit, b) = {l \in Lanes : UnitsBefore(c, r, b * WaveSize + l + 1) > unit}
<1>1. WaveSize \in Nat \ {0} /\ b * WaveSize \in Nat
  BY SplitAssumption, SMT
<1>2. \A l \in Lanes : b * WaveSize + l + 1 \in Nat
  BY <1>1 DEF Lanes
<1>3. first(c, r, b) = UnitsBefore(c, r, b * WaveSize) /\ UnitsBefore(c, r, b * WaveSize) \in Nat
  BY <1>1, BlocksBefore, UnitsBeforeIs
<1>4. \A l \in Lanes : /\ UnitsBefore(c, r, b * WaveSize + l + 1) \in Nat
                      /\ upto(c, r, b, l) = UnitsBefore(c, r, b * WaveSize + l + 1)
                                              - UnitsBefore(c, r, b * WaveSize)
  BY <1>2, ScanIs, UnitsBeforeIs
<1>5. QED
  BY <1>3, <1>4 DEF past

THEOREM OwnerHasTheUnit ==
  ASSUME NEW c, IsCall(c), NEW r \in 0 .. c.world - 1, NEW i \in Requests(c), NEW unit \in Nat,
         first_unit(c, r, i) <= unit, unit < first_unit(c, r, i) + units(c, r, i)
  PROVE  owner(c, r, unit) = [req |-> i, first |-> first_unit(c, r, i), count |-> units(c, r, i)]
<1> DEFINE G(m) == UnitsBefore(c, r, m)
           b == i \div WaveSize
           l == i % WaveSize
           blocks == 0 .. cdiv(c.B, WaveSize) - 1
           hits == {k \in blocks : past(c, r, unit, k) # {}}
<1>1. WaveSize \in Nat \ {0} /\ c.B \in Nat \ {0} /\ i \in Nat /\ i < c.B
  BY SplitAssumption, CallFacts DEF Requests
<1>2. b \in Int /\ l \in Lanes /\ i = b * WaveSize + l
  BY <1>1, Division DEF Lanes
<1> HIDE DEF b, l
<1>3. l \in Nat /\ l < WaveSize /\ b * WaveSize \in Int
  BY <1>1, <1>2 DEF Lanes
<1>4. b \in Nat
  <2>1. (0 - 1) * WaveSize + WaveSize = 0
    BY <1>1
  <2>2. ~(b <= 0 - 1)
    BY <1>1, <1>2, <1>3, <2>1, TimesMonotone
  <2>3. QED
    BY <1>2, <2>2
<1>5. b \in blocks
  <2>1. cdiv(c.B, WaveSize) \in Int /\ (b < cdiv(c.B, WaveSize) <=> b * WaveSize < c.B)
    <3>1. c.B \in Int /\ b \in Int /\ WaveSize \in Nat \ {0}
      BY <1>1, <1>2
    <3>2. QED
      BY <3>1, CeilDivision
  <2>2. b * WaveSize < c.B
    BY <1>1, <1>2, <1>3
  <2>3. QED
    BY <1>4, <2>1, <2>2
<1>6. /\ \A m \in Nat : G(m) \in Nat
      /\ G(i) <= unit /\ unit < G(i + 1) /\ G(i + 1) = G(i) + units(c, r, i)
      /\ G(i) = first_unit(c, r, i) /\ mine(c, r, i) = units(c, r, i) /\ units(c, r, i) \in Nat
  <2>1. i \in 0 .. c.B
    BY <1>1
  <2>2. mine(c, r, i) = units(c, r, i)
    BY <1>1 DEF mine
  <2>3. QED
    BY <1>1, <2>1, <2>2, UnitsBeforeIs, UnitsBeforeIsFirst
<1>7. ASSUME NEW m \in Nat, G(m + 1) > unit PROVE i <= m
  <2>1. m + 1 <= i => G(m + 1) <= G(i)
    BY <1>1, UnitsBeforeMonotone
  <2> HIDE DEF G
  <2>2. QED
    BY <1>1, <1>6, <1>7, <2>1
<1> HIDE DEF G
<1>8. \A k \in Nat : past(c, r, unit, k) = {x \in Lanes : G(k * WaveSize + x + 1) > unit}
  BY PastIs DEF G
<1>9. l \in past(c, r, unit, b)
  <2>1. b * WaveSize + l + 1 = i + 1
    BY <1>1, <1>2, <1>3
  <2>2. QED
    BY <1>2, <1>4, <1>6, <1>8, <2>1
<1>10. ASSUME NEW k \in Nat, NEW x \in past(c, r, unit, k)
       PROVE  b <= k /\ (k = b => l <= x) /\ x \in Nat
  <2>1. x \in Lanes /\ G(k * WaveSize + x + 1) > unit
    BY <1>8, <1>10
  <2>2. x \in Nat /\ x < WaveSize /\ k * WaveSize \in Nat /\ k * WaveSize + x \in Nat
    BY <1>1, <2>1 DEF Lanes
  <2>3. i <= k * WaveSize + x
    BY <1>7, <2>1, <2>2
  <2>4. ~(k + 1 <= b)
    <3>1. (k + 1) * WaveSize = k * WaveSize + WaveSize
      BY <1>1
    <3>2. k + 1 <= b => (k + 1) * WaveSize <= b * WaveSize
      BY <1>1, <1>4, TimesMonotone
    <3>3. QED
      BY <1>1, <1>2, <1>3, <2>2, <2>3, <3>1, <3>2
  <2>5. k = b => l <= x
    BY <1>2, <1>3, <2>2, <2>3
  <2>6. QED
    BY <1>4, <2>2, <2>4, <2>5
<1>11. Min(past(c, r, unit, b)) = l
  <2>1. past(c, r, unit, b) \subseteq Int /\ \A x \in past(c, r, unit, b) : l <= x
    BY <1>4, <1>10
  <2>2. QED
    BY <1>9, <2>1, LeastIsMin
<1>12. b \in hits /\ Min(hits) = b
  <2>1. b \in hits
    BY <1>5, <1>9
  <2>2. \A k \in hits : k \in Nat
    BY <1>1, CeilDivision, 0 \in Int
  <2>3. ASSUME NEW k \in hits PROVE b <= k
    <3>1. k \in Nat /\ past(c, r, unit, k) # {}
      BY <2>2
    <3>2. QED
      BY <1>10, <3>1
  <2>4. hits \subseteq Int
    BY <2>2
  <2> HIDE DEF hits
  <2>5. QED
    BY <2>1, <2>3, <2>4, LeastIsMin
<1>13. first(c, r, b) + upto(c, r, b, l) - units(c, r, i) = first_unit(c, r, i)
  <2>1. first(c, r, b) = G(b * WaveSize) /\ b * WaveSize \in Nat
    BY <1>1, <1>4, BlocksBefore DEF G
  <2>2. upto(c, r, b, l) = G(b * WaveSize + l + 1) - G(b * WaveSize)
    BY <1>2, <1>4, ScanIs DEF G
  <2>3. b * WaveSize + l + 1 = i + 1
    BY <1>1, <1>2, <1>3
  <2>4. QED
    BY <1>1, <1>6, <2>1, <2>2, <2>3
<1>14. hits # {} /\ Min(hits) * WaveSize + Min(past(c, r, unit, Min(hits))) = i
  BY <1>2, <1>11, <1>12
<1>15. QED
  BY <1>6, <1>11, <1>12, <1>13, <1>14 DEF owner

(* A unit nobody has: owner gives no request of the batch.                 *)
LEMMA NobodysUnit ==
  ASSUME NEW c, IsCall(c), NEW r \in 0 .. c.world - 1, NEW unit \in Nat, first_unit(c, r, c.B) <= unit
  PROVE  owner(c, r, unit).req = c.B
<1> DEFINE G(m) == UnitsBefore(c, r, m)
           blocks == 0 .. cdiv(c.B, WaveSize) - 1
           hits == {k \in blocks : past(c, r, unit, k) # {}}
<1>1. WaveSize \in Nat \ {0} /\ c.B \in Nat \ {0}
  BY SplitAssumption, CallFacts
<1>2. \A m \in Nat : G(m) \in Nat /\ G(m) <= unit
  <2> TAKE m \in Nat
  <2>1. G(m) \in Nat /\ G(c.B) \in Nat /\ G(c.B) <= unit
    <3>1. c.B \in Nat /\ c.B \in 0 .. c.B
      BY <1>1
    <3>2. QED
      BY <3>1, UnitsBeforeIs, UnitsBeforeIsFirst
  <2>2. m <= c.B => G(m) <= G(c.B)
    BY <1>1, UnitsBeforeMonotone
  <2>3. c.B <= m => G(m) = G(c.B)
    <3> DEFINE bad == {k \in Nat : c.B <= k /\ G(k) # G(c.B)}
    <3>1. \A k \in Nat : c.B <= k => G(k + 1) = G(k)
      <4> TAKE k \in Nat
      <4>1. c.B <= k => mine(c, r, k) = 0
        BY <1>1 DEF mine
      <4>2. QED
        BY <4>1, UnitsBeforeIs
    <3> HIDE DEF G
    <3>2. bad = {}
      <4> SUFFICES ASSUME bad # {} PROVE FALSE
        OBVIOUS
      <4>1. PICK k \in bad : \A y \in bad : k <= y
        BY LeastNatural, bad \subseteq Nat
      <4>2. k # c.B /\ k \in Nat /\ c.B <= k /\ G(k) # G(c.B)
        BY <4>1
      <4>3. k - 1 \in Nat /\ c.B <= k - 1 /\ k - 1 \notin bad /\ (k - 1) + 1 = k
        BY <1>1, <4>1, <4>2
      <4>4. QED
        BY <3>1, <4>2, <4>3
    <3>3. QED
      BY <3>2
  <2> HIDE DEF G
  <2>4. QED
    BY <1>1, <2>1, <2>2, <2>3
<1>3. hits = {}
  <2> SUFFICES ASSUME NEW k \in blocks, NEW l \in past(c, r, unit, k) PROVE FALSE
    OBVIOUS
  <2>1. k \in Nat
    BY <1>1, CeilDivision, 0 \in Int
  <2>2. l \in Lanes /\ G(k * WaveSize + l + 1) > unit
    BY <2>1, PastIs
  <2>3. k * WaveSize + l + 1 \in Nat
    <3>1. k * WaveSize \in Nat
      BY <1>1, <2>1
    <3>2. QED
      BY <1>1, <2>2, <3>1 DEF Lanes
  <2> HIDE DEF G
  <2>4. QED
    BY <1>2, <2>2, <2>3
<1>4. QED
  BY <1>3 DEF owner

LEMMA UnitHasRequest ==
  ASSUME NEW c, IsCall(c), NEW r \in 0 .. c.world - 1, NEW unit \in Nat, unit < first_unit(c, r, c.B)
  PROVE  \E i \in Requests(c) :
           first_unit(c, r, i) <= unit /\ unit < first_unit(c, r, i) + units(c, r, i)
<1> DEFINE F(m) == first_unit(c, r, m)
           above == {m \in 0 .. c.B : unit < F(m)}
<1>1. c.B \in Nat /\ F(0) = 0 /\ \A m \in 0 .. c.B : F(m) \in Nat
      /\ \A i \in Requests(c) : F(i + 1) = F(i) + units(c, r, i)
  BY CallFacts, FirstUnitIsNat
<1> HIDE DEF F
<1>2. c.B \in above
  BY <1>1 DEF F
<1>3. PICK m \in above : \A y \in above : m <= y
  BY <1>2, LeastNatural, above \subseteq Nat
<1>4. m # 0 /\ m \in 0 .. c.B /\ unit < F(m)
  BY <1>1, <1>3
<1>5. m - 1 \in Requests(c) /\ m - 1 \in 0 .. c.B /\ m - 1 \notin above /\ (m - 1) + 1 = m
  BY <1>1, <1>3, <1>4 DEF Requests
<1>6. F(m - 1) <= unit /\ unit < F(m - 1) + units(c, r, m - 1)
  BY <1>1, <1>4, <1>5
<1>7. QED
  BY <1>5, <1>6 DEF F

(* A request's units lie in the grid.                                      *)
LEMMA UnitsInside ==
  ASSUME NEW c, IsCall(c), NEW r \in 0 .. c.world - 1, NEW i \in Requests(c)
  PROVE  first_unit(c, r, i) \in Nat /\ units(c, r, i) \in Nat \ {0}
         /\ first_unit(c, r, i) + units(c, r, i) <= units_total(c)
<1>1. c.B \in Nat /\ i \in Nat /\ i + 1 \in Nat /\ i + 1 <= c.B /\ i \in 0 .. c.B /\ i + 1 \in 0 .. c.B
      /\ c.B \in 0 .. c.B
  BY CallFacts DEF Requests
<1>2. UnitsBefore(c, r, i + 1) <= UnitsBefore(c, r, c.B)
  BY <1>1, UnitsBeforeMonotone
<1>3. first_unit(c, r, i + 1) <= first_unit(c, r, c.B)
  BY <1>1, <1>2, UnitsBeforeIsFirst
<1>4. first_unit(c, r, i) \in Nat /\ first_unit(c, r, c.B) \in Nat
      /\ first_unit(c, r, i + 1) = first_unit(c, r, i) + units(c, r, i)
  BY <1>1, FirstUnitIsNat
<1>5. units(c, r, i) \in Nat \ {0}
  <2>1. tiles_of(c, r, i) \in Nat
    BY TilesOf
  <2>2. QED
    BY <2>1, UnitsOf
<1>6. first_unit(c, r, c.B) <= units_total(c) /\ units_total(c) \in Nat
  BY UnitsFitTheGrid, GridFits
<1>7. QED
  BY <1>3, <1>4, <1>5, <1>6

(* Decode's CTAs and the merge's are the same, for every batch.            *)
THEOREM MergeReadsDecode ==
  ASSUME NEW c, IsCall(c), NEW r \in 0 .. c.world - 1
  PROVE  MergeReads(c, r)
<1> DEFINE U == units_total(c)
           o(cta) == owner(c, r, unit_of(c, cta))
<1>1. U \in Nat \ {0} /\ slices_of(c) \in Nat \ {0} /\ n_ctas(c) = slices_of(c) * U
      /\ n_ctas(c) \in Nat /\ n_ctas(c) <= NumCU /\ U <= n_ctas(c) /\ NumCU \in Nat
  <2>1. U \in Nat \ {0} /\ slices_of(c) \in Nat \ {0} /\ n_ctas(c) = slices_of(c) * U
        /\ n_ctas(c) <= NumCU /\ U <= n_ctas(c) /\ NumCU \in Nat
    BY GridFits, CallFacts, SplitAssumption
  <2>2. slices_of(c) * U \in Nat
    BY <2>1
  <2>3. QED
    BY <2>1, <2>2
<1>2. ASSUME NEW k \in Int, NEW u \in 0 .. U - 1, NEW cta \in Int, cta = k * U + u
      PROVE  slice_of(c, cta) = k /\ unit_of(c, cta) = u
  <2> DEFINE a == cta \div U
             s == cta % U
  <2>1. a \in Int /\ s \in 0 .. U - 1 /\ cta = a * U + s
    BY <1>1, Division
  <2>2. slice_of(c, cta) = a /\ unit_of(c, cta) = s
    BY DEF slice_of, unit_of
  <2> HIDE DEF a, s, U
  <2>3. a * U + s = k * U + u /\ u \in 0 .. U - 1 /\ U \in Nat \ {0} /\ k \in Int
    BY <1>1, <1>2, <2>1
  <2>4. a = k /\ s = u
    BY <2>1, <2>3, PlaceIsUnique
  <2>5. QED
    BY <2>2, <2>4
<1>3. ASSUME NEW i \in Requests(c), NEW row \in 0 .. c.q_len * c.H - 1,
             NEW cta \in merge_ctas(c, r, i, row)
      PROVE  /\ cta < n_ctas(c) /\ slice_of(c, cta) = merge_slice(c, row)
             /\ merge_slot(c, row) < live_rows(c, slice_of(c, cta))
             /\ o(cta).req = i /\ o(cta).count = units(c, r, i)
             /\ unit_of(c, cta) - o(cta).first = cta - Min(merge_ctas(c, r, i, row))
  <2> DEFINE k == merge_slice(c, row)
             F == first_unit(c, r, i)
             n == units(c, r, i)
             cta0 == k * U + F
             u == cta - k * U
  <2>1. k \in Nat /\ k * U \in Nat /\ merge_slot(c, row) < live_rows(c, k)
    <3>1. k \in Nat /\ merge_slot(c, row) < live_rows(c, k)
      BY RowPlace
    <3> HIDE DEF k
    <3>2. k * U \in Nat
      BY <1>1, <3>1
    <3>3. QED
      BY <3>1, <3>2 DEF k
  <2>2. F \in Nat /\ n \in Nat \ {0} /\ F + n <= U
    BY UnitsInside
  <2>3. merge_ctas(c, r, i, row) = cta0 .. cta0 + n - 1
    BY DEF merge_ctas
  <2>4. k + 1 <= slices_of(c)
    <3>1. slices_of(c) \in Int /\ (k < slices_of(c) <=> k * rows(c) < c.q_len * c.H)
      <4>1. c.q_len * c.H \in Int /\ k \in Int /\ rows(c) \in Nat \ {0}
        BY <2>1, CallFacts
      <4>2. QED
        BY <4>1, CeilDivision DEF slices_of
    <3>2. k * rows(c) < c.q_len * c.H
      <4>1. k * rows(c) + merge_slot(c, row) = row /\ merge_slot(c, row) \in Nat
        BY RowPlace
      <4>2. k * rows(c) \in Int /\ c.q_len * c.H \in Nat
        BY <2>1, CallFacts
      <4>3. QED
        BY <4>1, <4>2
    <3>3. QED
      BY <2>1, <3>1, <3>2
  <2> HIDE DEF k, F, n
  <2>5. cta \in Int /\ F <= u /\ u < F + n /\ u \in 0 .. U - 1 /\ cta = k * U + u
    <3> DEFINE kU == k * U
    <3>1. kU \in Nat /\ U \in Nat
      BY <1>1, <2>1
    <3>2. cta \in kU + F .. kU + F + n - 1
      BY <1>3, <2>3
    <3> HIDE DEF kU
    <3>3. cta \in Int /\ kU + F <= cta /\ cta <= kU + F + n - 1
      BY <2>2, <3>1, <3>2
    <3>4. F <= cta - kU /\ cta - kU < F + n /\ cta - kU \in 0 .. U - 1 /\ cta = kU + (cta - kU)
      BY <2>2, <3>1, <3>3
    <3>5. QED
      BY <3>3, <3>4 DEF kU
  <2> HIDE DEF u
  <2>6. slice_of(c, cta) = k /\ unit_of(c, cta) = u
    BY <1>2, <2>1, <2>5
  <2>7. o(cta) = [req |-> i, first |-> F, count |-> n]
    BY <2>2, <2>5, <2>6, OwnerHasTheUnit DEF F, n
  <2>8. cta < n_ctas(c)
    <3>1. (k + 1) * U = k * U + U /\ slices_of(c) * U \in Int
      BY <1>1, <2>1
    <3>2. (k + 1) * U <= slices_of(c) * U
      BY <1>1, <2>1, <2>4, TimesMonotone
    <3>3. QED
      BY <1>1, <2>1, <2>5, <3>1, <3>2
  <2>9. Min(merge_ctas(c, r, i, row)) = cta0
    <3>1. merge_ctas(c, r, i, row) \subseteq Int /\ cta0 \in merge_ctas(c, r, i, row)
          /\ \A y \in merge_ctas(c, r, i, row) : cta0 <= y
      BY <2>1, <2>2, <2>3
    <3>2. QED
      BY <3>1, LeastIsMin
  <2>10. QED
    BY <1>1, <2>1, <2>2, <2>5, <2>6, <2>7, <2>8, <2>9 DEF k, n
<1>4. ASSUME NEW i \in Requests(c) PROVE units(c, r, i) <= NumCU
  <2>1. first_unit(c, r, i) \in Nat /\ units(c, r, i) \in Nat /\ first_unit(c, r, i) + units(c, r, i) <= U
    BY UnitsInside
  <2>2. QED
    BY <1>1, <2>1
<1>5. ASSUME NEW cta \in 0 .. n_ctas(c) - 1, o(cta).req < c.B, live_rows(c, slice_of(c, cta)) > 0
      PROVE  cta \in merge_ctas(c, r, o(cta).req, slice_of(c, cta) * rows(c))
  <2> DEFINE k == slice_of(c, cta)
             u == unit_of(c, cta)
  <2>1. k \in Int /\ u \in 0 .. U - 1 /\ cta = k * U + u
    <3>1. cta \in Int
      BY <1>1
    <3>2. QED
      BY <1>1, <3>1, Division DEF slice_of, unit_of
  <2> HIDE DEF k
  <2>2. c.B \in Nat /\ first_unit(c, r, c.B) \in Nat
    <3>1. c.B \in Nat /\ c.B \in 0 .. c.B
      BY CallFacts
    <3>2. QED
      BY <3>1, FirstUnitIsNat
  <2>3. u < first_unit(c, r, c.B)
    <3>1. first_unit(c, r, c.B) <= u => o(cta).req = c.B
      BY <1>1, <2>1, NobodysUnit
    <3> HIDE DEF u
    <3>2. QED
      BY <1>1, <1>5, <2>1, <2>2, <3>1
  <2>4. PICK i \in Requests(c) :
          first_unit(c, r, i) <= u /\ u < first_unit(c, r, i) + units(c, r, i)
    BY <1>1, <2>1, <2>3, UnitHasRequest
  <2>5. o(cta).req = i
    BY <1>1, <2>1, <2>4, OwnerHasTheUnit
  <2>6. merge_slice(c, k * rows(c)) = k
    <3>1. k * rows(c) \in Int /\ rows(c) \in Nat \ {0} /\ k * rows(c) = k * rows(c) + 0
      BY <2>1, CallFacts
    <3>2. (k * rows(c)) \div rows(c) \in Int /\ (k * rows(c)) % rows(c) \in 0 .. rows(c) - 1
          /\ k * rows(c) = ((k * rows(c)) \div rows(c)) * rows(c) + ((k * rows(c)) % rows(c))
      BY <3>1, Division
    <3>3. (k * rows(c)) \div rows(c) = k
      <4>1. 0 \in 0 .. rows(c) - 1
        BY <3>1
      <4>2. ((k * rows(c)) \div rows(c)) * rows(c) + ((k * rows(c)) % rows(c)) = k * rows(c) + 0
        BY <3>1, <3>2
      <4>3. QED
        BY <2>1, <3>1, <3>2, <4>1, <4>2, PlaceIsUnique
    <3>4. QED
      BY <3>3 DEF merge_slice
  <2>7. cta \in k * U + first_unit(c, r, i) .. k * U + first_unit(c, r, i) + units(c, r, i) - 1
    <3>1. first_unit(c, r, i) \in Nat /\ units(c, r, i) \in Nat
      BY UnitsInside
    <3>2. k * U \in Int
      BY <1>1, <2>1
    <3>3. QED
      BY <1>1, <2>1, <2>4, <3>1, <3>2
  <2>8. QED
    BY <2>5, <2>6, <2>7 DEF merge_ctas, k
<1>6. QED
  BY <1>3, <1>4, <1>5 DEF MergeReads

-----------------------------------------------------------------------------
(* What MaxSplitTiles is for: the numbers the split divides and the sum it *)
(* divides by are below any limit that MaxSplitTiles * NumCU is below; the *)
(* kernel's 2^20 * 304 is below 2^31.                                      *)
THEOREM SumsIn32Bits ==
  ASSUME NEW c, IsCall(c), NEW r \in 0 .. c.world - 1,
         NEW limit \in Nat, MaxSplitTiles * NumCU < limit
  PROVE  /\ \A i \in Requests(c) :
              (tiles_of(c, r, i) - 1) * (units_total(c) - c.B) < limit
         /\ spare_tiles(c, r) < limit
<1> DEFINE f == [i \in Requests(c) |-> tiles_of(c, r, i) - 1]
           M == MaxSplitTiles
           U == units_total(c)
           bad == {m \in 0 .. c.B : SumTo(f, m) > m * M}
<1>1. /\ M \in Nat \ {0} /\ NumCU \in Nat \ {0} /\ c.B \in Nat \ {0} /\ U \in Nat
      /\ c.B <= U /\ U <= NumCU /\ M * NumCU < limit
  <2>1. U <= n_ctas(c) /\ n_ctas(c) <= NumCU /\ n_ctas(c) = slices_of(c) * U
        /\ U \in Nat /\ slices_of(c) \in Nat /\ c.B <= U
    BY GridFits
  <2>2. slices_of(c) * U \in Int
    BY <2>1
  <2>3. NumCU \in Nat \ {0} /\ M \in Nat \ {0} /\ c.B \in Nat \ {0}
    BY SplitAssumption, CallFacts
  <2>4. QED
    BY <2>1, <2>2, <2>3
<1>2. \A i \in Requests(c) : tiles_of(c, r, i) \in 1 .. M /\ f[i] \in Nat /\ f[i] < M /\ i \in Nat
  <2>1. \A i \in Requests(c) : tiles_of(c, r, i) \in 1 .. M
    BY TilesOf
  <2>2. QED
    BY <1>1, <2>1 DEF Requests
<1> HIDE DEF U, M
<1>3. \A x \in 0 .. M, y \in 0 .. NumCU : x * y <= M * NumCU
  <2> TAKE x \in 0 .. M, y \in 0 .. NumCU
  <2>1. x * y <= M * y /\ y * M <= NumCU * M
    BY <1>1, TimesMonotone
  <2>2. y * M = M * y /\ NumCU * M = M * NumCU /\ {x * y, M * y, M * NumCU} \subseteq Int
    BY <1>1, SMT
  <2>3. QED
    BY <2>1, <2>2
<1>4. \A i \in Requests(c) : (tiles_of(c, r, i) - 1) * (U - c.B) < limit
  <2> TAKE i \in Requests(c)
  <2> DEFINE x == tiles_of(c, r, i) - 1
             y == U - c.B
  <2>1. x \in 0 .. M /\ y \in 0 .. NumCU
    BY <1>1, <1>2
  <2> HIDE DEF x, y
  <2>2. x * y <= M * NumCU /\ x * y \in Int /\ M * NumCU \in Int
    BY <1>1, <1>3, <2>1
  <2>3. x * y < limit
    BY <1>1, <2>2
  <2>4. QED
    BY <2>3 DEF x, y
<1>5. SumTo(f, 0) = 0 /\ \A m \in 0 .. c.B : SumTo(f, m) \in Nat
  <2>1. c.B \in Nat /\ \A k \in 0 .. c.B - 1 : f[k] \in Nat
    BY <1>1, <1>2 DEF Requests
  <2> HIDE DEF f
  <2>2. QED
    BY <2>1, SumToIsNat, SumToStep
<1>6. \A i \in Requests(c) : SumTo(f, i + 1) = SumTo(f, i) + f[i]
  BY <1>2, SumToStep
<1>7. spare_tiles(c, r) = SumTo(f, c.B)
  BY DEF spare_tiles
<1> HIDE DEF f
<1>8. bad = {}
  <2> SUFFICES ASSUME bad # {} PROVE FALSE
    OBVIOUS
  <2>1. PICK m \in bad : \A y \in bad : m <= y
    BY LeastNatural, bad \subseteq Nat
  <2>2. m \in 0 .. c.B /\ SumTo(f, m) > m * M
    BY <2>1
  <2>3. m # 0
    BY <1>1, <1>5, <2>2
  <2> DEFINE i == m - 1
  <2>4. i \in Requests(c) /\ i + 1 = m /\ i \in 0 .. c.B /\ i \notin bad
    BY <1>1, <2>1, <2>2, <2>3 DEF Requests
  <2>5. (i + 1) * M = i * M + M /\ i * M \in Int /\ m * M = (i + 1) * M
    BY <1>1, <2>2, <2>4
  <2> HIDE DEF i
  <2>6. SumTo(f, i) <= i * M /\ SumTo(f, m) = SumTo(f, i) + f[i] /\ SumTo(f, i) \in Nat
    BY <1>5, <1>6, <2>4, <2>5
  <2>7. QED
    BY <1>1, <1>2, <2>2, <2>4, <2>5, <2>6
<1>9. spare_tiles(c, r) < limit
  <2>1. c.B \in 0 .. c.B /\ c.B \in 0 .. NumCU /\ M \in 0 .. M
    BY <1>1
  <2>2. SumTo(f, c.B) <= c.B * M /\ SumTo(f, c.B) \in Nat /\ c.B * M \in Int
    <3>1. c.B * M \in Int /\ SumTo(f, c.B) \in Nat
      BY <1>1, <1>5, <2>1
    <3>2. QED
      BY <1>8, <2>1, <3>1
  <2>3. M * c.B <= M * NumCU /\ M * c.B = c.B * M /\ M * NumCU \in Int
    BY <1>1, <1>3, <2>1
  <2>4. QED
    BY <1>1, <1>7, <2>2, <2>3
<1>10. QED
  BY <1>4, <1>9 DEF U

-----------------------------------------------------------------------------
(* Until the CTA has read its work the launch is that of a rank of a call. *)
LaunchIsCall ==
  call # NoCall => IsCall(call.of) /\ call.rank \in 0 .. call.of.world - 1

LEMMA LaunchInvariant == Spec => []LaunchIsCall
<1>1. Init => LaunchIsCall
  <2> SUFFICES ASSUME Init PROVE LaunchIsCall
    OBVIOUS
  <2>1. PICK c \in Calls : call \in {[of |-> c, rank |-> r] : r \in 0 .. c.world - 1}
    BY DEF Init
  <2>2. PICK r \in 0 .. c.world - 1 : call = [of |-> c, rank |-> r]
    BY <2>1
  <2>3. IsCall(c)
    BY CallsAssumption
  <2>4. QED
    BY <2>2, <2>3 DEF LaunchIsCall
<1>2. LaunchIsCall /\ [Next]_vars => LaunchIsCall'
  <2> SUFFICES ASSUME LaunchIsCall, [Next]_vars PROVE LaunchIsCall'
    OBVIOUS
  <2>1. call' = NoCall \/ call' = call
    <3>1. CASE \E cta \in 0 .. n_ctas(call.of) - 1 : Start(cta)
      BY <3>1 DEF Start
    <3>2. CASE \E w \in Waves : Step(w)
      BY <3>2 DEF Step, Prologue, Begin, accumulate_pv, fetch_v, Drain, Fill, run_softmax, contract_qk
    <3>3. CASE tile_barrier
      BY <3>3 DEF tile_barrier
    <3>4. CASE Done \/ UNCHANGED vars
      BY <3>4 DEF Done, vars
    <3>5. QED
      BY <3>1, <3>2, <3>3, <3>4 DEF Next
  <2>2. QED
    BY <2>1 DEF LaunchIsCall
<1>3. QED
  BY <1>1, <1>2, PTL DEF Spec

(* Every launch's merged rows count each position they may attend once,    *)
(* whatever the lengths, the ranks, the tiles and the machine.             *)
THEOREM EveryPositionOnceHolds == Spec => []EveryPositionOnce
<1>1. LaunchIsCall => EveryPositionOnce
  <2> SUFFICES ASSUME LaunchIsCall, call # NoCall,
                      NEW i \in Requests(call.of), NEW row \in 0 .. call.of.q_len * call.of.H - 1
               PROVE  CountsOnce(call.of, i, row,
                                 [r \in 0 .. call.of.world - 1 |-> units(call.of, r, i)])
    BY DEF EveryPositionOnce
  <2> DEFINE c == call.of
             n == [r \in 0 .. c.world - 1 |-> units(c, r, i)]
  <2>1. IsCall(c)
    BY DEF LaunchIsCall
  <2> HIDE DEF c
  <2>2. i \in Requests(c) /\ row \in 0 .. c.q_len * c.H - 1
    BY DEF c
  <2>3. n \in [0 .. c.world - 1 -> Nat \ {0}]
    BY <2>1, <2>2, UnitsInside
  <2> HIDE DEF n
  <2>4. CountsOnce(c, i, row, n)
    BY <2>1, <2>2, <2>3, PositionsCountedOnce
  <2>5. QED
    BY <2>4 DEF n, c
<1>2. QED
  BY <1>1, LaunchInvariant, PTL

(* Every launch's merge reads the CTAs that decoded its rows, and leaves   *)
(* out none.                                                               *)
THEOREM MergeReadsItsPartsHolds == Spec => []MergeReadsItsParts
<1>1. LaunchIsCall => MergeReadsItsParts
  BY MergeReadsDecode DEF LaunchIsCall, MergeReadsItsParts
<1>2. QED
  BY <1>1, LaunchInvariant, PTL

-----------------------------------------------------------------------------
(***************************************************************************)
(* The decode's walk is in order, for any number of waves of each kind, of *)
(* tiles and of calls.                                                     *)
(*                                                                         *)
(* The argument: the waves share a step n, the step of the barrier they    *)
(* passed last.  n and a wave's place in its step determine what the wave's*)
(* buffers hold (FillAt, TileAt, WaveAt), buffer p = n % 2 and 1 - p; a    *)
(* wave changes nothing another wave's place speaks of.  At the barrier    *)
(* what was said of p is said of 1 - p.                                    *)
(***************************************************************************)

Shapes ==
  /\ tiles \in Nat
  /\ pc \in [Waves -> Places] /\ step \in [Waves -> Int]
  /\ s_kv \in [Buffers -> [FillWaves -> Int]]
  /\ s_prob \in [Buffers -> [QueryWaves -> Int]] /\ s_rescale \in [Buffers -> [QueryWaves -> Int]]
  /\ pool_row \in [FillWaves -> [Buffers -> Int]] /\ fill_reg \in [FillWaves -> [Buffers -> Int]]
  /\ v \in [Waves -> [Buffers -> Int]]
  /\ k0 \in [QueryWaves -> Int] /\ scores \in [QueryWaves -> Int] /\ folded \in [QueryWaves -> Int]
  /\ rescale \in [Waves -> [QueryWaves -> Int]] /\ pv \in [Waves -> [QueryWaves -> Int]]

(* A query tile without rows stays at 0.                                   *)
IfLive(t, n) == IF tile_live(t) THEN n ELSE Zero
PlaneHolds(plane, t, n) == s_prob[plane][t] = IfLive(t, n) /\ s_rescale[plane][t] = IfLive(t, n)

(* Nothing accumulated, and V is 0.                                        *)
Untouched ==
  /\ \A w \in Waves : step[w] = Before /\ \A b \in Buffers : v[w][b] = Zero
  /\ \A w \in Waves, t \in QueryWaves : pv[w][t] = Zero
  /\ \A t \in QueryWaves : folded[t] = Zero

Launching == tiles = 0 /\ Untouched /\ \A w \in Waves : pc[w] = "launch"

(* Tile 0 is stored, 1 and 2 are loaded and 3 is resolved.                 *)
Staged(f) ==
  /\ tiles > 0 => s_kv[0][f] = 0
  /\ tiles > 1 => fill_reg[f][0] = 1
  /\ tiles > 2 => fill_reg[f][1] = 2
  /\ tiles > 3 => pool_row[f][1] = 3

Starting ==
  /\ Untouched
  /\ \A w \in Waves : pc[w] \in {"prologue", "wait"}
  /\ \A f \in FillWaves : pc[f] = "wait" => Staged(f)
  /\ \A w \in Waves : pc[w] = "wait" =>
       \A n \in Buffers, t \in QueryWaves : Clears(w, n, t) => s_prob[n][t] = Zero
  /\ \A n \in Buffers, t \in QueryWaves :
       (\A w \in Waves : ClearsRescale(w, n, t) => pc[w] = "wait") => s_rescale[n][t] = Zero

(* A fill wave in step n: n is in LDS, n + 1 follows it there.             *)
FillAt(n, p, f) ==
  /\ n < tiles => s_kv[p][f] = n
  /\ n + 1 < tiles => IF pc[f] = "wait" THEN s_kv[1 - p][f] = n + 1 ELSE fill_reg[f][p] = n + 1
  /\ n + 2 < tiles => fill_reg[f][1 - p] = n + 2
  /\ n + 3 < tiles => IF pc[f] = "wait" THEN fill_reg[f][p] = n + 3 ELSE pool_row[f][1 - p] = n + 3
  /\ n + 4 < tiles /\ pc[f] # "begin" => pool_row[f][p] = n + 4

(* A query tile in step n: plane p holds n - 2, and its softmax puts n - 1 *)
(* into the other.                                                         *)
Unfolded(t) == pc[t] \in {"begin", "softmax"}
TileAt(n, p, t) ==
  /\ PlaneHolds(p, t, DueAt(n))
  /\ Unfolded(t) => (n = 0 \/ ~tile_live(t) => PlaneHolds(1 - p, t, Zero))
  /\ ~Unfolded(t) => PlaneHolds(1 - p, t, DueAt(n + 1))
  /\ folded[t] = IfLive(t, IF Unfolded(t) THEN DueAt(n) ELSE DueAt(n + 1))
  /\ tile_live(t) /\ n > 0 /\ pc[t] # "wait" => scores[t] = n - 1
  /\ tile_live(t) /\ n < tiles =>
       /\ pc[t] = "wait" => scores[t] = n
       /\ pc[t] \in {"softmax", "pv", "fetch", "contract"} => k0[t] = n

(* Any wave in step n: PV is one behind the fetch's buffer.                *)
WaveAt(n, p, w) ==
  /\ v[w][1 - p] = DueAt(n + 1)
  /\ IF pc[w] \in {"begin", "softmax", "pv", "fetch"} THEN v[w][p] = DueAt(n)
                                                     ELSE n < tiles => v[w][p] = n
  /\ pc[w] \in {"softmax", "pv"} => \A t \in QueryWaves : rescale[w][t] = IfLive(t, DueAt(n))
  /\ \A t \in QueryWaves :
       pv[w][t] = IfLive(t, IF pc[w] \in {"begin", "softmax", "pv"} THEN DueAt(n - 1) ELSE DueAt(n))

Contracts(w) == w \in QueryWaves /\ tile_live(w)
InOrder(n, w) ==
  /\ step[w] = n
  /\ pc[w] \in {"begin", "softmax", "pv", "fetch", "fill", "contract", "wait"}
  /\ pc[w] = "softmax" => Contracts(w) /\ n > 0
  /\ pc[w] = "fill" => w \in FillWaves
  /\ pc[w] = "contract" => Contracts(w)

Position(n, p, w) ==
  /\ InOrder(n, w) /\ WaveAt(n, p, w)
  /\ w \in FillWaves => FillAt(n, p, w)
  /\ w \in QueryWaves => TileAt(n, p, w)

Stepping(n, p) == \A w \in Waves : Position(n, p, w)

(* Step tiles was the last: the last tile is in the plane it left.         *)
Ending(p) ==
  /\ \A w \in Waves : pc[w] \in {"drain", "end"} /\ v[w][1 - p] = tiles - 1
  /\ tiles > 0 => \A t \in QueryWaves : PlaneHolds(1 - p, t, tiles - 1)
  /\ \A t \in QueryWaves : folded[t] = IfLive(t, tiles - 1)
  /\ \A w \in Waves, t \in QueryWaves :
       pv[w][t] = IfLive(t, IF pc[w] = "drain" THEN DueAt(tiles) ELSE tiles - 1)

Inv ==
  /\ Shapes
  /\ \/ Launching
     \/ call = NoCall /\ \/ Starting
                         \/ \E n \in 0 .. tiles : Stepping(n, n % 2)
                         \/ Ending(tiles % 2)
-----------------------------------------------------------------------------
LEMMA WaveKinds ==
  /\ QueryWaves \subseteq Waves /\ FillWaves \subseteq Waves /\ FillWaves # {}
  /\ QueryWaves \cap FillWaves = {}
  BY WavesAssumption DEF Waves

LEMMA Parity ==
  ASSUME NEW n \in Nat
  PROVE  n % 2 \in {0, 1} /\ (n + 1) % 2 = 1 - (n % 2)
  BY SMT

(* What the fill waves agree on is the slot's tile.                        *)
LEMMA SlotIs ==
  ASSUME NEW b, NEW n, \A f \in FillWaves : s_kv[b][f] = n
  PROVE  Slot(b) = n
<1>1. {s_kv[b][f] : f \in FillWaves} = {n}
  BY WaveKinds
<1>2. Cardinality({n}) = 1
  BY FS_Singleton
<1>3. (CHOOSE x \in {n} : TRUE) = n
  OBVIOUS
<1>4. QED
  BY <1>1, <1>2, <1>3 DEF Slot

LEMMA SlotIsInt ==
  ASSUME Shapes, NEW b \in Buffers
  PROVE  Slot(b) \in Int
<1> DEFINE in == {s_kv[b][f] : f \in FillWaves}
<1>1. in # {} /\ in \subseteq Int
  BY WaveKinds DEF Shapes
<1>2. (CHOOSE x \in in : TRUE) \in in
  BY <1>1
<1>3. QED
  BY <1>1, <1>2 DEF Slot, Garbage

(* In step n slot n % 2 holds tile n, and plane n % 2 tile n - 2.          *)
LEMMA SlotInStep ==
  ASSUME NEW n \in 0 .. tiles, NEW p \in {0, 1}, Stepping(n, p), n < tiles
  PROVE  Slot(p) = n
  BY SlotIs, WaveKinds DEF Stepping, Position, FillAt

-----------------------------------------------------------------------------
(* What wave u's position speaks of.                                       *)
Keeps(u) ==
  /\ pc'[u] = pc[u] /\ step'[u] = step[u] /\ v'[u] = v[u]
  /\ rescale'[u] = rescale[u] /\ pv'[u] = pv[u]
  /\ u \in FillWaves => /\ pool_row'[u] = pool_row[u] /\ fill_reg'[u] = fill_reg[u]
                        /\ \A b \in Buffers : s_kv'[b][u] = s_kv[b][u]
  /\ u \in QueryWaves => /\ k0'[u] = k0[u] /\ scores'[u] = scores[u] /\ folded'[u] = folded[u]
                         /\ \A b \in Buffers : /\ s_prob'[b][u] = s_prob[b][u]
                                               /\ s_rescale'[b][u] = s_rescale[b][u]

InStep(w) ==
  \/ Begin(w) \/ accumulate_pv(w) \/ fetch_v(w)
  \/ w \in FillWaves /\ Fill(w)
  \/ w \in QueryWaves /\ (run_softmax(w) \/ contract_qk(w))

LEMMA StepOfOne ==
  ASSUME Shapes, NEW w \in Waves, InStep(w), NEW u \in Waves, u # w
  PROVE  Keeps(u)
<1>1. CASE Begin(w)
  BY <1>1, WaveKinds DEF Begin, Keeps, Shapes, Goto, Keep, lds, filling
<1>2. CASE accumulate_pv(w)
  BY <1>2, WaveKinds DEF accumulate_pv, Accumulated, Keeps, Shapes, Goto, lds, filling, contracting
<1>3. CASE fetch_v(w)
  BY <1>3, WaveKinds DEF fetch_v, Keeps, Shapes, Goto, lds, filling, contracting
<1>4. CASE w \in FillWaves /\ Fill(w)
  BY <1>4, WaveKinds DEF Fill, fill_store, Keep, Keeps, Shapes, Goto, contracting
<1>5. CASE w \in QueryWaves /\ run_softmax(w)
  BY <1>5, WaveKinds DEF run_softmax, Keeps, Shapes, Goto, filling
<1>6. CASE w \in QueryWaves /\ contract_qk(w)
  BY <1>6, WaveKinds DEF contract_qk, Keeps, Shapes, Goto, lds, filling
<1>7. QED
  BY <1>1, <1>2, <1>3, <1>4, <1>5, <1>6 DEF InStep

LEMMA PositionKept ==
  ASSUME work' = work, NEW n \in Int, NEW p \in {0, 1}, NEW u \in Waves, Keeps(u), Position(n, p, u)
  PROVE  Position(n, p, u)'
<1>1. tiles' = tiles /\ \A t : tile_live(t)' <=> tile_live(t)
  BY DEF tiles, tile_live
<1>2. p \in Buffers /\ 1 - p \in Buffers
  BY DEF Buffers
<1>3. InOrder(n, u)' /\ WaveAt(n, p, u)'
  BY <1>1 DEF Position, Keeps, InOrder, Contracts, WaveAt, IfLive
<1>4. u \in FillWaves => FillAt(n, p, u)'
  BY <1>1, <1>2 DEF Position, Keeps, FillAt
<1>5. u \in QueryWaves => TileAt(n, p, u)'
  BY <1>1, <1>2 DEF Position, Keeps, TileAt, Unfolded, PlaneHolds, IfLive
<1>6. QED
  BY <1>3, <1>4, <1>5 DEF Position

-----------------------------------------------------------------------------
(* The step of the wave that moves, for each of its places.                *)
LEMMA BeginKeeps ==
  ASSUME Shapes, NEW n \in 0 .. tiles, NEW p \in {0, 1}, p = n % 2, Stepping(n, p),
         NEW w \in Waves, Begin(w)
  PROVE  Position(n, p, w)'
<1>1. n \in Nat /\ tiles \in Nat /\ p \in Buffers /\ 1 - p \in Buffers
  BY DEF Shapes, Buffers
<1>2. Position(n, p, w) /\ step[w] = n /\ parity(w) = p
  BY DEF Stepping, Position, InOrder, parity
<1>3. tiles' = tiles /\ (\A t : tile_live(t)' <=> tile_live(t))
      /\ s_kv' = s_kv /\ s_prob' = s_prob /\ s_rescale' = s_rescale
      /\ step' = step /\ scores' = scores /\ folded' = folded /\ v' = v /\ pv' = pv
  BY DEF Begin, tiles, tile_live, lds
<1>4. pc[w] = "begin" /\ pc'[w] = (IF Contracts(w) /\ n > 0 THEN "softmax" ELSE "pv")
  BY <1>2 DEF Begin, Goto, Shapes, Contracts
<1>5. InOrder(n, w)'
  BY <1>2, <1>3, <1>4 DEF InOrder, Contracts
<1>6. WaveAt(n, p, w)'
  <2>1. rescale'[w] = s_rescale[p]
    BY <1>2 DEF Begin, Shapes
  <2>2. \A t \in QueryWaves : s_rescale[p][t] = IfLive(t, DueAt(n))
    BY WaveKinds DEF Stepping, Position, TileAt, PlaneHolds
  <2>3. QED
    BY <1>2, <1>3, <1>4, <2>1, <2>2 DEF Position, WaveAt, IfLive
<1>7. ASSUME w \in FillWaves PROVE FillAt(n, p, w)'
  <2>1. fill_reg'[w] = fill_reg[w]
        /\ pool_row'[w] = (IF n + 4 >= tiles THEN pool_row[w] ELSE [pool_row[w] EXCEPT ![p] = n + 4])
    BY <1>2, <1>7 DEF Begin, Keep, FillOf, resolve_row, LookAhead, Shapes
  <2>2. pool_row[w] \in [Buffers -> Int] /\ FillAt(n, p, w)
    BY <1>2, <1>7 DEF Shapes, Position
  <2>3. n + 4 < tiles => pool_row'[w][p] = n + 4 /\ pool_row'[w][1 - p] = pool_row[w][1 - p]
    BY <1>1, <2>1, <2>2
  <2>4. n + 4 >= tiles => pool_row'[w] = pool_row[w]
    BY <2>1
  <2>5. QED
    BY <1>1, <1>3, <1>4, <2>1, <2>2, <2>3, <2>4 DEF FillAt
<1>8. ASSUME w \in QueryWaves PROVE TileAt(n, p, w)'
  <2>1. tile_live(w) /\ n < tiles => k0'[w] = n
    BY <1>2, <1>8, SlotInStep DEF Begin, Shapes
  <2>2. TileAt(n, p, w)
    BY <1>2, <1>8 DEF Position
  <2>3. CASE pc'[w] = "softmax"
    BY <1>1, <1>3, <1>4, <2>1, <2>2, <2>3 DEF TileAt, Unfolded, PlaneHolds, IfLive
  <2>4. CASE pc'[w] = "pv"
    <3>1. n = 0 \/ ~tile_live(w)
      BY <1>1, <1>4, <1>8, <2>4 DEF Contracts
    <3>2. PlaneHolds(1 - p, w, Zero) /\ (n = 0 => DueAt(n) = Zero /\ DueAt(n + 1) = Zero)
      BY <1>4, <2>2, <3>1 DEF TileAt, Unfolded, DueAt
    <3>3. QED
      BY <1>1, <1>3, <1>4, <2>1, <2>2, <2>4, <3>1, <3>2 DEF TileAt, Unfolded, PlaneHolds, IfLive
  <2>5. QED
    BY <1>4, <2>3, <2>4
<1>9. QED
  BY <1>5, <1>6, <1>7, <1>8 DEF Position

LEMMA SoftmaxKeeps ==
  ASSUME Shapes, NEW n \in 0 .. tiles, NEW p \in {0, 1}, p = n % 2, Stepping(n, p),
         NEW w \in QueryWaves, run_softmax(w)
  PROVE  Position(n, p, w)'
<1>1. n \in Nat /\ tiles \in Nat /\ p \in Buffers /\ 1 - p \in Buffers /\ p # 1 - p
      /\ w \in Waves /\ w \notin FillWaves
  BY WaveKinds DEF Shapes, Buffers
<1>2. Position(n, p, w) /\ step[w] = n /\ NextPlane(w) = 1 - p
  BY <1>1 DEF Stepping, Position, InOrder, parity, NextPlane
<1>3. tiles' = tiles /\ (\A t : tile_live(t)' <=> tile_live(t))
      /\ step' = step /\ scores' = scores /\ k0' = k0 /\ v' = v /\ rescale' = rescale /\ pv' = pv
  BY DEF run_softmax, tiles, tile_live
<1>4. pc[w] = "softmax" /\ pc'[w] = "pv"
  BY <1>1 DEF run_softmax, Goto, Shapes
<1>5. Contracts(w) /\ n > 0 /\ scores[w] = n - 1 /\ DueAt(n + 1) = n - 1 /\ TileAt(n, p, w)
  BY <1>1, <1>2, <1>4 DEF Position, InOrder, TileAt, Contracts, DueAt
<1>6. InOrder(n, w)' /\ WaveAt(n, p, w)'
  BY <1>2, <1>3, <1>4 DEF Position, InOrder, Contracts, WaveAt, IfLive
<1>7. folded'[w] = n - 1 /\ s_prob'[1 - p][w] = n - 1 /\ s_rescale'[1 - p][w] = n - 1
      /\ s_prob'[p][w] = s_prob[p][w] /\ s_rescale'[p][w] = s_rescale[p][w]
  BY <1>1, <1>2, <1>5 DEF run_softmax, Shapes
<1>8. TileAt(n, p, w)'
  BY <1>1, <1>3, <1>4, <1>5, <1>7 DEF TileAt, Unfolded, PlaneHolds, IfLive, Contracts
<1>9. QED
  BY <1>1, <1>6, <1>8 DEF Position

LEMMA PvKeeps ==
  ASSUME Shapes, NEW n \in 0 .. tiles, NEW p \in {0, 1}, p = n % 2, Stepping(n, p),
         NEW w \in Waves, accumulate_pv(w)
  PROVE  Position(n, p, w)'
<1>1. n \in Nat /\ tiles \in Nat
  BY DEF Shapes
<1>2. Position(n, p, w) /\ step[w] = n /\ parity(w) = p
  BY DEF Stepping, Position, InOrder, parity
<1>3. tiles' = tiles /\ (\A t : tile_live(t)' <=> tile_live(t))
      /\ s_kv' = s_kv /\ s_prob' = s_prob /\ s_rescale' = s_rescale
      /\ pool_row' = pool_row /\ fill_reg' = fill_reg /\ k0' = k0 /\ scores' = scores
      /\ folded' = folded /\ step' = step /\ v' = v /\ rescale' = rescale
  BY DEF accumulate_pv, tiles, tile_live, lds, filling, contracting
<1>4. pc[w] = "pv" /\ pc'[w] = "fetch"
  BY DEF accumulate_pv, Goto, Shapes
<1>5. \A t \in QueryWaves : pv'[w][t] = IfLive(t, DueAt(n))
  <2> TAKE t \in QueryWaves
  <2>1. pv'[w][t] = IF s_prob[p][t] = Zero THEN pv[w][t] ELSE s_prob[p][t]
    BY <1>2 DEF accumulate_pv, Accumulated, Shapes
  <2>2. s_prob[p][t] = IfLive(t, DueAt(n)) /\ pv[w][t] = IfLive(t, DueAt(n - 1))
    BY <1>2, <1>4, WaveKinds DEF Stepping, Position, TileAt, PlaneHolds, WaveAt
  <2>3. DueAt(n) = Zero => DueAt(n - 1) = Zero
    BY <1>1 DEF DueAt, Zero
  <2>4. QED
    BY <2>1, <2>2, <2>3 DEF IfLive
<1>6. InOrder(n, w)'
  BY <1>2, <1>3, <1>4 DEF Position, InOrder, Contracts
<1>7. WaveAt(n, p, w)'
  BY <1>2, <1>3, <1>4, <1>5 DEF Position, WaveAt, IfLive
<1>8. w \in FillWaves => FillAt(n, p, w)'
  BY <1>2, <1>3, <1>4 DEF Position, FillAt
<1>9. w \in QueryWaves => TileAt(n, p, w)'
  BY <1>2, <1>3, <1>4 DEF Position, TileAt, Unfolded, PlaneHolds, IfLive
<1>10. QED
  BY <1>6, <1>7, <1>8, <1>9 DEF Position

LEMMA FetchKeeps ==
  ASSUME Shapes, NEW n \in 0 .. tiles, NEW p \in {0, 1}, p = n % 2, Stepping(n, p),
         NEW w \in Waves, fetch_v(w)
  PROVE  Position(n, p, w)'
<1>1. n \in Nat /\ tiles \in Nat /\ p \in Buffers /\ 1 - p \in Buffers /\ p # 1 - p
  BY DEF Shapes, Buffers
<1>2. Position(n, p, w) /\ step[w] = n /\ parity(w) = p
  BY DEF Stepping, Position, InOrder, parity
<1>3. tiles' = tiles /\ (\A t : tile_live(t)' <=> tile_live(t))
      /\ s_kv' = s_kv /\ s_prob' = s_prob /\ s_rescale' = s_rescale
      /\ pool_row' = pool_row /\ fill_reg' = fill_reg /\ k0' = k0 /\ scores' = scores
      /\ folded' = folded /\ step' = step /\ pv' = pv /\ rescale' = rescale
  BY DEF fetch_v, tiles, tile_live, lds, filling, contracting
<1>4. pc[w] = "fetch"
      /\ pc'[w] = (IF w \in FillWaves THEN "fill" ELSE IF Contracts(w) THEN "contract" ELSE "wait")
  BY DEF fetch_v, Goto, Shapes, Contracts
<1>5. v'[w][1 - p] = v[w][1 - p] /\ (n < tiles => v'[w][p] = n)
  BY <1>1, <1>2, SlotInStep DEF fetch_v, Shapes
<1>6. InOrder(n, w)'
  BY <1>2, <1>3, <1>4 DEF Position, InOrder, Contracts
<1>7. WaveAt(n, p, w)'
  BY <1>2, <1>3, <1>4, <1>5 DEF Position, WaveAt, IfLive
<1>8. w \in FillWaves => FillAt(n, p, w)'
  BY <1>2, <1>3, <1>4 DEF Position, FillAt
<1>9. w \in QueryWaves => TileAt(n, p, w)'
  BY <1>2, <1>3, <1>4, WaveKinds DEF Position, TileAt, Unfolded, PlaneHolds, IfLive, Contracts
<1>10. QED
  BY <1>6, <1>7, <1>8, <1>9 DEF Position

LEMMA FillKeeps ==
  ASSUME Shapes, NEW n \in 0 .. tiles, NEW p \in {0, 1}, p = n % 2, Stepping(n, p),
         NEW w \in FillWaves, Fill(w)
  PROVE  Position(n, p, w)'
<1>1. n \in Nat /\ tiles \in Nat /\ p \in Buffers /\ 1 - p \in Buffers /\ p # 1 - p
      /\ w \in Waves /\ w \notin QueryWaves
  BY WaveKinds DEF Shapes, Buffers
<1>2. Position(n, p, w) /\ step[w] = n /\ parity(w) = p
  BY <1>1 DEF Stepping, Position, InOrder, parity
<1>3. tiles' = tiles /\ (\A t : tile_live(t)' <=> tile_live(t))
      /\ step' = step /\ v' = v /\ rescale' = rescale /\ pv' = pv
  BY DEF Fill, tiles, tile_live
<1>4. pc[w] = "fill" /\ pc'[w] = "wait"
  BY <1>1 DEF Fill, Goto, Shapes
<1>5. InOrder(n, w)' /\ WaveAt(n, p, w)'
  BY <1>2, <1>3, <1>4 DEF Position, InOrder, Contracts, WaveAt, IfLive
<1>6. pool_row'[w] = pool_row[w]
      /\ fill_reg'[w] = (IF n + 3 >= tiles THEN fill_reg[w]
                        ELSE [fill_reg[w] EXCEPT ![p] = pool_row[w][1 - p]])
  BY <1>2 DEF Fill, Keep, FillOf, fill_load, LookAhead, Shapes
<1>7. s_kv' = (IF n + 1 >= tiles THEN s_kv ELSE [s_kv EXCEPT ![1 - p][w] = fill_reg[w][p]])
  BY <1>2 DEF Fill, FillOf, fill_store
<1>8. s_kv'[p][w] = s_kv[p][w] /\ (n + 1 < tiles => s_kv'[1 - p][w] = fill_reg[w][p])
  BY <1>1, <1>7 DEF Shapes
<1>9. fill_reg[w] \in [Buffers -> Int] /\ FillAt(n, p, w)
  BY <1>2 DEF Shapes, Position
<1>10. fill_reg'[w][1 - p] = fill_reg[w][1 - p]
       /\ (n + 3 < tiles => fill_reg'[w][p] = pool_row[w][1 - p])
  BY <1>1, <1>6, <1>9
<1>11. FillAt(n, p, w)'
  BY <1>1, <1>3, <1>4, <1>6, <1>8, <1>9, <1>10 DEF FillAt
<1>12. QED
  BY <1>1, <1>5, <1>11 DEF Position

LEMMA ContractKeeps ==
  ASSUME Shapes, NEW n \in 0 .. tiles, NEW p \in {0, 1}, p = n % 2, Stepping(n, p),
         NEW w \in QueryWaves, contract_qk(w)
  PROVE  Position(n, p, w)'
<1>1. n \in Nat /\ tiles \in Nat /\ w \in Waves /\ w \notin FillWaves
  BY WaveKinds DEF Shapes
<1>2. Position(n, p, w) /\ step[w] = n /\ parity(w) = p
  BY <1>1 DEF Stepping, Position, InOrder, parity
<1>3. tiles' = tiles /\ (\A t : tile_live(t)' <=> tile_live(t))
      /\ s_prob' = s_prob /\ s_rescale' = s_rescale /\ k0' = k0
      /\ folded' = folded /\ step' = step /\ v' = v /\ pv' = pv /\ rescale' = rescale
  BY DEF contract_qk, tiles, tile_live, lds, filling
<1>4. pc[w] = "contract" /\ pc'[w] = "wait"
  BY <1>1 DEF contract_qk, Goto, Shapes
<1>5. TileAt(n, p, w) /\ Contracts(w)
  BY <1>2, <1>4 DEF Position, InOrder
<1>6. n < tiles => scores'[w] = n
  BY <1>1, <1>2, <1>4, <1>5, SlotInStep DEF contract_qk, Shapes, TileAt, Contracts
<1>7. InOrder(n, w)' /\ WaveAt(n, p, w)'
  BY <1>2, <1>3, <1>4 DEF Position, InOrder, Contracts, WaveAt, IfLive
<1>8. TileAt(n, p, w)'
  BY <1>3, <1>4, <1>5, <1>6 DEF TileAt, Unfolded, PlaneHolds, IfLive
<1>9. QED
  BY <1>1, <1>7, <1>8 DEF Position

LEMMA StepKeeps ==
  ASSUME Shapes, NEW n \in 0 .. tiles, NEW p \in {0, 1}, p = n % 2, Stepping(n, p),
         NEW w \in Waves, InStep(w)
  PROVE  Stepping(n, p)'
<1>1. Position(n, p, w)'
  BY BeginKeeps, SoftmaxKeeps, PvKeeps, FetchKeeps, FillKeeps, ContractKeeps DEF InStep
<1>2. work' = work
  BY DEF InStep, Begin, run_softmax, accumulate_pv, fetch_v, Fill, contract_qk
<1>3. ASSUME NEW u \in Waves, u # w PROVE Position(n, p, u)'
  <2>1. Keeps(u)
    BY <1>3, StepOfOne
  <2>2. n \in Int /\ Position(n, p, u)
    BY DEF Shapes, Stepping
  <2>3. QED
    BY <1>2, <2>1, <2>2, PositionKept
<1>4. QED
  BY <1>1, <1>3 DEF Stepping

-----------------------------------------------------------------------------
(* A fill wave's prologue: tile 0 stored, 1 and 2 in flight, 3 resolved.   *)
LEMMA FillStarts ==
  ASSUME Shapes, NEW w \in FillWaves, FillPrologue(w)
  PROVE  /\ tiles > 0 => s_kv'[0][w] = 0
         /\ tiles > 1 => fill_reg'[w][0] = 1
         /\ tiles > 2 => fill_reg'[w][1] = 2
         /\ tiles > 3 => pool_row'[w][1] = 3
         /\ pool_row' \in [FillWaves -> [Buffers -> Int]] /\ fill_reg' \in [FillWaves -> [Buffers -> Int]]
         /\ s_kv' \in [Buffers -> [FillWaves -> Int]]
         /\ \A u \in FillWaves : u # w =>
              /\ s_kv'[0][u] = s_kv[0][u] /\ pool_row'[u] = pool_row[u] /\ fill_reg'[u] = fill_reg[u]
<1> DEFINE Filled == [row : [Buffers -> Int], reg : [Buffers -> Int]]
           f0 == fill_load(resolve_row(FillOf(w), 0, 0), 0, 1, 0)
           f1 == fill_load(resolve_row(f0, 1, 0), 1, 0, 0)
           f2 == fill_load(resolve_row(f1, 2, 0), 2, 1, 0)
           f3 == resolve_row(f2, 3, 1)
<1>1. tiles \in Nat /\ 0 \in Buffers /\ 1 \in Buffers /\ FillOf(w) \in Filled
  BY DEF Shapes, Buffers, FillOf
<1>2. ASSUME NEW f \in Filled, NEW it \in Nat, NEW b \in Buffers
      PROVE  /\ resolve_row(f, it, b) \in Filled /\ resolve_row(f, it, b).reg = f.reg
             /\ it < tiles => resolve_row(f, it, b).row[b] = it
  BY <1>1, <1>2 DEF resolve_row
<1>3. ASSUME NEW f \in Filled, NEW it \in Nat, NEW b \in Buffers, NEW c \in Buffers
      PROVE  /\ fill_load(f, it, b, c) \in Filled
             /\ it < tiles => fill_load(f, it, b, c).reg[b] = f.row[c]
             /\ \A d \in Buffers : d # b => fill_load(f, it, b, c).reg[d] = f.reg[d]
  BY <1>1, <1>3 DEF fill_load
<1>4. f0 \in Filled /\ (tiles > 0 => f0.reg[1] = 0)
  <2> DEFINE g == resolve_row(FillOf(w), 0, 0)
  <2>1. g \in Filled /\ (0 < tiles => g.row[0] = 0)
    BY ONLY <1>1, <1>2, 0 \in Nat
  <2> HIDE DEF g, Filled
  <2>2. fill_load(g, 0, 1, 0) \in Filled /\ (0 < tiles => fill_load(g, 0, 1, 0).reg[1] = g.row[0])
    BY <1>1, <1>3, <2>1, 0 \in Nat
  <2>3. QED
    BY <1>1, <2>1, <2>2 DEF g
<1>5. f1 \in Filled /\ (tiles > 1 => f1.reg[0] = 1)
  <2> DEFINE g == resolve_row(f0, 1, 0)
  <2> HIDE DEF f0, Filled
  <2>1. g \in Filled /\ (1 < tiles => g.row[0] = 1)
    BY <1>1, <1>2, <1>4, 1 \in Nat
  <2> HIDE DEF g
  <2>2. fill_load(g, 1, 0, 0) \in Filled /\ (1 < tiles => fill_load(g, 1, 0, 0).reg[0] = g.row[0])
    BY <1>1, <1>3, <2>1, 1 \in Nat
  <2>3. QED
    BY <1>1, <2>1, <2>2 DEF g
<1>6. f2 \in Filled /\ (tiles > 2 => f2.reg[1] = 2) /\ (tiles > 1 => f2.reg[0] = 1)
  <2> DEFINE g == resolve_row(f1, 2, 0)
  <2> HIDE DEF f1, Filled
  <2>1. g \in Filled /\ g.reg = f1.reg /\ (2 < tiles => g.row[0] = 2)
    BY <1>1, <1>2, <1>5, 2 \in Nat
  <2> HIDE DEF g
  <2>2. fill_load(g, 2, 1, 0) \in Filled /\ (2 < tiles => fill_load(g, 2, 1, 0).reg[1] = g.row[0])
        /\ fill_load(g, 2, 1, 0).reg[0] = g.reg[0]
    <3>1. 0 \in Buffers /\ 1 \in Buffers /\ 2 \in Nat /\ ~(0 = 1)
      BY <1>1
    <3>2. \A d \in Buffers : d # 1 => fill_load(g, 2, 1, 0).reg[d] = g.reg[d]
      BY <1>3, <2>1, <3>1
    <3>3. QED
      BY <1>3, <2>1, <3>1, <3>2
  <2>3. QED
    BY <1>1, <1>5, <2>1, <2>2 DEF g
<1> HIDE DEF f2, Filled
<1>7. f3 \in Filled /\ f3.reg = f2.reg /\ (tiles > 3 => f3.row[1] = 3)
  BY <1>1, <1>2, <1>6, 3 \in Nat
<1>8. pool_row' = [pool_row EXCEPT ![w] = f3.row] /\ fill_reg' = [fill_reg EXCEPT ![w] = f3.reg]
      /\ s_kv' = fill_store(w, f0, 0, 1, 0)
  BY DEF FillPrologue, Keep, f0, f1, f2
<1> HIDE DEF f3
<1>9. s_kv' = (IF 0 >= tiles THEN s_kv ELSE [s_kv EXCEPT ![0][w] = f0.reg[1]])
  BY <1>8 DEF fill_store
<1> HIDE DEF f0
<1>10. f0.reg[1] \in Int /\ f3.row \in [Buffers -> Int] /\ f3.reg \in [Buffers -> Int]
  BY <1>1, <1>4, <1>7 DEF Filled
<1>11. s_kv' \in [Buffers -> [FillWaves -> Int]] /\ (tiles > 0 => s_kv'[0][w] = 0)
       /\ \A u \in FillWaves : u # w => s_kv'[0][u] = s_kv[0][u]
  BY <1>1, <1>4, <1>9, <1>10 DEF Shapes
<1>12. pool_row'[w] = f3.row /\ fill_reg'[w] = f3.reg
       /\ pool_row' \in [FillWaves -> [Buffers -> Int]] /\ fill_reg' \in [FillWaves -> [Buffers -> Int]]
       /\ \A u \in FillWaves : u # w => pool_row'[u] = pool_row[u] /\ fill_reg'[u] = fill_reg[u]
  BY <1>8, <1>10 DEF Shapes
<1>13. (tiles > 1 => f3.reg[0] = 1) /\ (tiles > 2 => f3.reg[1] = 2)
  BY <1>1, <1>6, <1>7
<1>14. QED
  BY <1>7, <1>11, <1>12, <1>13

LEMMA PrologueShapes ==
  ASSUME Shapes, NEW w \in Waves, Prologue(w)
  PROVE  Shapes'
<1>1. tiles' = tiles
  BY DEF Prologue, tiles
<1>2. pool_row' \in [FillWaves -> [Buffers -> Int]] /\ fill_reg' \in [FillWaves -> [Buffers -> Int]]
      /\ s_kv' \in [Buffers -> [FillWaves -> Int]]
  BY FillStarts DEF Prologue, filling, Shapes
<1>3. s_prob' \in [Buffers -> [QueryWaves -> Int]] /\ s_rescale' \in [Buffers -> [QueryWaves -> Int]]
  BY DEF Prologue, Cleared, RescaleCleared, Shapes, Zero
<1>4. pc' \in [Waves -> Places] /\ step' = step /\ k0' = k0 /\ scores' = scores /\ folded' = folded
      /\ v' = v /\ rescale' = rescale /\ pv' = pv
  BY DEF Prologue, Goto, Shapes, contracting, Places
<1>5. QED
  BY <1>1, <1>2, <1>3, <1>4 DEF Shapes

LEMMA PrologueKeeps ==
  ASSUME Shapes, Starting, NEW w \in Waves, Prologue(w)
  PROVE  Starting'
<1>1. tiles' = tiles /\ step' = step /\ folded' = folded /\ v' = v /\ pv' = pv
      /\ pc' = [pc EXCEPT ![w] = "wait"] /\ pc[w] = "prologue"
  BY DEF Prologue, contracting, tiles, Goto
<1>2. Untouched'
  BY <1>1 DEF Starting, Untouched
<1>3. \A u \in Waves : pc'[u] \in {"prologue", "wait"} /\ (u # w => pc'[u] = pc[u])
  BY <1>1 DEF Starting, Shapes
<1>4. ASSUME NEW f \in FillWaves, pc'[f] = "wait" PROVE Staged(f)'
  <2>1. CASE f = w
    BY <1>1, <2>1, FillStarts DEF Prologue, Staged
  <2>2. CASE f # w
    <3>1. s_kv'[0][f] = s_kv[0][f] /\ pool_row'[f] = pool_row[f] /\ fill_reg'[f] = fill_reg[f]
      BY <2>2, FillStarts DEF Prologue, filling
    <3>2. Staged(f)
      BY <1>3, <1>4, <2>2, WaveKinds DEF Starting
    <3>3. QED
      BY <1>1, <3>1, <3>2 DEF Staged
  <2>3. QED
    BY <2>1, <2>2
<1>5. ASSUME NEW u \in Waves, pc'[u] = "wait", NEW n \in Buffers, NEW t \in QueryWaves, Clears(u, n, t)
      PROVE  s_prob'[n][t] = Zero
  <2>1. s_prob'[n][t] = IF Clears(w, n, t) THEN Zero ELSE s_prob[n][t]
    BY DEF Prologue, Cleared
  <2>2. u # w => s_prob[n][t] = Zero
    BY <1>3, <1>5 DEF Starting
  <2>3. QED
    BY <1>5, <2>1, <2>2
<1>6. \A u \in Waves : \A n \in Buffers, t \in QueryWaves :
        (Clears(u, n, t)' <=> Clears(u, n, t)) /\ (ClearsRescale(u, n, t)' <=> ClearsRescale(u, n, t))
  BY DEF Clears, ClearsRescale
<1>7. ASSUME NEW n \in Buffers, NEW t \in QueryWaves, \A u \in Waves : ClearsRescale(u, n, t) => pc'[u] = "wait"
      PROVE  s_rescale'[n][t] = Zero
  <2>1. s_rescale'[n][t] = IF ClearsLast(w, n, t) THEN Zero ELSE s_rescale[n][t]
    BY DEF Prologue, RescaleCleared
  <2>2. \A u \in Waves \ {w} : ClearsRescale(u, n, t) => pc[u] = "wait"
    BY <1>3, <1>7
  <2>3. CASE ClearsRescale(w, n, t)
    BY <2>1, <2>2, <2>3 DEF ClearsLast
  <2>4. CASE ~ClearsRescale(w, n, t)
    BY <2>1, <2>2, <2>4 DEF ClearsLast, Starting
  <2>5. QED
    BY <2>3, <2>4
<1>8. QED
  BY <1>2, <1>3, <1>4, <1>5, <1>6, <1>7 DEF Starting

(* Each row of the planes is some wave's to clear.                         *)
LEMMA SomeWaveClears ==
  ASSUME NEW n \in Buffers, NEW t \in QueryWaves
  PROVE  \E w \in Waves : Clears(w, n, t)
<1> DEFINE N == Cardinality(Waves)
           Q == Cardinality(QueryWaves)
<1>1. N \in Nat /\ Waves = 0 .. N - 1
  BY WavesAssumption, FS_CardinalityType
<1>2. Q \in Nat
  BY WavesAssumption, WaveKinds, FS_Subset, FS_CardinalityType
<1> HIDE DEF N, Q
<1>3. t \in 0 .. N - 1
  BY <1>1, WaveKinds
<1>4. n * Q + t \in Int /\ N \in Nat \ {0}
  BY <1>1, <1>2, <1>3 DEF Buffers
<1>5. (n * Q + t) % N \in 0 .. N - 1
  BY <1>4, Division
<1>6. QED
  BY <1>1, <1>5 DEF Clears, N, Q

(* Rescales too: the first row of each.                                    *)
LEMMA SomeWaveClearsRescale ==
  ASSUME NEW n \in Buffers, NEW t \in QueryWaves
  PROVE  \E w \in Waves : ClearsRescale(w, n, t)
<1>1. PICK N \in Nat, W \in Nat \ {0}, M \in Nat \ {0}, S \in Nat :
        N = Cardinality(Waves) /\ W = WaveSize /\ M = MfmaTile /\ S = RescaleStride
  BY WavesAssumption, SplitAssumption, RescaleAssumption, FS_CardinalityType
<1>2. Waves = 0 .. N - 1
  BY <1>1, WavesAssumption
<1>3. t \in Nat /\ t + 1 <= S
  BY <1>1, <1>2, WaveKinds, RescaleAssumption
<1>4. 2 * (M * S) <= N * W
  BY <1>1, RescaleAssumption
<1>5. PICK i \in Int : i = (n * M + 0) * S + t
  BY <1>1, <1>3 DEF Buffers
<1>6. 0 <= i /\ i < N * W
  <2>1. PICK p \in Nat : p = M * S
    BY <1>1
  <2>2. S <= p
    BY <1>1, <2>1, 1 * S <= M * S, TimesMonotone
  <2>3. i = t \/ i = p + t
    BY <1>1, <1>3, <1>5, <2>1 DEF Buffers
  <2>4. PICK all \in Int : all = N * W /\ 2 * p <= all
    BY <1>1, <1>4, <2>1
  <2>5. 0 <= i /\ i < all
    <3>1. S \in Nat /\ i \in Int
      BY <1>1, <1>5
    <3>2. QED
      BY <1>3, <2>1, <2>2, <2>3, <2>4, <3>1
  <2>6. QED
    BY <2>4, <2>5
<1>7. i \div W \in 0 .. N - 1
  <2>1. PICK q \in Int, d \in Nat : q = i \div W /\ d < W /\ i = q * W + d
    <3>1. /\ i \in Int /\ W \in Nat \ {0} /\ i \div W \in Int /\ i % W \in 0 .. W - 1
          /\ i = (i \div W) * W + (i % W)
      BY <1>1, <1>5, Division
    <3>2. i % W \in Nat /\ i % W < W
      BY <3>1
    <3>3. QED
      BY <3>1, <3>2, Zenon
  <2>2. ASSUME q < 0 PROVE FALSE
    <3>1. q * W <= (-1) * W
      BY <1>1, <2>1, <2>2, TimesMonotone
    <3>2. QED
      BY <1>1, <1>6, <2>1, <3>1
  <2>3. ASSUME N <= q PROVE FALSE
    <3>1. N * W <= q * W
      BY <1>1, <2>1, <2>3, TimesMonotone
    <3>2. q * W \in Int /\ N * W \in Int
      BY <1>1, <2>1
    <3>3. QED
      BY <1>1, <1>6, <2>1, <3>1, <3>2
  <2>4. QED
    BY <1>1, <2>1, <2>2, <2>3
<1>8. 0 \in 0 .. MfmaTile - 1
  BY <1>1
<1>9. ClearsRescale(i \div W, n, t)
  BY <1>1, <1>5, <1>8 DEF ClearsRescale
<1>10. QED
  BY <1>2, <1>7, <1>9

-----------------------------------------------------------------------------
(* The barriers.                                                           *)
LEMMA StepAfterIs ==
  ASSUME tiles \in Nat, NEW n \in 0 .. tiles
  PROVE  StepAfter(n) = IF n < tiles THEN n + 1 ELSE Before
<1>1. n \in Nat /\ n # Before /\ n % 2 \in {0, 1}
  BY Parity DEF Before
<1>2. QED
  BY <1>1 DEF StepAfter, InPair

LEMMA BarrierSteps ==
  ASSUME Shapes, tile_barrier, NEW n \in 0 .. tiles, \A w \in Waves : step[w] = n
  PROVE  /\ tiles' = tiles /\ \A t : tile_live(t)' <=> tile_live(t)
         /\ \A w \in Waves : /\ pc[w] = "wait"
                             /\ n < tiles => step'[w] = n + 1 /\ pc'[w] = "begin"
                             /\ ~(n < tiles) => pc'[w] = "drain"
         /\ s_kv' = s_kv /\ s_prob' = s_prob /\ s_rescale' = s_rescale /\ pool_row' = pool_row
         /\ fill_reg' = fill_reg /\ k0' = k0 /\ scores' = scores /\ folded' = folded /\ v' = v
         /\ rescale' = rescale /\ pv' = pv
<1>1. tiles \in Nat /\ n + 1 # Before
  BY DEF Shapes, Before
<1>2. \A w \in Waves : step'[w] = (IF n < tiles THEN n + 1 ELSE Before)
  BY <1>1, StepAfterIs DEF tile_barrier
<1>3. \A w \in Waves : pc'[w] = (IF n < tiles THEN "begin" ELSE "drain")
  BY <1>1, <1>2 DEF tile_barrier
<1>4. QED
  BY <1>2, <1>3 DEF tile_barrier, tiles, tile_live, lds, filling, contracting

LEMMA BarrierStarts ==
  ASSUME Shapes, Starting, tile_barrier
  PROVE  Stepping(0, 0)'
<1>1. /\ tiles' = tiles /\ tiles \in Nat /\ \A t : tile_live(t)' <=> tile_live(t)
      /\ s_kv' = s_kv /\ s_prob' = s_prob /\ s_rescale' = s_rescale /\ pool_row' = pool_row
      /\ fill_reg' = fill_reg /\ folded' = folded /\ v' = v /\ pv' = pv
  BY DEF tile_barrier, tiles, tile_live, lds, filling, contracting, Shapes
<1>2. \A w \in Waves : pc[w] = "wait" /\ step'[w] = 0 /\ pc'[w] = "begin"
  BY DEF tile_barrier, Starting, Untouched, StepAfter, Before
<1>3. DueAt(0) = Zero /\ DueAt(0 + 1) = Zero /\ DueAt(0 - 1) = Zero /\ \A t : IfLive(t, Zero) = Zero
  BY DEF DueAt, IfLive, Zero
<1>4. 0 \in Buffers /\ 1 - 0 \in Buffers /\ 1 - 0 = 1
  BY DEF Buffers
<1>5. ASSUME NEW w \in Waves PROVE InOrder(0, w)' /\ WaveAt(0, 0, w)'
  <2>1. v'[w][0] = Zero /\ v'[w][1] = Zero /\ \A t \in QueryWaves : pv'[w][t] = Zero
    BY <1>1, <1>4 DEF Starting, Untouched
  <2>2. QED
    BY <1>1, <1>2, <1>3, <1>4, <2>1 DEF InOrder, WaveAt, IfLive
<1>6. ASSUME NEW f \in FillWaves PROVE FillAt(0, 0, f)'
  <2>1. Staged(f) /\ pc'[f] = "begin"
    BY <1>2, WaveKinds DEF Starting
  <2>2. QED
    BY <1>1, <1>4, <2>1 DEF Staged, FillAt
<1>7. ASSUME NEW t \in QueryWaves PROVE TileAt(0, 0, t)'
  <2>1. \A b \in Buffers : s_prob[b][t] = Zero /\ s_rescale[b][t] = Zero
    BY <1>2, SomeWaveClears DEF Starting
  <2>2. pc'[t] = "begin" /\ folded[t] = Zero
    BY <1>2, WaveKinds DEF Starting, Untouched
  <2>3. s_prob[0][t] = Zero /\ s_rescale[0][t] = Zero /\ s_prob[1][t] = Zero /\ s_rescale[1][t] = Zero
    BY <1>4, <2>1
  <2>4. QED
    BY <1>1, <1>3, <1>4, <2>2, <2>3 DEF TileAt, Unfolded, PlaneHolds, IfLive
<1>8. QED
  BY <1>5, <1>6, <1>7 DEF Stepping, Position

LEMMA BarrierAdvances ==
  ASSUME Shapes, NEW n \in 0 .. tiles, NEW p \in {0, 1}, Stepping(n, p), tile_barrier, n < tiles
  PROVE  Stepping(n + 1, 1 - p)'
<1>1. n \in Nat /\ tiles \in Nat /\ 1 - (1 - p) = p /\ \A w \in Waves : step[w] = n
  BY DEF Shapes, Stepping, Position, InOrder
<1>2. /\ tiles' = tiles /\ \A t : tile_live(t)' <=> tile_live(t)
      /\ \A w \in Waves : pc[w] = "wait" /\ step'[w] = n + 1 /\ pc'[w] = "begin"
      /\ s_kv' = s_kv /\ s_prob' = s_prob /\ s_rescale' = s_rescale /\ pool_row' = pool_row
      /\ fill_reg' = fill_reg /\ k0' = k0 /\ scores' = scores /\ folded' = folded /\ v' = v
      /\ rescale' = rescale /\ pv' = pv
  BY <1>1, BarrierSteps
<1>3. DueAt(n + 1 + 1) = n /\ n + 1 - 1 = n
  BY <1>1 DEF DueAt
<1>4. ASSUME NEW w \in Waves PROVE InOrder(n + 1, w)' /\ WaveAt(n + 1, 1 - p, w)'
  <2>1. WaveAt(n, p, w)
    BY DEF Stepping, Position
  <2>2. QED
    BY <1>1, <1>2, <1>3, <2>1 DEF InOrder, WaveAt, IfLive
<1>5. ASSUME NEW f \in FillWaves PROVE FillAt(n + 1, 1 - p, f)'
  <2>1. FillAt(n, p, f) /\ pc[f] = "wait" /\ pc'[f] = "begin"
    BY <1>2, WaveKinds DEF Stepping, Position
  <2>2. QED
    BY <1>1, <1>2, <2>1 DEF FillAt
<1>6. ASSUME NEW t \in QueryWaves PROVE TileAt(n + 1, 1 - p, t)'
  <2>1. TileAt(n, p, t) /\ pc[t] = "wait" /\ pc'[t] = "begin"
    BY <1>2, WaveKinds DEF Stepping, Position
  <2>2. PlaneHolds(1 - p, t, DueAt(n + 1))' /\ folded'[t] = IfLive(t, DueAt(n + 1))
        /\ (tile_live(t) => scores'[t] = n)
    BY <1>2, <2>1 DEF TileAt, Unfolded, PlaneHolds, IfLive
  <2>3. ~tile_live(t) => PlaneHolds(p, t, Zero)'
    BY <1>2, <2>1 DEF TileAt, PlaneHolds, IfLive
  <2>4. QED
    BY <1>1, <1>2, <1>3, <2>1, <2>2, <2>3 DEF TileAt, Unfolded, IfLive
<1>7. QED
  BY <1>4, <1>5, <1>6 DEF Stepping, Position

LEMMA BarrierEnds ==
  ASSUME Shapes, NEW n \in 0 .. tiles, NEW p \in {0, 1}, Stepping(n, p), tile_barrier, ~(n < tiles)
  PROVE  Ending(p)'
<1>1. n = tiles /\ tiles \in Nat /\ \A w \in Waves : step[w] = n
  BY DEF Shapes, Stepping, Position, InOrder
<1>2. /\ tiles' = tiles /\ \A t : tile_live(t)' <=> tile_live(t)
      /\ \A w \in Waves : pc[w] = "wait" /\ pc'[w] = "drain"
      /\ s_prob' = s_prob /\ s_rescale' = s_rescale /\ folded' = folded /\ v' = v /\ pv' = pv
  BY <1>1, BarrierSteps
<1>3. DueAt(n + 1) = tiles - 1
  BY <1>1 DEF DueAt, Zero
<1>4. \A w \in Waves : v[w][1 - p] = tiles - 1 /\ \A t \in QueryWaves : pv[w][t] = IfLive(t, DueAt(tiles))
  BY <1>1, <1>2, <1>3 DEF Stepping, Position, WaveAt
<1>5. \A t \in QueryWaves : PlaneHolds(1 - p, t, tiles - 1) /\ folded[t] = IfLive(t, tiles - 1)
  BY <1>2, <1>3, WaveKinds DEF Stepping, Position, TileAt, Unfolded
<1>6. QED
  BY <1>2, <1>4, <1>5 DEF Ending, PlaneHolds, IfLive

(* The drain.                                                              *)
LEMMA ParityOfDrain ==
  ASSUME tiles \in Nat
  PROVE  DrainParity = 1 - (tiles % 2) /\ tiles % 2 \in {0, 1}
  BY Parity DEF DrainParity

LEMMA DrainKeeps ==
  ASSUME Shapes, NEW p \in {0, 1}, p = tiles % 2, Ending(p), NEW w \in Waves, Drain(w)
  PROVE  Ending(p)'
<1>1. tiles \in Nat /\ DrainParity = 1 - p
  BY ParityOfDrain DEF Shapes
<1>2. /\ tiles' = tiles /\ \A t : tile_live(t)' <=> tile_live(t)
      /\ s_prob' = s_prob /\ s_rescale' = s_rescale /\ folded' = folded /\ v' = v
  BY DEF Drain, tiles, tile_live, lds, contracting
<1>3. pc[w] = "drain" /\ pc'[w] = "end" /\ \A u \in Waves : u # w => pc'[u] = pc[u] /\ pv'[u] = pv[u]
  BY DEF Drain, Goto, Accumulated, Shapes
<1>4. ASSUME NEW t \in QueryWaves PROVE pv'[w][t] = IfLive(t, tiles - 1)
  <2>1. pv[w][t] = IfLive(t, DueAt(tiles))
    BY <1>3 DEF Ending
  <2>2. CASE tiles > 0
    <3>1. pv'[w][t] = IF s_prob[1 - p][t] = Zero THEN pv[w][t] ELSE s_prob[1 - p][t]
      BY <1>1, <2>2 DEF Drain, Accumulated, Shapes
    <3>2. s_prob[1 - p][t] = IfLive(t, tiles - 1) /\ tiles - 1 # Zero
      BY <1>1, <2>2 DEF Ending, PlaneHolds, Zero
    <3>3. QED
      BY <2>1, <3>1, <3>2 DEF IfLive
  <2>3. CASE tiles = 0
    <3>1. pv' = pv /\ DueAt(tiles) = tiles - 1
      BY <2>3 DEF Drain, DueAt, Zero
    <3>2. QED
      BY <2>1, <3>1
  <2>4. QED
    BY <1>1, <2>2, <2>3
<1>5. QED
  BY <1>2, <1>3, <1>4 DEF Ending, PlaneHolds, IfLive

-----------------------------------------------------------------------------
(* Every state has the shapes.                                             *)
LEMMA StepShapes ==
  ASSUME Shapes, NEW w \in Waves, InStep(w)
  PROVE  Shapes'
<1>1. tiles' = tiles /\ parity(w) \in Buffers /\ 1 - parity(w) \in Buffers /\ step[w] \in Int
  <2>1. step[w] \in Int
    BY DEF Shapes
  <2>2. step[w] % 2 \in {0, 1}
    BY <2>1, SMT
  <2>3. QED
    BY <2>1, <2>2 DEF parity, Buffers, tiles, InStep, Begin, run_softmax, accumulate_pv, fetch_v,
                      Fill, contract_qk
<1>2. Slot(parity(w)) \in Int
  BY <1>1, SlotIsInt
<1>3. CASE Begin(w)
  <2>1. w \notin FillWaves => pool_row' = pool_row /\ fill_reg' = fill_reg
    BY <1>3 DEF Begin, filling
  <2>2. pool_row' \in [FillWaves -> [Buffers -> Int]] /\ fill_reg' \in [FillWaves -> [Buffers -> Int]]
    <3>1. CASE w \notin FillWaves
      BY <2>1, <3>1 DEF Shapes
    <3>2. CASE w \in FillWaves
      <4> DEFINE row == IF step[w] + 2 + LookAhead >= tiles THEN pool_row[w]
                        ELSE [pool_row[w] EXCEPT ![parity(w)] = step[w] + 2 + LookAhead]
      <4>1. pool_row' = [pool_row EXCEPT ![w] = row] /\ fill_reg' = [fill_reg EXCEPT ![w] = fill_reg[w]]
        BY <1>3, <3>2 DEF Begin, Keep, FillOf, resolve_row
      <4>2. row \in [Buffers -> Int]
        BY <1>1, <3>2 DEF Shapes, LookAhead
      <4> HIDE DEF row
      <4>3. QED
        BY <3>2, <4>1, <4>2 DEF Shapes
    <3>3. QED
      BY <3>1, <3>2
  <2>3. rescale' \in [Waves -> [QueryWaves -> Int]]
    BY <1>1, <1>3 DEF Begin, Shapes
  <2>4. k0' \in [QueryWaves -> Int] /\ pc' \in [Waves -> Places]
    BY <1>2, <1>3 DEF Begin, Shapes, Goto, Places
  <2>5. QED
    BY <1>1, <1>3, <2>2, <2>3, <2>4 DEF Begin, Shapes, lds
<1>4. CASE accumulate_pv(w)
  <2>1. pv' \in [Waves -> [QueryWaves -> Int]]
    BY <1>1, <1>4 DEF accumulate_pv, Accumulated, Shapes
  <2>2. QED
    BY <1>1, <1>4, <2>1 DEF accumulate_pv, Goto, Shapes, lds, filling, contracting, Places
<1>5. CASE fetch_v(w)
  BY <1>1, <1>2, <1>5 DEF fetch_v, Goto, Shapes, lds, filling, contracting, Places
<1>6. CASE w \in FillWaves /\ Fill(w)
  <2>1. /\ pool_row' = [pool_row EXCEPT ![w] = pool_row[w]]
        /\ \/ fill_reg' = [fill_reg EXCEPT ![w] = fill_reg[w]]
           \/ fill_reg' = [fill_reg EXCEPT ![w] =
                              [fill_reg[w] EXCEPT ![parity(w)] = pool_row[w][1 - parity(w)]]]
        /\ s_kv' = s_kv \/ s_kv' = [s_kv EXCEPT ![1 - parity(w)][w] = fill_reg[w][parity(w)]]
    BY <1>6 DEF Fill, Keep, FillOf, fill_load, fill_store
  <2>2. pool_row' \in [FillWaves -> [Buffers -> Int]] /\ fill_reg' \in [FillWaves -> [Buffers -> Int]]
        /\ s_kv' \in [Buffers -> [FillWaves -> Int]]
    <3>1. fill_reg[w] \in [Buffers -> Int] /\ pool_row[w] \in [Buffers -> Int]
          /\ pool_row[w][1 - parity(w)] \in Int /\ fill_reg[w][parity(w)] \in Int
      BY <1>1, <1>6 DEF Shapes
    <3>2. pool_row' \in [FillWaves -> [Buffers -> Int]]
      BY <1>6, <2>1, <3>1 DEF Shapes
    <3>3. [fill_reg[w] EXCEPT ![parity(w)] = pool_row[w][1 - parity(w)]] \in [Buffers -> Int]
      BY <1>1, <3>1
    <3>4. fill_reg' \in [FillWaves -> [Buffers -> Int]]
      BY <1>6, <2>1, <3>1, <3>3 DEF Shapes
    <3>5. s_kv' \in [Buffers -> [FillWaves -> Int]]
      <4>1. s_kv[1 - parity(w)] \in [FillWaves -> Int] /\ s_kv \in [Buffers -> [FillWaves -> Int]]
        BY <1>1 DEF Shapes
      <4>2. [s_kv[1 - parity(w)] EXCEPT ![w] = fill_reg[w][parity(w)]] \in [FillWaves -> Int]
        BY <1>6, <3>1, <4>1
      <4>3. [s_kv EXCEPT ![1 - parity(w)][w] = fill_reg[w][parity(w)]] \in [Buffers -> [FillWaves -> Int]]
        BY <1>1, <4>1, <4>2
      <4>4. QED
        BY <2>1, <4>1, <4>3
    <3>6. QED
      BY <3>2, <3>4, <3>5
  <2>3. QED
    BY <1>1, <1>6, <2>2 DEF Fill, Goto, Shapes, contracting, Places
<1>7. CASE w \in QueryWaves /\ run_softmax(w)
  BY <1>1, <1>7 DEF run_softmax, NextPlane, Goto, Shapes, filling, Places
<1>8. CASE w \in QueryWaves /\ contract_qk(w)
  BY <1>1, <1>8 DEF contract_qk, Goto, Shapes, lds, filling, Places, Garbage
<1>9. QED
  BY <1>3, <1>4, <1>5, <1>6, <1>7, <1>8 DEF InStep

LEMMA DrainShapes ==
  ASSUME Shapes, NEW w \in Waves, Drain(w)
  PROVE  Shapes'
<1>1. tiles' = tiles /\ DrainParity \in Buffers
  BY DEF Drain, tiles, DrainParity, Buffers
<1>2. pv' \in [Waves -> [QueryWaves -> Int]] /\ rescale' \in [Waves -> [QueryWaves -> Int]]
  <2>1. CASE tiles > 0
    <3>1. pv' = Accumulated(w, DrainParity) /\ rescale' = [rescale EXCEPT ![w] = s_rescale[DrainParity]]
      BY <2>1 DEF Drain
    <3>2. s_rescale[DrainParity] \in [QueryWaves -> Int] /\ s_prob[DrainParity] \in [QueryWaves -> Int]
          /\ pv[w] \in [QueryWaves -> Int]
      BY <1>1 DEF Shapes
    <3>3. [t \in QueryWaves |-> IF s_prob[DrainParity][t] = Zero THEN pv[w][t] ELSE s_prob[DrainParity][t]]
            \in [QueryWaves -> Int]
      BY <3>2
    <3>4. QED
      BY <3>1, <3>2, <3>3 DEF Accumulated, Shapes
  <2>2. CASE ~(tiles > 0)
    BY <2>2 DEF Drain, Shapes
  <2>3. QED
    BY <2>1, <2>2
<1>3. QED
  BY <1>1, <1>2 DEF Drain, Goto, Shapes, lds, filling, contracting, Places

LEMMA BarrierShapes ==
  ASSUME Shapes, tile_barrier
  PROVE  Shapes'
<1>1. \A n \in Int : StepAfter(n) \in Int
  BY DEF StepAfter, Before
<1>2. step' \in [Waves -> Int] /\ pc' \in [Waves -> Places]
  BY <1>1 DEF tile_barrier, Shapes, Places
<1>3. QED
  BY <1>2 DEF tile_barrier, Shapes, tiles, lds, filling, contracting

-----------------------------------------------------------------------------
(* The launch.                                                             *)
LEMMA TilesOfPart ==
  ASSUME NEW len \in Nat, NEW n \in Nat \ {0}, NEW j \in Nat
  PROVE  kv_tiles(len, j, n) \in Nat
<1> DEFINE lo == win_lo(len, j, n)
           hi == win_hi(len, j, n)
<1>1. lo \in Nat /\ hi \in Nat
  <2>1. per_part(len, n) \in Nat
    BY PartIsNat
  <2>2. j * per_part(len, n) \in Nat
    BY <2>1
  <2>3. QED
    BY <2>1, <2>2 DEF win_lo, win_hi, Least
<1>2. TileTokens \in Nat \ {0}
  BY SplitAssumption
<1> HIDE DEF lo, hi
<1>3. hi > lo => cdiv(hi - lo, TileTokens) \in Nat
  <2>1. hi > lo => hi - lo \in Int /\ 0 * TileTokens < hi - lo
    BY <1>1, <1>2
  <2>2. QED
    BY <1>2, <2>1, CeilDivision, 0 \in Int
<1>4. QED
  BY <1>3 DEF kv_tiles, lo, hi

LEMMA StartKeeps ==
  ASSUME Shapes, Launching, LaunchIsCall, NEW cta \in 0 .. n_ctas(call.of) - 1, Start(cta)
  PROVE  Shapes' /\ call' = NoCall /\ (Starting' \/ Ending(tiles % 2)')
<1> DEFINE c == call.of
           r == call.rank
           unit == unit_of(c, cta)
           o == owner(c, r, unit)
           idle == live_rows(c, slice_of(c, cta)) <= 0 \/ o.req >= c.B
<1>1. IsCall(c) /\ r \in 0 .. c.world - 1
  BY DEF Start, LaunchIsCall
<1>2. /\ pc' = [w \in Waves |-> IF idle THEN "end" ELSE "prologue"]
      /\ idle => work' = work
      /\ ~idle => work'.tiles = kv_tiles(kv_len(c, r, o.req), unit - o.first, o.count)
      /\ call' = NoCall
      /\ step' = step /\ s_kv' = s_kv /\ s_prob' = s_prob /\ s_rescale' = s_rescale
      /\ pool_row' = pool_row /\ fill_reg' = fill_reg /\ k0' = k0 /\ scores' = scores
      /\ folded' = folded /\ v' = v /\ rescale' = rescale /\ pv' = pv
  BY DEF Start, lds, filling, contracting
<1>3. ASSUME ~idle PROVE tiles' \in Nat
  <2>1. unit \in Nat
    <3>1. n_ctas(c) \in Nat /\ units_total(c) \in Nat \ {0} /\ cta \in Int
      BY <1>1, GridFits, CallFacts
    <3>2. cta % units_total(c) \in 0 .. units_total(c) - 1
      BY <3>1, Division
    <3>3. QED
      BY <3>1, <3>2 DEF unit_of
  <2> HIDE DEF unit
  <2>2. unit < first_unit(c, r, c.B)
    <3>1. first_unit(c, r, c.B) \in Nat /\ c.B \in Nat
      BY <1>1, FirstUnitIsNat, CallFacts
    <3>2. ~(o.req >= c.B)
      BY <1>3
    <3>3. first_unit(c, r, c.B) <= unit => o.req = c.B
      BY <1>1, <2>1, NobodysUnit
    <3>4. QED
      BY <2>1, <3>1, <3>2, <3>3
  <2>3. PICK i \in Requests(c) :
          first_unit(c, r, i) <= unit /\ unit < first_unit(c, r, i) + units(c, r, i)
    BY <1>1, <2>1, <2>2, UnitHasRequest
  <2>4. o = [req |-> i, first |-> first_unit(c, r, i), count |-> units(c, r, i)]
    BY <1>1, <2>1, <2>3, OwnerHasTheUnit
  <2>5. first_unit(c, r, i) \in Nat /\ units(c, r, i) \in Nat \ {0} /\ kv_len(c, r, i) \in Nat
    BY <1>1, UnitsInside, KvLenIsNat
  <2>6. unit - first_unit(c, r, i) \in Nat
    BY <2>1, <2>3, <2>5
  <2>7. kv_tiles(kv_len(c, r, i), unit - first_unit(c, r, i), units(c, r, i)) \in Nat
    BY <2>5, <2>6, TilesOfPart
  <2>8. QED
    BY <1>2, <1>3, <2>4, <2>7 DEF tiles
<1> HIDE DEF idle
<1>4. tiles' \in Nat
  BY <1>2, <1>3 DEF Shapes, tiles
<1>5. Shapes'
  BY <1>2, <1>4 DEF Shapes, Places
<1>6. Untouched'
  BY <1>2 DEF Launching, Untouched
<1>7. ASSUME ~idle PROVE Starting'
  <2>1. \A w \in Waves : pc'[w] = "prologue"
    BY <1>2, <1>7
  <2>2. \A f \in FillWaves : pc'[f] = "prologue"
    BY <2>1, WaveKinds
  <2>3. QED
    <3>1. /\ \A w \in Waves : pc'[w] \in {"prologue", "wait"} /\ pc'[w] # "wait"
          /\ \A f \in FillWaves : pc'[f] # "wait"
      BY <2>1, <2>2
    <3>2. ASSUME NEW n \in Buffers, NEW t \in QueryWaves
          PROVE  \E w \in Waves : ClearsRescale(w, n, t)' /\ pc'[w] # "wait"
      BY <3>1, SomeWaveClearsRescale DEF ClearsRescale
    <3>3. QED
      BY <1>6, <3>1, <3>2 DEF Starting
<1>8. ASSUME idle PROVE Ending(tiles % 2)'
  <2>1. tiles' = 0 /\ tiles' % 2 = 0 /\ 1 \in Buffers /\ \A w \in Waves : pc'[w] = "end"
    BY <1>2, <1>8 DEF Launching, tiles, Buffers
  <2>2. \A t : IfLive(t, 0 - 1)' = Zero
    BY DEF IfLive, Zero
  <2>3. QED
    <3>1. Ending(0)'
      BY <1>6, <2>1, <2>2 DEF Untouched, Ending, Zero
    <3>2. QED
      BY <2>1, <3>1 DEF Ending, PlaneHolds
<1>9. QED
  BY <1>2, <1>5, <1>7, <1>8

-----------------------------------------------------------------------------
(* The inductive invariant.                                                *)
LEMMA InvInit == Init => Inv
<1> SUFFICES ASSUME Init PROVE Inv
  OBVIOUS
<1>1. /\ tiles = 0 /\ pc = [w \in Waves |-> "launch"] /\ step = [w \in Waves |-> Before]
      /\ v = [w \in Waves |-> [b \in Buffers |-> Zero]] /\ folded = [t \in QueryWaves |-> Zero]
      /\ pv = [w \in Waves |-> [t \in QueryWaves |-> Zero]]
  BY DEF Init, tiles
<1>2. Launching
  BY <1>1 DEF Launching, Untouched
<1>3. Shapes
  BY <1>1 DEF Init, Shapes, Places, Before, Zero, Garbage
<1>4. QED
  BY <1>2, <1>3 DEF Inv

(* The place a wave's action leaves, and the launch it leaves alone.       *)
LEMMA StepKind ==
  ASSUME NEW w \in Waves, Step(w)
  PROVE  /\ call' = call
         /\ \/ Prologue(w) /\ pc[w] = "prologue"
            \/ Drain(w) /\ pc[w] = "drain"
            \/ InStep(w) /\ pc[w] \in {"begin", "softmax", "pv", "fetch", "fill", "contract"}
<1>1. CASE Prologue(w) \/ Drain(w)
  BY <1>1 DEF Prologue, Drain
<1>2. CASE ~(Prologue(w) \/ Drain(w))
  <2>1. InStep(w)
    BY <1>2 DEF Step, InStep
  <2>2. QED
    BY <2>1 DEF InStep, Begin, run_softmax, accumulate_pv, fetch_v, Fill, contract_qk
<1>3. QED
  BY <1>1, <1>2

LEMMA InvWaveStep ==
  ASSUME Inv, NEW w \in Waves, Step(w)
  PROVE  Inv'
<1>1. Shapes /\ tiles \in Nat /\ tiles % 2 \in {0, 1}
  BY Parity DEF Inv, Shapes
<1>2. Shapes' /\ call' = call
  BY <1>1, StepKind, PrologueShapes, StepShapes, DrainShapes
<1>3. tiles' = tiles
  BY StepKind DEF tiles, Prologue, Drain, InStep, Begin, run_softmax, accumulate_pv, fetch_v,
                  Fill, contract_qk
<1>4. ~Launching
  BY StepKind DEF Launching
<1>5. CASE call = NoCall /\ Starting
  <2>1. Prologue(w)
    BY <1>5, StepKind DEF Starting
  <2>2. QED
    BY <1>1, <1>2, <1>5, <2>1, PrologueKeeps DEF Inv
<1>6. CASE call = NoCall /\ \E n \in 0 .. tiles : Stepping(n, n % 2)
  <2>1. PICK n \in 0 .. tiles : Stepping(n, n % 2)
    BY <1>6
  <2>2. InStep(w)
    BY <2>1, StepKind DEF Stepping, Position, InOrder
  <2>3. n % 2 \in {0, 1}
    BY <1>1, Parity
  <2> DEFINE p == n % 2
  <2> HIDE DEF p
  <2>4. Stepping(n, p)'
    <3>1. p \in {0, 1} /\ p = n % 2 /\ Stepping(n, p)
      BY <2>1, <2>3 DEF p
    <3>2. QED
      BY <1>1, <2>2, <3>1, StepKeeps
  <2>5. n \in 0 .. tiles'
    BY <1>3
  <2>6. \E m \in 0 .. tiles' : Stepping(m, m % 2)'
    BY <2>4, <2>5 DEF p
  <2>7. QED
    BY <1>2, <1>6, <2>6 DEF Inv
<1>7. CASE call = NoCall /\ Ending(tiles % 2)
  <2>1. Drain(w)
    BY <1>7, StepKind DEF Ending
  <2>2. PICK p \in {0, 1} : p = tiles % 2 /\ Ending(p)
    BY <1>1, <1>7
  <2>3. Ending(tiles % 2)'
    <3>1. Ending(p)'
      BY <1>1, <2>1, <2>2, DrainKeeps
    <3>2. QED
      BY <1>3, <2>2, <3>1 DEF Ending, PlaneHolds
  <2>4. QED
    BY <1>2, <1>7, <2>3 DEF Inv
<1>8. QED
  BY <1>4, <1>5, <1>6, <1>7 DEF Inv

LEMMA InvBarrier ==
  ASSUME Inv, tile_barrier
  PROVE  Inv'
<1>1. Shapes /\ Shapes' /\ tiles \in Nat /\ tiles' = tiles /\ call' = call
  BY BarrierShapes DEF Inv, Shapes, tile_barrier, tiles
<1>2. PICK w \in Waves : pc[w] = "wait"
  BY WaveKinds DEF tile_barrier
<1>3. ~Launching /\ ~Ending(tiles % 2)
  BY <1>2 DEF Launching, Ending
<1>4. CASE call = NoCall /\ Starting
  <2>1. Stepping(0, 0)'
    BY <1>1, <1>4, BarrierStarts
  <2>2. 0 \in 0 .. tiles' /\ 0 % 2 = 0
    BY <1>1
  <2>3. \E m \in 0 .. tiles' : Stepping(m, m % 2)'
    BY <2>1, <2>2
  <2>4. QED
    BY <1>1, <1>4, <2>3 DEF Inv
<1>5. CASE call = NoCall /\ \E n \in 0 .. tiles : Stepping(n, n % 2)
  <2>1. PICK n \in 0 .. tiles : Stepping(n, n % 2)
    BY <1>5
  <2>2. n \in Nat /\ n % 2 \in {0, 1} /\ (n + 1) % 2 = 1 - (n % 2)
    BY <1>1, Parity
  <2>3. CASE n < tiles
    <3>1. Stepping(n + 1, 1 - (n % 2))'
      BY <1>1, <2>1, <2>2, <2>3, BarrierAdvances
    <3>2. n + 1 \in 0 .. tiles'
      BY <1>1, <2>2, <2>3
    <3>3. \E m \in 0 .. tiles' : Stepping(m, m % 2)'
      BY <2>2, <3>1, <3>2
    <3>4. QED
      BY <1>1, <1>5, <3>3 DEF Inv
  <2>4. CASE ~(n < tiles)
    <3>1. Ending(n % 2)' /\ n = tiles
      BY <1>1, <2>1, <2>2, <2>4, BarrierEnds
    <3>2. Ending(tiles % 2)'
      BY <1>1, <3>1 DEF Ending, PlaneHolds
    <3>3. QED
      BY <1>1, <1>5, <3>2 DEF Inv
  <2>5. QED
    BY <2>3, <2>4
<1>6. QED
  BY <1>3, <1>4, <1>5 DEF Inv

LEMMA InvStart ==
  ASSUME Inv, LaunchIsCall, NEW cta \in 0 .. n_ctas(call.of) - 1, Start(cta)
  PROVE  Inv'
<1>1. Shapes /\ Launching
  BY DEF Inv, Start
<1>2. Shapes' /\ call' = NoCall /\ (Starting' \/ Ending(tiles % 2)')
  BY <1>1, StartKeeps
<1>3. QED
  BY <1>2 DEF Inv

LEMMA InvStutter ==
  ASSUME Inv, UNCHANGED vars
  PROVE  Inv'
<1>1. /\ call' = call /\ work' = work /\ pc' = pc /\ step' = step /\ s_kv' = s_kv
      /\ s_prob' = s_prob /\ s_rescale' = s_rescale /\ pool_row' = pool_row /\ fill_reg' = fill_reg
      /\ v' = v /\ k0' = k0 /\ scores' = scores /\ folded' = folded /\ rescale' = rescale /\ pv' = pv
  BY DEF vars
<1>2. tiles' = tiles /\ \A t : tile_live(t)' <=> tile_live(t)
  BY <1>1 DEF tiles, tile_live
<1>3. Shapes'
  BY <1>1, <1>2 DEF Inv, Shapes
<1>4. (Launching => Launching') /\ (Starting => Starting')
  BY <1>1, <1>2 DEF Launching, Untouched, Starting, Staged, Clears, ClearsRescale
<1>5. \A n, p : Stepping(n, p) => Stepping(n, p)'
  BY <1>1, <1>2 DEF Stepping, Position, InOrder, Contracts, WaveAt, FillAt, TileAt, Unfolded,
                         PlaneHolds, IfLive
<1>6. Ending(tiles % 2) => Ending(tiles % 2)'
  BY <1>1, <1>2 DEF Ending, PlaneHolds, IfLive
<1>7. QED
  BY <1>1, <1>2, <1>3, <1>4, <1>5, <1>6 DEF Inv

LEMMA InvStep == Inv /\ LaunchIsCall /\ [Next]_vars => Inv'
  BY InvWaveStep, InvBarrier, InvStart, InvStutter DEF Next, Done

-----------------------------------------------------------------------------
(* The walk is in order wherever the invariant holds.                      *)
LEMMA InvInOrder ==
  ASSUME Inv
  PROVE  AccumulatesInOrder
<1>1. tiles \in Nat
  BY DEF Inv, Shapes
<1>2. CASE Launching \/ Starting
  BY <1>2 DEF Launching, Starting, AccumulatesInOrder
<1>3. CASE \E n \in 0 .. tiles : Stepping(n, n % 2)
  <2>1. PICK n \in 0 .. tiles : Stepping(n, n % 2)
    BY <1>3
  <2> SUFFICES ASSUME NEW w \in Waves
               PROVE  /\ pc[w] = "softmax" => scores[w] = step[w] - 1 /\ folded[w] = step[w] - 2
                      /\ pc[w] = "pv" => Pairs(w, parity(w), rescale[w], DueAt(step[w]))
    <3>1. \A w \in Waves : pc[w] # "drain" /\ pc[w] # "end"
      BY <2>1 DEF Stepping, Position, InOrder
    <3>2. QED
      BY <3>1 DEF AccumulatesInOrder
  <2> DEFINE p == n % 2
  <2>2. n \in Nat /\ Position(n, p, w) /\ step[w] = n /\ parity(w) = p
    BY <1>1, <2>1 DEF Stepping, Position, InOrder, parity
  <2>3. \A t \in QueryWaves : TileAt(n, p, t)
    BY <2>1, WaveKinds DEF Stepping, Position
  <2> HIDE DEF p
  <2>4. ASSUME pc[w] = "softmax" PROVE scores[w] = n - 1 /\ folded[w] = n - 2
    <3>1. w \in QueryWaves /\ tile_live(w) /\ n > 0
      BY <2>2, <2>4 DEF Position, InOrder, Contracts
    <3>2. DueAt(n) = n - 2
      BY <2>2, <3>1 DEF DueAt, Zero
    <3>3. QED
      BY <2>3, <2>4, <3>1, <3>2 DEF TileAt, Unfolded, IfLive
  <2>5. ASSUME pc[w] = "pv" PROVE Pairs(w, p, rescale[w], DueAt(n))
    <3>1. WaveAt(n, p, w)
      BY <2>2 DEF Position
    <3>2. DueAt(n) # Zero => DueAt(n - 1) = DueAt(n) - 1
      BY <2>2 DEF DueAt, Zero
    <3>3. QED
      BY <2>3, <2>5, <3>1, <3>2 DEF Pairs, WaveAt, TileAt, PlaneHolds, IfLive
  <2>6. QED
    BY <2>2, <2>4, <2>5
<1>4. CASE Ending(tiles % 2)
  <2> SUFFICES ASSUME NEW w \in Waves
               PROVE  /\ pc[w] = "drain" /\ tiles > 0 =>
                           Pairs(w, DrainParity, s_rescale[DrainParity], tiles - 1)
                      /\ pc[w] = "end" => \A t \in QueryWaves : tile_live(t) =>
                           pv[w][t] = tiles - 1 /\ folded[t] = tiles - 1
    <3>1. \A w \in Waves : pc[w] # "softmax" /\ pc[w] # "pv"
      BY <1>4 DEF Ending
    <3>2. QED
      BY <3>1 DEF AccumulatesInOrder
  <2>1. DrainParity = 1 - (tiles % 2)
    BY <1>1, ParityOfDrain
  <2>2. tiles > 0 => tiles - 1 # Zero /\ DueAt(tiles) = tiles - 1 - 1
    BY <1>1 DEF DueAt, Zero
  <2>3. QED
    BY <1>4, <2>1, <2>2 DEF Ending, Pairs, PlaneHolds, IfLive
<1>5. QED
  BY <1>2, <1>3, <1>4 DEF Inv

(* However many waves there are of each kind, whatever the calls, each     *)
(* accumulator takes its part's tiles in order, with the probabilities, the*)
(* rescale and V of one tile.                                              *)
THEOREM AccumulatesInOrderHolds == Spec => []AccumulatesInOrder
<1>1. Spec => []Inv
  BY InvInit, InvStep, LaunchInvariant, PTL DEF Spec
<1>2. QED
  BY <1>1, InvInOrder, PTL
=============================================================================
