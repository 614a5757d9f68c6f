-------------------------- MODULE MlaPipelineProofs --------------------------
(* Safety of the gfx950 MLA kernel's K/V pipeline for any number of waves   *)
(* in either group, any number of tiles and any live tiles per wave.        *)
(*                                                                          *)
(* The argument: all waves have passed the same number p of barriers, which *)
(* a wave's place and block determine (Control): A computes block t with    *)
(* 2 t + 2 passed and B with 2 t + 3, so the parity of p keeps the groups   *)
(* apart.  p also determines which tiles a wave's slabs hold (RowsLive) and *)
(* which one it may have in flight (InFlight): K(n) loads from p = 2 n and  *)
(* is read at 2 n + 2 and 2 n + 3; V(n) loads from 2 n + 1 and is read from *)
(* 2 n + 3 to 2 n + 5.  So K needs two buffers and V three.                 *)
EXTENDS MlaPipeline, SequenceTheorems, TLAPS

Buffers(w) == 0 .. RingDepth(Ring(w)) - 1
Holds(u, n) == slab[u][BufOf(Ring(u), n)] = n

(* Tile n of wave u's ring: in its slab, or in flight.                      *)
Fresh(u, n) == Holds(u, n) \/ \E i \in 1 .. Len(dma[u]) : dma[u][i] = n

(* B is one barrier behind.                                                 *)
Lag(w) == IF w \in GroupA THEN 0 ELSE 1

(* The barriers passed, p, from a wave's place and block.                   *)
Control(w, p) ==
  LET t == blk[w] IN
  /\ pc[w] \in {"prologue", "settle", "wait_start"} => t = 0 /\ p = 0
  /\ pc[w] \in {"frags", "wait_lead"} => t = 0 /\ p = 1
  /\ pc[w] = "wait_lead" => w \in GroupB
  /\ pc[w] \in {"drain", "wait_tile"} => p = 2 * t + 1 + Lag(w) /\ t <= numTiles
  /\ pc[w] \in Computing => p = 2 * t + 2 + Lag(w) /\ t <= numLive[w]
  /\ pc[w] = "dma" => p = 2 * t + 2 + Lag(w) /\ numLive[w] < t /\ t <= numTiles
  /\ pc[w] = "wait_block" => p = 2 * t + 2 + Lag(w) /\ t <= numTiles
  /\ pc[w] = "softmax" => p = 2 * t + 3 + Lag(w) /\ t < numLive[w]
  /\ pc[w] = "wait_trail" => w \in GroupA /\ p = 2 * numTiles + 3
  /\ pc[w] \in {"epilogue", "wait_stage"} => p = 2 * numTiles + 4
  /\ pc[w] = "stage" => p = 2 * numTiles + 5
  /\ pc[w] \in {"wait_trail", "epilogue", "wait_stage", "stage"} => t = numTiles + 1
  /\ pc[w] \in {"wait_stage", "stage"} => kind = "whole"
  /\ pc[w] = "end" => \/ kind = "empty"
                      \/ kind = "part" /\ p = 2 * numTiles + 4 /\ t = numTiles + 1
                      \/ kind = "whole" /\ p = 2 * numTiles + 5 /\ t = numTiles + 1
  /\ kind = "empty" => pc[w] \in {"prologue", "end"} /\ p = 0 /\ dma[w] = <<>>

(* Blocks are read until 2 numTiles + 3.                                    *)
Reading(p) == 1 <= p /\ p <= 2 * numTiles + 3

(* The one tile a wave may have in flight.                                  *)
InFlight(u, p) ==
  \A i \in 1 .. Len(dma[u]) :
    dma[u][i] >= 1 /\ p - Lag(u) \in {2 * dma[u][i], 2 * dma[u][i] + 1}

(* The tiles of wave u's ring that some wave reads with p passed.  Blocks 0 *)
(* and 1 read V(0), as the first fragments do.                              *)
InUse(u, n, p) ==
  IF u \in GroupA THEN p \in {2 * n + 2, 2 * n + 3} \/ (n = 0 /\ p = 1)
                  ELSE p \in 2 * n + 3 .. 2 * n + 5 \/ (n = 0 /\ p \in 1 .. 5)
RowsLive(u, p) == \A n \in Nat : InUse(u, n, p) => Holds(u, n)

(* Before the first barrier: tile 0 alone.                                  *)
Prologued(u, p) ==
  p = 0 => /\ pc[u] \in {"prologue", "end", "wait_start"} => dma[u] = <<>>
           /\ pc[u] = "settle" => dma[u] \in {<<>>, <<0>>}
           /\ pc[u] \in {"settle", "wait_start"} => Fresh(u, 0)

(* What a wave has already asked for.                                       *)
Issued(u) ==
  /\ pc[u] \in {"mfma_dma", "wait_block", "softmax"} => Fresh(u, blk[u] + 1)
  /\ pc[u] \in {"drain", "wait_tile"} => Fresh(u, blk[u])
  /\ pc[u] \in {"wait_tile", "wait_stage", "stage"} => dma[u] = <<>>
  /\ pc[u] = "end" /\ kind = "whole" => dma[u] = <<>>

Wave(u, p) ==
  /\ Control(u, p)
  /\ Reading(p) => InFlight(u, p) /\ RowsLive(u, p)
  /\ Prologued(u, p)
  /\ Issued(u)

Types ==
  /\ kind \in {"whole", "part", "empty"}
  /\ numTiles \in 0 .. MaxTiles
  /\ numLive \in [Waves -> 0 .. numTiles]
  /\ pc \in [Waves -> Places]
  /\ blk \in [Waves -> Nat]
  /\ dma \in [Waves -> Seq(Nat)]
  /\ slab \in [Waves -> [0 .. 1 -> Int] \cup [0 .. 2 -> Int]]
  /\ \A w \in Waves : slab[w] \in [Buffers(w) -> Int]

(* All waves have passed p barriers.                                        *)
Passed(p) == \A w \in Waves : Wave(w, p)
IInv == Types /\ \E p \in Nat : Passed(p)
-----------------------------------------------------------------------------
(* Tiles less than a ring's depth apart take different buffers.             *)
LEMMA BufFacts ==
  ASSUME NEW w \in Waves
  PROVE  /\ \A n \in Nat : BufOf(Ring(w), n) \in Buffers(w)
         /\ \A m, n \in Nat : n < m /\ m < n + 2 => BufOf(Ring(w), m) # BufOf(Ring(w), n)
         /\ w \notin GroupA =>
              \A m, n \in Nat : n < m /\ m < n + 3 => BufOf(Ring(w), m) # BufOf(Ring(w), n)
<1>1. CASE w \in GroupA
  BY <1>1 DEF BufOf, Buffers, RingDepth, Ring
<1>2. CASE w \notin GroupA
  BY <1>2 DEF BufOf, Buffers, RingDepth, Ring
<1> QED
  BY <1>1, <1>2

(* What the invariant says of one wave's types, as facts to cite.           *)
LEMMA WaveTypes ==
  ASSUME Types, NEW w \in Waves
  PROVE  /\ blk[w] \in Nat /\ numTiles \in Nat /\ numLive[w] \in 0 .. numTiles
         /\ pc[w] \in Places /\ dma[w] \in Seq(Nat) /\ Len(dma[w]) \in Nat
         /\ \A i \in 1 .. Len(dma[w]) : dma[w][i] \in Nat
         /\ slab[w] \in [Buffers(w) -> Int]
         /\ Lag(w) \in {0, 1} /\ (w \in GroupA <=> Lag(w) = 0) /\ (w \in GroupB <=> Lag(w) = 1)
<1>1. numTiles \in Nat
  BY TilesAssumption DEF Types
<1>2. numLive[w] \in 0 .. numTiles /\ blk[w] \in Nat /\ pc[w] \in Places
  BY DEF Types
<1>3. dma[w] \in Seq(Nat) /\ slab[w] \in [Buffers(w) -> Int]
  BY DEF Types
<1>4. Len(dma[w]) \in Nat /\ \A i \in 1 .. Len(dma[w]) : dma[w][i] \in Nat
  BY <1>3, LenProperties, ElementOfSeq
<1>5. Lag(w) \in {0, 1} /\ (w \in GroupA <=> Lag(w) = 0) /\ (w \in GroupB <=> Lag(w) = 1)
  BY GroupsAssumption DEF Lag, Waves
<1> QED
  BY <1>1, <1>2, <1>3, <1>4, <1>5

(* A step of w leaves what the invariant says of another wave alone.        *)
LEMMA OtherWaves ==
  ASSUME NEW p \in Nat, NEW u \in Waves, Wave(u, p),
         pc'[u] = pc[u], blk'[u] = blk[u], dma'[u] = dma[u], slab'[u] = slab[u], UNCHANGED item
  PROVE  Wave(u, p)'
<1> USE DEF item, Holds
<1>1. Control(u, p)'
  BY DEF Wave, Control
<1>2. (Reading(p) => InFlight(u, p) /\ RowsLive(u, p))'
  BY DEF Wave, Reading, InFlight, RowsLive, InUse
<1>3. Prologued(u, p)' /\ Issued(u)'
  BY DEF Wave, Prologued, Issued, Fresh
<1> QED
  BY <1>1, <1>2, <1>3 DEF Wave

(* The prologue starts with no barrier passed, nothing loaded or read.      *)
LEMMA InitIInv == Init => IInv
<1> SUFFICES ASSUME Init PROVE IInv
  OBVIOUS
<1>1. Types
  <2>1. slab \in [Waves -> [0 .. 1 -> Int] \cup [0 .. 2 -> Int]]
        /\ \A w \in Waves : slab[w] \in [Buffers(w) -> Int]
    BY DEF Init, NoTile, Buffers, Ring, RingDepth
  <2> QED
    BY <2>1 DEF Init, Types, Places
<1>2. Passed(0)
  BY DEF Init, Passed, Wave, Control, Reading, Prologued, Issued, Computing
<1> QED
  BY <1>1, <1>2 DEF IInv

(* A step of wave w other than a landing or a barrier's release.            *)
LEMMA LocalStep ==
  ASSUME NEW p \in Nat, Passed(p), NEW w \in Waves, Wave(w, p)',
         \A u \in Waves \ {w} : pc'[u] = pc[u] /\ blk'[u] = blk[u] /\ dma'[u] = dma[u]
                                  /\ slab'[u] = slab[u],
         UNCHANGED item
  PROVE  Passed(p)'
<1>1. ASSUME NEW u \in Waves PROVE Wave(u, p)'
  BY OtherWaves DEF Passed
<1> QED
  BY <1>1 DEF Passed

(* Steps that move w's place or block and nothing else keep the data facts. *)
LEMMA QuietStep ==
  ASSUME Types, NEW p \in Nat, Passed(p), NEW w \in Waves, NEW l \in Places, NEW b \in Nat,
         pc' = [pc EXCEPT ![w] = l], blk' = [blk EXCEPT ![w] = b],
         UNCHANGED <<item, dma, slab>>,
         Control(w, p)', Prologued(w, p)', Issued(w)'
  PROVE  Types' /\ Passed(p)'
<1>1. Types'
  BY DEF Types, item
<1>2. (Reading(p) => InFlight(w, p) /\ RowsLive(w, p))'
  BY DEF Passed, Wave, Reading, InFlight, RowsLive, InUse, Holds, item
<1>3. Wave(w, p)'
  BY <1>2 DEF Wave
<1> QED
  BY <1>1, <1>3, LocalStep DEF Types

(* The quiet steps: into the tile barrier and the other barriers with loads *)
(* landed, out of a block, a softmax and the item.                          *)
LEMMA QuietSteps ==
  ASSUME Types, NEW p \in Nat, Passed(p), NEW w \in Waves,
         \/ SkipEmpty(w) \/ ArriveStart(w) \/ FirstFrags(w) \/ ArriveTile(w) \/ BlockEnd(w)
         \/ SoftmaxEnd(w) \/ PartEnd(w) \/ ArriveStage(w) \/ StageEnd(w)
  PROVE  Types' /\ Passed(p)'
<1> USE DEF Goto, item
<1>1. Wave(w, p)
  BY DEF Passed
<1>2. /\ blk[w] \in Nat /\ numTiles \in Nat /\ numLive[w] \in 0 .. numTiles
      /\ blk' = [blk EXCEPT ![w] = blk[w]] <=> blk' = blk
      /\ Lag(w) \in {0, 1} /\ (w \in GroupA <=> Lag(w) = 0) /\ (w \in GroupB <=> Lag(w) = 1)
  BY WaveTypes DEF Types
<1>3. PICK l \in Places, b \in Nat :
        pc' = [pc EXCEPT ![w] = l] /\ blk' = [blk EXCEPT ![w] = b]
  <2>1. CASE SoftmaxEnd(w)
    <3>1. "drain" \in Places /\ blk[w] + 1 \in Nat
      BY <1>2 DEF Places
    <3>2. pc' = [pc EXCEPT ![w] = "drain"] /\ blk' = [blk EXCEPT ![w] = blk[w] + 1]
      BY <2>1 DEF SoftmaxEnd
    <3> QED
      BY <3>1, <3>2
  <2>2. CASE ~SoftmaxEnd(w)
    BY <1>2, <2>2 DEF Types, SkipEmpty, ArriveStart, FirstFrags, ArriveTile, BlockEnd, PartEnd, ArriveStage,
                      StageEnd, Places, AtBarrier
  <2> QED
    BY <2>1, <2>2
<1>4. pc'[w] = l /\ blk'[w] = b /\ UNCHANGED <<item, dma, slab>>
  BY <1>3 DEF Types, SkipEmpty, ArriveStart, FirstFrags, ArriveTile, BlockEnd, SoftmaxEnd, PartEnd, ArriveStage,
              StageEnd
<1>5. \/ pc[w] = "prologue" /\ kind = "empty" /\ l = "end" /\ b = blk[w]
      \/ pc[w] = "settle" /\ dma[w] = <<>> /\ l = "wait_start" /\ b = blk[w]
      \/ pc[w] = "frags" /\ l = (IF w \in GroupA THEN "drain" ELSE "wait_lead") /\ b = blk[w]
      \/ pc[w] = "drain" /\ dma[w] = <<>> /\ l = "wait_tile" /\ b = blk[w]
      \/ pc[w] = "mfma_dma" /\ l = "wait_block" /\ b = blk[w]
      \/ pc[w] = "softmax" /\ l = "drain" /\ b = blk[w] + 1
      \/ pc[w] = "epilogue" /\ kind = "part" /\ l = "end" /\ b = blk[w]
      \/ pc[w] = "epilogue" /\ kind = "whole" /\ dma[w] = <<>> /\ l = "wait_stage" /\ b = blk[w]
      \/ pc[w] = "stage" /\ l = "end" /\ b = blk[w]
  BY <1>4 DEF Types, SkipEmpty, ArriveStart, FirstFrags, ArriveTile, BlockEnd, SoftmaxEnd, PartEnd, ArriveStage,
              StageEnd
<1>6. Control(w, p)'
  <2>1. CASE b = blk[w]
    BY <1>1, <1>2, <1>4, <1>5, <2>1 DEF Wave, Control, Computing, Lag
  <2>2. CASE b = blk[w] + 1
    <3>1. pc[w] = "softmax" /\ l = "drain"
      BY <1>2, <1>5, <2>2
    <3>2. /\ p = 2 * blk[w] + 3 + Lag(w) /\ blk[w] < numLive[w] /\ kind # "empty"
          /\ UNCHANGED <<kind, numTiles, numLive, dma>>
      BY <1>1, <1>4, <3>1 DEF Wave, Control
    <3> QED
      BY <1>2, <1>4, <2>2, <3>1, <3>2 DEF Control, Computing, Lag
  <2> QED
    BY <1>5, <2>1, <2>2
<1>7. Prologued(w, p)'
  BY <1>1, <1>2, <1>4, <1>5 DEF Wave, Control, Prologued, Computing, Fresh, Holds
<1>8. pc[w] = "frags" => Holds(w, 0)
  BY <1>1, <1>2 DEF Wave, Control, RowsLive, InUse, Reading
<1>9. Issued(w)'
  BY <1>1, <1>2, <1>4, <1>5, <1>8 DEF Wave, Control, Issued, Fresh, Holds
<1> QED
  BY <1>3, <1>4, <1>6, <1>7, <1>9, QuietStep
-----------------------------------------------------------------------------
(* A load that is issued is in flight, and what was in flight still is.     *)
LEMMA IssueOne ==
  ASSUME NEW s \in Seq(Nat), NEW n \in Nat
  PROVE  /\ Append(s, n) \in Seq(Nat) /\ Append(s, n) # <<>>
         /\ \E i \in 1 .. Len(Append(s, n)) : Append(s, n)[i] = n
         /\ \A i \in 1 .. Len(Append(s, n)) :
              Append(s, n)[i] = n \/ (i \in 1 .. Len(s) /\ Append(s, n)[i] = s[i])
<1>1. /\ Append(s, n) \in Seq(Nat) /\ Len(Append(s, n)) = Len(s) + 1 /\ Len(s) \in Nat
      /\ \A i \in 1 .. Len(s) : Append(s, n)[i] = s[i]
      /\ Append(s, n)[Len(s) + 1] = n
  BY AppendProperties, LenProperties
<1>2. Len(s) + 1 \in 1 .. Len(Append(s, n))
  BY <1>1
<1> QED
  BY <1>1, <1>2, EmptySeq

(* The prologue issues tile 0 of each wave's ring.                          *)
LEMMA PrologueStep ==
  ASSUME Types, NEW p \in Nat, Passed(p), NEW w \in Waves, Prologue(w)
  PROVE  Types' /\ Passed(p)'
<1> USE DEF Prologue, Goto, Issue, item
<1>1. Wave(w, p) /\ p = 0 /\ dma[w] = <<>>
  BY DEF Passed, Wave, Control, Prologued
<1>2. pc'[w] = "settle" /\ pc' \in [Waves -> Places] /\ dma'[w] = <<0>>
  BY <1>1 DEF Types, Places
<1>3. Types'
  BY <1>1, <1>2 DEF Types
<1>4. Control(w, p)'
  BY <1>1, <1>2 DEF Wave, Control, Computing
<1>5. Prologued(w, p)' /\ Issued(w)' /\ ~Reading(p)'
  BY <1>1, <1>2 DEF Prologued, Issued, Fresh, Reading
<1>6. Wave(w, p)'
  BY <1>4, <1>5 DEF Wave
<1> QED
  BY <1>3, <1>6, LocalStep DEF Types

(* Under a block, and for a masked tile, the ring's next tile is issued: to *)
(* the buffer that no block reads in this window.                           *)
LEMMA IssueStep ==
  ASSUME Types, NEW p \in Nat, Passed(p), NEW w \in Waves, BlockDma(w) \/ DmaOnlyBlock(w)
  PROVE  Types' /\ Passed(p)'
<1> DEFINE n == blk[w] + 1
           s == dma[w]
           t == Append(s, n)
<1> USE DEF Goto, Issue, item
<1>1. Wave(w, p)
  BY DEF Passed
<1>2. /\ blk[w] \in Nat /\ n \in Nat /\ numTiles \in Nat /\ numLive[w] \in 0 .. numTiles /\ s \in Seq(Nat)
      /\ Lag(w) \in {0, 1} /\ (w \in GroupA <=> Lag(w) = 0) /\ (w \in GroupB <=> Lag(w) = 1)
  BY WaveTypes DEF Types
<1>3. /\ dma' = [dma EXCEPT ![w] = t] /\ UNCHANGED <<kind, numTiles, numLive, blk, slab>>
      /\ pc' = [pc EXCEPT ![w] = IF pc[w] = "mfma" THEN "mfma_dma" ELSE "wait_block"]
      /\ pc[w] \in {"mfma", "dma"}
  BY DEF BlockDma, DmaOnlyBlock
<1>4. /\ pc'[w] = IF pc[w] = "mfma" THEN "mfma_dma" ELSE "wait_block"
      /\ pc' \in [Waves -> Places] /\ dma'[w] = t
  BY <1>3 DEF Types, Places, Computing, AtBarrier
<1>5. /\ t \in Seq(Nat)
      /\ \E i \in 1 .. Len(t) : t[i] = n
      /\ \A i \in 1 .. Len(t) : t[i] = n \/ (i \in 1 .. Len(s) /\ t[i] = s[i])
  BY <1>2, IssueOne
<1> HIDE DEF t
<1>6. Types'
  BY <1>3, <1>4, <1>5 DEF Types
<1>7. /\ p = 2 * blk[w] + 2 + Lag(w) /\ blk[w] <= numTiles /\ kind # "empty"
      /\ pc[w] = "mfma" => blk[w] <= numLive[w]
  BY <1>1, <1>2, <1>3 DEF Wave, Control, Computing
<1>8. Control(w, p)'
  BY <1>2, <1>3, <1>4, <1>7 DEF Control, Computing, Lag
<1>9. InFlight(w, p)'
  <2>1. \A i \in 1 .. Len(s) : s[i] >= 1 /\ p - Lag(w) \in {2 * s[i], 2 * s[i] + 1}
    <3>1. Reading(p)
      BY <1>2, <1>7 DEF Reading
    <3> QED
      BY <1>1, <3>1 DEF Wave, InFlight
  <2>2. n >= 1 /\ p - Lag(w) \in {2 * n, 2 * n + 1}
    <3>1. p - Lag(w) = 2 * n
      BY <1>2, <1>7
    <3> QED
      BY <1>2, <3>1
  <2>3. \A i \in 1 .. Len(t) : t[i] >= 1 /\ p - Lag(w) \in {2 * t[i], 2 * t[i] + 1}
    BY <1>5, <2>1, <2>2
  <2> QED
    BY <1>4, <2>3 DEF InFlight, Lag
<1>10. RowsLive(w, p)' /\ Prologued(w, p)'
  BY <1>1, <1>2, <1>3, <1>7 DEF Wave, Reading, RowsLive, InUse, Holds, Prologued
<1>11. Issued(w)'
  BY <1>3, <1>4, <1>5 DEF Issued, Fresh
<1>12. Wave(w, p)'
  BY <1>8, <1>9, <1>10, <1>11 DEF Wave
<1> QED
  BY <1>3, <1>6, <1>12, LocalStep DEF Types
-----------------------------------------------------------------------------
(* A load that lands fills its own buffer and disturbs no other.            *)
LEMMA LandHolds ==
  ASSUME Types, NEW w \in Waves, NEW n \in Nat,
         slab' = [slab EXCEPT ![w][BufOf(Ring(w), n)] = n]
  PROVE  /\ slab' \in [Waves -> [0 .. 1 -> Int] \cup [0 .. 2 -> Int]]
         /\ \A u \in Waves : slab'[u] \in [Buffers(u) -> Int]
         /\ \A u \in Waves \ {w} : slab'[u] = slab[u]
         /\ Holds(w, n)'
         /\ \A m \in Nat :
              Holds(w, m) /\ BufOf(Ring(w), m) # BufOf(Ring(w), n) => Holds(w, m)'
<1>1. /\ BufOf(Ring(w), n) \in Buffers(w) /\ \A m \in Nat : BufOf(Ring(w), m) \in Buffers(w)
      /\ slab[w] \in [Buffers(w) -> Int] /\ Buffers(w) \in {0 .. 1, 0 .. 2}
  BY BufFacts DEF Types, Buffers, RingDepth, Ring
<1>2. slab' = [slab EXCEPT ![w] = [slab[w] EXCEPT ![BufOf(Ring(w), n)] = n]]
  OBVIOUS
<1>3. slab'[w] = [slab[w] EXCEPT ![BufOf(Ring(w), n)] = n] /\ \A u \in Waves \ {w} : slab'[u] = slab[u]
  BY <1>2 DEF Types
<1>4. slab'[w] \in [Buffers(w) -> Int]
  BY <1>1, <1>3
<1>5. slab' \in [Waves -> [0 .. 1 -> Int] \cup [0 .. 2 -> Int]]
  BY <1>1, <1>2, <1>3, <1>4 DEF Types
<1>6. \A u \in Waves : slab'[u] \in [Buffers(u) -> Int]
  BY <1>3, <1>4 DEF Types
<1>7. Holds(w, n)' /\ \A m \in Nat :
        Holds(w, m) /\ BufOf(Ring(w), m) # BufOf(Ring(w), n) => Holds(w, m)'
  BY <1>1, <1>3 DEF Holds
<1> QED
  BY <1>3, <1>5, <1>6, <1>7

(* While blocks are read, what lands shares no buffer with a tile in use.   *)
LEMMA LandsBeside ==
  ASSUME NEW w \in Waves, NEW p \in Nat, NEW m \in Nat, NEW n \in Nat,
         Lag(w) \in {0, 1}, w \in GroupA <=> Lag(w) = 0,
         n >= 1, p - Lag(w) \in {2 * n, 2 * n + 1}, InUse(w, m, p)
  PROVE  BufOf(Ring(w), m) # BufOf(Ring(w), n)
<1>1. CASE w \in GroupA
  <2>1. n = m + 1
    BY <1>1 DEF InUse
  <2> QED
    BY <2>1, BufFacts
<1>2. CASE w \notin GroupA
  <2>1. m < n /\ n < m + 3
    BY <1>2 DEF InUse
  <2> QED
    BY <1>2, <2>1, BufFacts
<1> QED
  BY <1>1, <1>2

(* A load's landing keeps every wave's slabs, and leaves fresh what was.    *)
LEMMA LandStep ==
  ASSUME Types, NEW p \in Nat, Passed(p), NEW w \in Waves, Land(w)
  PROVE  Types' /\ Passed(p)'
<1> DEFINE s == dma[w]
<1> USE DEF item
<1>1. Wave(w, p)
  BY DEF Passed
<1>2. /\ blk[w] \in Nat /\ numTiles \in Nat /\ numLive[w] \in 0 .. numTiles /\ s \in Seq(Nat) /\ s # <<>>
      /\ Lag(w) \in {0, 1} /\ (w \in GroupA <=> Lag(w) = 0) /\ (w \in GroupB <=> Lag(w) = 1)
      /\ pc[w] \in Places
  BY WaveTypes DEF Types, Land
<1>0. Head(s) = s[1] /\ Head(s) \in Nat
  BY <1>2, HeadTailProperties, EmptySeq
<1> PICK n \in Nat : n = Head(s)
  BY <1>0
<1>3. /\ n = s[1] /\ Tail(s) \in Seq(Nat)
      /\ Len(s) \in Nat /\ Len(s) >= 1 /\ Len(Tail(s)) = Len(s) - 1
      /\ \A i \in 1 .. Len(Tail(s)) : Tail(s)[i] = s[i + 1]
  BY <1>0, <1>2, HeadTailProperties, EmptySeq, LenProperties
<1>4. /\ slab' = [slab EXCEPT ![w][BufOf(Ring(w), n)] = n]
      /\ dma' = [dma EXCEPT ![w] = Tail(s)]
      /\ UNCHANGED <<kind, numTiles, numLive, pc, blk>>
  BY DEF Land
<1> HIDE DEF s
<1>5. dma'[w] = Tail(s) /\ dma' \in [Waves -> Seq(Nat)]
  BY <1>3, <1>4 DEF Types
<1>6. /\ slab' \in [Waves -> [0 .. 1 -> Int] \cup [0 .. 2 -> Int]]
      /\ \A u \in Waves : slab'[u] \in [Buffers(u) -> Int]
      /\ \A u \in Waves \ {w} : slab'[u] = slab[u]
      /\ Holds(w, n)'
      /\ \A m \in Nat : Holds(w, m) /\ BufOf(Ring(w), m) # BufOf(Ring(w), n) => Holds(w, m)'
  BY <1>3, <1>4, LandHolds
<1>7. Types'
  BY <1>4, <1>5, <1>6 DEF Types
<1>8. kind # "empty" /\ Control(w, p)'
  BY <1>1, <1>2, <1>4 DEF Wave, Control, s
<1>9. (Reading(p) => InFlight(w, p) /\ RowsLive(w, p))'
  <2> SUFFICES ASSUME Reading(p) PROVE InFlight(w, p)' /\ RowsLive(w, p)'
    BY <1>4 DEF Reading
  <2>1. \A i \in 1 .. Len(s) : s[i] >= 1 /\ p - Lag(w) \in {2 * s[i], 2 * s[i] + 1}
    BY <1>1 DEF Wave, InFlight, s
  <2>2. InFlight(w, p)'
    BY <1>3, <1>5, <2>1 DEF InFlight, Lag
  <2>3. n >= 1 /\ p - Lag(w) \in {2 * n, 2 * n + 1}
    BY <1>3, <2>1
  <2>4. ASSUME NEW m \in Nat, InUse(w, m, p) PROVE Holds(w, m)'
    <3>1. Holds(w, m)
      BY <1>1, <2>4 DEF Wave, RowsLive
    <3>2. BufOf(Ring(w), m) # BufOf(Ring(w), n)
      BY <1>2, <1>3, <2>3, <2>4, LandsBeside
    <3> QED
      BY <1>6, <3>1, <3>2
  <2> QED
    BY <2>2, <2>4 DEF RowsLive, InUse
<1>10. Fresh(w, n)'
  BY <1>6 DEF Fresh
<1>11. Prologued(w, p)'
  <2> SUFFICES ASSUME p = 0 PROVE Prologued(w, p)'
    BY DEF Prologued
  <2>1. pc[w] \in {"prologue", "settle", "wait_start", "end"}
    BY <1>1, <1>2, <1>8 DEF Wave, Control, Places, Computing, AtBarrier
  <2>2. pc[w] = "settle" /\ s = <<0>>
    BY <1>1, <1>2, <2>1 DEF Wave, Prologued, s
  <2>3. n = 0 /\ Tail(s) = <<>>
    BY <1>3, <2>2
  <2> QED
    BY <1>4, <1>5, <1>10, <2>2, <2>3 DEF Prologued
<1>12. Issued(w)'
  <2>1. ASSUME NEW m \in Nat, Reading(p), p - Lag(w) \in {2 * m, 2 * m + 1}
        PROVE  m = n
    <3>1. 1 \in 1 .. Len(s) /\ p - Lag(w) \in {2 * n, 2 * n + 1}
      BY <1>1, <1>3, <2>1 DEF Wave, InFlight, s
    <3>2. p - Lag(w) \in Int
      BY <1>2
    <3> QED
      BY <2>1, <3>1, <3>2
  <2>2. pc[w] \in {"mfma_dma", "wait_block", "softmax"} => Fresh(w, blk[w] + 1)'
    <3> SUFFICES ASSUME pc[w] \in {"mfma_dma", "wait_block", "softmax"} PROVE Fresh(w, blk[w] + 1)'
      OBVIOUS
    <3>1. /\ pc[w] = "softmax" => p = 2 * blk[w] + 3 + Lag(w) /\ blk[w] < numLive[w]
          /\ pc[w] # "softmax" => p = 2 * blk[w] + 2 + Lag(w) /\ blk[w] <= numTiles
      BY <1>1, <1>2 DEF Wave, Control, Computing
    <3>2. Reading(p) /\ (p - Lag(w) = 2 * (blk[w] + 1) \/ p - Lag(w) = 2 * (blk[w] + 1) + 1)
      <4>1. CASE pc[w] = "softmax"
        BY <1>2, <3>1, <4>1 DEF Reading
      <4>2. CASE pc[w] # "softmax"
        BY <1>2, <3>1, <4>2 DEF Reading
      <4> QED
        BY <4>1, <4>2
    <3>3. blk[w] + 1 \in Nat
      BY <1>2
    <3>4. blk[w] + 1 = n
      BY <2>1, <3>2, <3>3
    <3> QED
      BY <1>4, <1>10, <3>4
  <2>3. pc[w] \in {"drain", "wait_tile"} => Fresh(w, blk[w])'
    <3> SUFFICES ASSUME pc[w] \in {"drain", "wait_tile"} PROVE Fresh(w, blk[w])'
      OBVIOUS
    <3>1. Reading(p) /\ p - Lag(w) = 2 * blk[w] + 1
      BY <1>1, <1>2 DEF Wave, Control, Reading
    <3>2. blk[w] = n
      BY <1>2, <2>1, <3>1
    <3> QED
      BY <1>4, <1>10, <3>2
  <2>4. pc[w] \notin {"wait_tile", "wait_stage", "stage"} /\ ~(pc[w] = "end" /\ kind = "whole")
    BY <1>1, <1>2 DEF Wave, Issued, s
  <2> QED
    BY <1>4, <2>2, <2>3, <2>4 DEF Issued, Fresh, Holds
<1>13. Wave(w, p)'
  BY <1>8, <1>9, <1>11, <1>12 DEF Wave
<1> QED
  BY <1>4, <1>6, <1>7, <1>13, LocalStep DEF Types
-----------------------------------------------------------------------------
(* At a barrier nothing more than 2 numTiles + 4 have been passed, and then *)
(* for O's stage; so no wave of a barrier's item has ended.                 *)
LEMMA NoneEnded ==
  ASSUME Types, NEW p \in Nat, Passed(p), Release
  PROVE  \A w \in Waves : pc[w] \in AtBarrier
<1>1. PICK u \in Waves : pc[u] \in AtBarrier
  BY DEF Release
<1>2. /\ numTiles \in Nat /\ blk[u] \in Nat /\ numLive[u] \in 0 .. numTiles /\ Lag(u) \in {0, 1}
      /\ Wave(u, p)
  BY WaveTypes DEF Passed
<1>3. kind # "empty" /\ (p <= 2 * numTiles + 3 \/ (kind = "whole" /\ p = 2 * numTiles + 4))
  BY <1>1, <1>2 DEF Wave, Control, AtBarrier
<1> SUFFICES ASSUME NEW w \in Waves, pc[w] = "end" PROVE FALSE
  BY DEF Release
<1>4. (kind = "part" /\ p = 2 * numTiles + 4) \/ (kind = "whole" /\ p = 2 * numTiles + 5)
  BY <1>3 DEF Passed, Wave, Control
<1> QED
  BY <1>2, <1>3, <1>4

(* A barrier's release: all waves have passed one more.  A wave leaves the  *)
(* tile barrier with its tile in its slab; those that leave another barrier *)
(* keep what they had.                                                      *)
LEMMA ReleaseWave ==
  ASSUME Types, NEW p \in Nat, Passed(p), Release, NEW w \in Waves
  PROVE  Wave(w, p + 1)' /\ pc'[w] \in Places /\ blk'[w] \in Nat
<1>1. /\ Wave(w, p) /\ pc[w] \in AtBarrier
      /\ pc'[w] = AfterBarrier(w)[1] /\ blk'[w] = AfterBarrier(w)[2]
      /\ UNCHANGED <<kind, numTiles, numLive, dma, slab>>
  BY NoneEnded DEF Passed, Release, item
<1>2. /\ blk[w] \in Nat /\ numTiles \in Nat /\ numLive[w] \in 0 .. numTiles
      /\ Lag(w) \in {0, 1} /\ (w \in GroupA <=> Lag(w) = 0) /\ (w \in GroupB <=> Lag(w) = 1)
      /\ \A i \in 1 .. Len(dma[w]) : dma[w][i] \in Nat
  BY WaveTypes
<1>3. kind # "empty"
  BY <1>1 DEF Wave, Control, AtBarrier
<1>4. \/ pc[w] = "wait_start" /\ p = 0 /\ blk[w] = 0 /\ pc'[w] = "frags" /\ blk'[w] = 0
      \/ pc[w] = "wait_lead" /\ p = 1 /\ blk[w] = 0 /\ w \in GroupB /\ pc'[w] = "drain" /\ blk'[w] = 0
      \/ /\ pc[w] = "wait_tile" /\ p = 2 * blk[w] + 1 + Lag(w) /\ blk[w] <= numTiles /\ dma[w] = <<>>
         /\ pc'[w] = (IF blk[w] <= numLive[w] THEN "mfma" ELSE "dma") /\ blk'[w] = blk[w]
      \/ /\ pc[w] = "wait_block" /\ p = 2 * blk[w] + 2 + Lag(w) /\ blk[w] <= numTiles
         /\ \/ pc'[w] = "softmax" /\ blk'[w] = blk[w] /\ blk[w] < numLive[w]
            \/ pc'[w] = "drain" /\ blk'[w] = blk[w] + 1 /\ blk[w] < numTiles
            \/ pc'[w] = "wait_trail" /\ blk'[w] = blk[w] + 1 /\ blk[w] = numTiles /\ w \in GroupA
            \/ pc'[w] = "epilogue" /\ blk'[w] = blk[w] + 1 /\ blk[w] = numTiles /\ w \in GroupB
      \/ /\ pc[w] = "wait_trail" /\ p = 2 * numTiles + 3 /\ blk[w] = numTiles + 1
         /\ pc'[w] = "epilogue" /\ blk'[w] = blk[w]
      \/ /\ pc[w] = "wait_stage" /\ p = 2 * numTiles + 4 /\ blk[w] = numTiles + 1 /\ dma[w] = <<>>
         /\ kind = "whole" /\ pc'[w] = "stage" /\ blk'[w] = blk[w]
  <2>1. CASE pc[w] \in {"wait_start", "wait_lead", "wait_trail", "wait_stage"}
    BY <1>1, <2>1 DEF Wave, Control, Issued, AfterBarrier
  <2>2. CASE pc[w] = "wait_tile"
    BY <1>1, <2>2 DEF Wave, Control, Issued, AfterBarrier, AfterTile
  <2>3. CASE pc[w] = "wait_block"
    <3>1. p = 2 * blk[w] + 2 + Lag(w) /\ blk[w] <= numTiles
      BY <1>1, <2>3 DEF Wave, Control
    <3>2. pc'[w] = AfterBlock(w)[1] /\ blk'[w] = AfterBlock(w)[2]
      BY <1>1, <2>3 DEF AfterBarrier
    <3> QED
      BY <1>2, <2>3, <3>1, <3>2 DEF AfterBlock, Waves
  <2> QED
    BY <1>1, <2>1, <2>2, <2>3 DEF AtBarrier
<1>5. pc'[w] \in Places /\ blk'[w] \in Nat
  BY <1>2, <1>4 DEF Places, Computing, AtBarrier
<1>6. Control(w, p + 1)'
  <2>1. CASE pc[w] # "wait_block"
    BY <1>1, <1>2, <1>3, <1>4, <2>1 DEF Control, Computing, Lag
  <2>2. CASE pc[w] = "wait_block"
    <3>1. p = 2 * blk[w] + 2 + Lag(w) /\ blk[w] <= numTiles
      BY <1>4, <2>2
    <3>2. \/ pc'[w] = "softmax" /\ blk'[w] = blk[w] /\ blk[w] < numLive[w]
          \/ pc'[w] = "drain" /\ blk'[w] = blk[w] + 1 /\ blk[w] < numTiles
          \/ pc'[w] = "wait_trail" /\ blk'[w] = blk[w] + 1 /\ blk[w] = numTiles /\ w \in GroupA
          \/ pc'[w] = "epilogue" /\ blk'[w] = blk[w] + 1 /\ blk[w] = numTiles /\ w \in GroupB
      BY <1>4, <2>2
    <3>a. UNCHANGED <<kind, numTiles, numLive, dma>> /\ kind # "empty"
      BY <1>1, <1>3
    <3>3. CASE pc'[w] = "softmax" /\ blk'[w] = blk[w] /\ blk[w] < numLive[w]
      BY <1>2, <3>a, <3>1, <3>3 DEF Control, Computing, Lag
    <3>4. CASE pc'[w] = "drain" /\ blk'[w] = blk[w] + 1 /\ blk[w] < numTiles
      <4>1. blk[w] + 1 <= numTiles
        BY <1>2, <3>4
      <4>2. 2 * (blk[w] + 1) = 2 * blk[w] + 2
        BY <1>2
      <4>3. p + 1 = 2 * (blk[w] + 1) + 1 + Lag(w)
        BY <1>2, <3>1, <4>2
      <4> QED
        BY <3>a, <3>4, <4>1, <4>3 DEF Control, Computing, Lag
    <3>5. CASE pc'[w] = "wait_trail" /\ blk'[w] = blk[w] + 1 /\ blk[w] = numTiles /\ w \in GroupA
      <4>1. p + 1 = 2 * numTiles + 3
        BY <1>2, <3>1, <3>5
      <4> QED
        BY <3>a, <3>5, <4>1 DEF Control, Computing
    <3>6. CASE pc'[w] = "epilogue" /\ blk'[w] = blk[w] + 1 /\ blk[w] = numTiles /\ w \in GroupB
      <4>1. p + 1 = 2 * numTiles + 4
        BY <1>2, <3>1, <3>6
      <4> QED
        BY <3>a, <3>6, <4>1 DEF Control, Computing
    <3> QED
      BY <3>2, <3>3, <3>4, <3>5, <3>6
  <2> QED
    BY <2>1, <2>2
<1>7. (Reading(p + 1) => InFlight(w, p + 1))'
  <2> SUFFICES ASSUME Reading(p + 1) PROVE InFlight(w, p + 1)'
    BY <1>1 DEF Reading
  <2>1. CASE dma[w] = <<>>
    BY <1>1, <2>1 DEF InFlight
  <2>2. CASE dma[w] # <<>>
    <3>1. pc[w] # "wait_start"
      BY <1>1, <1>4, <2>2 DEF Wave, Prologued
    <3>2. Reading(p) /\ ((p = 1 /\ Lag(w) = 1) \/ p = 2 * blk[w] + 2 + Lag(w))
      BY <1>2, <1>4, <2>2, <3>1 DEF Reading
    <3>3. \A i \in 1 .. Len(dma[w]) :
            dma[w][i] >= 1 /\ p - Lag(w) \in {2 * dma[w][i], 2 * dma[w][i] + 1}
      BY <1>1, <3>2 DEF Wave, InFlight
    <3>4. \A i \in 1 .. Len(dma[w]) :
            dma[w][i] >= 1 /\ (p + 1) - Lag(w) \in {2 * dma[w][i], 2 * dma[w][i] + 1}
      <4> SUFFICES ASSUME NEW i \in 1 .. Len(dma[w])
          PROVE  dma[w][i] >= 1 /\ (p + 1) - Lag(w) \in {2 * dma[w][i], 2 * dma[w][i] + 1}
        OBVIOUS
      <4>1. dma[w][i] \in Nat /\ dma[w][i] >= 1 /\ p - Lag(w) \in {2 * dma[w][i], 2 * dma[w][i] + 1}
        BY <1>2, <3>3
      <4>2. p - Lag(w) = 2 * (blk[w] + 1)
        BY <1>2, <3>2, <4>1
      <4>3. p - Lag(w) = 2 * dma[w][i]
        BY <1>2, <4>1, <4>2
      <4>4. (p + 1) - Lag(w) = 2 * dma[w][i] + 1
        BY <1>2, <4>1, <4>3
      <4> QED
        BY <4>1, <4>4
    <3> QED
      BY <1>1, <3>4 DEF InFlight, Lag
  <2> QED
    BY <2>1, <2>2
<1>8. (Reading(p + 1) => RowsLive(w, p + 1))'
  <2> SUFFICES ASSUME Reading(p + 1), NEW n \in Nat, InUse(w, n, p + 1) PROVE Holds(w, n)'
    BY <1>1 DEF Reading, RowsLive, InUse
  <2>1. CASE InUse(w, n, p) /\ p >= 1
    BY <1>1, <1>2, <2>1 DEF Wave, Reading, RowsLive, Holds
  <2>2. CASE ~InUse(w, n, p) \/ p = 0
    <3>1. (p = 0 /\ n = 0) \/ (p = 2 * n + 1 + Lag(w) /\ p >= 1)
      <4>1. CASE w \in GroupA
        BY <1>2, <2>2, <4>1 DEF InUse
      <4>2. CASE w \notin GroupA
        BY <1>2, <2>2, <4>2, GroupsAssumption DEF InUse, Waves
      <4> QED
        BY <4>1, <4>2
    <3>2. CASE p = 0
      <4>1. pc[w] = "wait_start" /\ n = 0
        BY <1>2, <1>4, <3>1, <3>2
      <4>2. Holds(w, 0)
        BY <1>1, <3>2, <4>1 DEF Wave, Prologued, Fresh
      <4> QED
        BY <1>1, <4>1, <4>2 DEF Holds
    <3>3. CASE p # 0
      <4>1. p = 2 * n + 1 + Lag(w) /\ p <= 2 * numTiles + 2
        BY <1>2, <3>1, <3>3 DEF Reading
      <4>a. p # 2 * blk[w] + 2 + Lag(w) /\ p # 2 * numTiles + 3 /\ p # 2 * numTiles + 4
            /\ ~(p = 1 /\ w \in GroupB)
        BY <1>2, <4>1
      <4>b. pc[w] = "wait_tile" /\ p = 2 * blk[w] + 1 + Lag(w) /\ dma[w] = <<>>
        BY <1>4, <3>3, <4>a
      <4>2. pc[w] = "wait_tile" /\ blk[w] = n /\ dma[w] = <<>>
        BY <1>2, <4>1, <4>b
      <4>3. Holds(w, n)
        BY <1>1, <4>2 DEF Wave, Issued, Fresh
      <4> QED
        BY <1>1, <4>3 DEF Holds
    <3> QED
      BY <3>2, <3>3
  <2> QED
    BY <2>1, <2>2
<1>9. Prologued(w, p + 1)'
  BY DEF Prologued
<1>10. pc[w] = "wait_lead" => Holds(w, 0)
  BY <1>1, <1>2 DEF Wave, Control, RowsLive, InUse, Reading
<1>11. Issued(w)'
  BY <1>1, <1>2, <1>4, <1>10 DEF Wave, Issued, Fresh, Holds
<1> QED
  BY <1>5, <1>6, <1>7, <1>8, <1>9, <1>11 DEF Wave
(* So all waves have passed one barrier more.                              *)
LEMMA ReleaseStep ==
  ASSUME Types, NEW p \in Nat, Passed(p), Release
  PROVE  Types' /\ Passed(p + 1)'
<1>1. \A w \in Waves : Wave(w, p + 1)' /\ pc'[w] \in Places /\ blk'[w] \in Nat
  BY ReleaseWave
<1>2. /\ pc' = [w \in Waves |-> AfterBarrier(w)[1]]
      /\ blk' = [w \in Waves |-> AfterBarrier(w)[2]]
      /\ UNCHANGED <<kind, numTiles, numLive, dma, slab>>
  BY DEF Release, item
<1>3. pc' \in [Waves -> Places] /\ blk' \in [Waves -> Nat]
  BY <1>1, <1>2
<1> QED
  BY <1>1, <1>2, <1>3 DEF Types, Passed

(* The invariant is kept by every step.                                     *)
LEMMA NextInv == IInv /\ [Next]_vars => IInv'
<1> SUFFICES ASSUME IInv, [Next]_vars PROVE IInv'
  OBVIOUS
<1>1. Types
  BY DEF IInv
<1>2. PICK p \in Nat : Passed(p)
  BY DEF IInv
<1> SUFFICES Types' /\ (Passed(p)' \/ Passed(p + 1)')
  BY <1>2 DEF IInv
<1>3. CASE \E w \in Waves : Land(w)
  BY <1>1, <1>2, <1>3, LandStep
<1>4. ASSUME NEW w \in Waves, Step(w) PROVE Types' /\ Passed(p)'
  BY <1>1, <1>2, <1>4, QuietSteps, PrologueStep, IssueStep DEF Step
<1>5. CASE Release
  BY <1>1, <1>2, <1>5, ReleaseStep
<1>6. CASE Retired \/ UNCHANGED vars
  <2>1. UNCHANGED vars
    BY <1>6 DEF Retired
  <2>2. ASSUME NEW w \in Waves PROVE Wave(w, p)'
    BY <1>2, <2>1, OtherWaves DEF Passed, vars, item
  <2> QED
    BY <1>1, <2>1, <2>2 DEF Types, Passed, vars
<1> QED
  BY <1>3, <1>4, <1>5, <1>6 DEF Next

(* The inductive invariant holds in every state of the pipeline.            *)
THEOREM Inductive == Spec => []IInv
BY InitIInv, NextInv, PTL DEF Spec

-----------------------------------------------------------------------------
(* What a wave reads is in use, in the slabs of the waves that load it.     *)
LEMMA ReadsInUse ==
  ASSUME Types, NEW p \in Nat, Passed(p), NEW w \in Waves, NEW x \in Reads(w), NEW u \in Loaders(x[1])
  PROVE  /\ u \in Waves /\ x[1] = Ring(u) /\ x[2] \in Nat
         /\ Reading(p) /\ InUse(u, x[2], p)
<1>1. /\ blk[w] \in Nat /\ numTiles \in Nat /\ numLive[w] \in 0 .. numTiles
      /\ Lag(w) \in {0, 1} /\ (w \in GroupA <=> Lag(w) = 0) /\ (w \in GroupB <=> Lag(w) = 1)
      /\ Wave(w, p)
  BY WaveTypes DEF Passed
<1> DEFINE t == blk[w]
<1>2. x[1] \in {"K", "V"} => u \in Waves /\ x[1] = Ring(u) /\ (u \in GroupA <=> x[1] = "K")
  BY GroupsAssumption DEF Loaders, Waves, Ring
<1>3. CASE pc[w] = "frags"
  <2>1. p = 1 /\ x = <<"V", 0>>
    BY <1>1, <1>3 DEF Wave, Control, Reads
  <2> QED
    BY <1>1, <1>2, <2>1 DEF Reading, InUse
<1>4. CASE pc[w] \in Computing
  <2>1. p = 2 * t + 2 + Lag(w) /\ t <= numTiles
    BY <1>1, <1>4 DEF Wave, Control
  <2>2. x \in {<<"V", PvTile(t)>>, <<"K", t>>} \/ (x = <<"V", t>> /\ w \in GroupB)
    BY <1>1, <1>4 DEF Reads, Computing
  <2>3. PvTile(t) \in Nat /\ (t = 0 => PvTile(t) = 0) /\ (t # 0 => PvTile(t) = t - 1) /\ Reading(p)
    BY <1>1, <2>1 DEF PvTile, Reading
  <2>4. CASE x = <<"K", t>>
    <3>1. x[1] = "K" /\ x[2] = t
      BY <2>4
    <3>2. p \in {2 * t + 2, 2 * t + 3}
      BY <1>1, <2>1
    <3> QED
      BY <1>1, <1>2, <2>3, <3>1, <3>2 DEF InUse
  <2>5. CASE x = <<"V", PvTile(t)>>
    <3>1. x[1] = "V" /\ x[2] = PvTile(t)
      BY <2>5
    <3>2. p \in 2 * PvTile(t) + 3 .. 2 * PvTile(t) + 5 \/ (PvTile(t) = 0 /\ p \in 1 .. 5)
      BY <1>1, <2>1, <2>3
    <3> QED
      BY <1>2, <2>3, <3>1, <3>2 DEF InUse
  <2>6. CASE x = <<"V", t>> /\ w \in GroupB
    BY <1>1, <1>2, <2>1, <2>3, <2>6 DEF InUse
  <2> QED
    BY <2>2, <2>4, <2>5, <2>6
<1>5. CASE pc[w] = "softmax"
  <2>1. p = 2 * t + 3 /\ t < numLive[w] /\ x = <<"V", t>>
    BY <1>1, <1>5 DEF Wave, Control, Reads, Computing
  <2> QED
    BY <1>1, <1>2, <2>1 DEF Reading, InUse
<1> QED
  BY <1>3, <1>4, <1>5 DEF Reads

LEMMA ImpliesReadsOwnTile == IInv => ReadsOwnTile
<1> SUFFICES ASSUME IInv, NEW w \in Waves, NEW x \in Reads(w), NEW u \in Loaders(x[1])
    PROVE  slab[u][BufOf(x[1], x[2])] = x[2]
  BY DEF ReadsOwnTile
<1>1. PICK p \in Nat : Passed(p)
  BY DEF IInv
<1>2. /\ u \in Waves /\ x[1] = Ring(u) /\ x[2] \in Nat
      /\ Reading(p) /\ InUse(u, x[2], p)
  BY <1>1, ReadsInUse DEF IInv
<1>3. Holds(u, x[2])
  BY <1>1, <1>2 DEF Passed, Wave, RowsLive
<1> QED
  BY <1>2, <1>3 DEF Holds

LEMMA ImpliesNoDmaUnderRead == IInv => NoDmaUnderRead
<1> SUFFICES ASSUME IInv PROVE NoDmaUnderRead
  OBVIOUS
<1>1. PICK p \in Nat : Passed(p)
  BY DEF IInv
<1>2. Types
  BY DEF IInv
<1>3. ASSUME NEW w \in Waves, NEW x \in Reads(w), NEW u \in Loaders(x[1]), NEW i \in DOMAIN dma[u]
      PROVE  BufOf(x[1], dma[u][i]) # BufOf(x[1], x[2])
  <2>1. /\ u \in Waves /\ x[1] = Ring(u) /\ x[2] \in Nat
        /\ Reading(p) /\ InUse(u, x[2], p)
    BY <1>1, <1>2, ReadsInUse
  <2>2. dma[u] \in Seq(Nat) /\ Lag(u) \in {0, 1} /\ (u \in GroupA <=> Lag(u) = 0)
    BY <1>2, <2>1, WaveTypes
  <2>3. i \in 1 .. Len(dma[u]) /\ dma[u][i] \in Nat
    BY <2>2, LenProperties, ElementOfSeq
  <2>4. dma[u][i] >= 1 /\ p - Lag(u) \in {2 * dma[u][i], 2 * dma[u][i] + 1}
    BY <1>1, <2>1, <2>3 DEF Passed, Wave, InFlight
  <2> QED
    BY <2>1, <2>2, <2>3, <2>4, LandsBeside
<1>4. ASSUME NEW w \in Waves, pc[w] = "stage", NEW u \in Waves PROVE Reads(u) = {} /\ dma[u] = <<>>
  <2>1. p = 2 * numTiles + 5 /\ kind = "whole" /\ Wave(u, p)
    BY <1>1, <1>4 DEF Passed, Wave, Control
  <2>2. /\ blk[u] \in Nat /\ numTiles \in Nat /\ numLive[u] \in 0 .. numTiles /\ pc[u] \in Places
        /\ Lag(u) \in {0, 1}
    BY <1>2, WaveTypes
  <2>3. pc[u] \in {"stage", "end"}
    BY <2>1, <2>2 DEF Wave, Control, Places, Computing, AtBarrier
  <2> QED
    BY <2>1, <2>3 DEF Wave, Issued, Reads, Computing
<1> QED
  BY <1>3, <1>4 DEF NoDmaUnderRead

LEMMA ImpliesOneGroup == IInv => OneGroupComputes
<1> SUFFICES ASSUME IInv, NEW a \in GroupA, NEW b \in GroupB,
                    pc[a] \in Computing, pc[b] \in Computing
    PROVE  FALSE
  BY DEF OneGroupComputes
<1>1. PICK p \in Nat : Passed(p)
  BY DEF IInv
<1>2. a \in Waves /\ b \in Waves /\ b \notin GroupA
  BY GroupsAssumption DEF Waves
<1>3. p = 2 * blk[a] + 2 /\ p = 2 * blk[b] + 3 /\ blk[a] \in Nat /\ blk[b] \in Nat
  BY <1>1, <1>2, WaveTypes DEF IInv, Passed, Wave, Control, Lag
<1> QED
  BY <1>3

(* ReadsOwnTile is an invariant: what a block or its fragments read is in   *)
(* every loader's slab, for any number of waves and tiles.                  *)
THEOREM ReadsCorrect == Spec => []ReadsOwnTile
BY Inductive, ImpliesReadsOwnTile, PTL

(* NoDmaUnderRead is an invariant: two buffers of K and three of V are      *)
(* enough, and O is staged over them when nothing can land any more.        *)
THEOREM NoOverwrite == Spec => []NoDmaUnderRead
BY Inductive, ImpliesNoDmaUnderRead, PTL

(* OneGroupComputes is an invariant: barriers that only count arrivals keep *)
(* the groups' blocks apart.                                                *)
THEOREM GroupsTakeTurns == Spec => []OneGroupComputes
BY Inductive, ImpliesOneGroup, PTL

-----------------------------------------------------------------------------
(* What a wave computes from is the tiles its block names.                  *)
BlocksSeen ==
  \A w \in Waves : WalkSeen(w) = IF pc[w] \in Computing THEN TheWalk!BlockData(blk[w]) ELSE {}

LEMMA SeenIsItsBlock == IInv => BlocksSeen
<1> SUFFICES ASSUME IInv, NEW w \in Waves, pc[w] \in Computing
    PROVE  WalkSeen(w) = TheWalk!BlockData(blk[w])
  BY DEF BlocksSeen, WalkSeen
<1>1. <<"V", PvTile(blk[w])>> \in Reads(w) /\ <<"K", blk[w]>> \in Reads(w)
  BY GroupsAssumption DEF Reads, Waves, Computing
<1>2. /\ \A u \in Loaders("V") : slab[u][BufOf("V", PvTile(blk[w]))] = PvTile(blk[w])
      /\ \A u \in Loaders("K") : slab[u][BufOf("K", blk[w])] = blk[w]
  BY <1>1, ImpliesReadsOwnTile DEF ReadsOwnTile
<1>3. /\ DataOf(<<"V", PvTile(blk[w])>>) = {<<"V", PvTile(blk[w])>>}
      /\ DataOf(<<"K", blk[w]>>) = {<<"K", blk[w]>>}
  BY <1>2, BothLoad DEF DataOf, Loaders
<1> QED
  BY <1>3 DEF WalkSeen, TheWalk!BlockData, PvTile

(* How far a wave is, from the barriers passed.                             *)
LEMMA PlaceInWalk ==
  ASSUME Types, NEW p \in Nat, Passed(p), kind # "empty", NEW w \in Waves
  PROVE  /\ WalkPos(w) \in Nat /\ WalkPos(w) <= numTiles + 1
         /\ p <= 2 * WalkPos(w) + 3
<1>1. /\ blk[w] \in Nat /\ numTiles \in Nat /\ numLive[w] \in 0 .. numTiles /\ pc[w] \in Places
      /\ Lag(w) \in {0, 1} /\ Wave(w, p)
  BY WaveTypes DEF Passed
<1>2. CASE pc[w] \in {"wait_block", "softmax"}
  <2>1. WalkPos(w) = blk[w] + 1
    BY <1>2 DEF WalkPos
  <2>2. blk[w] <= numTiles /\ (p = 2 * blk[w] + 2 + Lag(w) \/ p = 2 * blk[w] + 3 + Lag(w))
    BY <1>1, <1>2 DEF Wave, Control
  <2> QED
    BY <1>1, <2>1, <2>2
<1>3. CASE pc[w] \in {"prologue", "settle", "wait_start", "frags", "wait_lead", "drain", "wait_tile", "dma"}
  BY <1>1, <1>3 DEF Wave, Control, WalkPos
<1>4. CASE pc[w] \in Computing
  BY <1>1, <1>4 DEF Wave, Control, WalkPos, Computing
<1>5. CASE pc[w] \in {"wait_trail", "epilogue", "wait_stage", "stage", "end"}
  BY <1>1, <1>5 DEF Wave, Control, WalkPos
<1> QED
  BY <1>1, <1>2, <1>3, <1>4, <1>5 DEF Places, AtBarrier

(* What a step of the walk does for one wave.                               *)
Moves(w) ==
  \/ /\ kind # "empty" /\ WalkSeen(w) = {}
     /\ WalkPos(w) <= numLive[w] /\ \A u \in Waves : WalkPos(u) >= WalkPos(w) - 1
     /\ WalkSeen(w)' = TheWalk!BlockData(WalkPos(w)) /\ WalkPos(w)' = WalkPos(w)
  \/ /\ WalkSeen(w) # {}
     /\ WalkSeen(w)' = {} /\ WalkPos(w)' = WalkPos(w) + 1
  \/ /\ kind # "empty" /\ numLive[w] < WalkPos(w) /\ WalkPos(w) <= numTiles
     /\ \A u \in Waves : WalkPos(u) >= WalkPos(w) - 1
     /\ WalkSeen(w)' = WalkSeen(w) /\ WalkPos(w)' = WalkPos(w) + 1
  \/ WalkPos(w)' = WalkPos(w) /\ WalkSeen(w)' = WalkSeen(w)

(* A step that is such for every wave is a step of the walk.                *)
LEMMA WalkStep ==
  ASSUME UNCHANGED item, \A w \in Waves : Moves(w)
  PROVE  TheWalk!Next
<1>1. UNCHANGED <<kind, numTiles, numLive>>
  BY DEF item
<1>2. \A w \in Waves : TheWalk!Begin(w) \/ TheWalk!End(w) \/ TheWalk!Pass(w) \/ TheWalk!Stay(w)
  <2> SUFFICES ASSUME NEW w \in Waves
      PROVE  TheWalk!Begin(w) \/ TheWalk!End(w) \/ TheWalk!Pass(w) \/ TheWalk!Stay(w)
    OBVIOUS
  <2>1. Moves(w)
    OBVIOUS
  <2> QED
   BY <2>1 DEF Moves, TheWalk!Begin, TheWalk!End, TheWalk!Pass, TheWalk!Stay, TheWalk!Together, TheWalk!NotComputing
<1> QED
  BY <1>1, <1>2 DEF TheWalk!Next, TheWalk!item

(* The kernel starts where the walk does.                                   *)
LEMMA WalkInit == Init => TheWalk!Init
  BY TilesAssumption DEF Init, TheWalk!Init, WalkPos, WalkSeen, TheWalk!NotComputing, Computing

(* The same, before and after a step.                                       *)
LEMMA SeenAround ==
  ASSUME IInv, IInv', NEW w \in Waves
  PROVE  /\ WalkSeen(w) = IF pc[w] \in Computing THEN TheWalk!BlockData(blk[w]) ELSE {}
         /\ WalkSeen(w)' = IF pc'[w] \in Computing THEN TheWalk!BlockData(blk'[w]) ELSE {}
<1>1. BlocksSeen'
  BY SeenIsItsBlock, PTL
<1>2. (WalkSeen(w) = IF pc[w] \in Computing THEN TheWalk!BlockData(blk[w]) ELSE {})'
  BY <1>1 DEF BlocksSeen
<1> QED
  BY <1>2, SeenIsItsBlock DEF BlocksSeen, TheWalk!BlockData, Computing

(* A wave that neither moves nor begins or ends a block stays.              *)
LEMMA StaysPut ==
  ASSUME IInv, IInv', NEW w \in Waves, WalkPos(w)' = WalkPos(w),
         pc[w] \in Computing <=> pc'[w] \in Computing, pc[w] \in Computing => blk'[w] = blk[w]
  PROVE  Moves(w)
BY SeenAround DEF Moves

(* One wave's step is a step of the walk for it: a block's end ends it, a   *)
(* masked tile's loads pass it, the rest leaves the wave where it is.       *)
LEMMA MoverMoves ==
  ASSUME IInv, IInv', NEW w \in Waves, Step(w)
  PROVE  Moves(w)
<1>1. PICK p \in Nat : Passed(p)
  BY DEF IInv
<1>2. /\ Types /\ Wave(w, p)
      /\ blk[w] \in Nat /\ numTiles \in Nat /\ numLive[w] \in 0 .. numTiles /\ Lag(w) \in {0, 1}
  BY <1>1, WaveTypes DEF IInv, Passed
<1> USE DEF Types, Goto, Issue, item
<1>3. CASE \/ SkipEmpty(w) \/ Prologue(w) \/ ArriveStart(w) \/ FirstFrags(w) \/ ArriveTile(w)
           \/ PartEnd(w) \/ ArriveStage(w) \/ StageEnd(w)
  <2>1. /\ blk' = blk
        /\ pc[w] \notin Computing \cup {"wait_block", "softmax"}
        /\ pc'[w] \notin Computing \cup {"wait_block", "softmax"}
    BY <1>2, <1>3 DEF SkipEmpty, Prologue, ArriveStart, FirstFrags, ArriveTile, PartEnd, ArriveStage,
                      StageEnd, Computing
  <2> QED
    BY <2>1, StaysPut DEF WalkPos
<1>4. CASE SoftmaxEnd(w)
  <2>1. pc[w] = "softmax" /\ pc'[w] = "drain" /\ blk'[w] = blk[w] + 1
    BY <1>2, <1>4 DEF SoftmaxEnd
  <2>2. WalkPos(w)' = WalkPos(w)
    BY <1>2, <2>1 DEF WalkPos
  <2> QED
    BY <2>1, <2>2, StaysPut DEF Computing
<1>5. CASE BlockDma(w)
  <2>1. pc[w] = "mfma" /\ pc'[w] = "mfma_dma" /\ blk' = blk
    BY <1>2, <1>5 DEF BlockDma
  <2> QED
    BY <2>1, StaysPut DEF WalkPos, Computing
<1>6. CASE BlockEnd(w)
  <2>1. pc[w] = "mfma_dma" /\ pc'[w] = "wait_block" /\ blk' = blk
    BY <1>2, <1>6 DEF BlockEnd
  <2>2. WalkPos(w)' = WalkPos(w) + 1
    BY <1>2, <2>1 DEF WalkPos
  <2>3. WalkSeen(w) # {} /\ WalkSeen(w)' = {}
    BY <2>1, SeenAround DEF Computing, TheWalk!BlockData
  <2> QED
    BY <2>2, <2>3 DEF Moves
<1>7. CASE DmaOnlyBlock(w)
  <2>1. pc[w] = "dma" /\ pc'[w] = "wait_block" /\ blk' = blk
    BY <1>2, <1>7 DEF DmaOnlyBlock
  <2>2. WalkPos(w) = blk[w] /\ WalkPos(w)' = WalkPos(w) + 1
    BY <1>2, <2>1 DEF WalkPos
  <2>3. WalkSeen(w)' = WalkSeen(w)
    BY <2>1, SeenAround DEF Computing
  <2>4. /\ kind # "empty" /\ numLive[w] < blk[w] /\ blk[w] <= numTiles
        /\ p = 2 * blk[w] + 2 + Lag(w)
    BY <1>2, <2>1 DEF Wave, Control
  <2>5. \A u \in Waves : WalkPos(u) >= WalkPos(w) - 1
    <3> TAKE u \in Waves
    <3>1. WalkPos(u) \in Nat /\ p <= 2 * WalkPos(u) + 3
      BY <1>1, <1>2, <2>4, PlaceInWalk
    <3>2. p >= 2 * blk[w] + 2
      BY <1>2, <2>4
    <3> QED
      BY <1>2, <2>2, <3>1, <3>2
  <2> QED
    BY <2>2, <2>3, <2>4, <2>5 DEF Moves
<1> QED
  BY <1>3, <1>4, <1>5, <1>6, <1>7 DEF Step

(* A barrier's release begins the blocks of the waves at the tile barrier.  *)
LEMMA ReleaseMoves ==
  ASSUME IInv, IInv', Release, NEW w \in Waves
  PROVE  Moves(w)
<1>1. PICK p \in Nat : Passed(p)
  BY DEF IInv
<1>2. /\ Types /\ Wave(w, p) /\ pc[w] \in AtBarrier
      /\ blk[w] \in Nat /\ numTiles \in Nat /\ numLive[w] \in 0 .. numTiles /\ Lag(w) \in {0, 1}
  BY <1>1, NoneEnded, WaveTypes DEF IInv, Passed
<1>3. pc'[w] = AfterBarrier(w)[1] /\ blk'[w] = AfterBarrier(w)[2] /\ UNCHANGED item
  BY DEF Release
<1>4. kind # "empty"
  BY <1>2 DEF Wave, Control, AtBarrier
<1>5. CASE pc[w] = "wait_tile"
  <2>1. blk'[w] = blk[w] /\ pc'[w] = (IF blk[w] <= numLive[w] THEN "mfma" ELSE "dma")
    BY <1>3, <1>5 DEF AfterBarrier, AfterTile
  <2>2. WalkPos(w) = blk[w] /\ WalkPos(w)' = WalkPos(w)
    BY <1>2, <1>5, <2>1 DEF WalkPos
  <2>3. CASE blk[w] <= numLive[w]
    <3>1. p = 2 * blk[w] + 1 + Lag(w)
      BY <1>2, <1>5 DEF Wave, Control
    <3>2. \A u \in Waves : WalkPos(u) >= WalkPos(w) - 1
      BY <1>1, <1>2, <1>4, <2>2, <3>1, PlaceInWalk
    <3>3. WalkSeen(w) = {} /\ WalkSeen(w)' = TheWalk!BlockData(WalkPos(w))
      BY <1>5, <2>1, <2>2, <2>3, SeenAround DEF Computing
    <3> QED
      BY <1>4, <2>2, <2>3, <3>2, <3>3 DEF Moves
  <2>4. CASE ~(blk[w] <= numLive[w])
    BY <1>5, <2>1, <2>2, <2>4, StaysPut DEF Computing
  <2> QED
    BY <2>3, <2>4
<1>6. CASE pc[w] = "wait_block"
  <2>1. \/ pc'[w] = "softmax" /\ blk'[w] = blk[w]
        \/ pc'[w] \in {"drain", "wait_trail", "epilogue"} /\ blk'[w] = blk[w] + 1
    BY <1>3, <1>6 DEF AfterBarrier, AfterBlock
  <2>2. WalkPos(w)' = WalkPos(w)
    BY <1>2, <1>6, <2>1 DEF WalkPos
  <2> QED
    BY <1>6, <2>1, <2>2, StaysPut DEF Computing
<1>7. CASE pc[w] \in {"wait_start", "wait_lead", "wait_trail", "wait_stage"}
  <2>1. pc'[w] \in {"frags", "drain", "epilogue", "stage"} /\ blk'[w] = blk[w]
    BY <1>3, <1>7 DEF AfterBarrier
  <2>2. WalkPos(w)' = WalkPos(w)
    BY <1>7, <2>1 DEF WalkPos
  <2> QED
    BY <1>7, <2>1, <2>2, StaysPut DEF Computing
<1> QED
  BY <1>2, <1>5, <1>6, <1>7 DEF AtBarrier

(* A wave's step moves no other wave.                                       *)
LEMMA OnlyMover ==
  ASSUME Types, NEW u \in Waves, NEW w \in Waves, u # w, Step(u)
  PROVE  pc'[w] = pc[w] /\ blk'[w] = blk[w] /\ UNCHANGED item
<1> USE DEF Types, Goto, item
<1>1. CASE SkipEmpty(u) \/ Prologue(u) \/ ArriveStart(u) \/ FirstFrags(u) \/ ArriveTile(u) \/ BlockDma(u)
  BY <1>1 DEF SkipEmpty, Prologue, ArriveStart, FirstFrags, ArriveTile, BlockDma
<1>2. CASE BlockEnd(u) \/ SoftmaxEnd(u) \/ DmaOnlyBlock(u) \/ PartEnd(u) \/ ArriveStage(u) \/ StageEnd(u)
  BY <1>2 DEF BlockEnd, SoftmaxEnd, DmaOnlyBlock, PartEnd, ArriveStage, StageEnd
<1> QED
  BY <1>1, <1>2 DEF Step

(* Every step of the kernel is a step of the walk.                          *)
LEMMA NextWalks == IInv /\ IInv' /\ [Next]_vars => TheWalk!Next
<1> SUFFICES ASSUME IInv, IInv', [Next]_vars PROVE TheWalk!Next
  OBVIOUS
<1>1. ASSUME NEW w \in Waves, pc'[w] = pc[w], blk'[w] = blk[w] PROVE Moves(w)
  BY <1>1, StaysPut DEF WalkPos
<1>2. ASSUME NEW u \in Waves, Step(u) PROVE TheWalk!Next
  <2>1. UNCHANGED item
    BY <1>2 DEF Step, item, SkipEmpty, Prologue, ArriveStart, FirstFrags, ArriveTile, BlockDma,
             BlockEnd, SoftmaxEnd, DmaOnlyBlock, PartEnd, ArriveStage, StageEnd
  <2>2. ASSUME NEW w \in Waves PROVE Moves(w)
    <3>1. CASE w = u
      BY <1>2, <3>1, MoverMoves
    <3>2. CASE w # u
      BY <1>1, <1>2, <3>2, OnlyMover DEF IInv
    <3> QED
      BY <3>1, <3>2
  <2> QED
    BY <2>1, <2>2, WalkStep
<1>3. CASE Release
  BY <1>3, ReleaseMoves, WalkStep DEF Release
<1>4. CASE (\E u \in Waves : Land(u)) \/ Retired \/ UNCHANGED vars
  <2>1. pc' = pc /\ blk' = blk /\ UNCHANGED item
    BY <1>4 DEF Land, Retired, vars, item
  <2>2. \A w \in Waves : Moves(w)
    BY <1>1, <2>1
  <2> QED
    BY <2>1, <2>2, WalkStep
<1> QED
  BY <1>2, <1>3, <1>4 DEF Next

(* The safety part of ImplementsWalk: the MLA pipeline's waves take the     *)
(* blocks of their live tiles in order, each from exactly its own K and V   *)
(* tiles in every loader's slabs, and none runs more than a block ahead.    *)
THEOREM Walks == Spec => TheWalk!Walk
<1>1. IInv /\ IInv' /\ [Next]_vars => [TheWalk!Next]_(TheWalk!vars)
  BY NextWalks
<1> QED
  BY <1>1, InitIInv, NextInv, WalkInit, PTL DEF Spec, TheWalk!Walk
=============================================================================
