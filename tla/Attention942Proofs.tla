------------------------- MODULE Attention942Proofs -------------------------
(***************************************************************************)
(* The gfx942 attention's walk, dense or lite, for any number of waves in  *)
(* either group, any calls, K blocks, votes and must-do ranges.            *)
(*                                                                         *)
(* The argument: the two barriers of a step keep all waves in one stage of *)
(* one step (Running), and the stage and a wave's place say what the wave  *)
(* has taken and what it owes: A's softmax is a half ahead of B's, both    *)
(* owe a PV to the next step.  What a wave has voted is its own, so another*)
(* wave's step leaves it (StepOfOne).  A walk is a list of blocks, and not *)
(* empty, for rows are written with their ranges closed.                   *)
(*                                                                         *)
(* The second half is the row a lite call leaves (ListsInv): the ring still*)
(* holds the votes thread 0 reads a step later, its markers read back as   *)
(* the blocks kept so far (Encodes), and the must-do cursor leaves nothing *)
(* behind that pins a block to come.                                       *)
(*                                                                         *)
(* The third is a launch: numbers a call's checks bound (Planned), parts   *)
(* that divide the blocks left over (WalkedOnce), workgroups that are each *)
(* one q block of one head (WgOf), and a lane's place that is one row of it*)
(* (PartRowIn), so that Q, K, V and O are addressed at their own rows; and *)
(* an order of the workgroups that is one of them all (Ordered).           *)
(***************************************************************************)
EXTENDS Attention942, FiniteSetTheorems, FunctionTheorems, SequenceTheorems, WellFoundedInduction, TLAPS

Places == {"idle", "prologue", "half1", "wait_mid", "half2", "record", "drain", "wait_end", "epilogue",
           "wait_last", "flush", "store"}
Ints == Seq(Int)

(* A row of the lists: its ranges are closed.                              *)
Rows == {row \in Ints : Len(row) % 2 = 0}
Objects942 == [rows : Seq(Rows), nkb : Int, phase : {0, 1}, calls : Nat, done : Nat]
Registers942 == [scores : Int, probs : Int, sum : Ints, o : Ints]

Shapes ==
  /\ attn \in Objects942 /\ Len(attn.rows) \in {0, 2}
  /\ cta.walk \in Ints /\ cta.lite \in BOOLEAN /\ cta.dir \in {Asc, Desc}
  /\ pc \in [Waves -> Places] /\ step \in [Waves -> Int]
  /\ dma \in [GroupB -> Seq([block : Int, buf : Ring])]
  /\ k \in [GroupB -> [Ring -> Int]]
  /\ vote \in [Waves -> [Ring -> BOOLEAN]]
  /\ reg \in [Waves -> Registers942]
  /\ said \in Seq(SUBSET Waves)

(* The list thread 0 writes has a range open while it keeps.               *)
ListFine(list) ==
  list.out \in Ints /\ list.skip \in BOOLEAN /\ (list.skip <=> Len(list.out) % 2 = 0)
RecFine == ListFine(rec.list)

LaunchFine ==
  launch # NoLaunch =>
    /\ Idle
    /\ \E a \in Calls : Admitted942(a) /\ LiteFits(a) /\ Addressable(launch) /\ launch = Launch942(a)
    /\ launch.lite => Len(attn.rows) = 2

-----------------------------------------------------------------------------
(* The stage all waves are in at step s.                                   *)
Stages == {"load", "first", "second", "last", "out"}
StageOf(stage, s) ==
  /\ stage \in Stages
  /\ stage = "load" => s = -1
  /\ stage \in {"first", "second"} => s \in 0 .. Steps - 1
  /\ stage \in {"last", "out"} => s = Steps

PlaceIn(stage, s, w) ==
  \/ stage = "load" /\ pc[w] \in {"prologue", "drain", "wait_end"} /\ step[w] = s
  \/ stage = "first" /\ pc[w] \in {"half1", "wait_mid"} /\ step[w] = s
  \/ stage = "second" /\ pc[w] \in {"half2", "record", "drain", "wait_end"} /\ step[w] = s
       /\ (pc[w] = "record" => s > 0)
  \/ stage = "last" /\ pc[w] \in (IF cta.lite THEN {"epilogue", "wait_last"} ELSE {"epilogue", "store", "idle"})
  \/ stage = "out" /\ cta.lite /\ pc[w] \in {"flush", "store", "idle"}

(* A B wave's K: block n is in its half of lds_k, or comes there alone.    *)
Here(u, n) == dma[u] = <<>> /\ k[u][KBuf(n)] = At(n)
Comes(u, n) ==
  IF n < Steps THEN Here(u, n) \/ dma[u] = <<[block |-> At(n), buf |-> KBuf(n)]>> ELSE dma[u] = <<>>
Landed(u, n) == IF n < Steps THEN Here(u, n) ELSE dma[u] = <<>>
KeysIn(stage, s, u) ==
  /\ stage \in {"first", "second"} => k[u][KBuf(s)] = At(s)
  /\ \/ stage \in {"load", "first", "second"} /\ pc[u] \in {"wait_mid", "half2", "drain"} /\ Comes(u, s + 1)
     \/ stage \in {"load", "second"} /\ pc[u] = "wait_end" /\ Landed(u, s + 1)
     \/ stage \in {"load", "first"} /\ pc[u] \in {"prologue", "half1"} /\ dma[u] = <<>>
     \/ stage \in {"last", "out"} /\ dma[u] = <<>>

(* What a wave has taken: its sum the first m steps' blocks, O the first n.*)
Took(w, n) == Taken(w, cta.walk, said, n)
Sums(w, m, n) ==
  /\ reg[w].sum = Took(w, m) /\ reg[w].o = Took(w, n)
  /\ \A j \in m + 1 .. Steps : w \notin said[j]

(* It owes the last softmax's PV.                                          *)
Owes(w, n) ==
  IF n = 0 THEN Sums(w, 0, 0)
  ELSE /\ Sums(w, n, n - 1)
       /\ vote[w][VoteSlot(n - 1)] <=> w \in said[n]
       /\ w \notin said[n] => reg[w].probs = At(n - 1)
Scored(w, n) == Sums(w, n, n) /\ reg[w].scores = At(n)

TakesA(stage, s, w) ==
  \/ stage = "load" /\ Sums(w, 0, 0)
  \/ stage = "first" /\ pc[w] = "half1" /\ Owes(w, s)
  \/ stage \in {"first", "second"} /\ pc[w] \in {"wait_mid", "half2"} /\ Scored(w, s)
  \/ stage = "second" /\ pc[w] \in {"record", "drain", "wait_end"} /\ Owes(w, s + 1)
  \/ stage = "last" /\ pc[w] = "epilogue" /\ Owes(w, Steps)
  \/ stage \in {"last", "out"} /\ pc[w] \in {"wait_last", "flush", "store"} /\ Sums(w, Steps, Steps)
  \/ stage \in {"last", "out"} /\ pc[w] = "idle"

TakesB(stage, s, w) ==
  \/ stage = "load" /\ Sums(w, 0, 0)
  \/ stage = "first" /\ pc[w] = "half1" /\ (IF s = 0 THEN Sums(w, 0, 0) ELSE Scored(w, s - 1))
  \/ stage \in {"first", "second"} /\ pc[w] \in {"wait_mid", "half2"} /\ Owes(w, s)
  \/ stage = "second" /\ pc[w] \in {"drain", "wait_end"} /\ Scored(w, s)
  \/ stage = "last" /\ pc[w] = "epilogue" /\ Scored(w, Steps - 1)
  \/ stage \in {"last", "out"} /\ pc[w] \in {"wait_last", "store"} /\ Sums(w, Steps, Steps)
  \/ stage \in {"last", "out"} /\ pc[w] = "idle"

Running(stage, s) ==
  /\ StageOf(stage, s)
  /\ cta.walk # <<>> /\ Len(said) = Steps
  /\ ~cta.lite => \A j \in 1 .. Steps : said[j] = {}
  /\ \A w \in Waves : PlaceIn(stage, s, w)
  /\ \A w \in GroupA : TakesA(stage, s, w)
  /\ \A w \in GroupB : TakesB(stage, s, w) /\ KeysIn(stage, s, w)

AtRest == Idle /\ \A u \in GroupB : dma[u] = <<>>

Inv ==
  /\ Shapes /\ RecFine /\ LaunchFine
  /\ AtRest \/ (~Idle /\ \E stage \in Stages, s \in Int : Running(stage, s))

-----------------------------------------------------------------------------
(* A set of naturals has a least one.                                      *)
LEMMA LeastNatural ==
  ASSUME NEW T, T \subseteq Nat, T # {}
  PROVE  \E x \in T : \A y \in T : x <= y
<1> DEFINE Less == {p \in Nat \X Nat : p[1] < p[2]}
<1>1. IsWellFoundedOn(Less, Nat)
  BY NatLessThanWellFounded DEF OpToRel
<1> HIDE DEF Less
<1>2. PICK x \in T : \A y \in T : <<y, x>> \notin Less
  BY <1>1, WFMin
<1>3. ASSUME NEW y \in T, y < x PROVE <<y, x>> \in Less
  <2> DEFINE p == <<y, x>>
  <2>1. p \in Nat \X Nat /\ p[1] < p[2]
    BY <1>3
  <2>2. QED
    BY <2>1 DEF Less
<1>4. \A y \in T : ~ (y < x)
  BY <1>2, <1>3, Zenon
<1>5. x \in Nat /\ \A y \in T : y \in Nat
  OBVIOUS
<1>6. QED
  BY <1>4, <1>5

(* What a wave takes over a walk, a step at a time.                        *)
LEMMA TakenStep ==
  ASSUME NEW w, NEW walk \in Ints, NEW skips
  PROVE  /\ Taken(w, walk, skips, 0) = <<>>
         /\ \A n \in 1 .. Len(walk) :
              Taken(w, walk, skips, n) = IF w \in skips[n] THEN Taken(w, walk, skips, n - 1)
                                         ELSE Append(Taken(w, walk, skips, n - 1), walk[n])
<1>0. PICK N \in Nat : N = Len(walk)
  BY DEF Ints
<1> DEFINE Next1(x, i) == IF w \in skips[i] THEN x ELSE Append(x, walk[i])
           Is(f, i) == IF i = 0 THEN <<>> ELSE Next1(f[i - 1], i)
           Good(f, n) == f = [i \in 0 .. n |-> Is(f, i)]
           bad == {n \in 0 .. N : ~ \E f : Good(f, n)}
<1> HIDE DEF Next1
<1>1. bad = {}
  <2> SUFFICES ASSUME bad # {} PROVE FALSE
    OBVIOUS
  <2>1. PICK n \in bad : \A y \in bad : n <= y
    BY <1>0, LeastNatural, bad \subseteq Nat
  <2>2. CASE n = 0
    <3> DEFINE f == [i \in 0 .. 0 |-> <<>>]
    <3>1. Good(f, 0)
      BY SMT
    <3>2. QED
      BY <2>1, <2>2, <3>1
  <2>3. CASE n # 0
    <3>1. n \in Nat /\ n - 1 \in Nat /\ n - 1 \notin bad /\ n - 1 \in 0 .. N
      <4> HIDE DEF Good
      <4>1. n \in Nat /\ n - 1 \in Nat /\ ~(n <= n - 1) /\ n - 1 \in 0 .. N
        BY <1>0, <2>3
      <4> HIDE DEF bad
      <4>2. QED
        BY <2>1, <4>1
    <3>2. PICK f : Good(f, n - 1)
      BY <3>1
    <3> DEFINE u == [i \in 0 .. n |-> IF i = n THEN Next1(f[n - 1], n) ELSE f[i]]
    <3>3. Good(u, n)
      <4>1. ASSUME NEW i \in 0 .. n PROVE u[i] = Is(u, i)
        <5>1. CASE i = n
          BY <3>1, <5>1
        <5>2. CASE i # n
          <6>1. i \in 0 .. n - 1 /\ u[i] = f[i] /\ f[i] = Is(f, i)
            BY <3>1, <3>2, <5>2
          <6>2. i # 0 => i - 1 \in 0 .. n /\ i - 1 # n
            BY <3>1, <5>2
          <6>3. QED
            BY <6>1, <6>2
        <5>3. QED
          BY <5>1, <5>2
      <4> QED
        BY <4>1
    <3>4. QED
      BY <2>1, <3>3
  <2>4. QED
    BY <2>2, <2>3
<1> DEFINE all == CHOOSE f : f = [i \in 0 .. Len(walk) |->
                    IF i = 0 THEN <<>>
                    ELSE IF w \in skips[i] THEN f[i - 1] ELSE Append(f[i - 1], walk[i])]
<1>2. \E f : f = [i \in 0 .. Len(walk) |->
                    IF i = 0 THEN <<>>
                    ELSE IF w \in skips[i] THEN f[i - 1] ELSE Append(f[i - 1], walk[i])]
  <2>1. \E f : Good(f, N)
    BY <1>0, <1>1
  <2>2. QED
    BY <1>0, <2>1 DEF Next1
<1>3. all = [i \in 0 .. Len(walk) |->
               IF i = 0 THEN <<>>
               ELSE IF w \in skips[i] THEN all[i - 1] ELSE Append(all[i - 1], walk[i])]
  BY <1>2
<1>4. \A n : Taken(w, walk, skips, n) = all[n]
  BY DEF Taken
<1> HIDE DEF all
<1>5. \A n \in 0 .. N : all[n] = IF n = 0 THEN <<>>
                                 ELSE IF w \in skips[n] THEN all[n - 1] ELSE Append(all[n - 1], walk[n])
  BY <1>0, <1>3
<1>7. 0 \in 0 .. N /\ \A n \in 1 .. N : n \in 0 .. N /\ n # 0
  BY <1>0
<1>6. QED
  BY <1>0, <1>4, <1>5, <1>7

LEMMA TakenNext ==
  ASSUME NEW w, NEW walk \in Ints, NEW skips, NEW n \in 1 .. Len(walk)
  PROVE  Taken(w, walk, skips, n) = IF w \in skips[n] THEN Taken(w, walk, skips, n - 1)
                                    ELSE Append(Taken(w, walk, skips, n - 1), walk[n])
BY TakenStep

(* It depends on the wave's own votes so far.                              *)
LEMMA TakenSame ==
  ASSUME NEW w, NEW walk \in Ints, NEW skips, NEW skips2, NEW n \in 0 .. Len(walk),
         \A j \in 1 .. n : w \in skips2[j] <=> w \in skips[j]
  PROVE  Taken(w, walk, skips2, n) = Taken(w, walk, skips, n)
<1> DEFINE differ == {i \in 0 .. n : Taken(w, walk, skips2, i) # Taken(w, walk, skips, i)}
<1>0. n \in Nat /\ n <= Len(walk) /\ Len(walk) \in Nat
  BY DEF Ints
<1>1. SUFFICES ASSUME differ # {} PROVE FALSE
  BY <1>0
<1>2. PICK i \in differ : \A y \in differ : i <= y
  BY <1>0, <1>1, LeastNatural, differ \subseteq Nat
<1>3. i \in 0 .. n /\ Taken(w, walk, skips2, i) # Taken(w, walk, skips, i)
  BY <1>2
<1>4. i # 0
  BY <1>3, TakenStep
<1>5. i \in 1 .. n /\ i - 1 \in 0 .. n /\ i \in 1 .. Len(walk) /\ ~(i <= i - 1)
  BY <1>0, <1>3, <1>4
<1>6. i - 1 \notin differ
  BY <1>2, <1>5
<1>7. Taken(w, walk, skips2, i - 1) = Taken(w, walk, skips, i - 1)
  BY <1>5, <1>6
<1>8. i \in 1 .. Len(walk)
  BY <1>5
<1>9. Taken(w, walk, skips, i) = IF w \in skips[i] THEN Taken(w, walk, skips, i - 1)
                                 ELSE Append(Taken(w, walk, skips, i - 1), walk[i])
  BY <1>8, TakenNext, ZenonT(60)
<1>10. Taken(w, walk, skips2, i) = IF w \in skips2[i] THEN Taken(w, walk, skips2, i - 1)
                                   ELSE Append(Taken(w, walk, skips2, i - 1), walk[i])
  BY <1>8, TakenNext, ZenonT(60)
<1>11. QED
  BY <1>3, <1>5, <1>7, <1>9, <1>10

LEMMA OfOne ==
  ASSUME NEW x
  PROVE  Of({x}) = x
BY FS_Singleton DEF Of

LEMMA OfSame ==
  ASSUME NEW x, NEW y, x = y
  PROVE  Of({x, y}) = x
<1>1. {x, y} = {x}
  OBVIOUS
<1>2. QED
  BY <1>1, OfOne

-----------------------------------------------------------------------------
(* A wave's sums stay while its registers and its own votes do.            *)
LEMMA SumsStay ==
  ASSUME Shapes, NEW w, cta' = cta, reg'[w] = reg[w], vote'[w] = vote[w],
         \A j \in 1 .. Steps : w \in said'[j] <=> w \in said[j]
  PROVE  /\ \A m, n \in 0 .. Steps : Sums(w, m, n) => Sums(w, m, n)'
         /\ \A n \in 0 .. Steps : Owes(w, n) => Owes(w, n)'
         /\ \A n \in 0 .. Steps - 1 : Scored(w, n) => Scored(w, n)'
<1>1. PICK walk \in Ints, N \in Nat : walk = cta.walk /\ walk = cta'.walk /\ N = Len(walk) /\ N = Steps /\ N = Steps'
  BY DEF Shapes, Ints, Steps
<1>2. ASSUME NEW n \in 0 .. N PROVE Taken(w, walk, said', n) = Taken(w, walk, said, n)
  <2>1. \A j \in 1 .. n : w \in said'[j] <=> w \in said[j]
    BY <1>1
  <2>2. n \in 0 .. Len(walk)
    BY <1>1
  <2>3. QED
    BY <2>1, <2>2, TakenSame
<1>3. ASSUME NEW m \in 0 .. N, NEW n \in 0 .. N, Sums(w, m, n) PROVE Sums(w, m, n)'
  <2>1. reg'[w].sum = Taken(w, walk, said', m) /\ reg'[w].o = Taken(w, walk, said', n)
    BY <1>1, <1>2, <1>3 DEF Sums, Took
  <2>2. \A j \in m + 1 .. N : w \notin said'[j]
    BY <1>1, <1>3 DEF Sums
  <2>3. QED
    BY <1>1, <2>1, <2>2 DEF Sums, Took
<1>4. ASSUME NEW n \in 0 .. N, Owes(w, n) PROVE Owes(w, n)'
  <2>1. CASE n = 0
    BY <1>3, <1>4, <2>1 DEF Owes
  <2>2. CASE n # 0
    <3>1. n - 1 \in 0 .. N /\ n \in 1 .. N
      BY <2>2
    <3>2. Sums(w, n, n - 1)'
      BY <1>3, <1>4, <2>2, <3>1 DEF Owes
    <3>3. (vote'[w][VoteSlot(n - 1)] <=> w \in said'[n]) /\ (w \notin said'[n] => reg'[w].probs = cta'.walk[(n - 1) + 1])
      BY <1>1, <1>4, <2>2, <3>1 DEF Owes, At
    <3>4. QED
      BY <2>2, <3>2, <3>3 DEF Owes, At, VoteSlot
  <2>3. QED
    BY <2>1, <2>2
<1>5. ASSUME NEW n \in 0 .. N - 1, Scored(w, n) PROVE Scored(w, n)'
  <2>1. Sums(w, n, n)' /\ reg'[w].scores = cta'.walk[n + 1]
    BY <1>1, <1>3, <1>5 DEF Scored, At
  <2>2. QED
    BY <2>1 DEF Scored, At
<1>6. QED
  BY <1>1, <1>3, <1>4, <1>5

LEMMA TakesStay ==
  ASSUME Shapes, NEW w, NEW stage, NEW s, StageOf(stage, s), cta.walk # <<>>,
         cta' = cta, reg'[w] = reg[w], vote'[w] = vote[w], pc'[w] = pc[w],
         \A j \in 1 .. Steps : w \in said'[j] <=> w \in said[j]
  PROVE  (TakesA(stage, s, w) => TakesA(stage, s, w)') /\ (TakesB(stage, s, w) => TakesB(stage, s, w)')
<1>1. PICK N \in Nat : N = Steps /\ N = Steps'
  BY DEF Shapes, Ints, Steps
<1>2. /\ \A m, n \in 0 .. N : Sums(w, m, n) => Sums(w, m, n)'
      /\ \A n \in 0 .. N : Owes(w, n) => Owes(w, n)'
      /\ \A n \in 0 .. N - 1 : Scored(w, n) => Scored(w, n)'
  BY <1>1, SumsStay
<1>3. /\ stage \in {"first", "second"} => s \in 0 .. N - 1 /\ s \in 0 .. N /\ s + 1 \in 0 .. N
      /\ stage = "last" => s = N
  BY <1>1 DEF StageOf
<1>4. 0 \in 0 .. N /\ N \in 0 .. N
  BY <1>1
<1>5. /\ Owes(w, Steps) => Owes(w, Steps)'
      /\ Sums(w, Steps, Steps) => Sums(w, Steps, Steps)'
      /\ Steps # 0 /\ Scored(w, Steps - 1) => Scored(w, Steps - 1)'
  <2>1. Owes(w, N) => Owes(w, N)'
    BY <1>2, <1>4
  <2>2. Sums(w, N, N) => Sums(w, N, N)'
    BY <1>2, <1>4
  <2>3. N # 0 /\ Scored(w, N - 1) => Scored(w, N - 1)'
    <3>1. N # 0 => N - 1 \in 0 .. N - 1
      BY N \in Nat
    <3>2. \A n \in 0 .. N - 1 : Scored(w, n) => Scored(w, n)'
      BY <1>2
    <3>3. QED
      BY <3>1, <3>2
  <2>4. QED
    BY <1>1, <2>1, <2>2, <2>3 DEF Owes, Scored, Sums
<1>6. /\ Sums(w, 0, 0) => Sums(w, 0, 0)'
      /\ stage \in {"first", "second"} =>
           /\ Owes(w, s) => Owes(w, s)'
           /\ Owes(w, s + 1) => Owes(w, s + 1)'
           /\ Scored(w, s) => Scored(w, s)'
           /\ s # 0 /\ Scored(w, s - 1) => Scored(w, s - 1)'
  <2>1. stage \in {"first", "second"} /\ s # 0 => s - 1 \in 0 .. N - 1
    BY <1>1, <1>3
  <2>2. stage \in {"first", "second"} => (Owes(w, s) => Owes(w, s)') /\ (Owes(w, s + 1) => Owes(w, s + 1)')
    BY <1>2, <1>3, Zenon
  <2>3. stage \in {"first", "second"} => (Scored(w, s) => Scored(w, s)')
    BY <1>2, <1>3, Zenon
  <2>4. stage \in {"first", "second"} /\ s # 0 => (Scored(w, s - 1) => Scored(w, s - 1)')
    BY <1>2, <2>1, Zenon
  <2>5. Sums(w, 0, 0) => Sums(w, 0, 0)'
    BY <1>2, <1>4, Zenon
  <2>6. QED
    BY <2>2, <2>3, <2>4, <2>5
<1>8. TakesA(stage, s, w) => TakesA(stage, s, w)'
  BY <1>5, <1>6 DEF TakesA
<1>9. TakesB(stage, s, w) => TakesB(stage, s, w)'
  <2>1. (IF s = 0 THEN Sums(w, 0, 0) ELSE Scored(w, s - 1)) /\ stage = "first"
          => (IF s = 0 THEN Sums(w, 0, 0)' ELSE Scored(w, s - 1)')
    BY <1>6
  <2>2. Steps # 0
    BY DEF Shapes, Ints, Steps
  <2>3. QED
    BY <1>5, <1>6, <2>1, <2>2 DEF TakesB
<1>10. QED
  BY <1>8, <1>9

LEMMA StepOfOne ==
  ASSUME Shapes, NEW stage, NEW s, Running(stage, s), NEW w \in Waves,
         cta' = cta, Len(said') = Len(said), ~cta.lite => said' = said,
         \A x \in Waves \ {w} :
           /\ pc'[x] = pc[x] /\ step'[x] = step[x] /\ reg'[x] = reg[x] /\ vote'[x] = vote[x]
           /\ \A j \in 1 .. Steps : x \in said'[j] <=> x \in said[j],
         \A x \in GroupB \ {w} : dma'[x] = dma[x] /\ k'[x] = k[x],
         PlaceIn(stage, s, w)', w \in GroupA => TakesA(stage, s, w)',
         w \in GroupB => TakesB(stage, s, w)' /\ KeysIn(stage, s, w)'
  PROVE  Running(stage, s)'
<1>1. Steps' = Steps /\ StageOf(stage, s) /\ StageOf(stage, s)'
  BY DEF Steps, Running, StageOf
<1>2. \A x \in Waves : PlaceIn(stage, s, x)'
  <2> TAKE x \in Waves
  <2>1. CASE x = w
    BY <2>1
  <2>2. CASE x # w
    BY <2>2 DEF Running, PlaceIn
  <2>3. QED
    BY <2>1, <2>2
<1>3. ASSUME NEW x \in Waves \ {w}
      PROVE  (x \in GroupA => TakesA(stage, s, x)') /\ (x \in GroupB => TakesB(stage, s, x)')
  <2>1. (TakesA(stage, s, x) => TakesA(stage, s, x)') /\ (TakesB(stage, s, x) => TakesB(stage, s, x)')
    <3>1. cta.walk # <<>> /\ reg'[x] = reg[x] /\ vote'[x] = vote[x] /\ pc'[x] = pc[x]
            /\ \A j \in 1 .. Steps : x \in said'[j] <=> x \in said[j]
      BY DEF Running
    <3>2. QED
      BY <1>1, <3>1, TakesStay
  <2>2. QED
    BY <2>1 DEF Running
<1>4. ASSUME NEW x \in GroupB, x # w PROVE KeysIn(stage, s, x)'
  <2>1. KeysIn(stage, s, x) /\ dma'[x] = dma[x] /\ k'[x] = k[x] /\ pc'[x] = pc[x]
    BY <1>4 DEF Running, Waves
  <2>2. QED
    BY <2>1 DEF KeysIn, Comes, Landed, Here, At, KBuf, Steps
<1>5. QED
  BY <1>1, <1>2, <1>3, <1>4 DEF Running, Waves

-----------------------------------------------------------------------------
(* QK of step s, its K in every B wave's rows, scores s's block.           *)
LEMMA QkScores ==
  ASSUME NEW r \in Registers942, NEW s, At(s) \in Int, \A u \in GroupB : k[u][KBuf(s)] = At(s)
  PROVE  /\ qk_phase(r, s) \in Registers942 /\ qk_phase(r, s).scores = At(s)
         /\ qk_phase(r, s).sum = r.sum /\ qk_phase(r, s).o = r.o /\ qk_phase(r, s).probs = r.probs
<1>1. {k[u][KBuf(s)] : u \in GroupB} = {At(s)}
  BY WavesAssumption
<1>2. qk_phase(r, s) = [r EXCEPT !.scores = At(s)]
  BY <1>1, OfOne DEF qk_phase
<1>3. QED
  BY <1>2 DEF Registers942

(* A block of the walk is a number.                                        *)
LEMMA WalkBlocks ==
  ASSUME Shapes
  PROVE  Steps \in Nat /\ \A n \in 0 .. Steps - 1 : At(n) \in Int /\ n + 1 \in 1 .. Len(cta.walk)
<1>1. PICK walk \in Ints : walk = cta.walk
  BY DEF Shapes
<1>2. Len(walk) \in Nat /\ \A n \in 1 .. Len(walk) : walk[n] \in Int
  BY DEF Ints
<1>3. QED
  BY <1>1, <1>2 DEF Steps, At

(* PV of step n - 1, under the wave's own vote, takes its block into O.    *)
LEMMA PvTakes ==
  ASSUME Shapes, NEW w, NEW skips, NEW n \in 1 .. Steps, NEW r \in Registers942, NEW skip,
         r.o = Taken(w, cta.walk, skips, n - 1), skip <=> w \in skips[n],
         w \notin skips[n] => r.probs = At(n - 1), ~cta.lite => w \notin skips[n]
  PROVE  /\ pv_phase(r, n - 1, skip) \in Registers942
         /\ pv_phase(r, n - 1, skip).o = Taken(w, cta.walk, skips, n)
         /\ pv_phase(r, n - 1, skip).sum = r.sum
<1>1. /\ n \in 1 .. Len(cta.walk) /\ cta.walk \in Ints /\ At(n - 1) \in Int
      /\ At(n - 1) = cta.walk[n]
  <2>1. Steps \in Nat /\ n - 1 \in 0 .. Steps - 1 /\ (n - 1) + 1 = n
    BY WalkBlocks
  <2>2. At(n - 1) \in Int /\ cta.walk \in Ints
    BY <2>1, WalkBlocks DEF Shapes
  <2>3. QED
    BY <2>1, <2>2 DEF Steps, At
<1>2. Taken(w, cta.walk, skips, n) = IF w \in skips[n] THEN Taken(w, cta.walk, skips, n - 1)
                                     ELSE Append(Taken(w, cta.walk, skips, n - 1), cta.walk[n])
  <2>1. PICK a : a = cta.walk
    OBVIOUS
  <2>2. a \in Ints /\ n \in 1 .. Len(a)
    BY <1>1, <2>1
  <2>3. Taken(w, a, skips, n) = IF w \in skips[n] THEN Taken(w, a, skips, n - 1)
                                ELSE Append(Taken(w, a, skips, n - 1), a[n])
    BY <2>2, TakenNext
  <2>4. QED
    BY <2>1, <2>3
<1>3. CASE w \in skips[n]
  <2>1. pv_phase(r, n - 1, skip) = r
    BY <1>3 DEF pv_phase
  <2>2. QED
    BY <1>2, <1>3, <2>1
<1>4. CASE w \notin skips[n]
  <2>1. Of({r.probs, At(n - 1)}) = At(n - 1)
    BY <1>4, OfSame
  <2>2. pv_phase(r, n - 1, skip) = [r EXCEPT !.o = Append(@, At(n - 1))]
    BY <1>4, <2>1 DEF pv_phase
  <2>3. r.o \in Ints /\ Append(r.o, At(n - 1)) \in Ints
    BY <1>1 DEF Registers942, Ints
  <2>4. QED
    BY <1>1, <1>2, <1>4, <2>2, <2>3 DEF Registers942
<1>5. QED
  BY <1>3, <1>4

LEMMA OwedPv ==
  ASSUME Shapes, NEW w \in Waves, NEW n \in 1 .. Steps, Owes(w, n), ~cta.lite => w \notin said[n]
  PROVE  /\ PvOf(w, n - 1) \in Registers942
         /\ PvOf(w, n - 1).sum = Took(w, n) /\ PvOf(w, n - 1).o = Took(w, n)
         /\ \A j \in n + 1 .. Steps : w \notin said[j]
<1>1. PICK r, skip, skips : r = reg[w] /\ skip = vote[w][VoteSlot(n - 1)] /\ skips = said
  OBVIOUS
<1>2. /\ r \in Registers942 /\ r.sum = Taken(w, cta.walk, skips, n)
      /\ r.o = Taken(w, cta.walk, skips, n - 1)
      /\ \A j \in n + 1 .. Steps : w \notin said[j]
      /\ skip <=> w \in skips[n]
      /\ w \notin skips[n] => r.probs = At(n - 1)
      /\ ~cta.lite => w \notin skips[n]
  <2>1. Sums(w, n, n - 1) /\ (skip <=> w \in skips[n]) /\ (w \notin skips[n] => r.probs = At(n - 1))
    BY <1>1 DEF Owes
  <2>2. QED
    BY <1>1, <2>1 DEF Sums, Took, Shapes
<1>3. /\ pv_phase(r, n - 1, skip) \in Registers942
      /\ pv_phase(r, n - 1, skip).o = Taken(w, cta.walk, skips, n)
      /\ pv_phase(r, n - 1, skip).sum = r.sum
  BY <1>2, PvTakes
<1>4. PvOf(w, n - 1) = pv_phase(r, n - 1, skip)
  BY <1>1 DEF PvOf
<1>5. QED
  BY <1>1, <1>2, <1>3, <1>4 DEF Took

(* The softmax of step n takes its block into the sum, unless it votes.    *)
LEMMA SoftmaxTakes ==
  ASSUME Shapes, NEW w \in Waves, NEW n \in 0 .. Steps - 1, Scored(w, n), Len(said) = Steps,
         NEW skip \in Skips(n), CastVote(w, n, skip)
  PROVE  LET r == softmax(reg[w], n, skip) IN
         /\ r \in Registers942
         /\ r.sum = Taken(w, cta.walk, said', n + 1) /\ r.o = Taken(w, cta.walk, said', n)
         /\ \A j \in n + 2 .. Steps : w \notin said'[j]
         /\ skip <=> w \in said'[n + 1]
         /\ w \notin said'[n + 1] => r.probs = At(n)
<1>1. PICK walk \in Ints : walk = cta.walk /\ Len(walk) = Steps /\ n + 1 \in 1 .. Len(walk)
        /\ At(n) \in Int /\ At(n) = walk[n + 1] /\ Steps \in Nat
  BY WalkBlocks DEF Shapes, Steps, At
<1>2. /\ reg[w].sum = Taken(w, walk, said, n) /\ reg[w].o = Taken(w, walk, said, n)
      /\ reg[w].scores = At(n) /\ reg[w] \in Registers942
      /\ \A j \in n + 1 .. Steps : w \notin said[j]
  BY <1>1 DEF Scored, Sums, Took, Shapes
<1>3. skip \in BOOLEAN /\ said \in Seq(SUBSET Waves)
  BY DEF Skips, Shapes
<1>4. /\ \A j \in 1 .. Steps : j # n + 1 => said'[j] = said[j]
      /\ said'[n + 1] = IF skip THEN said[n + 1] \cup {w} ELSE said[n + 1]
  BY <1>1, <1>3 DEF CastVote
<1>5. Taken(w, walk, said', n) = Taken(w, walk, said, n)
  <2>1. \A j \in 1 .. n : w \in said'[j] <=> w \in said[j]
    BY <1>1, <1>4
  <2>2. n \in 0 .. Len(walk)
    BY <1>1
  <2>3. QED
    BY <2>1, <2>2, TakenSame
<1>6. Taken(w, walk, said', n + 1) = IF w \in said'[n + 1] THEN Taken(w, walk, said', n)
                                     ELSE Append(Taken(w, walk, said', n), walk[n + 1])
  <2>1. PICK now, m : now = said' /\ m = n + 1
    OBVIOUS
  <2>2. m \in 1 .. Len(walk) /\ m - 1 = n
    BY <1>1, <2>1
  <2>3. Taken(w, walk, now, m) = IF w \in now[m] THEN Taken(w, walk, now, m - 1)
                                 ELSE Append(Taken(w, walk, now, m - 1), walk[m])
    BY <2>2, TakenNext
  <2>4. QED
    BY <2>1, <2>2, <2>3
<1>7. w \notin said[n + 1] /\ \A j \in n + 2 .. Steps : w \notin said'[j]
  BY <1>1, <1>2, <1>4
<1>8. Of({reg[w].scores, At(n)}) = At(n)
  BY <1>2, OfSame
<1>9. softmax(reg[w], n, skip) = IF skip THEN [reg[w] EXCEPT !.probs = NoBlock]
                                 ELSE [reg[w] EXCEPT !.probs = At(n), !.sum = Append(@, At(n))]
  BY <1>8 DEF softmax
<1>10. reg[w].sum \in Ints /\ Append(reg[w].sum, At(n)) \in Ints /\ NoBlock \in Int
  BY <1>1, <1>2 DEF Registers942, Ints, NoBlock
<1>11. CASE skip
  BY <1>1, <1>2, <1>4, <1>5, <1>6, <1>7, <1>9, <1>10, <1>11 DEF Registers942
<1>12. CASE ~skip
  <2> DEFINE r == softmax(reg[w], n, skip)
  <2>1. r = [reg[w] EXCEPT !.probs = At(n), !.sum = Append(@, At(n))]
    BY <1>9, <1>12
  <2>2. r \in Registers942 /\ r.sum = Append(reg[w].sum, At(n)) /\ r.o = reg[w].o /\ r.probs = At(n)
    BY <1>1, <1>2, <1>10, <2>1 DEF Registers942
  <2>3. w \notin said'[n + 1]
    BY <1>4, <1>7, <1>12
  <2>4. Taken(w, walk, said', n + 1) = Append(Taken(w, walk, said, n), At(n))
    BY <1>1, <1>5, <1>6, <2>3
  <2> HIDE DEF r
  <2>5. /\ r \in Registers942
        /\ r.sum = Taken(w, cta.walk, said', n + 1) /\ r.o = Taken(w, cta.walk, said', n)
        /\ \A j \in n + 2 .. Steps : w \notin said'[j]
        /\ skip <=> w \in said'[n + 1]
        /\ w \notin said'[n + 1] => r.probs = At(n)
    BY <1>1, <1>2, <1>5, <1>7, <1>12, <2>2, <2>3, <2>4
  <2>6. QED
    BY <2>5 DEF r
<1>13. QED
  BY <1>3, <1>11, <1>12

(* A vote is the wave's own.                                               *)
LEMMA VoteIsOwn ==
  ASSUME Shapes, NEW w \in Waves, NEW n \in 0 .. Steps - 1, Len(said) = Steps,
         NEW skip \in Skips(n), CastVote(w, n, skip)
  PROVE  /\ vote' \in [Waves -> [Ring -> BOOLEAN]] /\ said' \in Seq(SUBSET Waves)
         /\ Len(said') = Len(said) /\ (~cta.lite => said' = said)
         /\ vote'[w][VoteSlot(n)] = skip
         /\ \A x \in Waves \ {w} :
              vote'[x] = vote[x] /\ \A j \in 1 .. Steps : x \in said'[j] <=> x \in said[j]
<1>1. skip \in BOOLEAN /\ (~cta.lite => ~skip) /\ said \in Seq(SUBSET Waves) /\ Steps \in Nat
  BY WalkBlocks DEF Skips, Shapes
<1>2. VoteSlot(n) \in Ring
  BY DEF VoteSlot, Ring
<1>3. /\ vote' \in [Waves -> [Ring -> BOOLEAN]] /\ vote'[w][VoteSlot(n)] = skip
      /\ \A x \in Waves \ {w} : vote'[x] = vote[x]
  BY <1>1, <1>2 DEF CastVote, Shapes
<1>4. CASE ~skip
  BY <1>1, <1>3, <1>4 DEF CastVote
<1>5. CASE skip
  <2>1. said' = [said EXCEPT ![n + 1] = @ \cup {w}] /\ n + 1 \in 1 .. Len(said)
    BY <1>1, <1>5 DEF CastVote
  <2>2. said' \in Seq(SUBSET Waves) /\ Len(said') = Len(said)
    <3>1. said[n + 1] \cup {w} \in SUBSET Waves
      BY <1>1, <2>1, ElementOfSeq
    <3>2. QED
      BY <1>1, <2>1, <3>1, ExceptSeq
  <2>3. \A j \in 1 .. Steps : said'[j] = IF j = n + 1 THEN said[j] \cup {w} ELSE said[j]
    <3>1. \A j \in 1 .. Len(said) : said'[j] = IF j = n + 1 THEN said[n + 1] \cup {w} ELSE said[j]
      BY <1>1, <2>1
    <3>2. QED
      BY <3>1
  <2>4. QED
    BY <1>1, <1>3, <1>5, <2>2, <2>3
<1>6. QED
  BY <1>1, <1>4, <1>5

LEMMA OwesAfter ==
  ASSUME Shapes, NEW w \in Waves, NEW n \in 0 .. Steps - 1, Scored(w, n), Len(said) = Steps,
         NEW skip \in Skips(n), CastVote(w, n, skip), cta' = cta,
         reg' = [reg EXCEPT ![w] = softmax(@, n, skip)]
  PROVE  Owes(w, n + 1)' /\ reg' \in [Waves -> Registers942] /\ \A x \in Waves \ {w} : reg'[x] = reg[x]
<1> DEFINE r == softmax(reg[w], n, skip)
<1>1. /\ r \in Registers942
      /\ r.sum = Taken(w, cta.walk, said', n + 1) /\ r.o = Taken(w, cta.walk, said', n)
      /\ \A j \in n + 2 .. Steps : w \notin said'[j]
      /\ skip <=> w \in said'[n + 1]
      /\ w \notin said'[n + 1] => r.probs = At(n)
  BY SoftmaxTakes
<1>2. reg' = [reg EXCEPT ![w] = r] /\ reg'[w] = r /\ vote'[w][VoteSlot(n)] = skip
  BY VoteIsOwn DEF Shapes
<1> HIDE DEF r
<1>3. reg' \in [Waves -> Registers942] /\ \A x \in Waves \ {w} : reg'[x] = reg[x]
  BY <1>1, <1>2 DEF Shapes
<1>4. n + 1 # 0 /\ (n + 1) - 1 = n /\ (n + 1) + 1 = n + 2
  OBVIOUS
<1>5. reg'[w].sum = Taken(w, cta'.walk, said', n + 1) /\ reg'[w].o = Taken(w, cta'.walk, said', n)
  BY <1>1, <1>2
<1>6. Sums(w, n + 1, n)'
  BY <1>1, <1>4, <1>5 DEF Sums, Took, Steps
<1>7. Owes(w, n + 1)'
  BY <1>1, <1>2, <1>4, <1>6 DEF Owes, At, VoteSlot
<1>8. QED
  BY <1>3, <1>7

-----------------------------------------------------------------------------
(* A wave that is somewhere runs with the others.                          *)
LEMMA WaveRuns ==
  ASSUME Inv, NEW w \in Waves, pc[w] # "idle"
  PROVE  /\ launch = NoLaunch /\ ~Idle
         /\ \E stage \in Stages, s \in Int : Running(stage, s)
BY DEF Inv, AtRest, Idle, LaunchFine

LEMMA KeepsRunning ==
  ASSUME Inv, NEW w \in Waves, pc[w] # "idle", pc'[w] # "idle", launch' = launch, Shapes', RecFine',
         NEW stage \in Stages, NEW s \in Int, Running(stage, s)'
  PROVE  Inv'
<1>1. launch' = NoLaunch /\ ~Idle'
  BY WaveRuns DEF Idle
<1>2. QED
  BY <1>1 DEF Inv, LaunchFine

LEMMA Buffers ==
  ASSUME NEW n \in Int
  PROVE  KBuf(n) \in Ring /\ KBuf(n + 1) \in Ring /\ KBuf(n) # KBuf(n + 1)
BY DEF KBuf, Ring

LEMMA Streams ==
  ASSUME Shapes, NEW w \in GroupB, NEW n, At(n) \in Int, KBuf(n) \in Ring, dma[w] = <<>>, Stream(w, n)
  PROVE  /\ dma' \in [GroupB -> Seq([block : Int, buf : Ring])]
         /\ dma'[w] = <<[block |-> At(n), buf |-> KBuf(n)]>>
         /\ \A x \in GroupB \ {w} : dma'[x] = dma[x]
<1> DEFINE load == [block |-> At(n), buf |-> KBuf(n)]
           L == [block : Int, buf : Ring]
<1>1. load \in L
  OBVIOUS
<1>2. dma \in [GroupB -> Seq(L)] /\ dma' = [dma EXCEPT ![w] = Append(@, load)]
  BY DEF Shapes, Stream
<1> HIDE DEF load, L
<1>3. Append(dma[w], load) \in Seq(L) /\ Append(dma[w], load) = <<load>>
  BY <1>1, <1>2
<1>4. dma' \in [GroupB -> Seq(L)] /\ dma'[w] = <<load>> /\ \A x \in GroupB \ {w} : dma'[x] = dma[x]
  BY <1>2, <1>3
<1>5. QED
  BY <1>4 DEF load, L

LEMMA PrologueKeeps ==
  ASSUME Inv, NEW w \in Waves, Prologue(w)
  PROVE  Inv'
<1>1. PICK stage \in Stages, s \in Int : Running(stage, s)
  BY WaveRuns DEF Prologue
<1>2. stage = "load" /\ s = -1 /\ step[w] = -1 /\ Shapes /\ RecFine /\ cta.walk # <<>>
  BY <1>1 DEF Running, PlaceIn, StageOf, Prologue, Inv
<1>3. Steps \in Nat /\ 0 < Steps /\ At(0) \in Int /\ KBuf(0) \in Ring
  <2>1. Steps \in Nat /\ Steps # 0
    BY <1>2 DEF Shapes, Ints, Steps
  <2>2. 0 \in 0 .. Steps - 1
    BY <2>1
  <2>3. At(0) \in Int
    BY <1>2, <2>2, WalkBlocks
  <2>4. QED
    BY <2>1, <2>3, Buffers
<1>4. /\ w \in GroupB => dma[w] = <<>> /\ dma' = [dma EXCEPT ![w] = Append(@, [block |-> At(0), buf |-> KBuf(0)])]
      /\ w \notin GroupB => dma' = dma
  BY <1>1, <1>2 DEF Running, KeysIn, Prologue, Stream
<1>5. dma' \in [GroupB -> Seq([block : Int, buf : Ring])]
  BY <1>2, <1>3, <1>4, Streams DEF Shapes, Stream
<1>6. Shapes' /\ RecFine'
  BY <1>2, <1>5 DEF Shapes, RecFine, Prologue, Goto, Places
<1>7. Sums(w, 0, 0)'
  <2>1. Sums(w, 0, 0)
    BY <1>1, <1>2 DEF Running, TakesA, TakesB, Waves
  <2>2. 0 \in 0 .. Steps
    BY <1>3
  <2>3. QED
    BY <1>2, <2>1, <2>2, SumsStay DEF Prologue
<1>8. w \in GroupB => KeysIn(stage, s, w)'
  <2>1. ASSUME w \in GroupB PROVE Comes(w, 0)'
    <3>1. dma'[w] = <<[block |-> At(0), buf |-> KBuf(0)]>>
      BY <1>2, <1>4, <2>1 DEF Shapes
    <3>2. Steps' = Steps /\ At(0)' = At(0) /\ KBuf(0)' = KBuf(0)
      BY DEF Prologue, Steps, At, KBuf
    <3>3. QED
      BY <1>3, <3>1, <3>2 DEF Comes
  <2>2. s + 1 = 0 /\ pc'[w] = "drain"
    BY <1>2 DEF Prologue, Goto, Shapes
  <2>3. QED
    BY <1>2, <2>1, <2>2 DEF KeysIn
<1>9. PlaceIn(stage, s, w)' /\ TakesA(stage, s, w)' /\ TakesB(stage, s, w)'
  BY <1>2, <1>7 DEF PlaceIn, TakesA, TakesB, Prologue, Goto, Shapes
<1>10. /\ \A x \in Waves \ {w} : pc'[x] = pc[x] /\ step'[x] = step[x] /\ reg'[x] = reg[x] /\ vote'[x] = vote[x]
       /\ said' = said /\ cta' = cta /\ pc'[w] = "drain" /\ pc[w] = "prologue" /\ launch' = launch
       /\ \A x \in GroupB \ {w} : dma'[x] = dma[x] /\ k'[x] = k[x]
  BY <1>2, <1>4 DEF Prologue, Goto, Shapes
<1>11. Running(stage, s)'
  BY <1>1, <1>2, <1>8, <1>9, <1>10, StepOfOne
<1>12. QED
  BY <1>1, <1>6, <1>10, <1>11, KeepsRunning

(* The PV a wave owes and QK of the step.                                  *)
LEMMA PvThenQk ==
  ASSUME Shapes, NEW w \in Waves, NEW s \in 0 .. Steps - 1, Owes(w, s),
         ~cta.lite => \A j \in 1 .. Steps : said[j] = {},
         \A u \in GroupB : k[u][KBuf(s)] = At(s)
  PROVE  LET r == qk_phase(IF s > 0 THEN PvOf(w, s - 1) ELSE reg[w], s) IN
         /\ r \in Registers942 /\ r.scores = At(s) /\ r.sum = Took(w, s) /\ r.o = Took(w, s)
         /\ \A j \in s + 1 .. Steps : w \notin said[j]
<1> DEFINE r == IF s > 0 THEN PvOf(w, s - 1) ELSE reg[w]
<1>1. Steps \in Nat /\ At(s) \in Int /\ reg[w] \in Registers942
  BY WalkBlocks DEF Shapes
<1>2. /\ r \in Registers942 /\ r.sum = Took(w, s) /\ r.o = Took(w, s)
      /\ \A j \in s + 1 .. Steps : w \notin said[j]
  <2>1. CASE s = 0
    BY <1>1, <2>1 DEF Owes, Sums
  <2>2. CASE s > 0
    <3>1. s \in 1 .. Steps /\ (~cta.lite => w \notin said[s])
      BY <1>1, <2>2
    <3>2. QED
      BY <2>2, <3>1, OwedPv
  <2>3. QED
    BY <1>1, <2>1, <2>2
<1> HIDE DEF r
<1>3. /\ qk_phase(r, s) \in Registers942 /\ qk_phase(r, s).scores = At(s)
      /\ qk_phase(r, s).sum = r.sum /\ qk_phase(r, s).o = r.o
  BY <1>1, <1>2, QkScores
<1>4. QED
  BY <1>2, <1>3 DEF r

(* A's first half: the PV it owed, and QK of the step, its K there.        *)
LEMMA Half1AKeeps ==
  ASSUME Inv, NEW w \in Waves, Half1A(w)
  PROVE  Inv'
<1>1. PICK stage \in Stages, s \in Int : Running(stage, s)
  BY WaveRuns DEF Half1A
<1>2. /\ stage = "first" /\ step[w] = s /\ s \in 0 .. Steps - 1 /\ w \in GroupA
      /\ Shapes /\ RecFine /\ Owes(w, s)
  BY <1>1, WavesAssumption DEF Running, PlaceIn, StageOf, TakesA, Half1A, Inv
<1> DEFINE r == qk_phase(IF s > 0 THEN PvOf(w, s - 1) ELSE reg[w], s)
<1>3. /\ r \in Registers942 /\ r.scores = At(s) /\ r.sum = Took(w, s) /\ r.o = Took(w, s)
      /\ \A j \in s + 1 .. Steps : w \notin said[j]
  BY <1>1, <1>2, PvThenQk DEF Running, KeysIn
<1>4. reg' = [reg EXCEPT ![w] = r] /\ reg'[w] = r
  BY <1>2 DEF Half1A, Shapes
<1> HIDE DEF r
<1>5. Shapes' /\ RecFine'
  BY <1>2, <1>3, <1>4 DEF Shapes, RecFine, Half1A, Goto, Places
<1>6. Scored(w, s)'
  BY <1>3, <1>4 DEF Scored, Sums, Took, Steps, At, Half1A
<1>7. PlaceIn(stage, s, w)' /\ TakesA(stage, s, w)'
  BY <1>2, <1>6 DEF PlaceIn, TakesA, Half1A, Goto, Shapes
<1>8. /\ \A x \in Waves \ {w} : pc'[x] = pc[x] /\ step'[x] = step[x] /\ reg'[x] = reg[x] /\ vote'[x] = vote[x]
      /\ said' = said /\ cta' = cta /\ pc'[w] = "wait_mid" /\ pc[w] = "half1" /\ launch' = launch
      /\ \A x \in GroupB \ {w} : dma'[x] = dma[x] /\ k'[x] = k[x]
      /\ w \notin GroupB
  BY <1>2, <1>4, WavesAssumption DEF Half1A, Goto, Shapes
<1>9. Running(stage, s)'
  BY <1>1, <1>2, <1>7, <1>8, StepOfOne
<1>10. QED
  BY <1>1, <1>5, <1>8, <1>9, KeepsRunning

(* B's second half: the same, half a step behind.                          *)
LEMMA Half2BKeeps ==
  ASSUME Inv, NEW w \in Waves, Half2B(w)
  PROVE  Inv'
<1>1. PICK stage \in Stages, s \in Int : Running(stage, s)
  BY WaveRuns DEF Half2B
<1>2. /\ stage = "second" /\ step[w] = s /\ s \in 0 .. Steps - 1 /\ w \in GroupB
      /\ Shapes /\ RecFine /\ Owes(w, s)
  BY <1>1, WavesAssumption DEF Running, PlaceIn, StageOf, TakesB, Half2B, Inv
<1> DEFINE r == qk_phase(IF s > 0 THEN PvOf(w, s - 1) ELSE reg[w], s)
<1>3. /\ r \in Registers942 /\ r.scores = At(s) /\ r.sum = Took(w, s) /\ r.o = Took(w, s)
      /\ \A j \in s + 1 .. Steps : w \notin said[j]
  BY <1>1, <1>2, PvThenQk DEF Running, KeysIn
<1>4. reg' = [reg EXCEPT ![w] = r] /\ reg'[w] = r
  BY <1>2 DEF Half2B, Shapes
<1> HIDE DEF r
<1>5. Shapes' /\ RecFine'
  BY <1>2, <1>3, <1>4 DEF Shapes, RecFine, Half2B, Goto, Places
<1>6. Scored(w, s)'
  BY <1>3, <1>4 DEF Scored, Sums, Took, Steps, At, Half2B
<1>7. PlaceIn(stage, s, w)' /\ TakesB(stage, s, w)'
  BY <1>2, <1>6 DEF PlaceIn, TakesB, Half2B, Goto, Shapes
<1>8. KeysIn(stage, s, w)'
  <2>1. k[w][KBuf(s)] = At(s) /\ Comes(w, s + 1)
    BY <1>1, <1>2 DEF Running, KeysIn, Half2B
  <2>2. pc'[w] = "drain" /\ k' = k /\ dma' = dma /\ cta' = cta
    BY <1>2 DEF Half2B, Goto, Shapes
  <2>3. QED
    BY <1>2, <2>1, <2>2 DEF KeysIn, Comes, Here, At, KBuf, Steps
<1>9. /\ \A x \in Waves \ {w} : pc'[x] = pc[x] /\ step'[x] = step[x] /\ reg'[x] = reg[x] /\ vote'[x] = vote[x]
      /\ said' = said /\ cta' = cta /\ pc'[w] = "drain" /\ pc[w] = "half2" /\ launch' = launch
      /\ \A x \in GroupB \ {w} : dma'[x] = dma[x] /\ k'[x] = k[x]
      /\ w \notin GroupA
  BY <1>2, <1>4, WavesAssumption DEF Half2B, Goto, Shapes
<1>10. Running(stage, s)'
  BY <1>1, <1>2, <1>7, <1>8, <1>9, StepOfOne
<1>11. QED
  BY <1>1, <1>5, <1>9, <1>10, KeepsRunning

(* A's second half: its softmax of the step.                               *)
LEMMA Half2AKeeps ==
  ASSUME Inv, NEW w \in Waves, Half2A(w)
  PROVE  Inv'
<1>1. PICK stage \in Stages, s \in Int : Running(stage, s)
  BY WaveRuns DEF Half2A
<1>2. /\ stage = "second" /\ step[w] = s /\ s \in 0 .. Steps - 1 /\ w \in GroupA /\ w \notin GroupB
      /\ Shapes /\ RecFine /\ Scored(w, s) /\ Len(said) = Steps
  BY <1>1, WavesAssumption DEF Running, PlaceIn, StageOf, TakesA, Half2A, Inv
<1>3. PICK skip \in Skips(s) : CastVote(w, s, skip) /\ reg' = [reg EXCEPT ![w] = softmax(@, s, skip)]
  BY <1>2 DEF Half2A, Softmax
<1>4. Owes(w, s + 1)' /\ reg' \in [Waves -> Registers942] /\ \A x \in Waves \ {w} : reg'[x] = reg[x]
  BY <1>2, <1>3, OwesAfter DEF Half2A
<1>5. /\ vote' \in [Waves -> [Ring -> BOOLEAN]] /\ said' \in Seq(SUBSET Waves)
      /\ Len(said') = Len(said) /\ (~cta.lite => said' = said)
      /\ \A x \in Waves \ {w} :
           vote'[x] = vote[x] /\ \A j \in 1 .. Steps : x \in said'[j] <=> x \in said[j]
  BY <1>2, <1>3, VoteIsOwn
<1>6. PICK place \in {"record", "drain"} :
        pc' = [pc EXCEPT ![w] = place] /\ (place = "record" => s > 0)
  BY <1>2 DEF Half2A, Goto
<1>7. Shapes' /\ RecFine'
  BY <1>2, <1>4, <1>5, <1>6 DEF Shapes, RecFine, Half2A, Places
<1>8. PlaceIn(stage, s, w)' /\ TakesA(stage, s, w)'
  BY <1>2, <1>4, <1>6 DEF PlaceIn, TakesA, Half2A, Shapes
<1>9. /\ \A x \in Waves \ {w} : pc'[x] = pc[x] /\ step'[x] = step[x]
      /\ cta' = cta /\ pc'[w] # "idle" /\ pc[w] = "half2" /\ launch' = launch
      /\ \A x \in GroupB \ {w} : dma'[x] = dma[x] /\ k'[x] = k[x]
  BY <1>2, <1>6 DEF Half2A, Shapes
<1>10. Running(stage, s)'
  BY <1>1, <1>2, <1>4, <1>5, <1>8, <1>9, StepOfOne
<1>11. QED
  BY <1>1, <1>7, <1>9, <1>10, KeepsRunning

(* B's first half: its softmax of the step before, and the next block's K. *)
LEMMA Half1BKeeps ==
  ASSUME Inv, NEW w \in Waves, Half1B(w)
  PROVE  Inv'
<1>1. PICK stage \in Stages, s \in Int : Running(stage, s)
  BY WaveRuns DEF Half1B
<1>2. /\ stage = "first" /\ step[w] = s /\ s \in 0 .. Steps - 1 /\ w \in GroupB /\ w \notin GroupA
      /\ Shapes /\ RecFine /\ Len(said) = Steps /\ dma[w] = <<>>
      /\ (IF s = 0 THEN Sums(w, 0, 0) ELSE Scored(w, s - 1))
  BY <1>1, WavesAssumption DEF Running, PlaceIn, StageOf, TakesB, KeysIn, Half1B, Inv
<1>3. /\ Owes(w, s)' /\ reg' \in [Waves -> Registers942]
      /\ vote' \in [Waves -> [Ring -> BOOLEAN]] /\ said' \in Seq(SUBSET Waves)
      /\ Len(said') = Len(said) /\ (~cta.lite => said' = said)
      /\ \A x \in Waves \ {w} :
           /\ reg'[x] = reg[x] /\ vote'[x] = vote[x]
           /\ \A j \in 1 .. Steps : x \in said'[j] <=> x \in said[j]
  <2>1. CASE s = 0
    <3>1. reg' = reg /\ vote' = vote /\ said' = said /\ cta' = cta /\ Sums(w, 0, 0)
      BY <1>2, <2>1 DEF Half1B
    <3>2. Sums(w, 0, 0)'
      BY <3>1 DEF Sums, Took, Steps
    <3>3. QED
      BY <1>2, <2>1, <3>1, <3>2 DEF Owes, Shapes
  <2>2. CASE s > 0
    <3>1. PICK n \in 0 .. Steps - 1 : n = s - 1 /\ n + 1 = s
      BY <1>2, <2>2
    <3>2. PICK skip \in Skips(n) : CastVote(w, n, skip) /\ reg' = [reg EXCEPT ![w] = softmax(@, n, skip)]
      BY <1>2, <2>2, <3>1 DEF Half1B, Softmax
    <3>3. Scored(w, n) /\ cta' = cta
      BY <1>2, <2>2, <3>1 DEF Half1B
    <3>4. Owes(w, n + 1)' /\ reg' \in [Waves -> Registers942] /\ \A x \in Waves \ {w} : reg'[x] = reg[x]
      BY <1>2, <3>2, <3>3, OwesAfter
    <3>5. /\ vote' \in [Waves -> [Ring -> BOOLEAN]] /\ said' \in Seq(SUBSET Waves)
          /\ Len(said') = Len(said) /\ (~cta.lite => said' = said)
          /\ \A x \in Waves \ {w} :
               vote'[x] = vote[x] /\ \A j \in 1 .. Steps : x \in said'[j] <=> x \in said[j]
      BY <1>2, <3>2, VoteIsOwn
    <3>6. QED
      BY <3>1, <3>4, <3>5
  <2>3. QED
    BY <1>2, <2>1, <2>2
<1>4. /\ dma' \in [GroupB -> Seq([block : Int, buf : Ring])] /\ Comes(w, s + 1)'
      /\ \A x \in GroupB \ {w} : dma'[x] = dma[x]
  <2>1. cta' = cta /\ Steps' = Steps /\ At(s + 1)' = At(s + 1) /\ KBuf(s + 1)' = KBuf(s + 1)
    BY DEF Half1B, Steps, At, KBuf
  <2>2. CASE s + 1 < Steps
    <3>1. Stream(w, s + 1) /\ At(s + 1) \in Int /\ KBuf(s + 1) \in Ring
      BY <1>2, <2>2, WalkBlocks, Buffers DEF Half1B
    <3>2. /\ dma' \in [GroupB -> Seq([block : Int, buf : Ring])]
          /\ dma'[w] = <<[block |-> At(s + 1), buf |-> KBuf(s + 1)]>>
          /\ \A x \in GroupB \ {w} : dma'[x] = dma[x]
      BY <1>2, <3>1, Streams
    <3>3. QED
      BY <2>1, <2>2, <3>2 DEF Comes
  <2>3. CASE ~(s + 1 < Steps)
    BY <1>2, <2>1, <2>3 DEF Half1B, Comes, Shapes
  <2>4. QED
    BY <2>2, <2>3
<1>5. pc' = [pc EXCEPT ![w] = "wait_mid"]
  BY DEF Half1B, Goto
<1>6. Shapes' /\ RecFine'
  BY <1>2, <1>3, <1>4, <1>5 DEF Shapes, RecFine, Half1B, Places
<1>7. PlaceIn(stage, s, w)' /\ TakesB(stage, s, w)'
  BY <1>2, <1>3, <1>5 DEF PlaceIn, TakesB, Half1B, Shapes
<1>8. KeysIn(stage, s, w)'
  <2>1. k[w][KBuf(s)] = At(s)
    BY <1>1, <1>2 DEF Running, KeysIn
  <2>2. pc'[w] = "wait_mid" /\ k' = k /\ cta' = cta
    BY <1>2, <1>5 DEF Half1B, Shapes
  <2>3. (k[w][KBuf(s)] = At(s))'
    BY <2>1, <2>2 DEF At, KBuf
  <2>4. QED
    BY <1>2, <1>4, <2>2, <2>3 DEF KeysIn
<1>9. /\ \A x \in Waves \ {w} : pc'[x] = pc[x] /\ step'[x] = step[x]
      /\ cta' = cta /\ pc'[w] # "idle" /\ pc[w] = "half1" /\ launch' = launch
      /\ \A x \in GroupB \ {w} : dma'[x] = dma[x] /\ k'[x] = k[x]
  BY <1>2, <1>4, <1>5 DEF Half1B, Shapes
<1>10. Running(stage, s)'
  BY <1>1, <1>2, <1>3, <1>7, <1>8, <1>9, StepOfOne
<1>11. QED
  BY <1>1, <1>6, <1>9, <1>10, KeepsRunning

(* Thread 0's row has a range open while it keeps, and none once it closes *)
(* the walk's last.                                                        *)
LEMMA Recording ==
  ASSUME NEW st, ListFine(st),
         NEW block \in Int, NEW skip \in BOOLEAN, NEW closes, NEW d \in {Asc, Desc}
  PROVE  /\ ListFine(Record(st, block, skip, closes, d))
         /\ closes => Len(Record(st, block, skip, closes, d).out) % 2 = 0
<1> DEFINE flipped == IF skip # st.skip THEN Append(st.out, block) ELSE st.out
           out == IF closes /\ ~skip THEN Append(flipped, block + d) ELSE flipped
<1>0. st.skip \in BOOLEAN /\ (st.skip <=> Len(st.out) % 2 = 0)
  BY DEF ListFine
<1>1. PICK list \in Ints, n \in Nat : list = st.out /\ n = Len(list)
  <2>1. PICK list : list = st.out /\ list \in Ints
    BY Zenon DEF ListFine
  <2>2. QED
    BY <2>1 DEF Ints
<1>2. flipped \in Ints /\ Len(flipped) = IF skip # st.skip THEN n + 1 ELSE n
  <2>1. Append(list, block) \in Ints /\ Len(Append(list, block)) = n + 1
    BY <1>1 DEF Ints
  <2>2. QED
    BY <1>0, <1>1, <2>1, Zenon
<1>3. block + d \in Int
  BY DEF Asc, Desc
<1>4. \A m \in Nat : (m + 1) % 2 = 0 <=> m % 2 # 0
  OBVIOUS
<1>5. skip <=> Len(flipped) % 2 = 0
  <2>1. CASE skip = st.skip
    BY <1>0, <1>1, <1>2, <2>1
  <2>2. CASE skip # st.skip
    <3>1. Len(flipped) = n + 1 /\ (skip <=> ~st.skip)
      BY <1>0, <1>2, <2>2
    <3>2. Len(st.out) % 2 # 0 <=> Len(flipped) % 2 = 0
      BY <1>1, <1>4, <3>1
    <3>3. QED
      BY <1>0, <3>1, <3>2, Zenon
  <2>3. QED
    BY <2>1, <2>2
<1> HIDE DEF flipped
<1>6. out \in Ints /\ Len(out) = IF closes /\ ~skip THEN Len(flipped) + 1 ELSE Len(flipped)
  BY <1>2, <1>3 DEF Ints
<1>7. (closes \/ skip) <=> Len(out) % 2 = 0
  <2>1. CASE closes /\ ~skip
    <3>1. Len(flipped) % 2 # 0 => Len(out) % 2 = 0
      <4>1. Len(flipped) \in Nat
        BY <1>1, <1>2
      <4>2. Len(out) = Len(flipped) + 1
        BY <1>6, <2>1, Zenon
      <4>3. QED
        BY <1>4, <4>1, <4>2
    <3>2. QED
      BY <1>5, <2>1, <3>1, Zenon
  <2>2. CASE ~(closes /\ ~skip)
    BY <1>5, <1>6, <2>2
  <2>3. QED
    BY <2>1, <2>2
<1> HIDE DEF out
<1>8. PICK shut : shut = (closes \/ skip)
  OBVIOUS
<1>9. shut \in BOOLEAN /\ (shut <=> Len(out) % 2 = 0) /\ (closes => shut)
  BY <1>7, <1>8, Zenon
<1>10. Record(st, block, skip, closes, d) = [out |-> out, skip |-> shut]
  BY <1>8 DEF Record, out, flipped
<1>11. Record(st, block, skip, closes, d).out = out /\ Record(st, block, skip, closes, d).skip = shut
  BY <1>10
<1>12. QED
  BY <1>6, <1>7, <1>9, <1>11, Zenon DEF ListFine

LEMMA RecordedFine ==
  ASSUME Shapes, RecFine, NEW s, At(s) \in Int, NEW closes
  PROVE  /\ ListFine(Recorded(s, closes).list)
         /\ closes => Len(Recorded(s, closes).list.out) % 2 = 0
<1> DEFINE md == MustDoCursor(cta.must, rec.md, At(s), cta.dir)
           skip == (\A w \in Waves : vote[w][VoteSlot(s)]) /\ ~Forced(cta.must, md, At(s))
<1>1. PICK st, b, d, no : st = rec.list /\ b = At(s) /\ d = cta.dir /\ no = skip
  OBVIOUS
<1>2. no \in BOOLEAN
  BY <1>1
<1>3. Recorded(s, closes).list = Record(st, b, no, closes, d)
  BY <1>1 DEF Recorded
<1>4. ListFine(st) /\ b \in Int /\ d \in {Asc, Desc}
  BY <1>1 DEF RecFine, Shapes
<1>5. ListFine(Record(st, b, no, closes, d)) /\ (closes => Len(Record(st, b, no, closes, d).out) % 2 = 0)
  BY <1>2, <1>4, Recording
<1>6. QED
  BY <1>3, <1>5

LEMMA RecordVotesKeeps ==
  ASSUME Inv, NEW w \in Waves, RecordVotes(w)
  PROVE  Inv'
<1>1. PICK stage \in Stages, s \in Int : Running(stage, s)
  BY WaveRuns DEF RecordVotes
<1>2. /\ stage = "second" /\ step[w] = s /\ s \in 0 .. Steps - 1 /\ w \in GroupA /\ w \notin GroupB
      /\ Shapes /\ RecFine /\ Owes(w, s + 1) /\ s > 0 /\ cta.walk # <<>>
  BY <1>1, WavesAssumption DEF Running, PlaceIn, StageOf, TakesA, TakesB, RecordVotes, Inv, Waves
<1>3. pc' = [pc EXCEPT ![w] = "drain"] /\ pc[w] = "record" /\ rec' = Recorded(s - 1, cta.closes[s])
  BY <1>2 DEF RecordVotes, Goto
<1>4. Shapes'
  BY <1>2, <1>3 DEF Shapes, RecordVotes, Places
<1>5. RecFine'
  <2>1. s - 1 \in 0 .. Steps - 1 /\ At(s - 1) \in Int
    BY <1>2, WalkBlocks
  <2>2. ListFine(Recorded(s - 1, cta.closes[s]).list)
    BY <1>2, <2>1, RecordedFine
  <2>3. QED
    BY <1>3, <2>2 DEF RecFine
<1>6. PlaceIn(stage, s, w)' /\ TakesA(stage, s, w)'
  <2>1. Steps \in Nat /\ s + 1 \in 0 .. Steps
    BY <1>2, WalkBlocks
  <2>2. Owes(w, s + 1)'
    BY <1>2, <2>1, SumsStay DEF RecordVotes
  <2>3. QED
    BY <1>2, <1>3, <2>2 DEF PlaceIn, TakesA, RecordVotes, Shapes
<1>7. /\ \A x \in Waves \ {w} : pc'[x] = pc[x] /\ step'[x] = step[x] /\ reg'[x] = reg[x] /\ vote'[x] = vote[x]
      /\ said' = said /\ cta' = cta /\ pc'[w] # "idle" /\ pc[w] # "idle" /\ launch' = launch
      /\ \A x \in GroupB \ {w} : dma'[x] = dma[x] /\ k'[x] = k[x]
  BY <1>2, <1>3 DEF RecordVotes, Shapes
<1>8. Running(stage, s)'
  BY <1>1, <1>2, <1>6, <1>7, StepOfOne
<1>9. QED
  BY <1>1, <1>4, <1>5, <1>7, <1>8, KeepsRunning

(* The end of a step: B's loads are there.                                 *)
LEMMA ArriveEndKeeps ==
  ASSUME Inv, NEW w \in Waves, ArriveEnd(w)
  PROVE  Inv'
<1>1. PICK stage \in Stages, s \in Int : Running(stage, s)
  BY WaveRuns DEF ArriveEnd
<1>2. /\ stage \in {"load", "second"} /\ step[w] = s /\ Shapes /\ RecFine
      /\ StageOf(stage, s) /\ cta.walk # <<>>
      /\ w \in GroupA => TakesA(stage, s, w)
      /\ w \in GroupB => TakesB(stage, s, w) /\ KeysIn(stage, s, w) /\ dma[w] = <<>>
  BY <1>1 DEF Running, PlaceIn, ArriveEnd, Inv
<1>3. pc' = [pc EXCEPT ![w] = "wait_end"] /\ pc[w] = "drain" /\ pc'[w] = "wait_end"
  BY <1>2 DEF ArriveEnd, Goto, Shapes
<1>4. Shapes' /\ RecFine'
  BY <1>2, <1>3 DEF Shapes, RecFine, ArriveEnd, Places
<1>5. /\ \A m, n \in 0 .. Steps : Sums(w, m, n) => Sums(w, m, n)'
      /\ \A n \in 0 .. Steps : Owes(w, n) => Owes(w, n)'
      /\ \A n \in 0 .. Steps - 1 : Scored(w, n) => Scored(w, n)'
  BY <1>2, SumsStay DEF ArriveEnd
<1>6. Steps \in Nat /\ 0 \in 0 .. Steps /\ (stage = "second" => s \in 0 .. Steps - 1 /\ s + 1 \in 0 .. Steps)
  BY <1>2, WalkBlocks DEF StageOf
<1>7. PlaceIn(stage, s, w)'
  BY <1>2, <1>3 DEF PlaceIn, ArriveEnd
<1>8. w \in GroupA => TakesA(stage, s, w)'
  BY <1>2, <1>3, <1>5, <1>6 DEF TakesA
<1>9. w \in GroupB => TakesB(stage, s, w)'
  BY <1>2, <1>3, <1>5, <1>6 DEF TakesB
<1>10. w \in GroupB => KeysIn(stage, s, w)'
  <2>1. w \in GroupB => Landed(w, s + 1) /\ (stage = "second" => k[w][KBuf(s)] = At(s))
    <3>1. ASSUME w \in GroupB PROVE Comes(w, s + 1) /\ (stage = "second" => k[w][KBuf(s)] = At(s))
      BY <1>2, <1>3, <3>1 DEF KeysIn
    <3>2. \A load : <<load>> # <<>>
      OBVIOUS
    <3>3. QED
      BY <1>2, <3>1, <3>2 DEF Comes, Landed
  <2>2. cta' = cta /\ k' = k /\ dma' = dma
    BY DEF ArriveEnd
  <2>3. QED
    BY <1>2, <1>3, <2>1, <2>2 DEF KeysIn, Landed, Here, At, KBuf, Steps
<1>11. /\ \A x \in Waves \ {w} : pc'[x] = pc[x] /\ step'[x] = step[x] /\ reg'[x] = reg[x] /\ vote'[x] = vote[x]
       /\ said' = said /\ cta' = cta /\ pc'[w] # "idle" /\ pc[w] # "idle" /\ launch' = launch
       /\ \A x \in GroupB \ {w} : dma'[x] = dma[x] /\ k'[x] = k[x]
  BY <1>2, <1>3 DEF ArriveEnd, Shapes
<1>12. Running(stage, s)'
  BY <1>1, <1>2, <1>7, <1>8, <1>9, <1>10, <1>11, StepOfOne
<1>13. QED
  BY <1>1, <1>4, <1>11, <1>12, KeepsRunning

(* The last PV, and B's last softmax before it.                            *)
LEMMA EpilogueTakes ==
  ASSUME Inv, NEW w \in Waves, Epilogue(w), NEW s \in Int, Running("last", s)
  PROVE  /\ Sums(w, Steps, Steps)' /\ reg' \in [Waves -> Registers942]
         /\ vote' \in [Waves -> [Ring -> BOOLEAN]] /\ said' \in Seq(SUBSET Waves)
         /\ Len(said') = Len(said) /\ (~cta.lite => said' = said)
         /\ \A x \in Waves \ {w} :
              /\ reg'[x] = reg[x] /\ vote'[x] = vote[x]
              /\ \A j \in 1 .. Steps : x \in said'[j] <=> x \in said[j]
<1>1. /\ Shapes /\ pc[w] = "epilogue" /\ cta' = cta /\ Len(said) = Steps /\ cta.walk # <<>>
      /\ ~cta.lite => \A j \in 1 .. Steps : said[j] = {}
      /\ w \in GroupA => Owes(w, Steps)
      /\ w \in GroupB => Scored(w, Steps - 1)
  BY DEF Inv, Running, TakesA, TakesB, Epilogue
<1>2. Steps \in Nat /\ Steps # 0 /\ Steps \in 1 .. Steps /\ Steps - 1 \in 0 .. Steps - 1
  BY <1>1 DEF Shapes, Ints, Steps
<1>3. CASE w \in GroupA
  <2> DEFINE r == PvOf(w, Steps - 1)
  <2>1. r \in Registers942 /\ r.sum = Took(w, Steps) /\ r.o = Took(w, Steps)
    BY <1>1, <1>2, <1>3, OwedPv
  <2>2. reg' = [reg EXCEPT ![w] = r] /\ vote' = vote /\ said' = said
    BY <1>3 DEF Epilogue
  <2> HIDE DEF r
  <2>3. reg' \in [Waves -> Registers942] /\ reg'[w] = r /\ \A x \in Waves \ {w} : reg'[x] = reg[x]
    BY <1>1, <2>1, <2>2 DEF Shapes
  <2>4. Sums(w, Steps, Steps)'
    BY <1>1, <1>2, <2>1, <2>2, <2>3 DEF Sums, Took, Steps
  <2>5. QED
    BY <1>1, <2>2, <2>3, <2>4 DEF Shapes
<1>4. CASE w \notin GroupA
  <2>1. PICK n \in 0 .. Steps - 1 : n = Steps - 1 /\ n + 1 = Steps /\ Scored(w, n)
    BY <1>1, <1>2, <1>4 DEF Waves
  <2>2. PICK skip \in Skips(n) :
          CastVote(w, n, skip) /\ reg' = [reg EXCEPT ![w] = pv_phase(softmax(@, n, skip), n, skip)]
    BY <1>4, <2>1 DEF Epilogue
  <2> DEFINE r == softmax(reg[w], n, skip)
  <2>3. /\ r \in Registers942
        /\ r.sum = Taken(w, cta.walk, said', n + 1) /\ r.o = Taken(w, cta.walk, said', n)
        /\ \A j \in n + 2 .. Steps : w \notin said'[j]
        /\ skip <=> w \in said'[n + 1]
        /\ w \notin said'[n + 1] => r.probs = At(n)
    BY <1>1, <2>1, <2>2, SoftmaxTakes
  <2>4. /\ vote' \in [Waves -> [Ring -> BOOLEAN]] /\ said' \in Seq(SUBSET Waves)
        /\ Len(said') = Len(said) /\ (~cta.lite => said' = said)
        /\ \A x \in Waves \ {w} :
             vote'[x] = vote[x] /\ \A j \in 1 .. Steps : x \in said'[j] <=> x \in said[j]
    BY <1>1, <2>2, VoteIsOwn
  <2>5. reg' = [reg EXCEPT ![w] = pv_phase(r, n, skip)]
    BY <2>2
  <2> HIDE DEF r
  <2>6. PICK q, skips, m : q = r /\ skips = said' /\ m = n + 1
    OBVIOUS
  <2>7. /\ pv_phase(q, m - 1, skip) \in Registers942
        /\ pv_phase(q, m - 1, skip).o = Taken(w, cta.walk, skips, m)
        /\ pv_phase(q, m - 1, skip).sum = q.sum
    <3>1. m \in 1 .. Steps /\ m - 1 = n /\ (~cta.lite => w \notin skips[m])
      BY <1>1, <1>2, <2>1, <2>4, <2>6
    <3>2. /\ q \in Registers942 /\ q.o = Taken(w, cta.walk, skips, m - 1)
          /\ skip <=> w \in skips[m]
          /\ w \notin skips[m] => q.probs = At(m - 1)
      BY <2>3, <2>6, <3>1
    <3>3. QED
      BY <1>1, <3>1, <3>2, PvTakes
  <2>8. /\ pv_phase(r, n, skip) \in Registers942
        /\ pv_phase(r, n, skip).o = Taken(w, cta.walk, said', Steps)
        /\ pv_phase(r, n, skip).sum = Taken(w, cta.walk, said', Steps)
    <3>1. m = Steps /\ m - 1 = n
      BY <2>1, <2>6
    <3>2. QED
      BY <2>1, <2>3, <2>6, <2>7, <3>1
  <2>9. reg' \in [Waves -> Registers942] /\ reg'[w] = pv_phase(r, n, skip) /\ \A x \in Waves \ {w} : reg'[x] = reg[x]
    BY <1>1, <2>5, <2>8 DEF Shapes
  <2>10. Sums(w, Steps, Steps)'
    BY <1>1, <1>2, <2>8, <2>9 DEF Sums, Took, Steps
  <2>11. QED
    BY <2>4, <2>9, <2>10
<1>5. QED
  BY <1>3, <1>4

LEMMA EpilogueKeeps ==
  ASSUME Inv, NEW w \in Waves, Epilogue(w)
  PROVE  Inv'
<1>1. PICK stage \in Stages, s \in Int : Running(stage, s)
  BY WaveRuns DEF Epilogue
<1>2. stage = "last" /\ Shapes /\ RecFine /\ pc[w] = "epilogue" /\ cta' = cta /\ cta.lite \in BOOLEAN
  BY <1>1 DEF Running, PlaceIn, Epilogue, Inv, Shapes
<1>3. /\ Sums(w, Steps, Steps)' /\ reg' \in [Waves -> Registers942]
      /\ vote' \in [Waves -> [Ring -> BOOLEAN]] /\ said' \in Seq(SUBSET Waves)
      /\ Len(said') = Len(said) /\ (~cta.lite => said' = said)
      /\ \A x \in Waves \ {w} :
           /\ reg'[x] = reg[x] /\ vote'[x] = vote[x]
           /\ \A j \in 1 .. Steps : x \in said'[j] <=> x \in said[j]
  BY <1>1, <1>2, EpilogueTakes
<1>4. PICK place \in {"wait_last", "store"} :
        pc' = [pc EXCEPT ![w] = place] /\ (cta.lite <=> place = "wait_last")
  BY <1>2 DEF Epilogue, Goto
<1>5. Shapes' /\ RecFine'
  BY <1>2, <1>3, <1>4 DEF Shapes, RecFine, Epilogue, Places
<1>6. PlaceIn(stage, s, w)' /\ TakesA(stage, s, w)' /\ TakesB(stage, s, w)'
  <2>1. pc'[w] = place
    BY <1>2, <1>4 DEF Shapes
  <2>2. QED
    BY <1>2, <1>3, <1>4, <2>1 DEF PlaceIn, TakesA, TakesB
<1>7. w \in GroupB => KeysIn(stage, s, w)'
  BY <1>1, <1>2 DEF Running, KeysIn, Epilogue
<1>8. /\ \A x \in Waves \ {w} : pc'[x] = pc[x] /\ step'[x] = step[x]
      /\ pc'[w] # "idle" /\ pc[w] # "idle" /\ launch' = launch
      /\ \A x \in GroupB \ {w} : dma'[x] = dma[x] /\ k'[x] = k[x]
  BY <1>2, <1>4 DEF Epilogue, Shapes
<1>9. Running(stage, s)'
  BY <1>1, <1>2, <1>3, <1>6, <1>7, <1>8, StepOfOne
<1>10. QED
  BY <1>1, <1>5, <1>8, <1>9, KeepsRunning

LEMMA Rewritten ==
  ASSUME NEW T, NEW rows \in Seq(T), NEW i, NEW row \in T
  PROVE  [rows EXCEPT ![i] = row] \in Seq(T) /\ Len([rows EXCEPT ![i] = row]) = Len(rows)
<1>1. CASE i \in 1 .. Len(rows)
  BY <1>1, ExceptSeq
<1>2. CASE i \notin 1 .. Len(rows)
  <2>1. rows = [j \in DOMAIN rows |-> rows[j]] /\ DOMAIN rows = 1 .. Len(rows)
    OBVIOUS
  <2>2. [rows EXCEPT ![i] = row] = rows
    BY <1>2, <2>1
  <2>3. QED
    BY <2>2
<1>3. QED
  BY <1>1, <1>2

(* Thread 0 writes its list to the other row: every range closed.          *)
LEMMA FinishKeeps ==
  ASSUME Inv, NEW w \in Waves, Finish(w)
  PROVE  Inv'
<1>1. PICK stage \in Stages, s \in Int : Running(stage, s)
  BY WaveRuns DEF Finish
<1>2. /\ stage = "out" /\ Shapes /\ RecFine /\ pc[w] = "flush" /\ cta' = cta /\ cta.walk # <<>> /\ cta.lite
      /\ w \in GroupA \cup GroupB /\ Sums(w, Steps, Steps) /\ w \notin GroupB
  BY <1>1 DEF Running, PlaceIn, TakesA, TakesB, Finish, Inv, Waves
<1>3. Steps \in Nat /\ Steps - 1 \in 0 .. Steps - 1 /\ Steps \in 0 .. Steps /\ At(Steps - 1) \in Int
  <2>1. Steps \in Nat /\ Steps # 0
    BY <1>2 DEF Shapes, Ints, Steps
  <2>2. Steps - 1 \in 0 .. Steps - 1 /\ Steps \in 0 .. Steps
    BY <2>1
  <2>3. QED
    BY <1>2, <2>1, <2>2, WalkBlocks
<1>4. ListFine(rec'.list) /\ rec'.list.out \in Rows
  <2>1. rec' = Recorded(Steps - 1, TRUE)
    BY DEF Finish
  <2>2. ListFine(rec'.list) /\ Len(rec'.list.out) % 2 = 0
    BY <1>2, <1>3, <2>1, RecordedFine
  <2>3. QED
    BY <2>2, Zenon DEF ListFine, Rows
<1>5. attn' \in Objects942 /\ Len(attn'.rows) \in {0, 2}
  <2>1. PICK a, row : a = attn /\ row = rec'.list.out
    OBVIOUS
  <2>2. a \in Objects942 /\ row \in Rows /\ Len(a.rows) \in {0, 2}
    BY <1>2, <1>4, <2>1 DEF Shapes
  <2>3. attn' = [a EXCEPT !.rows = [a.rows EXCEPT ![WriteSlot(a)] = row], !.done = a.done + 1]
    BY <2>1, <2>2 DEF Finish, Objects942
  <2>4. [a.rows EXCEPT ![WriteSlot(a)] = row] \in Seq(Rows) /\ Len([a.rows EXCEPT ![WriteSlot(a)] = row]) = Len(a.rows)
    <3>1. PICK rows, i : rows = a.rows /\ i = WriteSlot(a) /\ rows \in Seq(Rows)
      BY <2>2 DEF Objects942
    <3>2. [rows EXCEPT ![i] = row] \in Seq(Rows) /\ Len([rows EXCEPT ![i] = row]) = Len(rows)
      BY <2>2, <3>1, Rewritten
    <3>3. QED
      BY <3>1, <3>2
  <2>5. QED
    <3>1. PICK rows : rows = [a.rows EXCEPT ![WriteSlot(a)] = row]
      OBVIOUS
    <3>2. attn' = [a EXCEPT !.rows = rows, !.done = a.done + 1] /\ rows \in Seq(Rows) /\ Len(rows) \in {0, 2}
      BY <2>2, <2>3, <2>4, <3>1
    <3>3. /\ a.nkb \in Int /\ a.phase \in {0, 1} /\ a.calls \in Nat /\ a.done + 1 \in Nat
          /\ a = [rows |-> a.rows, nkb |-> a.nkb, phase |-> a.phase, calls |-> a.calls, done |-> a.done]
      BY <2>2 DEF Objects942
    <3>4. attn' = [rows |-> rows, nkb |-> a.nkb, phase |-> a.phase, calls |-> a.calls, done |-> a.done + 1]
      BY <3>2, <3>3
    <3>5. QED
      BY <3>2, <3>3, <3>4 DEF Objects942
<1>6. pc' = [pc EXCEPT ![w] = "store"]
  BY DEF Finish, Goto
<1>7. Shapes' /\ RecFine'
  BY <1>2, <1>4, <1>5, <1>6 DEF Shapes, RecFine, Finish, Places
<1>8. PlaceIn(stage, s, w)' /\ TakesA(stage, s, w)'
  <2>1. Sums(w, Steps, Steps)'
    BY <1>2 DEF Sums, Took, Steps, Finish
  <2>2. QED
    BY <1>2, <1>6, <2>1 DEF PlaceIn, TakesA, Shapes
<1>9. /\ \A x \in Waves \ {w} : pc'[x] = pc[x] /\ step'[x] = step[x] /\ reg'[x] = reg[x] /\ vote'[x] = vote[x]
      /\ said' = said /\ pc'[w] # "idle" /\ pc[w] # "idle" /\ launch' = launch
      /\ \A x \in GroupB \ {w} : dma'[x] = dma[x] /\ k'[x] = k[x]
  BY <1>2, <1>6 DEF Finish, Shapes
<1>10. Running(stage, s)'
  BY <1>1, <1>2, <1>8, <1>9, StepOfOne
<1>11. QED
  BY <1>1, <1>7, <1>9, <1>10, KeepsRunning

(* A wave ends, and with the last one the CTA.                             *)
LEMMA StoreKeeps ==
  ASSUME Inv, NEW w \in Waves, Store(w)
  PROVE  Inv'
<1>1. PICK stage \in Stages, s \in Int : Running(stage, s)
  BY WaveRuns DEF Store
<1>2. /\ stage \in {"last", "out"} /\ Shapes /\ RecFine /\ LaunchFine /\ launch = NoLaunch
      /\ \A u \in GroupB : dma[u] = <<>>
      /\ PlaceIn(stage, s, w) /\ pc[w] = "store"
  BY <1>1, WaveRuns DEF Running, PlaceIn, KeysIn, Store, Inv
<1>3. NoReg \in Registers942
  BY DEF NoReg, Registers942, NoBlock, Ints
<1>4. /\ pc' = [pc EXCEPT ![w] = "idle"] /\ reg' = [reg EXCEPT ![w] = NoReg] /\ step' = [step EXCEPT ![w] = 0]
      /\ attn' = attn /\ launch' = launch /\ dma' = dma
  BY DEF Store, Goto
<1>5. CASE \A u \in Waves \ {w} : pc[u] = "idle"
  <2>1. cta' = NoCall /\ said' = <<>> /\ rec' = NoRec /\ k' = NoK /\ vote' = NoVotes(FALSE)
    BY <1>5 DEF Store
  <2>2. k' \in [GroupB -> [Ring -> Int]] /\ vote' \in [Waves -> [Ring -> BOOLEAN]]
    BY <2>1 DEF NoK, NoVotes, NoBlock
  <2>3. cta'.walk \in Ints /\ cta'.lite \in BOOLEAN /\ cta'.dir \in {Asc, Desc} /\ said' \in Seq(SUBSET Waves)
    BY <2>1 DEF NoCall, Ints
  <2>4. Shapes'
    <3>1. /\ pc' \in [Waves -> Places] /\ step' \in [Waves -> Int] /\ reg' \in [Waves -> Registers942]
          /\ dma' \in [GroupB -> Seq([block : Int, buf : Ring])]
      BY <1>2, <1>3, <1>4 DEF Shapes, Places
    <3>2. attn' \in Objects942 /\ Len(attn'.rows) \in {0, 2}
      BY <1>2, <1>4 DEF Shapes
    <3>3. QED
      BY <2>2, <2>3, <3>1, <3>2 DEF Shapes
  <2>5. RecFine'
    <3>1. rec'.list = NoRecord
      BY <2>1 DEF NoRec
    <3>2. ListFine(NoRecord)
      <4>1. NoRecord.out = <<>> /\ NoRecord.skip = TRUE
        BY DEF NoRecord
      <4>2. <<>> \in Ints /\ Len(<<>>) % 2 = 0
        BY DEF Ints
      <4>3. QED
        BY <4>1, <4>2, Zenon DEF ListFine
    <3>3. QED
      BY <3>1, <3>2 DEF RecFine
  <2>6. AtRest'
    BY <1>2, <1>4, <1>5 DEF AtRest, Idle, Shapes
  <2>7. QED
    BY <1>2, <1>4, <2>4, <2>5, <2>6 DEF Inv, LaunchFine
<1>6. CASE \E u \in Waves \ {w} : pc[u] # "idle"
  <2>1. UNCHANGED <<cta, said, rec, k, vote>>
    BY <1>6 DEF Store
  <2>2. Shapes' /\ RecFine'
    BY <1>2, <1>3, <1>4, <2>1 DEF Shapes, Places, RecFine
  <2>3. PlaceIn(stage, s, w)' /\ TakesA(stage, s, w)' /\ TakesB(stage, s, w)'
    <3>1. pc'[w] = "idle" /\ cta' = cta
      BY <1>2, <1>4, <2>1 DEF Shapes
    <3>2. QED
      BY <1>2, <3>1 DEF PlaceIn, TakesA, TakesB
  <2>4. w \in GroupB => KeysIn(stage, s, w)'
    BY <1>2, <1>4 DEF KeysIn
  <2>5. /\ \A x \in Waves \ {w} : pc'[x] = pc[x] /\ step'[x] = step[x] /\ reg'[x] = reg[x] /\ vote'[x] = vote[x]
        /\ said' = said /\ cta' = cta
        /\ \A x \in GroupB \ {w} : dma'[x] = dma[x] /\ k'[x] = k[x]
    BY <1>2, <1>4, <2>1 DEF Shapes
  <2>6. Running(stage, s)'
    BY <1>1, <1>2, <2>3, <2>4, <2>5, StepOfOne
  <2>7. ~Idle'
    BY <1>6, <2>5 DEF Idle
  <2>8. QED
    BY <1>2, <1>4, <2>2, <2>6, <2>7 DEF Inv, LaunchFine
<1>7. QED
  BY <1>5, <1>6

(* A block of K lands in its half of lds_k, of the next step.              *)
LEMMA LandKeeps ==
  ASSUME Inv, NEW w \in GroupB, Land(w)
  PROVE  Inv'
<1>1. PICK stage \in Stages, s \in Int : Running(stage, s)
  BY DEF Inv, AtRest, Land
<1>2. /\ Shapes /\ RecFine /\ w \in Waves /\ ~Idle /\ launch = NoLaunch
      /\ KeysIn(stage, s, w) /\ StageOf(stage, s) /\ cta.walk # <<>> /\ dma[w] # <<>>
  BY <1>1 DEF Inv, Running, Waves, AtRest, Land, LaunchFine
<1> DEFINE load == [block |-> At(s + 1), buf |-> KBuf(s + 1)]
<1>3. /\ stage \in {"load", "first", "second"} /\ pc[w] \in {"wait_mid", "half2", "drain"}
      /\ s + 1 < Steps /\ dma[w] = <<load>> /\ (stage \in {"first", "second"} => k[w][KBuf(s)] = At(s))
  BY <1>2 DEF KeysIn, Comes, Landed, Here
<1>4. Head(dma[w]).block = At(s + 1) /\ Head(dma[w]).buf = KBuf(s + 1) /\ Tail(dma[w]) = <<>>
  <2>1. Head(<<load>>) = load /\ Tail(<<load>>) = <<>>
    OBVIOUS
  <2>2. QED
    BY <1>3, <2>1
<1>5. /\ s \in Int /\ s + 1 \in 0 .. Steps - 1 /\ At(s + 1) \in Int
      /\ KBuf(s + 1) \in Ring /\ KBuf(s) # KBuf(s + 1)
  <2>1. Steps \in Nat /\ s + 1 \in 0 .. Steps - 1
    BY <1>2, <1>3, WalkBlocks DEF StageOf
  <2>2. At(s + 1) \in Int
    BY <1>2, <2>1, WalkBlocks
  <2>3. QED
    BY <2>1, <2>2, Buffers
<1>6. k' = [k EXCEPT ![w][KBuf(s + 1)] = At(s + 1)] /\ dma' = [dma EXCEPT ![w] = <<>>]
  BY <1>4 DEF Land
<1>7. /\ k' \in [GroupB -> [Ring -> Int]] /\ dma' \in [GroupB -> Seq([block : Int, buf : Ring])]
      /\ dma'[w] = <<>> /\ k'[w][KBuf(s + 1)] = At(s + 1)
      /\ stage \in {"first", "second"} => k'[w][KBuf(s)] = At(s)
      /\ \A x \in GroupB \ {w} : dma'[x] = dma[x] /\ k'[x] = k[x]
  <2>1. k \in [GroupB -> [Ring -> Int]] /\ dma \in [GroupB -> Seq([block : Int, buf : Ring])]
    BY <1>2 DEF Shapes
  <2>2. PICK b, n : b = KBuf(s + 1) /\ n = At(s + 1)
    OBVIOUS
  <2>3. k' = [k EXCEPT ![w] = [k[w] EXCEPT ![b] = n]] /\ b \in Ring /\ n \in Int /\ k[w] \in [Ring -> Int]
    BY <1>5, <1>6, <2>1, <2>2
  <2>4. [k[w] EXCEPT ![b] = n] \in [Ring -> Int] /\ k'[w] = [k[w] EXCEPT ![b] = n]
    BY <2>1, <2>3
  <2>5. k' \in [GroupB -> [Ring -> Int]] /\ \A x \in GroupB \ {w} : k'[x] = k[x]
    BY <2>1, <2>3, <2>4
  <2>6. k'[w][b] = n /\ (KBuf(s) \in Ring => k'[w][KBuf(s)] = k[w][KBuf(s)])
    BY <1>5, <2>2, <2>3, <2>4
  <2>7. /\ dma' \in [GroupB -> Seq([block : Int, buf : Ring])] /\ dma'[w] = <<>>
        /\ \A x \in GroupB \ {w} : dma'[x] = dma[x]
    <3> DEFINE L == [block : Int, buf : Ring]
    <3>1. dma \in [GroupB -> Seq(L)]
      BY <2>1
    <3> HIDE DEF L
    <3>2. dma' \in [GroupB -> Seq(L)] /\ dma'[w] = <<>> /\ \A x \in GroupB \ {w} : dma'[x] = dma[x]
      BY <1>6, <3>1
    <3>3. QED
      BY <3>2 DEF L
  <2>8. KBuf(s) \in Ring
    BY Buffers
  <2>9. QED
    BY <1>3, <2>2, <2>5, <2>6, <2>7, <2>8
<1>8. Shapes' /\ RecFine'
  BY <1>2, <1>7 DEF Shapes, RecFine, Land
<1>9. PlaceIn(stage, s, w)' /\ (w \in GroupA => TakesA(stage, s, w)') /\ TakesB(stage, s, w)'
  <2>1. PlaceIn(stage, s, w) /\ TakesB(stage, s, w) /\ w \notin GroupA
    BY <1>1, <1>2, WavesAssumption DEF Running
  <2>2. TakesB(stage, s, w)'
    BY <1>2, <2>1, TakesStay DEF Land
  <2>3. PlaceIn(stage, s, w)'
    BY <2>1 DEF PlaceIn, Land
  <2>4. QED
    BY <2>1, <2>2, <2>3
<1>10. KeysIn(stage, s, w)'
  <2>1. cta' = cta /\ pc' = pc
    BY DEF Land
  <2>2. Comes(w, s + 1)'
    BY <1>3, <1>7, <2>1 DEF Comes, Here, At, KBuf, Steps
  <2>3. stage \in {"first", "second"} => (k[w][KBuf(s)] = At(s))'
    BY <1>7, <2>1 DEF At, KBuf
  <2>4. QED
    BY <1>3, <2>1, <2>2, <2>3 DEF KeysIn
<1>11. Running(stage, s)'
  <2>1. /\ \A x \in Waves \ {w} : pc'[x] = pc[x] /\ step'[x] = step[x] /\ reg'[x] = reg[x] /\ vote'[x] = vote[x]
        /\ said' = said /\ cta' = cta
    BY DEF Land
  <2>2. QED
    BY <1>1, <1>2, <1>7, <1>9, <1>10, <2>1, StepOfOne
<1>12. QED
  BY <1>1, <1>2, <1>8, <1>11 DEF Inv, LaunchFine, Idle, Land

(* A barrier takes all waves to the next stage at once.                    *)
NextStage(stage, s) ==
  CASE stage = "load" -> <<IF s + 1 < Steps THEN "first" ELSE "last", s + 1>>
    [] stage = "first" -> <<"second", s>>
    [] stage = "second" -> <<IF s + 1 < Steps THEN "first" ELSE "last", s + 1>>
    [] stage = "last" -> <<"out", s>>
    [] OTHER -> <<stage, s>>

LEMMA Released ==
  ASSUME Inv, Release, NEW stage \in Stages, NEW s \in Int, Running(stage, s), NEW w \in Waves
  PROVE  /\ stage # "out" /\ (stage = "last" => cta.lite)
         /\ pc[w] = CASE stage = "first" -> "wait_mid" [] stage = "last" -> "wait_last" [] OTHER -> "wait_end"
         /\ step[w] \in Int /\ (stage # "last" => step[w] = s)
         /\ pc'[w] = AfterBarrier(w)[1] /\ step'[w] = AfterBarrier(w)[2]
         /\ reg'[w] = reg[w] /\ vote'[w] = vote[w]
<1>1. PICK held \in Waves : pc[held] \in AtBarrier
  BY DEF Release
<1>2. \A x \in Waves : PlaceIn(stage, s, x) /\ pc[x] \in AtBarrier \cup {"idle"}
  BY DEF Running, Release
<1>3. stage # "out" /\ (stage = "last" => cta.lite)
  BY <1>1, <1>2 DEF PlaceIn, AtBarrier
<1>4. pc[w] = CASE stage = "first" -> "wait_mid" [] stage = "last" -> "wait_last" [] OTHER -> "wait_end"
  BY <1>2, <1>3 DEF PlaceIn, AtBarrier
<1>5. step[w] \in Int /\ (stage # "last" => step[w] = s)
  BY <1>2, <1>3 DEF PlaceIn, Inv, Shapes
<1>6. QED
  BY <1>3, <1>4, <1>5 DEF Release

LEMMA ReleaseKeeps ==
  ASSUME Inv, Release
  PROVE  Inv'
<1>1. PICK held \in Waves : pc[held] \in AtBarrier
  BY DEF Release
<1>2. PICK stage \in Stages, s \in Int : Running(stage, s)
  BY <1>1, WaveRuns DEF AtBarrier
<1>3. /\ Shapes /\ RecFine /\ launch = NoLaunch /\ StageOf(stage, s) /\ cta.walk # <<>>
      /\ Len(said) = Steps /\ (~cta.lite => \A j \in 1 .. Steps : said[j] = {})
      /\ stage # "out" /\ (stage = "last" => cta.lite)
  BY <1>1, <1>2, WaveRuns, Released DEF Running, Inv, AtBarrier
<1>4. PICK N \in Nat : N = Steps /\ N = Steps' /\ N # 0
  BY <1>3 DEF Release, Steps, Shapes, Ints
<1>5. PICK next \in Stages, t \in Int : NextStage(stage, s) = <<next, t>>
  BY <1>3 DEF NextStage, StageOf, Stages
<1>6. /\ StageOf(next, t) /\ next # "load" /\ StageOf(next, t)'
      /\ next = "first" => /\ t = s + 1 /\ t \in 0 .. N - 1 /\ t \in 0 .. N
                           /\ \/ stage = "load" /\ t = 0
                              \/ stage = "second" /\ s = t - 1 /\ t # 0 /\ s \in 0 .. N - 1
      /\ next = "second" => stage = "first" /\ t = s /\ t \in 0 .. N - 1 /\ t \in 0 .. N
      /\ next = "last" => stage = "second" /\ s = N - 1 /\ t = N /\ s \in 0 .. N - 1 /\ s + 1 = N
      /\ next = "out" => stage = "last" /\ t = N /\ s = N
  <2>1. Steps' = Steps
    BY <1>4
  <2>2. \/ stage = "load" /\ s = -1 /\ next = "first" /\ t = 0
        \/ stage = "first" /\ s \in 0 .. N - 1 /\ next = "second" /\ t = s
        \/ stage = "second" /\ s \in 0 .. N - 1 /\ s + 1 < N /\ next = "first" /\ t = s + 1
        \/ stage = "second" /\ s \in 0 .. N - 1 /\ s + 1 = N /\ next = "last" /\ t = s + 1
        \/ stage = "last" /\ s = N /\ next = "out" /\ t = s
    BY <1>3, <1>4, <1>5 DEF NextStage, StageOf, Stages
  <2>3. QED
    BY <1>4, <2>1, <2>2 DEF StageOf, Stages
<1>7. /\ cta' = cta /\ said' = said /\ launch' = launch /\ rec' = rec /\ dma' = dma /\ k' = k
      /\ attn' = attn /\ vote' = vote /\ reg' = reg
      /\ pc' = [w \in Waves |-> AfterBarrier(w)[1]] /\ step' = [w \in Waves |-> AfterBarrier(w)[2]]
  BY DEF Release
<1>8. ASSUME NEW w \in Waves
      PROVE  /\ pc'[w] = CASE next = "first" -> "half1" [] next = "second" -> "half2" [] next = "last" -> "epilogue"
                            [] OTHER -> IF w = Wave0 THEN "flush" ELSE "store"
             /\ step'[w] \in Int /\ (next \in {"first", "second"} => step'[w] = t)
             /\ pc[w] = CASE stage = "first" -> "wait_mid" [] stage = "last" -> "wait_last" [] OTHER -> "wait_end"
  <2>1. /\ pc[w] = CASE stage = "first" -> "wait_mid" [] stage = "last" -> "wait_last" [] OTHER -> "wait_end"
        /\ step[w] \in Int /\ (stage # "last" => step[w] = s)
        /\ pc'[w] = AfterBarrier(w)[1] /\ step'[w] = AfterBarrier(w)[2]
    BY <1>2, Released
  <2>2. AfterBarrier(w) =
          IF stage = "first" THEN <<"half2", step[w]>>
          ELSE IF stage = "last" THEN <<IF w = Wave0 THEN "flush" ELSE "store", step[w]>>
          ELSE <<IF step[w] + 1 < Steps THEN "half1" ELSE "epilogue", step[w] + 1>>
    BY <2>1 DEF AfterBarrier
  <2>3. CASE next = "first"
    <3>1. stage \in {"load", "second"} /\ step[w] + 1 = t /\ t < Steps
      BY <1>4, <1>6, <2>1, <2>3
    <3>2. AfterBarrier(w) = <<"half1", t>>
      BY <2>2, <3>1
    <3>3. QED
      BY <2>1, <2>3, <3>1, <3>2
  <2>4. CASE next = "second"
    BY <1>6, <2>1, <2>2, <2>4
  <2>5. CASE next = "last"
    <3>1. stage = "second" /\ ~(step[w] + 1 < Steps) /\ step[w] + 1 \in Int
      BY <1>4, <1>6, <2>1, <2>5
    <3>2. AfterBarrier(w) = <<"epilogue", step[w] + 1>>
      BY <2>2, <3>1
    <3>3. QED
      BY <2>1, <2>5, <3>1, <3>2
  <2>6. CASE next = "out"
    BY <1>6, <2>1, <2>2, <2>6
  <2>7. QED
    BY <1>6, <2>3, <2>4, <2>5, <2>6 DEF Stages
<1>9. \A w \in Waves : PlaceIn(next, t, w)' /\ pc'[w] \in Places /\ pc'[w] # "idle"
  BY <1>3, <1>6, <1>7, <1>8, WavesAssumption DEF PlaceIn, Places, Stages
<1>10. Shapes' /\ RecFine'
  <2>1. pc' \in [Waves -> Places] /\ step' \in [Waves -> Int]
    BY <1>7, <1>8, <1>9
  <2>2. QED
    BY <1>3, <1>7, <2>1 DEF Shapes, RecFine
<1>11. ASSUME NEW w \in Waves
       PROVE  /\ \A m, n \in 0 .. N : Sums(w, m, n) => Sums(w, m, n)'
              /\ \A n \in 0 .. N : Owes(w, n) => Owes(w, n)'
              /\ \A n \in 0 .. N - 1 : Scored(w, n) => Scored(w, n)'
  BY <1>3, <1>4, <1>7, SumsStay
<1>12. 0 \in 0 .. N /\ N \in 0 .. N
  BY <1>4
<1>13. ASSUME NEW w \in GroupA PROVE TakesA(next, t, w)'
  <2>1. w \in Waves /\ TakesA(stage, s, w)
    BY <1>2 DEF Running, Waves
  <2>2. CASE next = "first"
    <3>1. Owes(w, t)'
      BY <1>6, <1>8, <1>11, <1>12, <2>1, <2>2 DEF TakesA, Owes
    <3>2. QED
      BY <1>8, <2>1, <2>2, <3>1 DEF TakesA
  <2>3. CASE next = "second"
    <3>1. Scored(w, t)'
      BY <1>6, <1>8, <1>11, <2>1, <2>3 DEF TakesA
    <3>2. QED
      BY <1>8, <2>1, <2>3, <3>1 DEF TakesA
  <2>4. CASE next = "last"
    <3>1. Owes(w, N)'
      BY <1>6, <1>8, <1>11, <1>12, <2>1, <2>4 DEF TakesA
    <3>2. QED
      BY <1>4, <1>8, <2>1, <2>4, <3>1 DEF TakesA
  <2>5. CASE next = "out"
    <3>1. Sums(w, N, N)'
      BY <1>4, <1>6, <1>8, <1>11, <1>12, <2>1, <2>5 DEF TakesA
    <3>2. QED
      BY <1>4, <1>8, <2>1, <2>5, <3>1 DEF TakesA
  <2>6. QED
    BY <1>6, <2>2, <2>3, <2>4, <2>5 DEF Stages
<1>14. ASSUME NEW w \in GroupB PROVE TakesB(next, t, w)'
  <2>1. w \in Waves /\ TakesB(stage, s, w) /\ w # Wave0
    BY <1>2, WavesAssumption DEF Running, Waves
  <2>2. CASE next = "first"
    <3>1. IF t = 0 THEN Sums(w, 0, 0)' ELSE Scored(w, t - 1)'
      BY <1>6, <1>8, <1>11, <1>12, <2>1, <2>2 DEF TakesB
    <3>2. QED
      BY <1>8, <2>1, <2>2, <3>1 DEF TakesB
  <2>3. CASE next = "second"
    <3>1. Owes(w, t)'
      BY <1>6, <1>8, <1>11, <2>1, <2>3 DEF TakesB
    <3>2. QED
      BY <1>8, <2>1, <2>3, <3>1 DEF TakesB
  <2>4. CASE next = "last"
    <3>1. Scored(w, N - 1)'
      BY <1>6, <1>8, <1>11, <2>1, <2>4 DEF TakesB
    <3>2. QED
      BY <1>4, <1>8, <2>1, <2>4, <3>1 DEF TakesB
  <2>5. CASE next = "out"
    <3>1. Sums(w, N, N)'
      BY <1>4, <1>6, <1>8, <1>11, <1>12, <2>1, <2>5 DEF TakesB
    <3>2. QED
      BY <1>4, <1>8, <2>1, <2>5, <3>1 DEF TakesB
  <2>6. QED
    BY <1>6, <2>2, <2>3, <2>4, <2>5 DEF Stages
<1>15. ASSUME NEW u \in GroupB PROVE KeysIn(next, t, u)'
  <2>1. u \in Waves /\ KeysIn(stage, s, u)
    BY <1>2 DEF Running, Waves
  <2>2. \A n : (Here(u, n) => Here(u, n)') /\ (Comes(u, n) => Comes(u, n)')
    BY <1>4, <1>7 DEF Here, Comes, At, KBuf
  <2>3. CASE next = "first"
    <3>1. Landed(u, s + 1) /\ t = s + 1 /\ t < Steps
      BY <1>4, <1>6, <1>8, <2>1, <2>3 DEF KeysIn
    <3>2. dma[u] = <<>> /\ k[u][KBuf(t)] = At(t)
      BY <3>1 DEF Landed, Here
    <3>3. dma'[u] = <<>> /\ (k[u][KBuf(t)] = At(t))'
      BY <1>7, <3>2 DEF At, KBuf
    <3>4. QED
      BY <1>8, <2>1, <2>3, <3>3 DEF KeysIn
  <2>4. CASE next = "second"
    <3>1. k[u][KBuf(s)] = At(s) /\ Comes(u, s + 1) /\ t = s
      BY <1>6, <1>8, <2>1, <2>4 DEF KeysIn
    <3>2. (k[u][KBuf(t)] = At(t))' /\ Comes(u, t + 1)'
      BY <1>7, <2>2, <3>1 DEF At, KBuf
    <3>3. QED
      BY <1>8, <2>1, <2>4, <3>2 DEF KeysIn
  <2>5. CASE next \in {"last", "out"}
    <3>1. dma[u] = <<>>
      BY <1>4, <1>6, <1>8, <2>1, <2>5 DEF KeysIn, Landed
    <3>2. QED
      BY <1>7, <2>5, <3>1 DEF KeysIn
  <2>6. QED
    BY <1>6, <2>3, <2>4, <2>5 DEF Stages
<1>16. Running(next, t)'
  BY <1>3, <1>4, <1>6, <1>7, <1>9, <1>13, <1>14, <1>15 DEF Running
<1>17. QED
  BY <1>1, <1>3, <1>7, <1>9, <1>10, <1>16, KeepsRunning DEF AtBarrier

-----------------------------------------------------------------------------
(* A walk is blocks, and not empty.  First the dense call's: a part starts *)
(* within the head's blocks, for it has MinBlocksPerPart of them or more.  *)
LEMMA Division942 ==
  ASSUME NEW x \in Int, NEW y \in Nat \ {0}
  PROVE  /\ x \div y \in Int /\ x % y \in 0 .. y - 1
         /\ x = (x \div y) * y + (x % y)
OBVIOUS

LEMMA DivisionAtLeast ==
  ASSUME NEW x \in Int, NEW y \in Nat \ {0}
  PROVE  (x >= 0 => x \div y >= 0) /\ (x >= y => x \div y >= 1) /\ (x \div y >= 1 => x >= y)
<1>1. PICK q \in Int, r \in 0 .. y - 1 : q = x \div y /\ x = q * y + r
  BY Division942
<1>2. q >= 1 => q * y >= y
  OBVIOUS
<1>3. q <= -1 => q * y <= -y
  OBVIOUS
<1>4. q = 0 => q * y = 0
  OBVIOUS
<1>5. PICK p \in Int : p = q * y
  OBVIOUS
<1>6. QED
  BY <1>1, <1>2, <1>3, <1>4, <1>5

LEMMA CeilOf ==
  ASSUME NEW x \in Nat, NEW y \in Nat \ {0}
  PROVE  Ceil(x, y) \in Nat /\ (x # 0 => Ceil(x, y) >= 1)
BY Division942, DivisionAtLeast DEF Ceil

LEMMA StrideWalks ==
  ASSUME NEW first \in Nat, NEW by \in Nat \ {0}, NEW nkb \in Nat, first < nkb
  PROVE  Stride(first, by, nkb) \in Ints /\ Stride(first, by, nkb) # <<>>
<1>1. PICK n \in Nat : n = Ceil(nkb - first, by) /\ n >= 1
  BY CeilOf
<1>2. \A i \in 1 .. n : (i - 1) * by \in Int
  OBVIOUS
<1>3. Stride(first, by, nkb) = [i \in 1 .. n |-> first + (i - 1) * by]
  BY <1>1 DEF Stride
<1>4. Stride(first, by, nkb) \in Seq(Int) /\ Len(Stride(first, by, nkb)) = n
  BY <1>2, <1>3
<1>5. QED
  BY <1>1, <1>4 DEF Ints

LEMMA BestIsTried ==
  ASSUME NEW tail \in Nat \ {0}, NEW nkb \in Nat
  PROVE  Best(tail, nkb) \in Splits(tail, nkb) \cup {1}
<1> DEFINE gs == Splits(tail, nkb) \cup {1}
           spans == {Span(tail, nkb, g) : g \in gs}
<1>1. gs \subseteq Nat \ {0}
  BY DEF Splits
<1>2. ASSUME NEW g \in gs PROVE Span(tail, nkb, g) \in Nat
  <2>1. g \in Nat \ {0} /\ tail * g \in Nat
    BY <1>1
  <2>2. PICK a \in Nat, b \in Nat : a = Ceil(tail * g, NumCUs) /\ b = Ceil(nkb, g)
    BY <2>1, CeilOf, TailSplitAssumption
  <2>3. a * b \in Nat /\ MergeCostBlocks \in Nat
    BY TailSplitAssumption
  <2>4. QED
    BY <2>2, <2>3 DEF Span
<1>3. PICK least \in spans : \A x \in spans : least <= x
  <2>1. spans \subseteq Nat /\ spans # {}
    BY <1>2
  <2>2. QED
    BY <2>1, LeastNatural
<1> DEFINE of == {g \in gs : Span(tail, nkb, g) = least}
<1>4. PICK g \in of : \A h \in of : g <= h
  <2>1. of \subseteq Nat /\ of # {}
    BY <1>1, <1>3
  <2>2. QED
    BY <2>1, LeastNatural
<1>5. \A h \in gs : Span(tail, nkb, g) < Span(tail, nkb, h)
                    \/ (Span(tail, nkb, g) = Span(tail, nkb, h) /\ g <= h)
  <2> TAKE h \in gs
  <2>1. Span(tail, nkb, g) = least /\ least <= Span(tail, nkb, h) /\ least \in Nat /\ Span(tail, nkb, h) \in Nat
    BY <1>2, <1>3, <1>4
  <2>2. CASE Span(tail, nkb, h) = least
    BY <1>4, <2>1, <2>2
  <2>3. CASE Span(tail, nkb, h) # least
    BY <2>1, <2>3
  <2>4. QED
    BY <2>2, <2>3
<1>6. g \in gs
  BY <1>4
<1>7. QED
  BY <1>5, <1>6 DEF Best

LEMMA ItemsWalk ==
  ASSUME NEW nqb \in Nat, NEW bh \in Nat, NEW nkb \in Nat \ {0}, NEW enable \in BOOLEAN,
         NEW x \in Items(Plan(nqb, bh, nkb, enable))
  PROVE  x[3].walk \in Ints /\ x[3].walk # <<>>
<1> DEFINE p == Plan(nqb, bh, nkb, enable)
<1>1. PICK tail, g : /\ tail = TailOf(nqb * bh, nkb, enable) /\ g = (IF tail = 0 THEN 1 ELSE Best(tail, nkb))
                     /\ p.tail = tail /\ p.ways = g /\ p.nkb = nkb /\ p.parts = IF tail = 0 THEN 0 ELSE tail * g
  BY DEF Plan
<1>2. CASE \E c \in 0 .. p.prefix - 1 : x = <<"prefix", c, PrefixItem(p, c)>>
  <2>1. x[3].walk = Stride(0, 1, nkb)
    BY <1>1, <1>2 DEF PrefixItem
  <2>2. 0 \in Nat /\ 1 \in Nat \ {0} /\ nkb \in Nat /\ 0 < nkb
    OBVIOUS
  <2>3. Stride(0, 1, nkb) \in Ints /\ Stride(0, 1, nkb) # <<>>
    BY <2>2, StrideWalks
  <2>4. QED
    BY <2>1, <2>3
<1>3. CASE \E c \in 0 .. p.parts - 1 : x = <<"part", c, PartItem(p, c)>>
  <2>1. PICK c \in 0 .. p.parts - 1 : x[3].walk = Stride(c % g, g, nkb)
    BY <1>1, <1>3 DEF PartItem, PartFirst
  <2>2. tail # 0 /\ tail \in Nat /\ Best(tail, nkb) # 1 /\ g = Best(tail, nkb)
    <3>1. tail # 0 /\ g = Best(tail, nkb)
      BY <1>1, <2>1
    <3>2. PICK n \in Nat : n = nqb * bh
      OBVIOUS
    <3>3. n % NumCUs \in Nat
      <4>1. NumCUs \in Nat \ {0} /\ n \in Int
        BY TailSplitAssumption
      <4>2. n % NumCUs \in 0 .. NumCUs - 1
        BY <4>1, Division942
      <4>3. QED
        BY <4>1, <4>2
    <3>4. QED
      BY <1>1, <3>1, <3>2, <3>3 DEF TailOf
  <2>3. g \in Splits(tail, nkb)
    BY <2>2, BestIsTried
  <2>4. g \in Nat \ {0} /\ nkb \div g >= MinBlocksPerPart /\ MinBlocksPerPart \in Nat \ {0}
    BY <2>3, TailSplitAssumption DEF Splits
  <2>5. nkb >= g
    BY <2>4, DivisionAtLeast
  <2>6. c \in Int /\ c % g \in Nat /\ c % g < nkb
    <3>1. c \in Int
      OBVIOUS
    <3>2. c % g \in 0 .. g - 1
      BY <2>4, <3>1, Division942
    <3>3. QED
      BY <2>4, <2>5, <3>2
  <2>7. QED
    BY <2>1, <2>4, <2>6, StrideWalks
<1>4. QED
  BY <1>2, <1>3 DEF Items

(* Then a lite call's: the ranges of a row, one after another.             *)
(* FlattenSeq, a sequence at a time.                                       *)
LEMMA Flattening ==
  ASSUME NEW seqs, NEW N \in Nat \ {0}, Len(seqs) = N
  PROVE  \E f : /\ \A n \in 1 .. N : f[n] = IF n = 1 THEN seqs[n] ELSE f[n - 1] \o seqs[n]
                /\ FlattenSeq(seqs) = f[N]
<1> DEFINE Is(f, i) == IF i = 1 THEN seqs[i] ELSE f[i - 1] \o seqs[i]
           Good(f, n) == f = [i \in 1 .. n |-> Is(f, i)]
           bad == {n \in 1 .. N : ~ \E f : Good(f, n)}
<1>1. bad = {}
  <2> SUFFICES ASSUME bad # {} PROVE FALSE
    OBVIOUS
  <2>1. PICK n \in bad : \A y \in bad : n <= y
    <3> HIDE DEF Good
    <3>1. bad \subseteq Nat
      OBVIOUS
    <3> HIDE DEF bad
    <3>2. QED
      BY <3>1, LeastNatural
  <2>2. CASE n = 1
    <3> DEFINE f == [i \in 1 .. 1 |-> seqs[1]]
    <3>1. Good(f, 1)
      BY SMT
    <3>2. QED
      BY <2>1, <2>2, <3>1
  <2>3. CASE n # 1
    <3>1. n \in Nat /\ n - 1 \in Nat /\ n - 1 \notin bad /\ n - 1 \in 1 .. N
      <4> HIDE DEF Good
      <4>1. n \in Nat /\ n - 1 \in Nat /\ ~(n <= n - 1) /\ n - 1 \in 1 .. N
        BY <2>3
      <4> HIDE DEF bad
      <4>2. QED
        BY <2>1, <4>1
    <3>2. PICK f : Good(f, n - 1)
      BY <3>1
    <3> DEFINE u == [i \in 1 .. n |-> IF i = n THEN f[n - 1] \o seqs[n] ELSE f[i]]
    <3>3. Good(u, n)
      <4>1. ASSUME NEW i \in 1 .. n PROVE u[i] = Is(u, i)
        <5>1. CASE i = n
          <6>1. n - 1 \in 1 .. n /\ n - 1 # n
            BY <3>1
          <6>2. u[n] = f[n - 1] \o seqs[n] /\ u[n - 1] = f[n - 1]
            BY <3>1, <6>1
          <6>3. QED
            BY <2>3, <5>1, <6>2
        <5>2. CASE i # n
          <6>0. i \in 1 .. n - 1 /\ u[i] = f[i]
            BY <3>1, <5>2
          <6>1. f[i] = Is(f, i)
            BY <3>2, <6>0
          <6>2. i # 1 => i - 1 \in 1 .. n /\ i - 1 # n
            BY <3>1, <5>2
          <6>3. QED
            BY <6>0, <6>1, <6>2
        <5>3. QED
          BY <5>1, <5>2
      <4> QED
        BY <4>1
    <3>4. QED
      BY <2>1, <3>3
  <2>4. QED
    BY <2>2, <2>3
<1> DEFINE all == CHOOSE f : f = [i \in 1 .. Len(seqs) |-> IF i = 1 THEN seqs[i] ELSE f[i - 1] \o seqs[i]]
<1>2. \E f : f = [i \in 1 .. Len(seqs) |-> IF i = 1 THEN seqs[i] ELSE f[i - 1] \o seqs[i]]
  <2>1. \E f : Good(f, N)
    <3> HIDE DEF Good
    <3>1. N \in 1 .. N
      OBVIOUS
    <3>2. QED
      BY <1>1, <3>1
  <2>2. QED
    BY <2>1
<1>3. all = [i \in 1 .. Len(seqs) |-> IF i = 1 THEN seqs[i] ELSE all[i - 1] \o seqs[i]]
  BY <1>2
<1>4. FlattenSeq(seqs) = all[N]
  BY DEF FlattenSeq
<1> HIDE DEF all
<1>5. \A n \in 1 .. N : all[n] = IF n = 1 THEN seqs[n] ELSE all[n - 1] \o seqs[n]
  BY <1>3
<1>6. QED
  BY <1>4, <1>5

LEMMA FlattenWalks ==
  ASSUME NEW seqs, NEW N \in Nat \ {0}, Len(seqs) = N,
         \A i \in 1 .. N : seqs[i] \in Ints /\ seqs[i] # <<>>
  PROVE  FlattenSeq(seqs) \in Ints /\ FlattenSeq(seqs) # <<>>
<1>4. PICK all : /\ \A n \in 1 .. N : all[n] = IF n = 1 THEN seqs[n] ELSE all[n - 1] \o seqs[n]
                 /\ FlattenSeq(seqs) = all[N]
  BY Flattening, Zenon
<1>5. \A n \in 1 .. N : all[n] = IF n = 1 THEN seqs[n] ELSE all[n - 1] \o seqs[n]
  BY <1>4
<1> DEFINE odd == {n \in 1 .. N : ~(all[n] \in Ints /\ all[n] # <<>>)}
<1>6. odd = {}
  <2> SUFFICES ASSUME odd # {} PROVE FALSE
    OBVIOUS
  <2>1. PICK n \in odd : \A y \in odd : n <= y
    BY LeastNatural, odd \subseteq Nat
  <2>2. n \in 1 .. N /\ ~(all[n] \in Ints /\ all[n] # <<>>)
    BY <2>1
  <2>3. n # 1
    BY <1>5, <2>2
  <2>4. n - 1 \in 1 .. N /\ ~(n <= n - 1)
    BY <2>2, <2>3
  <2>5. n - 1 \notin odd
    BY <2>1, <2>4
  <2>6. all[n - 1] \in Ints /\ all[n - 1] # <<>>
    BY <2>4, <2>5
  <2>7. PICK a, b : a = all[n - 1] /\ b = seqs[n]
    OBVIOUS
  <2>8. a \in Seq(Int) /\ b \in Seq(Int) /\ a # <<>>
    BY <2>2, <2>6, <2>7 DEF Ints
  <2>9. a \o b \in Seq(Int) /\ a \o b # <<>>
    <3>1. a \o b \in Seq(Int) /\ Len(a \o b) = Len(a) + Len(b) /\ Len(a) > 0 /\ Len(b) >= 0
      BY <2>8
    <3>2. QED
      BY <3>1
  <2>10. all[n] = a \o b
    BY <1>5, <2>2, <2>3, <2>7
  <2>11. QED
    BY <2>2, <2>9, <2>10 DEF Ints
<1>7. N \in 1 .. N /\ N \notin odd
  BY <1>6
<1>8. QED
  BY <1>4, <1>7

LEMMA RangeWalks ==
  ASSUME NEW row \in Ints, NEW i \in 2 .. Len(row), NEW d \in {Asc, Desc}
  PROVE  Range942(row, i, d) \in Ints /\ Range942(row, i, d) # <<>>
<1>1. PICK a \in Int, b \in Int, e \in {1, -1} : a = row[i] /\ b = row[i - 1] /\ e = d
  <2>1. i \in 1 .. Len(row) /\ i - 1 \in 1 .. Len(row) /\ row \in Seq(Int)
    BY DEF Ints
  <2>2. row[i] \in Int /\ row[i - 1] \in Int
    BY <2>1, ElementOfSeq
  <2>3. QED
    BY <2>2 DEF Asc, Desc
<1>2. PICK n \in Nat \ {0} : n = IF ((b + e) - (a + e)) * e > 1 THEN ((b + e) - (a + e)) * e ELSE 1
  <2>1. CASE e = 1
    BY <2>1
  <2>2. CASE e = -1
    BY <2>2
  <2>3. QED
    BY <2>1, <2>2
<1>3. Range942(row, i, d) = [j \in 1 .. n |-> (a + e) + (j - 1) * e]
  BY <1>1, <1>2 DEF Range942
<1>4. \A j \in 1 .. n : (a + e) + (j - 1) * e \in Int
  <2>1. CASE e = 1
    BY <2>1
  <2>2. CASE e = -1
    BY <2>2
  <2>3. QED
    BY <2>1, <2>2
<1>5. Range942(row, i, d) \in Seq(Int) /\ Len(Range942(row, i, d)) = n
  BY <1>3, <1>4
<1>6. QED
  BY <1>5 DEF Ints

LEMMA RowWalks ==
  ASSUME NEW row \in Rows, NEW d \in {Asc, Desc}
  PROVE  Walk(row, d) \in Ints /\ Walk(row, d) # <<>>
<1>1. CASE row = <<>>
  <2> DEFINE seqs == <<<<0>>>>
  <2>1. Len(seqs) = 1 /\ \A i \in 1 .. 1 : seqs[i] = <<0>>
    OBVIOUS
  <2>2. <<0>> \in Ints /\ <<0>> # <<>>
    BY DEF Ints
  <2> HIDE DEF seqs
  <2>3. FlattenSeq(seqs) \in Ints /\ FlattenSeq(seqs) # <<>>
    BY <2>1, <2>2, FlattenWalks, 1 \in Nat \ {0}
  <2>4. QED
    BY <1>1, <2>3 DEF Walk, Ranges, seqs
<1>2. CASE row # <<>>
  <2>1. PICK n \in Nat \ {0} : Len(row) = 2 * n /\ n = Len(row) \div 2
    <3>1. row \in Seq(Int) /\ Len(row) \in Nat /\ Len(row) # 0 /\ Len(row) % 2 = 0
      BY <1>2 DEF Rows, Ints
    <3>2. QED
      BY <3>1
  <2> DEFINE seqs == [r \in 1 .. n |-> Range942(row, 2 * n - 2 * (r - 1), d)]
  <2>2. \A r \in 1 .. n : seqs[r] \in Ints /\ seqs[r] # <<>>
    <3> TAKE r \in 1 .. n
    <3>1. 2 * n - 2 * (r - 1) \in 2 .. Len(row) /\ row \in Ints
      BY <2>1 DEF Rows
    <3>2. QED
      BY <3>1, RangeWalks
  <2>3. Len(seqs) = n
    OBVIOUS
  <2>4. Ranges(row, d) = seqs
    BY <1>2, <2>1 DEF Ranges
  <2> HIDE DEF seqs
  <2>5. FlattenSeq(seqs) \in Ints /\ FlattenSeq(seqs) # <<>>
    BY <2>2, <2>3, FlattenWalks
  <2>6. QED
    BY <2>4, <2>5 DEF Walk
<1>3. QED
  BY <1>1, <1>2

-----------------------------------------------------------------------------
(* What a call launches: a plan of at least one kv block.                  *)
LEMMA LaunchPlans ==
  ASSUME NEW a \in Calls, Admitted942(a)
  PROVE  \E nqb \in Nat, bh \in Nat, nkb \in Nat \ {0}, enable \in BOOLEAN :
           Launch942(a).plan = Plan(nqb, bh, nkb, enable) /\ Launch942(a).plan.nkb = nkb
<1> DEFINE B == a.q.shape[1]
           heads == a.q.shape[heads_axis(a)]
           sq == a.q.shape[seq_axis(a)]
           skv == a.k.shape[seq_axis(a)]
           lite == a.op = "forward_lite"
<1>1. /\ a.q.shape \in Seq(Nat) /\ a.k.shape \in Seq(Nat) /\ Len(a.q.shape) = 4 /\ Len(a.k.shape) = 4
  <2>1. check_tensor(a.q) /\ check_tensor(a.k)
    BY DEF Admitted942, CheckedCommon
  <2>2. QED
    BY <2>1, CallsAssumption DEF check_tensor
<1>2. heads_axis(a) \in 1 .. 4 /\ seq_axis(a) \in 1 .. 4
  BY DEF heads_axis, seq_axis
<1>3. B \in Nat /\ heads \in Nat /\ sq \in Nat /\ skv \in Nat /\ skv > 0
  <2>1. skv > 0
    BY DEF Admitted942, HasRows
  <2>2. \A i \in 1 .. 4 : a.q.shape[i] \in Nat /\ a.k.shape[i] \in Nat
    BY <1>1, ElementOfSeq
  <2>3. QED
    BY <1>2, <2>1, <2>2
<1> HIDE DEF B, heads, sq, skv
<1>4. NumKvBlocks(skv) \in Nat \ {0}
  <2>1. KvBlockRows \in Nat \ {0} /\ skv \in Nat /\ skv # 0
    BY <1>3, ViewsAssumption
  <2>2. Ceil(skv, KvBlockRows) \in Nat /\ Ceil(skv, KvBlockRows) >= 1
    BY <2>1, CeilOf
  <2>3. QED
    BY <2>2 DEF NumKvBlocks
<1>5. NumQBlocks(sq) \in Nat
  <2>1. QTileRows \in Nat \ {0} /\ NumWaves \in Nat \ {0} /\ QTilesPerWave \in Nat \ {0}
    BY ViewsAssumption
  <2>2. QTilesPerWG \in Nat \ {0}
    BY <2>1 DEF QTilesPerWG
  <2>3. NumQTiles(sq) \in Nat
    BY <1>3, <2>1, CeilOf DEF NumQTiles
  <2>4. QED
    BY <2>2, <2>3, CeilOf DEF NumQBlocks
<1>6. B * heads \in Nat
  BY <1>3
<1>7. (~lite /\ GivesWorkspace(a)) \in BOOLEAN
  OBVIOUS
<1>8. Launch942(a).plan = Plan(NumQBlocks(sq), B * heads, NumKvBlocks(skv), ~lite /\ GivesWorkspace(a))
  BY DEF Launch942, B, heads, sq, skv
<1>9. Launch942(a).plan.nkb = NumKvBlocks(skv)
  BY <1>8 DEF Plan
<1>10. QED
  BY <1>4, <1>5, <1>6, <1>7, <1>8, <1>9

LEMMA Launched ==
  ASSUME Inv, launch # NoLaunch
  PROVE  /\ Idle /\ (launch.lite => Len(attn.rows) = 2)
         /\ \A x \in Items(launch.plan) : x[3].walk \in Ints /\ x[3].walk # <<>>
<1>1. PICK a \in Calls : Admitted942(a) /\ launch = Launch942(a)
  BY DEF Inv, LaunchFine
<1>2. PICK nqb \in Nat, bh \in Nat, nkb \in Nat \ {0}, enable \in BOOLEAN :
        launch.plan = Plan(nqb, bh, nkb, enable)
  BY <1>1, LaunchPlans
<1>3. ASSUME NEW x \in Items(launch.plan) PROVE x[3].walk \in Ints /\ x[3].walk # <<>>
  BY <1>2, <1>3, ItemsWalk
<1>4. QED
  BY <1>3 DEF Inv, LaunchFine

(* Two rows, once LiteAttention has seeded one.                            *)
LEMMA ObjectFields ==
  ASSUME NEW rows \in Seq(Rows), NEW nkb \in Int, NEW phase \in {0, 1}, NEW calls \in Nat, NEW done \in Nat
  PROVE  [rows |-> rows, nkb |-> nkb, phase |-> phase, calls |-> calls, done |-> done] \in Objects942
BY DEF Objects942

LEMMA ObjectFlips ==
  ASSUME NEW e, NEW p, NEW c,
         e = [rows |-> e.rows, nkb |-> e.nkb, phase |-> e.phase, calls |-> e.calls, done |-> e.done]
  PROVE  [e EXCEPT !.phase = p, !.calls = c]
           = [rows |-> e.rows, nkb |-> e.nkb, phase |-> p, calls |-> c, done |-> e.done]
<1>1. PICK x : x = [e EXCEPT !.phase = p, !.calls = c]
  OBVIOUS
<1>2. x = [rows |-> e.rows, nkb |-> e.nkb, phase |-> p, calls |-> c, done |-> e.done]
  BY <1>1
<1>3. QED
  BY <1>1, <1>2

LEMMA NoObject ==
  ASSUME NEW calls \in Nat
  PROVE  LET a == [rows |-> <<>>, nkb |-> 0, phase |-> 0, calls |-> calls, done |-> 0] IN
         a \in Objects942 /\ Len(a.rows) = 0
<1>1. PICK rows \in Seq(Rows) : rows = <<>> /\ Len(rows) = 0
  <2>1. <<>> \in Seq(Rows) /\ Len(<<>>) = 0
    OBVIOUS
  <2>2. QED
    BY <2>1, Zenon
<1>2. 0 \in Int /\ 0 \in {0, 1} /\ 0 \in Nat
  OBVIOUS
<1>3. [rows |-> rows, nkb |-> 0, phase |-> 0, calls |-> calls, done |-> 0] \in Objects942
  BY <1>2, ObjectFields
<1>4. QED
  BY <1>1, <1>3

LEMMA EnsuredFine ==
  ASSUME Shapes, NEW nkb \in Int
  PROVE  Flipped(Ensured(nkb)) \in Objects942 /\ Len(Flipped(Ensured(nkb)).rows) = 2
<1>1. PICK a : a = attn /\ a \in Objects942 /\ Len(a.rows) \in {0, 2}
  BY DEF Shapes
<1>2. /\ a.rows \in Seq(Rows) /\ a.nkb \in Int /\ a.phase \in {0, 1} /\ a.calls \in Nat /\ a.done \in Nat
      /\ a = [rows |-> a.rows, nkb |-> a.nkb, phase |-> a.phase, calls |-> a.calls, done |-> a.done]
  BY <1>1 DEF Objects942
<1>3. PICK e : e = Ensured(nkb)
  OBVIOUS
<1>4. \E rows \in Seq(Rows), n \in Int, phase \in {0, 1}, done \in Nat :
        Len(rows) = 2 /\ e = [rows |-> rows, nkb |-> n, phase |-> phase, calls |-> a.calls, done |-> done]
  <2>1. CASE a.rows # <<>> /\ a.nkb = nkb
    <3>1. e = a /\ Len(a.rows) = 2
      BY <1>1, <1>2, <1>3, <2>1 DEF Ensured
    <3>2. QED
      BY <1>2, <3>1
  <2>2. CASE ~(a.rows # <<>> /\ a.nkb = nkb)
    <3>1. e = [a EXCEPT !.rows = <<SeedRow(nkb), <<>>>>, !.nkb = nkb, !.phase = 0, !.done = 0]
      BY <1>1, <1>3, <2>2 DEF Ensured
    <3>2. SeedRow(nkb) \in Rows /\ <<>> \in Rows
      BY DEF SeedRow, Rows, Ints
    <3>3. <<SeedRow(nkb), <<>>>> \in Seq(Rows) /\ Len(<<SeedRow(nkb), <<>>>>) = 2
      BY <3>2
    <3>4. PICK rows \in Seq(Rows) : rows = <<SeedRow(nkb), <<>>>> /\ Len(rows) = 2
      BY <3>3
    <3>5. e = [rows |-> rows, nkb |-> nkb, phase |-> 0, calls |-> a.calls, done |-> 0]
      BY <1>2, <3>1, <3>4
    <3>6. QED
      BY <3>4, <3>5
  <2>3. QED
    BY <2>1, <2>2
<1>5. PICK rows \in Seq(Rows), n \in Int, phase \in {0, 1}, done \in Nat :
        Len(rows) = 2 /\ e = [rows |-> rows, nkb |-> n, phase |-> phase, calls |-> a.calls, done |-> done]
  BY <1>4
<1>6. Flipped(e) = [rows |-> rows, nkb |-> n, phase |-> 1 - phase, calls |-> a.calls + 1, done |-> done]
  <2>1. e.phase = phase /\ e.calls = a.calls
    BY <1>5
  <2>2. Flipped(e) = [e EXCEPT !.phase = 1 - phase, !.calls = a.calls + 1]
    BY <2>1 DEF Flipped
  <2>3. PICK p, c : p = 1 - phase /\ c = a.calls + 1
    OBVIOUS
  <2>4. [e EXCEPT !.phase = p, !.calls = c] = [rows |-> rows, nkb |-> n, phase |-> p, calls |-> c, done |-> done]
    <3>1. e.rows = rows /\ e.nkb = n /\ e.phase = phase /\ e.calls = a.calls /\ e.done = done
      BY <1>5
    <3>2. e = [rows |-> e.rows, nkb |-> e.nkb, phase |-> e.phase, calls |-> e.calls, done |-> e.done]
      BY <1>5, <3>1
    <3>3. QED
      BY <3>1, <3>2, ObjectFlips
  <2>5. QED
    BY <2>2, <2>3, <2>4
<1>7. 1 - phase \in {0, 1} /\ a.calls + 1 \in Nat
  BY <1>2
<1>8. Flipped(e) \in Objects942
  BY <1>6, <1>7, ObjectFields
<1>9. QED
  BY <1>3, <1>5, <1>6, <1>8

LEMMA LiteCallFine ==
  ASSUME NEW a \in Objects942, Len(a.rows) = 2, NEW must
  PROVE  /\ LiteCall(a, must).walk \in Ints /\ LiteCall(a, must).walk # <<>>
         /\ LiteCall(a, must).lite \in BOOLEAN /\ LiteCall(a, must).dir \in {Asc, Desc}
<1>1. a.rows \in Seq(Rows) /\ 2 - a.phase \in 1 .. Len(a.rows)
  BY DEF Objects942
<1>2. ReadRow(a) \in Rows
  BY <1>1, ElementOfSeq DEF ReadRow
<1>3. Dir(a.phase) \in {Asc, Desc}
  BY DEF Dir
<1>4. QED
  BY <1>2, <1>3, RowWalks DEF LiteCall

(* A CTA starts: nothing taken, nothing owed.                              *)
LEMMA BeginRuns ==
  ASSUME Inv, Idle, NEW call, call.walk \in Ints, call.walk # <<>>, call.lite \in BOOLEAN,
         call.dir \in {Asc, Desc}, Begin(call), attn' \in Objects942, Len(attn'.rows) \in {0, 2},
         launch' = NoLaunch
  PROVE  Inv'
<1>1. /\ cta' = call /\ pc' = [w \in Waves |-> "prologue"] /\ step' = [w \in Waves |-> -1]
      /\ reg' = [w \in Waves |-> NoReg] /\ said' = [i \in 1 .. Len(call.walk) |-> {}]
      /\ rec' = [list |-> NoRecord, md |-> MustDoStart(call.must, call.dir)]
      /\ dma' = dma /\ k' = k
  BY DEF Begin
<1>2. PICK left \in BOOLEAN : vote' = NoVotes(left)
  BY DEF Begin
<1>3. PICK N \in Nat, walk \in Ints : walk = call.walk /\ N = Len(walk) /\ N # 0
  BY DEF Ints
<1>4. Shapes /\ \A u \in GroupB : dma[u] = <<>>
  BY DEF Inv, AtRest
<1>5. said' \in Seq(SUBSET Waves) /\ Len(said') = N /\ \A j \in 1 .. N : said'[j] = {}
  BY <1>1, <1>3
<1>6. NoReg \in Registers942 /\ NoReg.sum = <<>> /\ NoReg.o = <<>>
  BY DEF NoReg, Registers942, NoBlock, Ints
<1>7. Shapes'
  <2>1. vote' \in [Waves -> [Ring -> BOOLEAN]]
    BY <1>2 DEF NoVotes
  <2>2. pc' \in [Waves -> Places] /\ step' \in [Waves -> Int] /\ reg' \in [Waves -> Registers942]
    BY <1>1, <1>6 DEF Places
  <2>3. k' \in [GroupB -> [Ring -> Int]] /\ dma' \in [GroupB -> Seq([block : Int, buf : Ring])]
    BY <1>1, <1>4 DEF Shapes
  <2>4. cta'.walk \in Ints /\ cta'.lite \in BOOLEAN /\ cta'.dir \in {Asc, Desc}
    BY <1>1
  <2>5. QED
    BY <1>5, <2>1, <2>2, <2>3, <2>4 DEF Shapes
<1>8. RecFine'
  <2>1. rec'.list = NoRecord
    BY <1>1
  <2>2. NoRecord.out = <<>> /\ NoRecord.skip = TRUE
    BY DEF NoRecord
  <2>3. <<>> \in Ints /\ Len(<<>>) % 2 = 0
    BY DEF Ints
  <2>4. ListFine(NoRecord)
    BY <2>2, <2>3, Zenon DEF ListFine
  <2>5. QED
    BY <2>1, <2>4 DEF RecFine
<1>9. Steps' = N
  BY <1>1, <1>3 DEF Steps
<1>10. ASSUME NEW w \in Waves PROVE PlaceIn("load", -1, w)' /\ Sums(w, 0, 0)'
  <2>1. pc'[w] = "prologue" /\ step'[w] = -1 /\ reg'[w] = NoReg
    BY <1>1
  <2>2. PICK now : now = said'
    OBVIOUS
  <2>3. Taken(w, walk, now, 0) = <<>>
    BY TakenStep
  <2>4. Took(w, 0)' = <<>>
    BY <1>1, <1>3, <2>2, <2>3 DEF Took
  <2>5. Sums(w, 0, 0)'
    BY <1>5, <1>6, <1>9, <2>1, <2>4 DEF Sums
  <2>6. QED
    BY <2>1, <2>5 DEF PlaceIn
<1>11. \A u \in GroupB : KeysIn("load", -1, u)'
  BY <1>1, <1>4 DEF KeysIn, Waves
<1>12. Running("load", -1)'
  <2>1. StageOf("load", -1)'
    BY DEF StageOf, Stages
  <2>2. \A w \in GroupA : TakesA("load", -1, w)'
    BY <1>10 DEF TakesA, Waves
  <2>3. \A w \in GroupB : TakesB("load", -1, w)'
    BY <1>10 DEF TakesB, Waves
  <2>4. QED
    BY <1>1, <1>5, <1>9, <1>10, <1>11, <2>1, <2>2, <2>3 DEF Running
<1>13. ~Idle'
  BY <1>1, WavesAssumption DEF Idle, Waves
<1>14. QED
  BY <1>7, <1>8, <1>12, <1>13 DEF Inv, LaunchFine, Stages

LEMMA CallsKeep ==
  ASSUME Inv, \/ Launch
              \/ launch # NoLaunch /\ ~launch.lite /\ \E x \in Items(launch.plan) : DenseCta(x[3])
              \/ \E must \in MustDos : LiteCta(must)
              \/ \E nkb \in 1 .. MaxBlocks, must \in MustDos : Lite(nkb, must)
              \/ \E nkb \in 1 .. MaxBlocks : LiteRaises(nkb)
              \/ Reset
  PROVE  Inv'
<1>1. Shapes /\ RecFine /\ attn \in Objects942 /\ Len(attn.rows) \in {0, 2}
  BY DEF Inv, Shapes
<1>2. Idle => AtRest
  BY DEF Inv
<1>3. ASSUME Idle, attn' \in Objects942, Len(attn'.rows) \in {0, 2}, UNCHANGED <<cta, kernel>>, LaunchFine'
      PROVE  Inv'
  <2>1. Shapes' /\ RecFine'
    BY <1>1, <1>3 DEF Shapes, RecFine, kernel
  <2>2. AtRest'
    BY <1>2, <1>3 DEF AtRest, Idle, kernel
  <2>3. QED
    BY <1>3, <2>1, <2>2 DEF Inv
<1>4. CASE Launch
  <2>1. PICK a \in Calls : Admitted942(a) /\ LiteFits(a) /\ Addressable(launch') /\ launch' = Launch942(a)
    BY <1>4 DEF Launch
  <2>2. /\ Idle /\ UNCHANGED <<cta, kernel>>
        /\ attn' = IF launch'.lite THEN Flipped(Ensured(launch'.plan.nkb)) ELSE attn
    BY <1>4 DEF Launch
  <2>3. launch'.plan.nkb \in Int
    BY <2>1, LaunchPlans
  <2>4. attn' \in Objects942 /\ Len(attn'.rows) \in {0, 2} /\ (launch'.lite => Len(attn'.rows) = 2)
    <3>1. PICK n \in Int : n = launch'.plan.nkb
      BY <2>3
    <3>2. Flipped(Ensured(n)) \in Objects942 /\ Len(Flipped(Ensured(n)).rows) = 2
      BY <1>1, EnsuredFine
    <3>3. QED
      BY <1>1, <2>2, <3>1, <3>2
  <2>5. LaunchFine'
    BY <2>1, <2>2, <2>4 DEF LaunchFine, Idle, kernel
  <2>6. QED
    BY <1>3, <2>2, <2>4, <2>5
<1>5. CASE launch # NoLaunch /\ ~launch.lite /\ \E x \in Items(launch.plan) : DenseCta(x[3])
  <2>1. PICK x \in Items(launch.plan) : DenseCta(x[3])
    BY <1>5
  <2>2. Idle /\ x[3].walk \in Ints /\ x[3].walk # <<>>
    BY <1>5, Launched
  <2>3. PICK call : call = [NoCall EXCEPT !.walk = x[3].walk]
    OBVIOUS
  <2>4. Begin(call) /\ launch' = NoLaunch /\ attn' = attn
    BY <2>1, <2>3 DEF DenseCta
  <2>5. call.walk = x[3].walk /\ call.lite = FALSE /\ call.dir = Asc
    BY <2>3 DEF NoCall
  <2>6. QED
    BY <1>1, <2>2, <2>4, <2>5, BeginRuns
<1>6. CASE \E must \in MustDos : LiteCta(must)
  <2>1. PICK must \in MustDos : LiteCta(must)
    BY <1>6
  <2>2. /\ launch # NoLaunch /\ launch.lite /\ Begin(LiteCall(attn, must))
        /\ launch' = NoLaunch /\ attn' = attn
    BY <2>1 DEF LiteCta
  <2>3. Idle /\ Len(attn.rows) = 2
    BY <2>2, Launched
  <2>4. PICK a, call : a = attn /\ call = LiteCall(a, must)
    OBVIOUS
  <2>5. /\ call.walk \in Ints /\ call.walk # <<>> /\ call.lite \in BOOLEAN /\ call.dir \in {Asc, Desc}
    BY <1>1, <2>3, <2>4, LiteCallFine
  <2>6. QED
    BY <1>1, <2>2, <2>3, <2>4, <2>5, BeginRuns
<1>7. CASE \E nkb \in 1 .. MaxBlocks, must \in MustDos : Lite(nkb, must)
  <2>1. PICK nkb \in 1 .. MaxBlocks, must \in MustDos : Lite(nkb, must)
    BY <1>7
  <2>2. Idle /\ launch' = NoLaunch /\ attn' = Flipped(Ensured(nkb)) /\ Begin(LiteCall(attn', must))
    BY <2>1 DEF Lite
  <2>3. attn' \in Objects942 /\ Len(attn'.rows) = 2
    BY <1>1, <2>2, EnsuredFine
  <2>4. PICK a, call : a = attn' /\ call = LiteCall(a, must)
    OBVIOUS
  <2>5. /\ call.walk \in Ints /\ call.walk # <<>> /\ call.lite \in BOOLEAN /\ call.dir \in {Asc, Desc}
    BY <2>3, <2>4, LiteCallFine
  <2>6. QED
    BY <2>2, <2>3, <2>4, <2>5, BeginRuns
<1>8. CASE \E nkb \in 1 .. MaxBlocks : LiteRaises(nkb)
  <2>1. PICK nkb \in 1 .. MaxBlocks : LiteRaises(nkb)
    BY <1>8
  <2>2. Idle /\ launch = NoLaunch /\ attn' = Flipped(Ensured(nkb)) /\ UNCHANGED <<launch, cta, kernel>>
    BY <2>1 DEF LiteRaises
  <2>3. attn' \in Objects942 /\ Len(attn'.rows) = 2
    BY <1>1, <2>2, EnsuredFine
  <2>4. QED
    BY <1>3, <2>2, <2>3 DEF LaunchFine
<1>9. CASE Reset
  <2>1. /\ Idle /\ launch = NoLaunch /\ UNCHANGED <<launch, cta, kernel>>
        /\ attn' = [attn EXCEPT !.rows = <<>>, !.nkb = 0, !.phase = 0, !.done = 0]
    BY <1>9 DEF Reset
  <2>2. attn' \in Objects942 /\ Len(attn'.rows) = 0
    <3>1. PICK a : a = attn /\ a \in Objects942
      BY <1>1
    <3>2. /\ a.calls \in Nat
          /\ a = [rows |-> a.rows, nkb |-> a.nkb, phase |-> a.phase, calls |-> a.calls, done |-> a.done]
      BY <3>1 DEF Objects942
    <3>3. attn' = [rows |-> <<>>, nkb |-> 0, phase |-> 0, calls |-> a.calls, done |-> 0]
      BY <2>1, <3>1, <3>2
    <3>4. QED
      BY <3>2, <3>3, NoObject
  <2>3. QED
    BY <1>3, <2>1, <2>2 DEF LaunchFine
<1>10. QED
  BY <1>4, <1>5, <1>6, <1>7, <1>8, <1>9

-----------------------------------------------------------------------------
LEMMA InitHolds == Init => Inv
<1> SUFFICES ASSUME Init PROVE Inv
  OBVIOUS
<1>1. /\ attn = [rows |-> <<>>, nkb |-> 0, phase |-> 0, calls |-> 0, done |-> 0]
      /\ launch = NoLaunch /\ cta = NoCall
      /\ pc = [w \in Waves |-> "idle"] /\ step = [w \in Waves |-> 0]
      /\ dma = [w \in GroupB |-> <<>>] /\ k = NoK /\ vote = NoVotes(FALSE)
      /\ reg = [w \in Waves |-> NoReg] /\ said = <<>> /\ rec = NoRec
  BY DEF Init
<1>2. attn \in Objects942 /\ Len(attn.rows) \in {0, 2}
  BY <1>1, NoObject
<1>3. cta.walk \in Ints /\ cta.lite \in BOOLEAN /\ cta.dir \in {Asc, Desc} /\ said \in Seq(SUBSET Waves)
  BY <1>1 DEF NoCall, Ints
<1>4. pc \in [Waves -> Places] /\ step \in [Waves -> Int] /\ k \in [GroupB -> [Ring -> Int]]
  BY <1>1 DEF Places, NoK, NoBlock
<1>5. vote \in [Waves -> [Ring -> BOOLEAN]] /\ reg \in [Waves -> Registers942]
  BY <1>1 DEF NoVotes, NoReg, Registers942, NoBlock, Ints
<1>6. dma \in [GroupB -> Seq([block : Int, buf : Ring])]
  <2> DEFINE L == [block : Int, buf : Ring]
  <2> HIDE DEF L
  <2>1. dma \in [GroupB -> Seq(L)]
    BY <1>1
  <2>2. QED
    BY <2>1 DEF L
<1>7. Shapes
  BY <1>2, <1>3, <1>4, <1>5, <1>6 DEF Shapes
<1>8. RecFine
  <2>1. rec.list = NoRecord /\ NoRecord.out = <<>> /\ NoRecord.skip = TRUE
    BY <1>1 DEF NoRec, NoRecord
  <2>2. <<>> \in Ints /\ Len(<<>>) % 2 = 0
    BY DEF Ints
  <2>3. ListFine(NoRecord)
    BY <2>1, <2>2, Zenon DEF ListFine
  <2>4. QED
    BY <2>1, <2>3 DEF RecFine
<1>9. AtRest
  BY <1>1 DEF AtRest, Idle
<1>10. QED
  BY <1>1, <1>7, <1>8, <1>9 DEF Inv, LaunchFine

LEMMA NextKeeps == Inv /\ [Next]_vars => Inv'
<1> SUFFICES ASSUME Inv, [Next]_vars PROVE Inv'
  OBVIOUS
<1>1. ASSUME NEW w \in Waves, WaveStep(w) PROVE Inv'
  BY <1>1, PrologueKeeps, Half1AKeeps, Half1BKeeps, Half2AKeeps, Half2BKeeps, RecordVotesKeeps,
     ArriveEndKeeps, EpilogueKeeps, FinishKeeps, StoreKeeps DEF WaveStep
<1>2. ASSUME NEW w \in GroupB, Land(w) PROVE Inv'
  BY <1>2, LandKeeps
<1>3. ASSUME Release PROVE Inv'
  BY <1>3, ReleaseKeeps
<1>4. CASE UNCHANGED vars
  <2>1. /\ attn' = attn /\ launch' = launch /\ cta' = cta /\ pc' = pc /\ step' = step /\ dma' = dma
        /\ k' = k /\ vote' = vote /\ reg' = reg /\ said' = said /\ rec' = rec
    BY <1>4 DEF vars
  <2>2. Shapes' = Shapes /\ RecFine' = RecFine /\ LaunchFine' = LaunchFine /\ Idle' = Idle /\ AtRest' = AtRest
    BY <2>1 DEF Shapes, RecFine, LaunchFine, Idle, AtRest
  <2>3. \A stage, s : Running(stage, s)' = Running(stage, s)
    BY <2>1 DEF Running, StageOf, PlaceIn, TakesA, TakesB, KeysIn, Sums, Took, Owes, Scored,
                Comes, Landed, Here, Steps, At, KBuf, VoteSlot
  <2>4. QED
    BY <2>2, <2>3 DEF Inv
<1>5. QED
  BY <1>1, <1>2, <1>3, <1>4, CallsKeep DEF Next

LEMMA InvAttends == Inv => AttendsItsWalk
<1> SUFFICES ASSUME Inv PROVE AttendsItsWalk
  OBVIOUS
<1>1. ASSUME NEW w \in Waves, Reading(w), NEW u \in GroupB PROVE k[u][KBuf(step[w])] = At(step[w])
  <2>1. PICK stage \in Stages, s \in Int : Running(stage, s)
    BY <1>1, WaveRuns DEF Reading
  <2>2. stage \in {"first", "second"} /\ step[w] = s
    BY <1>1, <2>1 DEF Running, PlaceIn, Reading
  <2>3. QED
    BY <2>1, <2>2 DEF Running, KeysIn
<1>2. ASSUME NEW w \in Waves, pc[w] = "store"
      PROVE  LET taken == Taken(w, cta.walk, said, Steps) IN reg[w].sum = taken /\ reg[w].o = taken
  <2>1. PICK stage \in Stages, s \in Int : Running(stage, s)
    BY <1>2, WaveRuns
  <2>2. Sums(w, Steps, Steps)
    BY <1>2, <2>1 DEF Running, PlaceIn, TakesA, TakesB, Waves
  <2>3. QED
    BY <2>2 DEF Sums, Took
<1>3. QED
  BY <1>1, <1>2 DEF AttendsItsWalk, ReadsOwnK

(* Every wave of a CTA, dense or lite, multiplies the K of its own step's  *)
(* block, and stores sums and an O that took, in the walk's order, exactly *)
(* the blocks it did not vote to skip.                                     *)
THEOREM AttendsItsWalkHolds == Spec => []AttendsItsWalk
<1>1. Init => Inv
  BY InitHolds
<1>2. Inv /\ [Next]_vars => Inv'
  BY NextKeeps
<1>3. Inv => AttendsItsWalk
  BY InvAttends
<1>4. QED
  BY <1>1, <1>2, <1>3, PTL DEF Spec

-----------------------------------------------------------------------------
(* The next call's row.  What thread 0 writes is read backwards, two        *)
(* markers a range.                                                        *)
Marker(m, d, nkb) == IF d = Asc THEN m \in 0 .. nkb ELSE m \in -1 .. nkb - 1
Marks(out, d, nkb) ==
  /\ out \in Ints
  /\ \A i \in 1 .. Len(out) : Marker(out[i], d, nkb)
  /\ \A i, j \in 1 .. Len(out) : i <= j => (out[j] - out[i]) * d >= j - i

Written(row, d, nkb) == Marks(row, d, nkb) /\ Len(row) % 2 = 0

(* The blocks of a row's ranges, read in direction d.                      *)
Back(row, d) ==
  FlattenSeq([r \in 1 .. Len(row) \div 2 |-> Range942(row, Len(row) - 2 * (r - 1), d)])

(* The emitter, before block b, has written what is kept so far: read back,*)
(* with an open range closed at b, it is the blocks kept in reverse.       *)
Closed(list, b) == IF list.skip THEN list.out ELSE Append(list.out, b)
Encodes(list, b, d, nkb, blocks) ==
  /\ list.skip \in BOOLEAN /\ Marks(list.out, d, nkb) /\ (list.skip <=> Len(list.out) % 2 = 0)
  /\ \A i \in 1 .. Len(list.out) : (b - list.out[i]) * d > 0
  /\ Back(Closed(list, b), -d) = Reverse(blocks) /\ kept(Closed(list, b), -d) = Len(blocks)

(* The must-do ranges the cursor has left do not pin b or a later block.   *)
Cursor(must, md, b, d) ==
  IF d = Asc THEN md \in 1 .. Len(must) + 1 /\ \A r \in 1 .. Len(must) : r < md => must[r][2] <= b
  ELSE md \in 0 .. Len(must) /\ \A r \in 1 .. Len(must) : r > md => must[r][1] > b

(* A lite walk: its blocks are the row's, each next to the one before but  *)
(* where a range closes.                                                   *)
WalkFine(call, nkb) ==
  /\ Len(call.closes) = Len(call.walk)
  /\ \A j \in 1 .. Len(call.walk) : call.walk[j] \in 0 .. nkb - 1 /\ call.closes[j] \in BOOLEAN
  /\ \A j \in 1 .. Len(call.walk) - 1 :
       IF call.closes[j] THEN (call.walk[j + 1] - call.walk[j]) * call.dir >= 2
       ELSE call.walk[j + 1] = call.walk[j] + call.dir

(* Row 1 is written walking down and read walking up, row 2 the other way. *)
RowsFine ==
  attn.rows # <<>> =>
    /\ attn.nkb \in Nat \ {0}
    /\ Written(attn.rows[1], Desc, attn.nkb) /\ Written(attn.rows[2], Asc, attn.nkb)

CallFine ==
  ~Idle /\ cta.lite =>
    /\ attn.rows # <<>> /\ cta.dir = Dir(attn.phase) /\ cta.must \in MustDos
    /\ WalkFine(cta, attn.nkb)

(* How many steps a wave has voted on; the ring has its last two votes.    *)
Casts(w) ==
  IF pc[w] = "prologue" THEN 0
  ELSE IF pc[w] \in {"epilogue", "wait_last", "flush", "store", "idle"}
       THEN IF pc[w] = "epilogue" /\ w \in GroupB THEN Steps - 1 ELSE Steps
  ELSE IF w \in GroupA THEN IF pc[w] \in {"record", "drain", "wait_end"} THEN step[w] + 1 ELSE step[w]
  ELSE IF step[w] <= 0 THEN 0
  ELSE IF pc[w] = "half1" THEN step[w] - 1 ELSE step[w]

Recalls(w) ==
  \A j \in 0 .. Casts(w) - 1 : j >= Casts(w) - 2 => (vote[w][VoteSlot(j)] <=> w \in said[j + 1])
VotesFine == ~Idle => said[1] = {} /\ \A w \in Waves : Recalls(w)

(* How many steps thread 0 has recorded.                                   *)
RecCount ==
  IF pc[Wave0] \in {"epilogue", "wait_last", "flush"} THEN Steps - 1
  ELSE IF step[Wave0] <= 0 THEN 0
  ELSE IF pc[Wave0] \in {"drain", "wait_end"} THEN step[Wave0] ELSE step[Wave0] - 1

KeptOf(n) == Taken(Wave0, cta.walk, Dropped, n)
RowOpen == pc[Wave0] \notin {"store", "idle"}
Encoded ==
  ~Idle /\ cta.lite /\ RowOpen =>
    LET n == RecCount IN
      /\ n \in 0 .. Steps - 1 /\ KeptOf(n) \in Ints /\ (n > 0 => KeptOf(n) # <<>>)
      /\ Encodes(rec.list, At(n), cta.dir, attn.nkb, KeptOf(n))
      /\ Cursor(cta.must, rec.md, At(n), cta.dir)

Recorder == \A w \in Waves : pc[w] \in {"record", "flush"} => w = Wave0 /\ cta.lite

ListsInv == Recorder /\ RowsFine /\ CallFine /\ VotesFine /\ Encoded

-----------------------------------------------------------------------------
(* Sequences of blocks.                                                    *)
LEMMA ConcatThree ==
  ASSUME NEW x \in Seq(Int), NEW y \in Seq(Int), NEW z \in Seq(Int)
  PROVE  (x \o y) \o z = x \o (y \o z)
BY ConcatAssociative

LEMMA FlattenCons ==
  ASSUME NEW x \in Ints, NEW N \in Nat, NEW s \in [1 .. N -> Ints]
  PROVE  /\ FlattenSeq(s) \in Ints
         /\ FlattenSeq([i \in 1 .. N + 1 |-> IF i = 1 THEN x ELSE s[i - 1]]) = x \o FlattenSeq(s)
<1> DEFINE t == [i \in 1 .. N + 1 |-> IF i = 1 THEN x ELSE s[i - 1]]
<1>1. Len(t) = N + 1 /\ Len(s) = N /\ N + 1 \in Nat \ {0} /\ x \in Seq(Int)
  BY DEF Ints
<1>2. t[1] = x /\ \A i \in 1 .. N : t[i + 1] = s[i]
  <2>1. \A i \in 1 .. N : i + 1 \in 1 .. N + 1 /\ i + 1 # 1 /\ (i + 1) - 1 = i
    OBVIOUS
  <2>2. 1 \in 1 .. N + 1
    OBVIOUS
  <2>3. QED
    BY <2>1, <2>2
<1> HIDE DEF t
<1>3. PICK g : /\ \A n \in 1 .. N + 1 : g[n] = IF n = 1 THEN t[n] ELSE g[n - 1] \o t[n]
               /\ FlattenSeq(t) = g[N + 1]
  <2>1. N + 1 \in Nat \ {0} /\ Len(t) = N + 1
    BY <1>1
  <2>2. QED
    BY <2>1, Flattening, Zenon
<1>4. CASE N = 0
  <2>1. s = <<>>
    BY <1>1, <1>4
  <2>2. FlattenSeq(s) = <<>>
    BY <1>1, <1>4, <2>1 DEF FlattenSeq
  <2>3. FlattenSeq(t) = x
    BY <1>2, <1>3, <1>4
  <2>4. x \o <<>> = x
    BY <1>1, ConcatEmptySeq
  <2>5. <<>> \in Ints
    BY DEF Ints
  <2>6. QED
    BY <2>2, <2>3, <2>4, <2>5 DEF t
<1>5. CASE N # 0
  <2>1. N \in Nat \ {0}
    BY <1>5
  <2>2. PICK f : /\ \A n \in 1 .. N : f[n] = IF n = 1 THEN s[n] ELSE f[n - 1] \o s[n]
                 /\ FlattenSeq(s) = f[N]
    <3>1. Len(s) = N
      BY <1>1
    <3>2. QED
      BY <2>1, <3>1, Flattening, Zenon
  <2> DEFINE odd == {n \in 1 .. N : ~(f[n] \in Ints /\ g[n + 1] = x \o f[n])}
  <2>3. odd = {}
    <3> SUFFICES ASSUME odd # {} PROVE FALSE
      OBVIOUS
    <3>1. PICK n \in odd : \A y \in odd : n <= y
      BY LeastNatural, odd \subseteq Nat
    <3>2. n \in 1 .. N /\ ~(f[n] \in Ints /\ g[n + 1] = x \o f[n])
      BY <3>1
    <3>3. n + 1 \in 1 .. N + 1 /\ n + 1 # 1 /\ (n + 1) - 1 = n /\ n \in 1 .. N + 1
      BY <3>2
    <3>4. g[n + 1] = g[n] \o s[n] /\ s[n] \in Ints
      <4>1. g[n + 1] = g[n] \o t[n + 1]
        BY <1>3, <3>3
      <4>2. t[n + 1] = s[n]
        BY <1>2, <3>2
      <4>3. s[n] \in Ints
        BY <3>2
      <4>4. QED
        BY <4>1, <4>2, <4>3
    <3>5. CASE n = 1
      <4>1. f[1] = s[1] /\ g[1] = x
        BY <1>2, <1>3, <2>2, <3>2, <3>3, <3>5
      <4>2. QED
        BY <3>2, <3>4, <3>5, <4>1
    <3>6. CASE n # 1
      <4>1. n - 1 \in 1 .. N /\ ~(n <= n - 1) /\ (n - 1) + 1 = n
        BY <3>2, <3>6
      <4>2. n - 1 \notin odd
        BY <3>1, <4>1
      <4>3. f[n - 1] \in Ints /\ g[n] = x \o f[n - 1]
        BY <4>1, <4>2
      <4>4. f[n] = f[n - 1] \o s[n]
        BY <2>2, <3>2, <3>6
      <4>5. PICK a, b : a = f[n - 1] /\ b = s[n] /\ a \in Seq(Int) /\ b \in Seq(Int)
        BY <3>4, <4>3 DEF Ints
      <4>6. (x \o a) \o b = x \o (a \o b) /\ a \o b \in Seq(Int)
        <5>0. x \in Seq(Int) /\ a \in Seq(Int) /\ b \in Seq(Int)
          BY <1>1, <4>5
        <5>1. (x \o a) \o b = x \o (a \o b)
          BY <5>0, ConcatThree
        <5>2. a \o b \in Seq(Int)
          BY <4>5
        <5>3. QED
          BY <5>1, <5>2
      <4>7. f[n] = a \o b /\ g[n + 1] = (x \o a) \o b
        BY <3>4, <4>3, <4>4, <4>5
      <4>8. QED
        BY <3>2, <4>6, <4>7 DEF Ints
    <3>7. QED
      BY <3>5, <3>6
  <2>4. N \in 1 .. N /\ N \notin odd
    BY <2>1, <2>3
  <2>5. f[N] \in Ints /\ g[N + 1] = x \o f[N]
    BY <2>4
  <2>6. QED
    BY <1>3, <2>2, <2>5 DEF t
<1>6. QED
  BY <1>4, <1>5

LEMMA ReverseAppend ==
  ASSUME NEW blocks \in Ints, NEW b \in Int
  PROVE  Reverse(Append(blocks, b)) = <<b>> \o Reverse(blocks) /\ Reverse(blocks) \in Ints
<1>1. PICK n \in Nat : n = Len(blocks) /\ blocks \in Seq(Int)
  BY DEF Ints
<1>2. PICK t : /\ t = Append(blocks, b) /\ t \in Seq(Int) /\ Len(t) = n + 1 /\ t[n + 1] = b
               /\ \A i \in 1 .. n : t[i] = blocks[i]
  <2>1. Append(blocks, b) \in Seq(Int) /\ Len(Append(blocks, b)) = n + 1
    BY <1>1
  <2>2. Append(blocks, b)[n + 1] = b
    BY <1>1
  <2>3. \A i \in 1 .. n : Append(blocks, b)[i] = blocks[i]
    BY <1>1
  <2>4. QED
    BY <2>1, <2>2, <2>3
<1>3. PICK r : r = Reverse(blocks)
  OBVIOUS
<1>4. r = [i \in 1 .. n |-> blocks[(n - i) + 1]]
  BY <1>1, <1>3 DEF Reverse
<1>5. \A i \in 1 .. n : (n - i) + 1 \in 1 .. n
  BY <1>1
<1>6. r \in Seq(Int) /\ Len(r) = n
  BY <1>1, <1>4, <1>5
<1>7. <<b>> \o r \in Seq(Int) /\ Len(<<b>> \o r) = n + 1
      /\ \A i \in 1 .. n + 1 : (<<b>> \o r)[i] = IF i = 1 THEN b ELSE r[i - 1]
  BY <1>6
<1>8. Reverse(t) = [i \in 1 .. n + 1 |-> t[((n + 1) - i) + 1]]
  BY <1>2 DEF Reverse
<1>9. ASSUME NEW i \in 1 .. n + 1 PROVE t[((n + 1) - i) + 1] = IF i = 1 THEN b ELSE r[i - 1]
  <2>1. CASE i = 1
    <3>1. ((n + 1) - i) + 1 = n + 1
      BY <2>1
    <3>2. QED
      BY <1>2, <2>1, <3>1
  <2>2. CASE i # 1
    <3>1. i - 1 \in 1 .. n /\ ((n + 1) - i) + 1 = (n - (i - 1)) + 1 /\ (n - (i - 1)) + 1 \in 1 .. n
      BY <2>2
    <3>2. QED
      BY <1>2, <1>4, <2>2, <3>1
  <2>3. QED
    BY <2>1, <2>2
<1>10. Reverse(t) \in Seq(Int) /\ Len(Reverse(t)) = n + 1
       /\ \A i \in 1 .. n + 1 : Reverse(t)[i] = IF i = 1 THEN b ELSE r[i - 1]
  <2>1. \A i \in 1 .. n + 1 : ((n + 1) - i) + 1 \in 1 .. n + 1
    BY <1>1
  <2>2. Reverse(t) \in Seq(Int) /\ Len(Reverse(t)) = n + 1
    BY <1>2, <1>8, <2>1
  <2>3. QED
    BY <1>8, <1>9, <2>2
<1>11. Reverse(t) = <<b>> \o r
  <2>1. PICK x, y : x = Reverse(t) /\ y = <<b>> \o r
    OBVIOUS
  <2>2. x \in Seq(Int) /\ y \in Seq(Int) /\ Len(x) = Len(y) /\ \A i \in 1 .. Len(x) : x[i] = y[i]
    BY <1>7, <1>10, <2>1
  <2>3. x = y
    BY <2>2, SeqEqual
  <2>4. QED
    BY <2>1, <2>3
<1>12. QED
  BY <1>2, <1>3, <1>6, <1>11 DEF Ints

(* The blocks of one range, from its markers.                              *)
Span942(first, last, d) ==
  LET n == IF (first - last) * d > 1 THEN (first - last) * d ELSE 1
  IN [j \in 1 .. n |-> last + d + (j - 1) * d]

LEMMA RangeIsSpan ==
  ASSUME NEW row \in Ints, NEW i \in 2 .. Len(row), NEW d \in {Asc, Desc}
  PROVE  Range942(row, i, d) = Span942(row[i - 1], row[i], d)
<1>1. PICK a \in Int, b \in Int, e \in {1, -1} : a = row[i] /\ b = row[i - 1] /\ e = d
  <2>1. i \in 1 .. Len(row) /\ i - 1 \in 1 .. Len(row) /\ row \in Seq(Int)
    BY DEF Ints
  <2>2. row[i] \in Int /\ row[i - 1] \in Int
    BY <2>1, ElementOfSeq
  <2>3. QED
    BY <2>2 DEF Asc, Desc
<1>2. (b + e) - (a + e) = b - a
  OBVIOUS
<1>3. QED
  BY <1>1, <1>2 DEF Range942, Span942

LEMMA SpanGrows ==
  ASSUME NEW a \in Int, NEW b \in Int, NEW d \in {Asc, Desc}
  PROVE  /\ Span942(a, b, d) \in Ints
         /\ Span942(b, b + d, -d) = <<b>>
         /\ (b - a) * d > 0 => Span942(a, b + d, -d) = <<b>> \o Span942(a, b, -d)
<1>1. PICK e \in {1, -1} : e = d
  BY DEF Asc, Desc
<1>2. Span942(a, b, e) \in Ints
  <2>1. PICK n \in Nat : n = IF (a - b) * e > 1 THEN (a - b) * e ELSE 1
    <3>1. CASE e = 1
      BY <3>1
    <3>2. CASE e = -1
      BY <3>2
    <3>3. QED
      BY <3>1, <3>2
  <2>2. \A j \in 1 .. n : b + e + (j - 1) * e \in Int
    <3>1. CASE e = 1
      BY <3>1
    <3>2. CASE e = -1
      BY <3>2
    <3>3. QED
      BY <3>1, <3>2
  <2>3. Span942(a, b, e) = [j \in 1 .. n |-> b + e + (j - 1) * e]
    BY <2>1 DEF Span942
  <2>4. Span942(a, b, e) \in Seq(Int)
    BY <2>2, <2>3
  <2>5. QED
    BY <2>4 DEF Ints
<1>3. Span942(b, b + e, -e) = <<b>>
  <2>1. CASE e = 1
    <3>1. Span942(b, b + 1, -1) = [j \in 1 .. 1 |-> (b + 1) + (-1) + (j - 1) * (-1)]
      BY DEF Span942
    <3>2. QED
      BY <2>1, <3>1
  <2>2. CASE e = -1
    <3>1. Span942(b, b + (-1), 1) = [j \in 1 .. 1 |-> (b + (-1)) + 1 + (j - 1) * 1]
      BY DEF Span942
    <3>2. -e = 1
      <4>1. -e = 0 - e
        BY <1>1
      <4>2. 0 - e = 1
        BY <2>2
      <4>3. QED
        BY <4>1, <4>2
    <3>3. Span942(b, b + e, -e) = Span942(b, b + (-1), 1)
      BY <2>2, <3>2
    <3>4. QED
      BY <3>1, <3>3
  <2>3. QED
    BY <2>1, <2>2
<1>4. ASSUME (b - a) * e > 0 PROVE Span942(a, b + e, -e) = <<b>> \o Span942(a, b, -e)
  <2>1. PICK n \in Nat \ {0} : n = (b - a) * e /\ n = (a - b) * (-e) /\ n + 1 = (a - (b + e)) * (-e)
    <3>1. CASE e = 1
      BY <1>4, <3>1
    <3>2. CASE e = -1
      BY <1>4, <3>2
    <3>3. QED
      BY <3>1, <3>2
  <2>2. PICK s : s = Span942(a, b, -e)
    OBVIOUS
  <2>3. s = [j \in 1 .. n |-> b + (-e) + (j - 1) * (-e)]
    <3>1. n = IF n > 1 THEN n ELSE 1
      BY <2>1
    <3>2. QED
      BY <2>1, <2>2, <3>1 DEF Span942
  <2>4. Span942(a, b + e, -e) = [j \in 1 .. n + 1 |-> (b + e) + (-e) + (j - 1) * (-e)]
    <3>1. n + 1 = IF n + 1 > 1 THEN n + 1 ELSE 1
      BY <2>1
    <3>2. QED
      BY <2>1, <3>1 DEF Span942
  <2>5. ASSUME NEW j \in 1 .. n + 1
        PROVE  /\ (b + e) + (-e) + (j - 1) * (-e) \in Int
               /\ (b + e) + (-e) + (j - 1) * (-e) = IF j = 1 THEN b ELSE s[j - 1]
    <3>1. CASE e = 1
      <4>1. j # 1 => j - 1 \in 1 .. n /\ s[j - 1] = b + (-1) + ((j - 1) - 1) * (-1)
        BY <2>3, <3>1
      <4>2. QED
        BY <3>1, <4>1
    <3>2. CASE e = -1
      <4>1. -e = 1
        <5>1. -e = 0 - e
          BY <1>1
        <5>2. 0 - e = 1
          BY <3>2
        <5>3. QED
          BY <5>1, <5>2
      <4>2. j # 1 => j - 1 \in 1 .. n /\ s[j - 1] = b + (-e) + ((j - 1) - 1) * (-e)
        BY <2>3
      <4>3. QED
        BY <3>2, <4>1, <4>2
    <3>3. QED
      BY <3>1, <3>2
  <2>6. PICK t : t = Span942(a, b + e, -e)
    OBVIOUS
  <2>7. t \in Seq(Int) /\ Len(t) = n + 1 /\ \A j \in 1 .. n + 1 : t[j] = IF j = 1 THEN b ELSE s[j - 1]
    BY <2>4, <2>5, <2>6
  <2>8. s \in Seq(Int) /\ Len(s) = n
    <3>1. \A j \in 1 .. n : b + (-e) + (j - 1) * (-e) \in Int
      <4>1. CASE e = 1
        BY <4>1
      <4>2. CASE e = -1
        BY <4>2
      <4>3. QED
        BY <4>1, <4>2
    <3>2. QED
      BY <2>3, <3>1
  <2>9. /\ <<b>> \o s \in Seq(Int) /\ Len(<<b>> \o s) = n + 1
        /\ \A j \in 1 .. n + 1 : (<<b>> \o s)[j] = IF j = 1 THEN b ELSE s[j - 1]
    BY <2>8
  <2>10. t = <<b>> \o s
    <3>1. PICK y : y = <<b>> \o s
      OBVIOUS
    <3>2. y \in Seq(Int) /\ Len(t) = Len(y) /\ \A j \in 1 .. Len(t) : t[j] = y[j]
      BY <2>7, <2>9, <3>1
    <3>3. t = y
      BY <2>7, <3>2, SeqEqual
    <3>4. QED
      BY <3>1, <3>3
  <2>11. QED
    BY <2>2, <2>6, <2>10
<1>5. QED
  BY <1>1, <1>2, <1>3, <1>4

(* A sum over a row's pairs, a pair at a time.                             *)
PairSums(f, row, d, N) ==
  f[0] = 0 /\ \A n \in 1 .. N : f[n] = f[n - 1] + (row[2 * n - 1] - row[2 * n]) * d

LEMMA KeptSum ==
  ASSUME NEW row, NEW N \in Nat, Len(row) \div 2 = N, NEW d
  PROVE  \E f : PairSums(f, row, d, N) /\ kept(row, d) = f[N]
<1> DEFINE More(x, i) == x + (row[2 * i - 1] - row[2 * i]) * d
           Is(f, i) == IF i = 0 THEN 0 ELSE More(f[i - 1], i)
           Good(f, n) == f = [i \in 0 .. n |-> Is(f, i)]
           bad == {n \in 0 .. N : ~ \E f : Good(f, n)}
<1> HIDE DEF More
<1>1. bad = {}
  <2> SUFFICES ASSUME bad # {} PROVE FALSE
    OBVIOUS
  <2>1. PICK n \in bad : \A y \in bad : n <= y
    <3> HIDE DEF Good
    <3>1. bad \subseteq Nat
      OBVIOUS
    <3> HIDE DEF bad
    <3>2. QED
      BY <3>1, LeastNatural
  <2>2. CASE n = 0
    <3> DEFINE f == [i \in 0 .. 0 |-> 0]
    <3>1. Good(f, 0)
      BY SMT
    <3>2. QED
      BY <2>1, <2>2, <3>1
  <2>3. CASE n # 0
    <3>1. n \in Nat /\ n - 1 \in Nat /\ n - 1 \notin bad /\ n - 1 \in 0 .. N
      <4> HIDE DEF Good
      <4>1. n \in Nat /\ n - 1 \in Nat /\ ~(n <= n - 1) /\ n - 1 \in 0 .. N
        BY <2>3
      <4> HIDE DEF bad
      <4>2. QED
        BY <2>1, <4>1
    <3>2. PICK f : Good(f, n - 1)
      BY <3>1
    <3> DEFINE u == [i \in 0 .. n |-> IF i = n THEN More(f[n - 1], n) ELSE f[i]]
    <3>3. Good(u, n)
      <4>1. ASSUME NEW i \in 0 .. n PROVE u[i] = Is(u, i)
        <5>1. CASE i = n
          BY <3>1, <5>1
        <5>2. CASE i # n
          <6>1. i \in 0 .. n - 1 /\ u[i] = f[i] /\ f[i] = Is(f, i)
            BY <3>1, <3>2, <5>2
          <6>2. i # 0 => i - 1 \in 0 .. n /\ i - 1 # n
            BY <3>1, <5>2
          <6>3. QED
            BY <6>1, <6>2
        <5>3. QED
          BY <5>1, <5>2
      <4> QED
        BY <4>1
    <3>4. QED
      BY <2>1, <3>3
  <2>4. QED
    BY <2>2, <2>3
<1> DEFINE all == CHOOSE f : f = [i \in 0 .. Len(row) \div 2 |->
                    IF i = 0 THEN 0 ELSE f[i - 1] + (row[2 * i - 1] - row[2 * i]) * d]
<1>2. \E f : f = [i \in 0 .. Len(row) \div 2 |->
                    IF i = 0 THEN 0 ELSE f[i - 1] + (row[2 * i - 1] - row[2 * i]) * d]
  <2>1. \E f : Good(f, N)
    <3> HIDE DEF Good
    <3>1. N \in 0 .. N
      OBVIOUS
    <3>2. QED
      BY <1>1, <3>1
  <2>2. PICK f : f = [i \in 0 .. N |-> IF i = 0 THEN 0 ELSE f[i - 1] + (row[2 * i - 1] - row[2 * i]) * d]
    BY <2>1 DEF More
  <2>3. QED
    BY <2>2, Zenon
<1>3. all = [i \in 0 .. Len(row) \div 2 |->
               IF i = 0 THEN 0 ELSE all[i - 1] + (row[2 * i - 1] - row[2 * i]) * d]
  BY <1>2
<1>4. kept(row, d) = all[N]
  BY DEF kept
<1> HIDE DEF all
<1>5. \A n \in 0 .. N : all[n] = IF n = 0 THEN 0 ELSE all[n - 1] + (row[2 * n - 1] - row[2 * n]) * d
  BY <1>3
<1>6. 0 \in 0 .. N /\ \A n \in 1 .. N : n \in 0 .. N /\ n # 0
  OBVIOUS
<1>7. PairSums(all, row, d, N)
  BY <1>5, <1>6 DEF PairSums
<1>8. QED
  BY <1>4, <1>7

(* A row and one more range.                                               *)
LEMMA OneMoreRange ==
  ASSUME NEW row \in Ints, Len(row) % 2 = 0, NEW a \in Int, NEW b \in Int, NEW d \in {Asc, Desc}
  PROVE  /\ Back(row, d) \in Ints
         /\ Back(Append(Append(row, a), b), d) = Span942(a, b, d) \o Back(row, d)
         /\ kept(row, d) \in Int /\ kept(Append(Append(row, a), b), d) = kept(row, d) + (a - b) * d
<1>1. PICK n \in Nat : Len(row) = 2 * n /\ Len(row) \div 2 = n
  <2>1. Len(row) \in Nat
    BY DEF Ints
  <2>2. QED
    BY <2>1
<1>2. PICK longer : /\ longer = Append(Append(row, a), b) /\ longer \in Seq(Int) /\ Len(longer) = 2 * n + 2
                    /\ longer[2 * n + 1] = a /\ longer[2 * n + 2] = b
                    /\ \A i \in 1 .. 2 * n : longer[i] = row[i]
  <2>1. PICK one : one = Append(row, a) /\ one \in Seq(Int) /\ Len(one) = 2 * n + 1
                   /\ one[2 * n + 1] = a /\ \A i \in 1 .. 2 * n : one[i] = row[i]
    <3>1. Append(row, a) \in Seq(Int) /\ Len(Append(row, a)) = 2 * n + 1 /\ Append(row, a)[2 * n + 1] = a
      BY <1>1 DEF Ints
    <3>2. \A i \in 1 .. 2 * n : Append(row, a)[i] = row[i]
      BY <1>1 DEF Ints
    <3>3. QED
      BY <3>1, <3>2
  <2>2. Append(one, b) \in Seq(Int) /\ Len(Append(one, b)) = 2 * n + 2
    BY <2>1
  <2>3. Append(one, b)[2 * n + 2] = b /\ \A i \in 1 .. 2 * n + 1 : Append(one, b)[i] = one[i]
    BY <2>1
  <2>4. 2 * n + 1 \in 1 .. 2 * n + 1 /\ \A i \in 1 .. 2 * n : i \in 1 .. 2 * n + 1
    OBVIOUS
  <2>5. QED
    BY <2>1, <2>2, <2>3, <2>4
<1>3. PICK x \in Ints : x = Span942(a, b, d)
  BY SpanGrows
<1> DEFINE s == [r \in 1 .. n |-> Range942(row, 2 * n - 2 * (r - 1), d)]
           t == [r \in 1 .. n + 1 |-> IF r = 1 THEN x ELSE s[r - 1]]
<1>4. s \in [1 .. n -> Ints]
  <2>1. ASSUME NEW r \in 1 .. n PROVE Range942(row, 2 * n - 2 * (r - 1), d) \in Ints
    <3>1. 2 * n - 2 * (r - 1) \in 2 .. Len(row)
      BY <1>1
    <3>2. QED
      BY <3>1, RangeWalks
  <2>2. QED
    BY <2>1
<1>5. Back(row, d) = FlattenSeq(s)
  BY <1>1 DEF Back
<1>6. Back(longer, d) = FlattenSeq(t)
  <2>1. Len(longer) \div 2 = n + 1 /\ Len(longer) = 2 * n + 2
    BY <1>2
  <2>2. ASSUME NEW r \in 1 .. n + 1 PROVE Range942(longer, (2 * n + 2) - 2 * (r - 1), d) = t[r]
    <3>0. longer \in Ints /\ (2 * n + 2) - 2 * (r - 1) \in 2 .. Len(longer)
      BY <1>2 DEF Ints
    <3>1. Range942(longer, (2 * n + 2) - 2 * (r - 1), d)
            = Span942(longer[((2 * n + 2) - 2 * (r - 1)) - 1], longer[(2 * n + 2) - 2 * (r - 1)], d)
      BY <3>0, RangeIsSpan
    <3>2. CASE r = 1
      <4>1. (2 * n + 2) - 2 * (r - 1) = 2 * n + 2 /\ ((2 * n + 2) - 2 * (r - 1)) - 1 = 2 * n + 1
        BY <3>2
      <4>2. QED
        BY <1>2, <1>3, <3>1, <3>2, <4>1
    <3>3. CASE r # 1
      <4>1. r - 1 \in 1 .. n /\ (2 * n + 2) - 2 * (r - 1) = 2 * n - 2 * ((r - 1) - 1)
        BY <3>3
      <4>2. PICK i \in 2 .. Len(row) : i = 2 * n - 2 * ((r - 1) - 1)
        BY <1>1, <4>1
      <4>3. Range942(row, i, d) = Span942(row[i - 1], row[i], d)
        BY RangeIsSpan
      <4>4. longer[i] = row[i] /\ longer[i - 1] = row[i - 1]
        <5>1. i \in 1 .. 2 * n /\ i - 1 \in 1 .. 2 * n
          BY <1>1
        <5>2. QED
          BY <1>2, <5>1
      <4>5. t[r] = Range942(row, i, d)
        BY <3>3, <4>1, <4>2
      <4>6. QED
        BY <3>1, <4>1, <4>2, <4>3, <4>4, <4>5
    <3>4. QED
      BY <3>2, <3>3
  <2>3. Back(longer, d) = FlattenSeq([r \in 1 .. n + 1 |-> Range942(longer, (2 * n + 2) - 2 * (r - 1), d)])
    BY <2>1 DEF Back
  <2>4. [r \in 1 .. n + 1 |-> Range942(longer, (2 * n + 2) - 2 * (r - 1), d)] = t
    BY <2>2
  <2>5. QED
    BY <2>3, <2>4
<1>7. FlattenSeq(s) \in Ints /\ FlattenSeq(t) = x \o FlattenSeq(s)
  <2> HIDE DEF s
  <2>1. QED
    BY <1>3, <1>4, FlattenCons
<1>8. kept(row, d) \in Int /\ kept(longer, d) = kept(row, d) + (a - b) * d
  <2>1. Len(longer) \div 2 = n + 1 /\ n + 1 \in Nat
    BY <1>2
  <2>2. PICK f : PairSums(f, row, d, n) /\ kept(row, d) = f[n]
    BY <1>1, KeptSum
  <2>3. PICK g : PairSums(g, longer, d, n + 1) /\ kept(longer, d) = g[n + 1]
    BY <2>1, KeptSum
  <2>4. PICK e \in {1, -1} : e = d
    BY DEF Asc, Desc
  <2> DEFINE odd == {i \in 0 .. n : ~(f[i] \in Int /\ g[i] = f[i])}
  <2>5. odd = {}
    <3> SUFFICES ASSUME odd # {} PROVE FALSE
      OBVIOUS
    <3>1. PICK i \in odd : \A y \in odd : i <= y
      BY LeastNatural, odd \subseteq Nat
    <3>2. i \in 0 .. n /\ ~(f[i] \in Int /\ g[i] = f[i])
      BY <3>1
    <3>3. i # 0
      BY <2>2, <2>3, <3>2 DEF PairSums
    <3>4. i - 1 \in 0 .. n /\ ~(i <= i - 1) /\ i \in 1 .. n /\ i \in 1 .. n + 1
      BY <3>2, <3>3
    <3>5. i - 1 \notin odd
      BY <3>1, <3>4
    <3>6. f[i - 1] \in Int /\ g[i - 1] = f[i - 1]
      BY <3>4, <3>5
    <3>7. 2 * i \in 1 .. 2 * n /\ 2 * i - 1 \in 1 .. 2 * n
      BY <3>4
    <3>8. PICK y \in Int, z \in Int : /\ y = row[2 * i - 1] /\ z = row[2 * i]
                                      /\ y = longer[2 * i - 1] /\ z = longer[2 * i]
      <4>1. row \in Seq(Int)
        BY DEF Ints
      <4>2. row[2 * i - 1] \in Int /\ row[2 * i] \in Int
        BY <1>1, <3>7, <4>1, ElementOfSeq
      <4>3. QED
        BY <1>2, <3>7, <4>2
    <3>9. f[i] = f[i - 1] + (y - z) * e /\ g[i] = f[i - 1] + (y - z) * e
      BY <2>2, <2>3, <2>4, <3>4, <3>6, <3>8 DEF PairSums
    <3>10. (y - z) * e \in Int
      BY <2>4
    <3>11. QED
      BY <3>2, <3>6, <3>9, <3>10
  <2>6. n \in 0 .. n /\ n \notin odd
    BY <2>5
  <2>7. g[n] = f[n] /\ f[n] \in Int
    BY <2>6
  <2>8. g[n + 1] = g[n] + (a - b) * d
    <3>1. n + 1 \in 1 .. n + 1 /\ (n + 1) - 1 = n /\ 2 * (n + 1) = 2 * n + 2 /\ 2 * (n + 1) - 1 = 2 * n + 1
      OBVIOUS
    <3>2. g[n + 1] = g[(n + 1) - 1] + (longer[2 * (n + 1) - 1] - longer[2 * (n + 1)]) * d
      BY <2>3, <3>1 DEF PairSums
    <3>3. QED
      BY <1>2, <3>1, <3>2
  <2>9. QED
    BY <2>2, <2>3, <2>7, <2>8
<1>9. QED
  BY <1>2, <1>3, <1>5, <1>6, <1>7, <1>8

-----------------------------------------------------------------------------
(* What record adds for one block.                                         *)
LEMMA Opposite ==
  ASSUME NEW d \in {Asc, Desc}
  PROVE  /\ d \in {1, -1} /\ -d \in {Asc, Desc} /\ -d \in Int /\ d \in Int /\ d * d = 1
         /\ \A x \in Int : x * d \in Int /\ x * (-d) = (0 - x) * d /\ (0 - x) * d = 0 - x * d
         /\ \A x, y \in Int : (x + y) * d = x * d + y * d /\ (x - y) * d = x * d - y * d
<1>1. PICK e \in {1, -1} : e = d
  BY DEF Asc, Desc
<1>2. -e = 0 - e
  OBVIOUS
<1>3. CASE e = 1
  BY <1>1, <1>2, <1>3 DEF Asc, Desc
<1>4. CASE e = -1
  <2>1. 0 - e = 1
    BY <1>4
  <2>2. -e = 1
    BY <1>2, <2>1
  <2>3. QED
    BY <1>1, <1>4, <2>2 DEF Asc, Desc
<1>5. QED
  BY <1>3, <1>4

LEMMA MarkMore ==
  ASSUME NEW out, NEW d \in {Asc, Desc}, NEW nkb, Marks(out, d, nkb), NEW m \in Int, Marker(m, d, nkb),
         \A i \in 1 .. Len(out) : (m - out[i]) * d > 0
  PROVE  /\ Marks(Append(out, m), d, nkb) /\ Len(Append(out, m)) = Len(out) + 1
         /\ \A next \in Int : (next - m) * d > 0 =>
              \A i \in 1 .. Len(out) + 1 : (next - Append(out, m)[i]) * d > 0
<1>1. PICK n \in Nat : n = Len(out) /\ out \in Seq(Int)
  BY DEF Marks, Ints
<1>2. PICK more : /\ more = Append(out, m) /\ more \in Seq(Int) /\ Len(more) = n + 1 /\ more[n + 1] = m
                  /\ \A i \in 1 .. n : more[i] = out[i]
  <2>1. Append(out, m) \in Seq(Int) /\ Len(Append(out, m)) = n + 1
    BY <1>1
  <2>2. Append(out, m)[n + 1] = m
    BY <1>1
  <2>3. \A i \in 1 .. n : Append(out, m)[i] = out[i]
    BY <1>1
  <2>4. QED
    BY <2>1, <2>2, <2>3
<1>3. \A i \in 1 .. n : out[i] \in Int
  BY <1>1, ElementOfSeq
<1>4. \A i \in 1 .. n + 1 : Marker(more[i], d, nkb)
  <2>1. \A i \in 1 .. n + 1 : i \in 1 .. n \/ i = n + 1
    OBVIOUS
  <2>2. QED
    BY <1>1, <1>2, <2>1 DEF Marks
<1>5. PICK e \in {1, -1} : e = d
  BY DEF Asc, Desc
<1>6. ASSUME NEW i \in 1 .. n + 1, NEW j \in 1 .. n + 1, i <= j
      PROVE  (more[j] - more[i]) * d >= j - i
  <2>1. CASE j \in 1 .. n
    <3>1. i \in 1 .. n
      BY <1>6, <2>1
    <3>2. (out[j] - out[i]) * d >= j - i
      BY <1>1, <1>6, <2>1, <3>1 DEF Marks
    <3>3. QED
      BY <1>2, <2>1, <3>1, <3>2
  <2>2. CASE j = n + 1 /\ i = n + 1
    <3>1. (m - m) * d >= 0
      BY <1>5
    <3>2. QED
      BY <1>2, <2>2, <3>1
  <2>3. CASE j = n + 1 /\ i \in 1 .. n
    <3>1. n \in 1 .. n /\ i <= n
      BY <2>3
    <3>2. (out[n] - out[i]) * d >= n - i /\ (m - out[n]) * d > 0
      BY <1>1, <2>3, <3>1 DEF Marks
    <3>3. PICK x \in Int, y \in Int : x = out[i] /\ y = out[n]
      BY <1>3, <2>3, <3>1
    <3>4. (y - x) * e >= n - i /\ (m - y) * e > 0
      BY <1>5, <3>2, <3>3
    <3>5. (m - x) * e >= (n + 1) - i
      <4>1. CASE e = 1
        BY <3>4, <4>1
      <4>2. CASE e = -1
        BY <3>4, <4>2
      <4>3. QED
        BY <4>1, <4>2
    <3>6. QED
      BY <1>2, <1>5, <2>3, <3>3, <3>5
  <2>4. QED
    BY <1>6, <2>1, <2>2, <2>3
<1>7. ASSUME NEW next \in Int, (next - m) * d > 0, NEW i \in 1 .. n + 1
      PROVE  (next - more[i]) * d > 0
  <2>1. CASE i = n + 1
    BY <1>2, <1>7, <2>1
  <2>2. CASE i \in 1 .. n
    <3>1. PICK x \in Int : x = out[i]
      BY <1>3, <2>2
    <3>2. (m - x) * e > 0 /\ (next - m) * e > 0
      BY <1>1, <1>5, <1>7, <2>2, <3>1
    <3>3. (next - x) * e > 0
      <4>1. CASE e = 1
        BY <3>2, <4>1
      <4>2. CASE e = -1
        BY <3>2, <4>2
      <4>3. QED
        BY <4>1, <4>2
    <3>4. QED
      BY <1>2, <1>5, <2>2, <3>1, <3>3
  <2>3. QED
    BY <2>1, <2>2
<1>8. Marks(more, d, nkb)
  BY <1>2, <1>4, <1>6 DEF Marks, Ints
<1>9. QED
  BY <1>1, <1>2, <1>7, <1>8

(* The range that b extends or opens, closed behind b.                     *)
RangeWith(base, b, d, nkb, blocks) ==
  /\ Marks(base, d, nkb) /\ Len(base) % 2 # 0 /\ Marks(Append(base, b + d), d, nkb)
  /\ Len(Append(base, b + d)) = Len(base) + 1
  /\ \A i \in 1 .. Len(base) : ((b + d) - base[i]) * d > 0
  /\ \A next \in Int : (next - (b + d)) * d > 0 =>
        \A i \in 1 .. Len(base) + 1 : (next - Append(base, b + d)[i]) * d > 0
  /\ Back(Append(base, b + d), -d) = Reverse(Append(blocks, b))
  /\ kept(Append(base, b + d), -d) = Len(Append(blocks, b))

LEMMA KeepsBlock ==
  ASSUME NEW st, NEW b \in Int, NEW d \in {Asc, Desc}, NEW nkb \in Nat \ {0}, NEW blocks \in Ints,
         Encodes(st, b, d, nkb, blocks), b \in 0 .. nkb - 1,
         NEW base, base = IF st.skip THEN Append(st.out, b) ELSE st.out
  PROVE  RangeWith(base, b, d, nkb, blocks)
<1>1. PICK out : out = st.out /\ base = (IF st.skip THEN Append(out, b) ELSE out)
  OBVIOUS
<1>2. /\ Marks(out, d, nkb) /\ out \in Seq(Int) /\ (st.skip <=> Len(out) % 2 = 0) /\ st.skip \in BOOLEAN
      /\ \A i \in 1 .. Len(out) : (b - out[i]) * d > 0
      /\ Back(Closed(st, b), -d) = Reverse(blocks) /\ kept(Closed(st, b), -d) = Len(blocks)
  BY <1>1 DEF Encodes, Marks, Ints
<1>3. PICK e \in {1, -1} : e = d /\ b + e \in Int /\ b + e = b + d
  BY DEF Asc, Desc
<1>4. Marker(b, d, nkb) /\ Marker(b + d, d, nkb)
  BY <1>3 DEF Marker, Asc, Desc
<1>5. ((b + d) - b) * d > 0
  BY <1>3
<1>6. \A i \in 1 .. Len(out) : ((b + d) - out[i]) * d > 0
  <2> TAKE i \in 1 .. Len(out)
  <2>1. PICK x \in Int : x = out[i]
    BY <1>2, ElementOfSeq
  <2>2. (b - x) * e > 0
    BY <1>2, <1>3, <2>1
  <2>3. ((b + e) - x) * e > 0
    <3>1. CASE e = 1
      BY <2>2, <3>1
    <3>2. CASE e = -1
      BY <2>2, <3>2
    <3>3. QED
      BY <3>1, <3>2
  <2>4. QED
    BY <1>3, <2>1, <2>3
<1>7. /\ Marks(base, d, nkb) /\ Len(base) % 2 # 0
      /\ \A i \in 1 .. Len(base) : ((b + d) - base[i]) * d > 0
  <2>1. CASE st.skip
    <3>1. base = Append(out, b)
      BY <1>1, <2>1
    <3>2. Marks(Append(out, b), d, nkb) /\ Len(Append(out, b)) = Len(out) + 1
      BY <1>2, <1>4, MarkMore
    <3>3. \A i \in 1 .. Len(out) + 1 : ((b + d) - Append(out, b)[i]) * d > 0
      <4>1. b + d \in Int
        BY <1>3
      <4>2. QED
        BY <1>2, <1>4, <1>5, <4>1, MarkMore
    <3>4. Len(out) \in Nat /\ Len(out) % 2 = 0
      BY <1>2, <2>1
    <3>5. (Len(out) + 1) % 2 # 0
      BY <3>4
    <3>6. QED
      BY <3>1, <3>2, <3>3, <3>5
  <2>2. CASE ~st.skip
    BY <1>1, <1>2, <1>6, <2>2
  <2>3. QED
    BY <2>1, <2>2
<1>8. /\ Marks(Append(base, b + d), d, nkb) /\ Len(Append(base, b + d)) = Len(base) + 1
      /\ \A next \in Int : (next - (b + d)) * d > 0 =>
              \A i \in 1 .. Len(base) + 1 : (next - Append(base, b + d)[i]) * d > 0
  <2>1. b + d \in Int
    BY <1>3
  <2>2. QED
    BY <1>4, <1>7, <2>1, MarkMore
<1>9. Reverse(Append(blocks, b)) = <<b>> \o Reverse(blocks) /\ Reverse(blocks) \in Seq(Int)
  BY ReverseAppend DEF Ints
<1>10. Len(Append(blocks, b)) = Len(blocks) + 1
  BY DEF Ints
<1>11. PICK f \in {Asc, Desc} : f = -d
  BY Opposite
<1>12. f \in {Asc, Desc}
  BY <1>11
<1>13. /\ Back(Append(base, b + d), -d) = <<b>> \o Reverse(blocks)
       /\ kept(Append(base, b + d), -d) = Len(blocks) + 1
  <2>1. CASE st.skip
    <3>1. Closed(st, b) = out /\ base = Append(out, b)
      BY <1>1, <2>1 DEF Closed
    <3>2. /\ Back(Append(Append(out, b), b + d), -d) = Span942(b, b + d, -d) \o Back(out, -d)
          /\ kept(Append(Append(out, b), b + d), -d) = kept(out, -d) + (b - (b + d)) * (-d)
      <4>1. PICK c \in Int : c = b + d
        BY <1>3
      <4>2. out \in Ints /\ Len(out) % 2 = 0 /\ c \in Int
        BY <1>2, <2>1, <4>1 DEF Ints
      <4>3. /\ Back(Append(Append(out, b), c), f) = Span942(b, c, f) \o Back(out, f)
            /\ kept(Append(Append(out, b), c), f) = kept(out, f) + (b - c) * f
        <5>1. Back(Append(Append(out, b), c), f) = Span942(b, c, f) \o Back(out, f)
          BY <1>12, <4>2, OneMoreRange
        <5>2. kept(Append(Append(out, b), c), f) = kept(out, f) + (b - c) * f
          BY <1>12, <4>2, OneMoreRange
        <5>3. QED
          BY <5>1, <5>2
      <4>4. QED
        BY <1>11, <4>1, <4>3
    <3>3. Span942(b, b + d, -d) = <<b>>
      BY SpanGrows
    <3>4. (b - (b + d)) * (-d) = 1
      <4>1. CASE e = 1
        BY <1>3, <4>1
      <4>2. CASE e = -1
        BY <1>3, <4>2
      <4>3. QED
        BY <4>1, <4>2
    <3>5. QED
      BY <1>2, <3>1, <3>2, <3>3, <3>4
  <2>2. CASE ~st.skip
    <3>1. Closed(st, b) = Append(out, b) /\ base = out
      BY <1>1, <2>2 DEF Closed
    <3>2. Len(out) \in Nat \ {0} /\ (Len(out) - 1) % 2 = 0
      <4>1. Len(out) \in Nat /\ Len(out) % 2 # 0
        BY <1>2, <2>2
      <4>2. QED
        BY <4>1
    <3>3. PICK row, a : /\ row \in Ints /\ a \in Int /\ Len(row) % 2 = 0 /\ out = Append(row, a)
                        /\ a = out[Len(out)]
      <4>1. PICK l \in Nat : l = Len(out) - 1 /\ l + 1 = Len(out)
        BY <3>2
      <4>2. PICK row : row = [i \in 1 .. l |-> out[i]]
        OBVIOUS
      <4>3. \A i \in 1 .. l + 1 : out[i] \in Int
        BY <1>2, <4>1, ElementOfSeq
      <4>4. row \in Seq(Int) /\ Len(row) = l
        BY <4>2, <4>3
      <4>5. Append(row, out[l + 1]) = out
        <5>1. PICK x \in Int : x = out[l + 1]
          BY <4>3
        <5>2. PICK longer : longer = Append(row, x)
          OBVIOUS
        <5>3. longer \in Seq(Int) /\ Len(longer) = l + 1 /\ longer[l + 1] = x
          BY <4>4, <5>2
        <5>4. \A i \in 1 .. l : longer[i] = out[i]
          BY <4>2, <4>4, <5>2
        <5>5. \A i \in 1 .. Len(longer) : longer[i] = out[i]
          <6>1. \A i \in 1 .. l + 1 : i \in 1 .. l \/ i = l + 1
            OBVIOUS
          <6>2. QED
            BY <5>1, <5>3, <5>4, <6>1
        <5>6. longer = out
          BY <1>2, <4>1, <5>3, <5>5, SeqEqual
        <5>7. QED
          BY <5>1, <5>2, <5>6
      <4>6. l + 1 \in 1 .. l + 1
        OBVIOUS
      <4>7. QED
        BY <3>2, <4>1, <4>3, <4>4, <4>5, <4>6 DEF Ints
    <3>4. (b - a) * d > 0
      <4>1. Len(out) \in 1 .. Len(out)
        BY <3>2
      <4>2. QED
        BY <1>2, <3>3, <4>1
    <3>5. Span942(a, b + d, -d) = <<b>> \o Span942(a, b, -d) /\ Span942(a, b, -d) \in Seq(Int)
      <4>1. Span942(a, b + d, -d) = <<b>> \o Span942(a, b, -d)
        BY <3>3, <3>4, SpanGrows
      <4>2. Span942(a, b, -d) \in Ints
        BY <1>11, <3>3, SpanGrows
      <4>3. QED
        BY <4>1, <4>2 DEF Ints
    <3>6. /\ Back(Append(out, b), -d) = Span942(a, b, -d) \o Back(row, -d) /\ Back(row, -d) \in Seq(Int)
          /\ kept(Append(out, b), -d) = kept(row, -d) + (a - b) * (-d) /\ kept(row, -d) \in Int
      <4>1. /\ Back(Append(Append(row, a), b), f) = Span942(a, b, f) \o Back(row, f) /\ Back(row, f) \in Ints
            /\ kept(Append(Append(row, a), b), f) = kept(row, f) + (a - b) * f /\ kept(row, f) \in Int
        <5>1. Back(Append(Append(row, a), b), f) = Span942(a, b, f) \o Back(row, f)
          BY <1>12, <3>3, OneMoreRange
        <5>2. kept(Append(Append(row, a), b), f) = kept(row, f) + (a - b) * f
          BY <1>12, <3>3, OneMoreRange
        <5>3. Back(row, f) \in Ints
          BY <1>12, <3>3, OneMoreRange
        <5>4. kept(row, f) \in Int
          BY <1>12, <3>3, OneMoreRange
        <5>5. QED
          BY <5>1, <5>2, <5>3, <5>4
      <4>2. QED
        BY <1>11, <3>3, <4>1 DEF Ints
    <3>7. /\ Back(Append(out, b + d), -d) = Span942(a, b + d, -d) \o Back(row, -d)
          /\ kept(Append(out, b + d), -d) = kept(row, -d) + (a - (b + d)) * (-d)
      <4>1. PICK c \in Int : c = b + d
        BY <1>3
      <4>2. c \in Int
        BY <4>1
      <4>3. /\ Back(Append(Append(row, a), c), f) = Span942(a, c, f) \o Back(row, f)
            /\ kept(Append(Append(row, a), c), f) = kept(row, f) + (a - c) * f
        <5>1. Back(Append(Append(row, a), c), f) = Span942(a, c, f) \o Back(row, f)
          BY <1>12, <3>3, <4>2, OneMoreRange
        <5>2. kept(Append(Append(row, a), c), f) = kept(row, f) + (a - c) * f
          BY <1>12, <3>3, <4>2, OneMoreRange
        <5>3. QED
          BY <5>1, <5>2
      <4>4. QED
        BY <1>11, <3>3, <4>1, <4>3
    <3>8. (<<b>> \o Span942(a, b, -d)) \o Back(row, -d) = <<b>> \o (Span942(a, b, -d) \o Back(row, -d))
      <4>1. <<b>> \in Seq(Int)
        OBVIOUS
      <4>2. QED
        BY <3>5, <3>6, <4>1, ConcatThree
    <3>9. (a - (b + d)) * (-d) = (a - b) * (-d) + 1 /\ (a - b) * (-d) \in Int
      <4>1. CASE e = 1
        BY <1>3, <3>3, <4>1
      <4>2. CASE e = -1
        BY <1>3, <3>3, <4>2
      <4>3. QED
        BY <4>1, <4>2
    <3>10. QED
      <4>1. Back(Append(base, b + d), -d) = <<b>> \o Reverse(blocks)
        BY <1>2, <3>1, <3>5, <3>6, <3>7, <3>8
      <4>2. kept(Append(base, b + d), -d) = Len(blocks) + 1
        <5>1. Len(blocks) = kept(row, -d) + (a - b) * (-d)
          BY <1>2, <3>1, <3>6
        <5>2. kept(Append(out, b + d), -d) = kept(row, -d) + ((a - b) * (-d) + 1)
          BY <3>7, <3>9
        <5>3. PICK x \in Int, y \in Int : x = kept(row, -d) /\ y = (a - b) * (-d)
          BY <3>6, <3>9
        <5>4. x + (y + 1) = (x + y) + 1
          BY <5>3
        <5>5. QED
          BY <3>1, <5>1, <5>2, <5>3, <5>4
      <4>3. QED
        BY <4>1, <4>2
  <2>3. QED
    BY <2>1, <2>2
<1>14. QED
  BY <1>7, <1>8, <1>9, <1>10, <1>13 DEF RangeWith

(* One record: what it writes is the blocks kept, b with them unless it is *)
(* skipped.                                                                *)
LEMMA RecordEncodes ==
  ASSUME NEW st, NEW b \in Int, NEW d \in {Asc, Desc}, NEW nkb \in Nat \ {0}, NEW blocks \in Ints,
         Encodes(st, b, d, nkb, blocks), b \in 0 .. nkb - 1,
         NEW skip \in BOOLEAN, NEW closes \in BOOLEAN, NEW next \in Int,
         IF closes THEN (next - b) * d >= 2 ELSE next = b + d
  PROVE  Encodes(Record(st, b, skip, closes, d), next, d, nkb, IF skip THEN blocks ELSE Append(blocks, b))
<1>1. PICK out, base : out = st.out /\ base = (IF st.skip THEN Append(out, b) ELSE out)
  OBVIOUS
<1>2. /\ Marks(out, d, nkb) /\ out \in Seq(Int) /\ (st.skip <=> Len(out) % 2 = 0) /\ st.skip \in BOOLEAN
      /\ \A i \in 1 .. Len(out) : (b - out[i]) * d > 0
      /\ Back(Closed(st, b), -d) = Reverse(blocks) /\ kept(Closed(st, b), -d) = Len(blocks)
  BY <1>1 DEF Encodes, Marks, Ints
<1>3. PICK e \in {1, -1} : e = d
  BY DEF Asc, Desc
<1>4. (next - b) * d > 0
  <2>1. CASE closes
    <3>1. (next - b) * e \in Int
      <4>1. CASE e = 1
        BY <4>1
      <4>2. CASE e = -1
        BY <4>2
      <4>3. QED
        BY <4>1, <4>2
    <3>2. QED
      BY <1>3, <2>1, <3>1
  <2>2. CASE ~closes
    BY <1>3, <2>2
  <2>3. QED
    BY <2>1, <2>2
<1>5. Marker(b, d, nkb)
  BY DEF Marker
<1>6. PICK after : after = Record(st, b, skip, closes, d)
  OBVIOUS
<1>7. CASE skip
  <2>1. after.skip = TRUE /\ after.out = IF st.skip THEN out ELSE Append(out, b)
    BY <1>1, <1>2, <1>6, <1>7 DEF Record
  <2>2. after.out = Closed(st, b) /\ Closed(after, next) = after.out
    BY <1>1, <2>1 DEF Closed
  <2>3. /\ Marks(after.out, d, nkb) /\ Len(after.out) % 2 = 0
        /\ \A i \in 1 .. Len(after.out) : (next - after.out[i]) * d > 0
    <3>1. CASE st.skip
      <4>1. \A i \in 1 .. Len(out) : (next - out[i]) * d > 0
        <5> TAKE i \in 1 .. Len(out)
        <5>1. PICK x \in Int : x = out[i]
          BY <1>2, ElementOfSeq
        <5>2. (b - x) * e > 0 /\ (next - b) * e > 0
          BY <1>2, <1>3, <1>4, <5>1
        <5>3. (next - x) * e > 0
          <6>1. CASE e = 1
            BY <5>2, <6>1
          <6>2. CASE e = -1
            BY <5>2, <6>2
          <6>3. QED
            BY <6>1, <6>2
        <5>4. QED
          BY <1>3, <5>1, <5>3
      <4>2. QED
        BY <1>2, <2>1, <3>1, <4>1
    <3>2. CASE ~st.skip
      <4>1. Marks(Append(out, b), d, nkb) /\ Len(Append(out, b)) = Len(out) + 1
        BY <1>2, <1>5, MarkMore
      <4>2. \A i \in 1 .. Len(out) + 1 : (next - Append(out, b)[i]) * d > 0
        BY <1>2, <1>4, <1>5, MarkMore
      <4>3. Len(out) \in Nat /\ Len(out) % 2 # 0
        <5>1. out \in Seq(Int) /\ ~(Len(out) % 2 = 0)
          BY <1>2, <3>2
        <5>2. QED
          BY <5>1
      <4>4. (Len(out) + 1) % 2 = 0
        BY <4>3
      <4>5. QED
        BY <2>1, <3>2, <4>1, <4>2, <4>4
    <3>3. QED
      BY <3>1, <3>2
  <2>4. QED
    BY <1>2, <1>6, <1>7, <2>1, <2>2, <2>3 DEF Encodes
<1>8. CASE ~skip
  <2>0. base = IF st.skip THEN Append(st.out, b) ELSE st.out
    BY <1>1
  <2>1. PICK n : n = Len(base)
    OBVIOUS
  <2>2. /\ Marks(base, d, nkb) /\ n % 2 # 0 /\ Marks(Append(base, b + d), d, nkb)
        /\ Len(Append(base, b + d)) = n + 1
        /\ \A i \in 1 .. n : ((b + d) - base[i]) * d > 0
        /\ \A x \in Int : (x - (b + d)) * d > 0 =>
              \A i \in 1 .. n + 1 : (x - Append(base, b + d)[i]) * d > 0
        /\ Back(Append(base, b + d), -d) = Reverse(Append(blocks, b))
        /\ kept(Append(base, b + d), -d) = Len(Append(blocks, b))
    <3>1. RangeWith(base, b, d, nkb, blocks)
      BY <2>0, KeepsBlock
    <3>2. QED
      BY <2>1, <3>1 DEF RangeWith
  <2>3. after.skip = closes /\ after.out = IF closes THEN Append(base, b + d) ELSE base
    BY <1>1, <1>2, <1>6, <1>8 DEF Record
  <2>4. Closed(after, next) = Append(base, b + d)
    BY <2>3 DEF Closed
  <2>5. n \in Nat
    BY <2>1, <2>2 DEF Marks, Ints
  <2>6. /\ Marks(after.out, d, nkb) /\ (closes <=> Len(after.out) % 2 = 0)
        /\ \A i \in 1 .. Len(after.out) : (next - after.out[i]) * d > 0
    <3>1. CASE closes
      <4>1. (next - (b + d)) * d > 0
        <5>1. (next - b) * e >= 2
          BY <1>3, <3>1
        <5>2. (next - (b + e)) * e > 0
          <6>1. CASE e = 1
            BY <5>1, <6>1
          <6>2. CASE e = -1
            BY <5>1, <6>2
          <6>3. QED
            BY <6>1, <6>2
        <5>3. QED
          BY <1>3, <5>2
      <4>2. (n + 1) % 2 = 0
        BY <2>2, <2>5
      <4>3. QED
        BY <2>2, <2>3, <3>1, <4>1, <4>2
    <3>2. CASE ~closes
      BY <2>1, <2>2, <2>3, <3>2
    <3>3. QED
      BY <3>1, <3>2
  <2>7. QED
    BY <1>6, <1>8, <2>2, <2>3, <2>4, <2>6 DEF Encodes
<1>9. QED
  BY <1>7, <1>8

-----------------------------------------------------------------------------
(* The must-do cursor: the ranges are sorted by both ends, so of those not *)
(* left behind the next one pins a block if any does.                      *)
LEMMA MustDoRanges ==
  ASSUME NEW must \in MustDos
  PROVE  /\ Len(must) \in Nat
         /\ \A r \in 1 .. Len(must) : must[r][1] \in Int /\ must[r][2] \in Int
         /\ \A r, x \in 1 .. Len(must) : r <= x => must[r][1] <= must[x][1] /\ must[r][2] <= must[x][2]
         /\ \A b : (\E r \in ToSet(must) : r[1] <= b /\ b < r[2]) <=>
                   (\E r \in 1 .. Len(must) : must[r][1] <= b /\ b < must[r][2])
<1>1. must \in Seq(Int \X Int)
  BY MustDosAssumption
<1>2. Len(must) \in Nat /\ \A r \in 1 .. Len(must) : must[r] \in Int \X Int
  BY <1>1, ElementOfSeq
<1>3. \A r \in 1 .. Len(must) : must[r][1] \in Int /\ must[r][2] \in Int
  BY <1>2
<1>4. \A r, x \in 1 .. Len(must) : r <= x => must[r][1] <= must[x][1] /\ must[r][2] <= must[x][2]
  <2> TAKE r, x \in 1 .. Len(must)
  <2>1. CASE r = x
    BY <1>3, <2>1
  <2>2. CASE r # x
    <3>1. r <= x => r < x
      BY <1>2, <2>2
    <3>2. QED
      BY <3>1, MustDosAssumption
  <2>3. QED
    BY <2>1, <2>2
<1>5. ToSet(must) = {must[r] : r \in 1 .. Len(must)}
  BY <1>1 DEF ToSet
<1>6. QED
  BY <1>2, <1>3, <1>4, <1>5

LEMMA CursorStays ==
  ASSUME NEW must \in MustDos, NEW d \in {Asc, Desc}, NEW b \in Int, NEW next \in Int, NEW md,
         Cursor(must, md, b, d), (next - b) * d >= 0
  PROVE  Cursor(must, md, next, d)
<1>1. CASE d = Asc
  <2>1. b <= next
    BY <1>1 DEF Asc
  <2>2. QED
    BY <1>1, <2>1, MustDoRanges DEF Cursor
<1>2. CASE d = Desc
  <2>1. next <= b
    BY <1>2 DEF Desc
  <2>2. d # Asc
    BY <1>2 DEF Asc, Desc
  <2>3. \A r \in 1 .. Len(must) : must[r][1] > b => must[r][1] > next
    BY <2>1, MustDoRanges
  <2>4. QED
    BY <2>2, <2>3 DEF Cursor
<1>3. QED
  BY <1>1, <1>2

LEMMA CursorMoves ==
  ASSUME NEW must \in MustDos, NEW d \in {Asc, Desc}, NEW b \in Int, NEW at, Cursor(must, at, b, d)
  PROVE  /\ Cursor(must, MustDoCursor(must, at, b, d), b, d)
         /\ Forced(must, MustDoCursor(must, at, b, d), b) <=> \E r \in ToSet(must) : r[1] <= b /\ b < r[2]
<1>1. PICK md, n : md = MustDoCursor(must, at, b, d) /\ n = Len(must) /\ n \in Nat
  BY MustDoRanges
<1>2. /\ \A r \in 1 .. n : must[r][1] \in Int /\ must[r][2] \in Int
      /\ \A r, x \in 1 .. n : r <= x => must[r][1] <= must[x][1] /\ must[r][2] <= must[x][2]
      /\ (\E r \in ToSet(must) : r[1] <= b /\ b < r[2]) <=> (\E r \in 1 .. n : must[r][1] <= b /\ b < must[r][2])
  BY <1>1, MustDoRanges
<1>3. CASE d = Asc
  <2> DEFINE ahead == {r \in at .. n : b < must[r][2]}
  <2>1. at \in 1 .. n + 1 /\ \A r \in 1 .. n : r < at => must[r][2] <= b
    BY <1>1, <1>3 DEF Cursor
  <2>2. md = IF ahead = {} THEN n + 1 ELSE CHOOSE r \in ahead : \A x \in ahead : (x - r) * d >= 0
    BY <1>1, <1>3 DEF MustDoCursor
  <2>3. CASE ahead = {}
    <3>1. md = n + 1 /\ \A r \in 1 .. n : must[r][2] <= b
      <4>1. \A r \in 1 .. n : r < at \/ r \in at .. n
        BY <2>1
      <4>2. QED
        BY <1>2, <2>1, <2>2, <2>3, <4>1
    <3>2. Cursor(must, md, b, d)
      BY <1>1, <1>3, <3>1 DEF Cursor
    <3>3. ~Forced(must, md, b)
      BY <1>1, <3>1 DEF Forced
    <3>4. ~ \E r \in 1 .. n : must[r][1] <= b /\ b < must[r][2]
      BY <1>2, <3>1
    <3>5. QED
      BY <1>1, <1>2, <3>2, <3>3, <3>4
  <2>4. CASE ahead # {}
    <3>1. PICK r \in ahead : \A x \in ahead : r <= x
      BY <2>1, <2>4, LeastNatural, ahead \subseteq Nat
    <3>2. \A x \in ahead : (x - r) * d >= 0
      BY <1>3, <2>1, <3>1 DEF Asc
    <3>3. md \in ahead /\ \A x \in ahead : (x - md) * d >= 0
      BY <2>2, <2>4, <3>2
    <3>4. md \in at .. n /\ b < must[md][2] /\ \A x \in ahead : md <= x
      BY <1>3, <2>1, <3>3 DEF Asc
    <3>5. \A x \in 1 .. n : x < md => must[x][2] <= b
      <4>1. \A x \in 1 .. n : x < md => x < at \/ (x \in at .. n /\ x \notin ahead)
        BY <2>1, <3>4
      <4>2. QED
        BY <1>2, <2>1, <4>1
    <3>6. Cursor(must, md, b, d)
      BY <1>1, <1>3, <2>1, <3>4, <3>5 DEF Cursor
    <3>7. Forced(must, md, b) <=> must[md][1] <= b
      BY <1>1, <2>1, <3>4 DEF Forced
    <3>8. must[md][1] <= b <=> \E x \in 1 .. n : must[x][1] <= b /\ b < must[x][2]
      <4>1. ASSUME NEW x \in 1 .. n, must[x][1] <= b, b < must[x][2] PROVE must[md][1] <= b
        <5>1. ~(x < md)
          BY <1>2, <3>5, <4>1
        <5>2. md \in 1 .. n /\ md <= x
          BY <2>1, <3>4, <5>1
        <5>3. QED
          BY <1>2, <4>1, <5>2
      <4>2. md \in 1 .. n
        BY <2>1, <3>4
      <4>3. QED
        BY <3>4, <4>1, <4>2
    <3>9. QED
      BY <1>1, <1>2, <3>6, <3>7, <3>8
  <2>5. QED
    BY <2>3, <2>4
<1>4. CASE d = Desc
  <2> DEFINE ahead == {r \in 1 .. at : b >= must[r][1]}
  <2>0. d # Asc
    BY <1>4 DEF Asc, Desc
  <2>1. at \in 0 .. n /\ \A r \in 1 .. n : r > at => must[r][1] > b
    BY <1>1, <2>0 DEF Cursor
  <2>2. md = IF ahead = {} THEN 0 ELSE CHOOSE r \in ahead : \A x \in ahead : (x - r) * d >= 0
    BY <1>1, <2>0 DEF MustDoCursor
  <2>3. CASE ahead = {}
    <3>1. md = 0 /\ \A r \in 1 .. n : must[r][1] > b
      <4>1. \A r \in 1 .. n : r > at \/ r \in 1 .. at
        BY <2>1
      <4>2. QED
        BY <1>2, <2>1, <2>2, <2>3, <4>1
    <3>2. Cursor(must, md, b, d)
      BY <1>1, <2>0, <3>1 DEF Cursor
    <3>3. ~Forced(must, md, b)
      BY <1>1, <3>1 DEF Forced
    <3>4. ~ \E r \in 1 .. n : must[r][1] <= b /\ b < must[r][2]
      BY <1>2, <3>1
    <3>5. QED
      BY <1>1, <1>2, <3>2, <3>3, <3>4
  <2>4. CASE ahead # {}
    <3>1. PICK r \in ahead : \A x \in ahead : x <= r
      <4> DEFINE back == {n - x : x \in ahead}
      <4>1. back \subseteq Nat /\ back # {}
        BY <1>1, <2>1, <2>4
      <4>2. PICK y \in back : \A z \in back : y <= z
        BY <4>1, LeastNatural
      <4>3. PICK r \in ahead : y = n - r
        BY <4>2
      <4>4. \A x \in ahead : n - r <= n - x
        BY <4>2, <4>3
      <4>5. \A x \in ahead : x <= r
        BY <1>1, <2>1, <4>3, <4>4
      <4>6. QED
        BY <4>3, <4>5
    <3>2. \A x \in ahead : (x - r) * d >= 0
      BY <1>4, <2>1, <3>1 DEF Desc
    <3>3. md \in ahead /\ \A x \in ahead : (x - md) * d >= 0
      BY <2>2, <2>4, <3>2
    <3>4. md \in 1 .. at /\ must[md][1] <= b /\ \A x \in ahead : x <= md
      BY <1>2, <1>4, <2>1, <3>3 DEF Desc
    <3>5. \A x \in 1 .. n : x > md => must[x][1] > b
      <4>1. \A x \in 1 .. n : x > md => x > at \/ (x \in 1 .. at /\ x \notin ahead)
        BY <2>1, <3>4
      <4>2. QED
        BY <1>2, <2>1, <4>1
    <3>6. Cursor(must, md, b, d)
      BY <1>1, <2>0, <2>1, <3>4, <3>5 DEF Cursor
    <3>7. Forced(must, md, b) <=> b < must[md][2]
      BY <1>1, <2>1, <3>4 DEF Forced
    <3>8. b < must[md][2] <=> \E x \in 1 .. n : must[x][1] <= b /\ b < must[x][2]
      <4>1. ASSUME NEW x \in 1 .. n, must[x][1] <= b, b < must[x][2] PROVE b < must[md][2]
        <5>1. ~(x > md)
          BY <1>2, <3>5, <4>1
        <5>2. md \in 1 .. n /\ x <= md
          BY <1>1, <2>1, <3>4, <5>1
        <5>3. QED
          BY <1>2, <4>1, <5>2
      <4>2. md \in 1 .. n
        BY <1>1, <2>1, <3>4
      <4>3. QED
        BY <3>4, <4>1, <4>2
    <3>9. QED
      BY <1>1, <1>2, <3>6, <3>7, <3>8
  <2>5. QED
    BY <2>3, <2>4
<1>5. QED
  BY <1>3, <1>4

-----------------------------------------------------------------------------
(* A step recorded.                                                        *)
LEMMA DroppedByAll ==
  ASSUME NEW n \in 0 .. Steps - 1, Steps \in Nat
  PROVE  Wave0 \in Dropped[n + 1] <=> said[n + 1] = Waves /\ ~Pinned(At(n))
<1>1. n + 1 \in 1 .. Steps /\ (n + 1) - 1 = n
  OBVIOUS
<1>2. Dropped[n + 1] = IF said[n + 1] = Waves /\ ~Pinned(At(n)) THEN Waves ELSE {}
  BY <1>1 DEF Dropped
<1>3. Wave0 \in Waves
  BY WavesAssumption DEF Waves
<1>4. QED
  BY <1>2, <1>3

LEMMA KeptNext ==
  ASSUME Shapes, NEW n \in 0 .. Steps - 1
  PROVE  KeptOf(n + 1) = IF said[n + 1] = Waves /\ ~Pinned(At(n)) THEN KeptOf(n) ELSE Append(KeptOf(n), At(n))
<1>1. Steps \in Nat /\ Steps = Len(cta.walk) /\ cta.walk \in Ints
  BY DEF Shapes, Ints, Steps
<1>2. PICK m \in 1 .. Len(cta.walk) : m = n + 1 /\ m - 1 = n
  BY <1>1
<1>3. KeptOf(m) = IF Wave0 \in Dropped[m] THEN KeptOf(m - 1) ELSE Append(KeptOf(m - 1), cta.walk[m])
  BY <1>1, TakenNext DEF KeptOf
<1>4. Wave0 \in Dropped[m] <=> said[m] = Waves /\ ~Pinned(At(n))
  BY <1>1, <1>2, DroppedByAll
<1>5. QED
  BY <1>2, <1>3, <1>4 DEF At

LEMMA RecordedEncodes ==
  ASSUME Shapes, cta.must \in MustDos, NEW nkb \in Nat \ {0}, NEW n \in 0 .. Steps - 1, At(n) \in 0 .. nkb - 1,
         NEW closes \in BOOLEAN, NEW next \in Int,
         IF closes THEN (next - At(n)) * cta.dir >= 2 ELSE next = At(n) + cta.dir,
         KeptOf(n) \in Ints, Encodes(rec.list, At(n), cta.dir, nkb, KeptOf(n)),
         Cursor(cta.must, rec.md, At(n), cta.dir),
         said[n + 1] = Waves <=> \A w \in Waves : vote[w][VoteSlot(n)]
  PROVE  /\ KeptOf(n + 1) \in Ints /\ Encodes(Recorded(n, closes).list, next, cta.dir, nkb, KeptOf(n + 1))
         /\ Cursor(cta.must, Recorded(n, closes).md, next, cta.dir)
<1>1. PICK st, b, d, must : st = rec.list /\ b = At(n) /\ d = cta.dir /\ must = cta.must
  OBVIOUS
<1>2. b \in Int /\ d \in {Asc, Desc} /\ must \in MustDos
  BY <1>1 DEF Shapes
<1>3. PICK md : md = MustDoCursor(must, rec.md, b, d)
  OBVIOUS
<1>4. PICK skip : skip = ((\A w \in Waves : vote[w][VoteSlot(n)]) /\ ~Forced(must, md, b))
  OBVIOUS
<1>5. Cursor(must, md, b, d) /\ (Forced(must, md, b) <=> Pinned(b))
  BY <1>1, <1>2, <1>3, CursorMoves DEF Pinned
<1>6. skip \in BOOLEAN /\ (skip <=> said[n + 1] = Waves /\ ~Pinned(b))
  BY <1>4, <1>5
<1>7. KeptOf(n + 1) = IF skip THEN KeptOf(n) ELSE Append(KeptOf(n), b)
  BY <1>1, <1>6, KeptNext
<1>8. KeptOf(n + 1) \in Ints
  <2>1. \A x \in Ints : Append(x, b) \in Ints
    BY <1>2 DEF Ints
  <2>2. QED
    BY <1>7, <2>1
<1>9. Recorded(n, closes).list = Record(st, b, skip, closes, d) /\ Recorded(n, closes).md = md
  BY <1>1, <1>3, <1>4 DEF Recorded
<1>10. PICK blocks : blocks = KeptOf(n)
  OBVIOUS
<1>11. Encodes(Record(st, b, skip, closes, d), next, d, nkb, IF skip THEN blocks ELSE Append(blocks, b))
  <2>1. /\ blocks \in Ints /\ Encodes(st, b, d, nkb, blocks) /\ b \in 0 .. nkb - 1
        /\ IF closes THEN (next - b) * d >= 2 ELSE next = b + d
    BY <1>1, <1>10
  <2>2. QED
    BY <1>2, <1>6, <2>1, RecordEncodes
<1>12. (next - b) * d >= 0
  <2>1. PICK e \in {1, -1} : e = d
    BY <1>2 DEF Asc, Desc
  <2>2. IF closes THEN (next - b) * e >= 2 ELSE next = b + e
    BY <1>1, <2>1
  <2>3. (next - b) * e \in Int
    <3>1. CASE e = 1
      BY <1>2, <3>1
    <3>2. CASE e = -1
      BY <1>2, <3>2
    <3>3. QED
      BY <3>1, <3>2
  <2>4. (next - b) * e >= 0
    BY <1>2, <2>2, <2>3
  <2>5. QED
    BY <2>1, <2>4
<1>13. Cursor(must, md, next, d)
  BY <1>2, <1>5, <1>12, CursorStays
<1>14. QED
  BY <1>1, <1>7, <1>8, <1>9, <1>10, <1>11, <1>13

-----------------------------------------------------------------------------
(* A written row read back: its walk, and where its ranges close.          *)
Course(x, y, d, nkb) ==
  /\ x \in Ints /\ y \in Seq(BOOLEAN) /\ Len(y) = Len(x) /\ Len(x) # 0 /\ y[Len(x)] = TRUE
  /\ \A j \in 1 .. Len(x) : x[j] \in 0 .. nkb - 1
  /\ \A j \in 1 .. Len(x) - 1 : IF y[j] THEN (x[j + 1] - x[j]) * d >= 2 ELSE x[j + 1] = x[j] + d

LEMMA CourseJoins ==
  ASSUME NEW x, NEW y, NEW v, NEW z, NEW d, NEW nkb, Course(x, y, d, nkb), Course(v, z, d, nkb),
         (v[1] - x[Len(x)]) * d >= 2
  PROVE  Course(x \o v, y \o z, d, nkb) /\ (x \o v)[Len(x \o v)] = v[Len(v)]
<1>1. PICK m, n : m = Len(x) /\ n = Len(v)
  OBVIOUS
<1>2. /\ x \in Seq(Int) /\ v \in Seq(Int) /\ y \in Seq(BOOLEAN) /\ z \in Seq(BOOLEAN)
      /\ Len(y) = m /\ Len(z) = n /\ m \in Nat \ {0} /\ n \in Nat \ {0} /\ y[m] = TRUE /\ z[n] = TRUE
  BY <1>1 DEF Course, Ints
<1>3. PICK w, c : w = x \o v /\ c = y \o z
  OBVIOUS
<1>4. /\ w \in Seq(Int) /\ Len(w) = m + n /\ c \in Seq(BOOLEAN) /\ Len(c) = m + n
      /\ \A j \in 1 .. m + n : w[j] = IF j <= m THEN x[j] ELSE v[j - m]
      /\ \A j \in 1 .. m + n : c[j] = IF j <= m THEN y[j] ELSE z[j - m]
  <2>1. /\ w \in Seq(Int) /\ Len(w) = Len(x) + Len(v)
        /\ \A j \in 1 .. Len(x) + Len(v) : w[j] = IF j <= Len(x) THEN x[j] ELSE v[j - Len(x)]
    BY <1>2, <1>3, ConcatProperties
  <2>2. /\ c \in Seq(BOOLEAN) /\ Len(c) = Len(y) + Len(z)
        /\ \A j \in 1 .. Len(y) + Len(z) : c[j] = IF j <= Len(y) THEN y[j] ELSE z[j - Len(y)]
    BY <1>2, <1>3, ConcatProperties
  <2>3. QED
    BY <1>1, <1>2, <2>1, <2>2
<1>5. \A j \in 1 .. m : w[j] = x[j] /\ c[j] = y[j]
  <2> TAKE j \in 1 .. m
  <2>1. j \in 1 .. m + n /\ j <= m
    BY <1>2
  <2>2. QED
    BY <1>4, <2>1
<1>6. \A j \in 1 .. n : w[m + j] = v[j] /\ c[m + j] = z[j]
  <2> TAKE j \in 1 .. n
  <2>1. m + j \in 1 .. m + n /\ (m + j) - m = j /\ ~(m + j <= m)
    BY <1>2
  <2>2. QED
    BY <1>4, <2>1
<1>7. \A j \in 1 .. m + n : j \in 1 .. m \/ \E i \in 1 .. n : j = m + i
  <2> TAKE j \in 1 .. m + n
  <2>1. CASE j <= m
    BY <1>2, <2>1
  <2>2. CASE j > m
    <3>1. j - m \in 1 .. n /\ j = m + (j - m)
      BY <1>2, <2>2
    <3>2. QED
      BY <3>1
  <2>3. QED
    BY <1>2, <2>1, <2>2
<1>8. \A j \in 1 .. m + n : w[j] \in 0 .. nkb - 1
  <2>1. /\ \A j \in 1 .. m : x[j] \in 0 .. nkb - 1
        /\ \A j \in 1 .. n : v[j] \in 0 .. nkb - 1
    BY <1>1 DEF Course
  <2>2. \A j \in 1 .. m : w[j] \in 0 .. nkb - 1
    BY <1>5, <2>1
  <2>3. \A j \in 1 .. n : w[m + j] \in 0 .. nkb - 1
    BY <1>6, <2>1
  <2>4. QED
    BY <1>7, <2>2, <2>3
<1>9. ASSUME NEW j \in 1 .. (m + n) - 1
      PROVE  IF c[j] THEN (w[j + 1] - w[j]) * d >= 2 ELSE w[j + 1] = w[j] + d
  <2>1. CASE j <= m - 1
    <3>1. j \in 1 .. m /\ j + 1 \in 1 .. m /\ j \in 1 .. m - 1
      BY <1>2, <2>1
    <3>2. QED
      BY <1>1, <1>5, <3>1 DEF Course
  <2>2. CASE j = m
    <3>1. m \in 1 .. m /\ 1 \in 1 .. n
      BY <1>2
    <3>2. w[j] = x[m] /\ c[j] = y[m] /\ w[m + 1] = v[1]
      BY <1>5, <1>6, <2>2, <3>1
    <3>3. QED
      BY <1>1, <1>2, <2>2, <3>2
  <2>3. CASE j > m
    <3>1. PICK i \in 1 .. n - 1 : j = m + i /\ j + 1 = m + (i + 1) /\ i \in 1 .. n /\ i + 1 \in 1 .. n
      <4>1. j - m \in 1 .. n - 1
        BY <1>2, <2>3
      <4>2. QED
        BY <1>2, <4>1
    <3>2. w[j] = v[i] /\ c[j] = z[i] /\ w[j + 1] = v[i + 1]
      BY <1>6, <3>1
    <3>3. QED
      BY <1>1, <3>1, <3>2 DEF Course
  <2>4. QED
    BY <1>2, <2>1, <2>2, <2>3
<1>10. w[m + n] = v[n] /\ c[m + n] = z[n]
  <2>1. n \in 1 .. n
    BY <1>2
  <2>2. QED
    BY <1>6, <2>1
<1>11. m + n # 0 /\ m + n \in Nat
  BY <1>2
<1>12. Course(w, c, d, nkb)
  BY <1>2, <1>4, <1>8, <1>9, <1>10, <1>11 DEF Course, Ints
<1>13. QED
  BY <1>1, <1>3, <1>4, <1>10, <1>12

LEMMA RangeCourse ==
  ASSUME NEW row \in Ints, NEW i \in 2 .. Len(row), NEW d \in {Asc, Desc}, NEW nkb \in Nat \ {0},
         Marks(row, -d, nkb)
  PROVE  LET x == Range942(row, i, d) IN
         /\ Course(x, [j \in 1 .. Len(x) |-> j = Len(x)], d, nkb)
         /\ x[1] = row[i] + d /\ x[Len(x)] = row[i - 1]
<1>1. PICK a, b : a = row[i] /\ b = row[i - 1]
  OBVIOUS
<1>2. PICK e \in {1, -1} : e = d
  BY DEF Asc, Desc
<1>3. a \in Int /\ b \in Int /\ Marker(a, -d, nkb) /\ Marker(b, -d, nkb) /\ (a - b) * (-d) >= i - (i - 1)
  <2>1. i \in 1 .. Len(row) /\ i - 1 \in 1 .. Len(row) /\ i - 1 <= i /\ row \in Seq(Int)
    BY DEF Ints
  <2>2. a \in Int /\ b \in Int
    BY <1>1, <2>1, ElementOfSeq
  <2>3. QED
    BY <1>1, <2>1, <2>2 DEF Marks
<1>4. PICK n \in Nat \ {0} : /\ n = (b - a) * e /\ n = ((b + e) - (a + e)) * e
                             /\ \A j \in 1 .. n : (a + e) + (j - 1) * e \in 0 .. nkb - 1
                             /\ (a + e) + (n - 1) * e = b /\ (a + e) + (1 - 1) * e = a + e
  <2>1. CASE e = 1
    <3>1. -d = Desc /\ -d # Asc
      BY <1>2, <2>1 DEF Asc, Desc
    <3>2. a \in -1 .. nkb - 1 /\ b \in -1 .. nkb - 1
      BY <1>3, <3>1 DEF Marker
    <3>3. b - a >= 1
      BY <1>3, <3>1 DEF Desc
    <3>4. b - a \in Nat \ {0}
      BY <1>3, <3>3
    <3>5. \A j \in 1 .. b - a : (a + 1) + (j - 1) * 1 \in 0 .. nkb - 1
      BY <3>2
    <3>6. (a + 1) + ((b - a) - 1) * 1 = b
      BY <1>3
    <3>7. QED
      BY <1>3, <2>1, <3>4, <3>5, <3>6
  <2>2. CASE e = -1
    <3>1. -d = Asc
      <4>1. -e = 0 - e
        BY <1>2
      <4>2. 0 - e = 1
        BY <2>2
      <4>3. -e = -d
        BY <1>2
      <4>4. QED
        BY <4>1, <4>2, <4>3 DEF Asc
    <3>2. a \in 0 .. nkb /\ b \in 0 .. nkb
      BY <1>3, <3>1 DEF Marker
    <3>3. a - b >= 1
      BY <1>3, <3>1 DEF Asc
    <3>4. a - b \in Nat \ {0}
      BY <1>3, <3>3
    <3>5. \A j \in 1 .. a - b : (a + -1) + (j - 1) * (-1) \in 0 .. nkb - 1
      BY <3>2
    <3>6. (a + -1) + ((a - b) - 1) * (-1) = b
      BY <1>3
    <3>7. (b - a) * (-1) = a - b /\ ((b + -1) - (a + -1)) * (-1) = a - b /\ (a + -1) + (1 - 1) * (-1) = a + -1
      BY <1>3
    <3>8. QED
      BY <2>2, <3>4, <3>5, <3>6, <3>7
  <2>3. QED
    BY <2>1, <2>2
<1>5. PICK x : x = Range942(row, i, d)
  OBVIOUS
<1>6. x = [j \in 1 .. n |-> (a + e) + (j - 1) * e]
  <2>1. n = IF ((b + e) - (a + e)) * e > 1 THEN ((b + e) - (a + e)) * e ELSE 1
    BY <1>4
  <2>2. QED
    BY <1>1, <1>2, <1>5, <2>1 DEF Range942
<1>7. \A j \in 1 .. n : (a + e) + (j - 1) * e \in Int
  BY <1>4
<1>8. x \in Seq(Int) /\ Len(x) = n /\ \A j \in 1 .. n : x[j] = (a + e) + (j - 1) * e
  BY <1>6, <1>7
<1>9. PICK y : y = [j \in 1 .. n |-> j = n]
  OBVIOUS
<1>10. y \in Seq(BOOLEAN) /\ Len(y) = n /\ y[n] = TRUE /\ \A j \in 1 .. n - 1 : y[j] = FALSE
  <2>1. \A j \in 1 .. n : (j = n) \in BOOLEAN
    OBVIOUS
  <2>2. y \in Seq(BOOLEAN) /\ Len(y) = n
    BY <1>9, <2>1
  <2>3. n \in 1 .. n /\ \A j \in 1 .. n - 1 : j \in 1 .. n /\ j # n
    <3>1. n \in Nat \ {0}
      BY <1>4, Zenon
    <3>2. QED
      BY <3>1
  <2>4. y[n] = (n = n) /\ \A j \in 1 .. n - 1 : y[j] = (j = n)
    BY <1>9, <2>3
  <2>5. QED
    BY <2>2, <2>3, <2>4
<1>11. \A j \in 1 .. n - 1 : x[j + 1] = x[j] + d
  <2> TAKE j \in 1 .. n - 1
  <2>1. j \in 1 .. n /\ j + 1 \in 1 .. n /\ (j + 1) - 1 = j
    BY <1>4
  <2>2. x[j + 1] = (a + e) + j * e /\ x[j] = (a + e) + (j - 1) * e
    BY <1>8, <2>1
  <2>3. (a + e) + j * e = ((a + e) + (j - 1) * e) + e
    <3>1. CASE e = 1
      BY <1>3, <3>1
    <3>2. CASE e = -1
      BY <1>3, <3>2
    <3>3. QED
      BY <3>1, <3>2
  <2>4. QED
    BY <1>2, <2>2, <2>3
<1>12. \A j \in 1 .. n : x[j] \in 0 .. nkb - 1
  BY <1>4, <1>8
<1>13. Course(x, y, d, nkb)
  BY <1>4, <1>8, <1>10, <1>11, <1>12 DEF Course, Ints
<1>14. x[1] = a + e /\ x[n] = b
  <2>1. 1 \in 1 .. n /\ n \in 1 .. n
    BY <1>4
  <2>2. QED
    BY <1>4, <1>8, <2>1
<1>15. QED
  BY <1>1, <1>2, <1>5, <1>8, <1>9, <1>13, <1>14

LEMMA FlattenOne ==
  ASSUME NEW s, Len(s) = 1
  PROVE  FlattenSeq(s) = s[1]
<1>1. PICK N \in Nat \ {0} : N = 1
  OBVIOUS
<1>2. Len(s) = N
  BY <1>1
<1>3. PICK f : (\A n \in 1 .. N : f[n] = IF n = 1 THEN s[n] ELSE f[n - 1] \o s[n]) /\ FlattenSeq(s) = f[N]
  BY <1>1, <1>2, Flattening, Zenon
<1>4. QED
  BY <1>1, <1>3

LEMMA RowCourse ==
  ASSUME NEW row, NEW d \in {Asc, Desc}, NEW nkb \in Nat \ {0}, Written(row, -d, nkb)
  PROVE  Course(Walk(row, d), Closes(row, d), d, nkb)
<1>1. row \in Seq(Int) /\ row \in Ints /\ Marks(row, -d, nkb) /\ Len(row) % 2 = 0 /\ Len(row) \in Nat
  BY DEF Written, Marks, Ints
<1>2. CASE row = <<>>
  <2> DEFINE one == <<0>>
             seqs == <<one>>
             top == [j \in 1 .. 1 |-> j = 1]
             tops == [r \in 1 .. 1 |-> top]
  <2>1. /\ Ranges(row, d) = seqs /\ Len(seqs) = 1 /\ seqs[1] = one
        /\ one \in Seq(Int) /\ Len(one) = 1 /\ one[1] = 0
    BY <1>2 DEF Ranges
  <2> HIDE DEF one, seqs
  <2>2. /\ [r \in 1 .. Len(seqs) |-> [j \in 1 .. Len(seqs[r]) |-> j = Len(seqs[r])]] = tops
        /\ Len(tops) = 1 /\ tops[1] = top
    <3>1. \A r \in 1 .. 1 : [j \in 1 .. Len(seqs[r]) |-> j = Len(seqs[r])] = top
      <4>1. \A r \in 1 .. 1 : Len(seqs[r]) = 1
        BY <2>1
      <4>2. QED
        BY <4>1
    <3> HIDE DEF top
    <3>2. [r \in 1 .. Len(seqs) |-> [j \in 1 .. Len(seqs[r]) |-> j = Len(seqs[r])]] = tops
      BY <2>1, <3>1
    <3>3. Len(tops) = 1 /\ tops[1] = top
      OBVIOUS
    <3>4. QED
      BY <3>2, <3>3
  <2>3. top \in Seq(BOOLEAN) /\ Len(top) = 1 /\ top[1] = TRUE
    <3>1. \A j \in 1 .. 1 : (j = 1) \in BOOLEAN
      OBVIOUS
    <3>2. top \in Seq(BOOLEAN) /\ Len(top) = 1
      BY <3>1
    <3>3. 1 \in 1 .. 1
      OBVIOUS
    <3>4. top[1] = (1 = 1)
      BY <3>3
    <3>5. QED
      BY <3>2, <3>4
  <2> HIDE DEF top, tops
  <2>4. FlattenSeq(seqs) = seqs[1] /\ FlattenSeq(tops) = tops[1]
    BY <2>1, <2>2, FlattenOne
  <2>5. Walk(row, d) = one /\ Closes(row, d) = top
    BY <2>1, <2>2, <2>4 DEF Walk, Closes
  <2>6. Course(one, top, d, nkb)
    <3>1. 1 .. 1 - 1 = {} /\ \A j \in 1 .. 1 : j = 1
      OBVIOUS
    <3>2. 0 \in 0 .. nkb - 1
      OBVIOUS
    <3>3. QED
      BY <2>1, <2>3, <3>1, <3>2 DEF Course, Ints
  <2>7. QED
    BY <2>5, <2>6
<1>3. CASE row # <<>>
  <2>1. PICK N \in Nat \ {0} : Len(row) = 2 * N /\ N = Len(row) \div 2
    <3>1. Len(row) # 0
      BY <1>1, <1>3
    <3>2. QED
      BY <1>1, <3>1
  <2> DEFINE at(r) == 2 * N - 2 * (r - 1)
             x(r) == Range942(row, at(r), d)
             y(r) == [j \in 1 .. Len(x(r)) |-> j = Len(x(r))]
             seqs == [r \in 1 .. N |-> x(r)]
             tops == [r \in 1 .. N |-> y(r)]
  <2>2. \A r \in 1 .. N : at(r) \in 2 .. Len(row)
    BY <2>1
  <2> HIDE DEF at
  <2>3. \A r \in 1 .. N : /\ Course(x(r), y(r), d, nkb)
                          /\ x(r)[1] = row[at(r)] + d /\ x(r)[Len(x(r))] = row[at(r) - 1]
    <3> TAKE r \in 1 .. N
    <3>1. PICK i \in 2 .. Len(row) : i = at(r)
      BY <2>2
    <3>2. PICK s : s = Range942(row, i, d)
      OBVIOUS
    <3>3. Course(s, [j \in 1 .. Len(s) |-> j = Len(s)], d, nkb) /\ s[1] = row[i] + d /\ s[Len(s)] = row[i - 1]
      BY <1>1, <3>2, RangeCourse
    <3>4. QED
      BY <3>1, <3>2, <3>3
  <2>4. Ranges(row, d) = seqs
    BY <1>3, <2>1 DEF Ranges, at
  <2>5. [r \in 1 .. Len(seqs) |-> [j \in 1 .. Len(seqs[r]) |-> j = Len(seqs[r])]] = tops
    <3> HIDE DEF x
    <3>1. Len(seqs) = N /\ \A r \in 1 .. N : seqs[r] = x(r)
      BY <2>1
    <3>2. QED
      BY <3>1
  <2>6. Walk(row, d) = FlattenSeq(seqs) /\ Closes(row, d) = FlattenSeq(tops)
    <3> HIDE DEF seqs, tops
    <3>1. QED
      BY <2>4, <2>5 DEF Walk, Closes
  <2> HIDE DEF x, y
  <2>7. Len(seqs) = N /\ Len(tops) = N
    BY <2>1
  <2>8. \A r \in 1 .. N : seqs[r] = x(r) /\ tops[r] = y(r)
    OBVIOUS
  <2> HIDE DEF seqs, tops
  <2>9. PICK f : (\A n \in 1 .. N : f[n] = IF n = 1 THEN seqs[n] ELSE f[n - 1] \o seqs[n]) /\ FlattenSeq(seqs) = f[N]
    BY <2>1, <2>7, Flattening, Zenon
  <2>10. PICK g : (\A n \in 1 .. N : g[n] = IF n = 1 THEN tops[n] ELSE g[n - 1] \o tops[n]) /\ FlattenSeq(tops) = g[N]
    BY <2>1, <2>7, Flattening, Zenon
  <2> DEFINE Fine(n) == Course(f[n], g[n], d, nkb) /\ f[n][Len(f[n])] = row[at(n) - 1]
             odd == {n \in 1 .. N : ~Fine(n)}
  <2>11. odd = {}
    <3> SUFFICES ASSUME odd # {} PROVE FALSE
      OBVIOUS
    <3> HIDE DEF Fine
    <3>1. PICK n \in odd : \A m \in odd : n <= m
      <4>1. odd \subseteq Nat
        OBVIOUS
      <4> HIDE DEF odd
      <4>2. QED
        BY <4>1, LeastNatural
    <3>2. n \in 1 .. N /\ ~Fine(n)
      BY <3>1
    <3>3. CASE n = 1
      <4>1. f[n] = x(n) /\ g[n] = y(n)
        BY <2>8, <2>9, <2>10, <3>2, <3>3
      <4>2. QED
        BY <2>3, <3>2, <4>1 DEF Fine
    <3>4. CASE n # 1
      <4>1. n - 1 \in 1 .. N /\ ~(n <= n - 1)
        BY <3>2, <3>4
      <4>2. Fine(n - 1)
        BY <3>1, <4>1
      <4>3. PICK p, q : p = f[n - 1] /\ q = g[n - 1]
        OBVIOUS
      <4>4. Course(p, q, d, nkb) /\ p[Len(p)] = row[at(n - 1) - 1]
        BY <4>2, <4>3 DEF Fine
      <4>5. f[n] = p \o x(n) /\ g[n] = q \o y(n)
        <5>1. seqs[n] = x(n) /\ tops[n] = y(n)
          BY <2>8, <3>2
        <5>2. f[n] = f[n - 1] \o seqs[n]
          BY <2>9, <3>2, <3>4
        <5>3. g[n] = g[n - 1] \o tops[n]
          BY <2>10, <3>2, <3>4
        <5>4. QED
          BY <4>3, <5>1, <5>2, <5>3, Zenon
      <4>6. (x(n)[1] - p[Len(p)]) * d >= 2
        <5>1. PICK i \in 1 .. Len(row) : /\ i = at(n) /\ i + 1 \in 1 .. Len(row) /\ i <= i + 1
                                         /\ at(n - 1) - 1 = i + 1
          <6>1. at(n) \in 2 .. Len(row) /\ at(n - 1) \in 2 .. Len(row) /\ at(n - 1) - 1 = at(n) + 1
            <7>1. at(n) \in 2 .. Len(row) /\ at(n - 1) \in 2 .. Len(row)
              BY <2>2, <3>2, <4>1
            <7>2. at(n - 1) - 1 = at(n) + 1
              BY <2>1, <3>2 DEF at
            <7>3. QED
              BY <7>1, <7>2
          <6>2. /\ at(n) \in 1 .. Len(row) /\ at(n) + 1 \in 1 .. Len(row) /\ at(n) <= at(n) + 1
                /\ at(n - 1) - 1 = at(n) + 1
            BY <1>1, <6>1
          <6>3. QED
            BY <6>2
        <5>2. (row[i + 1] - row[i]) * (-d) >= (i + 1) - i
          BY <1>1, <5>1 DEF Marks
        <5>3. PICK a \in Int, b \in Int : a = row[i] /\ b = row[i + 1]
          BY <1>1, <5>1, ElementOfSeq
        <5>4. PICK e \in {1, -1} : e = d
          BY DEF Asc, Desc
        <5>5. (b - a) * (-e) >= 1
          BY <5>2, <5>3, <5>4
        <5>6. ((a + e) - b) * e >= 2
          <6>1. CASE e = 1
            BY <5>5, <6>1
          <6>2. CASE e = -1
            BY <5>5, <6>2
          <6>3. QED
            BY <6>1, <6>2
        <5>7. x(n)[1] = a + e /\ p[Len(p)] = b
          BY <2>3, <3>2, <4>4, <5>1, <5>3, <5>4
        <5>8. QED
          BY <5>4, <5>6, <5>7
      <4>7. Course(p \o x(n), q \o y(n), d, nkb) /\ (p \o x(n))[Len(p \o x(n))] = x(n)[Len(x(n))]
        <5>1. Course(x(n), y(n), d, nkb)
          BY <2>3, <3>2
        <5>2. QED
          BY <4>4, <4>6, <5>1, CourseJoins
      <4>8. QED
        BY <2>3, <3>2, <4>5, <4>7 DEF Fine
    <3>5. QED
      BY <3>3, <3>4
  <2>12. N \in 1 .. N /\ Fine(N)
    <3> HIDE DEF Fine
    <3>1. N \in 1 .. N /\ N \notin odd
      BY <2>1, <2>11
    <3>2. QED
      BY <3>1
  <2>13. QED
    BY <2>6, <2>9, <2>10, <2>12
<1>4. QED
  BY <1>2, <1>3

LEMMA CallWalks ==
  ASSUME NEW a, NEW must, NEW nkb \in Nat \ {0}, Written(ReadRow(a), -Dir(a.phase), nkb)
  PROVE  WalkFine(LiteCall(a, must), nkb)
<1>1. PICK row, d : row = ReadRow(a) /\ d = Dir(a.phase)
  OBVIOUS
<1>2. d \in {Asc, Desc} /\ Written(row, -d, nkb)
  BY <1>1 DEF Dir
<1>3. PICK x, y : x = Walk(row, d) /\ y = Closes(row, d)
  OBVIOUS
<1>4. Course(x, y, d, nkb)
  BY <1>2, <1>3, RowCourse
<1>5. LiteCall(a, must).walk = x /\ LiteCall(a, must).closes = y /\ LiteCall(a, must).dir = d
  BY <1>1, <1>3 DEF LiteCall
<1>6. \A j \in 1 .. Len(x) : y[j] \in BOOLEAN
  BY <1>4, ElementOfSeq DEF Course
<1>7. QED
  BY <1>4, <1>5, <1>6 DEF WalkFine, Course

-----------------------------------------------------------------------------
(* A step that votes nothing, records nothing.                             *)
LEMMA ListsStay ==
  ASSUME ListsInv, ~Idle, attn' = attn, cta' = cta, rec' = rec, vote' = vote, said' = said, Recorder',
         \A w \in Waves : Casts(w)' = Casts(w),
         RowOpen' /\ cta.lite => RowOpen /\ RecCount' = RecCount
  PROVE  ListsInv'
<1>1. RowsFine'
  BY DEF ListsInv, RowsFine
<1>2. CallFine'
  BY DEF ListsInv, CallFine, WalkFine
<1>3. VotesFine'
  BY DEF ListsInv, VotesFine, Recalls, VoteSlot
<1>4. \A n : KeptOf(n)' = KeptOf(n) /\ At(n)' = At(n)
  BY DEF KeptOf, Dropped, Pinned, Steps, At
<1>5. Encoded'
  <2>1. SUFFICES ASSUME cta.lite, RowOpen' PROVE Encoded'
    BY DEF Encoded, RowOpen
  <2>2. RowOpen /\ RecCount' = RecCount
    BY <2>1
  <2>3. PICK n : n = RecCount /\ n = RecCount'
    BY <2>2
  <2>4. /\ n \in 0 .. Steps - 1 /\ KeptOf(n) \in Ints /\ (n > 0 => KeptOf(n) # <<>>)
        /\ Encodes(rec.list, At(n), cta.dir, attn.nkb, KeptOf(n)) /\ Cursor(cta.must, rec.md, At(n), cta.dir)
    BY <2>1, <2>2, <2>3 DEF ListsInv, Encoded, RowOpen
  <2>5. Steps' = Steps
    BY DEF Steps
  <2>6. /\ n \in 0 .. Steps' - 1 /\ KeptOf(n)' \in Ints /\ (n > 0 => KeptOf(n)' # <<>>)
        /\ Encodes(rec'.list, At(n)', cta'.dir, attn'.nkb, KeptOf(n)')
        /\ Cursor(cta'.must, rec'.md, At(n)', cta'.dir)
    BY <1>4, <2>4, <2>5
  <2>7. QED
    BY <2>3, <2>6 DEF Encoded
<1>6. QED
  BY <1>1, <1>2, <1>3, <1>5 DEF ListsInv

LEMMA CastsIn ==
  ASSUME Shapes, NEW stage, NEW s, Running(stage, s), NEW w \in Waves
  PROVE  Casts(w) \in 0 .. Steps /\ Steps \in Nat \ {0}
<1>1. Steps \in Nat \ {0} /\ step[w] \in Int /\ StageOf(stage, s) /\ PlaceIn(stage, s, w)
  BY DEF Running, Shapes, Ints, Steps
<1>2. w \in GroupA \/ w \in GroupB
  BY DEF Waves
<1>3. CASE stage = "load"
  BY <1>1, <1>3 DEF PlaceIn, StageOf, Casts
<1>4. CASE stage = "first"
  BY <1>1, <1>4 DEF PlaceIn, StageOf, Casts
<1>5. CASE stage = "second"
  BY <1>1, <1>5 DEF PlaceIn, StageOf, Casts
<1>6. CASE stage = "last"
  BY <1>1, <1>6 DEF PlaceIn, StageOf, Casts
<1>7. CASE stage = "out"
  BY <1>1, <1>7 DEF PlaceIn, StageOf, Casts
<1>8. QED
  BY <1>1, <1>3, <1>4, <1>5, <1>6, <1>7 DEF StageOf, Stages

LEMMA CastSaid ==
  ASSUME Shapes, NEW w \in Waves, NEW n \in 0 .. Steps - 1, Len(said) = Steps, w \notin said[n + 1],
         NEW skip \in BOOLEAN, CastVote(w, n, skip)
  PROVE  /\ vote'[w][VoteSlot(n)] = skip
         /\ \A b \in Ring : b # VoteSlot(n) => vote'[w][b] = vote[w][b]
         /\ \A j \in 1 .. Steps : j # n + 1 => said'[j] = said[j]
         /\ w \in said'[n + 1] <=> skip
<1>1. said \in Seq(SUBSET Waves) /\ Steps \in Nat /\ n + 1 \in 1 .. Len(said)
  BY WalkBlocks DEF Shapes
<1>2. VoteSlot(n) \in Ring
  BY DEF VoteSlot, Ring
<1>3. vote'[w][VoteSlot(n)] = skip /\ \A b \in Ring : b # VoteSlot(n) => vote'[w][b] = vote[w][b]
  BY <1>2 DEF CastVote, Shapes
<1>4. CASE ~skip
  BY <1>3, <1>4 DEF CastVote
<1>5. CASE skip
  <2>1. said' = [said EXCEPT ![n + 1] = @ \cup {w}]
    BY <1>5 DEF CastVote
  <2>2. said'[n + 1] = said[n + 1] \cup {w} /\ \A j \in 1 .. Len(said) : j # n + 1 => said'[j] = said[j]
    BY <1>1, <2>1
  <2>3. QED
    BY <1>3, <1>5, <2>2
<1>6. QED
  BY <1>4, <1>5

(* A wave's vote on a step, before thread 0 records it.                    *)
LEMMA CastKeeps ==
  ASSUME Inv, ListsInv, ~Idle, attn' = attn, cta' = cta, rec' = rec, Recorder',
         NEW w \in Waves, NEW n \in 0 .. Steps - 1, NEW skip \in Skips(n), CastVote(w, n, skip),
         w \notin said[n + 1], Casts(w) = n, Casts(w)' = n + 1,
         \A x \in Waves \ {w} : Casts(x)' = Casts(x),
         RowOpen' /\ cta.lite => RowOpen /\ RecCount' = RecCount /\ RecCount <= n
  PROVE  ListsInv'
<1>1. PICK stage \in Stages, s \in Int : Running(stage, s)
  BY DEF Inv, AtRest
<1>2. Shapes /\ Len(said) = Steps /\ \A x \in Waves : Casts(x) \in 0 .. Steps /\ Steps \in Nat \ {0}
  BY <1>1, CastsIn DEF Inv, Running
<1>3. skip \in BOOLEAN /\ (n = 0 => skip = FALSE)
  BY DEF Skips
<1>4. /\ vote'[w][VoteSlot(n)] = skip
      /\ \A b \in Ring : b # VoteSlot(n) => vote'[w][b] = vote[w][b]
      /\ \A j \in 1 .. Steps : j # n + 1 => said'[j] = said[j]
      /\ w \in said'[n + 1] <=> skip
  BY <1>2, <1>3, CastSaid
<1>5. \A x \in Waves \ {w} : vote'[x] = vote[x] /\ \A j \in 1 .. Steps : x \in said'[j] <=> x \in said[j]
  BY <1>2, VoteIsOwn
<1>6. Steps' = Steps /\ \A j : VoteSlot(j)' = VoteSlot(j) /\ At(j)' = At(j) /\ Pinned(j)' = Pinned(j)
  BY DEF Steps, VoteSlot, At, Pinned
<1>7. RowsFine'
  BY DEF ListsInv, RowsFine
<1>8. CallFine'
  BY DEF ListsInv, CallFine, WalkFine
<1>9. VotesFine'
  <2>1. said[1] = {} /\ \A x \in Waves : Recalls(x)
    BY DEF ListsInv, VotesFine
  <2>2. said'[1] = {}
    <3>1. CASE n = 0
      <4>1. said' = said
        BY <1>3, <3>1 DEF CastVote
      <4>2. QED
        BY <2>1, <4>1
    <3>2. CASE n # 0
      <4>1. 1 \in 1 .. Steps /\ 1 # n + 1
        BY <1>2, <3>2
      <4>2. QED
        BY <1>4, <2>1, <4>1
    <3>3. QED
      BY <3>1, <3>2
  <2>3. ASSUME NEW x \in Waves \ {w}, NEW j \in 0 .. Casts(x)' - 1, j >= Casts(x)' - 2
        PROVE  vote'[x][VoteSlot(j)'] <=> x \in said'[j + 1]
    <3>1. j \in 0 .. Casts(x) - 1 /\ j >= Casts(x) - 2 /\ j + 1 \in 1 .. Steps
      BY <1>2, <2>3
    <3>2. vote[x][VoteSlot(j)] <=> x \in said[j + 1]
      BY <2>1, <3>1 DEF Recalls
    <3>3. QED
      BY <1>5, <1>6, <3>1, <3>2
  <2>4. ASSUME NEW j \in 0 .. Casts(w)' - 1, j >= Casts(w)' - 2
        PROVE  vote'[w][VoteSlot(j)'] <=> w \in said'[j + 1]
    <3>1. CASE j = n
      BY <1>4, <1>6, <3>1
    <3>2. CASE j # n
      <4>1. j = n - 1 /\ j \in 0 .. Casts(w) - 1 /\ j >= Casts(w) - 2 /\ j + 1 = n /\ n \in 1 .. Steps /\ n # n + 1
        BY <1>2, <2>4, <3>2
      <4>2. vote[w][VoteSlot(j)] <=> w \in said[j + 1]
        BY <2>1, <4>1 DEF Recalls
      <4>3. VoteSlot(j) \in Ring /\ VoteSlot(j) # VoteSlot(n)
        BY <4>1 DEF VoteSlot, Ring
      <4>4. QED
        BY <1>4, <1>6, <4>1, <4>2, <4>3
    <3>3. QED
      BY <3>1, <3>2
  <2>5. \A x \in Waves : Recalls(x)'
    <3> TAKE x \in Waves
    <3>1. CASE x = w
      BY <2>4, <3>1 DEF Recalls
    <3>2. CASE x # w
      BY <2>3, <3>2 DEF Recalls
    <3>3. QED
      BY <3>1, <3>2
  <2>6. QED
    BY <2>2, <2>5 DEF VotesFine
<1>10. Encoded'
  <2>1. SUFFICES ASSUME cta.lite, RowOpen' PROVE Encoded'
    BY DEF Encoded, RowOpen
  <2>2. RowOpen /\ RecCount' = RecCount /\ RecCount <= n
    BY <2>1
  <2>3. PICK m : m = RecCount /\ m = RecCount' /\ m <= n
    BY <2>2
  <2>4. /\ m \in 0 .. Steps - 1 /\ KeptOf(m) \in Ints /\ (m > 0 => KeptOf(m) # <<>>)
        /\ Encodes(rec.list, At(m), cta.dir, attn.nkb, KeptOf(m)) /\ Cursor(cta.must, rec.md, At(m), cta.dir)
    BY <2>1, <2>2, <2>3 DEF ListsInv, Encoded, RowOpen
  <2>5. KeptOf(m)' = KeptOf(m)
    <3>0. PICK walk \in Ints : walk = cta.walk
      BY <1>2 DEF Shapes
    <3>1. PICK skips, skips2 : skips = Dropped /\ skips2 = Dropped'
      OBVIOUS
    <3>2. m \in 0 .. Len(walk)
      BY <1>2, <2>4, <3>0 DEF Steps
    <3>3. ASSUME NEW j \in 1 .. m PROVE Wave0 \in skips2[j] <=> Wave0 \in skips[j]
      <4>1. j \in 1 .. Steps /\ j # n + 1 /\ j \in 1 .. Steps'
        BY <1>2, <1>6, <2>3, <2>4
      <4>2. said'[j] = said[j] /\ At(j - 1)' = At(j - 1) /\ Pinned(At(j - 1))' = Pinned(At(j - 1))
        BY <1>4, <4>1 DEF At, Pinned
      <4>3. skips[j] = IF said[j] = Waves /\ ~Pinned(At(j - 1)) THEN Waves ELSE {}
        BY <3>1, <4>1 DEF Dropped
      <4>4. skips2[j] = IF said'[j] = Waves /\ ~Pinned(At(j - 1))' THEN Waves ELSE {}
        BY <3>1, <4>1 DEF Dropped
      <4>5. QED
        BY <4>2, <4>3, <4>4
    <3>4. Taken(Wave0, walk, skips2, m) = Taken(Wave0, walk, skips, m)
      BY <3>2, <3>3, TakenSame
    <3>5. QED
      BY <3>0, <3>1, <3>4 DEF KeptOf
  <2>6. /\ m \in 0 .. Steps' - 1 /\ KeptOf(m)' \in Ints /\ (m > 0 => KeptOf(m)' # <<>>)
        /\ Encodes(rec'.list, At(m)', cta'.dir, attn'.nkb, KeptOf(m)')
        /\ Cursor(cta'.must, rec'.md, At(m)', cta'.dir)
    BY <1>6, <2>4, <2>5
  <2>7. QED
    BY <2>3, <2>6 DEF Encoded
<1>11. QED
  BY <1>7, <1>8, <1>9, <1>10 DEF ListsInv

LEMMA QuietStep ==
  ASSUME Inv, ListsInv, NEW w \in Waves, pc[w] # "idle", NEW place \in Places \ {"record", "flush"},
         pc' = [pc EXCEPT ![w] = place], step' = step, pc[w] = "store" => place = "idle",
         attn' = attn, cta' = cta, rec' = rec, vote' = vote, said' = said,
         Casts(w)' = Casts(w), w = Wave0 /\ cta.lite /\ place \notin {"store", "idle"} => RecCount' = RecCount
  PROVE  ListsInv'
<1>1. ~Idle /\ Shapes /\ Steps' = Steps
  BY DEF Idle, Inv, Steps
<1>2. pc'[w] = place /\ \A x \in Waves \ {w} : pc'[x] = pc[x]
  BY <1>1 DEF Shapes
<1>3. \A x \in Waves : Casts(x)' = Casts(x)
  BY <1>1, <1>2 DEF Casts
<1>4. Recorder'
  BY <1>2 DEF ListsInv, Recorder
<1>5. RowOpen' /\ cta.lite => RowOpen /\ RecCount' = RecCount
  <2>1. CASE w = Wave0
    BY <1>2, <2>1 DEF RowOpen
  <2>2. CASE w # Wave0
    BY <1>1, <1>2, <2>2, WavesAssumption DEF RowOpen, RecCount, Waves
  <2>3. QED
    BY <2>1, <2>2
<1>6. QED
  BY <1>1, <1>3, <1>4, <1>5, ListsStay

LEMMA QuietLists ==
  ASSUME Inv, ListsInv, NEW w \in Waves, Prologue(w) \/ Half1A(w) \/ Half2B(w) \/ ArriveEnd(w)
  PROVE  ListsInv'
<1>1. PICK stage \in Stages, s \in Int : Running(stage, s)
  BY WaveRuns DEF Prologue, Half1A, Half2B, ArriveEnd
<1>2. Shapes /\ PlaceIn(stage, s, w) /\ Wave0 \in GroupA /\ (w \in GroupA <=> w \notin GroupB)
  BY <1>1, WavesAssumption DEF Inv, Running, Waves
<1>3. step' = step /\ attn' = attn /\ cta' = cta /\ rec' = rec /\ vote' = vote /\ said' = said /\ Steps' = Steps
  BY DEF Prologue, Half1A, Half2B, ArriveEnd, Steps
<1>4. CASE Prologue(w)
  <2>1. pc[w] = "prologue" /\ pc' = [pc EXCEPT ![w] = "drain"] /\ pc'[w] = "drain"
    BY <1>2, <1>4 DEF Prologue, Goto, Shapes
  <2>2. step[w] = -1
    BY <1>1, <1>2, <2>1 DEF PlaceIn, StageOf, Running
  <2>3. Casts(w)' = Casts(w) /\ (w = Wave0 => RecCount' = RecCount)
    BY <1>2, <1>3, <2>1, <2>2 DEF Casts, RecCount
  <2>4. QED
    BY <1>3, <2>1, <2>3, QuietStep DEF Places
<1>5. CASE Half1A(w)
  <2>1. pc[w] = "half1" /\ w \in GroupA /\ pc' = [pc EXCEPT ![w] = "wait_mid"] /\ pc'[w] = "wait_mid"
    BY <1>2, <1>5 DEF Half1A, Goto, Shapes
  <2>2. Casts(w)' = Casts(w) /\ (w = Wave0 => RecCount' = RecCount)
    BY <1>2, <1>3, <2>1 DEF Casts, RecCount
  <2>3. QED
    BY <1>3, <2>1, <2>2, QuietStep DEF Places
<1>6. CASE Half2B(w)
  <2>1. pc[w] = "half2" /\ w \in GroupB /\ pc' = [pc EXCEPT ![w] = "drain"] /\ pc'[w] = "drain"
    BY <1>2, <1>6 DEF Half2B, Goto, Shapes
  <2>2. Casts(w)' = Casts(w) /\ w # Wave0
    BY <1>2, <1>3, <2>1 DEF Casts
  <2>3. QED
    BY <1>3, <2>1, <2>2, QuietStep DEF Places
<1>7. CASE ArriveEnd(w)
  <2>1. pc[w] = "drain" /\ pc' = [pc EXCEPT ![w] = "wait_end"] /\ pc'[w] = "wait_end"
    BY <1>2, <1>7 DEF ArriveEnd, Goto, Shapes
  <2>2. Casts(w)' = Casts(w) /\ (w = Wave0 => RecCount' = RecCount)
    BY <1>2, <1>3, <2>1 DEF Casts, RecCount
  <2>3. QED
    BY <1>3, <2>1, <2>2, QuietStep DEF Places
<1>8. QED
  BY <1>4, <1>5, <1>6, <1>7

(* B's vote on the step before, A's on its own, B's last.                  *)
LEMMA Half1BLists ==
  ASSUME Inv, ListsInv, NEW w \in Waves, Half1B(w)
  PROVE  ListsInv'
<1>1. PICK stage \in Stages, s \in Int : Running(stage, s)
  BY WaveRuns DEF Half1B
<1>2. /\ stage = "first" /\ step[w] = s /\ s \in 0 .. Steps - 1 /\ w \in GroupB /\ w \notin GroupA
      /\ Shapes /\ Len(said) = Steps /\ (s > 0 => Scored(w, s - 1)) /\ w # Wave0 /\ Wave0 \in GroupA
  BY <1>1, WavesAssumption DEF Running, PlaceIn, StageOf, TakesB, Half1B, Inv
<1>3. /\ pc[w] = "half1" /\ pc' = [pc EXCEPT ![w] = "wait_mid"] /\ pc'[w] = "wait_mid"
      /\ \A x \in Waves \ {w} : pc'[x] = pc[x]
      /\ step' = step /\ attn' = attn /\ cta' = cta /\ rec' = rec /\ Steps' = Steps /\ ~Idle
  BY <1>2 DEF Half1B, Goto, Shapes, Steps, Idle
<1>4. CASE s = 0
  <2>1. vote' = vote /\ said' = said
    BY <1>2, <1>4 DEF Half1B
  <2>2. Casts(w)' = Casts(w)
    BY <1>2, <1>3, <1>4 DEF Casts
  <2>3. QED
    BY <1>2, <1>3, <2>1, <2>2, QuietStep DEF Places
<1>5. CASE s > 0
  <2>1. PICK n \in 0 .. Steps - 1 : n = s - 1 /\ n + 1 = s /\ s \in 1 .. Steps
    BY <1>2, <1>5
  <2>2. PICK skip \in Skips(n) : CastVote(w, n, skip)
    BY <1>2, <1>5, <2>1 DEF Half1B, Softmax
  <2>3. w \notin said[n + 1]
    <3>1. Scored(w, n) /\ Steps \in Nat
      BY <1>2, <1>5, <2>1, WalkBlocks
    <3>2. n + 1 \in n + 1 .. Steps
      BY <2>1, <3>1
    <3>3. QED
      BY <3>1, <3>2 DEF Scored, Sums
  <2>4. Casts(w) = n /\ Casts(w)' = n + 1 /\ \A x \in Waves \ {w} : Casts(x)' = Casts(x)
    BY <1>2, <1>3, <1>5, <2>1 DEF Casts
  <2>5. Recorder'
    BY <1>3 DEF ListsInv, Recorder
  <2>6. RowOpen /\ RecCount' = RecCount /\ RecCount <= n
    <3>1. Wave0 \in Waves /\ pc[Wave0] \in {"half1", "wait_mid"} /\ step[Wave0] = s
      BY <1>1, <1>2 DEF Running, PlaceIn, Waves
    <3>2. QED
      BY <1>2, <1>3, <2>1, <3>1 DEF RowOpen, RecCount
  <2>7. QED
    BY <1>3, <2>2, <2>3, <2>4, <2>5, <2>6, CastKeeps
<1>6. QED
  BY <1>2, <1>4, <1>5

LEMMA Half2ALists ==
  ASSUME Inv, ListsInv, NEW w \in Waves, Half2A(w)
  PROVE  ListsInv'
<1>1. PICK stage \in Stages, s \in Int : Running(stage, s)
  BY WaveRuns DEF Half2A
<1>2. /\ stage = "second" /\ step[w] = s /\ s \in 0 .. Steps - 1 /\ w \in GroupA /\ w \notin GroupB
      /\ Shapes /\ Scored(w, s) /\ Len(said) = Steps /\ Wave0 \in Waves
  BY <1>1, WavesAssumption DEF Running, PlaceIn, StageOf, TakesA, Half2A, Inv, Waves
<1>3. PICK place \in {"record", "drain"} :
        /\ pc' = [pc EXCEPT ![w] = place]
        /\ place = IF w = Wave0 /\ cta.lite /\ s > 0 THEN "record" ELSE "drain"
  BY <1>2 DEF Half2A, Goto
<1>4. /\ pc[w] = "half2" /\ pc'[w] = place /\ \A x \in Waves \ {w} : pc'[x] = pc[x]
      /\ step' = step /\ attn' = attn /\ cta' = cta /\ rec' = rec /\ Steps' = Steps /\ ~Idle
  BY <1>2, <1>3 DEF Half2A, Shapes, Steps, Idle
<1>5. PICK skip \in Skips(s) : CastVote(w, s, skip)
  BY <1>2 DEF Half2A, Softmax
<1>6. w \notin said[s + 1]
  <2>1. Steps \in Nat /\ s + 1 \in s + 1 .. Steps
    BY <1>2, WalkBlocks
  <2>2. QED
    BY <1>2, <2>1 DEF Scored, Sums
<1>7. Casts(w) = s /\ Casts(w)' = s + 1 /\ \A x \in Waves \ {w} : Casts(x)' = Casts(x)
  BY <1>2, <1>3, <1>4 DEF Casts
<1>8. Recorder'
  BY <1>3, <1>4 DEF ListsInv, Recorder
<1>9. RowOpen' /\ cta.lite => RowOpen /\ RecCount' = RecCount /\ RecCount <= s
  <2>1. pc[Wave0] \in {"half2", "record", "drain", "wait_end"} /\ step[Wave0] = s
    BY <1>1, <1>2 DEF Running, PlaceIn
  <2>2. CASE w = Wave0
    BY <1>2, <1>3, <1>4, <2>1, <2>2 DEF RowOpen, RecCount
  <2>3. CASE w # Wave0
    BY <1>2, <1>4, <2>1, <2>3 DEF RowOpen, RecCount
  <2>4. QED
    BY <2>2, <2>3
<1>10. QED
  BY <1>2, <1>4, <1>5, <1>6, <1>7, <1>8, <1>9, CastKeeps

LEMMA EpilogueLists ==
  ASSUME Inv, ListsInv, NEW w \in Waves, Epilogue(w)
  PROVE  ListsInv'
<1>1. PICK stage \in Stages, s \in Int : Running(stage, s)
  BY WaveRuns DEF Epilogue
<1>2. /\ stage = "last" /\ Shapes /\ Len(said) = Steps /\ Steps \in Nat \ {0} /\ Wave0 \in Waves
      /\ Wave0 \in GroupA /\ (w \in GroupA <=> w \notin GroupB)
  BY <1>1, CastsIn, WavesAssumption DEF Running, PlaceIn, Epilogue, Inv, Waves
<1>3. PICK place \in {"wait_last", "store"} : pc' = [pc EXCEPT ![w] = place] /\ (cta.lite => place = "wait_last")
  BY DEF Epilogue, Goto
<1>4. /\ pc[w] = "epilogue" /\ pc'[w] = place /\ \A x \in Waves \ {w} : pc'[x] = pc[x]
      /\ step' = step /\ attn' = attn /\ cta' = cta /\ rec' = rec /\ Steps' = Steps /\ ~Idle
  BY <1>2, <1>3 DEF Epilogue, Shapes, Steps, Idle
<1>5. CASE w \in GroupA
  <2>1. vote' = vote /\ said' = said
    BY <1>5 DEF Epilogue
  <2>2. Casts(w)' = Casts(w) /\ (place = "wait_last" /\ w = Wave0 => RecCount' = RecCount)
    BY <1>2, <1>3, <1>4, <1>5 DEF Casts, RecCount
  <2>3. QED
    BY <1>2, <1>3, <1>4, <2>1, <2>2, QuietStep DEF Places
<1>6. CASE w \notin GroupA
  <2>1. PICK n \in 0 .. Steps - 1 : n = Steps - 1 /\ n + 1 = Steps /\ n + 1 \in n + 1 .. Steps
    BY <1>2
  <2>2. PICK skip \in Skips(n) : CastVote(w, n, skip)
    BY <1>6, <2>1 DEF Epilogue
  <2>3. w \notin said[n + 1]
    <3>1. Scored(w, n)
      BY <1>1, <1>2, <1>4, <1>6, <2>1 DEF Running, TakesB
    <3>2. QED
      BY <2>1, <3>1 DEF Scored, Sums
  <2>4. Casts(w) = n /\ Casts(w)' = n + 1 /\ \A x \in Waves \ {w} : Casts(x)' = Casts(x)
    BY <1>2, <1>3, <1>4, <1>6, <2>1 DEF Casts
  <2>5. Recorder'
    BY <1>3, <1>4 DEF ListsInv, Recorder
  <2>6. RowOpen' /\ cta.lite => RowOpen /\ RecCount' = RecCount /\ RecCount <= n
    <3>1. cta.lite => pc[Wave0] \in {"epilogue", "wait_last"}
      BY <1>1, <1>2 DEF Running, PlaceIn
    <3>2. w # Wave0
      BY <1>2, <1>6
    <3>3. QED
      BY <1>2, <1>4, <2>1, <3>1, <3>2 DEF RowOpen, RecCount
  <2>7. QED
    BY <1>4, <2>2, <2>3, <2>4, <2>5, <2>6, CastKeeps
<1>7. QED
  BY <1>5, <1>6

(* The last wave's Store ends the CTA; Land moves K alone.                 *)
LEMMA StoreLists ==
  ASSUME Inv, ListsInv, NEW w \in Waves, Store(w)
  PROVE  ListsInv'
<1>1. /\ Shapes /\ pc[w] = "store" /\ pc' = [pc EXCEPT ![w] = "idle"] /\ pc'[w] = "idle" /\ attn' = attn
      /\ step' = [step EXCEPT ![w] = 0] /\ ~Idle
      /\ \A x \in Waves \ {w} : pc'[x] = pc[x] /\ step'[x] = step[x]
  BY DEF Store, Goto, Inv, Shapes, Idle
<1>2. CASE \A u \in Waves \ {w} : pc[u] = "idle"
  <2>1. Idle'
    BY <1>1, <1>2 DEF Idle
  <2>2. QED
    BY <1>1, <2>1 DEF ListsInv, Recorder, RowsFine, CallFine, VotesFine, Encoded, Idle
<1>3. CASE ~ \A u \in Waves \ {w} : pc[u] = "idle"
  <2>1. cta' = cta /\ said' = said /\ rec' = rec /\ vote' = vote /\ Steps' = Steps
    BY <1>3 DEF Store, Steps
  <2>2. \A x \in Waves : Casts(x)' = Casts(x)
    BY <1>1, <2>1 DEF Casts
  <2>3. Recorder'
    BY <1>1, <2>1 DEF ListsInv, Recorder
  <2>4. RowOpen' => RowOpen /\ RecCount' = RecCount
    BY <1>1, <2>1, WavesAssumption DEF RowOpen, RecCount, Waves
  <2>5. QED
    BY <1>1, <2>1, <2>2, <2>3, <2>4, ListsStay
<1>4. QED
  BY <1>2, <1>3

LEMMA LandLists ==
  ASSUME ListsInv, NEW w \in GroupB, Land(w)
  PROVE  ListsInv'
<1>1. /\ attn' = attn /\ cta' = cta /\ pc' = pc /\ step' = step /\ vote' = vote /\ said' = said /\ rec' = rec
      /\ Steps' = Steps
  BY DEF Land, Steps
<1>2. Idle' = Idle /\ Recorder' /\ \A x \in Waves : Casts(x)' = Casts(x)
  BY <1>1 DEF Idle, ListsInv, Recorder, Casts
<1>3. RowOpen' = RowOpen /\ RecCount' = RecCount
  BY <1>1 DEF RowOpen, RecCount
<1>4. CASE ~Idle
  BY <1>1, <1>2, <1>3, <1>4, ListsStay
<1>5. CASE Idle
  BY <1>1, <1>2, <1>5 DEF ListsInv, RowsFine, CallFine, VotesFine, Encoded
<1>6. QED
  BY <1>4, <1>5

(* The barriers move all waves on, none past a vote.                       *)
LEMMA ReleaseLists ==
  ASSUME Inv, ListsInv, Release
  PROVE  ListsInv'
<1>1. PICK held \in Waves : pc[held] \in AtBarrier
  BY DEF Release
<1>2. PICK stage \in Stages, s \in Int : Running(stage, s)
  BY <1>1, WaveRuns DEF AtBarrier
<1>3. /\ attn' = attn /\ cta' = cta /\ vote' = vote /\ said' = said /\ rec' = rec /\ Steps' = Steps
      /\ StageOf(stage, s) /\ Steps \in Nat \ {0} /\ Wave0 \in Waves /\ ~Idle
  BY <1>1, <1>2, CastsIn, WavesAssumption DEF Release, Steps, Running, Inv, Waves, Idle, AtBarrier
<1>4. ASSUME NEW w \in Waves
      PROVE  /\ Casts(w)' = Casts(w) /\ (pc'[w] = "flush" => w = Wave0 /\ cta.lite) /\ pc'[w] # "record"
             /\ (w = Wave0 => RowOpen /\ RecCount' = RecCount)
  <2>1. /\ stage # "out" /\ (stage = "last" => cta.lite)
        /\ pc[w] = CASE stage = "first" -> "wait_mid" [] stage = "last" -> "wait_last" [] OTHER -> "wait_end"
        /\ step[w] \in Int /\ (stage # "last" => step[w] = s)
        /\ pc'[w] = AfterBarrier(w)[1] /\ step'[w] = AfterBarrier(w)[2]
    BY <1>2, Released
  <2>2. (w \in GroupA <=> w \notin GroupB) /\ Wave0 \in GroupA
    BY WavesAssumption DEF Waves
  <2>3. CASE stage = "first"
    <3>1. pc[w] = "wait_mid" /\ pc'[w] = "half2" /\ step'[w] = step[w]
      BY <2>1, <2>3 DEF AfterBarrier
    <3>2. QED
      BY <1>3, <2>1, <2>2, <3>1 DEF Casts, RowOpen, RecCount
  <2>4. CASE stage = "last"
    <3>1. /\ pc[w] = "wait_last" /\ pc'[w] = (IF w = Wave0 THEN "flush" ELSE "store") /\ step'[w] = step[w]
          /\ cta.lite
      BY <2>1, <2>4 DEF AfterBarrier
    <3>2. QED
      BY <1>3, <2>1, <2>2, <3>1 DEF Casts, RowOpen, RecCount
  <2>5. CASE stage \in {"load", "second"}
    <3>1. /\ pc[w] = "wait_end" /\ step[w] = s /\ step'[w] = s + 1
          /\ pc'[w] = IF s + 1 < Steps THEN "half1" ELSE "epilogue"
      BY <2>1, <2>5 DEF AfterBarrier
    <3>2. s \in -1 .. Steps - 1
      BY <1>3, <2>5 DEF StageOf
    <3>3. CASE s + 1 < Steps
      BY <1>3, <2>2, <3>1, <3>2, <3>3 DEF Casts, RowOpen, RecCount
    <3>4. CASE ~(s + 1 < Steps)
      BY <1>3, <2>2, <3>1, <3>2, <3>4 DEF Casts, RowOpen, RecCount
    <3>5. QED
      BY <3>3, <3>4
  <2>6. QED
    BY <1>3, <2>1, <2>3, <2>4, <2>5 DEF StageOf, Stages
<1>5. Recorder'
  BY <1>3, <1>4 DEF Recorder
<1>6. QED
  BY <1>3, <1>4, <1>5, ListsStay

(* Thread 0 records a step all waves have voted on.                        *)
LEMMA RecordsStep ==
  ASSUME Inv, ListsInv, ~Idle, cta.lite, RowOpen, NEW n, n = RecCount, Len(said) = Steps,
         \A w \in Waves : Casts(w) \in {n + 1, n + 2},
         NEW closes \in BOOLEAN, NEW next \in Int,
         IF closes THEN (next - At(n)) * cta.dir >= 2 ELSE next = At(n) + cta.dir
  PROVE  /\ n \in 0 .. Steps - 1 /\ At(n) \in 0 .. attn.nkb - 1
         /\ KeptOf(n + 1) \in Ints /\ KeptOf(n + 1) # <<>>
         /\ Encodes(Recorded(n, closes).list, next, cta.dir, attn.nkb, KeptOf(n + 1))
         /\ Cursor(cta.must, Recorded(n, closes).md, next, cta.dir)
<1>1. PICK nkb \in Nat \ {0} : nkb = attn.nkb
  BY DEF ListsInv, CallFine, RowsFine
<1>2. /\ n \in 0 .. Steps - 1 /\ KeptOf(n) \in Ints /\ (n > 0 => KeptOf(n) # <<>>)
      /\ Encodes(rec.list, At(n), cta.dir, nkb, KeptOf(n)) /\ Cursor(cta.must, rec.md, At(n), cta.dir)
  BY <1>1 DEF ListsInv, Encoded, RowOpen
<1>3. Shapes /\ Steps \in Nat /\ Steps = Len(cta.walk) /\ cta.walk \in Ints /\ cta.must \in MustDos
  <2>1. cta.must \in MustDos
    BY DEF ListsInv, CallFine
  <2>2. Shapes
    BY DEF Inv
  <2>3. cta.walk \in Ints
    BY <2>2 DEF Shapes
  <2>4. Len(cta.walk) \in Nat
    BY <2>3 DEF Ints
  <2>5. QED
    BY <2>1, <2>2, <2>3, <2>4 DEF Steps
<1>4. At(n) \in 0 .. nkb - 1
  <2>1. n + 1 \in 1 .. Len(cta.walk)
    BY <1>2, <1>3
  <2>2. QED
    BY <1>1, <2>1 DEF ListsInv, CallFine, WalkFine, At
<1>5. Wave0 \in Waves
  BY WavesAssumption DEF Waves
<1>6. said[n + 1] = Waves <=> \A w \in Waves : vote[w][VoteSlot(n)]
  <2>1. said[n + 1] \subseteq Waves
    BY <1>2, <1>3 DEF Shapes
  <2>2. ASSUME NEW w \in Waves PROVE vote[w][VoteSlot(n)] <=> w \in said[n + 1]
    <3>1. n \in 0 .. Casts(w) - 1 /\ n >= Casts(w) - 2
      BY <1>2
    <3>2. QED
      BY <3>1 DEF ListsInv, VotesFine, Recalls
  <2>3. QED
    BY <2>1, <2>2
<1>7. /\ KeptOf(n + 1) \in Ints /\ Encodes(Recorded(n, closes).list, next, cta.dir, nkb, KeptOf(n + 1))
      /\ Cursor(cta.must, Recorded(n, closes).md, next, cta.dir)
  BY <1>2, <1>3, <1>4, <1>6, RecordedEncodes
<1>8. KeptOf(n + 1) # <<>>
  <2>1. KeptOf(n + 1) = IF said[n + 1] = Waves /\ ~Pinned(At(n)) THEN KeptOf(n) ELSE Append(KeptOf(n), At(n))
    BY <1>2, <1>3, KeptNext
  <2>2. n = 0 => said[n + 1] # Waves
    BY <1>5 DEF ListsInv, VotesFine
  <2>3. \A x \in Ints : Append(x, At(n)) # <<>>
    BY DEF Ints
  <2>4. QED
    <3>1. n = 0 \/ n > 0
      BY <1>2, <1>3
    <3>2. Append(KeptOf(n), At(n)) # <<>>
      BY <1>2, <2>3, Zenon
    <3>3. CASE said[n + 1] = Waves /\ ~Pinned(At(n))
      BY <1>2, <2>1, <2>2, <3>1, <3>3, Zenon
    <3>4. CASE ~(said[n + 1] = Waves /\ ~Pinned(At(n)))
      BY <2>1, <3>2, <3>4, Zenon
    <3>5. QED
      BY <3>3, <3>4
<1>9. QED
  BY <1>1, <1>2, <1>4, <1>7, <1>8

LEMMA RecordVotesLists ==
  ASSUME Inv, ListsInv, NEW w \in Waves, RecordVotes(w)
  PROVE  ListsInv'
<1>1. PICK stage \in Stages, s \in Int : Running(stage, s)
  BY WaveRuns DEF RecordVotes
<1>2. w = Wave0 /\ cta.lite /\ ~Idle
  BY DEF RecordVotes, ListsInv, Recorder, Idle
<1>3. /\ stage = "second" /\ s \in 1 .. Steps - 1 /\ step[w] = s /\ Shapes /\ Len(said) = Steps /\ w \in GroupA
      /\ \A x \in Waves : pc[x] \in {"half2", "record", "drain", "wait_end"} /\ step[x] = s
  <2>1. StageOf(stage, s) /\ Len(said) = Steps /\ \A x \in Waves : PlaceIn(stage, s, x)
    BY <1>1 DEF Running
  <2>2. PlaceIn(stage, s, w) /\ pc[w] = "record"
    BY <2>1 DEF RecordVotes
  <2>3. stage = "second" /\ s > 0 /\ step[w] = s
    BY <2>2 DEF PlaceIn
  <2>4. QED
    BY <1>2, <2>1, <2>3, WavesAssumption DEF StageOf, PlaceIn, Inv
<1>4. /\ pc[w] = "record" /\ pc'[w] = "drain" /\ \A x \in Waves \ {w} : pc'[x] = pc[x]
      /\ step' = step /\ attn' = attn /\ cta' = cta /\ vote' = vote /\ said' = said /\ Steps' = Steps
      /\ rec' = Recorded(s - 1, cta.closes[s])
  BY <1>2, <1>3 DEF RecordVotes, Goto, Shapes, Steps
<1>5. PICK n \in 0 .. Steps - 1 : n = s - 1 /\ n + 1 = s /\ s \in 0 .. Steps - 1 /\ s \in 1 .. Steps - 1
  BY <1>3
<1>6. RowOpen /\ RecCount = n /\ RecCount' = s
  BY <1>2, <1>3, <1>4, <1>5 DEF RowOpen, RecCount
<1>7. \A x \in Waves : Casts(x) \in {n + 1, n + 2} /\ Casts(x)' = Casts(x)
  <2> TAKE x \in Waves
  <2>1. pc[x] \in {"half2", "record", "drain", "wait_end"} /\ step[x] = s /\ (x \in GroupA <=> x \notin GroupB)
    BY <1>3, WavesAssumption DEF Waves
  <2>2. CASE x = w
    BY <1>3, <1>4, <1>5, <2>1, <2>2 DEF Casts
  <2>3. CASE x # w
    BY <1>3, <1>4, <1>5, <2>1, <2>3 DEF Casts
  <2>4. QED
    BY <2>2, <2>3
<1>8. PICK closes, next : closes = cta.closes[s] /\ next = At(s)
  OBVIOUS
<1>9. closes \in BOOLEAN /\ next \in Int /\ IF closes THEN (next - At(n)) * cta.dir >= 2 ELSE next = At(n) + cta.dir
  <2>1. WalkFine(cta, attn.nkb) /\ Steps = Len(cta.walk)
    BY <1>2 DEF ListsInv, CallFine, Steps
  <2>2. s \in 1 .. Len(cta.walk) /\ s \in 1 .. Len(cta.walk) - 1 /\ s + 1 \in 1 .. Len(cta.walk)
    BY <1>5, <2>1
  <2>3. cta.closes[s] \in BOOLEAN
    BY <2>1, <2>2 DEF WalkFine
  <2>4. cta.walk[s + 1] \in Int
    BY <1>3, <2>2, ElementOfSeq DEF Shapes, Ints
  <2>5. IF cta.closes[s] THEN (cta.walk[s + 1] - cta.walk[s]) * cta.dir >= 2
        ELSE cta.walk[s + 1] = cta.walk[s] + cta.dir
    BY <2>1, <2>2 DEF WalkFine
  <2>6. At(n) = cta.walk[s] /\ At(s) = cta.walk[s + 1]
    BY <1>5 DEF At
  <2>7. QED
    BY <1>8, <2>3, <2>4, <2>5, <2>6
<1>10. /\ KeptOf(n + 1) \in Ints /\ KeptOf(n + 1) # <<>>
       /\ Encodes(Recorded(n, closes).list, next, cta.dir, attn.nkb, KeptOf(n + 1))
       /\ Cursor(cta.must, Recorded(n, closes).md, next, cta.dir)
  BY <1>2, <1>3, <1>6, <1>7, <1>9, RecordsStep
<1>11. \A j : KeptOf(j)' = KeptOf(j) /\ At(j)' = At(j)
  BY <1>4 DEF KeptOf, Dropped, Pinned, Steps, At
<1>12. RowsFine'
  BY <1>4 DEF ListsInv, RowsFine
<1>13. CallFine'
  BY <1>2, <1>4 DEF ListsInv, CallFine, WalkFine
<1>14. VotesFine'
  BY <1>2, <1>4, <1>7 DEF ListsInv, VotesFine, Recalls, VoteSlot
<1>15. Recorder'
  BY <1>2, <1>4 DEF ListsInv, Recorder
<1>16. Encoded'
  <2>1. /\ s \in 0 .. Steps' - 1 /\ KeptOf(s)' \in Ints /\ KeptOf(s)' # <<>>
        /\ Encodes(rec'.list, At(s)', cta'.dir, attn'.nkb, KeptOf(s)')
        /\ Cursor(cta'.must, rec'.md, At(s)', cta'.dir)
    BY <1>4, <1>5, <1>8, <1>10, <1>11
  <2>2. QED
    BY <1>6, <2>1 DEF Encoded
<1>17. QED
  BY <1>12, <1>13, <1>14, <1>15, <1>16 DEF ListsInv

(* At the flush it records the last block, and no range stays open.        *)
LEMMA FlushFine ==
  ASSUME Inv, ListsInv, pc[Wave0] = "flush"
  PROVE  LET row == Recorded(Steps - 1, TRUE).list.out IN
           /\ cta.lite /\ Steps \in Nat \ {0} /\ attn.nkb \in Nat \ {0} /\ cta.dir \in {Asc, Desc}
           /\ Written(row, cta.dir, attn.nkb) /\ KeptOf(Steps) # <<>> /\ KeptOf(Steps) \in Ints
           /\ Back(row, -cta.dir) = Reverse(KeptOf(Steps)) /\ kept(row, -cta.dir) = Len(KeptOf(Steps))
<1>1. Wave0 \in Waves /\ Wave0 \in GroupA
  BY WavesAssumption DEF Waves
<1>2. PICK stage \in Stages, s \in Int : Running(stage, s)
  BY <1>1, WaveRuns
<1>3. cta.lite /\ ~Idle /\ RowOpen
  BY <1>1 DEF ListsInv, Recorder, Idle, RowOpen
<1>4. /\ stage = "out" /\ Shapes /\ Len(said) = Steps /\ Steps \in Nat \ {0} /\ cta.dir \in {Asc, Desc}
      /\ \A x \in Waves : pc[x] \in {"flush", "store", "idle"}
  BY <1>1, <1>2, CastsIn DEF Running, PlaceIn, Inv, Shapes
<1>5. PICK n \in 0 .. Steps - 1 : n = Steps - 1 /\ n + 1 = Steps
  BY <1>4
<1>6. n = RecCount /\ \A x \in Waves : Casts(x) \in {n + 1, n + 2}
  BY <1>4, <1>5 DEF RecCount, Casts
<1>7. At(n) \in Int
  BY <1>4, <1>5, WalkBlocks DEF At
<1>8. PICK b \in Int, d \in {1, -1}, next \in Int : b = At(n) /\ d = cta.dir /\ next = b + 2 * d
  BY <1>4, <1>7 DEF Asc, Desc
<1>9. (next - b) * d >= 2
  BY <1>8
<1>10. PICK closes \in BOOLEAN : closes = TRUE
  OBVIOUS
<1>11. IF closes THEN (next - At(n)) * cta.dir >= 2 ELSE next = At(n) + cta.dir
  BY <1>8, <1>9, <1>10
<1>12. /\ KeptOf(n + 1) \in Ints /\ KeptOf(n + 1) # <<>>
       /\ Encodes(Recorded(n, closes).list, next, cta.dir, attn.nkb, KeptOf(n + 1))
  BY <1>3, <1>4, <1>6, <1>11, RecordsStep
<1>13. PICK list : list = Recorded(n, TRUE).list
  OBVIOUS
<1>14. list.skip = TRUE
  BY <1>13 DEF Recorded, Record
<1>15. Encodes(list, next, cta.dir, attn.nkb, KeptOf(Steps))
  BY <1>5, <1>10, <1>12, <1>13
<1>16. /\ Written(list.out, cta.dir, attn.nkb)
       /\ Back(list.out, -cta.dir) = Reverse(KeptOf(Steps)) /\ kept(list.out, -cta.dir) = Len(KeptOf(Steps))
  BY <1>14, <1>15 DEF Encodes, Closed, Written
<1>17. attn.nkb \in Nat \ {0}
  BY <1>3 DEF ListsInv, CallFine, RowsFine
<1>18. QED
  BY <1>3, <1>4, <1>5, <1>12, <1>13, <1>16, <1>17

LEMMA FinishLists ==
  ASSUME Inv, ListsInv, NEW w \in Waves, Finish(w)
  PROVE  ListsInv'
<1>1. w = Wave0 /\ cta.lite /\ ~Idle /\ pc[w] = "flush" /\ Shapes
  BY DEF Finish, ListsInv, Recorder, Idle, Inv
<1>2. PICK row : row = Recorded(Steps - 1, TRUE).list.out
  OBVIOUS
<1>3. attn.nkb \in Nat \ {0} /\ Written(row, cta.dir, attn.nkb)
  BY <1>1, <1>2, FlushFine
<1>4. /\ pc'[w] = "store" /\ \A x \in Waves \ {w} : pc'[x] = pc[x]
      /\ step' = step /\ cta' = cta /\ vote' = vote /\ said' = said /\ Steps' = Steps
      /\ attn' = [attn EXCEPT !.rows[WriteSlot(attn)] = row, !.done = @ + 1]
  BY <1>1, <1>2 DEF Finish, Goto, Shapes, Steps
<1>5. /\ attn.rows # <<>> /\ cta.dir = Dir(attn.phase) /\ Written(attn.rows[1], Desc, attn.nkb)
      /\ Written(attn.rows[2], Asc, attn.nkb) /\ attn \in Objects942 /\ Len(attn.rows) = 2
  <2>1. attn.rows # <<>> /\ cta.dir = Dir(attn.phase) /\ attn \in Objects942 /\ Len(attn.rows) \in {0, 2}
    BY <1>1 DEF ListsInv, CallFine, Shapes
  <2>2. attn.rows \in Seq(Rows)
    BY <2>1 DEF Objects942
  <2>3. QED
    BY <2>1, <2>2 DEF ListsInv, RowsFine
<1>6. /\ attn'.nkb = attn.nkb /\ attn'.phase = attn.phase /\ Len(attn'.rows) = 2
      /\ attn'.rows = [attn.rows EXCEPT ![attn.phase + 1] = row]
  BY <1>4, <1>5 DEF Objects942, WriteSlot
<1>7. attn.phase \in {0, 1} /\ attn.rows \in Seq(Rows)
  BY <1>5 DEF Objects942
<1>8. RowsFine'
  <2>1. CASE attn.phase = 0
    <3>1. attn'.rows[1] = row /\ attn'.rows[2] = attn.rows[2]
      BY <1>5, <1>6, <1>7, <2>1
    <3>2. QED
      BY <1>3, <1>5, <1>6, <2>1, <3>1 DEF RowsFine, Dir
  <2>2. CASE attn.phase = 1
    <3>1. attn'.rows[2] = row /\ attn'.rows[1] = attn.rows[1]
      BY <1>5, <1>6, <1>7, <2>2
    <3>2. QED
      BY <1>3, <1>5, <1>6, <2>2, <3>1 DEF RowsFine, Dir
  <2>3. QED
    BY <1>7, <2>1, <2>2
<1>9. CallFine'
  <2>1. attn'.rows # <<>>
    BY <1>6
  <2>2. QED
    BY <1>1, <1>4, <1>6, <2>1 DEF ListsInv, CallFine, WalkFine
<1>10. VotesFine'
  <2>1. \A x \in Waves : Casts(x)' = Casts(x)
    BY <1>1, <1>4 DEF Casts
  <2>2. QED
    BY <1>1, <1>4, <2>1 DEF ListsInv, VotesFine, Recalls, VoteSlot
<1>11. Recorder' /\ Encoded'
  BY <1>1, <1>4 DEF ListsInv, Recorder, Encoded, RowOpen
<1>12. QED
  BY <1>8, <1>9, <1>10, <1>11 DEF ListsInv

-----------------------------------------------------------------------------
(* A call begins: nothing voted, nothing recorded.                         *)
LEMMA NothingRecorded ==
  ASSUME NEW b \in Int, NEW d \in {Asc, Desc}, NEW nkb \in Nat \ {0}
  PROVE  Encodes(NoRecord, b, d, nkb, <<>>)
<1>1. NoRecord.out = <<>> /\ NoRecord.skip = TRUE /\ Closed(NoRecord, b) = <<>>
  BY DEF NoRecord, Closed
<1>2. Len(<<>>) = 0 /\ <<>> \in Ints /\ 1 .. 0 = {}
  BY DEF Ints
<1>3. Marks(<<>>, d, nkb)
  BY <1>2 DEF Marks
<1>4. Back(<<>>, -d) = <<>>
  <2>1. Len(<<>>) \div 2 = 0
    OBVIOUS
  <2>2. Back(<<>>, -d) = FlattenSeq(<<>>)
    BY <1>2, <2>1 DEF Back
  <2>3. QED
    BY <1>2, <2>2 DEF FlattenSeq
<1>5. Reverse(<<>>) = <<>>
  BY <1>2 DEF Reverse
<1>6. kept(<<>>, -d) = 0
  <2>1. PICK N \in Nat : N = 0
    OBVIOUS
  <2>2. PICK row : row = <<>> /\ Len(row) \div 2 = N
    BY <2>1
  <2>3. PICK f : PairSums(f, row, -d, N) /\ kept(row, -d) = f[N]
    BY <2>2, KeptSum
  <2>4. QED
    BY <2>1, <2>2, <2>3 DEF PairSums
<1>7. 0 % 2 = 0
  OBVIOUS
<1>8. QED
  BY <1>1, <1>2, <1>3, <1>4, <1>5, <1>6, <1>7 DEF Encodes

LEMMA CursorStarts ==
  ASSUME NEW must \in MustDos, NEW d \in {Asc, Desc}, NEW b
  PROVE  Cursor(must, MustDoStart(must, d), b, d)
<1>1. PICK n \in Nat : n = Len(must)
  BY MustDoRanges
<1>2. CASE d = Asc
  BY <1>1, <1>2 DEF Cursor, MustDoStart
<1>3. CASE d # Asc
  BY <1>1, <1>3 DEF Cursor, MustDoStart
<1>4. QED
  BY <1>2, <1>3

LEMMA BeginLists ==
  ASSUME Shapes', NEW call, Begin(call), call.walk # <<>>, RowsFine',
         call.lite => /\ attn'.rows # <<>> /\ call.dir = Dir(attn'.phase) /\ call.must \in MustDos
                      /\ WalkFine(call, attn'.nkb)
  PROVE  ListsInv'
<1>1. /\ cta' = call /\ pc' = [w \in Waves |-> "prologue"] /\ step' = [w \in Waves |-> -1]
      /\ said' = [i \in 1 .. Len(call.walk) |-> {}]
      /\ rec' = [list |-> NoRecord, md |-> MustDoStart(call.must, call.dir)]
  BY DEF Begin
<1>2. Wave0 \in Waves
  BY WavesAssumption DEF Waves
<1>3. PICK N \in Nat \ {0}, walk \in Ints : walk = call.walk /\ N = Len(walk) /\ N = Steps'
  BY <1>1 DEF Shapes, Ints, Steps
<1>4. Recorder'
  BY <1>1 DEF Recorder
<1>5. CallFine'
  BY <1>1 DEF CallFine, WalkFine
<1>6. VotesFine'
  <2>1. said'[1] = {}
    BY <1>1, <1>3
  <2>2. \A w \in Waves : Casts(w)' = 0
    BY <1>1 DEF Casts
  <2>3. \A w \in Waves : Recalls(w)'
    BY <2>2 DEF Recalls
  <2>4. QED
    BY <2>1, <2>3 DEF VotesFine
<1>7. Encoded'
  <2>1. SUFFICES ASSUME call.lite PROVE Encoded'
    BY <1>1 DEF Encoded
  <2>2. RecCount' = 0
    BY <1>1, <1>2 DEF RecCount
  <2>3. PICK skips : skips = Dropped'
    OBVIOUS
  <2>4. Taken(Wave0, walk, skips, 0) = <<>>
    BY TakenStep
  <2>5. KeptOf(0)' = <<>>
    BY <1>1, <1>3, <2>3, <2>4 DEF KeptOf
  <2>6. PICK nkb \in Nat \ {0} : nkb = attn'.nkb
    BY <2>1 DEF RowsFine
  <2>7. PICK d \in {Asc, Desc} : d = call.dir
    BY <1>1 DEF Shapes
  <2>8. At(0)' \in Int
    <3>1. 0 + 1 \in 1 .. N /\ walk \in Seq(Int)
      BY <1>3 DEF Ints
    <3>2. walk[0 + 1] \in Int
      BY <1>3, <3>1, ElementOfSeq
    <3>3. QED
      BY <1>1, <1>3, <3>2 DEF At
  <2>9. Encodes(rec'.list, At(0)', cta'.dir, attn'.nkb, <<>>)
    <3>1. PICK b \in Int : b = At(0)'
      BY <2>8
    <3>2. Encodes(NoRecord, b, d, nkb, <<>>)
      BY NothingRecorded
    <3>3. rec'.list = NoRecord
      BY <1>1
    <3>4. QED
      BY <1>1, <2>6, <2>7, <3>1, <3>2, <3>3
  <2>10. Cursor(cta'.must, rec'.md, At(0)', cta'.dir)
    <3>0. PICK b : b = At(0)'
      OBVIOUS
    <3>1. PICK must \in MustDos : must = call.must
      BY <2>1
    <3>2. Cursor(must, MustDoStart(must, d), b, d)
      BY CursorStarts
    <3>3. rec'.md = MustDoStart(call.must, call.dir)
      BY <1>1
    <3>4. QED
      BY <1>1, <2>7, <3>0, <3>1, <3>2, <3>3
  <2>11. <<>> \in Ints /\ 0 \in 0 .. Steps' - 1
    <3>1. <<>> \in Ints
      BY DEF Ints
    <3>2. 0 \in 0 .. N - 1
      OBVIOUS
    <3>3. QED
      BY <1>3, <3>1, <3>2
  <2>12. QED
    BY <2>2, <2>5, <2>9, <2>10, <2>11 DEF Encoded
<1>8. QED
  BY <1>4, <1>5, <1>6, <1>7 DEF ListsInv

(* What a call reads, whatever it finds of the object.                     *)
LEMMA SeedWritten ==
  ASSUME NEW nkb \in Nat \ {0}
  PROVE  Written(SeedRow(nkb), Desc, nkb) /\ Written(<<>>, Asc, nkb)
<1>1. PICK row : row = SeedRow(nkb) /\ row \in Ints /\ Len(row) = 2 /\ row[1] = nkb - 1 /\ row[2] = -1
  <2> DEFINE seed == <<nkb - 1, -1>>
  <2>1. seed \in Seq(Int) /\ Len(seed) = 2 /\ seed[1] = nkb - 1 /\ seed[2] = -1
    OBVIOUS
  <2>2. SeedRow(nkb) = seed
    BY DEF SeedRow
  <2> HIDE DEF seed
  <2>3. QED
    BY <2>1, <2>2 DEF Ints
<1>2. \A i \in 1 .. Len(row) : Marker(row[i], Desc, nkb)
  BY <1>1 DEF Marker, Asc, Desc
<1>3. ASSUME NEW i \in 1 .. Len(row), NEW j \in 1 .. Len(row), i <= j PROVE (row[j] - row[i]) * Desc >= j - i
  <2>1. (i = 1 /\ j = 1) \/ (i = 1 /\ j = 2) \/ (i = 2 /\ j = 2)
    BY <1>1, <1>3
  <2>2. QED
    BY <1>1, <2>1 DEF Desc
<1>4. Written(row, Desc, nkb)
  BY <1>1, <1>2, <1>3 DEF Written, Marks
<1>5. Written(<<>>, Asc, nkb)
  <2>1. Len(<<>>) = 0 /\ <<>> \in Ints /\ 1 .. 0 = {} /\ 0 % 2 = 0
    BY DEF Ints
  <2>2. QED
    BY <2>1 DEF Written, Marks
<1>6. QED
  BY <1>1, <1>4, <1>5

LEMMA RowRead ==
  ASSUME NEW a, a.phase \in {0, 1}, NEW nkb, Written(a.rows[1], Desc, nkb), Written(a.rows[2], Asc, nkb)
  PROVE  Written(ReadRow(a), -Dir(a.phase), nkb)
<1>1. PICK e \in {1, -1} : e = -1
  OBVIOUS
<1>2. -e = 0 - e /\ 0 - e = 1
  <2>1. 0 - e = 1
    BY <1>1
  <2>2. -e = 0 - e
    OBVIOUS
  <2>3. QED
    BY <2>1, <2>2
<1>3. CASE a.phase = 0
  <2>1. 2 - a.phase = 2 /\ Dir(a.phase) = e
    BY <1>1, <1>3 DEF Dir, Desc
  <2>2. -Dir(a.phase) = Asc
    BY <1>2, <2>1 DEF Asc
  <2>3. QED
    BY <2>1, <2>2 DEF ReadRow
<1>4. CASE a.phase = 1
  <2>1. 2 - a.phase = 1 /\ Dir(a.phase) = 1 /\ Desc = -1
    BY <1>4 DEF Dir, Asc, Desc
  <2>2. ReadRow(a) = a.rows[1] /\ -Dir(a.phase) = Desc
    BY <2>1 DEF ReadRow
  <2>3. QED
    BY <2>2
<1>5. QED
  BY <1>3, <1>4

LEMMA EnsuredRows ==
  ASSUME Shapes, RowsFine, NEW nkb \in Nat \ {0}, attn' = Flipped(Ensured(nkb))
  PROVE  RowsFine' /\ attn'.rows # <<>> /\ Written(ReadRow(attn'), -Dir(attn'.phase), attn'.nkb)
<1>1. attn' \in Objects942 /\ Len(attn'.rows) = 2
  <2>1. nkb \in Int
    OBVIOUS
  <2>2. QED
    BY <2>1, EnsuredFine
<1>2. PICK e : e = Ensured(nkb)
  OBVIOUS
<1>3. /\ e.nkb \in Nat \ {0}
      /\ Written(e.rows[1], Desc, e.nkb) /\ Written(e.rows[2], Asc, e.nkb)
  <2>1. CASE attn.rows # <<>> /\ attn.nkb = nkb
    <3>1. e = attn
      BY <1>2, <2>1 DEF Ensured
    <3>2. QED
      BY <2>1, <3>1 DEF RowsFine
  <2>2. CASE ~(attn.rows # <<>> /\ attn.nkb = nkb)
    <3>1. e = [attn EXCEPT !.rows = <<SeedRow(nkb), <<>>>>, !.nkb = nkb, !.phase = 0, !.done = 0]
      BY <1>2, <2>2 DEF Ensured
    <3>2. PICK seed, none : seed = SeedRow(nkb) /\ none = <<>>
      OBVIOUS
    <3>3. attn \in Objects942
      BY DEF Shapes
    <3>4. e.rows = <<seed, none>> /\ e.nkb = nkb
      BY <3>1, <3>2, <3>3 DEF Objects942
    <3>5. e.rows[1] = seed /\ e.rows[2] = none
      BY <3>4
    <3>6. QED
      BY <3>2, <3>4, <3>5, SeedWritten
  <2>3. QED
    BY <2>1, <2>2
<1>4. attn'.rows = e.rows /\ attn'.nkb = e.nkb
  <2>1. attn' = [e EXCEPT !.phase = 1 - @, !.calls = @ + 1]
    BY <1>2 DEF Flipped
  <2>2. attn'.rows = [e EXCEPT !.phase = 1 - @, !.calls = @ + 1].rows
    BY <2>1
  <2>3. QED
    BY <2>1, <2>2
<1>5. attn'.rows # <<>>
  BY <1>1
<1>6. RowsFine'
  BY <1>3, <1>4 DEF RowsFine
<1>7. attn'.phase \in {0, 1}
  BY <1>1 DEF Objects942
<1>8. Written(ReadRow(attn'), -Dir(attn'.phase), attn'.nkb)
  <2>1. PICK a : a = attn'
    OBVIOUS
  <2>2. Written(ReadRow(a), -Dir(a.phase), a.nkb)
    BY <1>3, <1>4, <1>7, <2>1, RowRead
  <2>3. QED
    BY <2>1, <2>2
<1>9. QED
  BY <1>5, <1>6, <1>8

LEMMA CallsLists ==
  ASSUME Inv, Inv', ListsInv,
         \/ Launch
         \/ launch # NoLaunch /\ ~launch.lite /\ \E x \in Items(launch.plan) : DenseCta(x[3])
         \/ \E must \in MustDos : LiteCta(must)
         \/ \E nkb \in 1 .. MaxBlocks, must \in MustDos : Lite(nkb, must)
         \/ \E nkb \in 1 .. MaxBlocks : LiteRaises(nkb)
         \/ Reset
  PROVE  ListsInv'
<1>1. Shapes /\ Shapes' /\ RowsFine
  BY DEF Inv, ListsInv
<1>2. ASSUME Idle, UNCHANGED <<cta, kernel>>, RowsFine' PROVE ListsInv'
  BY <1>2 DEF ListsInv, Recorder, CallFine, VotesFine, Encoded, Idle, kernel
<1>3. ASSUME NEW a, NEW must \in MustDos, a = attn', RowsFine', a.rows # <<>>,
             Written(ReadRow(a), -Dir(a.phase), a.nkb), Begin(LiteCall(a, must))
      PROVE  ListsInv'
  <2>1. PICK nkb \in Nat \ {0} : nkb = a.nkb
    BY <1>3 DEF RowsFine
  <2>2. WalkFine(LiteCall(a, must), nkb)
    BY <1>3, <2>1, CallWalks
  <2>3. PICK call : call = LiteCall(a, must)
    OBVIOUS
  <2>4. call.dir = Dir(a.phase) /\ call.must = must
    BY <2>3 DEF LiteCall
  <2>5. a \in Objects942 /\ Len(a.rows) = 2
    BY <1>1, <1>3 DEF Shapes
  <2>6. call.walk # <<>>
    BY <2>3, <2>5, LiteCallFine
  <2>7. QED
    BY <1>1, <1>3, <2>1, <2>2, <2>3, <2>4, <2>6, BeginLists
<1>4. CASE Launch
  <2>1. PICK a \in Calls : Admitted942(a) /\ LiteFits(a) /\ Addressable(launch') /\ launch' = Launch942(a)
    BY <1>4 DEF Launch
  <2>2. /\ Idle /\ UNCHANGED <<cta, kernel>>
        /\ attn' = IF launch'.lite THEN Flipped(Ensured(launch'.plan.nkb)) ELSE attn
    BY <1>4 DEF Launch
  <2>3. PICK nkb \in Nat \ {0} : nkb = launch'.plan.nkb
    BY <2>1, LaunchPlans
  <2>4. CASE launch'.lite
    BY <1>1, <1>2, <2>2, <2>3, <2>4, EnsuredRows
  <2>5. CASE ~launch'.lite
    <3>1. RowsFine'
      BY <1>1, <2>2, <2>5 DEF RowsFine
    <3>2. QED
      BY <1>2, <2>2, <3>1
  <2>6. QED
    BY <2>4, <2>5
<1>5. CASE launch # NoLaunch /\ ~launch.lite /\ \E x \in Items(launch.plan) : DenseCta(x[3])
  <2>1. PICK x \in Items(launch.plan) : DenseCta(x[3])
    BY <1>5
  <2>2. x[3].walk # <<>>
    BY <1>5, Launched
  <2>3. PICK call : call = [NoCall EXCEPT !.walk = x[3].walk]
    OBVIOUS
  <2>4. Begin(call) /\ attn' = attn
    BY <2>1, <2>3 DEF DenseCta
  <2>5. call.walk = x[3].walk /\ call.lite = FALSE
    BY <2>3 DEF NoCall
  <2>6. RowsFine'
    BY <1>1, <2>4 DEF RowsFine
  <2>7. QED
    BY <1>1, <2>2, <2>4, <2>5, <2>6, BeginLists
<1>6. CASE \E must \in MustDos : LiteCta(must)
  <2>1. PICK must \in MustDos : LiteCta(must)
    BY <1>6
  <2>2. launch # NoLaunch /\ launch.lite /\ Begin(LiteCall(attn, must)) /\ attn' = attn
    BY <2>1 DEF LiteCta
  <2>3. Len(attn.rows) = 2 /\ attn \in Objects942
    BY <1>1, <2>2, Launched DEF Shapes
  <2>4. RowsFine' /\ attn.rows # <<>>
    <3>1. attn.rows # <<>>
      <4>1. SUFFICES ASSUME attn.rows = <<>> PROVE FALSE
        OBVIOUS
      <4>2. Len(<<>>) = 2
        BY <2>3, <4>1, Zenon
      <4>3. QED
        BY <4>2
    <3>2. RowsFine'
      BY <1>1, <2>2 DEF RowsFine
    <3>3. QED
      BY <3>1, <3>2
  <2>5. Written(ReadRow(attn), -Dir(attn.phase), attn.nkb)
    <3>1. Written(attn.rows[1], Desc, attn.nkb) /\ Written(attn.rows[2], Asc, attn.nkb)
      BY <1>1, <2>4 DEF RowsFine
    <3>2. attn.phase \in {0, 1}
      BY <2>3 DEF Objects942
    <3>3. PICK a : a = attn
      OBVIOUS
    <3>4. Written(ReadRow(a), -Dir(a.phase), a.nkb)
      BY <3>1, <3>2, <3>3, RowRead
    <3>5. QED
      BY <3>3, <3>4
  <2>6. PICK a : a = attn /\ a = attn'
    BY <2>2
  <2>7. QED
    BY <1>3, <2>2, <2>4, <2>5, <2>6
<1>7. CASE \E nkb \in 1 .. MaxBlocks, must \in MustDos : Lite(nkb, must)
  <2>1. PICK nkb \in 1 .. MaxBlocks, must \in MustDos : Lite(nkb, must)
    BY <1>7
  <2>2. attn' = Flipped(Ensured(nkb)) /\ Begin(LiteCall(attn', must))
    BY <2>1 DEF Lite
  <2>3. nkb \in Nat \ {0}
    BY BoundsAssumption
  <2>4. RowsFine' /\ attn'.rows # <<>> /\ Written(ReadRow(attn'), -Dir(attn'.phase), attn'.nkb)
    BY <1>1, <2>2, <2>3, EnsuredRows
  <2>5. PICK a : a = attn'
    OBVIOUS
  <2>6. QED
    BY <1>3, <2>2, <2>4, <2>5
<1>8. CASE \E nkb \in 1 .. MaxBlocks : LiteRaises(nkb)
  <2>1. PICK nkb \in 1 .. MaxBlocks : LiteRaises(nkb)
    BY <1>8
  <2>2. Idle /\ attn' = Flipped(Ensured(nkb)) /\ UNCHANGED <<cta, kernel>> /\ nkb \in Nat \ {0}
    BY <2>1, BoundsAssumption DEF LiteRaises
  <2>3. QED
    BY <1>1, <1>2, <2>2, EnsuredRows
<1>9. CASE Reset
  <2>1. Idle /\ UNCHANGED <<cta, kernel>> /\ attn' = [attn EXCEPT !.rows = <<>>, !.nkb = 0, !.phase = 0, !.done = 0]
    BY <1>9 DEF Reset
  <2>2. attn'.rows = <<>>
    BY <1>1, <2>1 DEF Shapes, Objects942
  <2>3. QED
    BY <1>2, <2>1, <2>2 DEF RowsFine
<1>10. QED
  BY <1>4, <1>5, <1>6, <1>7, <1>8, <1>9

LEMMA InitLists == Init => ListsInv
<1> SUFFICES ASSUME Init PROVE ListsInv
  OBVIOUS
<1>1. attn.rows = <<>> /\ \A w \in Waves : pc[w] = "idle"
  BY DEF Init
<1>2. QED
  BY <1>1 DEF ListsInv, Recorder, RowsFine, CallFine, VotesFine, Encoded, Idle

LEMMA NextLists == Inv /\ Inv' /\ ListsInv /\ [Next]_vars => ListsInv'
<1> SUFFICES ASSUME Inv, Inv', ListsInv, [Next]_vars PROVE ListsInv'
  OBVIOUS
<1>1. ASSUME NEW w \in Waves, WaveStep(w) PROVE ListsInv'
  BY <1>1, QuietLists, Half1BLists, Half2ALists, RecordVotesLists, EpilogueLists, FinishLists, StoreLists
     DEF WaveStep
<1>2. ASSUME NEW w \in GroupB, Land(w) PROVE ListsInv'
  BY <1>2, LandLists
<1>3. ASSUME Release PROVE ListsInv'
  BY <1>3, ReleaseLists
<1>4. CASE UNCHANGED vars
  <2>1. /\ attn' = attn /\ cta' = cta /\ pc' = pc /\ step' = step /\ vote' = vote /\ said' = said /\ rec' = rec
        /\ Steps' = Steps
    BY <1>4 DEF vars, Steps
  <2>2. Idle' = Idle /\ Recorder' /\ \A w \in Waves : Casts(w)' = Casts(w)
    BY <2>1 DEF Idle, ListsInv, Recorder, Casts
  <2>3. RowOpen' = RowOpen /\ RecCount' = RecCount
    BY <2>1 DEF RowOpen, RecCount
  <2>4. CASE ~Idle
    BY <2>1, <2>2, <2>3, <2>4, ListsStay
  <2>5. CASE Idle
    BY <2>1, <2>2, <2>5 DEF ListsInv, RowsFine, CallFine, VotesFine, Encoded
  <2>6. QED
    BY <2>4, <2>5
<1>5. QED
  BY <1>1, <1>2, <1>3, <1>4, CallsLists DEF Next

LEMMA ListsKeepVotes == Inv /\ ListsInv => NextRowKeepsVotes
<1> SUFFICES ASSUME Inv, ListsInv, pc[Wave0] = "flush" PROVE NextRowKeepsVotes
  BY DEF NextRowKeepsVotes
<1>1. PICK row, blocks, d, nkb :
        row = Recorded(Steps - 1, TRUE).list.out /\ blocks = KeptOf(Steps) /\ d = cta.dir /\ nkb = attn.nkb
  OBVIOUS
<1>2. /\ nkb \in Nat \ {0} /\ d \in {Asc, Desc} /\ Written(row, d, nkb) /\ blocks # <<>> /\ blocks \in Ints
      /\ Back(row, -d) = Reverse(blocks) /\ kept(row, -d) = Len(blocks)
  BY <1>1, FlushFine
<1>3. PICK L \in Nat : L = Len(row)
  BY <1>2 DEF Written, Marks, Ints
<1>4. row # <<>>
  <2>1. Len(blocks) # 0
    BY <1>2 DEF Ints
  <2>2. row = <<>> => kept(row, -d) = 0
    <3>1. SUFFICES ASSUME row = <<>> PROVE kept(row, -d) = 0
      OBVIOUS
    <3>2. PICK N \in Nat : N = 0 /\ Len(row) \div 2 = N
      BY <3>1
    <3>3. PICK f : PairSums(f, row, -d, N) /\ kept(row, -d) = f[N]
      BY <3>2, KeptSum
    <3>4. QED
      BY <3>2, <3>3 DEF PairSums
  <2>3. QED
    BY <1>2, <2>1, <2>2
<1>5. Walk(row, -d) = Reverse(blocks)
  BY <1>2, <1>4 DEF Walk, Ranges, Back
<1>6. L <= nkb + 1
  <2>1. CASE L = 0
    BY <1>2, <2>1
  <2>2. CASE L # 0
    <3>1. 1 \in 1 .. L /\ L \in 1 .. L /\ 1 <= L
      BY <2>2
    <3>2. (row[L] - row[1]) * d >= L - 1 /\ Marker(row[1], d, nkb) /\ Marker(row[L], d, nkb)
      BY <1>2, <1>3, <3>1 DEF Written, Marks
    <3>3. PICK first, last : first = row[1] /\ last = row[L]
      OBVIOUS
    <3>4. CASE d = Asc
      <4>1. first \in 0 .. nkb /\ last \in 0 .. nkb
        BY <3>2, <3>3, <3>4 DEF Marker
      <4>2. (last - first) * 1 >= L - 1
        BY <3>2, <3>3, <3>4 DEF Asc
      <4>3. QED
        BY <1>2, <4>1, <4>2
    <3>5. CASE d = Desc
      <4>1. first \in -1 .. nkb - 1 /\ last \in -1 .. nkb - 1
        BY <3>2, <3>3, <3>5 DEF Marker, Asc, Desc
      <4>2. (last - first) * (-1) >= L - 1
        BY <3>2, <3>3, <3>5 DEF Desc
      <4>3. QED
        BY <1>2, <4>1, <4>2
    <3>6. QED
      BY <1>2, <3>4, <3>5
  <2>3. QED
    BY <2>1, <2>2
<1>7. KeptBlocks = blocks
  BY <1>1 DEF KeptBlocks, KeptOf
<1>8. QED
  BY <1>1, <1>2, <1>3, <1>5, <1>6, <1>7 DEF NextRowKeepsVotes

(* The row thread 0 writes in a lite call, whatever the waves vote and     *)
(* whatever is pinned, walks back in the next call exactly the blocks some *)
(* wave voted to keep or a must-do range pins, in the other direction; it  *)
(* fits its slot of the list, and plan_lite_order counts its blocks right. *)
THEOREM NextRowKeepsVotesHolds == Spec => []NextRowKeepsVotes
<1>1. Init => Inv /\ ListsInv
  BY InitHolds, InitLists
<1>2. Inv /\ ListsInv /\ [Next]_vars => Inv' /\ ListsInv'
  BY NextKeeps, NextLists
<1>3. Inv /\ ListsInv => NextRowKeepsVotes
  BY ListsKeepVotes
<1>4. QED
  BY <1>1, <1>2, <1>3, PTL DEF Spec

-----------------------------------------------------------------------------
(* What a call launches is the attention of its tensors.  First numbers.   *)
LEMMA TimesMonotone942 ==
  ASSUME NEW a \in Int, NEW b \in Int, NEW y \in Nat, a <= b
  PROVE  a * y <= b * y
  BY SMT

LEMMA TimesBelow ==
  ASSUME NEW a \in Int, NEW b \in Int, NEW y \in Nat \ {0}
  PROVE  a < b <=> a * y < b * y
<1>1. a < b => a * y < b * y
  <2>1. SUFFICES ASSUME a < b PROVE a * y < b * y
    OBVIOUS
  <2>2. (a + 1) * y <= b * y /\ (a + 1) * y = a * y + y /\ a * y \in Int /\ b * y \in Int
    BY <2>1, TimesMonotone942, a + 1 \in Int, a + 1 <= b
  <2>3. QED
    BY <2>2
<1>2. ~(a < b) => ~(a * y < b * y)
  <2>1. SUFFICES ASSUME b <= a PROVE ~(a * y < b * y)
    OBVIOUS
  <2>2. b * y <= a * y /\ a * y \in Int /\ b * y \in Int
    BY <2>1, TimesMonotone942
  <2>3. QED
    BY <2>2
<1>3. QED
  BY <1>1, <1>2

LEMMA Positive ==
  ASSUME NEW a \in Nat \ {0}, NEW b \in Nat \ {0}
  PROVE  a * b \in Nat \ {0}
  BY SMT

LEMMA Divided942 ==
  ASSUME NEW y \in Nat \ {0}, NEW x \in Nat
  PROVE  \E q \in Nat, r \in 0 .. y - 1 : x = q * y + r /\ q = x \div y /\ r = x % y
<1>1. x \div y \in Int /\ x % y \in 0 .. y - 1 /\ x = (x \div y) * y + (x % y)
  BY Division942
<1>2. x \div y \in Nat
  BY <1>1, DivisionAtLeast
<1>3. QED
  BY <1>1, <1>2, Zenon

LEMMA OneQuotient942 ==
  ASSUME NEW y \in Nat \ {0}, NEW p \in Int, NEW q \in Int, NEW r \in 0 .. y - 1, NEW s \in 0 .. y - 1,
         p * y + r = q * y + s
  PROVE  p = q /\ r = s
<1>1. p * y \in Int /\ q * y \in Int /\ (p + 1) * y = p * y + y /\ (q + 1) * y = q * y + y
  BY SMT
<1>2. p < q => (p + 1) * y <= q * y
  BY TimesMonotone942, p + 1 \in Int, p < q => p + 1 <= q
<1>3. q < p => (q + 1) * y <= p * y
  BY TimesMonotone942, q + 1 \in Int, q < p => q + 1 <= p
<1>4. QED
  BY <1>1, <1>2, <1>3

LEMMA QuotientIs ==
  ASSUME NEW y \in Nat \ {0}, NEW q \in Nat, NEW r \in 0 .. y - 1
  PROVE  (q * y + r) \div y = q /\ (q * y + r) % y = r
<1>1. PICK x \in Nat : x = q * y + r
  BY SMT
<1>2. PICK p \in Nat, s \in 0 .. y - 1 : x = p * y + s /\ p = x \div y /\ s = x % y
  BY Divided942, ZenonT(60)
<1>3. p = q /\ s = r
  BY <1>1, <1>2, OneQuotient942
<1>4. QED
  BY <1>1, <1>2, <1>3

LEMMA Below942 ==
  ASSUME NEW y \in Nat \ {0}, NEW z \in Nat \ {0}, NEW b \in 0 .. y - 1, NEW c \in 0 .. z - 1
  PROVE  y * z \in Nat \ {0} /\ b * z + c \in 0 .. y * z - 1
<1>1. y * z \in Nat \ {0} /\ b * z \in Nat
  BY Positive
<1>2. (y - 1) * z = y * z - z /\ b * z <= (y - 1) * z
  BY TimesMonotone942, y - 1 \in Int
<1>3. QED
  BY <1>1, <1>2

(* l is below the number of y's that cover d exactly if l * y is below d.  *)
LEMMA CeilCovers ==
  ASSUME NEW d \in Nat, NEW y \in Nat \ {0}, NEW l \in Int
  PROVE  l < Ceil(d, y) <=> l * y < d
<1>1. PICK x \in Nat : x = d + y - 1
  OBVIOUS
<1>2. PICK m \in Nat, r \in 0 .. y - 1 : x = m * y + r /\ m = x \div y
  BY Divided942, ZenonT(60)
<1>3. (m + 1) * y = m * y + y /\ (l + 1) * y = l * y + y /\ l * y \in Int /\ m * y \in Int
  BY SMT
<1>4. l < m => (l + 1) * y <= m * y
  BY TimesMonotone942, l + 1 \in Int, l < m => l + 1 <= m
<1>5. ~(l < m) => m * y <= l * y
  BY TimesMonotone942, ~(l < m) => m <= l
<1>6. l < m <=> l * y < d
  BY <1>1, <1>2, <1>3, <1>4, <1>5
<1>7. QED
  BY <1>1, <1>2, <1>6 DEF Ceil

LEMMA SameSize ==
  ASSUME NEW S, NEW T, NEW f \in [S -> T], IsFiniteSet(S),
         \A x, y \in S : f[x] = f[y] => x = y, \A t \in T : \E x \in S : f[x] = t
  PROVE  IsFiniteSet(T) /\ Cardinality(T) = Cardinality(S)
<1>1. f \in Bijection(S, T)
  BY Fun_IsBij
<1>2. ExistsBijection(S, T)
  BY <1>1, Zenon DEF ExistsBijection
<1>3. QED
  BY <1>2, FS_Bijection

-----------------------------------------------------------------------------
(* The walk of a part is the blocks of its remainder.                      *)
LEMMA StrideTakes ==
  ASSUME NEW by \in Nat \ {0}, NEW first \in 0 .. by - 1, NEW nkb \in Nat, first < nkb, NEW b \in 0 .. nkb - 1
  PROVE  b \in ToSet(Stride(first, by, nkb)) <=> b % by = first
<1>1. PICK d \in Nat : d = nkb - first
  OBVIOUS
<1> DEFINE n == Ceil(d, by)
<1>8. n \in Nat
  BY CeilOf
<1>2. Stride(first, by, nkb) = [i \in 1 .. n |-> first + (i - 1) * by]
  BY <1>1 DEF Stride
<1> HIDE DEF n
<1>3. b \in ToSet(Stride(first, by, nkb)) <=> \E i \in 1 .. n : b = first + (i - 1) * by
  BY <1>2, <1>8 DEF ToSet
<1>4. PICK q \in Nat, r \in 0 .. by - 1 : b = q * by + r /\ r = b % by
  BY Divided942, b \in Nat, ZenonT(60)
<1>9. PICK u \in Nat : u = q * by /\ b = u + r
  <2>1. q * by \in Nat
    BY SMT
  <2>2. QED
    BY <1>4, <2>1
<1>5. ASSUME NEW i \in 1 .. n, b = first + (i - 1) * by PROVE r = first
  <2>1. PICK j \in Nat : j = i - 1
    OBVIOUS
  <2>2. j * by + first = q * by + r
    <3>1. j * by \in Int /\ q * by \in Int
      BY SMT
    <3>2. QED
      BY <1>4, <1>5, <2>1, <3>1
  <2>3. QED
    BY <2>2, OneQuotient942
<1>6. ASSUME r = first PROVE \E i \in 1 .. n : b = first + (i - 1) * by
  <2>1. u < d
    BY <1>1, <1>6, <1>9
  <2>2. q < n
    BY <1>1, <1>9, <2>1, CeilCovers, q \in Int DEF n
  <2>3. q + 1 \in 1 .. n /\ (q + 1) - 1 = q
    BY <1>8, <2>2
  <2>6. b = first + ((q + 1) - 1) * by
    BY <1>6, <1>9, <2>3
  <2>7. QED
    BY <2>3, <2>6
<1>7. QED
  BY <1>3, <1>4, <1>5, <1>6

LEMMA SwizzleOf ==
  ASSUME NEW chunk \in Nat \ {0}, NEW n \in Nat, NEW j \in Nat, NEW x \in 0 .. NumXcds - 1, NEW l \in 0 .. chunk - 1,
         (j * chunk + l) * NumXcds + x < (n \div (NumXcds * chunk)) * (NumXcds * chunk)
  PROVE  chiplet_swizzle((j * chunk + l) * NumXcds + x, n, chunk) = j * (NumXcds * chunk) + (x * chunk + l)
<1>1. PICK X \in Nat \ {0}, local \in Nat, c \in Nat : X = NumXcds /\ local = j * chunk + l /\ c = local * X + x
  BY TailSplitAssumption, SMT
<1>2. c \div X = local /\ c % X = x
  BY <1>1, QuotientIs
<1>3. local \div chunk = j /\ local % chunk = l
  BY <1>1, QuotientIs
<1>7. ~ (c >= (n \div (X * chunk)) * (X * chunk))
  <2>1. PICK block \in Nat \ {0} : block = X * chunk
    BY Positive
  <2>2. n \div block \in Nat
    BY Divided942, ZenonT(60)
  <2>3. (n \div block) * block \in Nat
    BY <2>2, SMT
  <2>4. QED
    BY <1>1, <2>1, <2>3
<1>4. chiplet_swizzle(c, n, chunk) = j * (X * chunk) + x * chunk + l
  BY <1>1, <1>2, <1>3, <1>7, Zenon DEF chiplet_swizzle
<1>5. j * (X * chunk) \in Int /\ x * chunk \in Int
  BY <1>1, Positive
<1>6. QED
  BY <1>1, <1>4, <1>5

LEMMA SwizzleDigits ==
  ASSUME NEW X \in Nat \ {0}, NEW chunk \in Nat \ {0}, NEW c \in Nat
  PROVE  \E j \in Nat : \E x \in 0 .. X - 1 : \E l \in 0 .. chunk - 1 : c = (j * chunk + l) * X + x
<1>1. PICK local \in Nat, x \in 0 .. X - 1 : c = local * X + x
  BY Divided942, ZenonT(60)
<1>2. PICK j \in Nat, l \in 0 .. chunk - 1 : local = j * chunk + l
  BY Divided942, ZenonT(60)
<1>3. QED
  BY <1>1, <1>2

LEMMA SwizzleBelow ==
  ASSUME NEW X \in Nat \ {0}, NEW chunk \in Nat \ {0}, NEW m \in Nat,
         NEW j \in Nat, NEW x \in 0 .. X - 1, NEW l \in 0 .. chunk - 1
  PROVE  (j * chunk + l) * X + x < m * (X * chunk) <=> j < m
<1>3. PICK block \in Nat \ {0} : block = X * chunk
  BY Positive
<1>4. l * X + x \in 0 .. chunk * X - 1 /\ chunk * X = block
  BY <1>3, Below942
<1>5. (j * chunk + l) * X + x = j * block + (l * X + x)
  BY <1>3, SMT
<1>6. j < m => j * block + block <= m * block
  <2>1. (j + 1) * block = j * block + block
    BY SMT
  <2>2. QED
    BY <2>1, TimesMonotone942, j + 1 \in Int, j < m => j + 1 <= m
<1>7. ~(j < m) => m * block <= j * block
  BY TimesMonotone942, ~(j < m) => m <= j
<1>8. j * block \in Int /\ m * block \in Int
  BY SMT
<1>9. j * block + (l * X + x) < m * block <=> j < m
  BY <1>4, <1>6, <1>7, <1>8
<1>10. QED
  BY <1>3, <1>5, <1>9

(* The swizzle runs each workgroup once, and nothing else.                 *)
RunOnce(n, chunk, wg) ==
  /\ \E c \in 0 .. n - 1 :
       /\ chiplet_swizzle(c, n, chunk) = wg
       /\ \A d \in 0 .. n - 1 : chiplet_swizzle(d, n, chunk) = wg => d = c
  /\ \A d \in 0 .. n - 1 : chiplet_swizzle(d, n, chunk) < n

LEMMA SwizzleOnce ==
  ASSUME NEW chunk \in Nat \ {0}, NEW n \in Nat, NEW wg \in 0 .. n - 1
  PROVE  RunOnce(n, chunk, wg)
<1>1. PICK X \in Nat \ {0}, block \in Nat \ {0} : X = NumXcds /\ block = X * chunk
  BY TailSplitAssumption, Positive
<1>2. PICK m \in Nat, rest \in 0 .. block - 1 : n = m * block + rest /\ m = n \div block
  BY Divided942, ZenonT(60)
<1>3. PICK limit \in Nat : limit = m * block /\ limit <= n
  <2>1. m * block \in Nat
    BY SMT
  <2>2. QED
    BY <1>2, <2>1
<1>4. \A d \in Nat : d >= limit => chiplet_swizzle(d, n, chunk) = d
  BY <1>1, <1>2, <1>3 DEF chiplet_swizzle
(* Below the limit, a workgroup's digits trade places.                     *)
<1>5. ASSUME NEW j \in Nat, NEW x \in 0 .. X - 1, NEW l \in 0 .. chunk - 1
      PROVE  /\ (j * chunk + l) * X + x < limit <=> j < m
             /\ j < m => chiplet_swizzle((j * chunk + l) * X + x, n, chunk) = j * block + (x * chunk + l)
  <2>1. (j * chunk + l) * X + x < m * (X * chunk) <=> j < m
    BY SwizzleBelow
  <2>2. (j * chunk + l) * X + x < limit <=> j < m
    BY <1>1, <1>3, <2>1, Zenon
  <2>3. ASSUME j < m
        PROVE  chiplet_swizzle((j * chunk + l) * X + x, n, chunk) = j * block + (x * chunk + l)
    <3>1. /\ x \in 0 .. NumXcds - 1 /\ block = NumXcds * chunk
          /\ (j * chunk + l) * NumXcds + x < (n \div (NumXcds * chunk)) * (NumXcds * chunk)
      BY <1>1, <1>2, <2>1, <2>3, Zenon
    <3>2. chiplet_swizzle((j * chunk + l) * NumXcds + x, n, chunk) = j * (NumXcds * chunk) + (x * chunk + l)
      BY <3>1, SwizzleOf
    <3>3. QED
      BY <1>1, <3>2, Zenon
  <2>4. QED
    BY <2>2, <2>3
<1>10. ASSUME NEW d \in Nat
       PROVE  \E j \in Nat : \E x \in 0 .. X - 1 : \E l \in 0 .. chunk - 1 : d = (j * chunk + l) * X + x
  BY SwizzleDigits, Zenon
<1>6. ASSUME NEW d \in Nat, d < limit PROVE chiplet_swizzle(d, n, chunk) \in Int /\ chiplet_swizzle(d, n, chunk) < limit
  <2>5. PICK j \in Nat : \E x \in 0 .. X - 1 : \E l \in 0 .. chunk - 1 : d = (j * chunk + l) * X + x
    BY <1>10
  <2>6. PICK x \in 0 .. X - 1 : \E l \in 0 .. chunk - 1 : d = (j * chunk + l) * X + x
    BY <2>5
  <2>7. PICK l \in 0 .. chunk - 1 : d = (j * chunk + l) * X + x
    BY <2>6
  <2>1. j < m /\ chiplet_swizzle(d, n, chunk) = j * block + (x * chunk + l)
    BY <1>5, <1>6, <2>7
  <2>2. PICK o \in 0 .. block - 1 : o = x * chunk + l
    BY <1>1, Below942
  <2>3. (j + 1) * block <= m * block /\ (j + 1) * block = j * block + block /\ j * block \in Int
    BY <2>1, TimesMonotone942, j + 1 \in Int, j + 1 <= m, SMT
  <2>4. QED
    BY <1>3, <2>1, <2>2, <2>3
<1>11. \A d \in 0 .. n - 1 : chiplet_swizzle(d, n, chunk) < n
  <2>1. SUFFICES ASSUME NEW d \in 0 .. n - 1 PROVE chiplet_swizzle(d, n, chunk) < n
    OBVIOUS
  <2>2. CASE d < limit
    BY <1>3, <1>6, <2>2
  <2>3. CASE ~(d < limit)
    BY <1>3, <1>4, <2>3
  <2>4. QED
    BY <2>2, <2>3
<1>7. CASE wg >= limit
  <2>1. chiplet_swizzle(wg, n, chunk) = wg
    BY <1>4, <1>7
  <2>2. ASSUME NEW d \in 0 .. n - 1, chiplet_swizzle(d, n, chunk) = wg PROVE d = wg
    <3>1. d \in Nat /\ (d < limit \/ d >= limit)
      OBVIOUS
    <3>2. QED
      BY <1>4, <1>6, <1>7, <2>2, <3>1
  <2>3. QED
    BY <1>11, <2>1, <2>2 DEF RunOnce
<1>8. CASE wg < limit
  <2>1. PICK j \in Nat, o \in 0 .. block - 1 : wg = j * block + o
    BY Divided942, wg \in Nat, ZenonT(60)
  <2>2. PICK x \in Nat, l \in 0 .. chunk - 1 : o = x * chunk + l
    BY Divided942, o \in Nat, ZenonT(60)
  <2>3. x \in 0 .. X - 1
    <3>1. x * chunk \in Nat /\ x * chunk < X * chunk
      BY <1>1, <2>2, SMT
    <3>2. QED
      BY <3>1, TimesBelow
  <2>4. j < m
    <3>1. j * block \in Nat /\ j * block < m * block
      BY <1>3, <1>8, <2>1, SMT
    <3>2. QED
      BY <3>1, TimesBelow
  <2>5. PICK c \in Nat : c = (j * chunk + l) * X + x
    BY <2>3, SMT
  <2>6. c < limit /\ chiplet_swizzle(c, n, chunk) = j * block + (x * chunk + l)
    BY <1>5, <2>3, <2>4, <2>5
  <2>7. chiplet_swizzle(c, n, chunk) = wg
    BY <2>1, <2>2, <2>6
  <2>8. ASSUME NEW d \in 0 .. n - 1, chiplet_swizzle(d, n, chunk) = wg PROVE d = c
    <3>1. d \in Nat /\ d < limit
      BY <1>4, <1>8, <2>8
    <3>7. PICK i \in Nat : \E y \in 0 .. X - 1 : \E r \in 0 .. chunk - 1 : d = (i * chunk + r) * X + y
      BY <1>10, <3>1
    <3>8. PICK y \in 0 .. X - 1 : \E r \in 0 .. chunk - 1 : d = (i * chunk + r) * X + y
      BY <3>7
    <3>9. PICK r \in 0 .. chunk - 1 : d = (i * chunk + r) * X + y
      BY <3>8
    <3>2. wg = i * block + (y * chunk + r)
      BY <1>5, <2>8, <3>1, <3>9
    <3>3. PICK p \in 0 .. block - 1 : p = y * chunk + r
      BY <1>1, Below942
    <3>4. i = j /\ p = o
      BY <2>1, <3>2, <3>3, OneQuotient942
    <3>5. y = x /\ r = l
      BY <2>2, <2>3, <3>3, <3>4, OneQuotient942
    <3>6. QED
      BY <2>5, <3>4, <3>5, <3>9
  <2>9. c \in 0 .. n - 1
    BY <1>3, <2>6
  <2>10. QED
    BY <1>11, <2>7, <2>8, <2>9 DEF RunOnce
<1>9. QED
  BY <1>7, <1>8

-----------------------------------------------------------------------------
(* A plan splits off fewer workgroups than CUs, in parts with kv blocks.   *)
LEMMA PlanIs ==
  ASSUME NEW nqb \in Nat \ {0}, NEW bh \in Nat \ {0}, NEW nkb \in Nat \ {0}, NEW enable \in BOOLEAN, NEW p,
         p = Plan(nqb, bh, nkb, enable)
  PROVE  /\ p.nqb = nqb /\ p.bh = bh /\ p.nkb = nkb
         /\ p.prefix \in Nat /\ p.tail \in Nat
         /\ p.tail = 0 => p.parts = 0
         /\ p.tail # 0 => /\ p.ways \in Nat \ {0} /\ p.ways <= nkb
                          /\ p.parts = p.tail * p.ways /\ p.parts <= MaxParts
<1>9. PICK n \in Nat : n = nqb * bh
  BY Positive
<1>1. PICK tail, g : tail = TailOf(n, nkb, enable) /\ g = (IF tail = 0 THEN 1 ELSE Best(tail, nkb))
  OBVIOUS
<1>2. p = [nqb |-> nqb, bh |-> bh, nkb |-> nkb, prefix |-> n - tail, tail |-> tail, ways |-> g,
           parts |-> IF tail = 0 THEN 0 ELSE tail * g]
  BY <1>1, <1>9 DEF Plan
<1>3. PICK q \in Nat, r \in 0 .. NumCUs - 1 : n = q * NumCUs + r /\ r = n % NumCUs
  BY Divided942, TailSplitAssumption, ZenonT(60)
<1>4. PICK u \in Nat : u = q * NumCUs
  BY TailSplitAssumption
<1>5. tail = 0 \/ (tail = r /\ Best(tail, nkb) # 1)
  BY <1>1, <1>3 DEF TailOf
<1>6. tail \in Nat /\ n - tail \in Nat
  BY <1>3, <1>4, <1>5
<1>7. ASSUME tail # 0
      PROVE  g \in Nat \ {0} /\ g <= nkb /\ tail * g \in Nat /\ tail * g <= MaxParts
  <2>1. g = Best(tail, nkb) /\ g # 1
    BY <1>1, <1>5, <1>7
  <2>2. g \in Splits(tail, nkb)
    BY <1>6, <1>7, <2>1, BestIsTried
  <2>3. g \in 2 .. MaxParts \div tail /\ nkb \div g >= MinBlocksPerPart /\ MinBlocksPerPart \in Nat \ {0}
    BY <2>2, TailSplitAssumption DEF Splits
  <2>4. g <= nkb
    BY <2>3, DivisionAtLeast
  <2>5. MaxParts \in Nat
    BY TailSplitAssumption DEF MaxParts
  <2>6. PICK h \in Nat, s \in 0 .. tail - 1 : MaxParts = h * tail + s /\ h = MaxParts \div tail
    BY <1>6, <1>7, <2>5, Divided942, ZenonT(60)
  <2>7. g * tail <= h * tail /\ h * tail \in Int /\ g * tail = tail * g /\ tail * g \in Nat
    BY <1>6, <2>3, <2>6, TimesMonotone942
  <2>8. QED
    BY <2>3, <2>4, <2>5, <2>6, <2>7
<1>8. QED
  BY <1>1, <1>2, <1>6, <1>7

LEMMA PlanCovers ==
  ASSUME NEW nqb \in Nat \ {0}, NEW bh \in Nat \ {0}, NEW nkb \in Nat \ {0}, NEW enable \in BOOLEAN, NEW p,
         p = Plan(nqb, bh, nkb, enable)
  PROVE  p.prefix + p.tail = nqb * bh
<1>1. PICK n \in Nat : n = nqb * bh
  BY Positive
<1>2. PICK tail \in Nat, prefix \in Nat : tail = p.tail /\ prefix = p.prefix
  BY PlanIs
<1>3. prefix = n - tail
  BY <1>1, <1>2 DEF Plan
<1>4. QED
  BY <1>1, <1>2, <1>3

LEMMA OneItem ==
  ASSUME NEW S, NEW x \in S, \A y \in S : y = x
  PROVE  Cardinality(S) = 1
<1>1. S = {x}
  OBVIOUS
<1>2. QED
  BY <1>1, FS_Singleton

LEMMA WholeWalk ==
  ASSUME NEW nkb \in Nat \ {0}, NEW b \in 0 .. nkb - 1
  PROVE  b \in ToSet(Stride(0, 1, nkb))
<1>1. b = b * 1 + 0 /\ 0 \in 0 .. 1 - 1
  OBVIOUS
<1>2. (b * 1 + 0) % 1 = 0
  BY <1>1, QuotientIs
<1>3. b % 1 = 0
  BY <1>1, <1>2
<1>4. QED
  BY <1>3, StrideTakes

(* A workgroup before the tail runs in one CTA, over the whole walk.       *)
LEMMA PrefixOnce ==
  ASSUME NEW nqb \in Nat \ {0}, NEW bh \in Nat \ {0}, NEW nkb \in Nat \ {0}, NEW enable \in BOOLEAN, NEW p,
         p = Plan(nqb, bh, nkb, enable), NEW wg \in 0 .. p.prefix - 1
  PROVE  \E c \in 0 .. p.prefix - 1 :
           PrefixWg(p, c) = wg /\ \A d \in 0 .. p.prefix - 1 : PrefixWg(p, d) = wg => d = c
<1>1. p.prefix \in Nat /\ p.nqb = nqb
  BY PlanIs
<1>2. CASE p.tail = 0
  <2>1. RunOnce(p.prefix, nqb, wg)
    BY <1>1, SwizzleOnce
  <2>2. QED
    BY <1>1, <1>2, <2>1 DEF PrefixWg, RunOnce
<1>3. CASE p.tail # 0
  BY <1>3 DEF PrefixWg
<1>4. QED
  BY <1>2, <1>3

(* Workgroups before the tail are none of a part's.                        *)
LEMMA PartsAfter ==
  ASSUME NEW nqb \in Nat \ {0}, NEW bh \in Nat \ {0}, NEW nkb \in Nat \ {0}, NEW enable \in BOOLEAN, NEW p,
         p = Plan(nqb, bh, nkb, enable), NEW c \in 0 .. p.parts - 1
  PROVE  /\ p.tail # 0 /\ p.ways \in Nat \ {0} /\ p.ways <= nkb /\ c \in Nat
         /\ c \div p.ways \in 0 .. p.tail - 1 /\ c % p.ways \in 0 .. p.ways - 1
         /\ c = (c \div p.ways) * p.ways + (c % p.ways)
<1>1. p.tail # 0 /\ p.tail \in Nat /\ p.ways \in Nat \ {0} /\ p.ways <= nkb /\ p.parts = p.tail * p.ways
  BY PlanIs
<1>2. PICK W \in Nat \ {0}, T \in Nat : W = p.ways /\ T = p.tail
  BY <1>1
<1>3. T * W \in Nat /\ c \in 0 .. T * W - 1 /\ c \in Nat
  BY <1>1, <1>2
<1>4. PICK q \in Nat, r \in 0 .. W - 1 : c = q * W + r /\ q = c \div W /\ r = c % W
  BY <1>3, Divided942, ZenonT(60)
<1>5. q * W \in Nat /\ q * W < T * W
  BY <1>3, <1>4
<1>6. q < T
  BY <1>5, TimesBelow
<1>7. q \in 0 .. T - 1
  BY <1>6
<1>8. QED
  BY <1>1, <1>2, <1>3, <1>4, <1>7, Zenon

-----------------------------------------------------------------------------
(* Each kv block of each q block, once.                                    *)
LEMMA ItemsOf ==
  ASSUME NEW p, NEW x
  PROVE  x \in Items(p) <=> \/ \E c \in 0 .. p.prefix - 1 : x = <<"prefix", c, PrefixItem(p, c)>>
                            \/ \E c \in 0 .. p.parts - 1 : x = <<"part", c, PartItem(p, c)>>
  BY Zenon DEF Items

LEMMA ItemHas ==
  ASSUME NEW p, NEW c
  PROVE  /\ PrefixItem(p, c).wg = PrefixWg(p, c) /\ PrefixItem(p, c).walk = Stride(0, 1, p.nkb)
         /\ PartItem(p, c).wg = PartWg(p, c) /\ PartItem(p, c).walk = Stride(PartFirst(p, c), p.ways, p.nkb)
  BY DEF PrefixItem, PartItem

LEMMA PrefixBelow ==
  ASSUME NEW nqb \in Nat \ {0}, NEW bh \in Nat \ {0}, NEW nkb \in Nat \ {0}, NEW enable \in BOOLEAN, NEW p,
         p = Plan(nqb, bh, nkb, enable), NEW c \in 0 .. p.prefix - 1
  PROVE  PrefixWg(p, c) < p.prefix
<1>1. p.prefix \in Nat /\ p.nqb = nqb
  BY PlanIs
<1>2. CASE p.tail # 0
  BY <1>1, <1>2 DEF PrefixWg
<1>3. CASE p.tail = 0
  <2>1. PICK n \in Nat, d \in Nat : n = p.prefix /\ d = c /\ d < n
    BY <1>1
  <2>2. RunOnce(n, nqb, d)
    BY <2>1, SwizzleOnce, d \in 0 .. n - 1
  <2>3. QED
    BY <1>1, <1>3, <2>1, <2>2 DEF PrefixWg, RunOnce
<1>4. QED
  BY <1>2, <1>3

LEMMA WalkedOnce ==
  ASSUME NEW nqb \in Nat \ {0}, NEW bh \in Nat \ {0}, NEW nkb \in Nat \ {0}, NEW enable \in BOOLEAN, NEW p,
         p = Plan(nqb, bh, nkb, enable), NEW wg \in Nat, wg < p.prefix + p.tail, NEW b \in 0 .. nkb - 1
  PROVE  Cardinality({x \in Items(p) : x[3].wg = wg /\ b \in ToSet(x[3].walk)}) = 1
<1> DEFINE S == {x \in Items(p) : x[3].wg = wg /\ b \in ToSet(x[3].walk)}
<1>1. p.prefix \in Nat /\ p.tail \in Nat /\ p.nkb = nkb
  BY PlanIs
<1>2. CASE wg < p.prefix
  <2>1. PICK c \in 0 .. p.prefix - 1 :
          PrefixWg(p, c) = wg /\ \A d \in 0 .. p.prefix - 1 : PrefixWg(p, d) = wg => d = c
    BY <1>1, <1>2, PrefixOnce, wg \in 0 .. p.prefix - 1
  <2>2. <<"prefix", c, PrefixItem(p, c)>> \in S
    BY <1>1, <2>1, ItemsOf, ItemHas, WholeWalk
  <2>3. ASSUME NEW x \in S PROVE x = <<"prefix", c, PrefixItem(p, c)>>
    <3>1. CASE \E d \in 0 .. p.prefix - 1 : x = <<"prefix", d, PrefixItem(p, d)>>
      <4>1. PICK d \in 0 .. p.prefix - 1 : x = <<"prefix", d, PrefixItem(p, d)>>
        BY <3>1
      <4>2. PrefixWg(p, d) = wg
        BY <4>1, ItemHas
      <4>3. QED
        BY <2>1, <4>1, <4>2
    <3>2. CASE \E d \in 0 .. p.parts - 1 : x = <<"part", d, PartItem(p, d)>>
      <4>1. PICK d \in 0 .. p.parts - 1 : x = <<"part", d, PartItem(p, d)>>
        BY <3>2
      <4>2. PartWg(p, d) = wg
        BY <4>1, ItemHas
      <4>3. d \div p.ways \in 0 .. p.tail - 1
        BY PartsAfter
      <4>4. QED
        BY <1>1, <1>2, <4>2, <4>3 DEF PartWg
    <3>3. QED
      BY <3>1, <3>2, ItemsOf
  <2>4. QED
    BY <2>2, <2>3, OneItem, Zenon
<1>3. CASE ~(wg < p.prefix)
  <2>14. wg - p.prefix \in 0 .. p.tail - 1 /\ wg = p.prefix + (wg - p.prefix)
    BY <1>1, <1>3
  <2>1. PICK t \in 0 .. p.tail - 1 : wg = p.prefix + t
    BY <2>14
  <2>2. p.tail # 0 /\ p.ways \in Nat \ {0} /\ p.ways <= nkb /\ p.parts = p.tail * p.ways
    BY <1>1, <2>1, PlanIs
  <2>3. PICK W \in Nat \ {0}, T \in Nat \ {0} : W = p.ways /\ T = p.tail
    BY <1>1, <2>2
  <2>4. PICK q \in Nat, r \in 0 .. W - 1 : b = q * W + r /\ r = b % W
    BY Divided942, b \in Nat, ZenonT(60)
  <2>5. PICK c \in 0 .. T * W - 1 : c = t * W + r
    BY <2>1, <2>3, Below942
  <2>6. c \div W = t /\ c % W = r
    BY <2>5, QuotientIs, t \in Nat
  <2>7. c \in 0 .. p.parts - 1
    BY <2>2, <2>3, <2>5, Zenon
  <2>8. r < nkb /\ r \in Nat
    BY <2>2, <2>3
  <2>9. b \in ToSet(Stride(r, W, nkb))
    BY <2>4, <2>8, StrideTakes, r \in 0 .. W - 1
  <2>10. PartWg(p, c) = wg /\ PartFirst(p, c) = r
    BY <2>1, <2>3, <2>6 DEF PartWg, PartFirst
  <2>11. <<"part", c, PartItem(p, c)>> \in S
    BY <1>1, <2>3, <2>7, <2>9, <2>10, ItemsOf, ItemHas, Zenon
  <2>12. ASSUME NEW x \in S PROVE x = <<"part", c, PartItem(p, c)>>
    <3>1. CASE \E d \in 0 .. p.prefix - 1 : x = <<"prefix", d, PrefixItem(p, d)>>
      <4>1. PICK d \in 0 .. p.prefix - 1 : x = <<"prefix", d, PrefixItem(p, d)>>
        BY <3>1
      <4>2. PrefixWg(p, d) = wg
        BY <4>1, ItemHas
      <4>3. QED
        BY <1>1, <1>3, <4>2, PrefixBelow
    <3>2. CASE \E d \in 0 .. p.parts - 1 : x = <<"part", d, PartItem(p, d)>>
      <4>1. PICK d \in 0 .. p.parts - 1 : x = <<"part", d, PartItem(p, d)>>
        BY <3>2
      <4>2. PartWg(p, d) = wg /\ b \in ToSet(Stride(PartFirst(p, d), p.ways, p.nkb))
        BY <4>1, ItemHas
      <4>3. d \in Nat /\ d \div W \in 0 .. T - 1 /\ d % W \in 0 .. W - 1 /\ d = (d \div W) * W + (d % W)
        BY <2>3, PartsAfter
      <4>10. PICK e \in 0 .. T - 1 : e = d \div W
        BY <4>3
      <4>11. wg = p.prefix + e
        BY <2>3, <4>2, <4>10 DEF PartWg
      <4>4. d \div W = t
        BY <1>1, <2>1, <4>10, <4>11
      <4>5. PICK s \in 0 .. W - 1 : s = d % W /\ s < nkb
        BY <2>2, <2>3, <4>3
      <4>6. b \in ToSet(Stride(s, W, nkb))
        BY <1>1, <2>3, <4>2, <4>5 DEF PartFirst
      <4>7. s = r
        BY <2>4, <4>5, <4>6, StrideTakes
      <4>8. d = c
        BY <2>5, <4>3, <4>4, <4>5, <4>7, Zenon
      <4>9. QED
        BY <4>1, <4>8
    <3>3. QED
      BY <3>1, <3>2, ItemsOf
  <2>13. QED
    BY <2>11, <2>12, OneItem, Zenon
<1>4. QED
  BY <1>2, <1>3

LEMMA MergeReads ==
  ASSUME NEW nqb \in Nat \ {0}, NEW bh \in Nat \ {0}, NEW nkb \in Nat \ {0}, NEW enable \in BOOLEAN, NEW p,
         p = Plan(nqb, bh, nkb, enable), NEW t \in 0 .. p.tail - 1
  PROVE  Merged(p, t) = {c \in 0 .. p.parts - 1 : PartWg(p, c) = p.prefix + t}
<1>1. p.prefix \in Nat /\ p.tail \in Nat
  BY PlanIs
<1>2. p.tail # 0 /\ p.ways \in Nat \ {0} /\ p.parts = p.tail * p.ways
  BY <1>1, PlanIs
<1>3. PICK W \in Nat \ {0}, T \in Nat \ {0} : W = p.ways /\ T = p.tail
  BY <1>1, <1>2
<1>4. ASSUME NEW i \in 0 .. W - 1 PROVE t * W + i \in 0 .. p.parts - 1 /\ (t * W + i) \div W = t
  <2>1. t * W + i \in 0 .. T * W - 1
    BY <1>3, Below942
  <2>2. (t * W + i) \div W = t
    BY QuotientIs, t \in Nat
  <2>3. QED
    BY <1>2, <1>3, <2>1, <2>2, Zenon
<1>5. ASSUME NEW c \in 0 .. p.parts - 1, PartWg(p, c) = p.prefix + t PROVE \E i \in 0 .. W - 1 : c = t * W + i
  <2>1. c \div W \in 0 .. T - 1 /\ c % W \in 0 .. W - 1 /\ c = (c \div W) * W + (c % W)
    BY <1>3, PartsAfter
  <2>2. PICK q \in 0 .. T - 1, r \in 0 .. W - 1 : q = c \div W /\ r = c % W
    BY <2>1
  <2>3. q = t
    BY <1>1, <1>3, <1>5, <2>2 DEF PartWg
  <2>4. QED
    BY <2>1, <2>2, <2>3
<1>6. Merged(p, t) = {t * W + i : i \in 0 .. W - 1}
  BY <1>3 DEF Merged
<1>7. ASSUME NEW c \in Merged(p, t) PROVE c \in 0 .. p.parts - 1 /\ PartWg(p, c) = p.prefix + t
  <2>1. PICK i \in 0 .. W - 1 : c = t * W + i
    BY <1>6, <1>7
  <2>2. QED
    BY <1>3, <1>4, <2>1 DEF PartWg
<1>8. QED
  BY <1>5, <1>6, <1>7

-----------------------------------------------------------------------------
(* What a call's checks and LiteFits leave of its launch.                  *)
Shaped(c) ==
  /\ c.B \in Nat \ {0} /\ c.heads \in Nat \ {0} /\ c.Sq \in Nat \ {0} /\ c.Skv \in Nat \ {0}
  /\ c.Vkv = c.Skv /\ c.bshd \in BOOLEAN

LEMMA QBlocks ==
  ASSUME NEW sq \in Nat \ {0}
  PROVE  /\ QTileRows \in Nat \ {0} /\ QTilesPerWave \in Nat \ {0} /\ NumWaves \in Nat \ {0}
         /\ KvBlockRows \in Nat \ {0} /\ AddrRows \in Nat \ {0}
         /\ QTilesPerWG \in Nat \ {0} /\ PartRows \in Nat \ {0} /\ PartRows = QTilesPerWG * QTileRows
         /\ NumQBlocks(sq) \in Nat \ {0} /\ NumKvBlocks(sq) \in Nat \ {0}
         /\ NumQTiles(sq) \in Nat
<1>1. /\ QTileRows \in Nat \ {0} /\ QTilesPerWave \in Nat \ {0} /\ NumWaves \in Nat \ {0}
      /\ KvBlockRows \in Nat \ {0} /\ AddrRows \in Nat \ {0}
  BY ViewsAssumption
<1>2. QTilesPerWG \in Nat \ {0}
  BY <1>1, Positive DEF QTilesPerWG
<1>3. PartRows \in Nat \ {0} /\ PartRows = QTilesPerWG * QTileRows
  BY <1>1, <1>2, Positive DEF PartRows
<1>4. NumQTiles(sq) \in Nat /\ NumQTiles(sq) >= 1
  BY <1>1, CeilOf DEF NumQTiles
<1>5. NumQBlocks(sq) \in Nat /\ NumQBlocks(sq) >= 1
  BY <1>2, <1>4, CeilOf DEF NumQBlocks
<1>6. NumKvBlocks(sq) \in Nat /\ NumKvBlocks(sq) >= 1
  BY <1>1, CeilOf DEF NumKvBlocks
<1>7. QED
  BY <1>1, <1>2, <1>3, <1>4, <1>5, <1>6

(* A head of a batch, and a batch's head.                                  *)
LEMMA HeadDigits ==
  ASSUME NEW c, Shaped(c), NEW bh \in Heads942(c)
  PROVE  \E b \in 0 .. c.B - 1, h \in 0 .. c.heads - 1 :
           bh = b * c.heads + h /\ b = bh \div c.heads /\ h = bh % c.heads
<1>1. PICK B \in Nat \ {0}, H \in Nat \ {0} : B = c.B /\ H = c.heads
  BY DEF Shaped
<1>2. B * H \in Nat /\ bh \in 0 .. B * H - 1 /\ bh \in Nat
  BY <1>1, Positive DEF Heads942
<1>3. PICK b \in Nat, h \in 0 .. H - 1 : bh = b * H + h /\ b = bh \div H /\ h = bh % H
  BY <1>2, Divided942, ZenonT(60)
<1>4. b * H \in Nat /\ b * H < B * H
  BY <1>2, <1>3
<1>5. b < B
  BY <1>4, TimesBelow
<1>6. b \in 0 .. B - 1
  BY <1>5
<1>7. QED
  BY <1>1, <1>3, <1>6, Zenon

LEMMA RowInTensor ==
  ASSUME NEW c, Shaped(c), NEW bh \in Heads942(c), NEW seq \in Nat \ {0}, NEW row \in Nat
  PROVE  /\ head_base_offset(c, bh, seq) \in Nat /\ row_stride(c) \in Nat \ {0}
         /\ TensorRow(c, bh, seq, row) = head_base_offset(c, bh, seq) + row * row_stride(c)
<1>1. PICK H \in Nat \ {0} : H = c.heads
  BY DEF Shaped
<1>2. PICK b \in 0 .. c.B - 1, h \in 0 .. H - 1 : bh = b * H + h /\ b = bh \div H /\ h = bh % H
  BY <1>1, HeadDigits
<1>3. b \in Nat /\ h \in Nat
  BY <1>2 DEF Shaped
<1>4. CASE c.bshd
  <2>1. /\ head_base_offset(c, bh, seq) = b * seq * H + h /\ row_stride(c) = H
        /\ TensorRow(c, bh, seq, row) = (b * seq + row) * H + h
    BY <1>1, <1>2, <1>4, Zenon DEF head_base_offset, row_stride, TensorRow
  <2>2. PICK x \in Nat : x = b * seq
    BY <1>3
  <2>3. (x + row) * H = x * H + row * H /\ x * H \in Nat /\ row * H \in Nat
    BY SMT
  <2>4. QED
    BY <1>3, <2>1, <2>2, <2>3
<1>5. CASE ~c.bshd
  <2>1. /\ head_base_offset(c, bh, seq) = bh * seq /\ row_stride(c) = 1
        /\ TensorRow(c, bh, seq, row) = (b * H + h) * seq + row
    BY <1>1, <1>2, <1>5, Zenon DEF head_base_offset, row_stride, TensorRow
  <2>2. PICK x \in Nat : x = bh /\ x * seq \in Nat
    BY <1>2, <1>3
  <2>3. QED
    BY <1>2, <2>1, <2>2
<1>6. QED
  BY <1>4, <1>5 DEF Shaped

(* Rows of a tensor, one to a row of a head.                               *)
LEMMA RowsBelow ==
  ASSUME NEW c, Shaped(c), NEW bh \in Heads942(c), NEW seq \in Nat \ {0}, NEW row \in 0 .. seq - 1
  PROVE  TensorRow(c, bh, seq, row) \in 0 .. (c.B * c.heads) * seq - 1
<1>1. PICK B \in Nat \ {0}, H \in Nat \ {0} : B = c.B /\ H = c.heads
  BY DEF Shaped
<1>2. PICK b \in 0 .. B - 1, h \in 0 .. H - 1 : bh = b * H + h /\ b = bh \div H /\ h = bh % H
  BY <1>1, HeadDigits
<1>3. CASE c.bshd
  <2>1. TensorRow(c, bh, seq, row) = (b * seq + row) * H + h
    BY <1>1, <1>2, <1>3, Zenon DEF TensorRow
  <2>2. B * seq \in Nat \ {0} /\ b * seq + row \in 0 .. B * seq - 1
    BY Below942
  <2>3. (b * seq + row) * H + h \in 0 .. (B * seq) * H - 1
    BY <2>2, Below942
  <2>4. (B * seq) * H = (B * H) * seq
    BY SMT
  <2>5. QED
    BY <1>1, <2>1, <2>3, <2>4, Zenon
<1>4. CASE ~c.bshd
  <2>1. TensorRow(c, bh, seq, row) = (b * H + h) * seq + row
    BY <1>1, <1>2, <1>4, Zenon DEF TensorRow
  <2>2. B * H \in Nat \ {0} /\ b * H + h \in 0 .. B * H - 1
    BY Below942
  <2>3. (b * H + h) * seq + row \in 0 .. (B * H) * seq - 1
    BY <2>2, Below942
  <2>4. QED
    BY <1>1, <2>1, <2>3, Zenon
<1>5. QED
  BY <1>3, <1>4 DEF Shaped

LEMMA RowsApart ==
  ASSUME NEW c, Shaped(c), NEW seq \in Nat \ {0}, NEW g \in Heads942(c), NEW r \in 0 .. seq - 1,
         NEW bh \in Heads942(c), NEW s \in 0 .. seq - 1, TensorRow(c, g, seq, r) = TensorRow(c, bh, seq, s)
  PROVE  g = bh /\ r = s
<1>1. PICK B \in Nat \ {0}, H \in Nat \ {0} : B = c.B /\ H = c.heads
  BY DEF Shaped
<1>2. PICK b \in 0 .. B - 1, h \in 0 .. H - 1 : bh = b * H + h /\ b = bh \div H /\ h = bh % H
  BY <1>1, HeadDigits
<1>3. PICK a \in 0 .. B - 1, f \in 0 .. H - 1 : g = a * H + f /\ a = g \div H /\ f = g % H
  BY <1>1, HeadDigits
<1>4. CASE c.bshd
  <2>1. (a * seq + r) * H + f = (b * seq + s) * H + h
    BY <1>1, <1>2, <1>3, <1>4, Zenon DEF TensorRow
  <2>2. PICK x \in Int, y \in Int : x = a * seq + r /\ y = b * seq + s
    BY SMT
  <2>3. x = y /\ f = h
    BY <2>1, <2>2, OneQuotient942
  <2>4. a = b /\ r = s
    BY <2>2, <2>3, OneQuotient942
  <2>5. QED
    BY <1>2, <1>3, <2>3, <2>4
<1>5. CASE ~c.bshd
  <2>1. (a * H + f) * seq + r = (b * H + h) * seq + s
    BY <1>1, <1>2, <1>3, <1>5, Zenon DEF TensorRow
  <2>2. PICK x \in Int, y \in Int : x = a * H + f /\ y = b * H + h
    BY SMT
  <2>3. x = y /\ r = s
    BY <2>1, <2>2, OneQuotient942
  <2>4. QED
    BY <1>2, <1>3, <2>2, <2>3
<1>6. QED
  BY <1>4, <1>5 DEF Shaped

LEMMA SmallMod ==
  ASSUME NEW y \in Nat \ {0}, NEW x \in Nat, x < y
  PROVE  x % y = x
<1>1. (0 * y + x) % y = x
  BY QuotientIs, x \in 0 .. y - 1
<1>2. 0 * y + x = x
  OBVIOUS
<1>3. QED
  BY <1>1, <1>2

(* A buffer bounded to a head's span reaches its own rows and no other's.  *)
LEMMA ThroughIs ==
  ASSUME NEW c, Shaped(c), NEW bh \in Heads942(c), NEW seq \in Nat \ {0}, NEW row \in Nat,
         seq * row_stride(c) < AddrRows, row * row_stride(c) < AddrRows
  PROVE  Through(c, bh, seq, row) = IF row < seq THEN TensorRow(c, bh, seq, row) ELSE Nowhere
<1>1. PICK S \in Nat \ {0}, base \in Nat :
        S = row_stride(c) /\ base = head_base_offset(c, bh, seq)
  BY RowInTensor
<1>2. PICK x \in Nat, y \in Nat : x = row * S /\ y = seq * S
  BY SMT
<1>3. AddrRows \in Nat \ {0} /\ x % AddrRows = x /\ y % AddrRows = y
  <2>1. AddrRows \in Nat \ {0} /\ x < AddrRows /\ y < AddrRows
    BY <1>1, <1>2, ViewsAssumption
  <2>2. QED
    BY <2>1, SmallMod
<1>4. x < y <=> row < seq
  BY <1>2, TimesBelow
<1>5. TensorRow(c, bh, seq, row) = base + x
  BY <1>1, <1>2, RowInTensor
<1>6. (row * row_stride(c)) % AddrRows = x /\ head_span(c, seq) = y
  BY <1>1, <1>2, <1>3, Zenon DEF head_span
<1>7. QED
  BY <1>1, <1>4, <1>5, <1>6, Zenon DEF Through

-----------------------------------------------------------------------------
(* A lane's column of a tile is a row of its q block, and each row one's.  *)
LEMMA PartRowIn ==
  ASSUME NEW x \in QLanes
  PROVE  /\ PartRow(x) \in 0 .. PartRows - 1
         /\ x = <<x[1], x[2], x[3]>> /\ x[1] \in 0 .. NumWaves - 1 /\ x[2] \in 0 .. QTilesPerWave - 1
         /\ x[3] \in 0 .. QTileRows - 1
<1>1. /\ x = <<x[1], x[2], x[3]>> /\ x[1] \in 0 .. NumWaves - 1 /\ x[2] \in 0 .. QTilesPerWave - 1
      /\ x[3] \in 0 .. QTileRows - 1
  BY DEF QLanes
<1>2. /\ QTileRows \in Nat \ {0} /\ QTilesPerWave \in Nat \ {0} /\ NumWaves \in Nat \ {0}
  BY ViewsAssumption
<1>3. /\ NumWaves * QTilesPerWave \in Nat \ {0}
      /\ x[1] * QTilesPerWave + x[2] \in 0 .. NumWaves * QTilesPerWave - 1
  BY <1>1, <1>2, Below942
<1>4. /\ QTilesPerWG \in Nat \ {0} /\ x[1] * QTilesPerWave + x[2] \in 0 .. QTilesPerWG - 1
  BY <1>3, Zenon DEF QTilesPerWG
<1>5. (x[1] * QTilesPerWave + x[2]) * QTileRows + x[3] \in 0 .. QTilesPerWG * QTileRows - 1
  BY <1>1, <1>2, <1>4, Below942
<1>6. PartRow(x) \in 0 .. PartRows - 1
  BY <1>5, Zenon DEF PartRow, PartRows
<1>7. QED
  BY <1>1, <1>6

LEMMA PartRowApart ==
  ASSUME NEW x \in QLanes, NEW y \in QLanes, PartRow(x) = PartRow(y)
  PROVE  x = y
<1>1. /\ QTileRows \in Nat \ {0} /\ QTilesPerWave \in Nat \ {0} /\ NumWaves \in Nat \ {0}
  BY ViewsAssumption
<1>2. PICK a \in 0 .. NumWaves - 1, b \in 0 .. QTilesPerWave - 1, d \in 0 .. QTileRows - 1 : x = <<a, b, d>>
  BY PartRowIn
<1>3. PICK e \in 0 .. NumWaves - 1, f \in 0 .. QTilesPerWave - 1, g \in 0 .. QTileRows - 1 : y = <<e, f, g>>
  BY PartRowIn
<1>4. (a * QTilesPerWave + b) * QTileRows + d = (e * QTilesPerWave + f) * QTileRows + g
  BY <1>2, <1>3 DEF PartRow
<1>5. PICK m \in Int, n \in Int : m = a * QTilesPerWave + b /\ n = e * QTilesPerWave + f
  BY <1>1
<1>6. m = n /\ d = g
  BY <1>1, <1>4, <1>5, OneQuotient942
<1>7. a = e /\ b = f
  BY <1>1, <1>5, <1>6, OneQuotient942, a \in Int, e \in Int
<1>8. QED
  BY <1>2, <1>3, <1>6, <1>7

LEMMA PartRowOf ==
  ASSUME NEW pr \in 0 .. PartRows - 1
  PROVE  \E x \in QLanes : PartRow(x) = pr
<1>1. /\ QTileRows \in Nat \ {0} /\ QTilesPerWave \in Nat \ {0} /\ NumWaves \in Nat \ {0}
  BY ViewsAssumption
<1>2. QTilesPerWG \in Nat \ {0} /\ PartRows \in Nat \ {0} /\ pr \in Nat
  BY <1>1, Positive DEF QTilesPerWG, PartRows
<1>3. PICK t \in Nat, d \in 0 .. QTileRows - 1 : pr = t * QTileRows + d
  BY <1>1, <1>2, Divided942, ZenonT(60)
<1>4. PICK a \in Nat, b \in 0 .. QTilesPerWave - 1 : t = a * QTilesPerWave + b
  BY <1>1, Divided942, ZenonT(60)
<1>5. t < QTilesPerWG
  <2>1. PICK m \in Nat, n \in Nat : m = t * QTileRows /\ n = QTilesPerWG * QTileRows
    BY <1>1, <1>2
  <2>2. n = PartRows
    BY <2>1 DEF PartRows
  <2>3. m < n
    BY <1>2, <1>3, <2>1, <2>2
  <2>4. QED
    BY <1>1, <1>2, <2>1, <2>3, TimesBelow
<1>6. a < NumWaves
  <2>1. PICK m \in Nat, n \in Nat : m = a * QTilesPerWave /\ n = NumWaves * QTilesPerWave
    BY <1>1
  <2>2. n = QTilesPerWG
    BY <2>1 DEF QTilesPerWG
  <2>3. m < n
    BY <1>4, <1>5, <2>1, <2>2
  <2>4. QED
    BY <1>1, <2>1, <2>3, TimesBelow
<1>7. <<a, b, d>> \in QLanes
  BY <1>1, <1>6 DEF QLanes
<1>8. PartRow(<<a, b, d>>) = pr
  BY <1>3, <1>4 DEF PartRow
<1>9. QED
  BY <1>7, <1>8

(* A launch's workgroups, each a q block of a head.                        *)
Planned(c) ==
  /\ Shaped(c) /\ Addressable(c)
  /\ c.plan.nqb = NumQBlocks(c.Sq) /\ c.plan.bh = c.B * c.heads /\ c.plan.nkb = NumKvBlocks(c.Skv)
Wgs(c) == 0 .. c.plan.nqb * c.plan.bh - 1

LEMMA WgIs ==
  ASSUME NEW c, Planned(c), NEW wg \in Wgs(c)
  PROVE  /\ bh_of(c, wg) \in Heads942(c) /\ bh_of(c, wg) \in Nat
         /\ q_block_of(c, wg) \in 0 .. NumQBlocks(c.Sq) - 1 /\ NumQBlocks(c.Sq) \in Nat \ {0}
         /\ wg = bh_of(c, wg) * NumQBlocks(c.Sq) + q_block_of(c, wg)
<1>1. PICK n \in Nat \ {0} : n = NumQBlocks(c.Sq) /\ n = c.plan.nqb
  BY QBlocks DEF Planned, Shaped
<1>2. PICK m \in Nat \ {0} : m = c.B * c.heads /\ m = c.plan.bh
  BY Positive DEF Planned, Shaped
<1>3. n * m \in Nat /\ wg \in 0 .. n * m - 1 /\ n * m = m * n /\ wg \in Nat
  BY <1>1, <1>2 DEF Wgs
<1>4. PICK g \in Nat, q \in 0 .. n - 1 : wg = g * n + q /\ g = wg \div n /\ q = wg % n
  BY <1>3, Divided942, ZenonT(60)
<1>5. g * n \in Nat /\ g * n < m * n
  BY <1>3, <1>4
<1>6. g < m
  BY <1>5, TimesBelow
<1>7. g \in Heads942(c)
  BY <1>2, <1>6 DEF Heads942
<1>8. bh_of(c, wg) = g /\ q_block_of(c, wg) = q
  BY <1>1, <1>4, Zenon DEF bh_of, q_block_of
<1>9. QED
  BY <1>1, <1>4, <1>7, <1>8, Zenon

LEMMA WgOf ==
  ASSUME NEW c, Planned(c), NEW bh \in Heads942(c), NEW q \in 0 .. NumQBlocks(c.Sq) - 1
  PROVE  \E wg \in Wgs(c) : bh_of(c, wg) = bh /\ q_block_of(c, wg) = q
<1>1. PICK n \in Nat \ {0} : n = NumQBlocks(c.Sq) /\ n = c.plan.nqb
  BY QBlocks DEF Planned, Shaped
<1>2. PICK m \in Nat \ {0} : m = c.B * c.heads /\ m = c.plan.bh
  BY Positive DEF Planned, Shaped
<1>3. bh \in 0 .. m - 1 /\ q \in 0 .. n - 1 /\ bh \in Nat
  BY <1>1, <1>2 DEF Heads942
<1>4. PICK wg \in Nat : wg = bh * n + q
  BY <1>3
<1>5. wg \in 0 .. m * n - 1 /\ m * n = n * m
  BY <1>3, <1>4, Below942
<1>6. wg \div n = bh /\ wg % n = q
  BY <1>3, <1>4, QuotientIs
<1>7. wg \in Wgs(c)
  BY <1>1, <1>2, <1>5, Zenon DEF Wgs
<1>8. QED
  BY <1>1, <1>6, <1>7, Zenon DEF bh_of, q_block_of

(* The output's row that a workgroup's row is, if any.                     *)
RowOf942(c, wg, pr) == q_block_of(c, wg) * PartRows + pr
Cell(c, wg, pr) ==
  IF RowOf942(c, wg, pr) < c.Sq THEN TensorRow(c, bh_of(c, wg), c.Sq, RowOf942(c, wg, pr)) ELSE Nowhere

LEMMA RowsReached ==
  ASSUME NEW c, Planned(c), NEW wg \in Wgs(c), NEW pr \in 0 .. PartRows - 1
  PROVE  /\ RowOf942(c, wg, pr) \in Nat /\ c.Sq \in Nat \ {0} /\ bh_of(c, wg) \in Heads942(c)
         /\ Through(c, bh_of(c, wg), c.Sq, RowOf942(c, wg, pr)) = Cell(c, wg, pr)
<1>1. PICK n \in Nat \ {0}, P \in Nat \ {0}, sq \in Nat \ {0} :
        n = NumQBlocks(c.Sq) /\ P = PartRows /\ sq = c.Sq
  BY QBlocks DEF Planned, Shaped
<1>2. PICK q \in 0 .. n - 1 : q = q_block_of(c, wg)
  BY <1>1, WgIs
<1>3. q * P + pr \in 0 .. n * P - 1 /\ n * P \in Nat
  BY <1>1, Below942
<1>4. PICK row \in Nat, rows \in Nat : row = q * P + pr /\ rows = n * P /\ row < rows
  BY <1>3
<1>5. row = RowOf942(c, wg, pr)
  BY <1>1, <1>2, <1>4, Zenon DEF RowOf942
<1>6. bh_of(c, wg) \in Heads942(c) /\ Shaped(c)
  BY WgIs DEF Planned
<1>7. PICK S \in Nat \ {0} : S = row_stride(c)
  BY <1>1, <1>6, RowInTensor
<1>8. rows * S < AddrRows
  BY <1>1, <1>4, <1>7, Zenon DEF Planned, Addressable
<1>9. AddrRows \in Nat /\ row * S \in Nat /\ rows * S \in Nat /\ row * S < rows * S
  BY <1>4, TimesBelow, ViewsAssumption
<1>10. sq <= rows
  <2>1. PICK R \in Nat \ {0}, G \in Nat \ {0}, T \in Nat :
          R = QTileRows /\ G = QTilesPerWG /\ T = NumQTiles(sq) /\ T = Ceil(sq, R) /\ n = Ceil(T, G) /\ P = G * R
    BY <1>1, QBlocks DEF NumQTiles, NumQBlocks
  <2>2. ~(n * G < T)
    BY <2>1, CeilCovers
  <2>3. n * G \in Nat /\ (n * G) * R >= T * R /\ T * R \in Nat
    <3>1. n * G \in Nat /\ T \in Int /\ T <= n * G
      BY <2>1, <2>2
    <3>2. QED
      BY <3>1, <2>1, TimesMonotone942
  <2>4. ~(T * R < sq)
    BY <2>1, CeilCovers, T \in Int
  <2>5. (n * G) * R = rows
    BY <1>4, <2>1
  <2>6. QED
    BY <2>3, <2>4, <2>5
<1>11. sq * S <= rows * S /\ sq * S \in Nat
  BY <1>10, TimesMonotone942
<1>12. sq * S < AddrRows /\ row * S < AddrRows
  BY <1>8, <1>9, <1>11
<1>13. Through(c, bh_of(c, wg), sq, row) = IF row < sq THEN TensorRow(c, bh_of(c, wg), sq, row) ELSE Nowhere
  BY <1>6, <1>7, <1>12, ThroughIs
<1>14. QED
  BY <1>1, <1>5, <1>6, <1>13, Zenon DEF Cell

(* A whole workgroup's lanes and a merge's cells store the same rows.      *)
LEMMA LaneRow ==
  ASSUME NEW c, Planned(c), NEW wg \in Wgs(c), NEW x \in QLanes
  PROVE  /\ CtaRow(c, wg, x) = Cell(c, wg, PartRow(x))
         /\ valid(c, q_block_of(c, wg), x) => QRow(c, q_block_of(c, wg), x) = RowOf942(c, wg, PartRow(x))
<1>1. PICK R \in Nat \ {0}, G \in Nat \ {0}, W \in Nat \ {0}, sq \in Nat \ {0} :
        R = QTileRows /\ G = QTilesPerWG /\ PartRows = G * R /\ W = QTilesPerWave /\ sq = c.Sq
  BY QBlocks DEF Planned, Shaped
<1>2. PICK q \in Nat : q = q_block_of(c, wg)
  BY WgIs
<1>3. PICK i \in Nat, d \in 0 .. R - 1 : i = x[1] * W + x[2] /\ d = x[3] /\ PartRow(x) = i * R + d
  <2>1. x[1] \in Nat /\ x[2] \in Nat /\ x[3] \in 0 .. R - 1
    BY <1>1, PartRowIn
  <2>2. x[1] * W + x[2] \in Nat
    BY <2>1
  <2>3. QED
    BY <1>1, <2>1, <2>2, Zenon DEF PartRow
<1>4. PICK t \in Nat : t = G * q + i
  BY SMT
<1>5. QTile(q, x) = t
  <2>1. QTile(q, x) = G * q + W * x[1] + x[2]
    BY <1>1, Zenon DEF QTile
  <2>2. x[1] \in Nat /\ x[2] \in Nat
    BY PartRowIn
  <2>3. W * x[1] = x[1] * W /\ W * x[1] \in Nat /\ G * q \in Nat
    BY <2>2
  <2>4. QED
    BY <1>3, <1>4, <2>1, <2>2, <2>3
<1>6. PICK row \in Nat : row = t * R + d
  BY SMT
<1>7. RowOf942(c, wg, PartRow(x)) = row
  <2>1. RowOf942(c, wg, PartRow(x)) = q * (G * R) + (i * R + d)
    BY <1>1, <1>2, <1>3, Zenon DEF RowOf942
  <2>2. q * (G * R) = (G * q) * R /\ (G * q + i) * R = (G * q) * R + i * R
    BY SMT
  <2>3. (G * q) * R \in Int /\ i * R \in Int
    BY SMT
  <2>4. QED
    BY <1>4, <1>6, <2>1, <2>2, <2>3
<1>8. valid(c, q, x) <=> t * R < sq
  <2>1. t < Ceil(sq, R) <=> t * R < sq
    BY CeilCovers, t \in Int
  <2>2. QED
    BY <1>1, <1>5, <2>1 DEF valid, NumQTiles
<1>9. PartRow(x) \in 0 .. PartRows - 1
  BY PartRowIn
<1>10. Through(c, bh_of(c, wg), c.Sq, row) = Cell(c, wg, PartRow(x))
  BY <1>7, <1>9, RowsReached, Zenon
<1>11. CASE valid(c, q, x)
  <2>1. QRow(c, q, x) = row
    BY <1>1, <1>3, <1>5, <1>6, <1>11, Zenon DEF QRow, q_tile_start_row
  <2>2. QED
    BY <1>2, <1>7, <1>10, <1>11, <2>1, Zenon DEF CtaRow
<1>12. CASE ~valid(c, q, x)
  <2>1. t * R \in Nat
    BY SMT
  <2>2. ~(row < sq)
    BY <1>6, <1>8, <1>12, <2>1
  <2>3. Cell(c, wg, PartRow(x)) = Nowhere
    BY <1>1, <1>7, <2>2, Zenon DEF Cell
  <2>4. QED
    BY <1>2, <1>12, <2>3, Zenon DEF CtaRow
<1>13. QED
  BY <1>11, <1>12

LEMMA CellApart ==
  ASSUME NEW c, Planned(c), NEW wg \in Wgs(c), NEW pr \in 0 .. PartRows - 1,
         NEW v \in Wgs(c), NEW p \in 0 .. PartRows - 1,
         Cell(c, wg, pr) = Cell(c, v, p), Cell(c, wg, pr) # Nowhere
  PROVE  wg = v /\ pr = p
<1>1. RowOf942(c, wg, pr) < c.Sq
  BY DEF Cell
<1>2. Cell(c, v, p) # Nowhere
  OBVIOUS
<1>3. RowOf942(c, v, p) < c.Sq
  BY <1>2 DEF Cell
<1>4. PICK sq \in Nat \ {0}, a \in 0 .. c.Sq - 1, b \in 0 .. c.Sq - 1 :
        sq = c.Sq /\ a = RowOf942(c, wg, pr) /\ b = RowOf942(c, v, p)
  BY <1>1, <1>3, RowsReached
<1>5. TensorRow(c, bh_of(c, wg), sq, a) = TensorRow(c, bh_of(c, v), sq, b)
  BY <1>1, <1>3, <1>4, Zenon DEF Cell
<1>6. bh_of(c, wg) \in Heads942(c) /\ bh_of(c, v) \in Heads942(c) /\ Shaped(c)
  BY WgIs DEF Planned
<1>7. bh_of(c, wg) = bh_of(c, v) /\ a = b
  BY <1>4, <1>5, <1>6, RowsApart
<1>8. PICK P \in Nat \ {0} : P = PartRows
  BY <1>4, QBlocks
<1>9. PICK q \in Int, r \in Int : q = q_block_of(c, wg) /\ r = q_block_of(c, v)
  BY WgIs
<1>10. q * P + pr = r * P + p
  BY <1>4, <1>7, <1>8, <1>9, Zenon DEF RowOf942
<1>11. q = r /\ pr = p
  BY <1>8, <1>10, OneQuotient942
<1>12. wg = v
  <2>1. /\ wg = bh_of(c, wg) * NumQBlocks(c.Sq) + q_block_of(c, wg)
        /\ v = bh_of(c, v) * NumQBlocks(c.Sq) + q_block_of(c, v)
    BY WgIs
  <2>2. QED
    BY <1>7, <1>9, <1>11, <2>1, Zenon
<1>13. QED
  BY <1>11, <1>12

LEMMA CellOf ==
  ASSUME NEW c, Planned(c), NEW bh \in Heads942(c), NEW s \in 0 .. c.Sq - 1
  PROVE  \E wg \in Wgs(c), pr \in 0 .. PartRows - 1 :
           Cell(c, wg, pr) = TensorRow(c, bh, c.Sq, s) /\ Cell(c, wg, pr) # Nowhere
<1>1. PICK n \in Nat \ {0}, P \in Nat \ {0}, sq \in Nat \ {0} :
        n = NumQBlocks(c.Sq) /\ P = PartRows /\ sq = c.Sq
  BY QBlocks DEF Planned, Shaped
<1>2. s \in Nat /\ s < sq
  BY <1>1
<1>3. PICK q \in Nat, pr \in 0 .. P - 1 : s = q * P + pr
  BY <1>2, Divided942, ZenonT(60)
<1>4. q < n
  <2>1. PICK R \in Nat \ {0}, G \in Nat \ {0}, T \in Nat :
          R = QTileRows /\ G = QTilesPerWG /\ T = NumQTiles(sq) /\ T = Ceil(sq, R) /\ n = Ceil(T, G) /\ P = G * R
    BY <1>1, QBlocks DEF NumQTiles, NumQBlocks
  <2>2. PICK m \in Nat : m = q * G
    BY SMT
  <2>3. m * R = q * P /\ q * P \in Nat
    BY <2>1, <2>2
  <2>4. m * R < sq
    BY <1>2, <1>3, <2>3
  <2>5. m < T
    BY <2>1, <2>4, CeilCovers, m \in Int
  <2>6. QED
    BY <2>1, <2>2, <2>5, CeilCovers, q \in Int
<1>5. PICK wg \in Wgs(c) : bh_of(c, wg) = bh /\ q_block_of(c, wg) = q
  BY <1>1, <1>4, WgOf, q \in 0 .. n - 1
<1>6. RowOf942(c, wg, pr) = s
  BY <1>1, <1>3, <1>5, Zenon DEF RowOf942
<1>7. Cell(c, wg, pr) = TensorRow(c, bh, c.Sq, s)
  BY <1>1, <1>2, <1>5, <1>6, Zenon DEF Cell
<1>8. TensorRow(c, bh, c.Sq, s) # Nowhere
  <2>1. PICK base \in Nat, S \in Nat : TensorRow(c, bh, sq, s) = base + s * S
    BY <1>1, <1>2, RowInTensor DEF Planned
  <2>2. s * S \in Nat
    BY <1>2
  <2>3. TensorRow(c, bh, sq, s) >= 0
    BY <2>1, <2>2
  <2>4. QED
    BY <1>1, <2>3 DEF Nowhere
<1>9. QED
  BY <1>1, <1>7, <1>8

-----------------------------------------------------------------------------
(* So the output is stored once, however the workgroups are split.         *)
Stores942(c, split) ==
  [kind : {"cta"}, wg : Wgs(c) \ split, at : QLanes]
    \cup [kind : {"merge"}, wg : split, at : 0 .. PartRows - 1]
StoreRow(c, x) == IF x.kind = "cta" THEN CtaRow(c, x.wg, x.at) ELSE MergeRow(c, x.wg, x.at)
Hits942(c, split) == {x \in Stores942(c, split) : StoreRow(c, x) # Nowhere}
OutRows(c) == {TensorRow(c, bh, c.Sq, s) : bh \in Heads942(c), s \in 0 .. c.Sq - 1}
PlaceOf(x) == IF x.kind = "cta" THEN PartRow(x.at) ELSE x.at

LEMMA StoreIs ==
  ASSUME NEW c, NEW split \in SUBSET Wgs(c), NEW x \in Stores942(c, split)
  PROVE  \/ /\ x.kind = "cta" /\ x.wg \in Wgs(c) /\ x.wg \notin split /\ x.at \in QLanes
            /\ x = [kind |-> "cta", wg |-> x.wg, at |-> x.at]
         \/ /\ x.kind = "merge" /\ x.wg \in Wgs(c) /\ x.wg \in split /\ x.at \in 0 .. PartRows - 1
            /\ x = [kind |-> "merge", wg |-> x.wg, at |-> x.at]
  BY DEF Stores942

LEMMA StoreStores ==
  ASSUME NEW c, Planned(c), NEW split \in SUBSET Wgs(c), NEW x \in Stores942(c, split)
  PROVE  x.wg \in Wgs(c) /\ PlaceOf(x) \in 0 .. PartRows - 1 /\ StoreRow(c, x) = Cell(c, x.wg, PlaceOf(x))
<1>1. CASE x.kind = "cta"
  <2>1. x.wg \in Wgs(c) /\ x.at \in QLanes
    BY <1>1, StoreIs
  <2>2. PartRow(x.at) \in 0 .. PartRows - 1 /\ CtaRow(c, x.wg, x.at) = Cell(c, x.wg, PartRow(x.at))
    BY <2>1, PartRowIn, LaneRow
  <2>3. QED
    BY <1>1, <2>1, <2>2, Zenon DEF PlaceOf, StoreRow
<1>2. CASE x.kind # "cta"
  <2>1. x.wg \in Wgs(c) /\ x.at \in 0 .. PartRows - 1
    BY <1>2, StoreIs
  <2>2. MergeRow(c, x.wg, x.at) = Cell(c, x.wg, x.at)
    BY <2>1, RowsReached, Zenon DEF MergeRow, RowOf942
  <2>3. QED
    BY <1>2, <2>1, <2>2, Zenon DEF PlaceOf, StoreRow
<1>3. QED
  BY <1>1, <1>2

LEMMA StoresApart ==
  ASSUME NEW c, Planned(c), NEW split \in SUBSET Wgs(c), NEW x \in Hits942(c, split), NEW y \in Hits942(c, split),
         StoreRow(c, x) = StoreRow(c, y)
  PROVE  x = y
<1>1. x \in Stores942(c, split) /\ y \in Stores942(c, split) /\ StoreRow(c, x) # Nowhere
  BY DEF Hits942
<1>2. PICK v \in Wgs(c), w \in Wgs(c), p \in 0 .. PartRows - 1, r \in 0 .. PartRows - 1 :
        /\ v = x.wg /\ w = y.wg /\ p = PlaceOf(x) /\ r = PlaceOf(y)
        /\ Cell(c, v, p) = Cell(c, w, r) /\ Cell(c, v, p) # Nowhere
  BY <1>1, StoreStores, Zenon
<1>3. v = w /\ p = r
  BY <1>2, CellApart
<1>4. CASE v \in split
  <2>1. /\ x = [kind |-> "merge", wg |-> v, at |-> x.at] /\ x.kind = "merge"
        /\ y = [kind |-> "merge", wg |-> v, at |-> y.at] /\ y.kind = "merge"
    BY <1>1, <1>2, <1>3, <1>4, StoreIs
  <2>2. x.at = y.at
    BY <1>2, <1>3, <2>1 DEF PlaceOf
  <2>3. QED
    BY <2>1, <2>2, Zenon
<1>5. CASE v \notin split
  <2>5. x = [kind |-> "cta", wg |-> v, at |-> x.at] /\ x.kind = "cta" /\ x.at \in QLanes
    BY <1>1, <1>2, <1>5, StoreIs
  <2>6. y = [kind |-> "cta", wg |-> v, at |-> y.at] /\ y.kind = "cta" /\ y.at \in QLanes
    BY <1>1, <1>2, <1>3, <1>5, StoreIs
  <2>1. /\ x = [kind |-> "cta", wg |-> v, at |-> x.at] /\ x.kind = "cta" /\ x.at \in QLanes
        /\ y = [kind |-> "cta", wg |-> v, at |-> y.at] /\ y.kind = "cta" /\ y.at \in QLanes
    BY <2>5, <2>6
  <2>2. PartRow(x.at) = PartRow(y.at)
    BY <1>2, <1>3, <2>1 DEF PlaceOf
  <2>3. x.at = y.at
    BY <2>1, <2>2, PartRowApart
  <2>4. QED
    BY <2>1, <2>3, Zenon
<1>6. QED
  BY <1>4, <1>5

LEMMA StoresHit ==
  ASSUME NEW c, Planned(c), NEW split \in SUBSET Wgs(c), NEW x \in Hits942(c, split)
  PROVE  StoreRow(c, x) \in OutRows(c)
<1>1. x \in Stores942(c, split) /\ StoreRow(c, x) # Nowhere
  BY DEF Hits942
<1>2. PICK wg \in Wgs(c), p \in 0 .. PartRows - 1 : StoreRow(c, x) = Cell(c, wg, p)
  BY <1>1, StoreStores, Zenon
<1>3. RowOf942(c, wg, p) < c.Sq /\ StoreRow(c, x) = TensorRow(c, bh_of(c, wg), c.Sq, RowOf942(c, wg, p))
  BY <1>1, <1>2, Zenon DEF Cell
<1>4. RowOf942(c, wg, p) \in Nat /\ c.Sq \in Nat \ {0} /\ bh_of(c, wg) \in Heads942(c)
  BY RowsReached
<1>5. RowOf942(c, wg, p) \in 0 .. c.Sq - 1
  BY <1>3, <1>4
<1>6. QED
  BY <1>3, <1>4, <1>5 DEF OutRows

LEMMA StoredSomewhere ==
  ASSUME NEW c, Planned(c), NEW split \in SUBSET Wgs(c), NEW t \in OutRows(c)
  PROVE  \E x \in Hits942(c, split) : StoreRow(c, x) = t
<1>1. PICK bh \in Heads942(c), s \in 0 .. c.Sq - 1 : t = TensorRow(c, bh, c.Sq, s)
  BY DEF OutRows
<1>2. PICK wg \in Wgs(c), p \in 0 .. PartRows - 1 : Cell(c, wg, p) = t /\ t # Nowhere
  BY <1>1, CellOf
<1>3. CASE wg \in split
  <2>1. PICK x : x = [kind |-> "merge", wg |-> wg, at |-> p]
    BY Zenon
  <2>2. x \in Stores942(c, split) /\ x.wg = wg /\ PlaceOf(x) = p
    BY <1>3, <2>1 DEF Stores942, PlaceOf
  <2>3. QED
    BY <1>2, <2>2, StoreStores, Zenon DEF Hits942
<1>4. CASE wg \notin split
  <2>1. PICK at \in QLanes : PartRow(at) = p
    BY PartRowOf
  <2>2. PICK x : x = [kind |-> "cta", wg |-> wg, at |-> at]
    BY Zenon
  <2>3. x \in Stores942(c, split) /\ x.wg = wg /\ PlaceOf(x) = p
    BY <1>4, <2>1, <2>2 DEF Stores942, PlaceOf
  <2>4. QED
    BY <1>2, <2>3, StoreStores, Zenon DEF Hits942
<1>5. QED
  BY <1>3, <1>4

LEMMA Stored ==
  ASSUME NEW c, Planned(c), NEW split \in SUBSET Wgs(c)
  PROVE  StoredOnce(c, Wgs(c) \ split, split)
<1> DEFINE hits == Hits942(c, split)
           f == [x \in hits |-> StoreRow(c, x)]
<1>1. IsFiniteSet(OutRows(c))
  <2>1. PICK n \in Nat : n = (c.B * c.heads) * c.Sq
    BY Positive DEF Planned, Shaped
  <2>2. ASSUME NEW t \in OutRows(c) PROVE t \in 0 .. n - 1
    <3>1. PICK bh \in Heads942(c), s \in 0 .. c.Sq - 1 : t = TensorRow(c, bh, c.Sq, s)
      BY DEF OutRows
    <3>2. QED
      BY <2>1, <3>1, RowsBelow DEF Planned, Shaped
  <2>3. IsFiniteSet(0 .. n - 1)
    BY FS_Interval
  <2>4. QED
    BY <2>2, <2>3, FS_Subset
<1>2. {StoreRow(c, x) : x \in hits} = OutRows(c)
  BY StoresHit, StoredSomewhere
<1>3. f \in [hits -> OutRows(c)] /\ \A x \in hits : f[x] = StoreRow(c, x)
  BY StoresHit
<1>4. Cardinality(hits) = Cardinality(OutRows(c))
  <2> HIDE DEF f
  <2>1. \A x, y \in hits : f[x] = f[y] => x = y
    BY <1>3, StoresApart
  <2>2. \A t \in OutRows(c) : \E x \in hits : f[x] = t
    BY <1>3, StoredSomewhere
  <2> HIDE DEF hits
  <2>3. f \in Injection(hits, OutRows(c)) /\ f \in Surjection(hits, OutRows(c))
    BY <1>3, <2>1, <2>2, Fun_IsInj, Fun_IsSurj
  <2>4. QED
    BY <1>1, <2>3, FS_Injection
<1>5. ASSUME NEW wg \in split, NEW x \in QLanes, valid(c, q_block_of(c, wg), x)
      PROVE  QRow(c, q_block_of(c, wg), x) = q_block_of(c, wg) * PartRows + PartRow(x)
  <2>1. wg \in Wgs(c)
    OBVIOUS
  <2>2. QRow(c, q_block_of(c, wg), x) = RowOf942(c, wg, PartRow(x))
    BY <1>5, <2>1, LaneRow
  <2>3. QED
    BY <2>2, Zenon DEF RowOf942
<1>6. {PartRow(x) : x \in QLanes} = 0 .. PartRows - 1
  <2>1. \A x \in QLanes : PartRow(x) \in 0 .. PartRows - 1
    BY PartRowIn
  <2>2. \A p \in 0 .. PartRows - 1 : \E x \in QLanes : PartRow(x) = p
    BY PartRowOf
  <2>3. QED
    BY <2>1, <2>2, Zenon
<1>7. QED
  BY <1>2, <1>4, <1>5, <1>6 DEF StoredOnce, Hits942, Stores942, StoreRow, OutRows

-----------------------------------------------------------------------------
(* A block's rows are keys of its head, up to the head's last.             *)
LEMMA KeyRow ==
  ASSUME NEW c, Planned(c), NEW block \in 0 .. NumKvBlocks(c.Skv) - 1, NEW r \in 0 .. KvBlockRows - 1
  PROVE  Masked(c, block, r) <=> block * KvBlockRows + r >= c.Skv
<1>1. PICK K \in Nat \ {0}, n \in Nat \ {0}, skv \in Nat \ {0} :
        K = KvBlockRows /\ n = NumKvBlocks(c.Skv) /\ skv = c.Skv /\ n = Ceil(skv, K)
  BY QBlocks DEF Planned, Shaped, NumKvBlocks
<1>2. block \in Nat /\ block <= n - 1 /\ r \in 0 .. K - 1
  BY <1>1
<1>3. PICK before \in Nat, all \in Nat, mine \in Nat :
        before = (n - 1) * K /\ all = n * K /\ mine = block * K
  BY <1>1, <1>2
<1>4. before < skv /\ skv <= all
  <2>1. n - 1 < n /\ n - 1 \in Int /\ ~(n < n)
    BY <1>1
  <2>2. before < skv
    BY <1>1, <1>3, <2>1, CeilCovers
  <2>3. ~(all < skv)
    BY <1>1, <1>3, <2>1, CeilCovers, n \in Int
  <2>4. QED
    BY <2>2, <2>3
<1>5. all = before + K
  BY <1>1, <1>3
<1>6. last_kv_rows(c) = skv - before
  BY <1>1, <1>3, Zenon DEF last_kv_rows
<1>7. CASE block = n - 1
  <2>1. mine = before
    BY <1>3, <1>7
  <2>2. Masked(c, block, r) <=> skv - before < K /\ r >= skv - before
    BY <1>1, <1>6, <1>7, Zenon DEF Masked
  <2>3. QED
    BY <1>1, <1>2, <1>3, <1>4, <1>5, <2>1, <2>2
<1>8. CASE block # n - 1
  <2>1. ~Masked(c, block, r)
    BY <1>1, <1>8, Zenon DEF Masked
  <2>2. (block + 1) * K <= before /\ (block + 1) * K = mine + K
    <3>1. block + 1 <= n - 1 /\ block + 1 \in Int /\ n - 1 \in Int
      BY <1>1, <1>2, <1>8
    <3>2. (block + 1) * K <= (n - 1) * K
      BY <1>1, <3>1, TimesMonotone942
    <3>3. (block + 1) * K = mine + K
      BY <1>2, <1>3
    <3>4. QED
      BY <1>3, <3>2, <3>3
  <2>3. mine + r < skv
    BY <1>2, <1>3, <1>4, <2>2
  <2>4. QED
    BY <1>1, <1>3, <2>1, <2>3
<1>9. QED
  BY <1>7, <1>8

(* V's transpose reads and writes where K's rows and pv's blocks are.      *)
LEMMA KeysRead ==
  ASSUME NEW c, Planned(c), NEW bh \in Heads942(c), NEW block \in 0 .. NumKvBlocks(c.Skv) - 1,
         NEW r \in 0 .. KvBlockRows - 1, NEW s, s = block * KvBlockRows + r, s < c.Skv
  PROVE  /\ KRow(c, bh, block, r) = TensorRow(c, bh, c.Skv, s)
         /\ XposeSource(c, bh, block, r) = TensorRow(c, bh, c.Vkv, s)
<1>1. PICK K \in Nat \ {0}, n \in Nat \ {0}, skv \in Nat \ {0} :
        K = KvBlockRows /\ n = NumKvBlocks(c.Skv) /\ skv = c.Skv /\ n = Ceil(skv, K)
  BY QBlocks DEF Planned, Shaped, NumKvBlocks
<1>2. block \in Nat /\ s \in 0 .. skv - 1 /\ s \in Nat
  BY <1>1
<1>3. PICK mine \in Nat : mine = block * K /\ s = mine + r
  BY <1>1, <1>2
<1>4. PICK S \in Nat \ {0}, base \in Nat : S = row_stride(c) /\ base = head_base_offset(c, bh, skv)
  BY <1>1, RowInTensor DEF Planned
<1>5. PICK t \in Nat : t = TensorRow(c, bh, skv, s) /\ t = base + s * S
  <2>1. TensorRow(c, bh, skv, s) = base + s * S
    BY <1>1, <1>2, <1>4, RowInTensor DEF Planned
  <2>2. s * S \in Nat
    BY <1>2
  <2>3. QED
    BY <2>1, <2>2
<1>6. AddrRows \in Nat \ {0} /\ t < AddrRows
  <2>1. PICK N \in Nat \ {0} : N = c.B * c.heads
    BY Positive DEF Planned, Shaped
  <2>2. t \in 0 .. N * skv - 1
    BY <1>1, <1>2, <1>5, <2>1, RowsBelow DEF Planned
  <2>3. PICK all \in Nat : all = n * K /\ skv <= all
    <3>1. ~(n * K < skv)
      BY <1>1, CeilCovers, n \in Int
    <3>2. n * K \in Nat
      BY SMT
    <3>3. QED
      BY <3>1, <3>2
  <2>4. skv * N <= all * N /\ skv * N = N * skv /\ all * N = N * all /\ N * all \in Nat /\ N * skv \in Nat
    BY <2>3, TimesMonotone942
  <2>5. (N * n) * K < AddrRows
    BY <1>1, <2>1, Zenon DEF Planned, Addressable
  <2>6. (N * n) * K = N * all
    BY <2>3
  <2>7. QED
    BY <2>2, <2>4, <2>5, <2>6, ViewsAssumption
<1>7. KRow(c, bh, block, r) = t
  <2>1. KRow(c, bh, block, r) = Through(c, bh, skv, s)
    BY <1>1, Zenon DEF KRow
  <2>2. skv * S < AddrRows
    BY <1>1, <1>4, Zenon DEF Planned, Addressable
  <2>3. s * S <= skv * S /\ s * S \in Nat /\ skv * S \in Nat
    BY <1>2, TimesMonotone942
  <2>4. s * S < AddrRows /\ s < skv
    BY <1>2, <1>6, <2>2, <2>3
  <2>5. Through(c, bh, skv, s) = IF s < skv THEN TensorRow(c, bh, skv, s) ELSE Nowhere
    BY <1>2, <1>4, <2>2, <2>4, ThroughIs DEF Planned
  <2>6. QED
    BY <1>5, <2>1, <2>4, <2>5, Zenon
<1>8. XposeSource(c, bh, block, r) = t
  <2>1. PICK H \in Nat \ {0} : H = c.heads
    BY DEF Planned, Shaped
  <2>2. CASE c.bshd
    <3>1. S = H
      BY <1>4, <2>1, <2>2, Zenon DEF row_stride
    <3>2. XposeSource(c, bh, block, r) = (base + block * K * H + r * H) % AddrRows
      BY <1>1, <1>4, <2>1, <2>2, <3>1, Zenon DEF XposeSource
    <3>3. mine * H \in Nat /\ r * H \in Nat /\ s * H = mine * H + r * H
      BY <1>1, <1>3
    <3>6. PICK u \in Nat, v \in Nat : u = mine * H /\ v = r * H
      BY <3>3
    <3>7. block * K * H = u
      BY <1>3, <3>6, Zenon
    <3>8. s * S = u + v
      BY <3>1, <3>3, <3>6, Zenon
    <3>9. t = base + (u + v)
      BY <1>5, <3>8, Zenon
    <3>4. base + block * K * H + r * H = t
      BY <3>6, <3>7, <3>9
    <3>5. QED
      BY <1>6, <3>2, <3>4, SmallMod
  <2>3. CASE ~c.bshd
    <3>1. S = 1 /\ base = bh * skv
      BY <1>4, <2>3, Zenon DEF row_stride, head_base_offset
    <3>2. XposeSource(c, bh, block, r) = (bh * skv + block * K + r * 1) % AddrRows
      BY <1>1, <1>4, <2>3, <3>1, Zenon DEF XposeSource
    <3>3. bh * skv + block * K + r * 1 = t
      BY <1>3, <1>5, <3>1, r * 1 = r, s * 1 = s
    <3>4. QED
      BY <1>6, <3>2, <3>3, SmallMod
  <2>4. QED
    BY <2>2, <2>3 DEF Planned, Shaped
<1>9. QED
  BY <1>1, <1>5, <1>7, <1>8, Zenon DEF Planned, Shaped

LEMMA VtPlace ==
  ASSUME NEW c, Planned(c), NEW bh \in Heads942(c), NEW block \in 0 .. NumKvBlocks(c.Skv) - 1,
         NEW r \in 0 .. KvBlockRows - 1
  PROVE  /\ VtRow(c, bh, block, r) = XposePlace(c, bh, block, r)
         /\ XposePlace(c, bh, block, r) = (bh * NumKvBlocks(c.Skv) + block) * KvBlockRows + r
<1>1. PICK K \in Nat \ {0}, n \in Nat \ {0} : K = KvBlockRows /\ n = NumKvBlocks(c.Skv)
  BY QBlocks DEF Planned, Shaped
<1>2. PICK N \in Nat \ {0} : N = c.B * c.heads
  BY Positive DEF Planned, Shaped
<1>3. bh \in 0 .. N - 1 /\ bh \in Nat /\ block \in 0 .. n - 1 /\ block \in Nat /\ r \in 0 .. K - 1
  BY <1>1, <1>2 DEF Heads942
<1>4. PICK row \in Nat : row = bh * n + block /\ row \in 0 .. N * n - 1
  BY <1>3, Below942
<1>5. PICK place \in Nat : place = row * K + r /\ place \in 0 .. (N * n) * K - 1
  <2>1. N * n \in Nat \ {0}
    BY Positive
  <2>2. row * K + r \in 0 .. (N * n) * K - 1
    BY <1>3, <1>4, <2>1, Below942
  <2>3. QED
    BY <2>2
<1>6. (N * n) * K < AddrRows
  BY <1>1, <1>2, Zenon DEF Planned, Addressable
<1>7. AddrRows \in Nat \ {0} /\ place < AddrRows
  <2>1. (N * n) * K \in Nat
    BY SMT
  <2>2. QED
    BY <1>5, <1>6, <2>1, ViewsAssumption
<1>8. XposePlace(c, bh, block, r) = place
  <2>1. XposePlace(c, bh, block, r) = place % AddrRows
    BY <1>1, <1>4, <1>5, Zenon DEF XposePlace
  <2>2. QED
    BY <1>7, <2>1, SmallMod
<1>9. VtRow(c, bh, block, r) = place
  <2>1. PICK span \in Nat, off \in Nat : span = n * K /\ off = block * K + r
    BY <1>3
  <2>2. span < AddrRows /\ span % AddrRows = span
    <3>1. 1 * span <= N * span /\ N * span = (N * n) * K /\ N * span \in Nat
      BY <2>1, TimesMonotone942
    <3>2. span < AddrRows
      BY <1>6, <1>7, <3>1
    <3>3. QED
      BY <1>7, <3>2, SmallMod
  <2>3. off < span
    BY <1>3, <2>1, Below942
  <2>4. VtRow(c, bh, block, r) = bh * n * K + off
    BY <1>1, <2>1, <2>2, <2>3, Zenon DEF VtRow
  <2>5. (bh * n + block) * K = bh * n * K + block * K /\ bh * n * K \in Nat /\ block * K \in Nat
    BY <1>3
  <2>6. row * K = bh * n * K + block * K
    BY <1>4, <2>5, Zenon
  <2>7. QED
    BY <1>3, <1>5, <2>1, <2>4, <2>5, <2>6
<1>10. QED
  BY <1>1, <1>4, <1>5, <1>8, <1>9, Zenon

VtCells(c) == Heads942(c) \X BlockRows(c)
VtOf(c, z) == VtRow(c, z[1], z[2][1], z[2][2])

LEMMA VtCellIs ==
  ASSUME NEW c, Planned(c), NEW z \in VtCells(c)
  PROVE  \E g \in Heads942(c), block \in 0 .. NumKvBlocks(c.Skv) - 1, r \in 0 .. KvBlockRows - 1 :
           z = <<g, <<block, r>>>> /\ VtOf(c, z) = (g * NumKvBlocks(c.Skv) + block) * KvBlockRows + r
<1>1. PICK g \in Heads942(c), block \in 0 .. NumKvBlocks(c.Skv) - 1, r \in 0 .. KvBlockRows - 1 :
        z = <<g, <<block, r>>>>
  BY DEF VtCells, BlockRows
<1>2. VtOf(c, z) = VtRow(c, g, block, r)
  BY <1>1 DEF VtOf
<1>3. VtRow(c, g, block, r) = (g * NumKvBlocks(c.Skv) + block) * KvBlockRows + r
  BY VtPlace
<1>4. QED
  BY <1>1, <1>2, <1>3, Zenon

LEMMA VtRowsApart ==
  ASSUME NEW c, Planned(c), NEW x \in VtCells(c), NEW y \in VtCells(c), VtOf(c, x) = VtOf(c, y)
  PROVE  x = y
<1>1. PICK K \in Nat \ {0}, n \in Nat \ {0} : K = KvBlockRows /\ n = NumKvBlocks(c.Skv)
  BY QBlocks DEF Planned, Shaped
<1>2. PICK g \in Heads942(c), a \in 0 .. n - 1, r \in 0 .. K - 1 :
        x = <<g, <<a, r>>>> /\ VtOf(c, x) = (g * n + a) * K + r
  BY <1>1, VtCellIs
<1>3. PICK h \in Heads942(c), b \in 0 .. n - 1, s \in 0 .. K - 1 :
        y = <<h, <<b, s>>>> /\ VtOf(c, y) = (h * n + b) * K + s
  BY <1>1, VtCellIs
<1>4. g \in Int /\ h \in Int
  BY DEF Heads942
<1>5. PICK i \in Int, j \in Int : i = g * n + a /\ j = h * n + b
  BY <1>4
<1>9. i * K + r = j * K + s
  BY <1>2, <1>3, <1>5, Zenon
<1>6. i = j /\ r = s
  BY <1>9, OneQuotient942
<1>7. g = h /\ a = b
  BY <1>4, <1>5, <1>6, OneQuotient942
<1>8. QED
  BY <1>2, <1>3, <1>6, <1>7

LEMMA VtFilled ==
  ASSUME NEW c, Planned(c)
  PROVE  Cardinality({VtRow(c, bh, x[1], x[2]) : bh \in Heads942(c), x \in BlockRows(c)})
           = Cardinality(Heads942(c)) * Cardinality(BlockRows(c))
<1> DEFINE f == [z \in VtCells(c) |-> VtOf(c, z)]
           rows == {VtRow(c, bh, x[1], x[2]) : bh \in Heads942(c), x \in BlockRows(c)}
<1>1. IsFiniteSet(Heads942(c)) /\ IsFiniteSet(BlockRows(c))
  <2>1. PICK N \in Nat, n \in Nat, K \in Nat : N = c.B * c.heads /\ n = NumKvBlocks(c.Skv) /\ K = KvBlockRows
    BY Positive, QBlocks DEF Planned, Shaped
  <2>2. IsFiniteSet(0 .. N - 1) /\ IsFiniteSet(0 .. n - 1) /\ IsFiniteSet(0 .. K - 1)
    BY FS_Interval
  <2>3. IsFiniteSet((0 .. n - 1) \X (0 .. K - 1))
    BY <2>2, FS_Product
  <2>4. QED
    BY <2>1, <2>2, <2>3, Zenon DEF Heads942, BlockRows
<1>2. IsFiniteSet(VtCells(c)) /\ Cardinality(VtCells(c)) = Cardinality(Heads942(c)) * Cardinality(BlockRows(c))
  BY <1>1, FS_Product DEF VtCells
<1>3. ASSUME NEW z \in VtCells(c) PROVE VtOf(c, z) \in rows
  <2>1. z[1] \in Heads942(c) /\ z[2] \in BlockRows(c)
    BY DEF VtCells
  <2>2. QED
    BY <2>1 DEF VtOf
<1>4. ASSUME NEW t \in rows PROVE \E z \in VtCells(c) : VtOf(c, z) = t
  <2>1. PICK bh \in Heads942(c), x \in BlockRows(c) : t = VtRow(c, bh, x[1], x[2])
    OBVIOUS
  <2>2. <<bh, x>> \in VtCells(c) /\ VtOf(c, <<bh, x>>) = t
    BY <2>1 DEF VtCells, VtOf
  <2>3. QED
    BY <2>2
<1> HIDE DEF rows
<1>5. f \in [VtCells(c) -> rows] /\ \A z \in VtCells(c) : f[z] = VtOf(c, z)
  BY <1>3
<1> HIDE DEF f
<1>6. \A x, y \in VtCells(c) : f[x] = f[y] => x = y
  BY <1>5, VtRowsApart
<1>7. \A t \in rows : \E z \in VtCells(c) : f[z] = t
  BY <1>4, <1>5
<1>8. Cardinality(rows) = Cardinality(VtCells(c))
  BY <1>2, <1>5, <1>6, <1>7, SameSize
<1>9. QED
  BY <1>2, <1>8 DEF rows

LEMMA Keyed ==
  ASSUME NEW c, Planned(c)
  PROVE  KeysAreTheHeads(c)
<1>1. ASSUME NEW bh \in Heads942(c), NEW x \in BlockRows(c)
      PROVE  LET s == x[1] * KvBlockRows + x[2] IN
             /\ Masked(c, x[1], x[2]) <=> s >= c.Skv
             /\ s < c.Skv => /\ KRow(c, bh, x[1], x[2]) = TensorRow(c, bh, c.Skv, s)
                             /\ XposeSource(c, bh, x[1], x[2]) = TensorRow(c, bh, c.Vkv, s)
             /\ VtRow(c, bh, x[1], x[2]) = XposePlace(c, bh, x[1], x[2])
  <2>1. PICK block \in 0 .. NumKvBlocks(c.Skv) - 1, r \in 0 .. KvBlockRows - 1 : x[1] = block /\ x[2] = r
    BY DEF BlockRows
  <2>2. PICK s : s = block * KvBlockRows + r
    OBVIOUS
  <2>3. Masked(c, block, r) <=> s >= c.Skv
    BY <2>2, KeyRow
  <2>4. s < c.Skv => /\ KRow(c, bh, block, r) = TensorRow(c, bh, c.Skv, s)
                     /\ XposeSource(c, bh, block, r) = TensorRow(c, bh, c.Vkv, s)
    BY <2>2, KeysRead
  <2>5. VtRow(c, bh, block, r) = XposePlace(c, bh, block, r)
    BY VtPlace
  <2>6. QED
    BY <2>1, <2>2, <2>3, <2>4, <2>5, Zenon
<1>2. QED
  BY <1>1, VtFilled DEF KeysAreTheHeads

-----------------------------------------------------------------------------
(* Every admitted call's launch.                                           *)
LEMMA LaunchPlanned ==
  ASSUME NEW a \in Calls, Admitted942(a), LiteFits(a), NEW c, c = Launch942(a), Addressable(c)
  PROVE  /\ Planned(c)
         /\ \E enable \in BOOLEAN :
              c.plan = Plan(NumQBlocks(c.Sq), c.B * c.heads, NumKvBlocks(c.Skv), enable)
         /\ c.ordered => c.slots = c.plan.nqb * c.plan.bh
<1> DEFINE B == a.q.shape[1]
           heads == a.q.shape[heads_axis(a)]
           sq == a.q.shape[seq_axis(a)]
           skv == a.k.shape[seq_axis(a)]
           enable == ~(a.op = "forward_lite") /\ GivesWorkspace(a)
<1>1. /\ c.bshd = (a.layout = "bshd") /\ c.B = B /\ c.heads = heads /\ c.Sq = sq /\ c.Skv = skv
      /\ c.Vkv = a.v.shape[seq_axis(a)]
      /\ c.plan = Plan(NumQBlocks(sq), B * heads, NumKvBlocks(skv), enable)
      /\ c.ordered => c.slots = lite_workspace_slots(B, heads, sq)
  BY DEF Launch942
<1>2. a.q.shape \in Seq(Nat) /\ a.k.shape \in Seq(Nat) /\ Len(a.q.shape) = 4 /\ Len(a.k.shape) = 4
  <2>1. check_tensor(a.q) /\ check_tensor(a.k)
    BY DEF Admitted942, CheckedCommon
  <2>2. QED
    BY <2>1, CallsAssumption DEF check_tensor
<1>3. heads_axis(a) \in 1 .. 4 /\ seq_axis(a) \in 1 .. 4
  BY DEF heads_axis, seq_axis
<1>4. B > 0 /\ heads > 0 /\ sq > 0 /\ skv > 0
  BY DEF Admitted942, HasRows
<1>5. B \in Nat /\ heads \in Nat /\ sq \in Nat /\ skv \in Nat
  <2>1. \A i \in 1 .. 4 : a.q.shape[i] \in Nat /\ a.k.shape[i] \in Nat
    BY <1>2, ElementOfSeq
  <2>2. QED
    BY <1>3, <2>1
<1>6. a.v.shape = a.k.shape
  BY CallsAssumption DEF Admitted942, LiteFits, CheckedShapes
<1> HIDE DEF B, heads, sq, skv, enable
<1>7. enable \in BOOLEAN
  BY DEF enable
<1>8. Shaped(c)
  <2>1. c.bshd \in BOOLEAN
    BY <1>1
  <2>2. c.Vkv = c.Skv
    BY <1>1, <1>6 DEF skv
  <2>3. QED
    BY <1>1, <1>4, <1>5, <2>1, <2>2 DEF Shaped
<1>9. /\ c.plan = Plan(NumQBlocks(c.Sq), c.B * c.heads, NumKvBlocks(c.Skv), enable)
  BY <1>1, Zenon
<1>10. c.plan.nqb = NumQBlocks(c.Sq) /\ c.plan.bh = c.B * c.heads /\ c.plan.nkb = NumKvBlocks(c.Skv)
  <2>1. PICK n, m, k1 : n = NumQBlocks(c.Sq) /\ m = c.B * c.heads /\ k1 = NumKvBlocks(c.Skv)
    OBVIOUS
  <2>2. c.plan = Plan(n, m, k1, enable)
    BY <1>9, <2>1, Zenon
  <2>3. c.plan.nqb = n /\ c.plan.bh = m /\ c.plan.nkb = k1
    BY <2>2 DEF Plan
  <2>4. QED
    BY <2>1, <2>3, Zenon
<1>11. Planned(c)
  BY <1>8, <1>10, Zenon DEF Planned
<1>12. ASSUME c.ordered PROVE c.slots = c.plan.nqb * c.plan.bh
  <2>1. PICK n \in Nat, m \in Nat : n = NumQBlocks(sq) /\ m = B * heads
    BY <1>4, <1>5, QBlocks
  <2>2. c.slots = m * n
    BY <1>1, <1>12, <2>1, Zenon DEF lite_workspace_slots
  <2>3. c.plan.nqb = n /\ c.plan.bh = m
    BY <1>1, <1>10, <2>1, Zenon
  <2>4. m * n = n * m
    BY SMT
  <2>5. QED
    BY <2>2, <2>3, <2>4, Zenon
<1>13. QED
  BY <1>7, <1>9, <1>11, <1>12, Zenon

LEMMA LaunchAttends ==
  ASSUME NEW a \in Calls, Admitted942(a), LiteFits(a), NEW c, c = Launch942(a), Addressable(c)
  PROVE  /\ EachBlockOnce(c)
         /\ StoredOnce(c, (0 .. c.plan.nqb * c.plan.bh - 1) \ Split(c), Split(c))
         /\ KeysAreTheHeads(c)
         /\ c.ordered => c.slots = c.plan.nqb * c.plan.bh
<1>1. Planned(c) /\ (c.ordered => c.slots = c.plan.nqb * c.plan.bh)
  BY LaunchPlanned
<1>9. PICK p : p = c.plan
  OBVIOUS
<1>2. PICK n \in Nat \ {0}, m \in Nat \ {0}, nkb \in Nat \ {0}, enable \in BOOLEAN :
        p = Plan(n, m, nkb, enable)
  <2>1. NumQBlocks(c.Sq) \in Nat \ {0} /\ NumKvBlocks(c.Skv) \in Nat \ {0} /\ c.B * c.heads \in Nat \ {0}
    BY <1>1, QBlocks, Positive DEF Planned, Shaped
  <2>2. QED
    BY <1>9, <2>1, LaunchPlanned, Zenon
<1>3. p.nqb = n /\ p.bh = m /\ p.nkb = nkb /\ p.prefix \in Nat /\ p.tail \in Nat
  BY <1>2, PlanIs
<1>4. PICK wgs \in Nat : wgs = n * m /\ wgs = p.prefix + p.tail
  <2>1. n * m \in Nat
    BY SMT
  <2>2. QED
    BY <1>2, <2>1, PlanCovers
<1>5. Wgs(c) = 0 .. wgs - 1 /\ Split(c) = p.prefix .. p.prefix + p.tail - 1
  BY <1>3, <1>4, <1>9, Zenon DEF Wgs, Split
<1>6. StoredOnce(c, Wgs(c) \ Split(c), Split(c))
  <2>1. Split(c) \in SUBSET Wgs(c)
    BY <1>3, <1>4, <1>5
  <2>2. QED
    BY <1>1, <2>1, Stored
<1>7. EachBlockOnce(c)
  <2>1. ASSUME NEW wg \in 0 .. p.nqb * p.bh - 1, NEW b \in 0 .. p.nkb - 1
        PROVE  Cardinality({x \in Items(p) : x[3].wg = wg /\ b \in ToSet(x[3].walk)}) = 1
    <3>1. wg \in 0 .. wgs - 1 /\ b \in 0 .. nkb - 1
      BY <1>3, <1>4, Zenon
    <3>2. wg \in Nat /\ wg < p.prefix + p.tail
      BY <1>4, <3>1
    <3>3. QED
      BY <1>2, <3>1, <3>2, WalkedOnce
  <2>2. ASSUME NEW t \in 0 .. p.tail - 1
        PROVE  Merged(p, t) = {i \in 0 .. p.parts - 1 : PartWg(p, i) = p.prefix + t}
    BY <1>2, MergeReads
  <2>3. p.parts <= MaxParts
    <3>1. CASE p.tail = 0
      <4>1. p.parts = 0
        BY <1>2, <3>1, PlanIs
      <4>2. QED
        BY <4>1, TailSplitAssumption DEF MaxParts
    <3>2. CASE p.tail # 0
      BY <1>2, <3>2, PlanIs
    <3>3. QED
      BY <3>1, <3>2
  <2>4. QED
    BY <1>9, <2>1, <2>2, <2>3 DEF EachBlockOnce
<1>8. QED
  BY <1>1, <1>6, <1>7, Keyed, Zenon DEF Wgs

-----------------------------------------------------------------------------
(* The order of a lite launch, of any number of workgroups: a workgroup's  *)
(* slot counts those ahead of it, of a fuller bucket or an earlier claim.  *)
Ahead(bucket, claims, v, w) ==
  bucket[v] > bucket[w] \/ (bucket[v] = bucket[w] /\ claims[v] < claims[w])
Before(bucket, claims, n, w) == {x \in 0 .. n - 1 : Ahead(bucket, claims, x, w)}

LEMMA SlotCounts ==
  ASSUME NEW n \in Nat, NEW bucket \in [0 .. n - 1 -> Int], NEW claims \in [0 .. n - 1 -> Int], NEW w \in 0 .. n - 1
  PROVE  /\ SlotOf(bucket, claims, w) = Cardinality(Before(bucket, claims, n, w))
         /\ IsFiniteSet(Before(bucket, claims, n, w))
<1> DEFINE fuller == {x \in 0 .. n - 1 : bucket[x] > bucket[w]}
           earlier == {x \in 0 .. n - 1 : bucket[x] = bucket[w] /\ claims[x] < claims[w]}
<1>1. IsFiniteSet(fuller) /\ IsFiniteSet(earlier)
  <2>1. IsFiniteSet(0 .. n - 1)
    BY FS_Interval
  <2>2. QED
    BY <2>1, FS_Subset
<1>2. SlotOf(bucket, claims, w) = Cardinality(fuller) + Cardinality(earlier)
  <2>1. DOMAIN bucket = 0 .. n - 1
    OBVIOUS
  <2>2. QED
    BY <2>1, Zenon DEF SlotOf, bucket_slot
<1>3. Before(bucket, claims, n, w) = fuller \cup earlier
  BY DEF Before, Ahead
<1>4. fuller \cap earlier = {}
  <2>1. \A x \in 0 .. n - 1 : bucket[x] \in Int /\ bucket[w] \in Int
    OBVIOUS
  <2>2. QED
    BY <2>1
<1> HIDE DEF fuller, earlier
<1>5. Cardinality(fuller \cup earlier) = Cardinality(fuller) + Cardinality(earlier) - Cardinality({})
  BY <1>1, <1>4, FS_Union
<1>6. Cardinality({}) = 0 /\ Cardinality(fuller) \in Nat /\ Cardinality(earlier) \in Nat
  BY <1>1, FS_EmptySet, FS_CardinalityType
<1>7. IsFiniteSet(fuller \cup earlier)
  BY <1>1, FS_Union
<1>8. QED
  BY <1>2, <1>3, <1>5, <1>6, <1>7

LEMMA AheadFirst ==
  ASSUME NEW n \in Nat, NEW bucket \in [0 .. n - 1 -> Int], NEW claims \in [0 .. n - 1 -> Int],
         NEW v \in 0 .. n - 1, NEW w \in 0 .. n - 1, Ahead(bucket, claims, v, w)
  PROVE  SlotOf(bucket, claims, v) < SlotOf(bucket, claims, w)
<1> DEFINE V == Before(bucket, claims, n, v)
           W == Before(bucket, claims, n, w)
<1>1. /\ SlotOf(bucket, claims, v) = Cardinality(V) /\ IsFiniteSet(V)
      /\ SlotOf(bucket, claims, w) = Cardinality(W) /\ IsFiniteSet(W)
  BY SlotCounts
<1>2. \A x \in 0 .. n - 1 : bucket[x] \in Int /\ claims[x] \in Int
  OBVIOUS
<1>3. v \in W /\ v \notin V /\ V \subseteq W
  BY <1>2 DEF Before, Ahead
<1> HIDE DEF V, W
<1>4. V \cup {v} \in SUBSET W
  BY <1>3
<1>5. Cardinality(V \cup {v}) = Cardinality(V) + 1 /\ Cardinality(V \cup {v}) <= Cardinality(W)
  BY <1>1, <1>3, <1>4, FS_AddElement, FS_Subset
<1>6. Cardinality(V) \in Nat /\ Cardinality(W) \in Nat
  BY <1>1, FS_CardinalityType
<1>7. QED
  BY <1>1, <1>5, <1>6

LEMMA SlotBelow ==
  ASSUME NEW n \in Nat, NEW bucket \in [0 .. n - 1 -> Int], NEW claims \in [0 .. n - 1 -> Int], NEW w \in 0 .. n - 1
  PROVE  SlotOf(bucket, claims, w) \in 0 .. n - 1
<1> DEFINE W == Before(bucket, claims, n, w)
<1>1. SlotOf(bucket, claims, w) = Cardinality(W) /\ IsFiniteSet(W)
  BY SlotCounts
<1>2. w \notin W /\ W \subseteq 0 .. n - 1
  <2>1. bucket[w] \in Int /\ claims[w] \in Int
    OBVIOUS
  <2>2. QED
    BY <2>1 DEF Before, Ahead
<1> HIDE DEF W
<1>3. W \cup {w} \in SUBSET (0 .. n - 1)
  BY <1>2
<1>4. IsFiniteSet(0 .. n - 1) /\ Cardinality(0 .. n - 1) = n
  BY FS_Interval
<1>5. Cardinality(W \cup {w}) = Cardinality(W) + 1 /\ Cardinality(W \cup {w}) <= Cardinality(0 .. n - 1)
  BY <1>1, <1>2, <1>3, <1>4, FS_AddElement, FS_Subset
<1>6. Cardinality(W) \in Nat
  BY <1>1, FS_CardinalityType
<1>7. QED
  BY <1>1, <1>4, <1>5, <1>6

LEMMA BucketsRise ==
  ASSUME NEW nkb \in Nat, NEW a \in Nat, NEW b \in Nat
  PROVE  work_bucket(a, nkb) \in Int /\ (a <= b => work_bucket(a, nkb) <= work_bucket(b, nkb))
<1>1. PICK k1 \in Nat \ {0}, y \in Nat \ {0} : k1 = kWorkBuckets /\ y = nkb + 1
  BY LiteAssumption
<1>2. PICK i \in Nat, j \in Nat : i = a * k1 /\ j = b * k1 /\ (a <= b => i <= j)
  BY TimesMonotone942
<1>3. PICK p \in Nat, r \in 0 .. y - 1 : i = p * y + r /\ p = i \div y
  BY Divided942, ZenonT(60)
<1>4. PICK q \in Nat, s \in 0 .. y - 1 : j = q * y + s /\ q = j \div y
  BY Divided942, ZenonT(60)
<1>5. i <= j => p <= q
  <2>1. q < p => (q + 1) * y <= p * y
    BY TimesMonotone942, q + 1 \in Int, q < p => q + 1 <= p
  <2>2. (q + 1) * y = q * y + y /\ q * y \in Nat /\ p * y \in Nat
    BY SMT
  <2>3. QED
    BY <1>3, <1>4, <2>1, <2>2
<1>6. /\ work_bucket(a, nkb) = (IF p < k1 THEN p ELSE k1 - 1)
      /\ work_bucket(b, nkb) = (IF q < k1 THEN q ELSE k1 - 1)
  BY <1>1, <1>2, <1>3, <1>4, Zenon DEF work_bucket
<1>7. QED
  BY <1>2, <1>5, <1>6

LEMMA Ordered ==
  ASSUME NEW n \in 1 .. MaxOrdered, NEW keeps \in [0 .. n - 1 -> 0 .. MaxOrdered], NEW claims \in Claims(n)
  PROVE  LET bucket == [wg \in 0 .. n - 1 |-> work_bucket(keeps[wg], MaxOrdered)]
             slot == [wg \in 0 .. n - 1 |-> SlotOf(bucket, claims, wg)]
         IN /\ {slot[wg] : wg \in 0 .. n - 1} = 0 .. n - 1
            /\ \A v, w \in 0 .. n - 1 :
                 slot[v] < slot[w] => keeps[v] >= keeps[w] \/ bucket[v] = bucket[w]
<1> DEFINE bucket == [wg \in 0 .. n - 1 |-> work_bucket(keeps[wg], MaxOrdered)]
           slot == [wg \in 0 .. n - 1 |-> SlotOf(bucket, claims, wg)]
<1>2. n \in Nat /\ MaxOrdered \in Nat /\ \A x \in 0 .. n - 1 : keeps[x] \in Nat
  BY LiteAssumption
<1>13. \A x \in 0 .. n - 1 : bucket[x] = work_bucket(keeps[x], MaxOrdered)
  OBVIOUS
<1>3. bucket \in [0 .. n - 1 -> Int]
  BY <1>2, BucketsRise
<1> HIDE DEF bucket
<1>4. claims \in [0 .. n - 1 -> Int] /\ \A i, j \in 0 .. n - 1 : i # j => claims[i] # claims[j]
  BY DEF Claims
<1>5. \A x \in 0 .. n - 1 : slot[x] = SlotOf(bucket, claims, x)
  OBVIOUS
<1>7. slot \in [0 .. n - 1 -> 0 .. n - 1]
  BY <1>2, <1>3, <1>4, SlotBelow
<1> HIDE DEF slot
<1>6. \A v, w \in 0 .. n - 1 : Ahead(bucket, claims, v, w) => slot[v] < slot[w]
  BY <1>2, <1>3, <1>4, <1>5, AheadFirst
<1>8. \A v, w \in 0 .. n - 1 : v # w => Ahead(bucket, claims, v, w) \/ Ahead(bucket, claims, w, v)
  <2>1. SUFFICES ASSUME NEW v \in 0 .. n - 1, NEW w \in 0 .. n - 1, v # w
                 PROVE  Ahead(bucket, claims, v, w) \/ Ahead(bucket, claims, w, v)
    OBVIOUS
  <2>2. bucket[v] \in Int /\ bucket[w] \in Int /\ claims[v] \in Int /\ claims[w] \in Int /\ claims[v] # claims[w]
    BY <1>3, <1>4, <2>1
  <2>3. QED
    BY <2>2 DEF Ahead
<1>12. \A x \in 0 .. n - 1 : slot[x] \in Int
  BY <1>7
<1>9. {slot[wg] : wg \in 0 .. n - 1} = 0 .. n - 1
  <2>1. \A v, w \in 0 .. n - 1 : slot[v] = slot[w] => v = w
    BY <1>6, <1>8, <1>12
  <2>2. slot \in Injection(0 .. n - 1, 0 .. n - 1)
    BY <1>7, <2>1, Fun_IsInj
  <2>3. IsFiniteSet(0 .. n - 1)
    BY <1>2, FS_Interval
  <2>4. slot \in Surjection(0 .. n - 1, 0 .. n - 1)
    BY <2>2, <2>3, FS_Injection
  <2>5. \A t \in 0 .. n - 1 : \E wg \in 0 .. n - 1 : slot[wg] = t
    BY <2>4, Zenon DEF Surjection
  <2>6. QED
    BY <1>7, <2>5
<1>10. ASSUME NEW v \in 0 .. n - 1, NEW w \in 0 .. n - 1, slot[v] < slot[w]
       PROVE  keeps[v] >= keeps[w] \/ bucket[v] = bucket[w]
  <2>1. v # w /\ ~Ahead(bucket, claims, w, v)
    BY <1>6, <1>10, <1>12
  <2>2. bucket[v] >= bucket[w]
    BY <1>3, <1>8, <2>1 DEF Ahead
  <2>4. bucket[v] \in Int /\ bucket[w] \in Int /\ keeps[v] \in Nat /\ keeps[w] \in Nat
    BY <1>2, <1>3
  <2>6. bucket[v] = work_bucket(keeps[v], MaxOrdered) /\ bucket[w] = work_bucket(keeps[w], MaxOrdered)
    BY <1>13
  <2>7. MaxOrdered \in Nat
    BY <1>2
  <2>8. \A a \in Nat, b \in Nat : a <= b => work_bucket(a, MaxOrdered) <= work_bucket(b, MaxOrdered)
    BY <2>7, BucketsRise
  <2>9. keeps[v] <= keeps[w] => work_bucket(keeps[v], MaxOrdered) <= work_bucket(keeps[w], MaxOrdered)
    BY <2>4, <2>8
  <2>3. keeps[v] < keeps[w] => bucket[v] <= bucket[w]
    BY <2>4, <2>6, <2>9
  <2>5. QED
    BY <2>2, <2>3, <2>4
<1>11. QED
  BY <1>9, <1>10 DEF bucket, slot

LEMMA OrdersSound == SoundOrders = 1 .. MaxOrdered
BY Ordered DEF SoundOrders

(* Before any launch, the builds and modes are as sound as they are.       *)
LEMMA InvIsAttention ==
  ASSUME Inv, SoundBuilds = {"dense", "lite"}, ExactModes = {"dense", "split", "lite"}
  PROVE  LaunchIsAttention
<1>1. CASE launch = NoLaunch
  <2>1. KernelSound
    BY OrdersSound DEF KernelSound
  <2>2. QED
    BY <1>1, <2>1 DEF LaunchIsAttention
<1>2. CASE launch # NoLaunch
  <2>1. PICK a \in Calls : Admitted942(a) /\ LiteFits(a) /\ Addressable(launch) /\ launch = Launch942(a)
    BY <1>2 DEF Inv, LaunchFine
  <2>2. PICK c : c = launch
    OBVIOUS
  <2>3. /\ EachBlockOnce(c)
        /\ StoredOnce(c, (0 .. c.plan.nqb * c.plan.bh - 1) \ Split(c), Split(c))
        /\ KeysAreTheHeads(c)
        /\ c.ordered => c.slots = c.plan.nqb * c.plan.bh
    BY <2>1, <2>2, LaunchAttends
  <2>4. QED
    BY <1>2, <2>2, <2>3 DEF LaunchIsAttention
<1>3. QED
  BY <1>1, <1>2

(* Every call that the entry points let through launches the attention of  *)
(* its tensors, of any shape: each kv block of each q block is walked once *)
(* in a dense launch; each row of the output is stored once, by a CTA or a *)
(* merge, from its own row of Q, over its head's keys, each read once and  *)
(* none past the last; and each workgroup has a slot of the lite order,    *)
(* which runs each once, fuller rows first.  That the builds' lanes agree  *)
(* and that a row's sums are exact are facts about kernels of one size,    *)
(* which the hypothesis names and the run evaluates.                       *)
THEOREM LaunchIsAttentionHolds ==
  ASSUME SoundBuilds = {"dense", "lite"}, ExactModes = {"dense", "split", "lite"}
  PROVE  Spec => []LaunchIsAttention
<1>1. Init => Inv
  BY InitHolds
<1>2. Inv /\ [Next]_vars => Inv'
  BY NextKeeps
<1>3. Inv => LaunchIsAttention
  BY InvIsAttention
<1>4. QED
  BY <1>1, <1>2, <1>3, PTL DEF Spec
=============================================================================
