------------------------- MODULE VarlenPlansProofs -------------------------
(***************************************************************************)
(* Safety of the varlen plans for any threads, devices, objects, sizes and *)
(* any number of handles, captures and kernels in a graph.                 *)
(*                                                                         *)
(* The argument: an address belongs to one handle for ever, and to one of  *)
(* its modes: a replay writes device-mode lists only.  Within a graph a    *)
(* run's list is the last the graph wrote to its address (LastListed), for *)
(* a ready handle that was planned in a capture is the last that listed    *)
(* there.  An address is freed just when its handle is no object's and     *)
(* does not wait, and live graphs name only handles of objects.            *)
(***************************************************************************)
EXTENDS VarlenPlans, FiniteSetTheorems, SequenceTheorems, WellFoundedInduction, TLAPS

Buffers == [ptr : Nat, bytes : Nat]
HandleRecords == [on : Devices, ready : BOOLEAN, capture : Nat, mode : {"host", "dev"}, plan : Nat,
                  list : Nat, host : Buffers, dev : Buffers]
Kernels == [op : {"list", "run"}, at : Nat, plan : Nat]
GraphRecords == [on : Devices, live : BOOLEAN, broken : BOOLEAN, ops : Seq(Kernels)]
Addresses == 1 .. Len(mem)
HandleSpan == 1 .. Len(handles)
GraphSpan == 1 .. Len(graphs)

Shapes ==
  /\ object \in [Objects -> [handle : Nat, planned : BOOLEAN]]
  /\ handles \in Seq(HandleRecords) /\ graphs \in Seq(GraphRecords)
  /\ mem \in Seq(Nat) /\ owner \in Seq(Nat) /\ Len(owner) = Len(mem)
  /\ freed \subseteq Addresses
  /\ waiting \in Seq(Nat)
  /\ capturing \in [Threads -> [Devices -> {0} \cup GraphSpan]]
  /\ plans \in Nat /\ misread \subseteq {"dev"} /\ faulted = FALSE

ObjectsFine ==
  /\ \A o \in Objects : object[o].handle \in {0} \cup HandleSpan /\ (object[o].planned => object[o].handle # 0)
  /\ \A o, p \in Objects : o # p /\ object[o].handle # 0 => object[o].handle # object[p].handle

InQueue(q, h) == \E i \in 1 .. Len(q) : q[i] = h
Distinct(q) == \A i, j \in 1 .. Len(q) : i # j => q[i] # q[j]
WaitingFine ==
  /\ \A i \in 1 .. Len(waiting) : waiting[i] \in HandleSpan /\ ~Owned(waiting[i])
  /\ Distinct(waiting)

(* What is freed is of handles that no object has and that do not wait.    *)
FreedFine ==
  \A a \in Addresses :
    owner[a] \in HandleSpan /\ (a \in freed <=> ~Owned(owner[a]) /\ ~InQueue(waiting, owner[a]))

(* A handle's buffers are its own, and each mode's its own.                *)
BufferIn(m, w, h, buf) == buf.ptr # 0 => buf.ptr \in 1 .. Len(m) /\ w[buf.ptr] = h
BuffersIn(m, w, h, hs) ==
  /\ BufferIn(m, w, h, hs.host) /\ BufferIn(m, w, h, hs.dev)
  /\ hs.host.ptr # 0 => hs.host.ptr # hs.dev.ptr
BufferFine(h, buf) == BufferIn(mem, owner, h, buf)
BuffersFine(h, hs) == BuffersIn(mem, owner, h, hs)

(* After the first n of ops the last list at a is of plan x.               *)
LastListed(ops, n, a, x) ==
  \E j \in 1 .. n : /\ ops[j] = [op |-> "list", at |-> a, plan |-> x]
                    /\ \A k \in j + 1 .. n : ~(ops[k].op = "list" /\ ops[k].at = a)

(* A ready handle's list: a host list is in memory already, one planned in *)
(* a capture is the last its graph wrote there.                            *)
ListFine(hs) ==
  hs.ready /\ hs.list # 0 =>
    \/ hs.mode = "host" /\ hs.capture = 0 /\ hs.list = hs.host.ptr /\ mem[hs.list] = hs.plan
    \/ /\ hs.mode = "dev" /\ hs.list = hs.dev.ptr
       /\ hs.capture # 0 =>
            /\ hs.capture \in GraphSpan
            /\ LastListed(graphs[hs.capture].ops, Len(graphs[hs.capture].ops), hs.list, hs.plan)

(* Graphs name no host list; while a graph lives its handles are objects'. *)
NotHost(a) == \A h \in HandleSpan : handles[h].host.ptr # a
KernelFine(live, ops, i) ==
  /\ ops[i].at \in Addresses /\ NotHost(ops[i].at)
  /\ live => Owned(owner[ops[i].at])
  /\ ops[i].op = "run" => LastListed(ops, i - 1, ops[i].at, ops[i].plan)
GraphFine(g) == \A i \in 1 .. Len(g.ops) : KernelFine(g.live, g.ops, i)

Inv ==
  /\ Shapes /\ ObjectsFine /\ WaitingFine /\ FreedFine
  /\ \A h \in HandleSpan : BuffersFine(h, handles[h]) /\ ListFine(handles[h])
  /\ \A g \in GraphSpan : GraphFine(graphs[g])

-----------------------------------------------------------------------------
(* A set of naturals has a least one: subsets of 1 .. n a greatest.        *)
LEMMA LeastNatural ==
  ASSUME NEW T, T \subseteq Nat, T # {}
  PROVE  \E x \in T : \A y \in T : x <= y
<1> DEFINE Less == {p \in Nat \X Nat : p[1] < p[2]}
<1>1. IsWellFoundedOn(Less, Nat)
  BY NatLessThanWellFounded DEF OpToRel
<1> HIDE DEF Less
<1>2. PICK x \in T : \A y \in T : <<y, x>> \notin Less
  BY <1>1, WFMin
<1>3. ASSUME NEW y \in T, y < x PROVE <<y, x>> \in Less
  <2> DEFINE p == <<y, x>>
  <2>1. p \in Nat \X Nat /\ p[1] < p[2]
    BY <1>3
  <2>2. QED
    BY <2>1 DEF Less
<1>4. \A y \in T : ~ (y < x)
  BY <1>2, <1>3, Zenon
<1>5. x \in Nat /\ \A y \in T : y \in Nat
  OBVIOUS
<1>6. QED
  BY <1>4, <1>5

LEMMA MaxInSpan ==
  ASSUME NEW n \in Nat, NEW T, T \subseteq 1 .. n, T # {}
  PROVE  Max(T) \in T /\ \A y \in T : Max(T) >= y
<1> DEFINE down == {n - j : j \in T}
<1>1. down \subseteq Nat /\ down # {}
  <2>1. \A j \in T : j \in Nat /\ n - j \in Nat
    OBVIOUS
  <2>2. QED
    BY <2>1
<1>2. PICK x \in down : \A y \in down : x <= y
  BY <1>1, LeastNatural
<1>3. PICK j \in T : x = n - j
  BY <1>2
<1>4. \A k \in T : j >= k
  BY <1>2, <1>3
<1>5. QED
  BY <1>4 DEF Max

LEMMA InitFine == Init => Inv
<1> SUFFICES ASSUME Init PROVE Inv
  OBVIOUS
<1>1. Shapes
  BY DEF Init, Shapes, Addresses, GraphSpan
<1>2. ObjectsFine /\ WaitingFine /\ FreedFine
  BY DEF Init, ObjectsFine, WaitingFine, FreedFine, Distinct, Addresses, HandleSpan
<1>3. HandleSpan = {} /\ GraphSpan = {}
  BY DEF Init, HandleSpan, GraphSpan
<1>4. QED
  BY <1>1, <1>2, <1>3 DEF Inv

(* An address holds what the last list before wrote there, if one did.     *)
LEMMA HeldIsListed ==
  ASSUME NEW ops \in Seq(Kernels), NEW n \in 0 .. Len(ops), NEW a, NEW x, LastListed(ops, n, a, x)
  PROVE  HeldAfter(ops, n, a) = x
<1> DEFINE lists == {j \in 1 .. n : ops[j].op = "list" /\ ops[j].at = a}
<1>1. PICK j \in 1 .. n : /\ ops[j] = [op |-> "list", at |-> a, plan |-> x]
                          /\ \A k \in j + 1 .. n : ~(ops[k].op = "list" /\ ops[k].at = a)
  BY DEF LastListed
<1>2. j \in lists /\ \A k \in lists : j >= k
  BY <1>1
<1>3. \A i \in lists : (\A k \in lists : i >= k) => i = j
  BY <1>2
<1> HIDE DEF lists
<1>4. Max(lists) = j
  BY <1>2, <1>3 DEF Max
<1>5. QED
  BY <1>1, <1>2, <1>4 DEF HeldAfter, lists

(* Where nothing is listed memory stays.                                   *)
LEMMA HeldIsKept ==
  ASSUME NEW ops \in Seq(Kernels), NEW n \in 0 .. Len(ops), NEW a,
         \A j \in 1 .. n : ops[j].at # a
  PROVE  HeldAfter(ops, n, a) = mem[a]
BY DEF HeldAfter

LEMMA HeldIsNat ==
  ASSUME Shapes, NEW ops \in Seq(Kernels), NEW a \in Addresses
  PROVE  HeldAfter(ops, Len(ops), a) \in Nat
<1> DEFINE lists == {j \in 1 .. Len(ops) : ops[j].op = "list" /\ ops[j].at = a}
<1>1. mem[a] \in Nat
  BY DEF Shapes, Addresses
<1>2. \A j \in 1 .. Len(ops) : ops[j].plan \in Nat
  <2>1. \A j \in 1 .. Len(ops) : ops[j] \in Kernels
    OBVIOUS
  <2>2. QED
    BY <2>1 DEF Kernels
<1>3. CASE lists = {}
  BY <1>1, <1>3 DEF HeldAfter
<1>4. CASE lists # {}
  <2>1. Max(lists) \in 1 .. Len(ops)
    <3>1. Len(ops) \in Nat /\ lists \subseteq 1 .. Len(ops)
      OBVIOUS
    <3> HIDE DEF lists
    <3>2. QED
      BY <1>4, <3>1, MaxInSpan
  <2>2. QED
    BY <1>2, <1>4, <2>1 DEF HeldAfter
<1>5. QED
  BY <1>3, <1>4

LEMMA BeginKeeps ==
  ASSUME NEW t \in Threads, NEW d \in Devices, Inv, BeginCapture(t, d)
  PROVE  Inv'
<1> DEFINE new == [on |-> d, live |-> TRUE, broken |-> FALSE, ops |-> <<>>]
<1>1. /\ UNCHANGED <<object, handles, mem, owner, freed, waiting, plans, misread, faulted>>
      /\ graphs' = Append(graphs, new) /\ capturing' = [capturing EXCEPT ![t][d] = Len(graphs) + 1]
  BY DEF BeginCapture
<1>2. graphs \in Seq(GraphRecords) /\ new \in GraphRecords
  BY DEF Inv, Shapes, GraphRecords
<1> HIDE DEF new
<1>3. /\ graphs' \in Seq(GraphRecords) /\ Len(graphs') = Len(graphs) + 1 /\ Len(graphs) \in Nat
      /\ \A g \in GraphSpan : g \in GraphSpan' /\ graphs'[g] = graphs[g]
      /\ \A g \in GraphSpan' : g \in GraphSpan \/ graphs'[g] = new
  BY <1>1, <1>2 DEF GraphSpan
<1>4. capturing' \in [Threads -> [Devices -> {0} \cup GraphSpan']]
  BY <1>1, <1>3 DEF Inv, Shapes, GraphSpan
<1>5. Shapes'
  BY <1>1, <1>3, <1>4 DEF Inv, Shapes, Addresses
<1>6. ObjectsFine' /\ WaitingFine' /\ FreedFine'
  BY <1>1 DEF Inv, ObjectsFine, WaitingFine, FreedFine, Addresses, HandleSpan, Owned
<1>7. \A h \in HandleSpan' : BuffersFine(h, handles[h])' /\ ListFine(handles[h])'
  BY <1>1, <1>3 DEF Inv, BuffersFine, BuffersIn, BufferIn, ListFine, Addresses, HandleSpan
<1>8. \A g \in GraphSpan' : GraphFine(graphs[g])'
  <2>1. \A g \in GraphSpan : GraphFine(graphs[g])'
    <3> TAKE g \in GraphSpan
    <3>1. GraphFine(graphs[g]) /\ graphs'[g] = graphs[g]
      BY <1>3 DEF Inv
    <3>2. QED
      BY <1>1, <3>1 DEF GraphFine, KernelFine, NotHost, Addresses, HandleSpan, Owned
  <2>2. GraphFine(new)'
    BY DEF GraphFine, KernelFine, new
  <2>3. QED
    BY <1>3, <2>1, <2>2 DEF GraphFine
<1>9. QED
  BY <1>5, <1>6, <1>7, <1>8 DEF Inv

LEMMA EndKeeps ==
  ASSUME NEW t \in Threads, NEW d \in Devices, Inv, EndCapture(t, d)
  PROVE  Inv'
<1>1. /\ UNCHANGED <<object, handles, mem, owner, freed, waiting, graphs, plans, misread, faulted>>
      /\ capturing' = [capturing EXCEPT ![t][d] = 0]
  BY DEF EndCapture
<1>2. Shapes'
  BY <1>1 DEF Inv, Shapes, Addresses, GraphSpan
<1>3. QED
  BY <1>1, <1>2 DEF Inv, ObjectsFine, WaitingFine, FreedFine, Addresses, HandleSpan, GraphSpan, Owned,
    BuffersFine, BuffersIn, BufferIn, ListFine, GraphFine, KernelFine, NotHost

LEMMA DropKeeps ==
  ASSUME NEW g \in GraphSpan, Inv, DropGraph(g)
  PROVE  Inv'
<1>1. /\ UNCHANGED <<object, handles, mem, owner, freed, waiting, capturing, plans, misread, faulted>>
      /\ graphs' = [graphs EXCEPT ![g].live = FALSE]
  BY DEF DropGraph
<1>2. graphs \in Seq(GraphRecords) /\ \A i \in GraphSpan : graphs[i] \in GraphRecords
  BY DEF Inv, Shapes, GraphSpan
<1>3. /\ graphs' \in Seq(GraphRecords) /\ GraphSpan' = GraphSpan
      /\ \A i \in GraphSpan : graphs'[i].ops = graphs[i].ops /\ (graphs'[i].live => graphs[i].live)
  <2>1. [graphs[g] EXCEPT !.live = FALSE] \in GraphRecords
    BY <1>2 DEF GraphRecords
  <2>2. QED
    BY <1>1, <1>2, <2>1 DEF GraphSpan
<1>4. Shapes'
  BY <1>1, <1>3 DEF Inv, Shapes, Addresses
<1>5. ObjectsFine' /\ WaitingFine' /\ FreedFine'
  BY <1>1 DEF Inv, ObjectsFine, WaitingFine, FreedFine, Addresses, HandleSpan, Owned
<1>6. \A h \in HandleSpan' : BuffersFine(h, handles[h])' /\ ListFine(handles[h])'
  <2> TAKE h \in HandleSpan'
  <2>1. h \in HandleSpan /\ BuffersFine(h, handles[h]) /\ ListFine(handles[h])
    BY <1>1 DEF Inv, HandleSpan
  <2>2. QED
    BY <1>1, <1>3, <2>1 DEF BuffersFine, BuffersIn, BufferIn, ListFine, Addresses
<1>7. \A i \in GraphSpan' : GraphFine(graphs[i])'
  <2> TAKE i \in GraphSpan'
  <2>1. GraphFine(graphs[i]) /\ graphs'[i].ops = graphs[i].ops /\ (graphs'[i].live => graphs[i].live)
    BY <1>3 DEF Inv
  <2>2. QED
    BY <1>1, <2>1 DEF GraphFine, KernelFine, NotHost, Addresses, HandleSpan, Owned
<1>8. QED
  BY <1>4, <1>5, <1>6, <1>7 DEF Inv

(* A replay lists again before it runs, and writes device lists only.      *)
LEMMA ReplayKeeps ==
  ASSUME NEW g \in GraphSpan, Inv, Replay(g)
  PROVE  Inv'
<1> DEFINE ops == graphs[g].ops
           misled == \E i \in 1 .. Len(ops) : ops[i].op = "run" /\ HeldAfter(ops, i - 1, ops[i].at) # ops[i].plan
<1>1. /\ graphs[g].live /\ mem' = [a \in 1 .. Len(mem) |-> HeldAfter(ops, Len(ops), a)]
      /\ misread' = misread \cup (IF misled THEN {"graph"} ELSE {})
      /\ faulted' = (faulted \/ \E i \in 1 .. Len(ops) : ops[i].at \in freed)
      /\ UNCHANGED <<object, handles, owner, freed, waiting, capturing, graphs, plans>>
  BY DEF Replay
<1>2. graphs[g] \in GraphRecords /\ ops \in Seq(Kernels) /\ Len(ops) \in Nat
  <2>1. graphs[g] \in GraphRecords
    BY DEF Inv, Shapes, GraphSpan
  <2>2. QED
    BY <2>1 DEF GraphRecords
<1>3. GraphFine(graphs[g])
  BY DEF Inv
<1> HIDE DEF misled
<1>4. ~misled
  <2>1. SUFFICES ASSUME NEW i \in 1 .. Len(ops), ops[i].op = "run"
                 PROVE  HeldAfter(ops, i - 1, ops[i].at) = ops[i].plan
    BY DEF misled
  <2>2. LastListed(ops, i - 1, ops[i].at, ops[i].plan) /\ i - 1 \in 0 .. Len(ops)
    BY <1>2, <1>3, <2>1 DEF GraphFine, KernelFine
  <2>3. QED
    BY <1>2, <2>2, HeldIsListed
<1>5. \A i \in 1 .. Len(ops) : ops[i].at \notin freed
  <2>1. \A i \in 1 .. Len(ops) : ops[i].at \in Addresses /\ Owned(owner[ops[i].at])
    BY <1>1, <1>3 DEF GraphFine, KernelFine
  <2>2. QED
    BY <2>1 DEF Inv, FreedFine
<1>6. mem' \in Seq(Nat) /\ Len(mem') = Len(mem)
  <2>1. \A a \in 1 .. Len(mem) : HeldAfter(ops, Len(ops), a) \in Nat
    BY <1>2, HeldIsNat DEF Inv, Addresses
  <2>2. Len(mem) \in Nat
    BY DEF Inv, Shapes
  <2>3. QED
    BY <1>1, <2>1, <2>2
<1>7. Addresses' = Addresses
  BY <1>6 DEF Addresses
<1>8. Shapes'
  BY <1>1, <1>4, <1>5, <1>6, <1>7 DEF Inv, Shapes, GraphSpan
<1>9. ObjectsFine' /\ WaitingFine' /\ FreedFine'
  BY <1>1, <1>7 DEF Inv, ObjectsFine, WaitingFine, FreedFine, HandleSpan, Owned
<1>10. \A h \in HandleSpan' : BuffersFine(h, handles[h])' /\ ListFine(handles[h])'
  <2> TAKE h \in HandleSpan'
  <2>1. h \in HandleSpan /\ BuffersFine(h, handles[h]) /\ ListFine(handles[h])
    BY <1>1 DEF Inv, HandleSpan
  <2>2. BuffersFine(h, handles[h])'
    BY <1>1, <1>7, <2>1 DEF BuffersFine, BuffersIn, BufferIn
  <2>3. handles[h].host.ptr # 0 => mem'[handles[h].host.ptr] = mem[handles[h].host.ptr]
    <3>1. \A i \in 1 .. Len(ops) : ops[i].at # handles[h].host.ptr
      BY <1>3, <2>1 DEF GraphFine, KernelFine, NotHost
    <3>2. HeldAfter(ops, Len(ops), handles[h].host.ptr) = mem[handles[h].host.ptr]
      BY <1>2, <3>1, HeldIsKept
    <3>3. QED
      BY <1>1, <2>1, <3>2 DEF BuffersFine, BuffersIn, BufferIn, Addresses
  <2>4. ListFine(handles[h])'
    BY <1>1, <2>1, <2>3 DEF ListFine, GraphSpan
  <2>5. QED
    BY <2>2, <2>4
<1>11. \A i \in GraphSpan' : GraphFine(graphs[i])'
  <2> TAKE i \in GraphSpan'
  <2>1. GraphFine(graphs[i])
    BY <1>1 DEF Inv, GraphSpan
  <2>2. QED
    BY <1>1, <1>7, <2>1 DEF GraphFine, KernelFine, NotHost, HandleSpan, Owned
<1>12. QED
  BY <1>8, <1>9, <1>10, <1>11 DEF Inv

LEMMA GraphShapes ==
  ASSUME Shapes
  PROVE  \A g \in GraphSpan : /\ graphs[g] \in GraphRecords /\ graphs[g].ops \in Seq(Kernels)
                              /\ Len(graphs[g].ops) \in Nat /\ graphs[g].live \in BOOLEAN
<1>1. \A g \in GraphSpan : graphs[g] \in GraphRecords
  BY DEF Shapes, GraphSpan
<1>2. \A g \in GraphSpan : graphs[g].ops \in Seq(Kernels) /\ graphs[g].live \in BOOLEAN
  BY <1>1 DEF GraphRecords
<1>3. QED
  BY <1>1, <1>2

(* A kernel appended keeps what was listed, unless it lists there itself.  *)
LEMMA ListedAppends ==
  ASSUME NEW ops \in Seq(Kernels), NEW k \in Kernels, NEW a, NEW x
  PROVE  /\ Append(ops, k) \in Seq(Kernels) /\ Len(Append(ops, k)) = Len(ops) + 1 /\ Len(ops) \in Nat
         /\ \A i \in 1 .. Len(ops) : Append(ops, k)[i] = ops[i]
         /\ Append(ops, k)[Len(ops) + 1] = k
         /\ \A n \in 0 .. Len(ops) : LastListed(ops, n, a, x) => LastListed(Append(ops, k), n, a, x)
         /\ LastListed(ops, Len(ops), a, x) /\ ~(k.op = "list" /\ k.at = a) =>
              LastListed(Append(ops, k), Len(ops) + 1, a, x)
         /\ k = [op |-> "list", at |-> a, plan |-> x] => LastListed(Append(ops, k), Len(ops) + 1, a, x)
<1> DEFINE r == Append(ops, k)
<1>1. /\ r \in Seq(Kernels) /\ Len(r) = Len(ops) + 1 /\ Len(ops) \in Nat
      /\ \A i \in 1 .. Len(ops) : r[i] = ops[i]
      /\ r[Len(ops) + 1] = k
  OBVIOUS
<1> HIDE DEF r
<1>2. ASSUME NEW n \in 0 .. Len(ops), LastListed(ops, n, a, x) PROVE LastListed(r, n, a, x)
  <2>1. \A i \in 1 .. n : i \in 1 .. Len(ops) /\ r[i] = ops[i]
    BY <1>1
  <2>2. PICK j \in 1 .. n : /\ ops[j] = [op |-> "list", at |-> a, plan |-> x]
                            /\ \A i \in j + 1 .. n : ~(ops[i].op = "list" /\ ops[i].at = a)
    BY <1>2 DEF LastListed
  <2>3. \A i \in j + 1 .. n : i \in 1 .. n
    OBVIOUS
  <2>4. QED
    BY <2>1, <2>2, <2>3 DEF LastListed
<1>3. ASSUME LastListed(ops, Len(ops), a, x), ~(k.op = "list" /\ k.at = a)
      PROVE  LastListed(r, Len(ops) + 1, a, x)
  <2>1. LastListed(r, Len(ops), a, x)
    BY <1>1, <1>2, <1>3
  <2>2. PICK j \in 1 .. Len(ops) : /\ r[j] = [op |-> "list", at |-> a, plan |-> x]
                                   /\ \A i \in j + 1 .. Len(ops) : ~(r[i].op = "list" /\ r[i].at = a)
    BY <2>1 DEF LastListed
  <2>3. \A i \in j + 1 .. Len(ops) + 1 : ~(r[i].op = "list" /\ r[i].at = a)
    <3>1. \A i \in j + 1 .. Len(ops) + 1 : i \in j + 1 .. Len(ops) \/ i = Len(ops) + 1
      BY <1>1
    <3>2. QED
      BY <1>1, <1>3, <2>2, <3>1
  <2>4. j \in 1 .. Len(ops) + 1
    BY <1>1
  <2>5. QED
    BY <2>2, <2>3, <2>4 DEF LastListed
<1>4. ASSUME k = [op |-> "list", at |-> a, plan |-> x] PROVE LastListed(r, Len(ops) + 1, a, x)
  <2>1. Len(ops) + 1 \in 1 .. Len(ops) + 1 /\ \A i \in (Len(ops) + 1) + 1 .. Len(ops) + 1 : FALSE
    BY <1>1
  <2>2. QED
    BY <1>1, <1>4, <2>1 DEF LastListed
<1>5. QED
  BY <1>1, <1>2, <1>3, <1>4 DEF r

KernelsKept(ops, r) ==
  /\ \A i \in 1 .. Len(ops) : i \in 1 .. Len(r) /\ r[i] = ops[i]
  /\ \A n \in 0 .. Len(ops), a \in Nat, x \in Nat : LastListed(ops, n, a, x) => LastListed(r, n, a, x)

(* What was fine stays so in a graph that grew, if addresses stay as they  *)
(* are, owned by those who own handles.                                    *)
AddressesStay ==
  \A a \in Addresses : /\ a \in Addresses' /\ (NotHost(a) => NotHost(a)')
                       /\ (Owned(owner[a]) => Owned(owner[a])')
LEMMA KernelStays ==
  ASSUME NEW live, NEW ops \in Seq(Kernels), NEW r, NEW i \in 1 .. Len(ops), KernelsKept(ops, r),
         KernelFine(live, ops, i), AddressesStay
  PROVE  KernelFine(live, r, i)'
<1>1. r[i] = ops[i] /\ ops[i] \in Kernels /\ i - 1 \in 0 .. Len(ops)
  BY DEF KernelsKept
<1>2. ops[i].at \in Nat /\ ops[i].plan \in Nat
  BY <1>1 DEF Kernels
<1>3. QED
  BY <1>1, <1>2 DEF KernelFine, AddressesStay, KernelsKept

(* The graph that a kernel is appended to.                                 *)
LEMMA GraphAppends ==
  ASSUME graphs \in Seq(GraphRecords), NEW c \in GraphSpan, NEW k \in Kernels,
         graphs' = [graphs EXCEPT ![c].ops = Append(@, k)]
  PROVE  /\ graphs' \in Seq(GraphRecords) /\ GraphSpan' = GraphSpan
         /\ \A g \in GraphSpan : KernelsKept(graphs[g].ops, graphs'[g].ops) /\ graphs'[g].live = graphs[g].live
         /\ \A g \in GraphSpan : \A i \in 1 .. Len(graphs'[g].ops) :
              i \in 1 .. Len(graphs[g].ops) \/ (g = c /\ i = Len(graphs[c].ops) + 1 /\ graphs'[g].ops[i] = k)
         /\ \A g \in GraphSpan : \A a, x :
              /\ g # c \/ k.op # "list" \/ k.at # a
              /\ LastListed(graphs[g].ops, Len(graphs[g].ops), a, x)
              => LastListed(graphs'[g].ops, Len(graphs'[g].ops), a, x)
         /\ \A a, x : k = [op |-> "list", at |-> a, plan |-> x] =>
              LastListed(graphs'[c].ops, Len(graphs'[c].ops), a, x)
<1> DEFINE ops == graphs[c].ops
           r == Append(ops, k)
<1>1. graphs[c] \in GraphRecords /\ \A g \in GraphSpan : graphs[g] \in GraphRecords
  BY DEF GraphSpan
<1>2. ops \in Seq(Kernels) /\ \A g \in GraphSpan : graphs[g].ops \in Seq(Kernels)
  BY <1>1 DEF GraphRecords
<1>3. /\ r \in Seq(Kernels) /\ Len(r) = Len(ops) + 1 /\ Len(ops) \in Nat
      /\ \A i \in 1 .. Len(ops) : r[i] = ops[i]
      /\ r[Len(ops) + 1] = k
  BY <1>2, ListedAppends
<1>4. \A a, x : /\ \A n \in 0 .. Len(ops) : LastListed(ops, n, a, x) => LastListed(r, n, a, x)
                /\ LastListed(ops, Len(ops), a, x) /\ ~(k.op = "list" /\ k.at = a) => LastListed(r, Len(r), a, x)
                /\ k = [op |-> "list", at |-> a, plan |-> x] => LastListed(r, Len(r), a, x)
  BY <1>2, <1>3, ListedAppends
<1>5. [graphs[c] EXCEPT !.ops = Append(@, k)] \in GraphRecords
  BY <1>1, <1>3 DEF GraphRecords
<1>6. graphs' = [graphs EXCEPT ![c] = [graphs[c] EXCEPT !.ops = Append(@, k)]]
  OBVIOUS
<1>7. graphs' \in Seq(GraphRecords) /\ GraphSpan' = GraphSpan
  BY <1>5, <1>6 DEF GraphSpan
<1>8. \A g \in GraphSpan : graphs'[g] = IF g = c THEN [graphs[c] EXCEPT !.ops = Append(@, k)] ELSE graphs[g]
  BY <1>6 DEF GraphSpan
<1>9. \A g \in GraphSpan : /\ graphs'[g].live = graphs[g].live
                            /\ graphs'[g].ops = IF g = c THEN r ELSE graphs[g].ops
  BY <1>1, <1>8 DEF GraphRecords
<1> HIDE DEF r, ops
<1>10. ASSUME NEW g \in GraphSpan PROVE KernelsKept(graphs[g].ops, graphs'[g].ops)
  <2>1. Len(graphs[g].ops) \in Nat
    BY <1>2
  <2>2. CASE g # c
    BY <1>9, <2>1, <2>2 DEF KernelsKept
  <2>3. CASE g = c
    <3>1. \A i \in 1 .. Len(ops) : i \in 1 .. Len(r)
      BY <1>3
    <3>2. KernelsKept(ops, r)
      BY <1>3, <1>4, <3>1 DEF KernelsKept
    <3>3. QED
      BY <1>9, <2>3, <3>2 DEF ops
  <2>4. QED
    BY <2>2, <2>3
<1>11. ASSUME NEW g \in GraphSpan, NEW i \in 1 .. Len(graphs'[g].ops)
       PROVE  i \in 1 .. Len(graphs[g].ops) \/ (g = c /\ i = Len(ops) + 1 /\ graphs'[g].ops[i] = k)
  <2>1. CASE g # c
    BY <1>9, <2>1
  <2>2. CASE g = c
    <3>1. Len(graphs'[g].ops) = Len(ops) + 1
      BY <1>3, <1>9, <2>2
    <3>2. i \in 1 .. Len(ops) \/ i = Len(ops) + 1
      BY <1>3, <3>1
    <3>3. QED
      BY <1>3, <1>9, <2>2, <3>2 DEF ops
  <2>3. QED
    BY <2>1, <2>2
<1>12. ASSUME NEW g \in GraphSpan, NEW a, NEW x, g # c \/ k.op # "list" \/ k.at # a,
              LastListed(graphs[g].ops, Len(graphs[g].ops), a, x)
       PROVE  LastListed(graphs'[g].ops, Len(graphs'[g].ops), a, x)
  <2>1. CASE g # c
    BY <1>9, <1>12, <2>1
  <2>2. CASE g = c
    BY <1>4, <1>9, <1>12, <2>2 DEF ops
  <2>3. QED
    BY <2>1, <2>2
<1>13. \A a, x : k = [op |-> "list", at |-> a, plan |-> x] =>
         LastListed(graphs'[c].ops, Len(graphs'[c].ops), a, x)
  BY <1>4, <1>9
<1>14. QED
  BY <1>7, <1>9, <1>10, <1>11, <1>12, <1>13 DEF ops

(* A run: its handle is an object's, so its list is not freed; a host list *)
(* is its plan's; in a capture the graph has listed it.                    *)
LEMMA RunKeeps ==
  ASSUME NEW t \in Threads, NEW o \in Objects, Inv, Run(t, o)
  PROVE  Inv'
<1> DEFINE h == object[o].handle
           hs == handles[h]
           c == capturing[t][hs.on]
           k == [op |-> "run", at |-> hs.list, plan |-> hs.plan]
<1>1. /\ object[o].planned /\ hs.ready /\ c = hs.capture /\ hs.list # 0
      /\ IF c # 0 THEN /\ graphs' = [graphs EXCEPT ![c].ops = Append(@, k)]
                       /\ UNCHANGED <<misread, faulted>>
         ELSE /\ misread' = misread \cup (IF mem[hs.list] = hs.plan THEN {} ELSE {hs.mode})
              /\ faulted' = (faulted \/ hs.list \in freed)
              /\ UNCHANGED graphs
      /\ UNCHANGED <<object, handles, mem, owner, freed, waiting, capturing, plans>>
  BY DEF Run, CaptureId
<1>2. h \in HandleSpan
  BY <1>1 DEF Inv, ObjectsFine
<1>3. hs \in HandleRecords
  BY <1>2 DEF Inv, Shapes, HandleSpan
<1>4. c \in {0} \cup GraphSpan
  BY <1>3 DEF Inv, Shapes, HandleRecords
<1>5. BuffersFine(h, hs) /\ ListFine(hs)
  BY <1>2 DEF Inv
<1>6. hs.list \in Addresses /\ owner[hs.list] = h /\ Owned(h) /\ hs.list \notin freed
  <2>1. hs.list \in Addresses /\ owner[hs.list] = h
    BY <1>1, <1>5 DEF ListFine, BuffersFine, BuffersIn, BufferIn, Addresses
  <2>2. Owned(h)
    BY DEF Owned
  <2>3. QED
    BY <2>1, <2>2 DEF Inv, FreedFine
<1>7. ObjectsFine' /\ WaitingFine' /\ FreedFine'
  BY <1>1 DEF Inv, ObjectsFine, WaitingFine, FreedFine, Addresses, HandleSpan, Owned
<1>8. \A i \in HandleSpan' : BuffersFine(i, handles[i])'
  BY <1>1 DEF Inv, BuffersFine, BuffersIn, BufferIn, Addresses, HandleSpan
<1>9. CASE c = 0
  <2>1. hs.mode = "host" => mem[hs.list] = hs.plan
    BY <1>1, <1>5 DEF ListFine
  <2>2. misread' \subseteq {"dev"} /\ faulted' = FALSE
    BY <1>1, <1>3, <1>6, <1>9, <2>1 DEF Inv, Shapes, HandleRecords
  <2>3. Shapes'
    BY <1>1, <1>9, <2>2 DEF Inv, Shapes, Addresses, GraphSpan
  <2>4. \A i \in HandleSpan' : ListFine(handles[i])'
    BY <1>1, <1>9 DEF Inv, ListFine, HandleSpan, GraphSpan
  <2>5. \A g \in GraphSpan' : GraphFine(graphs[g])'
    BY <1>1, <1>9 DEF Inv, GraphFine, KernelFine, NotHost, Addresses, HandleSpan, GraphSpan, Owned
  <2>6. QED
    BY <1>7, <1>8, <2>3, <2>4, <2>5 DEF Inv
<1>10. CASE c # 0
  <2>1. c \in GraphSpan /\ k \in Kernels
    BY <1>3, <1>4, <1>10 DEF HandleRecords, Kernels
  <2>2. hs.mode = "dev" /\ LastListed(graphs[c].ops, Len(graphs[c].ops), hs.list, hs.plan) /\ hs.list = hs.dev.ptr
    BY <1>1, <1>5, <1>10 DEF ListFine
  <2>3. k.op = "run" /\ k.at = hs.list /\ k.plan = hs.plan
    OBVIOUS
  <2>4. graphs \in Seq(GraphRecords) /\ graphs' = [graphs EXCEPT ![c].ops = Append(@, k)]
    BY <1>1, <1>10 DEF Inv, Shapes
  <2> HIDE DEF k
  <2>5. /\ graphs' \in Seq(GraphRecords) /\ GraphSpan' = GraphSpan
        /\ \A g \in GraphSpan : KernelsKept(graphs[g].ops, graphs'[g].ops) /\ graphs'[g].live = graphs[g].live
        /\ \A g \in GraphSpan : \A i \in 1 .. Len(graphs'[g].ops) :
             i \in 1 .. Len(graphs[g].ops) \/ (g = c /\ i = Len(graphs[c].ops) + 1 /\ graphs'[g].ops[i] = k)
        /\ \A g \in GraphSpan : \A a, x :
              /\ g # c \/ k.op # "list" \/ k.at # a
              /\ LastListed(graphs[g].ops, Len(graphs[g].ops), a, x)
              => LastListed(graphs'[g].ops, Len(graphs'[g].ops), a, x)
    BY <2>1, <2>4, GraphAppends
  <2>6. \A g \in GraphSpan : graphs[g].ops \in Seq(Kernels)
    BY GraphShapes DEF Inv
  <2>10. AddressesStay
    BY <1>1 DEF AddressesStay, NotHost, Addresses, HandleSpan, Owned
  <2>7. Shapes'
    BY <1>1, <1>10, <2>5 DEF Inv, Shapes, Addresses
  <2>8. \A i \in HandleSpan' : ListFine(handles[i])'
    <3> TAKE i \in HandleSpan'
    <3>1. ListFine(handles[i]) /\ handles'[i] = handles[i]
      BY <1>1 DEF Inv, HandleSpan
    <3>2. QED
      BY <1>1, <2>3, <2>5, <3>1 DEF ListFine
  <2>9. \A g \in GraphSpan' : GraphFine(graphs[g])'
    <3>1. SUFFICES ASSUME NEW g \in GraphSpan, NEW i \in 1 .. Len(graphs'[g].ops)
                   PROVE  KernelFine(graphs[g].live, graphs[g].ops, i)'
      BY <2>5 DEF GraphFine
    <3>2. CASE i \in 1 .. Len(graphs[g].ops)
      <4>1. KernelFine(graphs[g].live, graphs[g].ops, i) /\ KernelsKept(graphs[g].ops, graphs'[g].ops)
        BY <2>5, <3>2 DEF Inv, GraphFine
      <4>2. QED
        BY <2>5, <2>6, <2>10, <3>2, <4>1, KernelStays
    <3>3. CASE i = Len(graphs[c].ops) + 1 /\ g = c /\ graphs'[g].ops[i] = k
      <4>1. LastListed(graphs'[c].ops, i - 1, hs.list, hs.plan)
        <5>1. Len(graphs[c].ops) \in 0 .. Len(graphs[c].ops) /\ i - 1 = Len(graphs[c].ops)
          <6>1. Len(graphs[c].ops) \in Nat
            BY <2>1, GraphShapes DEF Inv
          <6>2. PICK n \in Nat : n = Len(graphs[c].ops)
            BY <6>1
          <6>3. i = n + 1
            BY <3>3, <6>2
          <6>4. n \in 0 .. n /\ i - 1 = n
            BY <6>3
          <6>5. QED
            BY <6>2, <6>4
        <5>2. KernelsKept(graphs[c].ops, graphs'[c].ops) /\ hs.list \in Nat /\ hs.plan \in Nat
          BY <1>3, <2>1, <2>5 DEF HandleRecords
        <5>3. QED
          BY <2>2, <5>1, <5>2 DEF KernelsKept
      <4>2. NotHost(hs.list)
        <5>1. SUFFICES ASSUME NEW p \in HandleSpan PROVE handles[p].host.ptr # hs.list
          BY DEF NotHost
        <5>2. BuffersFine(p, handles[p])
          BY DEF Inv
        <5>3. CASE p = h
          BY <1>1, <1>5, <2>2, <5>3 DEF BuffersFine, BuffersIn
        <5>4. CASE p # h
          BY <1>1, <1>6, <5>2, <5>4 DEF BuffersFine, BuffersIn, BufferIn
        <5>5. QED
          BY <5>3, <5>4
      <4>3. PICK l : l = hs.list
        OBVIOUS
      <4>4. l \in Addresses' /\ NotHost(l)' /\ Owned(owner[l])'
        BY <1>6, <2>10, <4>2, <4>3 DEF AddressesStay
      <4>5. graphs'[g].ops[i].op = "run" /\ graphs'[g].ops[i].at = l /\ graphs'[g].ops[i].plan = hs.plan
        BY <2>3, <3>3, <4>3
      <4>6. QED
        BY <3>3, <4>1, <4>3, <4>4, <4>5 DEF KernelFine
    <3>4. QED
      BY <2>5, <3>2, <3>3
  <2>11. QED
    BY <1>7, <1>8, <2>7, <2>8, <2>9 DEF Inv
<1>11. QED
  BY <1>4, <1>9, <1>10

-----------------------------------------------------------------------------
(* What a plan call does: handle h becomes hs, on buffers of its own.      *)
PlanStep(o, h, hs) ==
  /\ hs \in HandleRecords /\ h \in HandleSpan'
  /\ h = object[o].handle \/ (object[o].handle = 0 /\ h \notin HandleSpan)
  /\ handles' \in Seq(HandleRecords) /\ handles'[h] = hs /\ HandleSpan \subseteq HandleSpan'
  /\ \A k \in HandleSpan' : k # h => k \in HandleSpan /\ handles'[k] = handles[k]
  /\ object' = [object EXCEPT ![o] = [handle |-> h, planned |-> hs.ready]]
  /\ UNCHANGED <<freed, waiting, capturing, misread, faulted>> /\ plans' \in Nat
  /\ mem' \in Seq(Nat) /\ owner' \in Seq(Nat) /\ Len(owner') = Len(mem') /\ Addresses \subseteq Addresses'
  /\ \A a \in Addresses : owner'[a] = owner[a] /\ (a # hs.list => mem'[a] = mem[a])
  /\ \A a \in Addresses' : a \notin Addresses => owner'[a] = h
  /\ BuffersIn(mem', owner', h, hs)
  /\ hs.host.ptr \in Addresses => h \in HandleSpan /\ hs.host.ptr = handles[h].host.ptr
  /\ hs.list # 0 => hs.list = IF hs.mode = "host" THEN hs.host.ptr ELSE hs.dev.ptr
  /\ hs.mode = "host" => hs.capture = 0 /\ (hs.list # 0 => mem'[hs.list] = hs.plan)
  /\ \/ graphs' = graphs /\ (hs.list = 0 \/ hs.capture = 0)
     \/ /\ hs.capture \in GraphSpan /\ hs.list # 0 /\ hs.mode = "dev"
        /\ graphs' = [graphs EXCEPT ![hs.capture].ops =
                        Append(@, [op |-> "list", at |-> hs.list, plan |-> hs.plan])]

LEMMA GrownFacts ==
  ASSUME Len(mem) \in Nat, NEW buf \in Buffers, NEW bytes \in Nat, NEW oom \in BOOLEAN
  PROVE  LET new == Grown(buf, bytes, oom) IN
         new \in Buffers /\ (new = buf \/ new.ptr = 0 \/ new.ptr = Len(mem) + 1)
<1>1. 2 * buf.bytes \in Nat
  BY DEF Buffers
<1>2. QED
  BY <1>1 DEF Grown, Buffers, NoBuffer

LEMMA PlanDoes ==
  ASSUME NEW t \in Threads, NEW o \in Objects, NEW d \in Devices, NEW hostCu \in BOOLEAN,
         NEW size \in Sizes, NEW fail \in Failures, Inv, Plan(t, o, d, hostCu, size, fail)
  PROVE  \E h, hs : PlanStep(o, h, hs)
<1> DEFINE old == object[o].handle
           h == IF old = 0 THEN Len(handles) + 1 ELSE old
           was == IF old = 0 THEN [host |-> NoBuffer, dev |-> NoBuffer]
                             ELSE [host |-> handles[h].host, dev |-> handles[h].dev]
           c == capturing[t][d]
           mode == IF hostCu /\ c = 0 THEN "host" ELSE "dev"
           prior == was[mode]
           buf == IF fail = "invalid" THEN prior ELSE Grown(prior, size, fail = "list")
           ok == Succeeds(fail, size, buf)
           new == buf.ptr > Len(mem)
           n == plans + 1
           hs == [on |-> d, ready |-> ok, capture |-> c, mode |-> mode, plan |-> n,
                  list |-> IF ok /\ size > 0 THEN buf.ptr ELSE 0,
                  host |-> IF mode = "host" THEN buf ELSE was.host,
                  dev |-> IF mode = "dev" THEN buf ELSE was.dev]
           grown == IF new THEN Append(mem, 0) ELSE mem
<1>1. /\ plans' = n
      /\ handles' = IF old = 0 THEN Append(handles, hs) ELSE [handles EXCEPT ![h] = hs]
      /\ object' = [object EXCEPT ![o] = [handle |-> h, planned |-> ok]]
      /\ owner' = IF new THEN Append(owner, h) ELSE owner
      /\ freed' = freed
      /\ mem' = IF hs.list # 0 /\ c = 0 THEN [grown EXCEPT ![hs.list] = n] ELSE grown
      /\ graphs' = IF hs.list # 0 /\ c # 0
                   THEN [graphs EXCEPT ![c].ops = Append(@, [op |-> "list", at |-> hs.list, plan |-> n])]
                   ELSE graphs
      /\ UNCHANGED <<waiting, capturing, misread, faulted>>
  BY DEF Plan, CaptureId, Outgrown, ListOf
<1>2. /\ size \in Nat /\ n \in Nat /\ Len(mem) \in Nat /\ Len(handles) \in Nat /\ Len(owner) = Len(mem)
      /\ mem \in Seq(Nat) /\ owner \in Seq(Nat) /\ handles \in Seq(HandleRecords)
      /\ c \in {0} \cup GraphSpan /\ c \in Nat
  BY PlansAssumption DEF Inv, Shapes, Sizes, GraphSpan
<1>3. old \in {0} \cup HandleSpan /\ (old # 0 => handles[old] \in HandleRecords /\ BuffersFine(old, handles[old]))
  BY DEF Inv, Shapes, ObjectsFine, HandleSpan
<1>4. /\ was.host \in Buffers /\ was.dev \in Buffers
      /\ BufferFine(h, was.host) /\ BufferFine(h, was.dev)
      /\ was.host.ptr # 0 => was.host.ptr # was.dev.ptr
      /\ was.host.ptr # 0 => old # 0 /\ was.host.ptr = handles[h].host.ptr
  BY <1>3 DEF NoBuffer, Buffers, BuffersFine, BuffersIn, BufferFine, BufferIn, HandleRecords
<1>5. mode \in {"host", "dev"} /\ prior = IF mode = "host" THEN was.host ELSE was.dev
  OBVIOUS
<1>6. prior \in Buffers /\ BufferFine(h, prior)
  BY <1>4, <1>5
<1>7. mode = "host" => c = 0
  OBVIOUS
<1>8. h \in Nat /\ h # 0 /\ (old = 0 => h = Len(handles) + 1) /\ (old # 0 => h = old)
  BY <1>2, <1>3 DEF HandleSpan
<1> HIDE DEF prior, mode, c, was, h, old
<1>9. buf \in Buffers /\ (buf = prior \/ buf.ptr = 0 \/ buf.ptr = Len(mem) + 1)
  BY <1>2, <1>6, GrownFacts
<1>10. ok \in BOOLEAN /\ (ok /\ size > 0 => buf.ptr # 0)
  BY <1>2 DEF Succeeds
<1> HIDE DEF buf, ok
<1>11. new => buf.ptr = Len(mem) + 1
  BY <1>2, <1>6, <1>9 DEF BufferFine, BufferIn, Addresses, Buffers
<1>12. hs \in HandleRecords /\ hs.list \in Nat
  BY <1>2, <1>4, <1>5, <1>9, <1>10 DEF HandleRecords, Buffers
<1>13. /\ hs.ready = ok /\ hs.capture = c /\ hs.mode = mode /\ hs.plan = n
       /\ hs.host = IF mode = "host" THEN buf ELSE was.host
       /\ hs.dev = IF mode = "dev" THEN buf ELSE was.dev
       /\ hs.list # 0 => hs.list = buf.ptr
  OBVIOUS
<1> HIDE DEF hs
<1>14. buf.ptr # 0 => \/ new /\ buf.ptr = Len(mem) + 1
                      \/ ~new /\ buf.ptr \in Addresses /\ owner[buf.ptr] = h /\ buf = prior
  BY <1>2, <1>6, <1>9, <1>11 DEF BufferFine, BufferIn, Addresses, Buffers
<1>15. /\ grown \in Seq(Nat) /\ Len(grown) = IF new THEN Len(mem) + 1 ELSE Len(mem)
       /\ \A a \in Addresses : grown[a] = mem[a]
  BY <1>2 DEF Addresses
<1>16. /\ owner' \in Seq(Nat) /\ Len(owner') = IF new THEN Len(mem) + 1 ELSE Len(mem)
       /\ \A a \in Addresses : owner'[a] = owner[a]
       /\ new => owner'[Len(mem) + 1] = h
  BY <1>1, <1>2, <1>8 DEF Addresses
<1> HIDE DEF grown
<1>17. hs.list # 0 => hs.list \in 1 .. Len(grown)
  BY <1>2, <1>13, <1>14, <1>15 DEF Addresses
<1>18. /\ mem' \in Seq(Nat) /\ Len(mem') = IF new THEN Len(mem) + 1 ELSE Len(mem)
       /\ \A a \in Addresses : a # hs.list => mem'[a] = mem[a]
       /\ hs.list # 0 /\ c = 0 => mem'[hs.list] = n
  <2>1. CASE hs.list # 0 /\ c = 0
    BY <1>1, <1>2, <1>15, <1>17, <2>1 DEF Addresses
  <2>2. CASE ~(hs.list # 0 /\ c = 0)
    BY <1>1, <1>15, <2>2
  <2>3. QED
    BY <2>1, <2>2
<1> HIDE DEF new, n
<1>19. /\ Addresses \subseteq Addresses' /\ Len(owner') = Len(mem')
       /\ \A a \in Addresses' : a \notin Addresses => owner'[a] = h /\ a = Len(mem) + 1 /\ new
       /\ new => Len(mem) + 1 \in Addresses' /\ Len(mem) + 1 \notin Addresses
  BY <1>2, <1>16, <1>18 DEF Addresses
<1>20. \A b : BufferFine(h, b) => BufferIn(mem', owner', h, b)
  BY <1>16, <1>18, <1>19 DEF BufferFine, BufferIn, Addresses
<1>21. BufferIn(mem', owner', h, buf)
  BY <1>14, <1>16, <1>18, <1>19 DEF BufferIn, Addresses
<1>22. hs.host.ptr # 0 => hs.host.ptr # hs.dev.ptr
  <2>1. \A b : BufferFine(h, b) /\ b.ptr # 0 => b.ptr \in Addresses
    BY DEF BufferFine, BufferIn, Addresses
  <2>2. buf.ptr # 0 => buf = prior \/ buf.ptr \notin Addresses
    BY <1>14, <1>19
  <2>3. QED
    BY <1>4, <1>5, <1>13, <2>1, <2>2
<1>23. BuffersIn(mem', owner', h, hs)
  BY <1>4, <1>5, <1>13, <1>20, <1>21, <1>22 DEF BuffersIn
<1>24. hs.host.ptr \in Addresses => h \in HandleSpan /\ hs.host.ptr = handles[h].host.ptr
  <2>1. SUFFICES ASSUME hs.host.ptr \in Addresses PROVE h \in HandleSpan /\ hs.host.ptr = handles[h].host.ptr
    OBVIOUS
  <2>2. hs.host.ptr # 0
    BY <2>1 DEF Addresses
  <2>3. hs.host = was.host
    BY <1>5, <1>13, <1>14, <1>19, <2>1, <2>2
  <2>4. QED
    BY <1>3, <1>4, <1>8, <2>2, <2>3
<1>25. /\ h \in HandleSpan' /\ (h = object[o].handle \/ (object[o].handle = 0 /\ h \notin HandleSpan))
       /\ handles' \in Seq(HandleRecords) /\ handles'[h] = hs /\ HandleSpan \subseteq HandleSpan'
       /\ \A k \in HandleSpan' : k # h => k \in HandleSpan /\ handles'[k] = handles[k]
  <2>1. CASE old = 0
    <3>1. handles' = Append(handles, hs) /\ h = Len(handles) + 1
      BY <1>1, <1>8, <2>1
    <3>2. QED
      BY <1>2, <1>12, <2>1, <3>1 DEF HandleSpan, old
  <2>2. CASE old # 0
    <3>1. handles' = [handles EXCEPT ![h] = hs] /\ h = old /\ h \in HandleSpan
      BY <1>1, <1>3, <1>8, <2>2
    <3>2. QED
      BY <1>2, <1>12, <2>2, <3>1 DEF HandleSpan, old
  <2>3. QED
    BY <2>1, <2>2
<1>26. \/ graphs' = graphs /\ (hs.list = 0 \/ hs.capture = 0)
       \/ /\ hs.capture \in GraphSpan /\ hs.list # 0 /\ hs.mode = "dev"
          /\ graphs' = [graphs EXCEPT ![hs.capture].ops =
                          Append(@, [op |-> "list", at |-> hs.list, plan |-> hs.plan])]
  BY <1>1, <1>2, <1>5, <1>7, <1>13
<1>27. hs.list # 0 => hs.list = IF hs.mode = "host" THEN hs.host.ptr ELSE hs.dev.ptr
  BY <1>5, <1>13
<1>28. PlanStep(o, h, hs)
  BY <1>1, <1>2, <1>7, <1>12, <1>13, <1>16, <1>18, <1>19, <1>23, <1>24, <1>25, <1>26, <1>27 DEF PlanStep
<1>29. QED
  BY <1>28

LEMMA PlanStepKeeps ==
  ASSUME NEW o \in Objects, NEW h, NEW hs, Inv, PlanStep(o, h, hs)
  PROVE  Inv'
<1> DEFINE k == [op |-> "list", at |-> hs.list, plan |-> hs.plan]
<1>1. /\ Shapes /\ ObjectsFine /\ WaitingFine /\ FreedFine
      /\ \A i \in HandleSpan : BuffersFine(i, handles[i]) /\ ListFine(handles[i])
      /\ \A g \in GraphSpan : GraphFine(graphs[g])
  BY DEF Inv
<1>2. /\ h \in HandleSpan' /\ handles'[h] = hs /\ HandleSpan \subseteq HandleSpan'
      /\ h = object[o].handle \/ (object[o].handle = 0 /\ h \notin HandleSpan)
      /\ \A i \in HandleSpan' : i # h => i \in HandleSpan /\ handles'[i] = handles[i]
      /\ object' = [object EXCEPT ![o] = [handle |-> h, planned |-> hs.ready]]
      /\ freed' = freed /\ waiting' = waiting /\ Addresses \subseteq Addresses'
      /\ \A a \in Addresses : owner'[a] = owner[a] /\ (a # hs.list => mem'[a] = mem[a])
      /\ \A a \in Addresses' : a \notin Addresses => owner'[a] = h
      /\ BuffersIn(mem', owner', h, hs)
  BY DEF PlanStep
<1>3. h # 0 /\ hs \in HandleRecords /\ hs.list \in Nat /\ hs.plan \in Nat /\ hs.ready \in BOOLEAN /\ h \in Nat
  BY <1>2 DEF PlanStep, HandleSpan, HandleRecords
<1>4. object' \in [Objects -> [handle : Nat, planned : BOOLEAN]] /\
      \A p \in Objects : object'[p].handle = (IF p = o THEN h ELSE object[p].handle) /\
                         (p # o => object'[p] = object[p])
  BY <1>1, <1>2, <1>3 DEF Shapes
<1>5. \A x : x # 0 => (Owned(x)' <=> Owned(x) \/ x = h)
  BY <1>2, <1>3, <1>4 DEF Owned
<1>6. ~InQueue(waiting, h)
  BY <1>1, <1>2 DEF WaitingFine, InQueue, Owned
<1>7. ObjectsFine'
  <2>1. \A p \in Objects : p # o => object[p].handle # h
    BY <1>1, <1>2, <1>3 DEF ObjectsFine
  <2>2. QED
    BY <1>1, <1>2, <1>3, <1>4, <2>1 DEF ObjectsFine
<1>8. WaitingFine'
  <2>1. \A x \in HandleSpan : x # 0
    BY DEF HandleSpan
  <2>2. QED
    BY <1>1, <1>2, <1>5, <1>6, <2>1 DEF WaitingFine, InQueue
<1>9. FreedFine'
  <2>1. SUFFICES ASSUME NEW a \in Addresses', NEW x, x = owner'[a]
                 PROVE  x \in HandleSpan' /\ (a \in freed <=> ~Owned(x)' /\ ~InQueue(waiting, x))
    BY <1>2 DEF FreedFine
  <2>2. CASE a \in Addresses
    <3>1. x = owner[a] /\ x \in HandleSpan /\ x # 0
      BY <1>1, <1>2, <2>1, <2>2 DEF FreedFine, HandleSpan
    <3>2. a \in freed <=> ~Owned(x) /\ ~InQueue(waiting, x)
      BY <1>1, <2>2, <3>1 DEF FreedFine
    <3>3. x = h => Owned(x)
      BY <1>2, <3>1 DEF Owned
    <3>4. QED
      BY <1>2, <1>5, <3>1, <3>2, <3>3
  <2>3. CASE a \notin Addresses
    <3>1. x = h /\ a \notin freed
      BY <1>1, <1>2, <2>1, <2>3 DEF Shapes
    <3>2. Owned(x)'
      BY <1>3, <1>5, <3>1
    <3>3. QED
      BY <1>2, <1>6, <3>1, <3>2
  <2>4. QED
    BY <2>2, <2>3
<1>10. \A i \in HandleSpan' : BuffersFine(i, handles[i])'
  <2> TAKE i \in HandleSpan'
  <2>1. CASE i = h
    BY <1>2, <2>1 DEF BuffersFine
  <2>2. CASE i # h
    <3>1. BuffersFine(i, handles[i]) /\ handles'[i] = handles[i]
      BY <1>1, <1>2, <2>2
    <3>2. QED
      BY <1>2, <3>1 DEF BuffersFine, BuffersIn, BufferIn, Addresses
  <2>3. QED
    BY <2>1, <2>2
<1>11. ASSUME NEW a \in Addresses, NotHost(a) PROVE NotHost(a)'
  <2>1. SUFFICES ASSUME NEW i \in HandleSpan' PROVE handles'[i].host.ptr # a
    BY DEF NotHost
  <2>2. CASE i = h
    <3>1. hs.host.ptr \in Addresses => h \in HandleSpan /\ hs.host.ptr = handles[h].host.ptr
      BY DEF PlanStep
    <3>2. QED
      BY <1>2, <1>11, <2>2, <3>1 DEF NotHost
  <2>3. CASE i # h
    BY <1>2, <1>11, <2>3 DEF NotHost
  <2>4. QED
    BY <2>2, <2>3
<1>12. AddressesStay
  <2>1. \A a \in Addresses : owner[a] \in HandleSpan /\ owner[a] # 0
    BY <1>1 DEF FreedFine, HandleSpan
  <2>2. QED
    BY <1>2, <1>5, <1>11, <2>1 DEF AddressesStay
<1>13. hs.list # 0 => /\ hs.list \in Addresses' /\ owner'[hs.list] = h
                      /\ hs.list = IF hs.mode = "host" THEN hs.host.ptr ELSE hs.dev.ptr
  BY <1>2 DEF PlanStep, BuffersIn, BufferIn, Addresses
<1>14. ASSUME hs.list # 0, hs.mode = "dev", NEW i \in HandleSpan' PROVE handles'[i].host.ptr # hs.list
  <2>1. BuffersFine(i, handles[i])'
    BY <1>10
  <2>2. CASE i = h
    BY <1>2, <1>13, <1>14, <2>2 DEF BuffersIn
  <2>3. CASE i # h
    BY <1>13, <1>14, <2>1, <2>3 DEF BuffersFine, BuffersIn, BufferIn
  <2>4. QED
    BY <2>2, <2>3
<1> DEFINE GraphsFine ==
      /\ graphs' \in Seq(GraphRecords) /\ GraphSpan' = GraphSpan
      /\ \A g \in GraphSpan' : GraphFine(graphs[g])'
      /\ \A g \in GraphSpan : \A a, x :
           a # hs.list /\ LastListed(graphs[g].ops, Len(graphs[g].ops), a, x) => LastListed(graphs'[g].ops, Len(graphs'[g].ops), a, x)
      /\ hs.list # 0 /\ hs.capture # 0 =>
           hs.capture \in GraphSpan /\
           LastListed(graphs'[hs.capture].ops, Len(graphs'[hs.capture].ops), hs.list, hs.plan)
<1>15. GraphsFine
  <2>1. CASE graphs' = graphs /\ (hs.list = 0 \/ hs.capture = 0)
    <3>1. ASSUME NEW g \in GraphSpan, NEW i \in 1 .. Len(graphs[g].ops)
          PROVE  KernelFine(graphs[g].live, graphs[g].ops, i)'
      <4>1. KernelFine(graphs[g].live, graphs[g].ops, i) /\ graphs[g].ops \in Seq(Kernels)
        BY <1>1, GraphShapes DEF GraphFine
      <4>2. KernelsKept(graphs[g].ops, graphs[g].ops)
        BY DEF KernelsKept
      <4>3. QED
        BY <1>12, <2>1, <4>1, <4>2, KernelStays
    <3>2. \A g \in GraphSpan' : GraphFine(graphs[g])'
      BY <2>1, <3>1 DEF GraphFine, GraphSpan
    <3>3. QED
      BY <1>1, <2>1, <3>2 DEF Shapes, GraphSpan
  <2>2. CASE /\ hs.capture \in GraphSpan /\ hs.list # 0 /\ hs.mode = "dev"
             /\ graphs' = [graphs EXCEPT ![hs.capture].ops = Append(@, k)]
    <3> DEFINE c == hs.capture
    <3>1. k \in Kernels /\ k.op = "list" /\ k.at = hs.list /\ graphs \in Seq(GraphRecords) /\ c \in GraphSpan
      BY <1>1, <1>3, <2>2 DEF Kernels, Shapes
    <3> HIDE DEF k, c
    <3>2. /\ graphs' \in Seq(GraphRecords) /\ GraphSpan' = GraphSpan
          /\ \A g \in GraphSpan : KernelsKept(graphs[g].ops, graphs'[g].ops) /\ graphs'[g].live = graphs[g].live
          /\ \A g \in GraphSpan : \A i \in 1 .. Len(graphs'[g].ops) :
               i \in 1 .. Len(graphs[g].ops) \/ (g = c /\ i = Len(graphs[c].ops) + 1 /\ graphs'[g].ops[i] = k)
          /\ \A g \in GraphSpan : \A a, x :
                /\ g # c \/ k.op # "list" \/ k.at # a
                /\ LastListed(graphs[g].ops, Len(graphs[g].ops), a, x)
                => LastListed(graphs'[g].ops, Len(graphs'[g].ops), a, x)
          /\ \A a, x : k = [op |-> "list", at |-> a, plan |-> x] =>
                LastListed(graphs'[c].ops, Len(graphs'[c].ops), a, x)
      BY <2>2, <3>1, GraphAppends DEF c
    <3>3. ASSUME NEW g \in GraphSpan, NEW i \in 1 .. Len(graphs'[g].ops)
          PROVE  KernelFine(graphs[g].live, graphs[g].ops, i)'
      <4>1. CASE i \in 1 .. Len(graphs[g].ops)
        <5>1. KernelFine(graphs[g].live, graphs[g].ops, i) /\ graphs[g].ops \in Seq(Kernels)
          BY <1>1, <4>1, GraphShapes DEF GraphFine
        <5>2. QED
          BY <1>12, <3>2, <4>1, <5>1, KernelStays
      <4>2. CASE graphs'[g].ops[i] = k
        <5>1. NotHost(hs.list)'
          BY <1>14, <2>2 DEF NotHost
        <5>2. Owned(owner[hs.list])'
          BY <1>3, <1>5, <1>13, <2>2
        <5>3. QED
          BY <1>13, <2>2, <3>1, <4>2, <5>1, <5>2 DEF KernelFine
      <4>3. QED
        BY <3>2, <4>1, <4>2
    <3>4. \A g \in GraphSpan' : GraphFine(graphs[g])'
      BY <3>2, <3>3 DEF GraphFine
    <3>5. LastListed(graphs'[c].ops, Len(graphs'[c].ops), hs.list, hs.plan)
      BY <3>2 DEF k
    <3>6. QED
      BY <3>1, <3>2, <3>4, <3>5 DEF c
  <2>3. QED
    BY <2>1, <2>2 DEF PlanStep
<1>16. ASSUME NEW i \in HandleSpan' PROVE ListFine(handles[i])'
  <2>1. CASE i = h
    <3>1. hs.mode = "host" => hs.capture = 0 /\ (hs.list # 0 => mem'[hs.list] = hs.plan)
      BY DEF PlanStep
    <3>2. hs.mode \in {"host", "dev"}
      BY <1>3 DEF HandleRecords
    <3>3. QED
      BY <1>2, <1>13, <1>15, <2>1, <3>1, <3>2 DEF ListFine
  <2>2. CASE i # h
    <3>1. ListFine(handles[i]) /\ BuffersFine(i, handles[i]) /\ handles'[i] = handles[i]
      BY <1>1, <1>2, <2>2
    <3>2. handles[i].ready /\ handles[i].list # 0 =>
            handles[i].list \in Addresses /\ owner[handles[i].list] = i
      BY <3>1 DEF ListFine, BuffersFine, BuffersIn, BufferIn, Addresses
    <3>3. handles[i].ready /\ handles[i].list # 0 =>
            handles[i].list # hs.list /\ mem'[handles[i].list] = mem[handles[i].list]
      BY <1>2, <1>13, <2>2, <3>2
    <3>4. QED
      BY <1>15, <3>1, <3>3 DEF ListFine
  <2>3. QED
    BY <2>1, <2>2
<1>17. Shapes'
  BY <1>1, <1>2, <1>4, <1>15 DEF Shapes, PlanStep
<1>18. QED
  BY <1>7, <1>8, <1>9, <1>10, <1>15, <1>16, <1>17 DEF Inv

-----------------------------------------------------------------------------
(* The sweep's passes are what the definition says.                        *)
LEMMA SweepAfterStep ==
  ASSUME NEW t, NEW q
  PROVE  /\ SweepAfter(t, q, 0) = [i |-> 1, gone |-> <<>>, q |-> q]
         /\ \A n \in Nat : SweepAfter(t, q, n + 1) = SweepPass(t, SweepAfter(t, q, n))
<1> DEFINE start == [i |-> 1, gone |-> <<>>, q |-> q]
           At(s, m) == IF m = 0 THEN start ELSE SweepPass(t, s[m - 1])
           Good(s, n) == s = [m \in 0 .. n |-> At(s, m)]
           bad == {n \in Nat : ~ \E s : Good(s, n)}
<1>1. bad = {}
  <2> SUFFICES ASSUME bad # {} PROVE FALSE
    OBVIOUS
  <2>1. PICK n \in bad : \A y \in bad : n <= y
    BY LeastNatural, bad \subseteq Nat
  <2>2. CASE n = 0
    <3> DEFINE s == [m \in 0 .. 0 |-> start]
    <3>1. Good(s, 0)
      BY SMT
    <3>2. QED
      BY <2>1, <2>2, <3>1
  <2>3. CASE n # 0
    <3>1. n \in Nat /\ n - 1 \in Nat /\ n - 1 \notin bad
      <4> HIDE DEF Good
      <4>1. n \in Nat /\ n - 1 \in Nat /\ ~(n <= n - 1)
        BY <2>3
      <4> HIDE DEF bad
      <4>2. QED
        BY <2>1, <4>1
    <3>2. PICK s : Good(s, n - 1)
      BY <3>1
    <3> DEFINE u == [m \in 0 .. n |-> IF m = n THEN SweepPass(t, s[n - 1]) ELSE s[m]]
    <3>3. Good(u, n)
      <4>1. ASSUME NEW m \in 0 .. n PROVE u[m] = At(u, m)
        <5>1. CASE m = n
          BY <3>1, <5>1
        <5>2. CASE m # n
          <6>1. m \in 0 .. n - 1 /\ u[m] = s[m] /\ s[m] = At(s, m)
            BY <3>1, <3>2, <5>2
          <6>2. m # 0 => m - 1 \in 0 .. n /\ m - 1 # n
            BY <3>1, <5>2
          <6>3. QED
            BY <6>1, <6>2
        <5>3. QED
          BY <5>1, <5>2
      <4> QED
        BY <4>1
    <3>4. QED
      BY <2>1, <3>3
  <2>4. QED
    BY <2>2, <2>3
<1>2. ASSUME NEW n \in Nat, NEW m \in Nat, NEW s, NEW u, Good(s, n), Good(u, m), n <= m
      PROVE  \A k \in 0 .. n : s[k] = u[k]
  <2> DEFINE differ == {k \in 0 .. n : s[k] # u[k]}
  <2> SUFFICES ASSUME differ # {} PROVE FALSE
    OBVIOUS
  <2>1. PICK k \in differ : \A y \in differ : k <= y
    BY LeastNatural, differ \subseteq Nat
  <2>2. k \in 0 .. n /\ k \in 0 .. m /\ s[k] # u[k]
    BY <2>1, <1>2
  <2>3. s[k] = At(s, k) /\ u[k] = At(u, k)
    BY <2>2, <1>2
  <2>4. k # 0
    BY <2>2, <2>3
  <2>5. k - 1 \in 0 .. n /\ k - 1 \notin differ
    BY <2>1, <2>2, <2>4
  <2>6. s[k - 1] = u[k - 1]
    BY <2>5
  <2>7. QED
    BY <2>2, <2>3, <2>6
<1> DEFINE g(n) == CHOOSE s : Good(s, n)
           glued == [n \in Nat |-> g(n)[n]]
<1>3. ASSUME NEW n \in Nat PROVE Good(g(n), n)
  BY <1>1, n \notin bad
<1> HIDE DEF bad, Good, g
<1>4. ASSUME NEW n \in Nat PROVE glued[n] = At(glued, n)
  <2>1. g(n)[n] = At(g(n), n)
    BY <1>3 DEF Good
  <2>2. n # 0 => g(n - 1)[n - 1] = g(n)[n - 1]
    <3>1. SUFFICES ASSUME n # 0 PROVE g(n - 1)[n - 1] = g(n)[n - 1]
      OBVIOUS
    <3>2. n - 1 \in Nat /\ n - 1 <= n /\ n - 1 \in 0 .. n - 1
      BY <3>1
    <3>3. Good(g(n - 1), n - 1) /\ Good(g(n), n)
      BY <3>2, <1>3
    <3>4. QED
      BY <3>2, <3>3, <1>2
  <2>3. n # 0 => n - 1 \in Nat
    OBVIOUS
  <2>4. QED
    BY <2>1, <2>2, <2>3
<1>5. glued = [n \in Nat |-> At(glued, n)]
  BY <1>4
<1> DEFINE passes == CHOOSE s : s = [n \in Nat |-> At(s, n)]
<1> HIDE DEF glued
<1>6. passes = [n \in Nat |-> At(passes, n)]
  BY <1>5
<1>7. \A n : SweepAfter(t, q, n) = passes[n]
  BY DEF SweepAfter
<1> HIDE DEF passes
<1>8. passes[0] = start
  BY <1>6
<1>9. ASSUME NEW n \in Nat PROVE passes[n + 1] = SweepPass(t, passes[n])
  <2>1. n + 1 \in Nat /\ n + 1 # 0 /\ (n + 1) - 1 = n
    OBVIOUS
  <2>2. passes[n + 1] = At(passes, n + 1)
    BY <1>6, <2>1
  <2>3. QED
    BY <2>1, <2>2
<1>10. QED
  BY <1>7, <1>8, <1>9

(* An element taken out, the last in its place; one put at the end.        *)
Removed(q, i) == Front([q EXCEPT ![i] = Last(q)])
LEMMA TakenOut ==
  ASSUME NEW q \in Seq(Nat), NEW i \in 1 .. Len(q)
  PROVE  /\ Removed(q, i) \in Seq(Nat) /\ Len(Removed(q, i)) = Len(q) - 1
         /\ \A j \in 1 .. Len(q) - 1 : Removed(q, i)[j] = IF j = i THEN q[Len(q)] ELSE q[j]
         /\ Distinct(q) => Distinct(Removed(q, i)) /\ ~InQueue(Removed(q, i), q[i])
         /\ \A h : InQueue(q, h) <=> InQueue(Removed(q, i), h) \/ h = q[i]
<1>0. PICK L \in Nat, r \in {Removed(q, i)} : L = Len(q) /\ r = Removed(q, i)
  OBVIOUS
<1> DEFINE u == [q EXCEPT ![i] = Last(q)]
<1>1. L \in Nat /\ L >= 1 /\ q[L] \in Nat /\ i \in 1 .. L
  BY <1>0
<1>2. u \in Seq(Nat) /\ Len(u) = L /\ \A j \in 1 .. L : u[j] = IF j = i THEN q[L] ELSE q[j]
  BY <1>0, <1>1 DEF Last
<1> HIDE DEF u
<1>3. r = SubSeq(u, 1, L - 1)
  BY <1>0, <1>2 DEF Front, Removed, u
<1>4. r \in Seq(Nat) /\ Len(r) = L - 1 /\ \A j \in 1 .. L - 1 : r[j] = u[j]
  BY <1>1, <1>2, <1>3
<1>5. \A j \in 1 .. L - 1 : j \in 1 .. L /\ j # L
  BY <1>1
<1>6. \A j \in 1 .. L - 1 : r[j] = IF j = i THEN q[L] ELSE q[j]
  BY <1>2, <1>4, <1>5
<1>7. ASSUME Distinct(q) PROVE Distinct(r) /\ ~InQueue(r, q[i])
  <2>1. \A j, k \in 1 .. L : j # k => q[j] # q[k]
    BY <1>0, <1>7 DEF Distinct
  <2>2. L \in 1 .. L
    BY <1>1
  <2>3. \A j \in 1 .. L - 1 : r[j] # q[i]
    BY <1>1, <1>5, <1>6, <2>1, <2>2
  <2>4. \A j, k \in 1 .. L - 1 : j # k => r[j] # r[k]
    BY <1>5, <1>6, <2>1, <2>2
  <2>5. QED
    BY <1>4, <2>3, <2>4 DEF Distinct, InQueue
<1>8. ASSUME NEW h PROVE InQueue(q, h) <=> InQueue(r, h) \/ h = q[i]
  <2>1. ASSUME NEW j \in 1 .. L, q[j] = h, h # q[i] PROVE \E k \in 1 .. L - 1 : r[k] = h
    <3>1. CASE j = L
      <4>1. i \in 1 .. L - 1
        BY <1>1, <2>1, <3>1
      <4>2. QED
        BY <1>6, <2>1, <3>1, <4>1
    <3>2. CASE j # L
      <4>1. j \in 1 .. L - 1 /\ j # i
        BY <1>1, <2>1, <3>2
      <4>2. QED
        BY <1>6, <2>1, <4>1
    <3>3. QED
      BY <3>1, <3>2
  <2>2. ASSUME NEW j \in 1 .. L - 1, r[j] = h PROVE \E k \in 1 .. L : q[k] = h
    BY <1>1, <1>5, <1>6, <2>2
  <2>3. QED
    BY <1>0, <1>1, <1>4, <2>1, <2>2 DEF InQueue
<1>9. /\ r \in Seq(Nat) /\ Len(r) = L - 1
      /\ \A j \in 1 .. L - 1 : r[j] = IF j = i THEN q[L] ELSE q[j]
      /\ Distinct(q) => Distinct(r) /\ ~InQueue(r, q[i])
      /\ \A h : InQueue(q, h) <=> InQueue(r, h) \/ h = q[i]
  BY <1>4, <1>6, <1>7, <1>8
<1>10. QED
  BY <1>0, <1>9

LEMMA PutLast ==
  ASSUME NEW q \in Seq(Nat), NEW x \in Nat
  PROVE  /\ Append(q, x) \in Seq(Nat)
         /\ \A h : InQueue(Append(q, x), h) <=> InQueue(q, h) \/ h = x
         /\ Distinct(q) /\ ~InQueue(q, x) => Distinct(Append(q, x))
<1> DEFINE r == Append(q, x)
           L == Len(q)
<1>1. /\ r \in Seq(Nat) /\ Len(r) = L + 1 /\ L \in Nat
      /\ \A j \in 1 .. L : r[j] = q[j]
      /\ r[L + 1] = x
  OBVIOUS
<1> HIDE DEF r
<1>2. \A j \in 1 .. L + 1 : j \in 1 .. L \/ j = L + 1
  BY <1>1
<1>3. L + 1 \in 1 .. L + 1 /\ \A j \in 1 .. L : j \in 1 .. L + 1
  BY <1>1
<1> HIDE DEF L
<1>4. \A h : InQueue(r, h) <=> InQueue(q, h) \/ h = x
  <2> TAKE h
  <2>1. InQueue(q, h) <=> \E j \in 1 .. L : q[j] = h
    BY DEF InQueue, L
  <2>2. InQueue(r, h) <=> \E j \in 1 .. L + 1 : r[j] = h
    BY <1>1 DEF InQueue
  <2>3. QED
    BY <1>1, <1>2, <1>3, <2>1, <2>2
<1>5. ASSUME Distinct(q), ~InQueue(q, x) PROVE Distinct(r)
  <2>1. \A j, k \in 1 .. L : q[j] # x /\ (j # k => q[j] # q[k])
    BY <1>5 DEF Distinct, InQueue, L
  <2>2. \A j, k \in 1 .. L + 1 : j # k => r[j] # r[k]
    BY <1>1, <1>2, <2>1
  <2>3. QED
    BY <1>1, <2>2 DEF Distinct
<1>6. QED
  BY <1>1, <1>4, <1>5 DEF r

SweepStates == [i : Nat, gone : Seq(Nat), q : Seq(Nat)]
LEMMA PassedOver ==
  ASSUME NEW acc \in SweepStates, NEW new, new = [acc EXCEPT !.i = @ + 1]
  PROVE  new \in SweepStates /\ new.i = acc.i + 1 /\ new.q = acc.q /\ new.gone = acc.gone
BY DEF SweepStates

LEMMA SweepState ==
  ASSUME NEW i \in Nat, NEW gone \in Seq(Nat), NEW q \in Seq(Nat), NEW new, new = [i |-> i, gone |-> gone, q |-> q]
  PROVE  new \in SweepStates /\ new.i = i /\ new.q = q /\ new.gone = gone
BY DEF SweepStates

(* After n of N passes: n fewer to look at; those passed over are on       *)
(* devices that capture; the rest and the gone are the set's, each once.   *)
SweepFine(t, all, N, n, acc) ==
  /\ acc \in SweepStates
  /\ acc.i >= 1 /\ Len(acc.q) + 1 + n = N + acc.i
  /\ \A j \in 1 .. acc.i - 1 : capturing[t][handles[acc.q[j]].on] # 0
  /\ Distinct(acc.q) /\ Distinct(acc.gone) /\ \A h : ~(InQueue(acc.q, h) /\ InQueue(acc.gone, h))
  /\ \A h : h \in all <=> InQueue(acc.q, h) \/ InQueue(acc.gone, h)

LEMMA PassKeeps ==
  ASSUME NEW t, NEW all, NEW N \in Nat, NEW n \in Nat, n < N, NEW acc, SweepFine(t, all, N, n, acc)
  PROVE  SweepFine(t, all, N, n + 1, SweepPass(t, acc))
<1>1. /\ acc \in SweepStates /\ acc.i \in Nat /\ acc.q \in Seq(Nat) /\ acc.gone \in Seq(Nat) /\ Len(acc.q) \in Nat
      /\ acc.i >= 1 /\ Len(acc.q) + 1 + n = N + acc.i
  BY DEF SweepFine, SweepStates
<1>2. PICK i \in Nat, L \in Nat, q \in Seq(Nat), gone \in Seq(Nat) :
        i = acc.i /\ q = acc.q /\ gone = acc.gone /\ L = Len(q)
  BY <1>1
<1>3. i >= 1 /\ L + 1 + n = N + i
  BY <1>1, <1>2
<1>4. i \in 1 .. L /\ i <= L
  BY <1>3
<1>5. /\ \A j \in 1 .. i - 1 : capturing[t][handles[q[j]].on] # 0
      /\ Distinct(q) /\ Distinct(gone) /\ \A h : ~(InQueue(q, h) /\ InQueue(gone, h))
      /\ \A h : h \in all <=> InQueue(q, h) \/ InQueue(gone, h)
  BY <1>2 DEF SweepFine
<1> DEFINE off == capturing[t][handles[q[i]].on] # 0
<1>6. SweepPass(t, acc) = IF off THEN [acc EXCEPT !.i = @ + 1]
                          ELSE [i |-> i, gone |-> Append(gone, q[i]), q |-> Removed(q, i)]
  <2>1. ~(acc.i > Len(acc.q))
    BY <1>2, <1>4
  <2>2. QED
    BY <1>2, <2>1 DEF SweepPass, SweepStep, Removed
<1>7. CASE off
  <2>1. PICK new : new = [acc EXCEPT !.i = @ + 1]
    OBVIOUS
  <2>2. new \in SweepStates /\ new.i = i + 1 /\ new.q = q /\ new.gone = gone
    BY <1>1, <1>2, <2>1, PassedOver
  <2>3. \A j \in 1 .. (i + 1) - 1 : j \in 1 .. i - 1 \/ j = i
    BY <1>3
  <2>4. \A j \in 1 .. (i + 1) - 1 : capturing[t][handles[q[j]].on] # 0
    BY <1>5, <1>7, <2>3
  <2>5. i + 1 >= 1 /\ L + 1 + (n + 1) = N + (i + 1)
    BY <1>3
  <2>6. SweepFine(t, all, N, n + 1, new)
    BY <1>2, <1>5, <2>2, <2>4, <2>5 DEF SweepFine
  <2>7. QED
    BY <1>6, <1>7, <2>1, <2>6
<1>8. CASE ~off
  <2>1. /\ Removed(q, i) \in Seq(Nat) /\ Len(Removed(q, i)) = L - 1
        /\ \A j \in 1 .. L - 1 : Removed(q, i)[j] = IF j = i THEN q[L] ELSE q[j]
        /\ Distinct(Removed(q, i)) /\ ~InQueue(Removed(q, i), q[i])
        /\ \A h : InQueue(q, h) <=> InQueue(Removed(q, i), h) \/ h = q[i]
    <3>1. i \in 1 .. Len(q)
      BY <1>2, <1>4
    <3>2. L = Len(q) /\ Distinct(q)
      BY <1>2, <1>5
    <3>3. /\ Removed(q, i) \in Seq(Nat) /\ Len(Removed(q, i)) = Len(q) - 1
          /\ \A j \in 1 .. Len(q) - 1 : Removed(q, i)[j] = IF j = i THEN q[Len(q)] ELSE q[j]
          /\ Distinct(q) => Distinct(Removed(q, i)) /\ ~InQueue(Removed(q, i), q[i])
          /\ \A h : InQueue(q, h) <=> InQueue(Removed(q, i), h) \/ h = q[i]
      BY <3>1, TakenOut
    <3>4. QED
      BY <3>2, <3>3
  <2>2. PICK r \in Seq(Nat) : r = Removed(q, i)
    BY <2>1
  <2>3. q[i] \in Nat /\ InQueue(q, q[i])
    BY <1>2, <1>4 DEF InQueue
  <2>4. ~InQueue(gone, q[i])
    BY <1>5, <2>3
  <2>5. PICK gone2 : gone2 = Append(gone, q[i])
    OBVIOUS
  <2>6. /\ gone2 \in Seq(Nat) /\ Distinct(gone2)
        /\ \A h : InQueue(gone2, h) <=> InQueue(gone, h) \/ h = q[i]
    BY <1>5, <2>3, <2>4, <2>5, PutLast
  <2>7. PICK new : new = [i |-> i, gone |-> gone2, q |-> r]
    OBVIOUS
  <2>8. new \in SweepStates /\ new.i = i /\ new.q = r /\ new.gone = gone2
    BY <2>6, <2>7, SweepState
  <2>9. \A j \in 1 .. i - 1 : j \in 1 .. L - 1 /\ j # i
    BY <1>3, <1>4
  <2>10. \A j \in 1 .. i - 1 : capturing[t][handles[r[j]].on] # 0
    BY <1>5, <2>1, <2>2, <2>9
  <2>11. (L - 1) + 1 + (n + 1) = N + i /\ Len(r) = L - 1
    BY <1>3, <2>1, <2>2
  <2>12. Distinct(r) /\ \A h : /\ ~(InQueue(r, h) /\ InQueue(gone2, h))
                              /\ h \in all <=> InQueue(r, h) \/ InQueue(gone2, h)
    BY <1>5, <2>1, <2>2, <2>6, Zenon
  <2>13. SweepFine(t, all, N, n + 1, new)
    BY <1>3, <2>6, <2>8, <2>10, <2>11, <2>12 DEF SweepFine
  <2>14. QED
    BY <1>6, <1>8, <2>2, <2>5, <2>7, <2>13
<1>9. QED
  BY <1>7, <1>8

(* The sweep passes over no handle whose device is free, loses none and    *)
(* takes none twice.                                                       *)
LEMMA SweepEnds ==
  ASSUME NEW t, NEW q \in Seq(Nat), Distinct(q)
  PROVE  LET s == Sweep(t, q) IN
         /\ s.q \in Seq(Nat) /\ s.gone \in Seq(Nat)
         /\ \A j \in 1 .. Len(s.q) : capturing[t][handles[s.q[j]].on] # 0
         /\ Distinct(s.q) /\ Distinct(s.gone) /\ \A h : ~(InQueue(s.q, h) /\ InQueue(s.gone, h))
         /\ \A h : InQueue(q, h) <=> InQueue(s.q, h) \/ InQueue(s.gone, h)
<1> DEFINE at(n) == SweepAfter(t, q, n)
           all == {h \in Nat : InQueue(q, h)}
<1>1. PICK N \in Nat : N = Len(q)
  OBVIOUS
<1> DEFINE bad == {n \in 0 .. N : ~SweepFine(t, all, N, n, at(n))}
<1>10. \A h : h \in all <=> InQueue(q, h)
  BY <1>1 DEF InQueue
<1> HIDE DEF all
<1>2. SweepFine(t, all, N, 0, at(0))
  <2>1. at(0) = [i |-> 1, gone |-> <<>>, q |-> q]
    BY SweepAfterStep
  <2> HIDE DEF at
  <2>2. at(0).i = 1 /\ at(0).gone = <<>> /\ at(0).q = q /\ at(0) \in SweepStates
    <3>1. <<>> \in Seq(Nat)
      OBVIOUS
    <3>2. PICK none \in Seq(Nat) : none = <<>>
      BY <3>1
    <3>3. PICK one \in Nat : one = 1
      OBVIOUS
    <3>4. PICK a : a = [i |-> one, gone |-> none, q |-> q]
      OBVIOUS
    <3>5. a \in SweepStates /\ a.i = one /\ a.q = q /\ a.gone = none
      BY <3>4, SweepState
    <3>6. at(0) = a
      BY <2>1, <3>2, <3>3, <3>4
    <3>7. QED
      BY <3>2, <3>3, <3>5, <3>6
  <2>3. \A h : ~InQueue(<<>>, h)
    BY DEF InQueue
  <2>4. Distinct(<<>>)
    BY DEF Distinct
  <2>5. \A j \in 1 .. 1 - 1 : FALSE
    OBVIOUS
  <2>6. N + 1 + 0 = N + 1
    OBVIOUS
  <2>7. QED
    BY <1>1, <1>10, <2>2, <2>3, <2>4, <2>5, <2>6 DEF SweepFine
<1>3. ASSUME NEW n \in Nat, n < N, SweepFine(t, all, N, n, at(n)) PROVE SweepFine(t, all, N, n + 1, at(n + 1))
  <2>1. at(n + 1) = SweepPass(t, at(n))
    BY SweepAfterStep
  <2> HIDE DEF at
  <2>2. QED
    BY <1>3, <2>1, PassKeeps
<1> HIDE DEF at
<1>4. bad = {}
  <2> SUFFICES ASSUME bad # {} PROVE FALSE
    OBVIOUS
  <2>1. PICK n \in bad : \A y \in bad : n <= y
    BY <1>1, LeastNatural, bad \subseteq Nat
  <2>2. n \in 0 .. N /\ ~SweepFine(t, all, N, n, at(n)) /\ n # 0
    BY <1>2, <2>1
  <2>3. n - 1 \in Nat /\ n - 1 < N /\ n - 1 \in 0 .. N /\ (n - 1) + 1 = n /\ ~(n <= n - 1)
    BY <1>1, <2>2
  <2>4. n - 1 \notin bad
    BY <2>1, <2>3
  <2>5. QED
    BY <1>3, <2>2, <2>3, <2>4
<1>5. SweepFine(t, all, N, N, at(N))
  BY <1>1, <1>4
<1> DEFINE s == at(N)
<1>6. s = Sweep(t, q)
  BY <1>1 DEF Sweep, at
<1> HIDE DEF s
<1>7. SweepFine(t, all, N, N, s)
  BY <1>5 DEF s
<1>8. s.i - 1 = Len(s.q)
  <2>1. s.i \in Nat /\ Len(s.q) \in Nat /\ Len(s.q) + 1 + N = N + s.i
    BY <1>7 DEF SweepFine, SweepStates
  <2>2. QED
    BY <1>1, <2>1
<1>9. QED
  BY <1>6, <1>7, <1>8, <1>10 DEF SweepFine, SweepStates

(* As many handles are gone as the sweep has listed gone.                  *)
LEMMA DistinctCount ==
  ASSUME NEW q \in Seq(Nat), Distinct(q)
  PROVE  Cardinality(ToSet(q)) = Len(q)
<1> DEFINE f == [i \in 1 .. Len(q) |-> q[i]]
<1>1. Len(q) \in Nat /\ DOMAIN q = 1 .. Len(q)
  OBVIOUS
<1>2. \A i \in 1 .. Len(q) : q[i] \in ToSet(q)
  BY <1>1 DEF ToSet
<1>3. f \in [1 .. Len(q) -> ToSet(q)] /\ \A i \in 1 .. Len(q) : f[i] = q[i]
  BY <1>2
<1>4. \A y \in ToSet(q) : \E i \in 1 .. Len(q) : f[i] = y
  BY <1>1, <1>3 DEF ToSet
<1>5. \A i, j \in 1 .. Len(q) : f[i] = f[j] => i = j
  BY <1>3 DEF Distinct
<1> HIDE DEF f
<1>6. f \in Bijection(1 .. Len(q), ToSet(q))
  BY <1>3, <1>4, <1>5 DEF Bijection, Injection, Surjection, IsInjective
<1>7. ExistsBijection(1 .. Len(q), ToSet(q))
  BY <1>6 DEF ExistsBijection
<1>8. QED
  BY <1>1, <1>7, FS_CountingElements

LEMMA ShutTight ==
  ASSUME NEW o \in Objects, Inv, object[o].handle # 0,
         object' = [object EXCEPT ![o] = [handle |-> 0, planned |-> FALSE]]
  PROVE  /\ object' \in [Objects -> [handle : Nat, planned : BOOLEAN]]
         /\ \A p \in Objects : object'[p] = IF p = o THEN [handle |-> 0, planned |-> FALSE] ELSE object[p]
         /\ \A h : h # 0 => (Owned(h)' <=> Owned(h) /\ h # object[o].handle)
<1>1. object \in [Objects -> [handle : Nat, planned : BOOLEAN]]
  BY DEF Inv, Shapes
<1>2. /\ object' \in [Objects -> [handle : Nat, planned : BOOLEAN]]
      /\ \A p \in Objects : object'[p] = IF p = o THEN [handle |-> 0, planned |-> FALSE] ELSE object[p]
  BY <1>1
<1>3. ASSUME NEW h, h # 0 PROVE Owned(h)' <=> Owned(h) /\ h # object[o].handle
  <2>1. \A p \in Objects : p # o => object[p].handle # object[o].handle
    BY DEF Inv, ObjectsFine
  <2>2. \A p \in Objects : object'[p].handle = h <=> object[p].handle = h /\ p # o
    BY <1>2, <1>3
  <2>3. QED
    BY <2>1, <2>2 DEF Owned
<1>4. QED
  BY <1>2, <1>3

(* Closing hands the object's handle to the sweep.                         *)
LEMMA CloseKeeps ==
  ASSUME NEW t \in Threads, NEW o \in Objects, Inv, Close(t, o)
  PROVE  Inv'
<1> DEFINE queued == Append(waiting, object[o].handle)
<1>1. PICK h0 : h0 = object[o].handle
  OBVIOUS
<1>2. h0 \in HandleSpan /\ h0 # 0 /\ h0 \in Nat /\ Owned(h0)
  <2>1. object[o].handle # 0
    BY DEF Close
  <2>2. QED
    BY <1>1, <2>1 DEF Inv, ObjectsFine, HandleSpan, Owned
<1>3. PICK q \in Seq(Nat) : q = Append(waiting, h0)
  BY <1>2, PutLast DEF Inv, Shapes
<1>4. \A h : InQueue(q, h) <=> InQueue(waiting, h) \/ h = h0
  BY <1>2, <1>3, PutLast DEF Inv, Shapes
<1>5. \A h : InQueue(waiting, h) => h \in HandleSpan /\ h # 0 /\ ~Owned(h)
  BY DEF Inv, WaitingFine, InQueue, HandleSpan
<1>6. Distinct(q)
  <2>1. waiting \in Seq(Nat) /\ Distinct(waiting) /\ ~InQueue(waiting, h0)
    BY <1>2, <1>5 DEF Inv, Shapes, WaitingFine
  <2>2. QED
    BY <1>2, <1>3, <2>1, PutLast
<1>7. PICK s \in {Sweep(t, q)} : s = Sweep(t, q)
  OBVIOUS
<1>8. /\ s.q \in Seq(Nat) /\ s.gone \in Seq(Nat)
      /\ Distinct(s.q) /\ Distinct(s.gone) /\ \A h : ~(InQueue(s.q, h) /\ InQueue(s.gone, h))
      /\ \A h : InQueue(q, h) <=> InQueue(s.q, h) \/ InQueue(s.gone, h)
  BY <1>6, <1>7, SweepEnds
<1>9. PICK gone : gone = ToSet(s.gone)
  OBVIOUS
<1>10. \A h : h \in gone <=> InQueue(s.gone, h)
  BY <1>8, <1>9 DEF ToSet, InQueue
<1> DEFINE hit == {handles[h].on : h \in {owner[a] : a \in {a \in 1 .. Len(mem) : owner[a] \in gone}}}
<1>11. /\ ~Recorded(h0)
       /\ object' = [object EXCEPT ![o] = [handle |-> 0, planned |-> FALSE]]
       /\ waiting' = s.q
       /\ freed' = freed \cup {a \in 1 .. Len(mem) : owner[a] \in gone}
       /\ graphs' = [g \in 1 .. Len(graphs) |->
              [graphs[g] EXCEPT !.broken = @ \/ (Open(g) /\ graphs[g].on \in hit)]]
       /\ faulted' = (faulted \/ Len(s.gone) # Cardinality(gone) \/ \E a \in freed : owner[a] \in gone)
       /\ UNCHANGED <<handles, mem, owner, capturing, plans, misread>>
  BY <1>1, <1>3, <1>7, <1>9 DEF Close
<1> HIDE DEF hit
<1>12. /\ object' \in [Objects -> [handle : Nat, planned : BOOLEAN]]
       /\ \A p \in Objects : object'[p] = IF p = o THEN [handle |-> 0, planned |-> FALSE] ELSE object[p]
       /\ \A h : h # 0 => (Owned(h)' <=> Owned(h) /\ h # h0)
  BY <1>1, <1>2, <1>11, ShutTight
<1>13. Addresses' = Addresses /\ HandleSpan' = HandleSpan
  BY <1>11 DEF Addresses, HandleSpan
<1>14. /\ graphs' \in Seq(GraphRecords) /\ GraphSpan' = GraphSpan
       /\ \A g \in GraphSpan : graphs'[g].ops = graphs[g].ops /\ graphs'[g].live = graphs[g].live
  <2>1. Len(graphs) \in Nat /\ \A g \in 1 .. Len(graphs) : graphs[g] \in GraphRecords
    BY DEF Inv, Shapes
  <2>2. \A g \in 1 .. Len(graphs) : graphs'[g] \in GraphRecords
                                    /\ graphs'[g].ops = graphs[g].ops /\ graphs'[g].live = graphs[g].live
    BY <1>11, <2>1 DEF GraphRecords
  <2>3. DOMAIN graphs' = 1 .. Len(graphs) /\ graphs' = [g \in 1 .. Len(graphs) |-> graphs'[g]]
    BY <1>11
  <2>4. graphs' \in Seq(GraphRecords) /\ Len(graphs') = Len(graphs)
    BY <2>1, <2>2, <2>3
  <2>5. QED
    BY <2>2, <2>4 DEF GraphSpan
<1>15. \A a \in Addresses : owner[a] \in gone => a \notin freed
  <2>1. \A a \in Addresses : a \in freed => ~Owned(owner[a]) /\ ~InQueue(waiting, owner[a])
    BY DEF Inv, FreedFine
  <2>2. QED
    BY <1>2, <1>4, <1>8, <1>10, <2>1
<1>16. faulted' = FALSE
  <2>1. Len(s.gone) = Cardinality(gone)
    BY <1>8, <1>9, DistinctCount
  <2>2. faulted = FALSE /\ freed \subseteq Addresses
    BY DEF Inv, Shapes
  <2>3. QED
    BY <1>11, <1>15, <2>1, <2>2
<1>17. Shapes'
  <2>1. freed' \subseteq Addresses'
    BY <1>11, <1>13 DEF Inv, Shapes, Addresses
  <2>2. QED
    BY <1>8, <1>11, <1>12, <1>14, <1>16, <2>1 DEF Inv, Shapes
<1>18. ObjectsFine'
  <2>1. /\ \A p \in Objects : object[p].handle \in {0} \cup HandleSpan /\ (object[p].planned => object[p].handle # 0)
        /\ \A p, r \in Objects : p # r /\ object[p].handle # 0 => object[p].handle # object[r].handle
    BY DEF Inv, ObjectsFine
  <2>2. object'[o].handle = 0 /\ object'[o].planned = FALSE /\ \A p \in Objects : p # o => object'[p] = object[p]
    BY <1>12
  <2>3. \A p \in Objects : object'[p].handle \in {0} \cup HandleSpan /\ (object'[p].planned => object'[p].handle # 0)
    BY <2>1, <2>2
  <2>4. \A p, r \in Objects : p # r /\ object'[p].handle # 0 => object'[p].handle # object'[r].handle
    BY <2>1, <2>2
  <2>5. QED
    BY <1>13, <2>3, <2>4 DEF ObjectsFine
<1>19. WaitingFine'
  <2>1. \A h : InQueue(s.q, h) => h \in HandleSpan /\ ~Owned(h)'
    BY <1>2, <1>4, <1>5, <1>8, <1>12
  <2>2. \A i \in 1 .. Len(s.q) : InQueue(s.q, s.q[i])
    BY DEF InQueue
  <2>3. \A i \in 1 .. Len(s.q) : s.q[i] \in HandleSpan' /\ ~Owned(s.q[i])'
    BY <1>13, <2>1, <2>2
  <2>4. QED
    BY <1>8, <1>11, <2>3 DEF WaitingFine, Owned
<1>20. FreedFine'
  <2> SUFFICES ASSUME NEW a \in Addresses
               PROVE  owner[a] \in HandleSpan /\ (a \in freed' <=> ~Owned(owner[a])' /\ ~InQueue(s.q, owner[a]))
    BY <1>11, <1>13 DEF FreedFine, Owned
  <2>1. PICK w : w = owner[a]
    OBVIOUS
  <2>2. w \in HandleSpan /\ w # 0 /\ (a \in freed <=> ~Owned(w) /\ ~InQueue(waiting, w))
    BY <2>1 DEF Inv, FreedFine, HandleSpan
  <2>3. a \in freed' <=> a \in freed \/ w \in gone
    BY <1>11, <2>1 DEF Addresses
  <2>4. Owned(w)' <=> Owned(w) /\ w # h0
    BY <1>12, <2>2
  <2>5. a \in freed' <=> ~Owned(w)' /\ ~InQueue(s.q, w)
    <3>1. InQueue(q, w) <=> InQueue(waiting, w) \/ w = h0
      BY <1>4
    <3>2. InQueue(waiting, w) => ~Owned(w)
      BY <1>5
    <3>3. ~(InQueue(s.q, w) /\ w \in gone) /\ (InQueue(q, w) <=> InQueue(s.q, w) \/ w \in gone)
      BY <1>8, <1>10
    <3>4. w = h0 => Owned(w)
      BY <1>2
    <3>5. QED
      BY <2>2, <2>3, <2>4, <3>1, <3>2, <3>3, <3>4
  <2>6. QED
    BY <1>11, <2>1, <2>2, <2>5 DEF Owned
<1>21. \A h \in HandleSpan' : BuffersFine(h, handles[h])' /\ ListFine(handles[h])'
  <2> TAKE h \in HandleSpan'
  <2>1. BuffersFine(h, handles[h]) /\ ListFine(handles[h])
    BY <1>13 DEF Inv
  <2>2. QED
    BY <1>11, <1>14, <2>1 DEF BuffersFine, BuffersIn, BufferIn, ListFine
<1>22. \A g \in GraphSpan' : GraphFine(graphs[g])'
  <2> TAKE g \in GraphSpan'
  <2>1. PICK ops, live : ops = graphs[g].ops /\ live = graphs[g].live /\ ops = graphs'[g].ops /\ live = graphs'[g].live
    BY <1>14
  <2>2. \A i \in 1 .. Len(ops) : KernelFine(live, ops, i)
    BY <1>14, <2>1 DEF Inv, GraphFine
  <2>3. ASSUME NEW i \in 1 .. Len(ops) PROVE KernelFine(live, ops, i)'
    <3>1. PICK w : w = owner[ops[i].at]
      OBVIOUS
    <3>2. KernelFine(live, ops, i)
      BY <2>2
    <3>3. ASSUME live PROVE Owned(w)'
      <4>1. Owned(w) /\ w \in HandleSpan /\ w # 0
        BY <3>1, <3>2, <3>3 DEF KernelFine, Inv, FreedFine, HandleSpan
      <4>2. w # h0
        <5>1. g \in 1 .. Len(graphs)
          BY <1>14 DEF GraphSpan
        <5>2. graphs[g].live /\ i \in 1 .. Len(graphs[g].ops) /\ owner[graphs[g].ops[i].at] = w
          BY <2>1, <3>1, <3>3
        <5>3. Recorded(w)
          BY <5>1, <5>2 DEF Recorded
        <5>4. QED
          BY <1>11, <5>3
      <4>3. QED
        BY <1>12, <4>1, <4>2
    <3>4. owner' = owner /\ handles' = handles
      BY <1>11
    <3>5. live => Owned(owner[ops[i].at])'
      BY <3>1, <3>3, <3>4 DEF Owned
    <3>6. QED
      BY <1>13, <3>2, <3>4, <3>5 DEF KernelFine, NotHost
  <2>4. QED
    BY <2>1, <2>3 DEF GraphFine
<1>23. QED
  BY <1>17, <1>18, <1>19, <1>20, <1>21, <1>22 DEF Inv

LEMMA PlanKeeps ==
  ASSUME Inv, NEW t \in Threads, NEW o \in Objects, NEW d \in Devices, NEW hostCu \in BOOLEAN,
         NEW size \in Sizes, NEW fail \in Failures, Plan(t, o, d, hostCu, size, fail)
  PROVE  Inv'
BY PlanDoes, PlanStepKeeps

LEMMA NextKeeps == Inv /\ [Next]_vars => Inv'
<1> SUFFICES ASSUME Inv, [Next]_vars PROVE Inv'
  OBVIOUS
<1>1. ASSUME NEW t \in Threads, NEW o \in Objects, NEW d \in Devices, NEW hostCu \in BOOLEAN,
             NEW size \in Sizes, NEW fail \in Failures, Plan(t, o, d, hostCu, size, fail)
      PROVE  Inv'
  BY <1>1, PlanKeeps
<1>2. ASSUME NEW t \in Threads, NEW o \in Objects, Run(t, o) PROVE Inv'
  BY <1>2, RunKeeps
<1>3. ASSUME NEW t \in Threads, NEW d \in Devices, BeginCapture(t, d) PROVE Inv'
  BY <1>3, BeginKeeps
<1>4. ASSUME NEW t \in Threads, NEW d \in Devices, EndCapture(t, d) PROVE Inv'
  BY <1>4, EndKeeps
<1>5. ASSUME NEW g \in 1 .. Len(graphs), Replay(g) PROVE Inv'
  BY <1>5, ReplayKeeps DEF GraphSpan
<1>6. ASSUME NEW g \in 1 .. Len(graphs), DropGraph(g) PROVE Inv'
  BY <1>6, DropKeeps DEF GraphSpan
<1>7. ASSUME NEW t \in Threads, NEW o \in Objects, Close(t, o) PROVE Inv'
  BY <1>7, CloseKeeps
<1>8. CASE UNCHANGED vars
  BY <1>8 DEF vars, Inv, Shapes, ObjectsFine, WaitingFine, FreedFine, Addresses, HandleSpan, GraphSpan, Owned,
    BuffersFine, BuffersIn, BufferIn, ListFine, GraphFine, KernelFine, NotHost
<1>9. QED
  BY <1>1, <1>2, <1>3, <1>4, <1>5, <1>6, <1>7, <1>8 DEF Next

-----------------------------------------------------------------------------
(* The invariant the properties follow from holds in every state.          *)
THEOREM InvHolds == Spec => []Inv
<1>1. Init => Inv
  BY InitFine
<1>2. Inv /\ [Next]_vars => Inv'
  BY NextKeeps
<1>3. QED
  BY <1>1, <1>2, PTL DEF Spec

(* Host-mode and replayed runs read the list of the plan they are of: for  *)
(* ListOf gives each mode its own buffer, and run() checks the capture.    *)
THEOREM OwnListReadHolds == Spec => []OwnListRead
<1>1. Inv => OwnListRead
  BY DEF Inv, Shapes, OwnListRead
<1>2. QED
  BY <1>1, InvHolds, PTL

(* No kernel, eager or replayed, uses what close or grow has freed, and    *)
(* the sweep of closed_handles frees nothing twice.                        *)
THEOREM NoFreedUseHolds == Spec => []NoFreedUse
<1>1. Inv => NoFreedUse
  BY DEF Inv, Shapes, NoFreedUse
<1>2. QED
  BY <1>1, InvHolds, PTL

(* A captured run has its own plan's list_varlen before it in the graph.   *)
THEOREM GraphListsItsRunsHolds == Spec => []GraphListsItsRuns
<1>1. Inv => GraphListsItsRuns
  <2> SUFFICES ASSUME Inv, NEW g \in 1 .. Len(graphs), NEW i \in 1 .. Len(graphs[g].ops),
                      graphs[g].ops[i].op = "run"
               PROVE  \E j \in 1 .. i - 1 : graphs[g].ops[j] = [graphs[g].ops[i] EXCEPT !.op = "list"]
    BY DEF GraphListsItsRuns
  <2>1. graphs[g] \in GraphRecords
    BY DEF Inv, Shapes
  <2>2. PICK ops \in Seq(Kernels) : ops = graphs[g].ops
    BY <2>1 DEF GraphRecords
  <2>3. PICK k \in Kernels : k = ops[i]
    BY <2>2
  <2>4. LastListed(ops, i - 1, k.at, k.plan)
    BY <2>2, <2>3 DEF Inv, GraphSpan, GraphFine, KernelFine
  <2>5. [k EXCEPT !.op = "list"] = [op |-> "list", at |-> k.at, plan |-> k.plan]
    BY DEF Kernels
  <2>6. QED
    BY <2>2, <2>3, <2>4, <2>5 DEF LastListed
<1>2. QED
  BY <1>1, InvHolds, PTL

(* A closed handle waits in closed_handles once until it is destroyed, and *)
(* its buffers are freed just then: none is lost, none destroyed twice.    *)
THEOREM HandleAccountedHolds == Spec => []HandleAccounted
<1>1. Inv => HandleAccounted
  <2> SUFFICES ASSUME Inv, NEW h \in HandleSpan
               PROVE  /\ Cardinality(Waits(h)) = IF Owned(h) \/ Waits(h) = {} THEN 0 ELSE 1
                      /\ (\E a \in Addresses : owner[a] = h) /\ ~Owned(h) =>
                           (Waits(h) = {} <=> \A a \in Addresses : owner[a] = h => a \in freed)
    BY DEF HandleAccounted, HandleSpan, Addresses
  <2>1. Waits(h) # {} <=> InQueue(waiting, h)
    BY DEF Waits, InQueue
  <2>2. Owned(h) => ~InQueue(waiting, h)
    BY DEF Inv, WaitingFine, InQueue
  <2>3. ASSUME NEW i \in Waits(h) PROVE Cardinality(Waits(h)) = 1
    <3>1. \A j \in Waits(h) : j = i
      BY DEF Waits, Inv, WaitingFine, Distinct
    <3>2. Waits(h) = {i}
      BY <3>1
    <3>3. QED
      BY <3>2, FS_Singleton
  <2>4. Cardinality({}) = 0
    BY FS_EmptySet
  <2>5. \A a \in Addresses : a \in freed <=> ~Owned(owner[a]) /\ ~InQueue(waiting, owner[a])
    BY DEF Inv, FreedFine
  <2>6. QED
    BY <2>1, <2>2, <2>3, <2>4, <2>5
<1>2. QED
  BY <1>1, InvHolds, PTL

(* The loop of destroy_when_safe leaves no handle whose device has stopped *)
(* capturing, the one it moves into a hole looked at like the others.      *)
THEOREM CloseSweepsAllHolds == Spec => CloseSweepsAll
<1>1. Inv /\ [Next]_vars => [\A t \in Threads, o \in Objects : Close(t, o) =>
        \A i \in 1 .. Len(waiting') : capturing[t][handles[waiting'[i]].on] # 0]_vars
  <2> SUFFICES ASSUME Inv, NEW t \in Threads, NEW o \in Objects, Close(t, o)
               PROVE  \A i \in 1 .. Len(waiting') : capturing[t][handles[waiting'[i]].on] # 0
    OBVIOUS
  <2>1. PICK h0 : h0 = object[o].handle
    OBVIOUS
  <2>2. h0 \in Nat /\ ~InQueue(waiting, h0)
    <3>1. object[o].handle # 0
      BY DEF Close
    <3>2. h0 \in HandleSpan /\ Owned(h0)
      BY <2>1, <3>1 DEF Inv, ObjectsFine, HandleSpan, Owned
    <3>3. QED
      BY <3>2 DEF HandleSpan, Inv, WaitingFine, InQueue
  <2>3. PICK q \in Seq(Nat) : q = Append(waiting, h0)
    BY <2>2, PutLast DEF Inv, Shapes
  <2>4. Distinct(q)
    <3>1. waiting \in Seq(Nat) /\ Distinct(waiting)
      BY DEF Inv, Shapes, WaitingFine
    <3>2. QED
      BY <2>2, <2>3, <3>1, PutLast
  <2>5. PICK s \in {Sweep(t, q)} : s = Sweep(t, q)
    OBVIOUS
  <2>6. \A j \in 1 .. Len(s.q) : capturing[t][handles[s.q[j]].on] # 0
    BY <2>4, <2>5, SweepEnds
  <2>7. waiting' = s.q
    BY <2>1, <2>3, <2>5 DEF Close
  <2>8. QED
    BY <2>6, <2>7
<1>2. QED
  BY <1>1, InvHolds, PTL DEF Spec, CloseSweepsAll

=============================================================================
