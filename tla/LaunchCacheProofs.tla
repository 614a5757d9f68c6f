-------------------------- MODULE LaunchCacheProofs --------------------------
(***************************************************************************)
(* Safety of the launch cache for any streams, problems, sizes, slots and  *)
(* pinned buffers, and any number of calls.                                *)
(*                                                                         *)
(* The argument: every device address has one owner for ever: a slot of one*)
(* stream's state, its workspace, or the graphs.  Only stream s's queue    *)
(* copies to s's lists, so what a kernel will find there is the last copy  *)
(* before it (HoldsAfter), and no later call changes it.  A pinned buffer  *)
(* is written only when no queued copy names it.  A workspace is named by  *)
(* the queue of one stream at a time.                                      *)
(***************************************************************************)
EXTENDS LaunchCache, SequenceTheorems, WellFoundedInduction, TLAPS

ListOwner(s, i) == <<"list", s, i>>
WsOwner(s) == <<"ws", s, 0>>
GraphOwner == <<"graph", "graph", 0>>

Addresses(m) == 1 .. Len(m)
Contents == Plans \cup {NoPlan} \cup (Int \X Int)
Buffers == [ptr : Nat, bytes : Nat]
SlotRecords == [key : Problems \cup {None}, plan : Plans \cup {NoPlan}, list : Buffers]
CopyOps == [op : {"copy"}, from : Nat, to : Nat, plan : Plans]
KernelOps == [op : {"fwd", "merge"}, list : Nat, ws : Nat, plan : Plans, problem : Problems,
              call : Int, replay : Int]
Ops == CopyOps \cup KernelOps

Shapes ==
  /\ staged \in [Streams -> [Slots -> SlotRecords]]
  /\ next \in [Streams -> Slots]
  /\ ws \in [Streams -> Buffers]
  /\ pool \in Seq(Nat) /\ \A i \in 1 .. Len(pool) : pool[i] \in 1 .. Len(host)
  /\ host \in Seq(Plans \cup {NoPlan})
  /\ graphLists \in [Plans -> Nat]
  /\ queue \in [Streams -> Seq(Ops)] /\ graph \in [Streams -> Seq(KernelOps)]
  /\ capture \in [Streams -> {"none", "open", "done"}]
  /\ mem \in Seq(Contents) /\ calls \in Nat

(* Address a holds x once the first n of q have run on memory m.           *)
CopyTo(k, a) == k.op = "copy" /\ k.to = a
HoldsAfter(q, m, n, a, x) ==
  /\ \A j \in 1 .. n : CopyTo(q[j], a) => q[j].plan = x \/ \E k \in j + 1 .. n : CopyTo(q[k], a)
  /\ (\A j \in 1 .. n : ~CopyTo(q[j], a)) => m[a] = x

(* A slot's list is its own; a keyed slot's holds its plan at the end of q.*)
SlotFine(own, s, i, slot, q, m) ==
  /\ slot.list.ptr # 0 => slot.list.ptr \in Addresses(m) /\ own[slot.list.ptr] = ListOwner(s, i)
  /\ slot.key # None => /\ slot.plan = PlanOf(slot.key) /\ slot.list.ptr # 0
                        /\ HoldsAfter(q, m, Len(q), slot.list.ptr, slot.plan)

WsFine(own, s, w, m) == w.ptr # 0 => w.ptr \in Addresses(m) /\ own[w.ptr] = WsOwner(s)

CopyFine(own, s, k, h, m) ==
  /\ k.to \in Addresses(m) /\ \E i \in Slots : own[k.to] = ListOwner(s, i)
  /\ k.from \in 1 .. Len(h) /\ h[k.from] = k.plan

(* A kernel's list is a graph's, which is never written, or its stream's.  *)
ListFine(own, s, q, m, i) ==
  /\ q[i].list \in Addresses(m) /\ q[i].plan.problem = q[i].problem
  /\ \/ own[q[i].list] = GraphOwner /\ m[q[i].list] = q[i].plan
     \/ /\ \E j \in Slots : own[q[i].list] = ListOwner(s, j)
        /\ HoldsAfter(q, m, i - 1, q[i].list, q[i].plan)

(* Its workspace is its stream's, or of a graph that may replay.           *)
KernelWs(own, s, k, m, cap) ==
  k.ws # 0 => /\ k.ws \in Addresses(m)
              /\ \E t \in Streams : own[k.ws] = WsOwner(t) /\ (t # s => cap[t] = "done")

(* A merge follows its own CTAs.                                           *)
AfterItsFwd(q, i) == i > 1 /\ q[i - 1] = [q[i] EXCEPT !.op = "fwd"]
MergeFine(q, m, i) ==
  q[i].op = "merge" =>
    q[i].ws # 0 /\ (AfterItsFwd(q, i) \/ (i = 1 /\ m[q[i].ws] = Partials(q[i])))

QueueFine(own, s, q, h, m, cap) ==
  \A i \in 1 .. Len(q) :
    /\ q[i].op = "copy" => CopyFine(own, s, q[i], h, m)
    /\ q[i].op # "copy" => ListFine(own, s, q, m, i) /\ KernelWs(own, s, q[i], m, cap) /\ MergeFine(q, m, i)

GraphFine(own, s, g, m) ==
  \A i \in 1 .. Len(g) :
    /\ g[i].list \in Addresses(m) /\ own[g[i].list] = GraphOwner /\ m[g[i].list] = g[i].plan
    /\ g[i].plan.problem = g[i].problem
    /\ g[i].ws # 0 => g[i].ws \in Addresses(m) /\ own[g[i].ws] = WsOwner(s)
    /\ g[i].op = "merge" => g[i].ws # 0 /\ AfterItsFwd(g, i)

GraphListFine(own, a, plan, m) ==
  a # 0 => a \in Addresses(m) /\ own[a] = GraphOwner /\ m[a] = plan

WsApart(q, r) ==
  \A i \in 1 .. Len(q), j \in 1 .. Len(r) :
    q[i].op # "copy" /\ r[j].op # "copy" /\ q[i].ws # 0 => q[i].ws # r[j].ws

Owned(own) ==
  /\ \A s \in Streams : \A i \in Slots : SlotFine(own, s, i, staged[s][i], queue[s], mem)
  /\ \A s \in Streams : WsFine(own, s, ws[s], mem)
  /\ \A s \in Streams : QueueFine(own, s, queue[s], host, mem, capture)
  /\ \A s \in Streams : GraphFine(own, s, graph[s], mem)
  /\ \A p \in Plans : GraphListFine(own, graphLists[p], p, mem)
  /\ \A s, t \in Streams : s # t => WsApart(queue[s], queue[t])

Inv == Shapes /\ \E own : Owned(own)

-----------------------------------------------------------------------------
LEMMA KeyIsStream ==
  ASSUME NEW s \in Streams
  PROVE  StateKey(s) = s
  BY DEF StateKey, Handle

LEMMA PlanFacts ==
  ASSUME NEW p \in Problems
  PROVE  /\ PlanOf(p) \in Plans /\ Unsplit(p) \in Plans
         /\ PlanOf(p).problem = p /\ Unsplit(p).problem = p
         /\ PlanOf(p).slots = WsSize[p] /\ Unsplit(p).slots = 0
         /\ WsSize[p] \in Nat /\ ListSize[p] \in Nat \ {0} /\ p # None
  BY CacheAssumption DEF Plans, PlanOf, Unsplit, None

LEMMA PlansShape ==
  ASSUME NEW x \in Plans
  PROVE  /\ x.problem \in Problems /\ x.slots \in Nat
         /\ ListSize[x.problem] \in Nat \ {0}
  BY PlanFacts DEF Plans

LEMMA SlotsShape == 0 \in Slots /\ \A i \in Slots : (i + 1) % StagingSlots \in Slots
<1>1. StagingSlots \in Nat \ {0}
  BY CacheAssumption
<1>2. \A x \in Int : x % StagingSlots \in 0 .. StagingSlots - 1
  BY <1>1, SMT
<1>3. QED
  BY <1>1, <1>2 DEF Slots

(* What is queued later does not change what an earlier place will find.   *)
LEMMA HoldsPrefix ==
  ASSUME NEW q \in Seq(Ops), NEW r \in Seq(Ops), NEW m, NEW n \in 0 .. Len(q), NEW a, NEW x
  PROVE  HoldsAfter(q \o r, m, n, a, x) <=> HoldsAfter(q, m, n, a, x)
<1>1. \A j \in 1 .. n : (q \o r)[j] = q[j]
  OBVIOUS
<1>2. n \in Nat
  OBVIOUS
<1>3. QED
  BY <1>1, <1>2 DEF HoldsAfter

(* Nor does what does not copy there.                                      *)
LEMMA HoldsPast ==
  ASSUME NEW q \in Seq(Ops), NEW r \in Seq(Ops), NEW m, NEW a, NEW x,
         \A j \in 1 .. Len(r) : ~CopyTo(r[j], a), HoldsAfter(q, m, Len(q), a, x),
         NEW n \in 0 .. Len(r)
  PROVE  HoldsAfter(q \o r, m, Len(q) + n, a, x)
<1>1. Len(q) \in Nat /\ Len(r) \in Nat /\ n \in Nat
  OBVIOUS
<1>2. \A j \in 1 .. Len(q) : (q \o r)[j] = q[j]
  OBVIOUS
<1>3. \A j \in Len(q) + 1 .. Len(q) + n : ~CopyTo((q \o r)[j], a)
  <2> TAKE j \in Len(q) + 1 .. Len(q) + n
  <2>1. (q \o r)[j] = r[j - Len(q)] /\ j - Len(q) \in 1 .. Len(r)
    BY <1>1
  <2>2. QED
    BY <2>1
<1>4. ASSUME NEW j \in 1 .. Len(q) + n, CopyTo((q \o r)[j], a)
      PROVE  (q \o r)[j].plan = x \/ \E k \in j + 1 .. Len(q) + n : CopyTo((q \o r)[k], a)
  <2>1. j \in 1 .. Len(q) /\ (q \o r)[j] = q[j]
    BY <1>1, <1>2, <1>3, <1>4
  <2>2. CASE q[j].plan = x
    BY <2>1, <2>2
  <2>3. CASE \E k \in j + 1 .. Len(q) : CopyTo(q[k], a)
    <3>1. PICK k \in j + 1 .. Len(q) : CopyTo(q[k], a)
      BY <2>3
    <3>2. k \in j + 1 .. Len(q) + n /\ k \in 1 .. Len(q)
      BY <1>1, <2>1, <3>1
    <3>3. QED
      BY <1>2, <3>1, <3>2
  <2>4. QED
    BY <1>4, <2>1, <2>2, <2>3 DEF HoldsAfter
<1>5. ASSUME \A j \in 1 .. Len(q) + n : ~CopyTo((q \o r)[j], a) PROVE m[a] = x
  <2>1. \A j \in 1 .. Len(q) : ~CopyTo(q[j], a)
    <3> TAKE j \in 1 .. Len(q)
    <3>1. j \in 1 .. Len(q) + n
      BY <1>1
    <3>2. QED
      BY <1>2, <1>5, <3>1
  <2>2. QED
    BY <2>1 DEF HoldsAfter
<1>6. QED
  BY <1>4, <1>5 DEF HoldsAfter

(* A copy leaves its plan.                                                 *)
LEMMA HoldsCopied ==
  ASSUME NEW q \in Seq(Ops), NEW k \in CopyOps, NEW m
  PROVE  HoldsAfter(Append(q, k), m, Len(Append(q, k)), k.to, k.plan)
<1>1. Len(Append(q, k)) = Len(q) + 1 /\ Append(q, k)[Len(q) + 1] = k /\ Len(q) \in Nat
  OBVIOUS
<1>2. CopyTo(k, k.to)
  BY DEF CopyTo, CopyOps
<1>3. Len(q) + 1 \in 1 .. Len(q) + 1 /\ \A j \in 1 .. Len(q) : Len(q) + 1 \in j + 1 .. Len(q) + 1
  BY <1>1
<1>4. \A j \in 1 .. Len(q) + 1 : j = Len(q) + 1 \/ j \in 1 .. Len(q)
  BY <1>1
<1>5. QED
  BY <1>1, <1>2, <1>3, <1>4 DEF HoldsAfter

LEMMA HoldsMemory ==
  ASSUME NEW q, NEW m, NEW l, NEW n, NEW a, NEW x, HoldsAfter(q, m, n, a, x), l[a] = m[a]
  PROVE  HoldsAfter(q, l, n, a, x)
  BY DEF HoldsAfter

(* The queue's head has run.                                               *)
LEMMA HoldsTail ==
  ASSUME NEW q \in Seq(Ops), q # <<>>, NEW m, NEW l, NEW n \in 1 .. Len(q), NEW a, NEW x,
         HoldsAfter(q, m, n, a, x),
         l[a] = IF CopyTo(Head(q), a) THEN Head(q).plan ELSE m[a]
  PROVE  HoldsAfter(Tail(q), l, n - 1, a, x)
<1>1. Len(q) \in Nat /\ n \in Nat /\ Head(q) = q[1] /\ \A j \in 1 .. n - 1 : Tail(q)[j] = q[j + 1]
  OBVIOUS
<1>2. ASSUME NEW j \in 1 .. n - 1, CopyTo(Tail(q)[j], a)
      PROVE  Tail(q)[j].plan = x \/ \E k \in j + 1 .. n - 1 : CopyTo(Tail(q)[k], a)
  <2>1. j + 1 \in 1 .. n /\ CopyTo(q[j + 1], a) /\ Tail(q)[j] = q[j + 1]
    BY <1>1, <1>2
  <2>2. CASE \E k \in j + 1 + 1 .. n : CopyTo(q[k], a)
    <3>1. PICK k \in j + 1 + 1 .. n : CopyTo(q[k], a)
      BY <2>2
    <3>2. k - 1 \in j + 1 .. n - 1 /\ k - 1 \in 1 .. n - 1 /\ (k - 1) + 1 = k
      BY <1>1, <3>1
    <3>3. QED
      BY <1>1, <3>1, <3>2
  <2>3. QED
    BY <2>1, <2>2 DEF HoldsAfter
<1>3. ASSUME \A j \in 1 .. n - 1 : ~CopyTo(Tail(q)[j], a) PROVE l[a] = x
  <2>1. \A j \in 2 .. n : ~CopyTo(q[j], a)
    <3> TAKE j \in 2 .. n
    <3>1. j - 1 \in 1 .. n - 1 /\ (j - 1) + 1 = j
      BY <1>1
    <3>2. QED
      BY <1>1, <1>3, <3>1
  <2>2. 1 \in 1 .. n /\ \A j \in 1 .. n : j = 1 \/ j \in 2 .. n
    BY <1>1
  <2>3. QED
    BY <1>1, <2>1, <2>2 DEF HoldsAfter
<1>4. QED
  BY <1>2, <1>3 DEF HoldsAfter

-----------------------------------------------------------------------------
(* Memory and its owners only grow while a call is made.                   *)
Extends(own, m, own2, m2) ==
  /\ Len(m) <= Len(m2)
  /\ \A a \in Addresses(m) : own2[a] = own[a] /\ m2[a] = m[a]

Lists == Plans \cup {NoPlan}
CallRecords ==
  [slots : [Slots -> SlotRecords], next : Slots, ws : Buffers, pool : Seq(Nat),
   host : Seq(Lists), mem : Seq(Contents), ops : Seq(CopyOps), at : Slots, ok : BOOLEAN,
   waits : BOOLEAN]

HostKeeps(q, h) ==
  \A i \in 1 .. Len(q) : q[i].op = "copy" => q[i].from \in 1 .. Len(h) /\ h[q[i].from] = q[i].plan

(* A call of stream s so far: what Owned asks, of the state it changes.    *)
CallFine(own, own2, s, c) ==
  /\ c \in CallRecords
  /\ \A i \in 1 .. Len(c.pool) : c.pool[i] \in 1 .. Len(c.host)
  /\ Extends(own, mem, own2, c.mem)
  /\ \A i \in Slots : SlotFine(own2, s, i, c.slots[i], queue[s] \o c.ops, c.mem)
  /\ WsFine(own2, s, c.ws, c.mem)
  /\ c.ws.ptr \in {0, ws[s].ptr} \/ c.ws.ptr > Len(mem)
  /\ \A t \in Streams : HostKeeps(queue[t], c.host)
  /\ HostKeeps(c.ops, c.host)
  /\ \A i \in 1 .. Len(c.ops) : /\ c.ops[i].to \in Addresses(c.mem)
                                /\ \E j \in Slots : own2[c.ops[i].to] = ListOwner(s, j)

(* The slot the call uses will hold its plan.                              *)
AtFine(s, c, plan) ==
  /\ c.slots[c.at].plan = plan /\ c.slots[c.at].list.ptr # 0
  /\ HoldsAfter(queue[s] \o c.ops, c.mem, Len(queue[s] \o c.ops), c.slots[c.at].list.ptr, plan)

LEMMA ExtendsTwice ==
  ASSUME NEW m \in Seq(Contents), NEW m2 \in Seq(Contents), NEW m3 \in Seq(Contents),
         NEW own, NEW own2, NEW own3, Extends(own, m, own2, m2), Extends(own2, m2, own3, m3)
  PROVE  Extends(own, m, own3, m3)
<1>1. Len(m) \in Nat /\ Len(m2) \in Nat /\ Len(m3) \in Nat
  OBVIOUS
<1>2. Addresses(m) \subseteq Addresses(m2) /\ Len(m) <= Len(m3)
  BY <1>1 DEF Extends, Addresses
<1>3. QED
  BY <1>2 DEF Extends

LEMMA ExtendsAddresses ==
  ASSUME NEW m \in Seq(Contents), NEW m2 \in Seq(Contents), NEW own, NEW own2,
         Extends(own, m, own2, m2)
  PROVE  Addresses(m) \subseteq Addresses(m2)
<1>1. Len(m) \in Nat /\ Len(m2) \in Nat
  OBVIOUS
<1>2. QED
  BY <1>1 DEF Extends, Addresses

LEMMA SlotExtends ==
  ASSUME NEW m \in Seq(Contents), NEW m2 \in Seq(Contents), NEW own, NEW own2,
         Extends(own, m, own2, m2), NEW s, NEW i, NEW slot, NEW q, SlotFine(own, s, i, slot, q, m)
  PROVE  SlotFine(own2, s, i, slot, q, m2)
<1>1. slot.list.ptr # 0 => slot.list.ptr \in Addresses(m2) /\ own2[slot.list.ptr] = ListOwner(s, i)
                           /\ m2[slot.list.ptr] = m[slot.list.ptr]
  BY ExtendsAddresses DEF SlotFine, Extends
<1>2. QED
  BY <1>1, HoldsMemory DEF SlotFine

(* A grown buffer is the old one, none, or new memory.                     *)
BufferFine(own, b, o, m) == b.ptr # 0 => b.ptr \in Addresses(m) /\ own[b.ptr] = o

GrowsFine(own, m, buf, o, g) ==
  /\ g.mem \in Seq(Contents) /\ g.buf \in Buffers
  /\ g.buf.ptr \in {0, buf.ptr} \/ g.buf.ptr > Len(m)
  /\ \E own2 : Extends(own, m, own2, g.mem) /\ BufferFine(own2, g.buf, o, g.mem)

LEMMA GrownFine ==
  ASSUME NEW m \in Seq(Contents), NEW own, NEW buf \in Buffers, NEW bytes \in Nat, NEW oom \in BOOLEAN,
         NEW o, BufferFine(own, buf, o, m)
  PROVE  GrowsFine(own, m, buf, o, Grown(buf, bytes, m, oom))
<1> DEFINE g == Grown(buf, bytes, m, oom)
           n == IF 2 * buf.bytes > bytes THEN 2 * buf.bytes ELSE bytes
           new == [ptr |-> Len(m) + 1, bytes |-> n]
           own2 == [a \in Addresses(g.mem) |-> IF a = Len(m) + 1 THEN o ELSE own[a]]
<1>1. Len(m) \in Nat /\ NoPlan \in Contents /\ NoBuffer \in Buffers /\ NoBuffer.ptr = 0
  BY DEF Contents, NoBuffer, Buffers
<1>2. CASE bytes <= buf.bytes
  <2>1. g = [buf |-> buf, mem |-> m]
    BY <1>2 DEF Grown
  <2>2. Extends(own, m, own, m)
    BY <1>1 DEF Extends
  <2>3. QED
    BY <2>1, <2>2 DEF GrowsFine
<1>3. CASE ~(bytes <= buf.bytes) /\ oom
  <2>1. g = [buf |-> NoBuffer, mem |-> m]
    BY <1>3 DEF Grown
  <2>2. Extends(own, m, own, m)
    BY <1>1 DEF Extends
  <2>3. QED
    BY <1>1, <2>1, <2>2 DEF GrowsFine, BufferFine
<1>4. CASE ~(bytes <= buf.bytes) /\ ~oom
  <2>1. g = [buf |-> new, mem |-> Append(m, NoPlan)]
    BY <1>4 DEF Grown
  <2>2. g.mem = Append(m, NoPlan) /\ g.buf = new /\ g.buf.ptr = Len(m) + 1
    BY <2>1
  <2>3. new \in Buffers
    BY <1>1 DEF Buffers
  <2>4. /\ g.mem \in Seq(Contents) /\ Len(g.mem) = Len(m) + 1
        /\ \A a \in Addresses(m) : g.mem[a] = m[a] /\ a # Len(m) + 1 /\ a \in Addresses(g.mem)
        /\ Len(m) + 1 \in Addresses(g.mem)
    BY <1>1, <2>2 DEF Addresses
  <2>5. Extends(own, m, own2, g.mem) /\ own2[g.buf.ptr] = o
    <3>1. \A a \in Addresses(m) : own2[a] = own[a]
      BY <2>4
    <3>2. own2[Len(m) + 1] = o
      BY <2>4
    <3>3. Len(m) <= Len(g.mem)
      BY <1>1, <2>4
    <3>4. QED
      BY <2>2, <2>4, <3>1, <3>2, <3>3 DEF Extends
  <2>6. QED
    BY <1>1, <2>2, <2>3, <2>4, <2>5 DEF GrowsFine, BufferFine
<1>5. QED
  BY <1>2, <1>3, <1>4

(* A slot cleared, a workspace or memory grown.                            *)
LEMMA CallGrows ==
  ASSUME NEW s \in Streams, NEW own, NEW own2, NEW own3, NEW c, NEW d \in CallRecords,
         mem \in Seq(Contents), CallFine(own, own2, s, c), Extends(own2, c.mem, own3, d.mem),
         d.pool = c.pool, d.host = c.host, d.ops = c.ops,
         \A j \in Slots :
           \/ d.slots[j] = c.slots[j]
           \/ /\ d.slots[j].key = None
              /\ d.slots[j].list.ptr # 0 => /\ d.slots[j].list.ptr \in Addresses(d.mem)
                                            /\ own3[d.slots[j].list.ptr] = ListOwner(s, j),
         WsFine(own3, s, d.ws, d.mem), d.ws.ptr \in {0, ws[s].ptr} \/ d.ws.ptr > Len(mem)
  PROVE  CallFine(own, own3, s, d)
<1>1. c.mem \in Seq(Contents) /\ d.mem \in Seq(Contents)
  BY DEF CallFine, CallRecords
<1>2. Extends(own, mem, own3, d.mem)
  BY <1>1, ExtendsTwice DEF CallFine
<1>3. \A j \in Slots : SlotFine(own3, s, j, d.slots[j], queue[s] \o d.ops, d.mem)
  <2> TAKE j \in Slots
  <2>1. CASE d.slots[j] = c.slots[j]
    <3>1. SlotFine(own2, s, j, d.slots[j], queue[s] \o d.ops, c.mem)
      BY <2>1 DEF CallFine
    <3>2. QED
      BY <1>1, <3>1, SlotExtends
  <2>2. CASE d.slots[j] # c.slots[j]
    BY <2>2 DEF SlotFine
  <2>3. QED
    BY <2>1, <2>2
<1>4. \A i \in 1 .. Len(d.ops) : /\ d.ops[i].to \in Addresses(d.mem)
                                 /\ \E j \in Slots : own3[d.ops[i].to] = ListOwner(s, j)
  <2> TAKE i \in 1 .. Len(d.ops)
  <2>1. d.ops[i].to \in Addresses(c.mem) /\ \E j \in Slots : own2[d.ops[i].to] = ListOwner(s, j)
    BY DEF CallFine
  <2>2. d.ops[i].to \in Addresses(d.mem) /\ own3[d.ops[i].to] = own2[d.ops[i].to]
    <3>1. d.ops[i].to \in Addresses(d.mem)
      BY <1>1, <2>1, ExtendsAddresses
    <3>2. own3[d.ops[i].to] = own2[d.ops[i].to]
      BY <2>1 DEF Extends
    <3>3. QED
      BY <3>1, <3>2
  <2>3. QED
    BY <2>1, <2>2
<1>5. QED
  BY <1>2, <1>3, <1>4 DEF CallFine

(* The oldest pinned buffer may be written once no copy from it is queued. *)
LEMMA HostMayChange ==
  ASSUME NEW q \in Seq(Ops), NEW h \in Seq(Lists), HostKeeps(q, h), NEW p \in 1 .. Len(h),
         ~CopiesFrom(q, p), NEW content
  PROVE  HostKeeps(q, [h EXCEPT ![p] = content])
<1>1. Len([h EXCEPT ![p] = content]) = Len(h)
  OBVIOUS
<1>2. \A i \in 1 .. Len(q) : q[i].op = "copy" => q[i].from # p
  BY DEF CopiesFrom
<1>3. \A i \in 1 .. Len(h) : i # p => [h EXCEPT ![p] = content][i] = h[i]
  OBVIOUS
<1>4. QED
  BY <1>1, <1>2, <1>3 DEF HostKeeps

LEMMA HostMayGrow ==
  ASSUME NEW q \in Seq(Ops), NEW h \in Seq(Lists), HostKeeps(q, h), NEW content
  PROVE  HostKeeps(q, Append(h, content))
<1>1. Len(Append(h, content)) = Len(h) + 1 /\ Len(h) \in Nat
  OBVIOUS
<1>2. \A i \in 1 .. Len(h) : Append(h, content)[i] = h[i] /\ i \in 1 .. Len(h) + 1
  BY <1>1
<1>3. QED
  BY <1>1, <1>2 DEF HostKeeps

LEMMA CopiesAreOps == Seq(CopyOps) \subseteq Seq(Ops)
  BY DEF Ops

LEMMA PoolTurned ==
  ASSUME NEW P \in Seq(Nat), P # <<>>, NEW n, \A i \in 1 .. Len(P) : P[i] \in 1 .. n
  PROVE  LET Q == Append(Tail(P), Head(P)) IN
         /\ Q \in Seq(Nat) /\ Len(Q) = Len(P) /\ Q[Len(Q)] = Head(P) /\ Head(P) = P[1]
         /\ Len(P) \in Nat \ {0} /\ \A i \in 1 .. Len(Q) : Q[i] \in 1 .. n
<1> DEFINE Q == Append(Tail(P), Head(P))
<1>1. /\ Len(P) \in Nat \ {0} /\ Head(P) = P[1] /\ Tail(P) \in Seq(Nat) /\ Len(Tail(P)) = Len(P) - 1
      /\ \A i \in 1 .. Len(P) - 1 : Tail(P)[i] = P[i + 1]
  OBVIOUS
<1>2. P[1] \in 1 .. n /\ P[1] \in Nat
  BY <1>1
<1>3. /\ Q \in Seq(Nat) /\ Len(Q) = Len(P) /\ Q[Len(Q)] = P[1]
      /\ \A i \in 1 .. Len(P) - 1 : Q[i] = Tail(P)[i]
  BY <1>1, <1>2
<1> HIDE DEF Q
<1>4. \A i \in 1 .. Len(Q) : Q[i] \in 1 .. n
  <2> TAKE i \in 1 .. Len(Q)
  <2>1. CASE i = Len(Q)
    BY <1>2, <1>3, <2>1
  <2>2. CASE i # Len(Q)
    <3>1. i \in 1 .. Len(P) /\ i # Len(P) /\ Len(P) \in Nat
      BY <1>1, <1>3, <2>2
    <3>2. i \in 1 .. Len(P) - 1 /\ i + 1 \in 1 .. Len(P)
      BY <3>1
    <3>3. QED
      BY <1>1, <1>3, <3>2
  <2>3. QED
    BY <2>1, <2>2
<1>5. QED
  BY <1>1, <1>3, <1>4 DEF Q

(* The pool's last buffer holds the content, and nothing else changed.     *)
NowPinned(c, d, content) ==
  /\ d.pool[Len(d.pool)] \in 1 .. Len(d.host) /\ d.host[d.pool[Len(d.pool)]] = content
  /\ d.slots = c.slots /\ d.ops = c.ops /\ d.mem = c.mem
  /\ d.at = c.at /\ d.ok = c.ok /\ d.waits = c.waits

LEMMA PinnedFine ==
  ASSUME NEW s \in Streams, NEW own, NEW own2, NEW c, NEW content \in Lists,
         queue \in [Streams -> Seq(Ops)], CallFine(own, own2, s, c),
         TakesOldest(c) => Done(c, Head(c.pool)), NEW d, d = WithPinned(c, content)
  PROVE  CallFine(own, own2, s, d) /\ NowPinned(c, d, content)
<1>1. c \in CallRecords /\ c.pool \in Seq(Nat) /\ c.host \in Seq(Lists) /\ c.ops \in Seq(Ops)
  BY CopiesAreOps DEF CallFine, CallRecords
<1>2. CASE TakesOldest(c)
  <2> DEFINE p == Head(c.pool)
  <2>1. d = [c EXCEPT !.pool = Append(Tail(c.pool), p), !.host[p] = content]
    BY <1>2 DEF WithPinned
  <2>2. /\ d.pool = Append(Tail(c.pool), p) /\ d.host = [c.host EXCEPT ![p] = content]
        /\ d.slots = c.slots /\ d.ops = c.ops /\ d.mem = c.mem /\ d.at = c.at /\ d.ok = c.ok
        /\ d.waits = c.waits /\ d.next = c.next /\ d.ws = c.ws
    BY <1>1, <2>1 DEF CallRecords
  <2>3. c.pool # <<>> /\ Done(c, p)
    BY <1>2 DEF TakesOldest
  <2>4. /\ d.pool \in Seq(Nat) /\ d.pool[Len(d.pool)] = p /\ p \in 1 .. Len(c.host)
        /\ \A i \in 1 .. Len(d.pool) : d.pool[i] \in 1 .. Len(c.host)
    <3>1. \A i \in 1 .. Len(c.pool) : c.pool[i] \in 1 .. Len(c.host)
      BY DEF CallFine
    <3>2. /\ d.pool \in Seq(Nat) /\ d.pool[Len(d.pool)] = p /\ p = c.pool[1] /\ Len(c.pool) \in Nat \ {0}
          /\ \A i \in 1 .. Len(d.pool) : d.pool[i] \in 1 .. Len(c.host)
      BY <1>1, <2>2, <2>3, <3>1, PoolTurned
    <3>3. QED
      BY <3>1, <3>2
  <2> HIDE DEF p
  <2>5. d.host \in Seq(Lists) /\ Len(d.host) = Len(c.host) /\ d.host[p] = content
    BY <1>1, <2>2, <2>4
  <2>6. d \in CallRecords
    BY <1>1, <2>1, <2>4, <2>5, <2>2 DEF CallRecords
  <2>7. \A t \in Streams : HostKeeps(queue[t], d.host)
    <3> TAKE t \in Streams
    <3>1. ~CopiesFrom(queue[t], p) /\ HostKeeps(queue[t], c.host) /\ queue[t] \in Seq(Ops)
      BY <2>3 DEF Done, CallFine
    <3>2. c.host \in Seq(Lists) /\ p \in 1 .. Len(c.host)
      BY <1>1, <2>4
    <3>3. HostKeeps(queue[t], [c.host EXCEPT ![p] = content])
      BY <3>1, <3>2, HostMayChange, Zenon
    <3>4. QED
      BY <2>2, <3>3
  <2>8. HostKeeps(d.ops, d.host)
    <3>1. ~CopiesFrom(c.ops, p) /\ HostKeeps(c.ops, c.host) /\ c.ops \in Seq(Ops)
      BY <1>1, <2>3 DEF Done, CallFine
    <3>2. c.host \in Seq(Lists) /\ p \in 1 .. Len(c.host)
      BY <1>1, <2>4
    <3>3. HostKeeps(c.ops, [c.host EXCEPT ![p] = content])
      BY <3>1, <3>2, HostMayChange, Zenon
    <3>4. QED
      BY <2>2, <3>3
  <2>9. CallFine(own, own2, s, d)
    <3>1. \A i \in 1 .. Len(d.pool) : d.pool[i] \in 1 .. Len(d.host)
      BY <2>4, <2>5
    <3>2. d.slots = c.slots /\ d.ops = c.ops /\ d.mem = c.mem /\ d.ws = c.ws
      BY <2>2
    <3>3. QED
      BY <2>6, <2>7, <2>8, <3>1, <3>2 DEF CallFine
  <2>10. QED
    BY <2>2, <2>4, <2>5, <2>9 DEF NowPinned
<1>3. CASE ~TakesOldest(c)
  <2> DEFINE n == Len(c.host)
  <2>1. d = [c EXCEPT !.pool = Append(c.pool, n + 1), !.host = Append(c.host, content)]
    BY <1>3 DEF WithPinned
  <2>2. /\ d.pool = Append(c.pool, n + 1) /\ d.host = Append(c.host, content)
        /\ d.slots = c.slots /\ d.ops = c.ops /\ d.mem = c.mem /\ d.at = c.at /\ d.ok = c.ok
        /\ d.waits = c.waits /\ d.next = c.next /\ d.ws = c.ws
    BY <1>1, <2>1 DEF CallRecords
  <2>3. /\ n \in Nat /\ d.host \in Seq(Lists) /\ Len(d.host) = n + 1 /\ d.host[n + 1] = content
        /\ d.pool \in Seq(Nat) /\ Len(d.pool) = Len(c.pool) + 1 /\ d.pool[Len(d.pool)] = n + 1
        /\ Len(c.pool) \in Nat /\ \A i \in 1 .. Len(c.pool) : d.pool[i] = c.pool[i]
    BY <1>1, <2>2
  <2>4. \A i \in 1 .. Len(d.pool) : d.pool[i] \in 1 .. Len(d.host)
    <3> TAKE i \in 1 .. Len(d.pool)
    <3>1. CASE i = Len(d.pool)
      BY <2>3, <3>1
    <3>2. CASE i # Len(d.pool)
      <4>1. i \in 1 .. Len(c.pool)
        BY <2>3, <3>2
      <4>2. d.pool[i] \in 1 .. n
        BY <2>3, <4>1 DEF CallFine
      <4>3. QED
        BY <2>3, <4>2
    <3>3. QED
      BY <3>1, <3>2
  <2>5. d \in CallRecords
    BY <1>1, <2>1, <2>2, <2>3 DEF CallRecords
  <2>6. \A t \in Streams : HostKeeps(queue[t], d.host)
    <3> TAKE t \in Streams
    <3>1. HostKeeps(queue[t], c.host) /\ queue[t] \in Seq(Ops)
      BY DEF CallFine
    <3>2. QED
      BY <1>1, <2>2, <3>1, HostMayGrow
  <2>7. HostKeeps(d.ops, d.host)
    <3>1. HostKeeps(c.ops, c.host)
      BY DEF CallFine
    <3>2. QED
      BY <1>1, <2>2, <3>1, HostMayGrow
  <2>8. CallFine(own, own2, s, d)
    BY <2>2, <2>4, <2>5, <2>6, <2>7 DEF CallFine
  <2>9. QED
    BY <2>2, <2>3, <2>8 DEF NowPinned
<1>4. QED
  BY <1>2, <1>3

(* The upload of a cleared slot's list, and the slot keyed.                *)
LEMMA UploadedFine ==
  ASSUME NEW s \in Streams, NEW own, NEW own2, NEW c, NEW plan \in Plans, NEW i \in Slots,
         NEW key \in Problems \cup {None},
         queue \in [Streams -> Seq(Ops)], CallFine(own, own2, s, c),
         TakesOldest(c) => Done(c, Head(c.pool)), c.at = i, c.slots[i].key = None,
         c.slots[i].list.ptr # 0, key # None => plan = PlanOf(key)
  PROVE  LET d == [Uploaded(c, c.slots[i].list.ptr, plan) EXCEPT !.slots[i].key = key,
                                                                  !.slots[i].plan = plan]
         IN CallFine(own, own2, s, d) /\ AtFine(s, d, plan)
<1> DEFINE to == c.slots[i].list.ptr
           e == WithPinned(c, plan)
           k == [op |-> "copy", from |-> e.pool[Len(e.pool)], to |-> to, plan |-> plan]
           slot == [key |-> key, plan |-> plan, list |-> c.slots[i].list]
           u == Uploaded(c, to, plan)
           d == [u EXCEPT !.slots[i].key = key, !.slots[i].plan = plan]
           q == queue[s] \o c.ops
           q2 == queue[s] \o Append(c.ops, k)
<1>1. c \in CallRecords /\ c.ops \in Seq(CopyOps) /\ c.slots \in [Slots -> SlotRecords]
  BY DEF CallFine, CallRecords
<1>2. /\ CallFine(own, own2, s, e) /\ e \in CallRecords
      /\ e.pool[Len(e.pool)] \in 1 .. Len(e.host) /\ e.host[e.pool[Len(e.pool)]] = plan
      /\ e.slots = c.slots /\ e.ops = c.ops /\ e.mem = c.mem /\ e.at = c.at /\ e.ok = c.ok /\ e.waits = c.waits
  <2>1. plan \in Lists
    BY DEF Lists
  <2>2. CallFine(own, own2, s, e) /\ NowPinned(c, e, plan)
    BY <2>1, PinnedFine, Zenon
  <2> HIDE DEF e
  <2>3. e \in CallRecords
    BY <2>2 DEF CallFine
  <2>4. QED
    BY <2>2, <2>3 DEF NowPinned
<1> HIDE DEF e
<1>3. c.slots[i] \in SlotRecords /\ to \in Nat /\ Len(e.host) \in Nat
  BY <1>1, <1>2 DEF SlotRecords, Buffers, CallRecords
<1>4. k \in CopyOps /\ k.op = "copy" /\ k.to = to /\ k.plan = plan /\ k.from = e.pool[Len(e.pool)]
  BY <1>2, <1>3 DEF CopyOps
<1>5. u = [e EXCEPT !.ops = Append(c.ops, k)]
  BY <1>2 DEF Uploaded, e
<1> HIDE DEF k
<1>6. slot \in SlotRecords
  BY <1>3 DEF SlotRecords
<1>7. /\ u.ops = Append(c.ops, k) /\ u.slots = c.slots /\ u.mem = e.mem /\ u.at = e.at /\ u.ok = e.ok
      /\ u.waits = e.waits /\ u.pool = e.pool /\ u.host = e.host /\ u.ws = e.ws /\ u.next = e.next
  BY <1>2, <1>5 DEF CallRecords
<1>8. u \in CallRecords
  <2>1. Append(c.ops, k) \in Seq(CopyOps)
    BY <1>1, <1>4
  <2>2. QED
    BY <1>2, <1>5, <2>1 DEF CallRecords
<1> HIDE DEF u
<1>9. /\ d.ops = Append(c.ops, k) /\ d.mem = c.mem /\ d.at = i /\ d.ok = c.ok
      /\ d.waits = c.waits /\ d.pool = e.pool /\ d.host = e.host /\ d.ws = e.ws /\ d.next = e.next
      /\ d.slots = [c.slots EXCEPT ![i] = slot]
  <2>1. d.slots = [u.slots EXCEPT ![i].key = key, ![i].plan = plan]
    BY <1>8 DEF CallRecords
  <2>2. [c.slots EXCEPT ![i].key = key, ![i].plan = plan] = [c.slots EXCEPT ![i] = slot]
    <3>1. [[c.slots[i] EXCEPT !.key = key] EXCEPT !.plan = plan] = slot
      <4>1. PICK a \in Problems \cup {None}, b \in Plans \cup {NoPlan}, l \in Buffers :
              c.slots[i] = [key |-> a, plan |-> b, list |-> l]
        BY <1>3 DEF SlotRecords
      <4>2. [c.slots[i] EXCEPT !.key = key] = [key |-> key, plan |-> b, list |-> l]
        BY <4>1
      <4>3. [[c.slots[i] EXCEPT !.key = key] EXCEPT !.plan = plan] = [key |-> key, plan |-> plan, list |-> l]
        <5>1. \A r : r = [key |-> key, plan |-> b, list |-> l]
                      => [r EXCEPT !.plan = plan] = [key |-> key, plan |-> plan, list |-> l]
          OBVIOUS
        <5>2. QED
          BY <4>2, <5>1, Zenon
      <4>4. slot = [key |-> key, plan |-> plan, list |-> l]
        BY <4>1
      <4>5. QED
        BY <4>3, <4>4
    <3>2. QED
      BY <1>1, <3>1
  <2>3. QED
    BY <1>2, <1>7, <1>8, <2>1, <2>2 DEF CallRecords
<1>10. d \in CallRecords
  <2>1. d.slots \in [Slots -> SlotRecords]
    <3> HIDE DEF slot, d
    <3>1. [c.slots EXCEPT ![i] = slot] \in [Slots -> SlotRecords]
      BY <1>1, <1>6
    <3>2. QED
      BY <1>9, <3>1
  <2>2. QED
    BY <1>8, <2>1 DEF CallRecords
<1> HIDE DEF d
<1>11. /\ q \in Seq(Ops) /\ q2 = Append(q, k) /\ q2 \in Seq(Ops) /\ q2 = q \o <<k>> /\ <<k>> \in Seq(Ops)
       /\ Len(<<k>>) = 1 /\ <<k>>[1] = k /\ Len(q2) = Len(q) + 1
  <2>1. queue[s] \in Seq(Ops) /\ c.ops \in Seq(Ops) /\ k \in Ops
    BY <1>1, <1>4, CopiesAreOps DEF Ops
  <2>2. q \in Seq(Ops)
    BY <2>1
  <2>3. q2 = Append(q, k)
    BY <2>1
  <2>4. <<k>> \in Seq(Ops) /\ Len(<<k>>) = 1 /\ <<k>>[1] = k
    BY <2>1
  <2> HIDE DEF q, q2
  <2>5. Append(q, k) = q \o <<k>>
    BY <2>1, <2>2, AppendIsConcat
  <2>6. QED
    BY <2>1, <2>2, <2>3, <2>4, <2>5
<1>12. own2[to] = ListOwner(s, i) /\ to \in Addresses(c.mem)
  BY DEF CallFine, SlotFine
<1>13. HoldsAfter(q2, c.mem, Len(q2), to, plan)
  BY <1>4, <1>11, HoldsCopied
<1>14. \A j \in Slots : SlotFine(own2, s, j, d.slots[j], q2, c.mem)
  <2> TAKE j \in Slots
  <2>1. CASE j = i
    <3>1. d.slots[j] = slot
      BY <1>1, <1>9, <2>1
    <3>2. QED
      BY <1>12, <1>13, <2>1, <3>1 DEF SlotFine
  <2>2. CASE j # i
    <3>1. d.slots[j] = c.slots[j]
      BY <1>1, <1>9, <2>2
    <3>2. SlotFine(own2, s, j, c.slots[j], q, c.mem)
      BY DEF CallFine
    <3>3. ASSUME c.slots[j].key # None
          PROVE  HoldsAfter(q2, c.mem, Len(q2), c.slots[j].list.ptr, c.slots[j].plan)
      <4>1. c.slots[j].list.ptr # to
        BY <1>12, <2>2, <3>2, <3>3 DEF SlotFine, ListOwner
      <4>2. \A n \in 1 .. Len(<<k>>) : ~CopyTo(<<k>>[n], c.slots[j].list.ptr)
        BY <1>4, <1>11, <4>1 DEF CopyTo
      <4>3. HoldsAfter(q, c.mem, Len(q), c.slots[j].list.ptr, c.slots[j].plan)
        BY <3>2, <3>3 DEF SlotFine
      <4>4. 1 \in 0 .. Len(<<k>>)
        BY <1>11
      <4>5. HoldsAfter(q \o <<k>>, c.mem, Len(q) + 1, c.slots[j].list.ptr, c.slots[j].plan)
        BY <1>11, <4>2, <4>3, <4>4, HoldsPast
      <4>6. QED
        BY <1>11, <4>5
    <3>4. QED
      BY <3>1, <3>2, <3>3 DEF SlotFine
  <2>3. QED
    BY <2>1, <2>2
<1>15. Len(d.ops) = Len(c.ops) + 1 /\ d.ops[Len(d.ops)] = k /\ \A n \in 1 .. Len(c.ops) : d.ops[n] = c.ops[n]
  BY <1>1, <1>9
<1>16. \A n \in 1 .. Len(d.ops) : n = Len(d.ops) \/ n \in 1 .. Len(c.ops)
  <2>1. Len(c.ops) \in Nat
    BY <1>1
  <2>2. QED
    BY <1>15, <2>1
<1>17. HostKeeps(d.ops, d.host)
  <2>1. HostKeeps(c.ops, e.host)
    BY <1>2 DEF CallFine
  <2>2. k.from \in 1 .. Len(e.host) /\ e.host[k.from] = k.plan
    BY <1>2, <1>4
  <2>3. QED
    BY <1>9, <1>15, <1>16, <2>1, <2>2 DEF HostKeeps
<1>18. \A n \in 1 .. Len(d.ops) : /\ d.ops[n].to \in Addresses(d.mem)
                                  /\ \E j \in Slots : own2[d.ops[n].to] = ListOwner(s, j)
  <2> TAKE n \in 1 .. Len(d.ops)
  <2>1. CASE n = Len(d.ops)
    BY <1>4, <1>9, <1>12, <1>15, <2>1
  <2>2. CASE n \in 1 .. Len(c.ops)
    BY <1>9, <1>15, <2>2 DEF CallFine
  <2>3. QED
    BY <1>16, <2>1, <2>2
<1>19. CallFine(own, own2, s, d)
  <2>1. /\ \A n \in 1 .. Len(d.pool) : d.pool[n] \in 1 .. Len(d.host)
        /\ Extends(own, mem, own2, d.mem)
        /\ WsFine(own2, s, d.ws, d.mem)
        /\ d.ws.ptr \in {0, ws[s].ptr} \/ d.ws.ptr > Len(mem)
        /\ \A t \in Streams : HostKeeps(queue[t], d.host)
    BY <1>2, <1>9 DEF CallFine
  <2>2. \A j \in Slots : SlotFine(own2, s, j, d.slots[j], queue[s] \o d.ops, d.mem)
    BY <1>9, <1>14
  <2>3. QED
    BY <1>10, <1>17, <1>18, <2>1, <2>2 DEF CallFine
<1>20. AtFine(s, d, plan)
  <2>1. d.slots[d.at] = slot
    BY <1>1, <1>9
  <2>2. QED
    BY <1>9, <1>13, <2>1 DEF AtFine
<1>21. QED
  BY <1>9, <1>19, <1>20 DEF d, u

LEMMA FailedFine ==
  ASSUME NEW s, NEW own, NEW own2, NEW c, CallFine(own, own2, s, c)
  PROVE  CallFine(own, own2, s, Failed(c))
<1> DEFINE d == Failed(c)
<1>1. c \in CallRecords
  BY DEF CallFine
<1>2. /\ d \in CallRecords /\ d.pool = c.pool /\ d.host = c.host
      /\ d.mem = c.mem /\ d.slots = c.slots /\ d.ops = c.ops /\ d.ws = c.ws
  BY <1>1 DEF Failed, CallRecords
<1> HIDE DEF d
<1>3. CallFine(own, own2, s, d)
  BY <1>2 DEF CallFine
<1>4. QED
  BY <1>3 DEF d

LEMMA FailedFlags ==
  ASSUME NEW c \in CallRecords
  PROVE  Failed(c).ok = FALSE /\ Failed(c).waits = c.waits
  BY DEF Failed, CallRecords

LEMMA TurnedFine ==
  ASSUME NEW s, NEW own, NEW own2, NEW c, CallFine(own, own2, s, c), c.pool # <<>>,
         NEW d, d = [c EXCEPT !.pool = Append(Tail(@), Head(@))]
  PROVE  CallFine(own, own2, s, d)
<1>1. c \in CallRecords /\ c.pool \in Seq(Nat) /\ \A i \in 1 .. Len(c.pool) : c.pool[i] \in 1 .. Len(c.host)
  BY DEF CallFine, CallRecords
<1>2. /\ d.pool = Append(Tail(c.pool), Head(c.pool))
      /\ d.ok = c.ok /\ d.waits = c.waits /\ d.host = c.host
      /\ d.mem = c.mem /\ d.slots = c.slots /\ d.ops = c.ops /\ d.ws = c.ws
  BY <1>1 DEF CallRecords
<1>3. d.pool \in Seq(Nat) /\ \A i \in 1 .. Len(d.pool) : d.pool[i] \in 1 .. Len(c.host)
  BY <1>1, <1>2, PoolTurned
<1>4. d \in CallRecords
  BY <1>1, <1>2, <1>3 DEF CallRecords
<1>5. QED
  BY <1>2, <1>3, <1>4 DEF CallFine

(* stage keeps everything fine; when nothing failed, the slot it took will *)
(* hold the plan.                                                          *)
LEMMA StageFine ==
  ASSUME NEW s \in Streams, NEW own, NEW own2, NEW c, NEW key \in Problems \cup {None},
         NEW plan \in Plans, NEW oom \in Oom,
         mem \in Seq(Contents), queue \in [Streams -> Seq(Ops)], CallFine(own, own2, s, c),
         key # None => plan = PlanOf(key), NEW d, d = Stage(c, key, plan, oom), ~d.waits
  PROVE  /\ \E own3 : CallFine(own, own3, s, d)
         /\ d.ok => AtFine(s, d, plan)
         /\ ~c.waits
<1> DEFINE i == c.next
           bytes == ListSize[plan.problem]
           g == Grown(c.slots[i].list, bytes, c.mem, oom = "list")
           slot == [key |-> None, plan |-> c.slots[i].plan, list |-> g.buf]
           e == [c EXCEPT !.next = (i + 1) % StagingSlots, !.mem = g.mem, !.at = i,
                          !.waits = @ \/ (g.buf.ptr # 0 /\ ~MayTake(c)),
                          !.slots[i] = [key |-> None, plan |-> @.plan, list |-> g.buf]]
<1>1. /\ c \in CallRecords /\ i \in Slots /\ (i + 1) % StagingSlots \in Slots
      /\ c.slots \in [Slots -> SlotRecords] /\ c.slots[i] \in SlotRecords
      /\ c.slots[i].list \in Buffers /\ c.slots[i].plan \in Plans \cup {NoPlan}
      /\ c.mem \in Seq(Contents) /\ c.waits \in BOOLEAN
  BY SlotsShape DEF CallFine, CallRecords, SlotRecords
<1>2. bytes \in Nat
  BY PlansShape
<1>3. /\ g.mem \in Seq(Contents) /\ g.buf \in Buffers
      /\ \E own3 : Extends(own2, c.mem, own3, g.mem) /\ BufferFine(own3, g.buf, ListOwner(s, i), g.mem)
  <2>1. BufferFine(own2, c.slots[i].list, ListOwner(s, i), c.mem)
    BY <1>1 DEF CallFine, SlotFine, BufferFine
  <2>2. \A b \in BOOLEAN : GrowsFine(own2, c.mem, c.slots[i].list, ListOwner(s, i), Grown(c.slots[i].list, bytes, c.mem, b))
    <3> HIDE DEF bytes, i
    <3>1. QED
      BY <1>1, <1>2, <2>1, GrownFine, Zenon
  <2>3. (oom = "list") \in BOOLEAN
    OBVIOUS
  <2>4. GrowsFine(own2, c.mem, c.slots[i].list, ListOwner(s, i), g)
    <3> HIDE DEF bytes, i
    <3>1. QED
      BY <2>2, <2>3
  <2> HIDE DEF g
  <2>5. QED
    BY <2>4 DEF GrowsFine
<1>4. PICK own3 : /\ Extends(own2, c.mem, own3, g.mem)
                  /\ g.buf.ptr # 0 => g.buf.ptr \in Addresses(g.mem) /\ own3[g.buf.ptr] = ListOwner(s, i)
  BY <1>3 DEF BufferFine
<1>5. d = CASE g.buf.ptr = 0 -> Failed(e)
            [] g.buf.ptr # 0 /\ oom = "pinned" ->
                 Failed(IF TakesOldest(e) THEN [e EXCEPT !.pool = Append(Tail(@), Head(@))]
                                          ELSE WithPinned(e, NoPlan))
            [] OTHER -> [Uploaded(e, g.buf.ptr, plan) EXCEPT !.slots[i].key = key, !.slots[i].plan = plan]
  BY DEF Stage, StageWith
<1> HIDE DEF g
<1>6. slot \in SlotRecords
  BY <1>1, <1>3 DEF SlotRecords
<1>7. /\ e.next = (i + 1) % StagingSlots /\ e.mem = g.mem /\ e.at = i
      /\ e.waits = (c.waits \/ (g.buf.ptr # 0 /\ ~MayTake(c)))
      /\ e.slots = [c.slots EXCEPT ![i] = slot]
      /\ e.pool = c.pool /\ e.host = c.host /\ e.ops = c.ops /\ e.ws = c.ws /\ e.ok = c.ok
  BY <1>1 DEF CallRecords
<1>8. e \in CallRecords
  <2>1. e.slots \in [Slots -> SlotRecords]
    <3> HIDE DEF slot, e
    <3>1. [c.slots EXCEPT ![i] = slot] \in [Slots -> SlotRecords]
      BY <1>1, <1>6
    <3>2. QED
      BY <1>7, <3>1
  <2>2. e.waits \in BOOLEAN
    BY <1>7
  <2>3. QED
    BY <1>1, <1>3, <1>7, <2>1, <2>2 DEF CallRecords
<1> HIDE DEF e
<1>9. CallFine(own, own3, s, e)
  <2>1. \A j \in Slots : j # i => e.slots[j] = c.slots[j]
    BY <1>1, <1>7
  <2>2. e.slots[i] = slot
    BY <1>1, <1>7
  <2>3. Extends(own2, c.mem, own3, e.mem) /\ e.mem \in Seq(Contents)
    BY <1>3, <1>4, <1>7
  <2>4. \A j \in Slots :
          \/ e.slots[j] = c.slots[j]
          \/ /\ e.slots[j].key = None
             /\ e.slots[j].list.ptr # 0 => /\ e.slots[j].list.ptr \in Addresses(e.mem)
                                           /\ own3[e.slots[j].list.ptr] = ListOwner(s, j)
    BY <1>4, <1>7, <2>1, <2>2
  <2>5. WsFine(own3, s, e.ws, e.mem)
    <3>1. WsFine(own2, s, e.ws, c.mem)
      BY <1>7 DEF CallFine
    <3>2. e.ws.ptr # 0 => e.ws.ptr \in Addresses(e.mem) /\ own3[e.ws.ptr] = own2[e.ws.ptr]
      <4>1. ASSUME e.ws.ptr # 0
            PROVE  e.ws.ptr \in Addresses(e.mem) /\ own3[e.ws.ptr] = own2[e.ws.ptr]
        <5>1. e.ws.ptr \in Addresses(c.mem)
          BY <3>1, <4>1 DEF WsFine
        <5>2. own3[e.ws.ptr] = own2[e.ws.ptr]
          BY <2>3, <5>1 DEF Extends
        <5>3. QED
          BY <1>1, <2>3, <5>1, <5>2, ExtendsAddresses
      <4>2. QED
        BY <4>1
    <3>3. QED
      BY <3>1, <3>2 DEF WsFine
  <2>6. e.ws.ptr \in {0, ws[s].ptr} \/ e.ws.ptr > Len(mem)
    BY <1>7 DEF CallFine
  <2>7. e.pool = c.pool /\ e.host = c.host /\ e.ops = c.ops
    BY <1>7
  <2>8. QED
    BY <1>8, <2>3, <2>4, <2>5, <2>6, <2>7, CallGrows
<1>10. e.slots[i].key = None /\ e.slots[i].list = g.buf
  BY <1>1, <1>7
<1>11. ASSUME ~e.waits, g.buf.ptr # 0 PROVE TakesOldest(e) => Done(e, Head(e.pool))
  <2>1. MayTake(c)
    BY <1>7, <1>11
  <2>2. QED
    BY <1>7, <2>1 DEF TakesOldest, MayTake, Done
<1>12. CASE g.buf.ptr = 0
  <2>1. d = Failed(e)
    BY <1>5, <1>12
  <2>2. CallFine(own, own3, s, d)
    BY <1>9, <2>1, FailedFine, Zenon
  <2>3. d.ok = FALSE /\ d.waits = e.waits
    BY <1>8, <2>1, FailedFlags
  <2>4. QED
    BY <1>7, <2>2, <2>3
<1>13. CASE g.buf.ptr # 0 /\ oom = "pinned"
  <2> DEFINE f == IF TakesOldest(e) THEN [e EXCEPT !.pool = Append(Tail(@), Head(@))]
                                    ELSE WithPinned(e, NoPlan)
  <2>1. d = Failed(f)
    BY <1>5, <1>13
  <2>2. CallFine(own, own3, s, f) /\ f.waits = e.waits
    <3>1. CASE TakesOldest(e)
      <4>1. e.pool # <<>>
        BY <3>1 DEF TakesOldest
      <4>2. f = [e EXCEPT !.pool = Append(Tail(@), Head(@))]
        BY <3>1
      <4>3. f.waits = e.waits
        BY <1>8, <4>2 DEF CallRecords
      <4> HIDE DEF f
      <4>4. CallFine(own, own3, s, f)
        BY <1>9, <4>1, <4>2, TurnedFine, Zenon
      <4>5. QED
        BY <4>3, <4>4
    <3>2. CASE ~TakesOldest(e)
      <4>1. f = WithPinned(e, NoPlan) /\ NoPlan \in Lists
        BY <3>2 DEF Lists
      <4> HIDE DEF f
      <4>2. CallFine(own, own3, s, f) /\ NowPinned(e, f, NoPlan)
        BY <1>9, <3>2, <4>1, PinnedFine, Zenon
      <4>3. QED
        BY <4>2 DEF NowPinned
    <3>3. QED
      BY <3>1, <3>2
  <2> HIDE DEF f
  <2>3. CallFine(own, own3, s, d)
    BY <2>1, <2>2, FailedFine, Zenon
  <2>4. d.ok = FALSE /\ d.waits = f.waits
    <3>1. f \in CallRecords
      BY <2>2 DEF CallFine
    <3>2. QED
      BY <2>1, <3>1, FailedFlags
  <2>5. QED
    BY <1>7, <2>2, <2>3, <2>4
<1>14. CASE g.buf.ptr # 0 /\ oom # "pinned"
  <2>1. d = [Uploaded(e, e.slots[i].list.ptr, plan) EXCEPT !.slots[i].key = key, !.slots[i].plan = plan]
    BY <1>5, <1>10, <1>14
  <2>2. d.waits = e.waits
    BY <1>8, <2>1 DEF Uploaded, WithPinned, CallRecords
  <2>3. ASSUME ~e.waits
        PROVE  CallFine(own, own3, s, d) /\ AtFine(s, d, plan)
    <3>1. TakesOldest(e) => Done(e, Head(e.pool))
      BY <1>11, <1>14, <2>3
    <3>2. e.at = i /\ e.slots[i].key = None /\ e.slots[i].list.ptr # 0 /\ i \in Slots
      BY <1>1, <1>7, <1>10, <1>14
    <3> HIDE DEF i
    <3>3. LET z == [Uploaded(e, e.slots[i].list.ptr, plan) EXCEPT !.slots[i].key = key, !.slots[i].plan = plan]
          IN CallFine(own, own3, s, z) /\ AtFine(s, z, plan)
      BY <1>9, <3>1, <3>2, UploadedFine, Zenon
    <3>4. QED
      BY <2>1, <2>2, <3>3
  <2>4. QED
    BY <1>7, <2>3, <2>2
<1>15. QED
  BY <1>12, <1>13, <1>14

(* A set of naturals has a least one.                                      *)
LEMMA LeastNatural ==
  ASSUME NEW T, T \subseteq Nat, T # {}
  PROVE  \E x \in T : \A y \in T : x <= y
<1> DEFINE Less == {p \in Nat \X Nat : p[1] < p[2]}
<1>1. IsWellFoundedOn(Less, Nat)
  BY NatLessThanWellFounded DEF OpToRel
<1> HIDE DEF Less
<1>2. PICK x \in T : \A y \in T : <<y, x>> \notin Less
  BY <1>1, WFMin
<1>3. ASSUME NEW y \in T, y < x PROVE <<y, x>> \in Less
  <2> DEFINE p == <<y, x>>
  <2>1. p \in Nat \X Nat /\ p[1] < p[2]
    BY <1>3
  <2>2. QED
    BY <2>1 DEF Less
<1>4. \A y \in T : ~ (y < x)
  BY <1>2, <1>3, Zenon
<1>5. x \in Nat /\ \A y \in T : y \in Nat
  OBVIOUS
<1>6. QED
  BY <1>4, <1>5

LEMMA FindFine ==
  ASSUME NEW s \in Streams, NEW own, NEW own2, NEW c, NEW p \in Problems, NEW oom \in Oom,
         mem \in Seq(Contents), queue \in [Streams -> Seq(Ops)], CallFine(own, own2, s, c),
         NEW d, d = Find(c, p, oom), ~d.waits
  PROVE  /\ \E own3 : CallFine(own, own3, s, d)
         /\ d.ok => AtFine(s, d, PlanOf(p))
         /\ ~c.waits
<1>1. c \in CallRecords /\ p # None /\ PlanOf(p) \in Plans
  BY PlanFacts DEF CallFine
<1>2. CASE Matching(c, p) = {}
  <2>1. d = Stage(c, p, PlanOf(p), oom) /\ p \in Problems \cup {None}
    BY <1>2 DEF Find
  <2>2. QED
    BY <1>1, <2>1, StageFine, Zenon
<1>3. CASE Matching(c, p) # {}
  <2> DEFINE M == Matching(c, p)
             i == CHOOSE i \in M : \A j \in M : i <= j
  <2>1. d = [c EXCEPT !.at = i]
    BY <1>3 DEF Find
  <2>2. i \in Slots /\ c.slots[i].key = p
    <3>1. M \subseteq Slots /\ M # {} /\ StagingSlots \in Nat \ {0}
      BY <1>3, CacheAssumption DEF Matching
    <3>2. M \subseteq Int /\ \A j \in M : 0 <= j
      BY <3>1 DEF Slots
    <3> HIDE DEF M
    <3>3. M \subseteq Nat /\ M # {}
      BY <3>1, <3>2
    <3>4. \E n \in M : \A j \in M : n <= j
      BY <3>3, LeastNatural
    <3>5. i \in M
      BY <3>4
    <3> HIDE DEF i
    <3>6. QED
      BY <3>5 DEF M, Matching
  <2> HIDE DEF i
  <2>3. /\ d.at = i /\ d.slots = c.slots /\ d.ops = c.ops /\ d.mem = c.mem /\ d.pool = c.pool
        /\ d.host = c.host /\ d.ws = c.ws /\ d.waits = c.waits /\ d \in CallRecords
    BY <1>1, <2>1, <2>2 DEF CallRecords
  <2>4. CallFine(own, own2, s, d)
    BY <2>3 DEF CallFine
  <2>5. SlotFine(own2, s, i, c.slots[i], queue[s] \o c.ops, c.mem)
    BY <2>2 DEF CallFine
  <2>6. AtFine(s, d, PlanOf(p))
    BY <1>1, <2>2, <2>3, <2>5 DEF AtFine, SlotFine
  <2>7. QED
    BY <2>3, <2>4, <2>6
<1>4. QED
  BY <1>2, <1>3

(* What a call's kernels may be queued with.                               *)
Ready(s, d, p) ==
  \E plan \in Plans : /\ AtFine(s, d, plan) /\ plan.problem = p
                      /\ plan.slots # 0 => d.ws.ptr # 0

LEMMA WithWorkspaceFine ==
  ASSUME NEW s \in Streams, NEW own, NEW own2, NEW c, NEW p \in Problems, NEW noWs \in BOOLEAN,
         NEW oom \in Oom, mem \in Seq(Contents), queue \in [Streams -> Seq(Ops)],
         CallFine(own, own2, s, c), AtFine(s, c, PlanOf(p)),
         NEW d, d = WithWorkspace(c, p, noWs, oom), ~d.waits
  PROVE  /\ \E own3 : CallFine(own, own3, s, d)
         /\ d.ok => Ready(s, d, p)
         /\ ~c.waits
<1> DEFINE plan == PlanOf(p)
           g == Grown(c.ws, plan.slots, c.mem, noWs)
           e == [c EXCEPT !.ws = g.buf, !.mem = g.mem]
           q == queue[s] \o c.ops
<1>1. c \in CallRecords /\ c.mem \in Seq(Contents) /\ c.ws \in Buffers /\ c.at \in Slots
  BY DEF CallFine, CallRecords
<1>2. /\ plan \in Plans /\ plan.problem = p /\ plan.slots \in Nat
      /\ Unsplit(p) \in Plans /\ Unsplit(p).problem = p /\ Unsplit(p).slots = 0
  BY PlanFacts
<1>3. c.slots[c.at].plan = plan
  BY DEF AtFine
<1>4. d = IF plan.slots = 0 THEN c ELSE IF g.buf.ptr # 0 THEN e ELSE Stage(e, None, Unsplit(p), oom)
  BY <1>3 DEF WithWorkspace
<1>5. CASE plan.slots = 0
  BY <1>2, <1>4, <1>5 DEF Ready
<1>6. CASE plan.slots # 0
  <2>1. GrowsFine(own2, c.mem, c.ws, WsOwner(s), g)
    <3>1. BufferFine(own2, c.ws, WsOwner(s), c.mem)
      BY DEF CallFine, WsFine, BufferFine
    <3> HIDE DEF plan
    <3>2. QED
      BY <1>1, <1>2, <3>1, GrownFine, Zenon
  <2> HIDE DEF g
  <2>2. PICK own3 : /\ Extends(own2, c.mem, own3, g.mem)
                    /\ BufferFine(own3, g.buf, WsOwner(s), g.mem)
    BY <2>1 DEF GrowsFine
  <2>3. g.mem \in Seq(Contents) /\ g.buf \in Buffers /\ (g.buf.ptr \in {0, c.ws.ptr} \/ g.buf.ptr > Len(c.mem))
    BY <2>1 DEF GrowsFine
  <2>4. /\ e.at = c.at /\ e.slots = c.slots /\ e.ops = c.ops /\ e.mem = g.mem /\ e.pool = c.pool
        /\ e.host = c.host /\ e.ws = g.buf /\ e.waits = c.waits /\ e \in CallRecords
    BY <1>1, <2>3 DEF CallRecords
  <2> HIDE DEF e
  <2>5. CallFine(own, own3, s, e)
    <3>1. WsFine(own3, s, e.ws, e.mem)
      BY <2>2, <2>4 DEF WsFine, BufferFine
    <3>2. e.ws.ptr \in {0, ws[s].ptr} \/ e.ws.ptr > Len(mem)
      <4>1. c.ws.ptr \in {0, ws[s].ptr} \/ c.ws.ptr > Len(mem)
        BY DEF CallFine
      <4>2. Len(mem) <= Len(c.mem) /\ Len(mem) \in Nat /\ Len(c.mem) \in Nat /\ g.buf.ptr \in Nat
        BY <1>1, <2>3 DEF CallFine, Extends, Buffers
      <4>3. QED
        BY <2>3, <2>4, <4>1, <4>2
    <3>3. Extends(own2, c.mem, own3, e.mem)
      BY <2>2, <2>4
    <3>4. QED
      BY <2>4, <3>1, <3>2, <3>3, CallGrows
  <2>6. CASE g.buf.ptr # 0
    <3>1. d = e
      BY <1>4, <1>6, <2>6
    <3>2. AtFine(s, e, plan)
      <4>1. SlotFine(own2, s, c.at, c.slots[c.at], q, c.mem) /\ c.slots[c.at].list.ptr # 0
        BY <1>1 DEF CallFine, AtFine
      <4>2. g.mem[c.slots[c.at].list.ptr] = c.mem[c.slots[c.at].list.ptr]
        BY <2>2, <4>1 DEF SlotFine, Extends
      <4>3. HoldsAfter(q, c.mem, Len(q), c.slots[c.at].list.ptr, plan)
        BY DEF AtFine
      <4>4. HoldsAfter(q, g.mem, Len(q), c.slots[c.at].list.ptr, plan)
        BY <4>2, <4>3, HoldsMemory
      <4>5. QED
        BY <1>3, <2>4, <4>1, <4>4 DEF AtFine
    <3>3. QED
      BY <1>2, <2>4, <2>5, <2>6, <3>1, <3>2 DEF Ready
  <2>7. CASE g.buf.ptr = 0
    <3>1. d = Stage(e, None, Unsplit(p), oom)
      BY <1>4, <1>6, <2>7
    <3>2. None \in Problems \cup {None} /\ (None # None => Unsplit(p) = PlanOf(None))
      OBVIOUS
    <3>3. /\ \E own4 : CallFine(own, own4, s, d)
          /\ d.ok => AtFine(s, d, Unsplit(p))
          /\ ~e.waits
      BY <1>2, <2>5, <3>1, <3>2, StageFine, Zenon
    <3>4. QED
      BY <1>2, <2>4, <3>3 DEF Ready
  <2>8. QED
    BY <2>6, <2>7
<1>7. QED
  BY <1>5, <1>6

-----------------------------------------------------------------------------
(* More memory, other pinned buffers and more graphs disturb nothing.      *)
LEMMA WsExtends ==
  ASSUME NEW m \in Seq(Contents), NEW m2 \in Seq(Contents), NEW own, NEW own2,
         Extends(own, m, own2, m2), NEW s, NEW w, WsFine(own, s, w, m)
  PROVE  WsFine(own2, s, w, m2)
<1>1. ASSUME w.ptr # 0 PROVE w.ptr \in Addresses(m) /\ w.ptr \in Addresses(m2) /\ own2[w.ptr] = own[w.ptr]
  <2>1. w.ptr \in Addresses(m)
    BY <1>1 DEF WsFine
  <2>2. QED
    BY <2>1, ExtendsAddresses DEF Extends
<1>2. QED
  BY <1>1 DEF WsFine

LEMMA GraphListExtends ==
  ASSUME NEW m \in Seq(Contents), NEW m2 \in Seq(Contents), NEW own, NEW own2,
         Extends(own, m, own2, m2), NEW a, NEW plan, GraphListFine(own, a, plan, m)
  PROVE  GraphListFine(own2, a, plan, m2)
<1>1. ASSUME a # 0 PROVE a \in Addresses(m2) /\ own2[a] = own[a] /\ m2[a] = m[a]
  <2>1. a \in Addresses(m)
    BY <1>1 DEF GraphListFine
  <2>2. QED
    BY <2>1, ExtendsAddresses DEF Extends
<1>2. QED
  BY <1>1 DEF GraphListFine

LEMMA GraphExtends ==
  ASSUME NEW m \in Seq(Contents), NEW m2 \in Seq(Contents), NEW own, NEW own2,
         Extends(own, m, own2, m2), NEW s, NEW g, GraphFine(own, s, g, m)
  PROVE  GraphFine(own2, s, g, m2)
<1>1. \A a \in Addresses(m) : a \in Addresses(m2) /\ own2[a] = own[a] /\ m2[a] = m[a]
  BY ExtendsAddresses DEF Extends
<1>2. QED
  BY <1>1 DEF GraphFine

LEMMA QueueExtends ==
  ASSUME NEW m \in Seq(Contents), NEW m2 \in Seq(Contents), NEW own, NEW own2,
         Extends(own, m, own2, m2), NEW s \in Streams, NEW q \in Seq(Ops), NEW h, NEW h2, NEW cap, NEW cap2,
         QueueFine(own, s, q, h, m, cap), HostKeeps(q, h2),
         \A t \in Streams : cap[t] = "done" => cap2[t] = "done"
  PROVE  QueueFine(own2, s, q, h2, m2, cap2)
<1>1. \A a \in Addresses(m) : a \in Addresses(m2) /\ own2[a] = own[a] /\ m2[a] = m[a]
  BY ExtendsAddresses DEF Extends
<1>2. ASSUME NEW i \in 1 .. Len(q), q[i].op = "copy" PROVE CopyFine(own2, s, q[i], h2, m2)
  <2>1. CopyFine(own, s, q[i], h, m)
    BY <1>2 DEF QueueFine
  <2>2. q[i].from \in 1 .. Len(h2) /\ h2[q[i].from] = q[i].plan
    BY <1>2 DEF HostKeeps
  <2>3. QED
    BY <1>1, <2>1, <2>2 DEF CopyFine
<1>3. ASSUME NEW i \in 1 .. Len(q), q[i].op # "copy"
      PROVE  ListFine(own2, s, q, m2, i) /\ KernelWs(own2, s, q[i], m2, cap2) /\ MergeFine(q, m2, i)
  <2>1. ListFine(own, s, q, m, i) /\ KernelWs(own, s, q[i], m, cap) /\ MergeFine(q, m, i)
    BY <1>3 DEF QueueFine
  <2>2. ListFine(own2, s, q, m2, i)
    <3>1. q[i].list \in Addresses(m2) /\ own2[q[i].list] = own[q[i].list] /\ m2[q[i].list] = m[q[i].list]
      BY <1>1, <2>1 DEF ListFine
    <3>2. HoldsAfter(q, m, i - 1, q[i].list, q[i].plan) => HoldsAfter(q, m2, i - 1, q[i].list, q[i].plan)
      BY <3>1, HoldsMemory
    <3>3. QED
      BY <2>1, <3>1, <3>2 DEF ListFine
  <2>3. KernelWs(own2, s, q[i], m2, cap2)
    BY <1>1, <2>1 DEF KernelWs
  <2>4. MergeFine(q, m2, i)
    BY <1>1, <2>1 DEF KernelWs, MergeFine
  <2>5. QED
    BY <2>2, <2>3, <2>4
<1>4. QED
  BY <1>2, <1>3 DEF QueueFine

(* What may be queued behind q: r's i-th.                                  *)
NewFine(own, s, q, r, h, m, cap, i) ==
  /\ r[i].op = "copy" => CopyFine(own, s, r[i], h, m)
  /\ r[i].op # "copy" =>
       /\ r[i].list \in Addresses(m) /\ r[i].plan.problem = r[i].problem
       /\ \/ own[r[i].list] = GraphOwner /\ m[r[i].list] = r[i].plan
          \/ /\ \E j \in Slots : own[r[i].list] = ListOwner(s, j)
             /\ HoldsAfter(q \o r, m, Len(q) + (i - 1), r[i].list, r[i].plan)
       /\ KernelWs(own, s, r[i], m, cap)
       /\ r[i].op = "merge" => r[i].ws # 0 /\ AfterItsFwd(r, i)

LEMMA QueueAppends ==
  ASSUME NEW s \in Streams, NEW own, NEW q \in Seq(Ops), NEW r \in Seq(Ops), NEW h, NEW m, NEW cap,
         QueueFine(own, s, q, h, m, cap), \A i \in 1 .. Len(r) : NewFine(own, s, q, r, h, m, cap, i)
  PROVE  QueueFine(own, s, q \o r, h, m, cap)
<1> DEFINE z == q \o r
<1>1. /\ Len(q) \in Nat /\ Len(r) \in Nat /\ Len(z) = Len(q) + Len(r)
      /\ \A i \in 1 .. Len(q) : z[i] = q[i]
      /\ \A i \in 1 .. Len(r) : z[Len(q) + i] = r[i]
  <2>1. \A i \in 1 .. Len(r) : z[Len(q) + i] = r[i]
    <3> TAKE i \in 1 .. Len(r)
    <3>1. Len(q) + i \in 1 .. Len(q) + Len(r) /\ Len(q) + i > Len(q) /\ (Len(q) + i) - Len(q) = i
      OBVIOUS
    <3>2. QED
      BY <3>1
  <2>2. QED
    BY <2>1
<1>2. \A n \in 0 .. Len(q) : \A a, x : HoldsAfter(z, m, n, a, x) <=> HoldsAfter(q, m, n, a, x)
  BY HoldsPrefix
<1> HIDE DEF z
<1>3. ASSUME NEW i \in 1 .. Len(q), z[i].op = "copy" PROVE CopyFine(own, s, z[i], h, m)
  BY <1>1, <1>3 DEF QueueFine
<1>4. ASSUME NEW i \in 1 .. Len(q), z[i].op # "copy"
      PROVE  ListFine(own, s, z, m, i) /\ KernelWs(own, s, z[i], m, cap) /\ MergeFine(z, m, i)
  <2>1. z[i] = q[i] /\ i - 1 \in 0 .. Len(q) /\ (i > 1 => i - 1 \in 1 .. Len(q))
    BY <1>1
  <2>2. ListFine(own, s, q, m, i) /\ KernelWs(own, s, q[i], m, cap) /\ MergeFine(q, m, i)
    BY <1>4, <2>1 DEF QueueFine
  <2>3. ListFine(own, s, z, m, i)
    BY <1>2, <2>1, <2>2 DEF ListFine
  <2>4. MergeFine(z, m, i)
    <3>1. AfterItsFwd(q, i) => AfterItsFwd(z, i)
      BY <1>1, <2>1 DEF AfterItsFwd
    <3>2. QED
      BY <2>1, <2>2, <3>1 DEF MergeFine
  <2>5. QED
    BY <2>1, <2>2, <2>3, <2>4
<1>5. ASSUME NEW i \in 1 .. Len(r), r[i].op # "copy"
      PROVE  LET n == Len(q) + i IN ListFine(own, s, z, m, n) /\ KernelWs(own, s, z[n], m, cap) /\ MergeFine(z, m, n)
  <2> DEFINE n == Len(q) + i
  <2>1. z[n] = r[i] /\ n - 1 = Len(q) + (i - 1)
    BY <1>1
  <2>2. NewFine(own, s, q, r, h, m, cap, i)
    OBVIOUS
  <2> HIDE DEF n
  <2>3. ListFine(own, s, z, m, n)
    BY <1>5, <2>1, <2>2 DEF NewFine, ListFine, z
  <2>4. KernelWs(own, s, z[n], m, cap)
    BY <1>5, <2>1, <2>2 DEF NewFine
  <2>5. MergeFine(z, m, n)
    <3>1. ASSUME r[i].op = "merge" PROVE AfterItsFwd(z, n) /\ r[i].ws # 0
      <4>1. AfterItsFwd(r, i) /\ r[i].ws # 0
        BY <1>5, <2>2, <3>1 DEF NewFine
      <4>2. i - 1 \in 1 .. Len(r) /\ n - 1 = Len(q) + (i - 1) /\ n > 1
        BY <1>1, <4>1 DEF AfterItsFwd, n
      <4>3. z[n - 1] = r[i - 1]
        BY <1>1, <4>2
      <4>4. QED
        BY <2>1, <4>1, <4>2, <4>3 DEF AfterItsFwd
    <3>2. QED
      BY <2>1, <3>1 DEF MergeFine
  <2>6. QED
    BY <2>3, <2>4, <2>5 DEF n
<1>6. ASSUME NEW i \in 1 .. Len(r), r[i].op = "copy" PROVE CopyFine(own, s, z[Len(q) + i], h, m)
  <2>1. NewFine(own, s, q, r, h, m, cap, i) /\ z[Len(q) + i] = r[i]
    BY <1>1
  <2>2. QED
    BY <1>6, <2>1 DEF NewFine
<1>7. ASSUME NEW i \in 1 .. Len(z)
      PROVE  /\ z[i].op = "copy" => CopyFine(own, s, z[i], h, m)
             /\ z[i].op # "copy" => ListFine(own, s, z, m, i) /\ KernelWs(own, s, z[i], m, cap) /\ MergeFine(z, m, i)
  <2>1. CASE i \in 1 .. Len(q)
    BY <1>3, <1>4, <2>1
  <2>2. CASE i \notin 1 .. Len(q)
    <3>1. PICK k \in 1 .. Len(r) : i = Len(q) + k
      <4>1. i - Len(q) \in 1 .. Len(r) /\ i = Len(q) + (i - Len(q))
        BY <1>1, <2>2
      <4>2. QED
        BY <4>1
    <3>2. z[i] = r[k]
      BY <1>1, <3>1
    <3>3. QED
      BY <1>5, <1>6, <3>1, <3>2
  <2>3. QED
    BY <2>1, <2>2
<1>8. QED
  BY <1>7 DEF QueueFine, z

LEMMA ApartSwaps ==
  ASSUME NEW q, NEW r, WsApart(q, r)
  PROVE  WsApart(r, q)
  BY DEF WsApart

LEMMA ApartAppends ==
  ASSUME NEW q \in Seq(Ops), NEW x \in Seq(Ops), NEW r, WsApart(q, r), WsApart(x, r)
  PROVE  WsApart(q \o x, r)
<1> DEFINE z == q \o x
<1>1. Len(q) \in Nat /\ Len(x) \in Nat /\ Len(z) = Len(q) + Len(x) /\ \A i \in 1 .. Len(q) : z[i] = q[i]
  OBVIOUS
<1>2. \A i \in Len(q) + 1 .. Len(z) : i - Len(q) \in 1 .. Len(x) /\ z[i] = x[i - Len(q)]
  <2> TAKE i \in Len(q) + 1 .. Len(z)
  <2>1. i - Len(q) \in 1 .. Len(x) /\ i \in 1 .. Len(q) + Len(x) /\ i > Len(q)
    BY <1>1
  <2>2. QED
    BY <2>1
<1> HIDE DEF z
<1>3. \A i \in 1 .. Len(z) : (i \in 1 .. Len(q) /\ z[i] = q[i])
                             \/ (i - Len(q) \in 1 .. Len(x) /\ z[i] = x[i - Len(q)])
  <2> TAKE i \in 1 .. Len(z)
  <2>1. i \in 1 .. Len(q) \/ i \in Len(q) + 1 .. Len(z)
    BY <1>1
  <2>2. QED
    BY <1>1, <1>2, <2>1
<1>4. QED
  BY <1>3 DEF WsApart, z

-----------------------------------------------------------------------------
(* A call's kernels: their list is the slot it used, their workspace its   *)
(* stream's, which no other stream's queue uses.                           *)
RunFine(own, s, d, run) ==
  \A i \in 1 .. Len(run) :
    /\ run[i].list \in Addresses(d.mem) /\ run[i].plan.problem = run[i].problem
    /\ \E j \in Slots : own[run[i].list] = ListOwner(s, j)
    /\ HoldsAfter(queue[s] \o d.ops, d.mem, Len(queue[s] \o d.ops), run[i].list, run[i].plan)
    /\ run[i].ws # 0 => run[i].ws = d.ws.ptr
    /\ run[i].op = "merge" => run[i].ws # 0 /\ AfterItsFwd(run, i)

LEMMA KernelsAreOps == Seq(KernelOps) \subseteq Seq(Ops)
  BY DEF Ops

LEMMA KernelFacts ==
  ASSUME NEW run \in Seq(KernelOps), NEW i \in 1 .. Len(run)
  PROVE  run[i].op \in {"fwd", "merge"} /\ run[i].op # "copy" /\ \A a : ~CopyTo(run[i], a)
<1>1. run[i] \in KernelOps
  OBVIOUS
<1>2. QED
  BY <1>1 DEF KernelOps, CopyTo

LEMMA CopyFacts ==
  ASSUME NEW r \in Seq(CopyOps), NEW i \in 1 .. Len(r)
  PROVE  r[i].op = "copy"
<1>1. r[i] \in CopyOps
  OBVIOUS
<1>2. QED
  BY <1>1 DEF CopyOps

LEMMA RunQueues ==
  ASSUME NEW s \in Streams, NEW own, NEW own2, NEW d, NEW run \in Seq(KernelOps), Shapes, Owned(own),
         CallFine(own, own2, s, d), RunFine(own2, s, d, run)
  PROVE  QueueFine(own2, s, queue[s] \o d.ops \o run, d.host, d.mem, capture)
<1> DEFINE q == queue[s] \o d.ops
<1>1. /\ d \in CallRecords /\ d.mem \in Seq(Contents) /\ d.ops \in Seq(CopyOps) /\ d.ops \in Seq(Ops)
      /\ queue[s] \in Seq(Ops) /\ mem \in Seq(Contents) /\ run \in Seq(Ops) /\ d.ws \in Buffers
  BY CopiesAreOps, KernelsAreOps DEF CallFine, CallRecords, Shapes
<1>2. QueueFine(own2, s, queue[s], d.host, d.mem, capture)
  <2>1. Extends(own, mem, own2, d.mem) /\ HostKeeps(queue[s], d.host)
    BY DEF CallFine
  <2>2. QueueFine(own, s, queue[s], host, mem, capture)
    BY DEF Owned
  <2>3. QED
    BY <1>1, <2>1, <2>2, QueueExtends
<1>3. \A i \in 1 .. Len(d.ops) : NewFine(own2, s, queue[s], d.ops, d.host, d.mem, capture, i)
  <2> TAKE i \in 1 .. Len(d.ops)
  <2>1. d.ops[i].op = "copy"
    BY <1>1, CopyFacts
  <2>2. CopyFine(own2, s, d.ops[i], d.host, d.mem)
    BY <2>1 DEF CallFine, HostKeeps, CopyFine
  <2>3. QED
    BY <2>1, <2>2 DEF NewFine
<1>4. q \in Seq(Ops) /\ QueueFine(own2, s, q, d.host, d.mem, capture)
  BY <1>1, <1>2, <1>3, QueueAppends
<1>5. \A i \in 1 .. Len(run) : NewFine(own2, s, q, run, d.host, d.mem, capture, i)
  <2> TAKE i \in 1 .. Len(run)
  <2>1. run[i].op \in {"fwd", "merge"} /\ run[i].op # "copy"
    BY KernelFacts
  <2>2. /\ run[i].list \in Addresses(d.mem) /\ run[i].plan.problem = run[i].problem
        /\ \E j \in Slots : own2[run[i].list] = ListOwner(s, j)
        /\ HoldsAfter(q, d.mem, Len(q), run[i].list, run[i].plan)
        /\ run[i].ws # 0 => run[i].ws = d.ws.ptr
        /\ run[i].op = "merge" => run[i].ws # 0 /\ AfterItsFwd(run, i)
    BY DEF RunFine
  <2>3. \A n \in 1 .. Len(run) : ~CopyTo(run[n], run[i].list)
    BY KernelFacts
  <2> HIDE DEF q
  <2>4. i - 1 \in 0 .. Len(run)
    OBVIOUS
  <2>5. HoldsAfter(q \o run, d.mem, Len(q) + (i - 1), run[i].list, run[i].plan)
    BY <1>1, <1>4, <2>2, <2>3, <2>4, HoldsPast
  <2>6. KernelWs(own2, s, run[i], d.mem, capture)
    <3>1. WsFine(own2, s, d.ws, d.mem)
      BY DEF CallFine
    <3>2. QED
      BY <2>2, <3>1 DEF WsFine, KernelWs
  <2>7. QED
    BY <2>1, <2>2, <2>5, <2>6 DEF NewFine
<1>6. QED
  <2> HIDE DEF q
  <2>1. QueueFine(own2, s, q \o run, d.host, d.mem, capture)
    BY <1>1, <1>4, <1>5, QueueAppends
  <2>2. QED
    BY <2>1 DEF q

(* The workspace of a call that may queue kernels is in no other queue.    *)
WsOurs(s, w) ==
  \A t \in Streams : t # s => \A i \in 1 .. Len(queue[t]) :
    queue[t][i].op # "copy" /\ w # 0 => queue[t][i].ws # w

LEMMA RunApart ==
  ASSUME NEW s \in Streams, NEW own, NEW own2, NEW d, NEW run \in Seq(KernelOps), Shapes, Owned(own),
         CallFine(own, own2, s, d), RunFine(own2, s, d, run), WsOurs(s, d.ws.ptr),
         NEW t \in Streams, t # s
  PROVE  WsApart(queue[s] \o d.ops \o run, queue[t])
<1>1. /\ d.ops \in Seq(CopyOps) /\ d.ops \in Seq(Ops) /\ queue[s] \in Seq(Ops) /\ run \in Seq(Ops)
      /\ queue[s] \o d.ops \in Seq(Ops)
  BY CopiesAreOps, KernelsAreOps DEF CallFine, CallRecords, Shapes
<1>2. WsApart(queue[s], queue[t])
  BY DEF Owned
<1>3. WsApart(d.ops, queue[t])
  BY <1>1, CopyFacts DEF WsApart
<1>4. WsApart(run, queue[t])
  BY DEF WsApart, RunFine, WsOurs
<1>5. WsApart(queue[s] \o d.ops, queue[t])
  BY <1>1, <1>2, <1>3, ApartAppends
<1>6. QED
  BY <1>1, <1>4, <1>5, ApartAppends

LEMMA KeptFine ==
  ASSUME NEW s \in Streams, NEW own, NEW own2, NEW d, NEW run \in Seq(KernelOps), Shapes, Owned(own),
         CallFine(own, own2, s, d), RunFine(own2, s, d, run), WsOurs(s, d.ws.ptr),
         Keep(s, d), queue' = [queue EXCEPT ![s] = @ \o d.ops \o run],
         UNCHANGED <<graphLists, capture, graph>>
  PROVE  Shapes' /\ Owned(own2)'
<1>1. /\ staged' = [staged EXCEPT ![s] = d.slots] /\ next' = [next EXCEPT ![s] = d.next]
      /\ ws' = [ws EXCEPT ![s] = d.ws] /\ pool' = d.pool /\ host' = d.host /\ mem' = d.mem
      /\ calls' = calls + 1
  BY KeyIsStream DEF Keep
<1>2. /\ d.slots \in [Slots -> SlotRecords] /\ d.next \in Slots /\ d.ws \in Buffers /\ d.pool \in Seq(Nat)
      /\ d.host \in Seq(Lists) /\ d.mem \in Seq(Contents) /\ d.ops \in Seq(CopyOps) /\ d.ops \in Seq(Ops)
      /\ run \in Seq(Ops) /\ queue[s] \in Seq(Ops) /\ mem \in Seq(Contents)
      /\ Extends(own, mem, own2, d.mem)
  BY CopiesAreOps, KernelsAreOps DEF CallFine, CallRecords, Shapes
<1>3. /\ queue'[s] = queue[s] \o d.ops \o run /\ staged'[s] = d.slots /\ ws'[s] = d.ws
      /\ \A t \in Streams : t # s => queue'[t] = queue[t] /\ staged'[t] = staged[t] /\ ws'[t] = ws[t]
  BY <1>1 DEF Shapes
<1>4. Shapes'
  <2>1. /\ staged' \in [Streams -> [Slots -> SlotRecords]] /\ next' \in [Streams -> Slots]
        /\ ws' \in [Streams -> Buffers]
    BY <1>1, <1>2 DEF Shapes
  <2>2. /\ pool' \in Seq(Nat) /\ \A i \in 1 .. Len(pool') : pool'[i] \in 1 .. Len(host')
        /\ host' \in Seq(Plans \cup {NoPlan})
    BY <1>1, <1>2 DEF Lists, CallFine
  <2>3. queue' \in [Streams -> Seq(Ops)]
    <3>1. queue[s] \o d.ops \o run \in Seq(Ops)
      BY <1>2
    <3>2. QED
      BY <3>1 DEF Shapes
  <2>4. /\ graphLists' \in [Plans -> Nat] /\ graph' \in [Streams -> Seq(KernelOps)]
        /\ capture' \in [Streams -> {"none", "open", "done"}] /\ mem' \in Seq(Contents) /\ calls' \in Nat
    BY <1>1, <1>2 DEF Shapes
  <2>5. QED
    BY <2>1, <2>2, <2>3, <2>4 DEF Shapes
<1>5. \A t \in Streams : \A i \in Slots : SlotFine(own2, t, i, staged'[t][i], queue'[t], mem')
  <2> TAKE t \in Streams
  <2> TAKE i \in Slots
  <2>1. CASE t = s
    <3> DEFINE q == queue[s] \o d.ops
               slot == d.slots[i]
    <3>1. SlotFine(own2, s, i, slot, q, d.mem) /\ q \in Seq(Ops)
      BY <1>2 DEF CallFine
    <3>2. staged'[t][i] = slot /\ queue'[t] = q \o run /\ mem' = d.mem
      BY <1>1, <1>3, <2>1
    <3>3. \A n \in 1 .. Len(run) : ~CopyTo(run[n], slot.list.ptr)
      BY KernelFacts
    <3> HIDE DEF q, slot
    <3>4. HoldsAfter(q, d.mem, Len(q), slot.list.ptr, slot.plan)
          => HoldsAfter(q \o run, d.mem, Len(q \o run), slot.list.ptr, slot.plan)
      <4>1. Len(run) \in 0 .. Len(run) /\ Len(q \o run) = Len(q) + Len(run)
        BY <1>2, <3>1
      <4>2. QED
        BY <1>2, <3>1, <3>3, <4>1, HoldsPast
    <3>5. QED
      BY <2>1, <3>1, <3>2, <3>4 DEF SlotFine
  <2>2. CASE t # s
    <3>1. SlotFine(own, t, i, staged[t][i], queue[t], mem)
      BY DEF Owned
    <3>2. SlotFine(own2, t, i, staged[t][i], queue[t], d.mem)
      BY <1>2, <3>1, SlotExtends
    <3>3. QED
      BY <1>1, <1>3, <2>2, <3>2
  <2>3. QED
    BY <2>1, <2>2
<1>6. \A t \in Streams : WsFine(own2, t, ws'[t], mem')
  <2> TAKE t \in Streams
  <2>1. CASE t = s
    BY <1>1, <1>3, <2>1 DEF CallFine
  <2>2. CASE t # s
    <3>1. WsFine(own, t, ws[t], mem)
      BY DEF Owned
    <3>2. WsFine(own2, t, ws[t], d.mem)
      BY <1>2, <3>1, WsExtends
    <3>3. QED
      BY <1>1, <1>3, <2>2, <3>2
  <2>3. QED
    BY <2>1, <2>2
<1>7. \A t \in Streams : QueueFine(own2, t, queue'[t], host', mem', capture')
  <2> TAKE t \in Streams
  <2>1. CASE t = s
    <3>1. QueueFine(own2, s, queue[s] \o d.ops \o run, d.host, d.mem, capture)
      BY RunQueues, Zenon
    <3>2. QED
      BY <1>1, <1>3, <2>1, <3>1
  <2>2. CASE t # s
    <3>1. QueueFine(own, t, queue[t], host, mem, capture) /\ HostKeeps(queue[t], d.host) /\ queue[t] \in Seq(Ops)
      BY DEF Owned, CallFine, Shapes
    <3>2. QueueFine(own2, t, queue[t], d.host, d.mem, capture)
      BY <1>2, <3>1, QueueExtends
    <3>3. QED
      BY <1>1, <1>3, <2>2, <3>2
  <2>3. QED
    BY <2>1, <2>2
<1>8. \A t \in Streams : GraphFine(own2, t, graph'[t], mem')
  <2> TAKE t \in Streams
  <2>1. GraphFine(own, t, graph[t], mem)
    BY DEF Owned
  <2>2. GraphFine(own2, t, graph[t], d.mem)
    BY <1>2, <2>1, GraphExtends
  <2>3. QED
    BY <1>1, <2>2
<1>9. \A p \in Plans : GraphListFine(own2, graphLists'[p], p, mem')
  <2> TAKE p \in Plans
  <2>1. GraphListFine(own, graphLists[p], p, mem)
    BY DEF Owned
  <2>2. GraphListFine(own2, graphLists[p], p, d.mem)
    BY <1>2, <2>1, GraphListExtends
  <2>3. QED
    BY <1>1, <2>2
<1>10. \A t, u \in Streams : t # u => WsApart(queue'[t], queue'[u])
  <2> TAKE t, u \in Streams
  <2> HAVE t # u
  <2>1. CASE t = s
    <3>1. WsApart(queue[s] \o d.ops \o run, queue[u])
      BY <2>1, RunApart
    <3>2. QED
      BY <1>3, <2>1, <3>1
  <2>2. CASE u = s
    <3>1. WsApart(queue[s] \o d.ops \o run, queue[t])
      BY <2>2, RunApart
    <3>2. QED
      BY <1>3, <2>2, <3>1, ApartSwaps
  <2>3. CASE t # s /\ u # s
    BY <1>3, <2>3 DEF Owned
  <2>4. QED
    BY <2>1, <2>2, <2>3
<1>11. QED
  BY <1>4, <1>5, <1>6, <1>7, <1>8, <1>9, <1>10 DEF Owned

-----------------------------------------------------------------------------
(* A call that waits, if it does, is still waiting after its later steps.  *)
Waiting(c, w) == "waits" \in DOMAIN c /\ (w => c.waits)

LEMMA UploadWaits ==
  ASSUME NEW c, NEW w, Waiting(c, w), NEW to, NEW plan
  PROVE  Waiting(Uploaded(c, to, plan), w) /\ Waiting(WithPinned(c, plan), w)
<1>1. Waiting(WithPinned(c, plan), w)
  BY DEF WithPinned, Waiting
<1>2. QED
  BY <1>1 DEF Uploaded, Waiting

LEMMA StageWaits ==
  ASSUME NEW c, NEW w, Waiting(c, w), NEW key, NEW plan, NEW oom
  PROVE  Waiting(Stage(c, key, plan, oom), w)
<1> DEFINE i == c.next
           g == Grown(c.slots[i].list, ListSize[plan.problem], c.mem, oom = "list")
           e == [c EXCEPT !.next = (i + 1) % StagingSlots, !.mem = g.mem, !.at = i,
                          !.waits = @ \/ (g.buf.ptr # 0 /\ ~MayTake(c)),
                          !.slots[i] = [key |-> None, plan |-> @.plan, list |-> g.buf]]
           f == IF TakesOldest(e) THEN [e EXCEPT !.pool = Append(Tail(@), Head(@))]
                                  ELSE WithPinned(e, NoPlan)
           u == Uploaded(e, g.buf.ptr, plan)
<1>1. Stage(c, key, plan, oom) =
        CASE g.buf.ptr = 0 -> Failed(e)
          [] g.buf.ptr # 0 /\ oom = "pinned" -> Failed(f)
          [] OTHER -> [u EXCEPT !.slots[i].key = key, !.slots[i].plan = plan]
  BY DEF Stage, StageWith
<1> HIDE DEF g, i
<1>2. Waiting(e, w)
  BY DEF Waiting
<1> HIDE DEF e
<1>3. Waiting(f, w)
  BY <1>2, UploadWaits DEF Waiting
<1>4. Waiting(u, w)
  BY <1>2, UploadWaits
<1> HIDE DEF f, u
<1>5. Waiting(Failed(e), w) /\ Waiting(Failed(f), w)
  BY <1>2, <1>3 DEF Waiting, Failed
<1>6. Waiting([u EXCEPT !.slots[i].key = key, !.slots[i].plan = plan], w)
  BY <1>4 DEF Waiting
<1>7. QED
  BY <1>1, <1>5, <1>6

LEMMA WorkspaceWaits ==
  ASSUME NEW c, NEW w, Waiting(c, w), NEW p, NEW noWs, NEW oom
  PROVE  Waiting(WithWorkspace(c, p, noWs, oom), w)
<1> DEFINE slots == c.slots[c.at].plan.slots
           g == Grown(c.ws, slots, c.mem, noWs)
           d == [c EXCEPT !.ws = g.buf, !.mem = g.mem]
<1>1. WithWorkspace(c, p, noWs, oom) = IF slots = 0 THEN c ELSE IF g.buf.ptr # 0 THEN d
                                       ELSE Stage(d, None, Unsplit(p), oom)
  BY DEF WithWorkspace
<1> HIDE DEF g
<1>2. Waiting(d, w)
  BY DEF Waiting
<1> HIDE DEF d
<1>3. Waiting(Stage(d, None, Unsplit(p), oom), w)
  BY <1>2, StageWaits
<1>4. QED
  BY <1>1, <1>2, <1>3

LEMMA CallStateFine ==
  ASSUME NEW s \in Streams, NEW own, Shapes, Owned(own)
  PROVE  CallFine(own, own, s, CallState(s)) /\ ~CallState(s).waits
<1> DEFINE c == CallState(s)
<1>1. c = [slots |-> staged[s], next |-> next[s], ws |-> ws[s], pool |-> pool, host |-> host,
           mem |-> mem, ops |-> <<>>, at |-> 0, ok |-> TRUE, waits |-> FALSE]
  BY KeyIsStream DEF CallState
<1>2. c \in CallRecords
  BY <1>1, SlotsShape DEF Shapes, CallRecords, Lists
<1>3. /\ c.slots = staged[s] /\ c.ws = ws[s] /\ c.pool = pool /\ c.host = host /\ c.mem = mem
      /\ c.ops = <<>> /\ ~c.waits
  BY <1>1
<1> HIDE DEF c
<1>4. queue[s] \o c.ops = queue[s]
  BY <1>3 DEF Shapes
<1>5. Extends(own, mem, own, mem)
  <2>1. Len(mem) \in Nat
    BY DEF Shapes
  <2>2. QED
    BY <2>1 DEF Extends
<1>6. \A t \in Streams : HostKeeps(queue[t], host)
  BY DEF Owned, QueueFine, CopyFine, HostKeeps
<1>7. HostKeeps(c.ops, c.host) /\ Len(c.ops) = 0
  BY <1>3 DEF HostKeeps
<1>8. \A i \in Slots : SlotFine(own, s, i, c.slots[i], queue[s] \o c.ops, c.mem)
  BY <1>3, <1>4 DEF Owned
<1>9. WsFine(own, s, c.ws, c.mem) /\ c.ws.ptr \in {0, ws[s].ptr}
  BY <1>3 DEF Owned
<1>10. \A i \in 1 .. Len(c.pool) : c.pool[i] \in 1 .. Len(c.host)
  BY <1>3 DEF Shapes
<1>11. CallFine(own, own, s, c)
  BY <1>2, <1>3, <1>5, <1>6, <1>7, <1>8, <1>9, <1>10 DEF CallFine
<1>12. QED
  BY <1>3, <1>11 DEF c

(* A workspace a call may use is its stream's alone.                       *)
LEMMA WsIsOurs ==
  ASSUME NEW s \in Streams, NEW own, NEW own2, NEW d, Shapes, Owned(own), CallFine(own, own2, s, d),
         capture[s] = "done" => Alone(s, ws[s].ptr)
  PROVE  WsOurs(s, d.ws.ptr)
<1> SUFFICES ASSUME NEW t \in Streams, t # s, NEW i \in 1 .. Len(queue[t]),
                    queue[t][i].op # "copy", d.ws.ptr # 0, queue[t][i].ws = d.ws.ptr
             PROVE  FALSE
  BY DEF WsOurs
<1>1. KernelWs(own, t, queue[t][i], mem, capture)
  BY DEF Owned, QueueFine
<1>2. d.ws.ptr \in Addresses(mem) /\ \E u \in Streams : own[d.ws.ptr] = WsOwner(u) /\ (u # t => capture[u] = "done")
  BY <1>1 DEF KernelWs
<1>3. d.ws.ptr = ws[s].ptr
  <2>1. d.ws.ptr \in {0, ws[s].ptr} \/ d.ws.ptr > Len(mem)
    BY DEF CallFine
  <2>2. Len(mem) \in Nat
    BY DEF Shapes
  <2>3. QED
    BY <1>2, <2>1, <2>2 DEF Addresses
<1>4. own[d.ws.ptr] = WsOwner(s)
  <2>1. WsFine(own, s, ws[s], mem)
    BY DEF Owned
  <2>2. QED
    BY <1>3, <2>1 DEF WsFine
<1>5. capture[s] = "done"
  BY <1>2, <1>4 DEF WsOwner
<1>6. ~UsesWs(queue[t], ws[s].ptr)
  BY <1>5 DEF Alone
<1>7. QED
  BY <1>3, <1>6 DEF UsesWs

KernelsOf(run, plan, list, w, p) ==
  /\ run \in Seq(KernelOps)
  /\ \A i \in 1 .. Len(run) :
       /\ run[i].list = list /\ run[i].plan = plan /\ run[i].problem = p
       /\ run[i].ws = (IF plan.slots = 0 THEN 0 ELSE w)
       /\ run[i].op = "merge" => plan.slots # 0 /\ AfterItsFwd(run, i)

LEMMA KernelsShape ==
  ASSUME NEW plan \in Plans, NEW list \in Nat, NEW w \in Nat, NEW p \in Problems, calls \in Nat
  PROVE  KernelsOf(Kernels(plan, list, w, p), plan, list, w, p)
<1> DEFINE run == Kernels(plan, list, w, p)
           fwd == [op |-> "fwd", list |-> list, ws |-> IF plan.slots = 0 THEN 0 ELSE w,
                   plan |-> plan, problem |-> p, call |-> calls, replay |-> NotReplayed]
           merge == [op |-> "merge", list |-> list, ws |-> IF plan.slots = 0 THEN 0 ELSE w,
                     plan |-> plan, problem |-> p, call |-> calls, replay |-> NotReplayed]
<1>1. fwd \in KernelOps /\ merge \in KernelOps /\ [fwd EXCEPT !.op = "merge"] = merge
      /\ [merge EXCEPT !.op = "fwd"] = fwd
  BY DEF KernelOps, NotReplayed
<1>2. /\ fwd.list = list /\ fwd.plan = plan /\ fwd.problem = p /\ fwd.op = "fwd"
      /\ fwd.ws = (IF plan.slots = 0 THEN 0 ELSE w)
      /\ merge.list = list /\ merge.plan = plan /\ merge.problem = p
      /\ merge.ws = (IF plan.slots = 0 THEN 0 ELSE w)
  OBVIOUS
<1>3. run = IF plan.slots = 0 THEN <<fwd>> ELSE <<fwd, merge>>
  BY <1>1 DEF Kernels
<1> HIDE DEF run, fwd, merge
<1>4. CASE plan.slots = 0
  <2>1. run = <<fwd>> /\ run \in Seq(KernelOps) /\ Len(run) = 1 /\ run[1] = fwd
    BY <1>1, <1>3, <1>4
  <2>2. \A i \in 1 .. Len(run) : run[i] = fwd
    BY <2>1
  <2>3. QED
    BY <1>2, <2>1, <2>2 DEF run, KernelsOf
<1>5. CASE plan.slots # 0
  <2>1. run = <<fwd, merge>> /\ run \in Seq(KernelOps) /\ Len(run) = 2 /\ run[1] = fwd /\ run[2] = merge
    BY <1>1, <1>3, <1>5
  <2>2. \A i \in 1 .. Len(run) : i = 1 \/ i = 2
    BY <2>1
  <2>3. AfterItsFwd(run, 2)
    BY <1>1, <2>1 DEF AfterItsFwd
  <2>4. QED
    BY <1>2, <1>5, <2>1, <2>2, <2>3 DEF run, KernelsOf
<1>6. QED
  BY <1>4, <1>5

LEMMA KernelsFine ==
  ASSUME NEW s \in Streams, NEW own, NEW own2, NEW d, NEW p \in Problems, Shapes,
         CallFine(own, own2, s, d), Ready(s, d, p)
  PROVE  LET run == Kernels(d.slots[d.at].plan, d.slots[d.at].list.ptr, d.ws.ptr, p)
         IN run \in Seq(KernelOps) /\ RunFine(own2, s, d, run)
<1> DEFINE slot == d.slots[d.at]
           run == Kernels(slot.plan, slot.list.ptr, d.ws.ptr, p)
<1>1. PICK plan \in Plans : AtFine(s, d, plan) /\ plan.problem = p /\ (plan.slots # 0 => d.ws.ptr # 0)
  BY DEF Ready
<1>2. d.at \in Slots /\ slot \in SlotRecords /\ slot.list.ptr \in Nat /\ d.ws.ptr \in Nat /\ calls \in Nat
  BY DEF CallFine, CallRecords, SlotRecords, Buffers, Shapes
<1>3. slot.plan = plan /\ slot.list.ptr # 0
      /\ HoldsAfter(queue[s] \o d.ops, d.mem, Len(queue[s] \o d.ops), slot.list.ptr, plan)
  BY <1>1 DEF AtFine
<1>4. slot.list.ptr \in Addresses(d.mem) /\ own2[slot.list.ptr] = ListOwner(s, d.at)
  BY <1>2, <1>3 DEF CallFine, SlotFine
<1>5. run = Kernels(plan, slot.list.ptr, d.ws.ptr, p)
  BY <1>3
<1> HIDE DEF run, slot
<1>6. KernelsOf(run, plan, slot.list.ptr, d.ws.ptr, p)
  BY <1>2, <1>5, KernelsShape
<1>7. RunFine(own2, s, d, run)
  BY <1>1, <1>2, <1>3, <1>4, <1>6 DEF RunFine, KernelsOf
<1>8. QED
  BY <1>6, <1>7 DEF run, slot, KernelsOf

LEMMA LaunchKeeps ==
  ASSUME NEW s \in Streams, NEW p \in Problems, Inv, Launch(s, p)
  PROVE  Inv'
<1> USE DEF Inv
<1>1. PICK own : Owned(own)
  OBVIOUS
<1>2. PICK oom1 \in Oom, oom2 \in Oom, noWs \in BOOLEAN :
        LET c == Find(CallState(s), p, oom1)
            d == IF c.ok THEN WithWorkspace(c, p, noWs, oom2) ELSE c
            slot == d.slots[d.at]
            run == IF d.ok THEN Kernels(slot.plan, slot.list.ptr, d.ws.ptr, p) ELSE <<>>
        IN /\ oom2 # None => noWs
           /\ ~d.waits
           /\ Keep(s, d)
           /\ queue' = [queue EXCEPT ![s] = @ \o d.ops \o run]
  BY Zenon DEF Launch
<1> DEFINE c == Find(CallState(s), p, oom1)
           d == IF c.ok THEN WithWorkspace(c, p, noWs, oom2) ELSE c
           run == IF d.ok THEN Kernels(d.slots[d.at].plan, d.slots[d.at].list.ptr, d.ws.ptr, p) ELSE <<>>
<1>3. /\ ~d.waits /\ Keep(s, d) /\ queue' = [queue EXCEPT ![s] = @ \o d.ops \o run]
      /\ UNCHANGED <<graphLists, capture, graph>> /\ (capture[s] = "done" => Alone(s, ws[s].ptr))
      /\ mem \in Seq(Contents) /\ queue \in [Streams -> Seq(Ops)]
  BY <1>2, KeyIsStream DEF Launch, Shapes
<1>4. c = Find(CallState(s), p, oom1) /\ d = IF c.ok THEN WithWorkspace(c, p, noWs, oom2) ELSE c
  OBVIOUS
<1> HIDE DEF c
<1>5. ~c.waits
  <2> SUFFICES ASSUME c.waits PROVE FALSE
    OBVIOUS
  <2>1. Waiting(c, FALSE)
    <3>1. CallState(s) \in CallRecords
      BY <1>1, CallStateFine DEF CallFine
    <3>2. Waiting(CallState(s), FALSE)
      BY <3>1 DEF CallRecords, Waiting
    <3>3. Waiting(Stage(CallState(s), p, PlanOf(p), oom1), FALSE)
      BY <3>2, StageWaits
    <3>4. QED
      BY <1>4, <3>2, <3>3 DEF Find, Waiting
  <2>2. Waiting(WithWorkspace(c, p, noWs, oom2), TRUE)
    <3>1. Waiting(c, TRUE)
      BY <2>1 DEF Waiting
    <3>2. QED
      BY <3>1, WorkspaceWaits
  <2>3. QED
    BY <1>3, <1>4, <2>2 DEF Waiting
<1>6. (\E own2 : CallFine(own, own2, s, c)) /\ (c.ok => AtFine(s, c, PlanOf(p)))
  <2>1. CallFine(own, own, s, CallState(s))
    BY <1>1, CallStateFine
  <2>2. QED
    BY <1>3, <1>4, <1>5, <2>1, FindFine, Zenon
<1> HIDE DEF d
<1>7. (\E own2 : CallFine(own, own2, s, d)) /\ (d.ok => Ready(s, d, p))
  <2>1. CASE c.ok
    <3>1. PICK own2 : CallFine(own, own2, s, c)
      BY <1>6
    <3>2. d = WithWorkspace(c, p, noWs, oom2) /\ AtFine(s, c, PlanOf(p)) /\ ~d.waits
      BY <1>3, <1>4, <1>6, <2>1
    <3>3. QED
      BY <1>3, <3>1, <3>2, WithWorkspaceFine, Zenon
  <2>2. CASE ~c.ok
    BY <1>4, <1>6, <2>2
  <2>3. QED
    BY <2>1, <2>2
<1>8. PICK own2 : CallFine(own, own2, s, d)
  BY <1>7
<1>9. run \in Seq(KernelOps) /\ RunFine(own2, s, d, run)
  <2>1. CASE d.ok
    <3>1. run = Kernels(d.slots[d.at].plan, d.slots[d.at].list.ptr, d.ws.ptr, p)
      BY <2>1
    <3>2. QED
      BY <1>7, <1>8, <2>1, <3>1, KernelsFine
  <2>2. CASE ~d.ok
    <3>1. run = <<>>
      BY <2>2
    <3>2. QED
      <4>1. <<>> \in Seq(KernelOps) /\ Len(<<>>) = 0
        OBVIOUS
      <4>2. RunFine(own2, s, d, <<>>)
        BY <4>1 DEF RunFine
      <4>3. QED
        BY <3>1, <4>1, <4>2
  <2>3. QED
    BY <2>1, <2>2
<1> HIDE DEF run
<1>10. WsOurs(s, d.ws.ptr)
  BY <1>1, <1>3, <1>8, WsIsOurs
<1>11. Shapes' /\ Owned(own2)'
  BY <1>1, <1>3, <1>8, <1>9, <1>10, KeptFine
<1>12. QED
  BY <1>11

-----------------------------------------------------------------------------
LEMMA AfterShifts ==
  ASSUME NEW q \in Seq(Ops), NEW r \in Seq(Ops), NEW i \in 1 .. Len(r), AfterItsFwd(r, i)
  PROVE  AfterItsFwd(q \o r, Len(q) + i)
<1>1. i - 1 \in 1 .. Len(r) /\ Len(q) \in Nat /\ Len(r) \in Nat
  BY DEF AfterItsFwd
<1>2. \A k \in 1 .. Len(r) : (q \o r)[Len(q) + k] = r[k]
  <2> TAKE k \in 1 .. Len(r)
  <2>1. Len(q) + k \in 1 .. Len(q) + Len(r) /\ Len(q) + k > Len(q) /\ (Len(q) + k) - Len(q) = k
    BY <1>1
  <2>2. QED
    BY <2>1
<1>3. (Len(q) + i) - 1 = Len(q) + (i - 1) /\ Len(q) + i > 1
  BY <1>1
<1>4. QED
  BY <1>1, <1>2, <1>3 DEF AfterItsFwd

LEMMA GraphAppends ==
  ASSUME NEW s, NEW own, NEW m, NEW q \in Seq(KernelOps), NEW r \in Seq(KernelOps),
         GraphFine(own, s, q, m), GraphFine(own, s, r, m)
  PROVE  GraphFine(own, s, q \o r, m)
<1> DEFINE z == q \o r
           KernelFine(k) == /\ k.list \in Addresses(m) /\ own[k.list] = GraphOwner /\ m[k.list] = k.plan
                            /\ k.plan.problem = k.problem
                            /\ k.ws # 0 => k.ws \in Addresses(m) /\ own[k.ws] = WsOwner(s)
<1>1. /\ q \in Seq(Ops) /\ r \in Seq(Ops) /\ Len(q) \in Nat /\ Len(r) \in Nat /\ Len(z) = Len(q) + Len(r)
      /\ \A i \in 1 .. Len(q) : z[i] = q[i]
  BY KernelsAreOps
<1>2. \A i \in Len(q) + 1 .. Len(z) : i - Len(q) \in 1 .. Len(r) /\ z[i] = r[i - Len(q)] /\ Len(q) + (i - Len(q)) = i
  <2> TAKE i \in Len(q) + 1 .. Len(z)
  <2>1. i - Len(q) \in 1 .. Len(r) /\ i \in 1 .. Len(q) + Len(r) /\ i > Len(q) /\ Len(q) + (i - Len(q)) = i
    BY <1>1
  <2>2. QED
    BY <2>1
<1>3. \A i \in 1 .. Len(q) : KernelFine(q[i]) /\ (q[i].op = "merge" => q[i].ws # 0 /\ AfterItsFwd(q, i))
  BY DEF GraphFine
<1>4. \A i \in 1 .. Len(r) : KernelFine(r[i]) /\ (r[i].op = "merge" => r[i].ws # 0 /\ AfterItsFwd(r, i))
  BY DEF GraphFine
<1>5. \A i \in 1 .. Len(r) : AfterItsFwd(r, i) => AfterItsFwd(z, Len(q) + i)
  BY <1>1, AfterShifts
<1> HIDE DEF z, KernelFine
<1>6. \A i \in 1 .. Len(z) : KernelFine(z[i]) /\ (z[i].op = "merge" => z[i].ws # 0 /\ AfterItsFwd(z, i))
  <2> TAKE i \in 1 .. Len(z)
  <2>1. CASE i \in 1 .. Len(q)
    <3>1. z[i] = q[i] /\ (i > 1 => i - 1 \in 1 .. Len(q))
      BY <1>1, <2>1
    <3>2. AfterItsFwd(q, i) => AfterItsFwd(z, i)
      BY <1>1, <3>1 DEF AfterItsFwd
    <3>3. QED
      BY <1>3, <2>1, <3>1, <3>2
  <2>2. CASE i \in Len(q) + 1 .. Len(z)
    <3> DEFINE k == i - Len(q)
    <3>1. k \in 1 .. Len(r) /\ z[i] = r[k] /\ Len(q) + k = i
      BY <1>2, <2>2
    <3> HIDE DEF k
    <3>2. AfterItsFwd(r, k) => AfterItsFwd(z, i)
      BY <1>5, <3>1
    <3>3. QED
      BY <1>4, <3>1, <3>2
  <2>3. QED
    BY <1>1, <2>1, <2>2
<1>7. QED
  BY <1>6 DEF GraphFine, KernelFine, z

(* A captured call's list is new memory, a graph's own or none.            *)
GraphListGrows(own, m, list, plan) ==
  \E own2 : LET m2 == IF list > Len(m) THEN Append(m, plan) ELSE m IN
            m2 \in Seq(Contents) /\ Extends(own, m, own2, m2) /\ GraphListFine(own2, list, plan, m2)

LEMMA GraphListIsKept ==
  ASSUME NEW m \in Seq(Contents), NEW own, NEW c, NEW plan \in Plans, NEW noList \in BOOLEAN,
         graphLists \in [Plans -> Nat], GraphListFine(own, graphLists[plan], plan, m)
  PROVE  /\ GraphListGrows(own, m, GraphList(c, plan, noList, m), plan)
         /\ GraphList(c, plan, noList, m) \in Nat
<1> DEFINE list == GraphList(c, plan, noList, m)
           m2 == IF list > Len(m) THEN Append(m, plan) ELSE m
<1>1. list = IF graphLists[plan] # 0 THEN graphLists[plan] ELSE IF noList THEN 0 ELSE Len(m) + 1
  BY DEF GraphList
<1>2. Len(m) \in Nat /\ graphLists[plan] \in Nat /\ plan \in Contents
  BY DEF Contents
<1>3. Extends(own, m, own, m)
  BY <1>2 DEF Extends
<1> HIDE DEF list
<1>4. CASE graphLists[plan] # 0
  <2>1. list \in Addresses(m) /\ list = graphLists[plan]
    BY <1>1, <1>4 DEF GraphListFine
  <2>2. m2 = m
    BY <1>2, <2>1 DEF Addresses
  <2>3. m2 \in Seq(Contents) /\ Extends(own, m, own, m2) /\ GraphListFine(own, list, plan, m2)
    BY <1>3, <2>1, <2>2
  <2>4. QED
    BY <1>2, <2>1, <2>3 DEF GraphListGrows, list
<1>5. CASE graphLists[plan] = 0 /\ noList
  <2>1. list = 0 /\ m2 = m
    BY <1>1, <1>2, <1>5
  <2>2. GraphListFine(own, list, plan, m2)
    BY <2>1 DEF GraphListFine
  <2>3. m2 \in Seq(Contents) /\ Extends(own, m, own, m2) /\ GraphListFine(own, list, plan, m2)
    BY <1>3, <2>1, <2>2
  <2>4. QED
    BY <2>1, <2>3 DEF GraphListGrows, list
<1>6. CASE graphLists[plan] = 0 /\ ~noList
  <2> DEFINE own2 == [a \in Addresses(m2) |-> IF a = Len(m) + 1 THEN GraphOwner ELSE own[a]]
  <2>1. list = Len(m) + 1 /\ m2 = Append(m, plan)
    BY <1>1, <1>2, <1>6
  <2>2. /\ m2 \in Seq(Contents) /\ Len(m2) = Len(m) + 1 /\ m2[Len(m) + 1] = plan
        /\ \A a \in Addresses(m) : m2[a] = m[a] /\ a # Len(m) + 1 /\ a \in Addresses(m2)
        /\ Len(m) + 1 \in Addresses(m2)
    BY <1>2, <2>1 DEF Addresses
  <2> HIDE DEF m2
  <2>3. (\A a \in Addresses(m) : own2[a] = own[a]) /\ own2[Len(m) + 1] = GraphOwner
    BY <2>2
  <2> HIDE DEF own2
  <2>4. Extends(own, m, own2, m2)
    BY <1>2, <2>2, <2>3 DEF Extends
  <2>5. GraphListFine(own2, list, plan, m2)
    BY <2>1, <2>2, <2>3 DEF GraphListFine
  <2>6. QED
    BY <1>2, <2>1, <2>2, <2>4, <2>5 DEF GraphListGrows, list, m2
<1>7. QED
  BY <1>4, <1>5, <1>6

LEMMA LaunchCapturedKeeps ==
  ASSUME NEW s \in Streams, NEW p \in Problems, Inv, LaunchCaptured(s, p)
  PROVE  Inv'
<1>1. PICK own : Shapes /\ Owned(own)
  BY DEF Inv
<1>2. PICK noWs \in BOOLEAN, noList \in BOOLEAN :
        LET c == CallState(s)
            g == Grown(c.ws, WsSize[p], c.mem, noWs)
            plan == IF WsSize[p] > 0 /\ g.buf.ptr = 0 THEN Unsplit(p) ELSE PlanOf(p)
            list == GraphList(c, plan, noList, g.mem)
        IN /\ Keep(s, [c EXCEPT !.ws = g.buf,
                                !.mem = IF list > Len(g.mem) THEN Append(g.mem, plan) ELSE g.mem])
           /\ graphLists' = [graphLists EXCEPT ![plan] = list]
           /\ graph' = [graph EXCEPT ![s] =
                          IF list = 0 THEN @ ELSE @ \o Kernels(plan, list, g.buf.ptr, p)]
  BY Zenon DEF LaunchCaptured
<1> DEFINE c == CallState(s)
           g == Grown(c.ws, WsSize[p], c.mem, noWs)
           plan == IF WsSize[p] > 0 /\ g.buf.ptr = 0 THEN Unsplit(p) ELSE PlanOf(p)
           list == GraphList(c, plan, noList, g.mem)
           m2 == IF list > Len(g.mem) THEN Append(g.mem, plan) ELSE g.mem
           run == Kernels(plan, list, g.buf.ptr, p)
           d == [c EXCEPT !.ws = g.buf, !.mem = m2]
<1>3. /\ Keep(s, d) /\ graphLists' = [graphLists EXCEPT ![plan] = list]
      /\ graph' = [graph EXCEPT ![s] = IF list = 0 THEN @ ELSE @ \o run]
  BY <1>2
<1>4. queue' = queue /\ capture' = capture
  BY DEF LaunchCaptured
<1>5. /\ c \in CallRecords /\ c.slots = staged[s] /\ c.next = next[s] /\ c.ws = ws[s] /\ c.pool = pool
      /\ c.host = host /\ c.mem = mem
  <2>1. c = [slots |-> staged[s], next |-> next[s], ws |-> ws[s], pool |-> pool, host |-> host,
             mem |-> mem, ops |-> <<>>, at |-> 0, ok |-> TRUE, waits |-> FALSE]
    BY KeyIsStream DEF CallState
  <2>2. c \in CallRecords
    BY <1>1, CallStateFine DEF CallFine
  <2>3. QED
    BY <2>1, <2>2
<1> HIDE DEF c
<1>6. GrowsFine(own, mem, ws[s], WsOwner(s), g)
  <2>1. mem \in Seq(Contents) /\ ws[s] \in Buffers /\ WsSize[p] \in Nat
    BY <1>1, PlanFacts DEF Shapes
  <2>2. BufferFine(own, ws[s], WsOwner(s), mem)
    BY <1>1 DEF Owned, WsFine, BufferFine
  <2>3. GrowsFine(own, mem, ws[s], WsOwner(s), Grown(ws[s], WsSize[p], mem, noWs))
    BY <2>1, <2>2, GrownFine
  <2>4. QED
    BY <1>5, <2>3
<1> HIDE DEF g
<1>7. g.mem \in Seq(Contents) /\ g.buf \in Buffers /\ g.buf.ptr \in Nat /\ mem \in Seq(Contents)
  BY <1>1, <1>6 DEF GrowsFine, Buffers, Shapes
<1>8. PICK own2 : Extends(own, mem, own2, g.mem) /\ BufferFine(own2, g.buf, WsOwner(s), g.mem)
  BY <1>6 DEF GrowsFine
<1>9. /\ plan \in Plans /\ plan.problem = p
      /\ plan.slots # 0 => g.buf.ptr # 0
  BY PlanFacts
<1> HIDE DEF plan
<1>10. GraphListGrows(own2, g.mem, list, plan) /\ list \in Nat
  <2>1. GraphListFine(own, graphLists[plan], plan, mem) /\ graphLists \in [Plans -> Nat]
    BY <1>1, <1>9 DEF Owned, Shapes
  <2>2. GraphListFine(own2, graphLists[plan], plan, g.mem)
    BY <1>7, <1>8, <2>1, GraphListExtends
  <2>3. QED
    BY <1>7, <1>9, <2>1, <2>2, GraphListIsKept
<1> HIDE DEF list
<1>11. PICK own3 : m2 \in Seq(Contents) /\ Extends(own2, g.mem, own3, m2) /\ GraphListFine(own3, list, plan, m2)
  BY <1>10 DEF GraphListGrows
<1> HIDE DEF m2
<1>12. Extends(own, mem, own3, m2)
  BY <1>7, <1>8, <1>11, ExtendsTwice
<1>13. WsFine(own3, s, g.buf, m2)
  <2>1. WsFine(own2, s, g.buf, g.mem)
    BY <1>8 DEF WsFine, BufferFine
  <2>2. QED
    BY <1>7, <1>11, <2>1, WsExtends
<1>14. d.slots = staged[s] /\ d.next = next[s] /\ d.ws = g.buf /\ d.pool = pool /\ d.host = host /\ d.mem = m2
  BY <1>5 DEF CallRecords
<1> HIDE DEF d
<1>15. /\ staged' = staged /\ next' = next /\ ws' = [ws EXCEPT ![s] = g.buf] /\ pool' = pool
       /\ host' = host /\ mem' = m2 /\ calls' = calls + 1
  <2>1. /\ staged' = [staged EXCEPT ![s] = staged[s]] /\ next' = [next EXCEPT ![s] = next[s]]
        /\ ws' = [ws EXCEPT ![s] = g.buf] /\ pool' = pool
        /\ host' = host /\ mem' = m2 /\ calls' = calls + 1
    BY <1>3, <1>14, KeyIsStream DEF Keep
  <2>2. QED
    BY <1>1, <2>1 DEF Shapes
<1>16. list # 0 => run \in Seq(KernelOps) /\ GraphFine(own3, s, run, m2)
  <2>1. KernelsOf(run, plan, list, g.buf.ptr, p)
    BY <1>1, <1>7, <1>9, <1>10, KernelsShape DEF Shapes
  <2> HIDE DEF run
  <2>2. list # 0 => list \in Addresses(m2) /\ own3[list] = GraphOwner /\ m2[list] = plan
    BY <1>11 DEF GraphListFine
  <2>3. g.buf.ptr # 0 => g.buf.ptr \in Addresses(m2) /\ own3[g.buf.ptr] = WsOwner(s)
    BY <1>13 DEF WsFine
  <2>4. QED
    BY <1>9, <2>1, <2>2, <2>3 DEF KernelsOf, GraphFine
<1> HIDE DEF run
<1>17. graph' \in [Streams -> Seq(KernelOps)] /\ \A t \in Streams : GraphFine(own3, t, graph'[t], m2)
  <2>1. \A t \in Streams : graph[t] \in Seq(KernelOps) /\ GraphFine(own3, t, graph[t], m2)
    <3> TAKE t \in Streams
    <3>1. graph[t] \in Seq(KernelOps) /\ GraphFine(own, t, graph[t], mem)
      BY <1>1 DEF Owned, Shapes
    <3>2. QED
      BY <1>7, <1>11, <1>12, <3>1, GraphExtends
  <2>2. list # 0 => graph[s] \o run \in Seq(KernelOps) /\ GraphFine(own3, s, graph[s] \o run, m2)
    <3> HAVE list # 0
    <3>1. run \in Seq(KernelOps) /\ GraphFine(own3, s, run, m2)
      BY <1>16
    <3>2. QED
      BY <2>1, <3>1, GraphAppends
  <2>3. \A t \in Streams : graph'[t] = IF t = s /\ list # 0 THEN graph[s] \o run ELSE graph[t]
    BY <1>1, <1>3 DEF Shapes
  <2>4. graph' \in [Streams -> Seq(KernelOps)]
    <3>1. (IF list = 0 THEN graph[s] ELSE graph[s] \o run) \in Seq(KernelOps)
      BY <2>1, <2>2
    <3>2. QED
      BY <1>1, <1>3, <3>1 DEF Shapes
  <2>5. QED
    BY <2>1, <2>2, <2>3, <2>4
<1>18. graphLists' \in [Plans -> Nat] /\ \A x \in Plans : GraphListFine(own3, graphLists'[x], x, m2)
  <2>1. \A x \in Plans : GraphListFine(own3, graphLists[x], x, m2)
    <3> TAKE x \in Plans
    <3>1. GraphListFine(own, graphLists[x], x, mem)
      BY <1>1 DEF Owned
    <3>2. QED
      BY <1>7, <1>11, <1>12, <3>1, GraphListExtends
  <2>2. graphLists \in [Plans -> Nat]
    BY <1>1 DEF Shapes
  <2>3. \A x \in Plans : graphLists'[x] = IF x = plan THEN list ELSE graphLists[x]
    BY <1>3, <2>2
  <2>4. QED
    BY <1>3, <1>9, <1>10, <1>11, <2>1, <2>2, <2>3
<1>19. Shapes'
  <2>1. /\ staged' \in [Streams -> [Slots -> SlotRecords]] /\ next' \in [Streams -> Slots]
        /\ ws' \in [Streams -> Buffers]
    BY <1>1, <1>7, <1>15 DEF Shapes
  <2>2. /\ pool' \in Seq(Nat) /\ \A i \in 1 .. Len(pool') : pool'[i] \in 1 .. Len(host')
        /\ host' \in Seq(Plans \cup {NoPlan})
    BY <1>1, <1>15 DEF Shapes
  <2>3. queue' \in [Streams -> Seq(Ops)] /\ capture' \in [Streams -> {"none", "open", "done"}]
    BY <1>1, <1>4 DEF Shapes
  <2>4. mem' \in Seq(Contents) /\ calls' \in Nat
    BY <1>1, <1>11, <1>15 DEF Shapes
  <2>5. QED
    BY <1>17, <1>18, <2>1, <2>2, <2>3, <2>4 DEF Shapes
<1>20. \A t \in Streams : \A i \in Slots : SlotFine(own3, t, i, staged[t][i], queue[t], m2)
  <2> TAKE t \in Streams
  <2> TAKE i \in Slots
  <2>1. SlotFine(own, t, i, staged[t][i], queue[t], mem)
    BY <1>1 DEF Owned
  <2>2. QED
    BY <1>7, <1>11, <1>12, <2>1, SlotExtends
<1>21. \A t \in Streams : WsFine(own3, t, ws'[t], m2)
  <2> TAKE t \in Streams
  <2>1. CASE t = s
    BY <1>1, <1>13, <1>15, <2>1 DEF Shapes
  <2>2. CASE t # s
    <3>1. WsFine(own, t, ws[t], mem) /\ ws'[t] = ws[t]
      BY <1>1, <1>15, <2>2 DEF Owned, Shapes
    <3>2. WsFine(own3, t, ws[t], m2)
      BY <1>7, <1>11, <1>12, <3>1, WsExtends
    <3>3. QED
      BY <3>1, <3>2
  <2>3. QED
    BY <2>1, <2>2
<1>22. \A t \in Streams : QueueFine(own3, t, queue[t], host, m2, capture)
  <2> TAKE t \in Streams
  <2>1. QueueFine(own, t, queue[t], host, mem, capture) /\ queue[t] \in Seq(Ops)
    BY <1>1 DEF Owned, Shapes
  <2>2. HostKeeps(queue[t], host)
    BY <2>1 DEF QueueFine, CopyFine, HostKeeps
  <2>3. QED
    BY <1>7, <1>11, <1>12, <2>1, <2>2, QueueExtends
<1>23. \A t, u \in Streams : t # u => WsApart(queue[t], queue[u])
  BY <1>1 DEF Owned
<1>24. Owned(own3)'
  BY <1>4, <1>15, <1>17, <1>18, <1>20, <1>21, <1>22, <1>23 DEF Owned
<1>25. QED
  BY <1>19, <1>24 DEF Inv

LEMMA InvInit == Init => Inv
<1> SUFFICES ASSUME Init PROVE Inv
  OBVIOUS
<1>1. NoPlan \in Plans \cup {NoPlan} /\ NoBuffer \in Buffers /\ NoBuffer.ptr = 0
  BY DEF NoBuffer, Buffers
<1>2. [key |-> None, plan |-> NoPlan, list |-> NoBuffer] \in SlotRecords
  BY <1>1 DEF SlotRecords
<1>3. <<>> \in Seq(Nat) /\ <<>> \in Seq(Plans \cup {NoPlan}) /\ <<>> \in Seq(Contents) /\ <<>> \in Seq(Ops)
      /\ <<>> \in Seq(KernelOps) /\ Len(<<>>) = 0
  OBVIOUS
<1>4. Shapes
  <2>1. staged \in [Streams -> [Slots -> SlotRecords]] /\ next \in [Streams -> Slots]
    BY <1>2, SlotsShape DEF Init
  <2>2. ws \in [Streams -> Buffers] /\ graphLists \in [Plans -> Nat]
    BY <1>1 DEF Init
  <2>3. /\ pool \in Seq(Nat) /\ \A i \in 1 .. Len(pool) : pool[i] \in 1 .. Len(host)
        /\ host \in Seq(Plans \cup {NoPlan}) /\ mem \in Seq(Contents) /\ calls \in Nat
    BY <1>3 DEF Init
  <2>4. /\ queue \in [Streams -> Seq(Ops)] /\ graph \in [Streams -> Seq(KernelOps)]
        /\ capture \in [Streams -> {"none", "open", "done"}]
    BY <1>3 DEF Init
  <2>5. QED
    BY <2>1, <2>2, <2>3, <2>4 DEF Shapes
<1>5. \A own : Owned(own)
  <2> TAKE own
  <2>1. \A s \in Streams : \A i \in Slots : SlotFine(own, s, i, staged[s][i], queue[s], mem)
    BY <1>1 DEF Init, SlotFine
  <2>2. \A s \in Streams : WsFine(own, s, ws[s], mem)
    BY <1>1 DEF Init, WsFine
  <2>3. \A s \in Streams : queue[s] = <<>> /\ graph[s] = <<>> /\ Len(queue[s]) = 0 /\ Len(graph[s]) = 0
    BY <1>3 DEF Init
  <2>4. \A p \in Plans : GraphListFine(own, graphLists[p], p, mem)
    BY DEF Init, GraphListFine
  <2>5. QED
    BY <2>1, <2>2, <2>3, <2>4 DEF Owned, QueueFine, GraphFine, WsApart
<1>6. QED
  BY <1>4, <1>5 DEF Inv

LEMMA CaptureKeeps ==
  ASSUME NEW s \in Streams, Inv, BeginCapture(s) \/ EndCapture(s)
  PROVE  Inv'
<1>1. PICK own : Shapes /\ Owned(own)
  BY DEF Inv
<1>2. /\ staged' = staged /\ next' = next /\ ws' = ws /\ pool' = pool /\ host' = host
      /\ graphLists' = graphLists /\ queue' = queue /\ graph' = graph /\ mem' = mem /\ calls' = calls
  BY DEF BeginCapture, EndCapture
<1>3. /\ capture' \in [Streams -> {"none", "open", "done"}]
      /\ \A t \in Streams : capture[t] = "done" => capture'[t] = "done"
  BY <1>1 DEF BeginCapture, EndCapture, Shapes
<1>4. Shapes'
  BY <1>1, <1>2, <1>3 DEF Shapes
<1>5. \A t \in Streams : QueueFine(own, t, queue[t], host, mem, capture')
  <2> TAKE t \in Streams
  <2>1. QueueFine(own, t, queue[t], host, mem, capture) /\ queue[t] \in Seq(Ops) /\ mem \in Seq(Contents)
    BY <1>1 DEF Owned, Shapes
  <2>2. HostKeeps(queue[t], host)
    BY <2>1 DEF QueueFine, CopyFine, HostKeeps
  <2>3. Extends(own, mem, own, mem)
    <3>1. Len(mem) \in Nat
      BY <2>1
    <3>2. QED
      BY <3>1 DEF Extends
  <2>4. QED
    BY <1>3, <2>1, <2>2, <2>3, QueueExtends
<1>6. Owned(own)'
  BY <1>1, <1>2, <1>5 DEF Owned
<1>7. QED
  BY <1>4, <1>6 DEF Inv

(* A replay queues what the graph recorded, as one more call.              *)
LEMMA ReplayKeeps ==
  ASSUME NEW s \in Streams, NEW t \in Streams, Inv, Replay(s, t)
  PROVE  Inv'
<1>1. PICK own : Shapes /\ Owned(own)
  BY DEF Inv
<1> DEFINE g == graph[s]
           r == [i \in 1 .. Len(g) |-> [g[i] EXCEPT !.replay = calls]]
<1>2. /\ staged' = staged /\ next' = next /\ ws' = ws /\ pool' = pool /\ host' = host
      /\ graphLists' = graphLists /\ capture' = capture /\ graph' = graph /\ mem' = mem
      /\ calls' = calls + 1 /\ capture[s] = "done"
      /\ queue' = [queue EXCEPT ![t] = @ \o r]
      /\ \A i \in 1 .. Len(g) : Alone(t, g[i].ws)
  BY DEF Replay
<1>3. g \in Seq(KernelOps) /\ Len(g) \in Nat /\ calls \in Nat /\ queue[t] \in Seq(Ops)
      /\ queue \in [Streams -> Seq(Ops)]
  BY <1>1 DEF Shapes
<1>4. \A i \in 1 .. Len(g) : g[i] \in KernelOps
  BY <1>3
<1>5. /\ \A i \in 1 .. Len(g) : /\ [g[i] EXCEPT !.replay = calls] \in KernelOps
                                /\ r[i] = [g[i] EXCEPT !.replay = calls]
      /\ Len(r) = Len(g) /\ r \in Seq(KernelOps) /\ r \in Seq(Ops)
  <2>1. \A i \in 1 .. Len(g) : [g[i] EXCEPT !.replay = calls] \in KernelOps
    <3> TAKE i \in 1 .. Len(g)
    <3>1. g[i] \in KernelOps /\ calls \in Int
      BY <1>3, <1>4
    <3> HIDE DEF g
    <3>2. \A k \in KernelOps : [k EXCEPT !.replay = calls] \in KernelOps
      BY <3>1 DEF KernelOps
    <3>3. QED
      BY <3>1, <3>2
  <2>2. Len(r) = Len(g) /\ r \in Seq(KernelOps)
    <3> HIDE DEF g
    <3>1. r \in [1 .. Len(g) -> KernelOps]
      BY <2>1
    <3>2. QED
      BY <1>3, <3>1
  <2>3. QED
    BY <2>1, <2>2, KernelsAreOps
<1>6. \A i \in 1 .. Len(r) : /\ r[i].op = g[i].op /\ r[i].list = g[i].list /\ r[i].ws = g[i].ws
                             /\ r[i].plan = g[i].plan /\ r[i].problem = g[i].problem /\ i \in 1 .. Len(g)
  BY <1>4, <1>5 DEF KernelOps
<1>7. \A i \in 1 .. Len(r) : AfterItsFwd(g, i) => AfterItsFwd(r, i)
  <2> TAKE i \in 1 .. Len(r)
  <2> HAVE AfterItsFwd(g, i)
  <2>1. i > 1 /\ i - 1 \in 1 .. Len(r) /\ g[i - 1] = [g[i] EXCEPT !.op = "fwd"] /\ i \in 1 .. Len(g) /\ i - 1 \in 1 .. Len(g)
    BY <1>3, <1>5 DEF AfterItsFwd
  <2>2. r[i - 1] = [g[i - 1] EXCEPT !.replay = calls] /\ r[i] = [g[i] EXCEPT !.replay = calls]
    BY <1>5, <2>1
  <2>3. [[g[i] EXCEPT !.op = "fwd"] EXCEPT !.replay = calls] = [[g[i] EXCEPT !.replay = calls] EXCEPT !.op = "fwd"]
    OBVIOUS
  <2>4. QED
    BY <2>1, <2>2, <2>3 DEF AfterItsFwd
<1> HIDE DEF g, r
<1>8. GraphFine(own, s, g, mem)
  BY <1>1 DEF Owned, g
<1>9. \A i \in 1 .. Len(r) : NewFine(own, t, queue[t], r, host, mem, capture, i)
  <2> TAKE i \in 1 .. Len(r)
  <2>1. r[i].op # "copy"
    BY <1>5, KernelFacts
  <2>2. /\ g[i].list \in Addresses(mem) /\ own[g[i].list] = GraphOwner /\ mem[g[i].list] = g[i].plan
        /\ g[i].plan.problem = g[i].problem
        /\ g[i].ws # 0 => g[i].ws \in Addresses(mem) /\ own[g[i].ws] = WsOwner(s)
        /\ g[i].op = "merge" => g[i].ws # 0 /\ AfterItsFwd(g, i)
    BY <1>6, <1>8 DEF GraphFine
  <2>3. KernelWs(own, t, r[i], mem, capture)
    BY <1>2, <1>6, <2>2 DEF KernelWs
  <2>4. QED
    BY <1>6, <1>7, <2>1, <2>2, <2>3 DEF NewFine
<1>10. \A u \in Streams : queue'[u] = IF u = t THEN queue[t] \o r ELSE queue[u]
  BY <1>2, <1>3
<1>11. Shapes'
  <2>1. queue' \in [Streams -> Seq(Ops)]
    <3>1. queue[t] \o r \in Seq(Ops)
      BY <1>3, <1>5
    <3>2. QED
      BY <1>2, <1>3, <3>1
  <2>2. QED
    BY <1>1, <1>2, <1>3, <2>1 DEF Shapes
<1>12. \A u \in Streams : \A i \in Slots : SlotFine(own, u, i, staged[u][i], queue'[u], mem)
  <2> TAKE u \in Streams
  <2> TAKE i \in Slots
  <2> DEFINE slot == staged[u][i]
  <2>1. SlotFine(own, u, i, slot, queue[u], mem)
    BY <1>1 DEF Owned
  <2>2. CASE u = t
    <3>1. \A n \in 1 .. Len(r) : ~CopyTo(r[n], slot.list.ptr)
      BY <1>5, KernelFacts
    <3> HIDE DEF slot
    <3>2. HoldsAfter(queue[t], mem, Len(queue[t]), slot.list.ptr, slot.plan)
          => HoldsAfter(queue[t] \o r, mem, Len(queue[t] \o r), slot.list.ptr, slot.plan)
      <4>1. queue[t] \in Seq(Ops) /\ r \in Seq(Ops)
        BY <1>3, <1>5
      <4>2. Len(r) \in 0 .. Len(r) /\ Len(queue[t] \o r) = Len(queue[t]) + Len(r)
        BY <4>1
      <4>3. QED
        BY <3>1, <4>1, <4>2, HoldsPast
    <3>3. QED
      BY <1>10, <2>1, <2>2, <3>2 DEF SlotFine, slot
  <2>3. CASE u # t
    BY <1>10, <2>1, <2>3
  <2>4. QED
    BY <2>2, <2>3
<1>13. \A u \in Streams : QueueFine(own, u, queue'[u], host, mem, capture)
  <2> TAKE u \in Streams
  <2>1. QueueFine(own, u, queue[u], host, mem, capture)
    BY <1>1 DEF Owned
  <2>2. CASE u = t
    <3>1. QueueFine(own, t, queue[t] \o r, host, mem, capture)
      BY <1>3, <1>5, <1>9, <2>1, <2>2, QueueAppends
    <3>2. QED
      BY <1>10, <2>2, <3>1
  <2>3. CASE u # t
    BY <1>10, <2>1, <2>3
  <2>4. QED
    BY <2>2, <2>3
<1>14. ASSUME NEW u \in Streams, u # t PROVE WsApart(queue[t] \o r, queue[u])
  <2>1. WsApart(queue[t], queue[u])
    BY <1>1, <1>14 DEF Owned
  <2>2. WsApart(r, queue[u])
    BY <1>2, <1>6, <1>14 DEF WsApart, Alone, UsesWs
  <2>3. QED
    BY <1>3, <1>5, <2>1, <2>2, ApartAppends
<1>15. \A u, v \in Streams : u # v => WsApart(queue'[u], queue'[v])
  <2> TAKE u, v \in Streams
  <2> HAVE u # v
  <2>1. CASE u = t
    BY <1>10, <1>14, <2>1
  <2>2. CASE v = t
    <3>1. WsApart(queue[t] \o r, queue[u])
      BY <1>14, <2>2
    <3>2. QED
      BY <1>10, <2>2, <3>1, ApartSwaps
  <2>3. CASE u # t /\ v # t
    BY <1>1, <1>10, <2>3 DEF Owned
  <2>4. QED
    BY <2>1, <2>2, <2>3
<1>16. Owned(own)'
  BY <1>1, <1>2, <1>12, <1>13, <1>15 DEF Owned
<1>17. QED
  BY <1>11, <1>16 DEF Inv

-----------------------------------------------------------------------------
(* The device's step.  An address it writes is in its owner's hands: a     *)
(* copy's is one of its stream's lists, a split kernel's a workspace.      *)
WritesMem(s, m, m2, own) ==
  LET k == Head(queue[s]) IN
  \/ /\ k.op = "copy" /\ m2 = [m EXCEPT ![k.to] = k.plan]
     /\ k.to \in Addresses(m) /\ \E i \in Slots : own[k.to] = ListOwner(s, i)
  \/ /\ k.op = "fwd" /\ k.ws # 0 /\ m2 = [m EXCEPT ![k.ws] = Partials(k)]
     /\ k.ws \in Addresses(m) /\ \E t \in Streams : own[k.ws] = WsOwner(t)
  \/ k.op # "copy" /\ ~(k.op = "fwd" /\ k.ws # 0) /\ m2 = m

LEMMA RunWrites ==
  ASSUME NEW s \in Streams, NEW own, Shapes, Owned(own), Run(s)
  PROVE  WritesMem(s, mem, mem', own)
<1> DEFINE k == Head(queue[s])
<1>1. queue[s] \in Seq(Ops) /\ queue[s] # <<>>
  BY DEF Run, Shapes
<1>2. 1 \in 1 .. Len(queue[s]) /\ k = queue[s][1]
  BY <1>1
<1>3. mem' = IF k.op = "copy" THEN [mem EXCEPT ![k.to] = host[k.from]]
             ELSE IF k.op = "fwd" /\ k.ws # 0 THEN [mem EXCEPT ![k.ws] = Partials(k)]
             ELSE mem
  BY DEF Run
<1> HIDE DEF k
<1>4. k.op = "copy" => CopyFine(own, s, k, host, mem)
  BY <1>2 DEF Owned, QueueFine
<1>5. k.op # "copy" => KernelWs(own, s, k, mem, capture)
  BY <1>2 DEF Owned, QueueFine
<1>6. CASE k.op = "copy"
  BY <1>3, <1>4, <1>6 DEF CopyFine, WritesMem, k
<1>7. CASE k.op = "fwd" /\ k.ws # 0
  BY <1>3, <1>5, <1>7 DEF KernelWs, WritesMem, k
<1>8. CASE k.op # "copy" /\ ~(k.op = "fwd" /\ k.ws # 0)
  BY <1>3, <1>8 DEF WritesMem, k
<1>9. QED
  BY <1>6, <1>7, <1>8

(* What it leaves alone, and what a list's address holds then.             *)
LEMMA WritesOnly ==
  ASSUME NEW s \in Streams, NEW own, NEW m \in Seq(Contents), NEW m2, WritesMem(s, m, m2, own),
         Head(queue[s]) \in Ops
  PROVE  /\ m2 \in Seq(Contents) /\ Len(m2) = Len(m)
         /\ \A a \in Addresses(m) : own[a] = GraphOwner => m2[a] = m[a]
         /\ \A a \in Addresses(m), t \in Streams, i \in Slots : own[a] = ListOwner(t, i) =>
              m2[a] = IF CopyTo(Head(queue[s]), a) THEN Head(queue[s]).plan ELSE m[a]
         /\ \A a \in Addresses(m), t \in Streams, i \in Slots : t # s /\ own[a] = ListOwner(t, i) => m2[a] = m[a]
         /\ \A a \in Addresses(m), t \in Streams : own[a] = WsOwner(t) =>
              m2[a] = IF Head(queue[s]).op = "fwd" /\ Head(queue[s]).ws = a /\ a # 0
                      THEN Partials(Head(queue[s])) ELSE m[a]
<1> DEFINE k == Head(queue[s])
<1>1. k \in Ops
  OBVIOUS
<1>2. /\ \A t : WsOwner(t) # GraphOwner
      /\ \A t, i : ListOwner(t, i) # GraphOwner
      /\ \A t, u, i : ListOwner(t, i) # WsOwner(u)
      /\ \A t, u, i, j : ListOwner(t, i) = ListOwner(u, j) => t = u
  BY DEF ListOwner, WsOwner, GraphOwner
<1>3. Len(m) \in Nat
  OBVIOUS
<1> HIDE DEF k
<1>4. CASE k.op = "copy"
  <2>1. /\ m2 = [m EXCEPT ![k.to] = k.plan] /\ k.to \in Addresses(m)
        /\ \E i \in Slots : own[k.to] = ListOwner(s, i)
    BY <1>4 DEF WritesMem, k
  <2>2. k.plan \in Contents
    BY <1>1, <1>4 DEF Ops, CopyOps, KernelOps, Contents
  <2>3. m2 \in Seq(Contents) /\ Len(m2) = Len(m)
    BY <2>1, <2>2 DEF Addresses
  <2>4. \A a \in Addresses(m) : m2[a] = IF a = k.to THEN k.plan ELSE m[a]
    BY <2>1 DEF Addresses
  <2>5. \A a : CopyTo(k, a) <=> a = k.to
    BY <1>4 DEF CopyTo
  <2>6. k.op # "fwd"
    BY <1>4
  <2>7. QED
    BY <1>2, <2>1, <2>3, <2>4, <2>5, <2>6 DEF k
<1>5. CASE k.op = "fwd" /\ k.ws # 0
  <2>1. /\ m2 = [m EXCEPT ![k.ws] = Partials(k)] /\ k.ws \in Addresses(m)
        /\ \E t \in Streams : own[k.ws] = WsOwner(t)
    BY <1>5 DEF WritesMem, k
  <2>2. Partials(k) \in Contents
    <3>1. k.call \in Int /\ k.replay \in Int
      BY <1>1, <1>5 DEF Ops, CopyOps, KernelOps
    <3>2. QED
      BY <3>1 DEF Contents, Partials
  <2>3. m2 \in Seq(Contents) /\ Len(m2) = Len(m)
    BY <2>1, <2>2 DEF Addresses
  <2>4. \A a \in Addresses(m) : m2[a] = IF a = k.ws THEN Partials(k) ELSE m[a]
    BY <2>1 DEF Addresses
  <2>5. \A a : ~CopyTo(k, a)
    BY <1>5 DEF CopyTo
  <2>6. \A a \in Addresses(m) : own[a] = GraphOwner => m2[a] = m[a]
    BY <1>2, <2>1, <2>4
  <2>7. \A a \in Addresses(m), t \in Streams, i \in Slots : own[a] = ListOwner(t, i) => m2[a] = m[a]
    BY <1>2, <2>1, <2>4
  <2>8. \A a \in Addresses(m) : m2[a] = IF k.op = "fwd" /\ k.ws = a /\ a # 0 THEN Partials(k) ELSE m[a]
    BY <1>5, <2>4
  <2>9. QED
    BY <2>3, <2>5, <2>6, <2>7, <2>8 DEF k
<1>6. CASE k.op # "copy" /\ ~(k.op = "fwd" /\ k.ws # 0)
  <2>1. m2 = m
    BY <1>6 DEF WritesMem, k
  <2>2. \A a : ~CopyTo(k, a)
    BY <1>6 DEF CopyTo
  <2>3. QED
    BY <1>6, <2>1, <2>2 DEF k
<1>7. QED
  BY <1>4, <1>5, <1>6

LEMMA TailFacts ==
  ASSUME NEW q \in Seq(Ops), q # <<>>
  PROVE  /\ Tail(q) \in Seq(Ops) /\ Len(q) \in Nat \ {0} /\ Len(Tail(q)) = Len(q) - 1 /\ Head(q) = q[1]
         /\ \A i \in 1 .. Len(Tail(q)) : Tail(q)[i] = q[i + 1] /\ i + 1 \in 1 .. Len(q) /\ (i + 1) - 1 = i
  OBVIOUS

(* The stream's own queue after its head has run.                          *)
LEMMA OwnQueueRuns ==
  ASSUME NEW s \in Streams, NEW own, Shapes, Owned(own), Run(s)
  PROVE  QueueFine(own, s, Tail(queue[s]), host, mem', capture)
<1> DEFINE q == queue[s]
           z == Tail(q)
           l == mem'
<1>1. q \in Seq(Ops) /\ q # <<>> /\ mem \in Seq(Contents)
  BY DEF Run, Shapes
<1>2. /\ z \in Seq(Ops) /\ Len(q) \in Nat \ {0} /\ Len(z) = Len(q) - 1 /\ Head(q) = q[1]
      /\ \A i \in 1 .. Len(z) : z[i] = q[i + 1] /\ i + 1 \in 1 .. Len(q) /\ (i + 1) - 1 = i
  BY <1>1, TailFacts
<1>3. WritesMem(s, mem, l, own) /\ Head(q) \in Ops
  BY <1>1, RunWrites
<1>4. /\ Addresses(l) = Addresses(mem)
      /\ \A a \in Addresses(mem) : own[a] = GraphOwner => l[a] = mem[a]
      /\ \A a \in Addresses(mem), i \in Slots : own[a] = ListOwner(s, i) =>
           l[a] = IF CopyTo(Head(q), a) THEN Head(q).plan ELSE mem[a]
      /\ \A a \in Addresses(mem), t \in Streams : own[a] = WsOwner(t) =>
           l[a] = IF Head(q).op = "fwd" /\ Head(q).ws = a /\ a # 0 THEN Partials(Head(q)) ELSE mem[a]
  <2>1. /\ Len(l) = Len(mem)
        /\ \A a \in Addresses(mem) : own[a] = GraphOwner => l[a] = mem[a]
        /\ \A a \in Addresses(mem), t \in Streams, i \in Slots : own[a] = ListOwner(t, i) =>
             l[a] = IF CopyTo(Head(q), a) THEN Head(q).plan ELSE mem[a]
        /\ \A a \in Addresses(mem), t \in Streams : own[a] = WsOwner(t) =>
             l[a] = IF Head(q).op = "fwd" /\ Head(q).ws = a /\ a # 0 THEN Partials(Head(q)) ELSE mem[a]
    BY <1>1, <1>3, WritesOnly
  <2>2. Addresses(l) = Addresses(mem)
    BY <2>1 DEF Addresses
  <2> HIDE DEF q, l
  <2>3. QED
    BY <2>1, <2>2
<1>5. QueueFine(own, s, q, host, mem, capture)
  BY DEF Owned
<1> HIDE DEF q, l
<1>6. \A i \in 1 .. Len(z) : z[i].op = "copy" => CopyFine(own, s, z[i], host, l)
  <2> HIDE DEF z
  <2> TAKE i \in 1 .. Len(z)
  <2>1. z[i].op = "copy" => CopyFine(own, s, z[i], host, mem)
    BY <1>2, <1>5 DEF QueueFine
  <2>2. QED
    BY <1>4, <2>1 DEF CopyFine
<1>7. ASSUME NEW i \in 1 .. Len(z), z[i].op # "copy"
      PROVE  ListFine(own, s, z, l, i) /\ KernelWs(own, s, z[i], l, capture) /\ MergeFine(z, l, i)
  <2> DEFINE n == i + 1
  <2>1. n \in 1 .. Len(q) /\ z[i] = q[n] /\ n - 1 = i /\ n > 1 /\ i \in Nat /\ i >= 1
    BY <1>2
  <2> HIDE DEF n
  <2>2. ListFine(own, s, q, mem, n) /\ KernelWs(own, s, q[n], mem, capture) /\ MergeFine(q, mem, n)
    BY <1>5, <1>7, <2>1 DEF QueueFine
  <2>3. ListFine(own, s, z, l, i)
    <3>1. /\ q[n].list \in Addresses(l) /\ q[n].plan.problem = q[n].problem
          /\ \/ own[q[n].list] = GraphOwner /\ mem[q[n].list] = q[n].plan
             \/ (\E j \in Slots : own[q[n].list] = ListOwner(s, j)) /\ HoldsAfter(q, mem, i, q[n].list, q[n].plan)
      BY <1>4, <2>1, <2>2 DEF ListFine
    <3>2. CASE own[q[n].list] = GraphOwner /\ mem[q[n].list] = q[n].plan
      BY <1>4, <2>1, <3>1, <3>2 DEF ListFine
    <3>3. CASE (\E j \in Slots : own[q[n].list] = ListOwner(s, j)) /\ HoldsAfter(q, mem, i, q[n].list, q[n].plan)
      <4>1. l[q[n].list] = IF CopyTo(Head(q), q[n].list) THEN Head(q).plan ELSE mem[q[n].list]
        BY <1>4, <3>1, <3>3
      <4>2. i \in 1 .. Len(q)
        BY <1>2
      <4>3. HoldsAfter(z, l, i - 1, q[n].list, q[n].plan)
        BY <1>1, <3>3, <4>1, <4>2, HoldsTail
      <4>4. QED
        BY <2>1, <3>1, <3>3, <4>3 DEF ListFine
    <3>4. QED
      BY <3>1, <3>2, <3>3
  <2>4. KernelWs(own, s, z[i], l, capture)
    BY <1>4, <2>1, <2>2 DEF KernelWs
  <2>5. ASSUME z[i].op = "merge"
        PROVE  z[i].ws # 0 /\ (AfterItsFwd(z, i) \/ (i = 1 /\ l[z[i].ws] = Partials(z[i])))
    <3>1. q[n].ws # 0 /\ AfterItsFwd(q, n)
      BY <2>1, <2>2, <2>5 DEF MergeFine
    <3>2. q[i] = [q[n] EXCEPT !.op = "fwd"]
      BY <2>1, <3>1 DEF AfterItsFwd
    <3>3. CASE i > 1
      <4>1. i - 1 \in 1 .. Len(z) /\ (i - 1) + 1 = i
        BY <1>2, <2>1, <3>3
      <4>2. z[i - 1] = q[i]
        BY <1>2, <4>1
      <4>3. QED
        BY <2>1, <3>1, <3>2, <3>3, <4>2 DEF AfterItsFwd
    <3>4. CASE i = 1
      <4>1. q[n] \in Ops /\ q[n] \in KernelOps
        BY <1>1, <1>7, <2>1 DEF Ops, CopyOps
      <4>2. Head(q).op = "fwd" /\ Head(q).ws = q[n].ws /\ Partials(Head(q)) = Partials(q[n])
        BY <1>2, <3>2, <3>4, <4>1 DEF KernelOps, Partials
      <4>3. q[n].ws \in Addresses(mem) /\ \E t \in Streams : own[q[n].ws] = WsOwner(t)
        BY <2>2, <3>1 DEF KernelWs
      <4>4. l[q[n].ws] = Partials(q[n])
        BY <1>4, <3>1, <4>2, <4>3
      <4>5. QED
        BY <2>1, <3>1, <3>4, <4>4
    <3>5. QED
      BY <2>1, <3>3, <3>4
  <2>6. QED
    BY <2>3, <2>4, <2>5 DEF MergeFine
<1>8. QueueFine(own, s, z, host, l, capture)
  BY <1>6, <1>7 DEF QueueFine
<1>9. QED
  BY <1>8 DEF q, l

LEMMA OtherQueueRuns ==
  ASSUME NEW s \in Streams, NEW t \in Streams, t # s, NEW own, Shapes, Owned(own), Run(s)
  PROVE  QueueFine(own, t, queue[t], host, mem', capture)
<1> DEFINE q == queue[t]
           k == Head(queue[s])
           l == mem'
<1>1. q \in Seq(Ops) /\ mem \in Seq(Contents) /\ queue[s] \in Seq(Ops) /\ queue[s] # <<>>
      /\ 1 \in 1 .. Len(queue[s]) /\ k = queue[s][1]
  BY DEF Run, Shapes
<1>2. WritesMem(s, mem, l, own) /\ k \in Ops
  BY <1>1, RunWrites
<1>3. /\ Addresses(l) = Addresses(mem)
      /\ \A a \in Addresses(mem) : own[a] = GraphOwner => l[a] = mem[a]
      /\ \A a \in Addresses(mem), i \in Slots : own[a] = ListOwner(t, i) => l[a] = mem[a]
      /\ \A a \in Addresses(mem), u \in Streams : own[a] = WsOwner(u) =>
           l[a] = IF k.op = "fwd" /\ k.ws = a /\ a # 0 THEN Partials(k) ELSE mem[a]
  <2>1. /\ Len(l) = Len(mem)
        /\ \A a \in Addresses(mem) : own[a] = GraphOwner => l[a] = mem[a]
        /\ \A a \in Addresses(mem), u \in Streams, i \in Slots : u # s /\ own[a] = ListOwner(u, i) => l[a] = mem[a]
        /\ \A a \in Addresses(mem), u \in Streams : own[a] = WsOwner(u) =>
             l[a] = IF k.op = "fwd" /\ k.ws = a /\ a # 0 THEN Partials(k) ELSE mem[a]
    BY <1>1, <1>2, WritesOnly
  <2>2. Addresses(l) = Addresses(mem)
    BY <2>1 DEF Addresses
  <2> HIDE DEF q, k, l
  <2>3. QED
    BY <2>1, <2>2
<1>4. QueueFine(own, t, q, host, mem, capture) /\ WsApart(queue[s], q)
  BY DEF Owned
<1> HIDE DEF q, k, l
<1>5. \A i \in 1 .. Len(q) : q[i].op = "copy" => CopyFine(own, t, q[i], host, l)
  BY <1>3, <1>4 DEF QueueFine, CopyFine
<1>6. ASSUME NEW i \in 1 .. Len(q), q[i].op # "copy"
      PROVE  ListFine(own, t, q, l, i) /\ KernelWs(own, t, q[i], l, capture) /\ MergeFine(q, l, i)
  <2>1. ListFine(own, t, q, mem, i) /\ KernelWs(own, t, q[i], mem, capture) /\ MergeFine(q, mem, i)
    BY <1>4, <1>6 DEF QueueFine
  <2>2. ListFine(own, t, q, l, i)
    <3>1. l[q[i].list] = mem[q[i].list]
      BY <1>3, <2>1 DEF ListFine
    <3>2. HoldsAfter(q, mem, i - 1, q[i].list, q[i].plan) => HoldsAfter(q, l, i - 1, q[i].list, q[i].plan)
      BY <3>1, HoldsMemory
    <3>3. QED
      BY <1>3, <2>1, <3>1, <3>2 DEF ListFine
  <2>3. KernelWs(own, t, q[i], l, capture)
    BY <1>3, <2>1 DEF KernelWs
  <2>4. ASSUME q[i].ws # 0 PROVE l[q[i].ws] = mem[q[i].ws]
    <3>1. q[i].ws \in Addresses(mem) /\ \E u \in Streams : own[q[i].ws] = WsOwner(u)
      BY <2>1, <2>4 DEF KernelWs
    <3>2. ~(k.op = "fwd" /\ k.ws = q[i].ws)
      BY <1>1, <1>4, <1>6, <2>4 DEF WsApart
    <3>3. QED
      BY <1>3, <3>1, <3>2
  <2>5. MergeFine(q, l, i)
    BY <2>1, <2>4 DEF MergeFine
  <2>6. QED
    BY <2>2, <2>3, <2>5
<1>7. QueueFine(own, t, q, host, l, capture)
  BY <1>5, <1>6 DEF QueueFine
<1>8. QED
  BY <1>7 DEF q, l

LEMMA RunKeeps ==
  ASSUME NEW s \in Streams, Inv, Run(s)
  PROVE  Inv'
<1>1. PICK own : Shapes /\ Owned(own)
  BY DEF Inv
<1> DEFINE q == queue[s]
           l == mem'
<1>2. /\ staged' = staged /\ next' = next /\ ws' = ws /\ pool' = pool /\ host' = host
      /\ graphLists' = graphLists /\ capture' = capture /\ graph' = graph /\ calls' = calls
      /\ queue' = [queue EXCEPT ![s] = Tail(q)] /\ q # <<>>
  BY DEF Run
<1>3. q \in Seq(Ops) /\ mem \in Seq(Contents) /\ queue \in [Streams -> Seq(Ops)]
  BY <1>1 DEF Shapes
<1>4. /\ Tail(q) \in Seq(Ops) /\ Len(q) \in Nat \ {0} /\ Len(Tail(q)) = Len(q) - 1 /\ Head(q) = q[1]
      /\ \A i \in 1 .. Len(Tail(q)) : Tail(q)[i] = q[i + 1] /\ i + 1 \in 1 .. Len(q)
  BY <1>2, <1>3, TailFacts
<1>5. WritesMem(s, mem, l, own) /\ Head(q) \in Ops
  BY <1>1, <1>3, <1>4, RunWrites
<1>6. /\ l \in Seq(Contents) /\ Addresses(l) = Addresses(mem)
      /\ \A a \in Addresses(mem) : own[a] = GraphOwner => l[a] = mem[a]
      /\ \A a \in Addresses(mem), i \in Slots : own[a] = ListOwner(s, i) =>
           l[a] = IF CopyTo(Head(q), a) THEN Head(q).plan ELSE mem[a]
      /\ \A a \in Addresses(mem), t \in Streams, i \in Slots : t # s /\ own[a] = ListOwner(t, i) => l[a] = mem[a]
  BY <1>3, <1>5, WritesOnly DEF Addresses
<1>7. \A t \in Streams : queue'[t] = IF t = s THEN Tail(q) ELSE queue[t]
  BY <1>2, <1>3
<1>8. \A t \in Streams : QueueFine(own, t, queue'[t], host, l, capture)
  <2> TAKE t \in Streams
  <2>1. CASE t = s
    <3>1. QueueFine(own, s, Tail(queue[s]), host, l, capture)
      BY <1>1, OwnQueueRuns
    <3>2. QED
      BY <1>7, <2>1, <3>1
  <2>2. CASE t # s
    <3>1. QueueFine(own, t, queue[t], host, l, capture)
      BY <1>1, <2>2, OtherQueueRuns
    <3>2. QED
      BY <1>7, <2>2, <3>1
  <2>3. QED
    BY <2>1, <2>2
<1>9. \A t \in Streams : \A i \in Slots : SlotFine(own, t, i, staged[t][i], queue'[t], l)
  <2> TAKE t \in Streams
  <2> TAKE i \in Slots
  <2> DEFINE slot == staged[t][i]
  <2>1. SlotFine(own, t, i, slot, queue[t], mem)
    BY <1>1 DEF Owned
  <2> HIDE DEF slot, l, q
  <2>2. ASSUME t = s, slot.key # None
        PROVE  HoldsAfter(Tail(q), l, Len(Tail(q)), slot.list.ptr, slot.plan)
    <3>1. /\ slot.list.ptr \in Addresses(mem) /\ own[slot.list.ptr] = ListOwner(s, i)
          /\ HoldsAfter(q, mem, Len(q), slot.list.ptr, slot.plan)
      BY <2>1, <2>2 DEF SlotFine, q
    <3>2. l[slot.list.ptr] = IF CopyTo(Head(q), slot.list.ptr) THEN Head(q).plan ELSE mem[slot.list.ptr]
      BY <1>6, <3>1
    <3>3. Len(q) \in 1 .. Len(q)
      BY <1>4
    <3>4. HoldsAfter(Tail(q), l, Len(q) - 1, slot.list.ptr, slot.plan)
      BY <1>2, <1>3, <3>1, <3>2, <3>3, HoldsTail
    <3>5. QED
      BY <1>4, <3>4
  <2>3. ASSUME t # s, slot.key # None
        PROVE  HoldsAfter(queue[t], l, Len(queue[t]), slot.list.ptr, slot.plan)
    <3>1. l[slot.list.ptr] = mem[slot.list.ptr]
      BY <1>6, <2>1, <2>3 DEF SlotFine
    <3>2. QED
      BY <2>1, <2>3, <3>1, HoldsMemory DEF SlotFine
  <2>4. QED
    BY <1>6, <1>7, <2>1, <2>2, <2>3 DEF SlotFine, slot
<1>10. \A t \in Streams : WsFine(own, t, ws[t], l) /\ GraphFine(own, t, graph[t], l)
  BY <1>1, <1>6 DEF Owned, WsFine, GraphFine
<1>11. \A p \in Plans : GraphListFine(own, graphLists[p], p, l)
  BY <1>1, <1>6 DEF Owned, GraphListFine
<1>12. \A t, u \in Streams : t # u => WsApart(queue'[t], queue'[u])
  <2>1. \A r : WsApart(q, r) => WsApart(Tail(q), r)
    BY <1>4 DEF WsApart
  <2> TAKE t, u \in Streams
  <2> HAVE t # u
  <2>2. WsApart(queue[t], queue[u])
    BY <1>1 DEF Owned
  <2>3. CASE t = s
    BY <1>7, <2>1, <2>2, <2>3
  <2>4. CASE u = s
    <3>1. WsApart(Tail(q), queue[t])
      BY <2>1, <2>2, <2>4, ApartSwaps
    <3>2. QED
      BY <1>7, <2>4, <3>1, ApartSwaps
  <2>5. CASE t # s /\ u # s
    BY <1>7, <2>2, <2>5
  <2>6. QED
    BY <2>3, <2>4, <2>5
<1>13. Shapes'
  <2>1. queue' \in [Streams -> Seq(Ops)]
    BY <1>2, <1>3, <1>4
  <2>2. QED
    BY <1>1, <1>2, <1>6, <2>1 DEF Shapes
<1>14. Owned(own)'
  BY <1>2, <1>8, <1>9, <1>10, <1>11, <1>12 DEF Owned
<1>15. QED
  BY <1>13, <1>14 DEF Inv

LEMMA InvHolds == Spec => []Inv
<1>1. Inv /\ [Next]_vars => Inv'
  <2> SUFFICES ASSUME Inv, [Next]_vars PROVE Inv'
    OBVIOUS
  <2>1. ASSUME NEW s \in Streams, NEW p \in Problems, Launch(s, p) PROVE Inv'
    BY <2>1, LaunchKeeps
  <2>2. ASSUME NEW s \in Streams, NEW p \in Problems, LaunchCaptured(s, p) PROVE Inv'
    BY <2>2, LaunchCapturedKeeps
  <2>3. ASSUME NEW s \in Streams, BeginCapture(s) \/ EndCapture(s) PROVE Inv'
    BY <2>3, CaptureKeeps
  <2>4. ASSUME NEW s \in Streams, NEW t \in Streams, Replay(s, t) PROVE Inv'
    BY <2>4, ReplayKeeps
  <2>5. ASSUME NEW s \in Streams, Run(s) PROVE Inv'
    BY <2>5, RunKeeps
  <2>6. CASE UNCHANGED vars
    BY <2>6 DEF Inv, Shapes, Owned, vars
  <2>7. QED
    BY <2>1, <2>2, <2>3, <2>4, <2>5, <2>6 DEF Next
<1>2. QED
  BY <1>1, InvInit, PTL DEF Spec

(* A stream's first kernel reads its own list, and a merge its own         *)
(* partials: no place before it is left to copy to them.                   *)
LEMMA HeadFacts ==
  ASSUME Inv, NEW s \in Streams, Starting(s)
  PROVE  LET k == Head(queue[s]) IN
         /\ k.list # 0 /\ mem[k.list] = k.plan /\ k.plan.problem = k.problem
         /\ k.op = "merge" => mem[k.ws] = Partials(k)
<1>1. PICK own : Shapes /\ Owned(own)
  BY DEF Inv
<1> DEFINE q == queue[s]
           k == Head(q)
<1>2. q \in Seq(Ops) /\ q # <<>> /\ 1 \in 1 .. Len(q) /\ k = q[1] /\ k.op # "copy"
  BY <1>1 DEF Shapes, Starting
<1> HIDE DEF k
<1>3. ListFine(own, s, q, mem, 1) /\ MergeFine(q, mem, 1)
  BY <1>1, <1>2 DEF Owned, QueueFine
<1> HIDE DEF q
<1>4. k.list \in Addresses(mem) /\ k.plan.problem = k.problem
  BY <1>2, <1>3 DEF ListFine
<1>5. mem[k.list] = k.plan
  <2>1. CASE HoldsAfter(q, mem, 1 - 1, q[1].list, q[1].plan)
    <3>1. \A j \in 1 .. 1 - 1 : FALSE
      OBVIOUS
    <3>2. QED
      BY <1>2, <2>1, <3>1 DEF HoldsAfter
  <2>2. QED
    BY <1>2, <1>3, <2>1 DEF ListFine
<1>6. k.list # 0
  BY <1>4 DEF Addresses
<1>7. k.op = "merge" => mem[k.ws] = Partials(k)
  BY <1>2, <1>3 DEF MergeFine, AfterItsFwd
<1>8. QED
  BY <1>4, <1>5, <1>6, <1>7 DEF k, q

(* A kernel that starts reads the list of its own plan, whatever slots     *)
(* were reused, buffers grown or uploads failed before (ReadsOwnList).     *)
THEOREM ReadsOwnListHolds == Spec => []ReadsOwnList
<1>1. Inv => ReadsOwnList
  <2> SUFFICES ASSUME Inv PROVE ReadsOwnList
    OBVIOUS
  <2>1. QED
    BY HeadFacts DEF ReadsOwnList
<1>2. QED
  BY <1>1, InvHolds, PTL

(* A merge sums the partials its own call, and its own replay, left        *)
(* (MergesOwnPartials).                                                    *)
THEOREM MergesOwnPartialsHolds == Spec => []MergesOwnPartials
<1>1. Inv => MergesOwnPartials
  <2> SUFFICES ASSUME Inv PROVE MergesOwnPartials
    OBVIOUS
  <2>1. QED
    BY HeadFacts DEF MergesOwnPartials
<1>2. QED
  BY <1>1, InvHolds, PTL

(* A pinned buffer keeps its list while a copy from it is queued           *)
(* (CopiesOwnList).                                                        *)
THEOREM CopiesOwnListHolds == Spec => []CopiesOwnList
<1>1. Inv => CopiesOwnList
  BY DEF Inv, Owned, QueueFine, CopyFine, CopiesOwnList
<1>2. QED
  BY <1>1, InvHolds, PTL

(* The lists graphs recorded are never written again (GraphListsKept).     *)
THEOREM GraphListsKeptHolds == Spec => []GraphListsKept
<1>1. Inv => GraphListsKept
  BY DEF Inv, Owned, GraphFine, GraphListsKept
<1>2. QED
  BY <1>1, InvHolds, PTL
=============================================================================
