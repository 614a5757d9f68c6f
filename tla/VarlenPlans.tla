---------------------------- MODULE VarlenPlans ----------------------------
(***************************************************************************)
(* VarlenPlan objects over their C handles (csrc/gfx950/attention_api.cpp, *)
(* class VarlenPlan; attention_plan.hpp, "host: varlen plans"): planning   *)
(* in host or device mode, runs, graph captures that record either, and    *)
(* closing, which frees a handle's buffers at once or after a capture.     *)
(*                                                                         *)
(* Callers order a handle's kernels (a run follows its plan in stream      *)
(* order), so an eager kernel takes effect when it is queued; a captured   *)
(* one when its graph replays.  A list is the number of the plan call it   *)
(* was written for.                                                        *)
(***************************************************************************)
EXTENDS Integers, Sequences, FiniteSets, SequencesExt

CONSTANTS Threads, Devices, Objects,
          MaxHandles,   \* bound on C handles made
          MaxPlans,     \* bound on plan calls
          MaxCaptures,  \* bound on captures
          MaxOps,       \* bound on a graph's kernels
          MaxSize       \* bound on a list's size

ASSUME PlansAssumption ==
  {MaxHandles, MaxPlans, MaxCaptures, MaxOps, MaxSize} \subseteq Nat

VARIABLES
  object,    \* per VarlenPlan object: [handle, planned], handle 0 when it has none
  handles,   \* the C handles: [on, ready, capture, mode, plan, list, host, dev]
  mem,       \* per device address: the plan call its list is of
  owner,     \* per device address: its handle
  freed,     \* the addresses freed
  waiting,   \* closed_handles
  capturing, \* per thread and device: the capture on the thread's stream, 0 for none
  graphs,    \* per capture: [on, live, broken, ops]
  plans,     \* plan calls so far
  misread,   \* the kinds of run that have read another plan's list
  faulted    \* a kernel has used freed memory, or memory was freed twice

vars == <<object, handles, mem, owner, freed, waiting, capturing, graphs, plans, misread, faulted>>

NoBuffer == [ptr |-> 0, bytes |-> 0]
Sizes == 0 .. MaxSize                        \* 0 for a call with nothing to do

Init ==
  /\ object = [o \in Objects |-> [handle |-> 0, planned |-> FALSE]]
  /\ handles = <<>> /\ mem = <<>> /\ owner = <<>> /\ freed = {} /\ waiting = <<>>
  /\ capturing = [t \in Threads |-> [d \in Devices |-> 0]]
  /\ graphs = <<>>
  /\ plans = 0 /\ misread = {} /\ faulted = FALSE

(* The stream's graph capture id, unique to the capture.                   *)
CaptureFlag(t, d) == IF capturing[t][d] = 0 THEN 0 ELSE 1           \* mutant: only whether
CaptureId(t, d) == capturing[t][d]

-----------------------------------------------------------------------------
(* grow: at least doubling; the outgrown buffer is kept until release.     *)
Grown(buf, bytes, oom) ==
  LET n == IF 2 * buf.bytes > bytes THEN 2 * buf.bytes ELSE bytes IN
  IF bytes <= buf.bytes THEN buf
  ELSE IF oom THEN NoBuffer
  ELSE [ptr |-> Len(mem) + 1, bytes |-> n]

OutgrownFreed(old, new) == IF new.ptr # old.ptr THEN {old.ptr} \ {0} ELSE {}   \* mutant
Outgrown(old, new) == {}

(* Each mode has a list of its own.                                        *)
OneList(mode) == "dev"                                                         \* mutant
ListOf(mode) == mode

(* How a plan call may fail: refused arguments, no memory for the list, or *)
(* none after it, for the workspace or the pinned copy.                    *)
Failures == {"none", "invalid", "list", "later"}

Succeeds(fail, size, buf) == fail \notin {"invalid", "later"} /\ (size = 0 \/ buf.ptr # 0)

(* plan: the object's handle, on its first device, in host mode given host *)
(* lengths outside a capture, else in dev mode, whose list_varlen kernel   *)
(* writes the list now or at every replay.  A failure leaves it unplanned. *)
Plan(t, o, d, hostCu, size, fail) ==
  LET old == object[o].handle
      h == IF old = 0 THEN Len(handles) + 1 ELSE old
      was == IF old = 0 THEN [host |-> NoBuffer, dev |-> NoBuffer]
                        ELSE [host |-> handles[h].host, dev |-> handles[h].dev]
      c == CaptureId(t, d)
      mode == IF hostCu /\ capturing[t][d] = 0 THEN "host" ELSE "dev"
      prior == was[ListOf(mode)]
      buf == IF fail = "invalid" THEN prior ELSE Grown(prior, size, fail = "list")
      ok == Succeeds(fail, size, buf)
      new == buf.ptr > Len(mem)
      n == plans + 1
      hs == [on |-> d, ready |-> ok, capture |-> c, mode |-> mode, plan |-> n,
             list |-> IF ok /\ size > 0 THEN buf.ptr ELSE 0,
             host |-> IF ListOf(mode) = "host" THEN buf ELSE was.host,
             dev |-> IF ListOf(mode) = "dev" THEN buf ELSE was.dev]
      grown == IF new THEN Append(mem, 0) ELSE mem
  IN /\ plans < MaxPlans
     /\ old # 0 => handles[old].on = d
     /\ h <= MaxHandles
     /\ fail = "list" => size > prior.bytes
     /\ fail = "later" => size > 0
     /\ plans' = n
     /\ handles' = IF old = 0 THEN Append(handles, hs) ELSE [handles EXCEPT ![h] = hs]
     /\ object' = [object EXCEPT ![o] = [handle |-> h, planned |-> ok]]
     /\ owner' = IF new THEN Append(owner, h) ELSE owner
     /\ freed' = freed \cup Outgrown(prior, buf)
     /\ mem' = IF hs.list # 0 /\ capturing[t][d] = 0 THEN [grown EXCEPT ![hs.list] = n] ELSE grown
     /\ graphs' = IF hs.list # 0 /\ capturing[t][d] # 0
                  THEN [graphs EXCEPT ![capturing[t][d]].ops =
                          Append(@, [op |-> "list", at |-> hs.list, plan |-> n])]
                  ELSE graphs
     /\ UNCHANGED <<waiting, capturing, misread, faulted>>

(* run: refused when unplanned, or when the capture is not the plan's.     *)
Run(t, o) ==
  LET h == handles[object[o].handle]
      c == capturing[t][h.on]
  IN /\ object[o].planned
     /\ h.ready /\ CaptureId(t, h.on) = h.capture /\ h.list # 0
     /\ IF c # 0
        THEN /\ Len(graphs[c].ops) < MaxOps
             /\ graphs' = [graphs EXCEPT ![c].ops =
                             Append(@, [op |-> "run", at |-> h.list, plan |-> h.plan])]
             /\ UNCHANGED <<misread, faulted>>
        ELSE /\ misread' = misread \cup (IF mem[h.list] = h.plan THEN {} ELSE {h.mode})
             /\ faulted' = (faulted \/ h.list \in freed)
             /\ UNCHANGED graphs
     /\ UNCHANGED <<object, handles, mem, owner, freed, waiting, capturing, plans>>

-----------------------------------------------------------------------------
BeginCapture(t, d) ==
  /\ capturing[t][d] = 0 /\ Len(graphs) < MaxCaptures
  /\ graphs' = Append(graphs, [on |-> d, live |-> TRUE, broken |-> FALSE, ops |-> <<>>])
  /\ capturing' = [capturing EXCEPT ![t][d] = Len(graphs) + 1]
  /\ UNCHANGED <<object, handles, mem, owner, freed, waiting, plans, misread, faulted>>

EndCapture(t, d) ==
  /\ capturing[t][d] # 0
  /\ capturing' = [capturing EXCEPT ![t][d] = 0]
  /\ UNCHANGED <<object, handles, mem, owner, freed, waiting, graphs, plans, misread, faulted>>

Open(g) == \E t \in Threads, d \in Devices : capturing[t][d] = g

(* A replay runs the graph's kernels in order: what they find at an address*)
(* is what the last list before them wrote there.                          *)
HeldAfter(ops, n, a) ==
  LET lists == {j \in 1 .. n : ops[j].op = "list" /\ ops[j].at = a}
  IN IF lists = {} THEN mem[a] ELSE ops[Max(lists)].plan

Replay(g) ==
  LET ops == graphs[g].ops
      misled == \E i \in 1 .. Len(ops) : ops[i].op = "run" /\ HeldAfter(ops, i - 1, ops[i].at) # ops[i].plan
  IN /\ graphs[g].live /\ ~graphs[g].broken /\ ~Open(g) /\ ops # <<>>
     /\ mem' = [a \in 1 .. Len(mem) |-> HeldAfter(ops, Len(ops), a)]
     /\ misread' = misread \cup (IF misled THEN {"graph"} ELSE {})
     /\ faulted' = (faulted \/ \E i \in 1 .. Len(ops) : ops[i].at \in freed)
     /\ UNCHANGED <<object, handles, owner, freed, waiting, capturing, graphs, plans>>

DropGraph(g) ==
  /\ graphs[g].live /\ ~Open(g)
  /\ graphs' = [graphs EXCEPT ![g].live = FALSE]
  /\ UNCHANGED <<object, handles, mem, owner, freed, waiting, capturing, plans, misread, faulted>>

(* destroy_when_safe's loop, in thread t: a waiting handle whose device    *)
(* t's stream is not capturing is destroyed, the last one taking its place.*)
SweepStepSkips(t, acc) ==                    \* mutant: the moved one is not looked at, nor kept
  IF capturing[t][handles[acc.q[acc.i]].on] # 0 THEN [acc EXCEPT !.i = @ + 1]
  ELSE [i |-> acc.i, gone |-> Append(acc.gone, acc.q[acc.i]), q |-> Front(acc.q)]

SweepStepOn(t, acc) ==                       \* mutant: the moved one is kept unlooked at
  IF capturing[t][handles[acc.q[acc.i]].on] # 0 THEN [acc EXCEPT !.i = @ + 1]
  ELSE [i |-> acc.i + 1, gone |-> Append(acc.gone, acc.q[acc.i]),
        q |-> Front([acc.q EXCEPT ![acc.i] = Last(acc.q)])]

SweepStep(t, acc) ==
  IF capturing[t][handles[acc.q[acc.i]].on] # 0 THEN [acc EXCEPT !.i = @ + 1]
  ELSE [i |-> acc.i, gone |-> Append(acc.gone, acc.q[acc.i]),
        q |-> Front([acc.q EXCEPT ![acc.i] = Last(acc.q)])]

(* Every pass leaves one handle fewer to look at.                          *)
SweepPass(t, acc) == IF acc.i > Len(acc.q) THEN acc ELSE SweepStep(t, acc)
SweepAfter(t, q, n) ==
  LET at[m \in Nat] == IF m = 0 THEN [i |-> 1, gone |-> <<>>, q |-> q] ELSE SweepPass(t, at[m - 1])
  IN at[n]
Sweep(t, q) == SweepAfter(t, q, Len(q))

(* Callers keep a plan open while a graph that recorded it may replay.     *)
Recorded(h) ==
  \E g \in 1 .. Len(graphs) : graphs[g].live /\
    \E i \in 1 .. Len(graphs[g].ops) : owner[graphs[g].ops[i].at] = h

(* close: hipFree breaks every capture open on the device.                 *)
Close(t, o) ==
  /\ object[o].handle # 0 /\ ~Recorded(object[o].handle)
  /\ object' = [object EXCEPT ![o] = [handle |-> 0, planned |-> FALSE]]
  /\ LET s == Sweep(t, Append(waiting, object[o].handle))
         gone == ToSet(s.gone)
         hit == {handles[h].on : h \in {owner[a] : a \in {a \in 1 .. Len(mem) : owner[a] \in gone}}}
     IN /\ waiting' = s.q
        /\ freed' = freed \cup {a \in 1 .. Len(mem) : owner[a] \in gone}
        /\ graphs' = [g \in 1 .. Len(graphs) |->
             [graphs[g] EXCEPT !.broken = @ \/ (Open(g) /\ graphs[g].on \in hit)]]
        /\ faulted' = (faulted \/ Len(s.gone) # Cardinality(gone)
                          \/ \E a \in freed : owner[a] \in gone)
  /\ UNCHANGED <<handles, mem, owner, capturing, plans, misread>>

Next ==
  \/ \E t \in Threads, o \in Objects, d \in Devices, hostCu \in BOOLEAN, size \in Sizes,
        fail \in Failures : Plan(t, o, d, hostCu, size, fail)
  \/ \E t \in Threads, o \in Objects : Run(t, o)
  \/ \E t \in Threads, d \in Devices : BeginCapture(t, d)
  \/ \E t \in Threads, d \in Devices : EndCapture(t, d)
  \/ \E g \in 1 .. Len(graphs) : Replay(g)
  \/ \E g \in 1 .. Len(graphs) : DropGraph(g)
  \/ \E t \in Threads, o \in Objects : Close(t, o)

Spec == Init /\ [][Next]_vars
-----------------------------------------------------------------------------
(* A host-mode run and a replayed run read the list of their own plan,     *)
(* whatever is planned or replayed in between: each mode has its own list, *)
(* a replay lists again first, and a failed or other-capture plan refuses. *)
OwnListRead == misread \subseteq {"dev"}

(* No kernel uses freed memory and none is freed twice: outgrown buffers   *)
(* stay for the graphs that recorded them, and a closed plan cannot run.   *)
NoFreedUse == ~faulted

(* A graph that runs a plan lists it first, so that a replay follows the   *)
(* lengths of that replay: plan and run share one capture.                 *)
GraphListsItsRuns ==
  \A g \in 1 .. Len(graphs) : \A i \in 1 .. Len(graphs[g].ops) :
    graphs[g].ops[i].op = "run" =>
      \E j \in 1 .. i - 1 : graphs[g].ops[j] = [graphs[g].ops[i] EXCEPT !.op = "list"]

(* A handle is an object's, or waits closed exactly once, or is destroyed: *)
(* the sweep loses none and destroys none twice.                           *)
Owned(h) == \E o \in Objects : object[o].handle = h
Waits(h) == {i \in 1 .. Len(waiting) : waiting[i] = h}
HandleAccounted ==
  \A h \in 1 .. Len(handles) :
    /\ Cardinality(Waits(h)) = IF Owned(h) \/ Waits(h) = {} THEN 0 ELSE 1
    /\ (\E a \in 1 .. Len(mem) : owner[a] = h) /\ ~Owned(h) =>
         (Waits(h) = {} <=> \A a \in 1 .. Len(mem) : owner[a] = h => a \in freed)

(* "Each close destroys the waiting handles whose device has stopped       *)
(* capturing", as the closing thread sees it: none is passed over.         *)
CloseSweepsAll ==
  [][\A t \in Threads, o \in Objects : Close(t, o) =>
       \A i \in 1 .. Len(waiting') : capturing[t][handles[waiting'[i]].on] # 0]_vars

(* "A run follows its plan in stream order, in the same capture or none":  *)
(* and so reads that plan's list, in device mode as well.                  *)
RunsReadTheirPlan == misread = {}
=============================================================================
