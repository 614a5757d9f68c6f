---------------------------- MODULE LaunchCache ----------------------------
(***************************************************************************)
(* The host's launches on one device (csrc/gfx950/attention_plan.hpp,      *)
(* "host: cached lists" and "host: launches"): each stream's cached plans  *)
(* and device lists, the pinned copy sources all streams share, the        *)
(* partials workspace, and calls under graph capture.                      *)
(*                                                                         *)
(* A launch holds state_mutex until its kernels are queued, so it is one   *)
(* step; the device runs each stream's kernels in order and the streams in *)
(* any interleaving.  Plans are abstracted to the problem they are for and *)
(* whether it is split; every list and workspace remembers what was last   *)
(* written to it.                                                          *)
(***************************************************************************)
EXTENDS Integers, Sequences

CONSTANTS Streams,      \* the device's streams
          PerThread,    \* those that are some thread's hipStreamPerThread
          Problems,     \* calls' shapes
          ListSize,     \* per problem: its list's size
          WsSize,       \* per problem: its split plan's workspace, 0 when it is not split
          StagingSlots,
          PinnedBuffers,
          MaxCalls      \* bound on calls and replays

ASSUME CacheAssumption ==
  /\ PerThread \subseteq Streams /\ "none" \notin Problems
  /\ ListSize \in [Problems -> Nat \ {0}] /\ WsSize \in [Problems -> Nat]
  /\ StagingSlots \in Nat \ {0} /\ PinnedBuffers \in Nat \ {0} /\ MaxCalls \in Nat

VARIABLES
  staged,     \* per stream state: its ring of slots [key, plan, list]
  next,       \* per stream state: the slot to stage in
  ws,         \* per stream state: the workspace buffer
  pool,       \* the pinned buffers, oldest copy first
  host,       \* per pinned buffer: the list in it
  graphLists, \* launch_captured's lists: the address of each plan's, 0 for none
  queue,      \* per stream: kernels not yet run
  capture,    \* per stream: "none", "open" (capturing) or "done" (a graph)
  graph,      \* per stream: the kernels its capture recorded
  mem,        \* per device address: what was last written there
  calls       \* calls and replays so far

vars == <<staged, next, ws, pool, host, graphLists, queue, capture, graph, mem, calls>>

None == "none"
NotReplayed == -1
NoBuffer == [ptr |-> 0, bytes |-> 0]
Slots == 0 .. StagingSlots - 1

(* A problem's plan, and its unsplit plan for when there is no workspace.  *)
PlanOf(p) == [problem |-> p, slots |-> WsSize[p]]
Unsplit(p) == [problem |-> p, slots |-> 0]
Plans == {PlanOf(p) : p \in Problems} \cup {Unsplit(p) : p \in Problems}
NoPlan == [problem |-> None, slots |-> 0]

(* hipStreamPerThread is one handle for every thread's own stream, so its  *)
(* state is keyed by the thread.                                           *)
Handle(s) == IF s \in PerThread THEN CHOOSE t \in PerThread : TRUE ELSE s
StateKeyIsHandle(s) == Handle(s)                                    \* mutant
StateKey(s) == IF s \in PerThread THEN s ELSE Handle(s)

Init ==
  /\ staged = [s \in Streams |-> [i \in Slots |-> [key |-> None, plan |-> NoPlan, list |-> NoBuffer]]]
  /\ next = [s \in Streams |-> 0]
  /\ ws = [s \in Streams |-> NoBuffer]
  /\ pool = <<>> /\ host = <<>> /\ mem = <<>>
  /\ graphLists = [p \in Plans |-> 0]
  /\ queue = [s \in Streams |-> <<>>]
  /\ capture = [s \in Streams |-> "none"]
  /\ graph = [s \in Streams |-> <<>>]
  /\ calls = 0

-----------------------------------------------------------------------------
(* A call works on c, the state it changes, and appends what it queues to  *)
(* c.ops; c.at is the slot it uses, c.ok says that nothing failed and      *)
(* c.waits that it waits for a copy of its pinned buffer.                  *)
CallState(s) ==
  [slots |-> staged[StateKey(s)], next |-> next[StateKey(s)], ws |-> ws[StateKey(s)],
   pool |-> pool, host |-> host, mem |-> mem, ops |-> <<>>, at |-> 0, ok |-> TRUE,
   waits |-> FALSE]

Failed(c) == [c EXCEPT !.ok = FALSE]

(* What may fail in staging: the list's or a pinned buffer's allocation.   *)
Oom == {None, "list", "pinned"}

(* A pinned buffer's event is done once no copy from it is queued.         *)
CopiesFrom(ops, p) == \E i \in 1 .. Len(ops) : ops[i].op = "copy" /\ ops[i].from = p
Done(c, p) == ~CopiesFrom(c.ops, p) /\ \A s \in Streams : ~CopiesFrom(queue[s], p)

(* grow: at least doubling; a failed growth leaves the buffer empty.       *)
(* Outgrown memory is kept.                                                *)
Grown(buf, bytes, m, oom) ==
  LET n == IF 2 * buf.bytes > bytes THEN 2 * buf.bytes ELSE bytes IN
  IF bytes <= buf.bytes THEN [buf |-> buf, mem |-> m]
  ELSE IF oom THEN [buf |-> NoBuffer, mem |-> m]
  ELSE [buf |-> [ptr |-> Len(m) + 1, bytes |-> n], mem |-> Append(m, NoPlan)]

(* take_pinned: the oldest buffer once its copy is done (waited for when   *)
(* all are busy), else a new one.                                          *)
TakesOldestUnasked(c) == c.pool # <<>>                              \* mutant
TakesOldest(c) == c.pool # <<>> /\ (Len(c.pool) >= PinnedBuffers \/ Done(c, Head(c.pool)))
MayTake(c) == Len(c.pool) >= PinnedBuffers => Done(c, Head(c.pool))

(* The taken buffer goes to the pool's end, even when it could not grow.   *)
WithPinned(c, content) ==
  IF TakesOldest(c)
  THEN [c EXCEPT !.pool = Append(Tail(@), Head(@)), !.host[Head(c.pool)] = content]
  ELSE [c EXCEPT !.pool = Append(@, Len(c.host) + 1), !.host = Append(@, content)]

(* upload: the list is in the pinned buffer now, at `to` in stream order.  *)
Uploaded(c, to, plan) ==
  LET d == WithPinned(c, plan) IN
  [d EXCEPT !.ops = Append(@, [op |-> "copy", from |-> d.pool[Len(d.pool)], to |-> to,
                               plan |-> plan])]

(* stage: the next slot takes the plan.  Its key is cleared first, so that *)
(* a failure leaves it unmatched.                                          *)
StageWith(c, key, plan, oom, cleared) ==
  LET i == c.next
      g == Grown(c.slots[i].list, ListSize[plan.problem], c.mem, oom = "list")
      d == [c EXCEPT !.next = (i + 1) % StagingSlots, !.mem = g.mem, !.at = i,
                     !.waits = @ \/ (g.buf.ptr # 0 /\ ~MayTake(c)),
                     !.slots[i] = [key |-> cleared, plan |-> @.plan, list |-> g.buf]]
  IN CASE g.buf.ptr = 0   -> Failed(d)
       [] g.buf.ptr # 0 /\ oom = "pinned" ->
            Failed(IF TakesOldest(d) THEN [d EXCEPT !.pool = Append(Tail(@), Head(@))]
                                     ELSE WithPinned(d, NoPlan))
       [] OTHER -> [Uploaded(d, g.buf.ptr, plan) EXCEPT !.slots[i].key = key, !.slots[i].plan = plan]

StageKeyKept(c, key, plan, oom) == StageWith(c, key, plan, oom, c.slots[c.next].key)  \* mutant
Stage(c, key, plan, oom) == StageWith(c, key, plan, oom, None)

(* 1. The matching slot, or a newly staged plan.                           *)
Matching(c, key) == {i \in Slots : c.slots[i].key = key}
Find(c, p, oom) ==
  IF Matching(c, p) # {}
  THEN [c EXCEPT !.at = CHOOSE i \in Matching(c, p) : \A j \in Matching(c, p) : i <= j]
  ELSE Stage(c, p, PlanOf(p), oom)

(* 2. The split workspace, or an unsplit list staged for this call only.   *)
WithWorkspace(c, p, noWs, oom) ==
  LET slots == c.slots[c.at].plan.slots
      g == Grown(c.ws, slots, c.mem, noWs)
      d == [c EXCEPT !.ws = g.buf, !.mem = g.mem]
  IN IF slots = 0 THEN c
     ELSE IF g.buf.ptr # 0 THEN d
     ELSE Stage(d, None, Unsplit(p), oom)

(* 3. run_plan: the CTAs, then the merges of a split plan.                 *)
Kernels(plan, list, w, p) ==
  LET fwd == [op |-> "fwd", list |-> list, ws |-> IF plan.slots = 0 THEN 0 ELSE w,
              plan |-> plan, problem |-> p, call |-> calls, replay |-> NotReplayed]
  IN IF plan.slots = 0 THEN <<fwd>> ELSE <<fwd, [fwd EXCEPT !.op = "merge"]>>

UsesWs(ops, w) == \E i \in 1 .. Len(ops) : ops[i].op # "copy" /\ w # 0 /\ ops[i].ws = w

(* A stream's workspace is in use on one stream at a time: what callers    *)
(* owe the library when they replay a graph on another stream.             *)
Alone(s, w) == \A t \in Streams \ {s} : ~UsesWs(queue[t], w)

Keep(s, c) ==
  LET k == StateKey(s) IN
  /\ staged' = [staged EXCEPT ![k] = c.slots]
  /\ next' = [next EXCEPT ![k] = c.next]
  /\ ws' = [ws EXCEPT ![k] = c.ws]
  /\ pool' = c.pool /\ host' = c.host /\ mem' = c.mem
  /\ calls' = calls + 1

(* launch, outside a capture.  Either staging and the workspace may fail;  *)
(* a failed call has queued its copies at most.                            *)
Launch(s, p) ==
  /\ capture[s] # "open" /\ calls < MaxCalls
  /\ capture[StateKey(s)] = "done" => Alone(s, ws[StateKey(s)].ptr)
  /\ \E oom1, oom2 \in Oom, noWs \in BOOLEAN :
       LET c == Find(CallState(s), p, oom1)
           d == IF c.ok THEN WithWorkspace(c, p, noWs, oom2) ELSE c
           slot == d.slots[d.at]
           run == IF d.ok THEN Kernels(slot.plan, slot.list.ptr, d.ws.ptr, p) ELSE <<>>
       IN /\ oom2 # None => noWs
          /\ ~d.waits
          /\ Keep(s, d)
          /\ queue' = [queue EXCEPT ![s] = @ \o d.ops \o run]
  /\ UNCHANGED <<graphLists, capture, graph>>

(* A captured call's list: an equal one kept for graphs, or new memory m's *)
(* end gives; 0 when there is none.                                        *)
GraphListStaged(c, plan, noList, m) ==       \* mutant: the stream's cached list taken
  IF Matching(c, plan.problem) # {}
  THEN c.slots[CHOOSE i \in Matching(c, plan.problem) : TRUE].list.ptr
  ELSE IF noList THEN 0 ELSE Len(m) + 1
GraphList(c, plan, noList, m) ==
  IF graphLists[plan] # 0 THEN graphLists[plan] ELSE IF noList THEN 0 ELSE Len(m) + 1

(* launch_captured: planned anew, its list uploaded outside the graph and  *)
(* kept, its kernels recorded.                                             *)
LaunchCaptured(s, p) ==
  /\ capture[s] = "open" /\ calls < MaxCalls
  /\ \E noWs, noList \in BOOLEAN :
       LET c == CallState(s)
           g == Grown(c.ws, WsSize[p], c.mem, noWs)
           plan == IF WsSize[p] > 0 /\ g.buf.ptr = 0 THEN Unsplit(p) ELSE PlanOf(p)
           list == GraphList(c, plan, noList, g.mem)
       IN /\ Keep(s, [c EXCEPT !.ws = g.buf,
                               !.mem = IF list > Len(g.mem) THEN Append(g.mem, plan) ELSE g.mem])
          /\ graphLists' = [graphLists EXCEPT ![plan] = list]
          /\ graph' = [graph EXCEPT ![s] =
                         IF list = 0 THEN @ ELSE @ \o Kernels(plan, list, g.buf.ptr, p)]
  /\ UNCHANGED <<queue, capture>>

BeginCapture(s) ==
  /\ capture[s] = "none" /\ capture' = [capture EXCEPT ![s] = "open"]
  /\ UNCHANGED <<staged, next, ws, pool, host, graphLists, queue, graph, mem, calls>>

EndCapture(s) ==
  /\ capture[s] = "open" /\ capture' = [capture EXCEPT ![s] = "done"]
  /\ UNCHANGED <<staged, next, ws, pool, host, graphLists, queue, graph, mem, calls>>

(* s's graph replayed on t; a replay's partials are its own.               *)
Replay(s, t) ==
  /\ capture[s] = "done" /\ graph[s] # <<>> /\ capture[t] # "open" /\ calls < MaxCalls
  /\ \A i \in 1 .. Len(graph[s]) : Alone(t, graph[s][i].ws)
  /\ queue' = [queue EXCEPT ![t] = @ \o [i \in 1 .. Len(graph[s]) |->
                                           [graph[s][i] EXCEPT !.replay = calls]]]
  /\ calls' = calls + 1
  /\ UNCHANGED <<staged, next, ws, pool, host, graphLists, capture, graph, mem>>

-----------------------------------------------------------------------------
(* The device: a copy moves what its pinned buffer holds by now, split     *)
(* CTAs leave the call's partials in the workspace.                        *)
Partials(k) == <<k.call, k.replay>>

Run(s) ==
  /\ queue[s] # <<>>
  /\ LET k == Head(queue[s]) IN
       mem' = IF k.op = "copy" THEN [mem EXCEPT ![k.to] = host[k.from]]
              ELSE IF k.op = "fwd" /\ k.ws # 0 THEN [mem EXCEPT ![k.ws] = Partials(k)]
              ELSE mem
  /\ queue' = [queue EXCEPT ![s] = Tail(@)]
  /\ UNCHANGED <<staged, next, ws, pool, host, graphLists, capture, graph, calls>>

Next ==
  \/ \E s \in Streams, p \in Problems : Launch(s, p)
  \/ \E s \in Streams, p \in Problems : LaunchCaptured(s, p)
  \/ \E s \in Streams : BeginCapture(s)
  \/ \E s \in Streams : EndCapture(s)
  \/ \E s, t \in Streams : Replay(s, t)
  \/ \E s \in Streams : Run(s)

Spec == Init /\ [][Next]_vars
-----------------------------------------------------------------------------
Starting(s) == queue[s] # <<>> /\ Head(queue[s]).op # "copy"

(* A kernel that starts reads the list of its own plan, made for the       *)
(* problem its call asked for: no reused slot, shared pinned buffer, grown *)
(* buffer or failed upload ever gives it another.                          *)
ReadsOwnList ==
  \A s \in Streams : Starting(s) =>
    LET k == Head(queue[s]) IN
    k.list # 0 /\ mem[k.list] = k.plan /\ k.plan.problem = k.problem

(* A merge sums the partials of its own call, and of its own replay.       *)
MergesOwnPartials ==
  \A s \in Streams : Starting(s) /\ Head(queue[s]).op = "merge" =>
    mem[Head(queue[s]).ws] = Partials(Head(queue[s]))

(* No pinned buffer is written again while a copy from it is queued.       *)
CopiesOwnList ==
  \A s \in Streams : \A i \in 1 .. Len(queue[s]) :
    queue[s][i].op = "copy" => host[queue[s][i].from] = queue[s][i].plan

(* A graph may replay at any time: the lists it recorded are never written *)
(* again, whatever later calls stage.                                      *)
GraphListsKept ==
  \A s \in Streams : \A i \in 1 .. Len(graph[s]) : mem[graph[s][i].list] = graph[s][i].plan
=============================================================================
