------------------------------ MODULE Entry942 ------------------------------
(***************************************************************************)
(* The gfx942 attention's Torch entry points (csrc/gfx942/attention_api.cpp*)
(* and the launchers of attention_kernel.hip): what forward and            *)
(* forward_lite admit, the workspace they give, and the launch they make.  *)
(*                                                                         *)
(* A call's tensors are [dtype, shape, contiguous, device]; env holds the  *)
(* process's development switches.                                         *)
(***************************************************************************)
EXTENDS Views942

HeadDim == 128
Absent942 == [dtype |-> "none"]              \* an argument not given

check_tensor(t) ==
  /\ t # Absent942
  /\ t.dtype = "bf16" /\ Len(t.shape) = 4 /\ t.contiguous /\ t.device # "cpu"

seq_axis(a) == IF a.layout = "bshd" THEN 2 ELSE 3
heads_axis(a) == IF a.layout = "bshd" THEN 3 ELSE 2

check_out(a) ==
  a.out # Absent942 =>
    check_tensor(a.out) /\ a.out.shape = a.q.shape /\ a.out.device = a.q.device

(* The checks the two share.                                               *)
CheckedCommon(a) ==
  /\ \A t \in {a.q, a.k, a.v} : check_tensor(t)
  /\ a.round_mode \in {"rtna", "rtne", "rtz"} /\ a.layout \in {"bhsd", "bshd"}
  /\ a.q.shape[4] = HeadDim
  /\ a.k.device = a.q.device /\ a.v.device = a.q.device
  /\ check_out(a)

(* forward's own.                                                          *)
CheckedShapes(a) ==
  /\ a.k.shape[1] = a.q.shape[1] /\ a.k.shape[heads_axis(a)] = a.q.shape[heads_axis(a)]
  /\ a.k.shape[4] = HeadDim /\ a.v.shape = a.k.shape
  /\ a.q.shape[seq_axis(a)] > 0 /\ a.k.shape[seq_axis(a)] > 0

(* forward_lite's own; it takes the shapes of k, v and the lists as given. *)
CheckedLists(a) ==
  \A t \in {a.read_list, a.write_list} \cup {t \in {a.must_do_list} : t # Absent942} :
    t.dtype = "i16" /\ t.contiguous /\ t.device = a.q.device

(* launch_v_transpose and the launchers refuse what has no rows.           *)
HasRows(a) ==
  /\ a.q.shape[1] > 0 /\ a.q.shape[heads_axis(a)] > 0
  /\ a.q.shape[seq_axis(a)] > 0 /\ a.k.shape[seq_axis(a)] > 0

Admitted942(a) ==
  /\ CheckedCommon(a)
  /\ IF a.op = "forward" THEN CheckedShapes(a) ELSE CheckedLists(a)
  /\ HasRows(a)

(* A caller's duty in forward_lite, whose lists and shapes go unchecked.   *)
ListShape(a) ==
  <<a.q.shape[1], a.q.shape[heads_axis(a)], NumQBlocks(a.q.shape[seq_axis(a)]),
    NumKvBlocks(a.k.shape[seq_axis(a)]) + 2>>
LiteFits(a) ==
  a.op = "forward_lite" =>
    /\ CheckedShapes(a)
    /\ a.read_list.shape = ListShape(a) /\ a.write_list.shape = ListShape(a)

-----------------------------------------------------------------------------
(* The workspaces: MaxParts parts of a split; a lite launch's order.       *)
GivesWorkspace(a) ==
  IF a.op = "forward" THEN "MOONMATH_NO_TAIL" \notin a.env ELSE "MOONMATH_LITE_PLAIN" \notin a.env
lite_workspace_slots(B, heads, sq) == B * heads * NumQBlocks(sq)

(* The launch of an admitted call.  Only a lite launch given a workspace   *)
(* and walks long enough has its workgroups reordered.                     *)
Launch942(a) ==
  LET B == a.q.shape[1]
      heads == a.q.shape[heads_axis(a)]
      sq == a.q.shape[seq_axis(a)]
      skv == a.k.shape[seq_axis(a)]
      lite == a.op = "forward_lite"
  IN [lite |-> lite, bshd |-> a.layout = "bshd", B |-> B, heads |-> heads, Sq |-> sq, Skv |-> skv,
      Vkv |-> a.v.shape[seq_axis(a)],
      ordered |-> lite /\ GivesWorkspace(a) /\ NumKvBlocks(skv) >= MinKvBlocksToSplit,
      slots |-> IF lite THEN lite_workspace_slots(B, heads, sq) ELSE 0,
      plan |-> Plan(NumQBlocks(sq), B * heads, NumKvBlocks(skv), ~lite /\ GivesWorkspace(a))]
=============================================================================
