--------------------------- MODULE MCAttention942 ---------------------------
(* Two waves of A, thread 0's and one that can vote ahead of it, and one of *)
(* B; rows of up to four K blocks, so that a row can hold two ranges.  Q    *)
(* blocks of eight rows and K blocks of two: a call has up to three q blocks*)
(* and five K blocks, and partial ones of each.                             *)
EXTENDS Attention942

CONSTANTS a0, a1, b0

MCGroupA == {a0, a1}
MCGroupB == {b0}

(* Nothing pinned; a sink; two ranges with a gap.                          *)
MCMustDos == {<<>>, <<<<0, 1>>>>, <<<<0, 1>>, <<2, 4>>>>}
NoMustDos == {<<>>}

(* Calls of any layout and shape, in any environment.                      *)
T(shape) == [dtype |-> "bf16", shape |-> shape, contiguous |-> TRUE, device |-> "gpu0"]
List(shape) == [T(shape) EXCEPT !.dtype = "i16"]
ShapeOf(layout, B, H, S) == IF layout = "bshd" THEN <<B, S, H, HeadDim>> ELSE <<B, H, S, HeadDim>>
Call(op, layout, B, H, sq, skv, env) ==
  LET lists == List(<<B, H, NumQBlocks(sq), NumKvBlocks(skv) + 2>>) IN
  [op |-> op, layout |-> layout, round_mode |-> "rtna", env |-> env, out |-> Absent942,
   q |-> T(ShapeOf(layout, B, H, sq)), k |-> T(ShapeOf(layout, B, H, skv)),
   v |-> T(ShapeOf(layout, B, H, skv)), read_list |-> lists, write_list |-> lists,
   must_do_list |-> Absent942]

GoodCalls ==
  {Call(x[1], x[2], x[3], x[4], x[5], x[6], x[7]) :
     x \in {"forward", "forward_lite"} \X {"bhsd", "bshd"} \X {1, 2} \X {1, 2} \X {1, 8, 11, 21}
            \X {1, 5, 10} \X {{}, {"MOONMATH_NO_TAIL", "MOONMATH_LITE_PLAIN"}}}

(* Ones refused: each breaks what a check is there for.                    *)
Base == Call("forward", "bshd", 2, 2, 11, 5, {})
BadCalls ==
  {[Base EXCEPT !.k.shape[1] = 1], [Base EXCEPT !.v.shape[2] = 4], [Base EXCEPT !.layout = "bhsd"],
   [Base EXCEPT !.q.shape[2] = 0], [Base EXCEPT !.k.device = "gpu1"], [Base EXCEPT !.q.dtype = "f16"],
   [Base EXCEPT !.out = T(<<2, 8, 2, HeadDim>>)], [Base EXCEPT !.v = Absent942],
   [Base EXCEPT !.op = "forward_lite", !.read_list.dtype = "i32"],
   [Base EXCEPT !.op = "forward_lite", !.read_list.shape[4] = 3]}
MCCalls == GoodCalls \cup BadCalls
NoCalls == {}

MCThr == -2
MCScores == {-3, 0, 2}
RowShape(g, r, q, b) == [groups |-> g, rows |-> r, quads |-> q, blocks |-> b]
MCRowShapes == {RowShape(1, 2, 2, 2), RowShape(2, 1, 1, 3), RowShape(1, 1, 2, 3)}
=============================================================================
