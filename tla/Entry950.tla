------------------------------ MODULE Entry950 ------------------------------
(***************************************************************************)
(* The gfx950 entry points: what a Torch call is checked for and turned    *)
(* into (csrc/gfx950/attention_api.cpp), and what the C API makes of that  *)
(* (csrc/gfx950/attention_plan.hpp, "host: the C API", "host: paged K/V"). *)
(* An entry yields a status:                                               *)
(*   "rejected"  an error of its own, before the C API                     *)
(*   "kernel"    the C API returned -1                                     *)
(*   "empty"     nothing to compute                                        *)
(*   "host"      a launch of a problem planned on the host                 *)
(*   "dev"       a launch of a list built on the GPU                       *)
(* A tensor is [type, dev, size, stride], its strides in elements; an      *)
(* integer array [type, dev, flat, val], flat when 1-D and contiguous.     *)
(* Every sequence index counts from 1, dim 0 standing for none.            *)
(***************************************************************************)
EXTENDS PlanTime

CONSTANTS MaxTokenStride,      \* 2^22
          MinPage, MlaMinPage, \* the smallest page sizes: 8, and 16 for MLA
          Gfx950,              \* the GPUs that are gfx950
          FewCost, SplitCost, FewSplitCost     \* the kernels' tile costs (host::Kernels)

ASSUME Entry950Assumption == {MaxTokenStride, MinPage, MlaMinPage} \subseteq Nat \ {0}

None == [type |-> "none"]
Rejected == [status |-> "rejected"]
KernelRejects == [status |-> "kernel"]
Empty == [status |-> "empty"]

Product(s) == FoldLeft(LAMBDA x, y : x * y, 1, s)
numel(t) == Product(t.size)
Contiguous(sizes, dev) ==
  [type |-> "bf16", dev |-> dev, size |-> sizes,
   stride |-> [i \in DOMAIN sizes |-> Product(SubSeq(sizes, i + 1, Len(sizes)))]]

-----------------------------------------------------------------------------
(* Tensors and layout: which dims hold a tensor's batch, token and head.   *)
THD == [b |-> 0, s |-> 1, h |-> 2]
Pages == [b |-> 1, s |-> 2, h |-> 3]
BatchLse == [b |-> 1, s |-> 3, h |-> 2]
VarlenLse == [b |-> 0, s |-> 2, h |-> 1]

Layouts == {"bshd", "bhsd"}
layout_dims(layout) == IF layout = "bshd" THEN [b |-> 1, s |-> 2, h |-> 3] ELSE [b |-> 1, s |-> 3, h |-> 2]

check_tensor(t, dim, q) ==
  /\ t.type = "bf16" /\ Len(t.size) = dim
  /\ t.dev # "cpu" /\ t.dev = q.dev
  /\ t.stride[dim] = 1

require_gfx950(dev) == dev \in Gfx950

HeadDims(Dqk, Dv) == <<Dqk, Dv>> \in {<<192, 128>>, <<128, 128>>}
is_mla(Dqk, Dv) == Dqk = 192 /\ Dv = 128

check_heads(H, HKv) == HKv >= 1 /\ H % HKv = 0

check_qkv(q, k, v, dim, h) ==
  /\ check_tensor(q, dim, q) /\ require_gfx950(q.dev)
  /\ check_tensor(k, dim, q) /\ check_tensor(v, dim, q)
  /\ HeadDims(Last(q.size), Last(v.size)) /\ Last(k.size) = Last(q.size)
  /\ v.size[h] = k.size[h] /\ check_heads(q.size[h], k.size[h])

(* A scale's class: the default, a normal number, or one that is positive  *)
(* as a double and 0 as a float; or one that is not positive and finite.   *)
Scales == {"default", "normal", "tiny", "zero", "infinite"}
check_scale(scale) == scale \in {"default", "normal", "tiny"}

to_int(x) == x \in 0 .. IntMax

(* The output: the caller's, or a fresh one; and the fresh LSEs.           *)
check_out(out, sizes, q) == out = None \/ (check_tensor(out, Len(sizes), q) /\ out.size = sizes)
outputs(out, sizes, lse, lse_sizes, q) ==
  [out |-> IF out = None THEN Contiguous(sizes, q.dev) ELSE out,
   lse |-> IF lse THEN Contiguous(lse_sizes, q.dev) ELSE None]

(* tensors: a tensor's batch, token and head strides; the tokens' limit.   *)
Strides(t, d) ==
  IF t = None THEN None
  ELSE [batch |-> IF d.b = 0 THEN 0 ELSE t.stride[d.b], token |-> t.stride[d.s], head |-> t.stride[d.h]]

tensors(q, k, v, o, d, kv_d, lse_d) ==
  [q |-> Strides(q, d), k |-> Strides(k, kv_d), v |-> Strides(v, kv_d),
   o |-> Strides(o.out, d), lse |-> Strides(o.lse, lse_d)]
Given(st) == {st[x] : x \in {x \in DOMAIN st : st[x] # None}}
TokensClose(st) == \A x \in Given(st) : x.token <= MaxTokenStride

-----------------------------------------------------------------------------
(* The C API's own checks.                                                 *)
valid_scale(scale) == scale \in {"default", "normal"}
valid_strides(st) ==
  \A x \in Given(st) : {x.batch, x.token, x.head} \subseteq Nat /\ x.token <= MaxTokenStride
valid_call(st, scale) == valid_scale(scale) /\ valid_strides(st)
valid_heads(H, HKv) == H >= 0 /\ HKv > 0 /\ H % HKv = 0

problem(c, dims, H, HKv, causal, seqs) ==
  [seqs |-> seqs, H |-> H, pack |-> IF causal THEN H \div HKv ELSE 1, causal |-> causal,
   lse |-> c.lse, kv_bytes |-> 2 * (dims[1] + dims[2]), cus |-> c.cus,
   few_cost |-> FewCost, split_cost |-> SplitCost, few_split_cost |-> FewSplitCost]

NoPages == [table |-> <<>>, size |-> 0]

(* A launch's arguments (make_args): strides, q heads per K/V head, pages. *)
LaunchOf(mode, pr, st, HKv, page, call) ==
  [status |-> mode, problem |-> pr, str |-> st, grp |-> pr.H \div HKv, page |-> page, call |-> call]

api_fwd(c, st, dims, B, H, HKv, Sq, Skv) ==
  IF ~valid_heads(H, HKv) \/ ~valid_call(st, c.scale) THEN KernelRejects
  ELSE IF B = 0 \/ H = 0 \/ Sq = 0 THEN Empty
  ELSE LaunchOf("host", problem(c, dims, H, HKv, c.causal,
                  [b \in 1 .. B |-> [b |-> b - 1, q0 |-> 0, sq |-> Sq, kv0 |-> 0, skv |-> Skv]]),
                st, HKv, NoPages, None)

varlen_seqs(cu_q, cu_k) ==
  [i \in 1 .. Len(cu_q) - 1 |-> [b |-> 0, q0 |-> cu_q[i], sq |-> cu_q[i + 1] - cu_q[i],
                                 kv0 |-> cu_k[i], skv |-> cu_k[i + 1] - cu_k[i]]]
varlen_valid(seqs, cu_q, cu_k) ==
  cu_q[1] >= 0 /\ cu_k[1] >= 0 /\ \A i \in DOMAIN seqs : seqs[i].sq >= 0 /\ seqs[i].skv >= 0

launch_varlen(c, st, dims, H, HKv, causal, cu_q, cu_k) ==
  LET seqs == varlen_seqs(cu_q, cu_k) IN
  IF ~varlen_valid(seqs, cu_q, cu_k) THEN KernelRejects
  ELSE IF H = 0 \/ cu_q[Len(cu_q)] = cu_q[1] THEN Empty
  ELSE LaunchOf("host", problem(c, dims, H, HKv, causal, seqs), st, HKv, NoPages, None)

(* plan_varlen in dev mode: maxima and totals plan the list.               *)
DevLaunch(pr, st, HKv, v, plan) ==
  IF plan.ctas = 0 THEN KernelRejects
  ELSE LaunchOf("dev", pr, st, HKv, NoPages,
         [cu_q |-> v.cu_q, cu_k |-> v.cu_k, max_q |-> v.max_q, max_k |-> v.max_k,
          total_q |-> v.total_q, total_k |-> v.total_k, rows |-> plan.rows, pack |-> pr.pack,
          packs |-> packs(pr), causal |-> pr.causal, parts |-> plan.parts])

plan_dev(c, st, dims, H, HKv, causal, v) ==
  LET n == Len(v.cu_q) - 1
      pr == problem([c EXCEPT !.lse = FALSE], dims, H, HKv, causal, <<>>)
  IN IF n = 0 \/ H = 0 \/ v.max_q = 0 \/ v.total_q = 0 THEN Empty
     ELSE DevLaunch(pr, st, HKv, v,
            dev_plan(pr, n, Least(v.max_q, v.total_q), Least(v.max_k, v.total_k), v.total_q, v.total_k))

(* launch_varlen_dev, and a plan's run: the host copies plan outside a     *)
(* capture, device cu_seqlens in one.                                      *)
launch_varlen_dev(c, st, dims, H, HKv, causal, v) ==
  IF v.host # None /\ ~c.capturing
  THEN launch_varlen(c, st, dims, H, HKv, causal, v.host.q, v.host.k)
  ELSE plan_dev(c, st, dims, H, HKv, causal, v)

(* api_paged_fwd: keys from page_starts[i] of the table, seqs in virtual   *)
(* tokens.  2 bytes to an element: a page fits 32 bits below 2^31 elements.*)
PageFits(str, P, d) == str.batch <= IntMax /\ str.token >= d /\ P * str.token <= IntMax

api_paged_fwd(c, st, dims, H, HKv, P) ==
  LET cu == c.cu_q.val
      n == Len(cu) - 1
      starts == c.page_starts.val
      lens == c.seqlens_k.val
      seqs == [i \in 1 .. n |-> [b |-> 0, q0 |-> cu[i], sq |-> cu[i + 1] - cu[i],
                                 kv0 |-> starts[i] * P, skv |-> lens[i]]]
      args == /\ valid_heads(H, HKv) /\ valid_call(st, c.scale)
              /\ Len(c.page_table.val) \in 1 .. IntMax \div 4
              /\ P >= (IF dims[1] = dims[2] THEN MinPage ELSE MlaMinPage) /\ \E e \in 0 .. P : P = 2 ^ e
              /\ cu[1] >= 0
              /\ PageFits(st.k, P, dims[1]) /\ PageFits(st.v, P, dims[2])
              /\ dims[1] = dims[2] => st.k = st.v
              /\ \A i \in 1 .. n :
                   /\ starts[i] >= 0 /\ lens[i] >= 0 /\ seqs[i].sq >= 0
                   /\ CeilDiv(lens[i], P) <= Len(c.page_table.val) - starts[i]
                   /\ starts[i] * P + lens[i] <= IntMax
  IN IF ~args THEN KernelRejects
     ELSE IF H = 0 \/ cu[n + 1] = cu[1] THEN Empty
     ELSE LaunchOf("host", problem(c, dims, H, HKv, c.causal, seqs), st, HKv,
                   [table |-> c.page_table.val, size |-> P], None)

-----------------------------------------------------------------------------
(* forward: a batch, in either layout.                                     *)
forward(c) ==
  LET d == layout_dims(c.layout)
      B == c.q.size[1]
      Sq == c.q.size[d.s]
      H == c.q.size[d.h]
      Skv == c.k.size[d.s]
      HKv == c.k.size[d.h]
      sizes == [c.q.size EXCEPT ![4] = c.v.size[4]]
      o == outputs(c.out, sizes, c.lse, <<B, H, Sq>>, c.q)
      st == tensors(c.q, c.k, c.v, o, d, d, BatchLse)
  IN IF \/ c.layout \notin Layouts \/ ~check_qkv(c.q, c.k, c.v, 4, d.h)
        \/ c.k.size[1] # B \/ c.v.size[1] # B \/ c.v.size[d.s] # Skv
        \/ B * Sq > IntMax \/ B * Skv > IntMax
        \/ ~check_scale(c.scale) \/ ~check_out(c.out, sizes, c.q) THEN Rejected
     ELSE IF numel(o.out) = 0 THEN Empty
     ELSE IF ~TokensClose(st) THEN Rejected
     ELSE api_fwd(c, st, <<c.q.size[4], c.v.size[4]>>, B, H, HKv, Sq, Skv)

-----------------------------------------------------------------------------
(* cu_seqlens: of host memory or the call's GPU, host values checked.      *)
check_cu_tensor(cu, dev) == cu.type = "int32" /\ cu.flat /\ Len(cu.val) >= 1 /\ cu.dev \in {"cpu", dev}

check_cu_ends(cu, tokens, max_len) ==                          \* mutant: the ends only
  cu[1] >= 0 /\ cu[Len(cu)] <= tokens
check_cu_values(cu, tokens, max_len) ==
  /\ cu[1] >= 0 /\ cu[Len(cu)] <= tokens
  /\ \A i \in 1 .. Len(cu) - 1 : cu[i] <= cu[i + 1] /\ cu[i + 1] - cu[i] <= max_len

check_host_cu(h, cu, tokens, max_len) ==
  /\ h.dev = "cpu" /\ h.type = "int32" /\ h.flat /\ Len(h.val) = Len(cu.val)
  /\ check_cu_values(h.val, tokens, max_len)

check_seqs(c, tq, tk, dev) ==
  /\ check_cu_tensor(c.cu_q, dev) /\ check_cu_tensor(c.cu_k, dev)
  /\ Len(c.cu_q.val) = Len(c.cu_k.val) /\ c.cu_q.dev = c.cu_k.dev
  /\ c.host_q = None <=> c.host_k = None
  /\ c.cu_q.dev = "cpu" =>
       /\ c.host_q = None
       /\ check_cu_values(c.cu_q.val, tq, c.max_q) /\ check_cu_values(c.cu_k.val, tk, c.max_k)
  /\ c.host_q # None =>
       check_host_cu(c.host_q, c.cu_q, tq, c.max_q) /\ check_host_cu(c.host_k, c.cu_q, tk, c.max_k)

VarlenCall(c, tq, tk) ==
  [cu_q |-> c.cu_q.val, cu_k |-> c.cu_k.val, max_q |-> c.max_q, max_k |-> c.max_k,
   total_q |-> tq, total_k |-> tk,
   host |-> IF c.host_q = None THEN None ELSE [q |-> c.host_q.val, k |-> c.host_k.val]]

forward_varlen(c) ==
  LET tq == c.q.size[1]
      tk == c.k.size[1]
      H == c.q.size[2]
      HKv == c.k.size[2]
      dims == <<c.q.size[3], c.v.size[3]>>
      o == outputs(c.out, <<tq, H, dims[2]>>, c.lse, <<H, tq>>, c.q)
      st == tensors(c.q, c.k, c.v, o, THD, THD, VarlenLse)
  IN IF \/ ~check_qkv(c.q, c.k, c.v, 3, 2) \/ c.v.size[1] # tk
        \/ ~to_int(tq) \/ ~to_int(tk) \/ ~to_int(c.max_q) \/ ~to_int(c.max_k)
        \/ ~check_seqs(c, tq, tk, c.q.dev)
        \/ ~check_scale(c.scale) \/ ~check_out(c.out, <<tq, H, dims[2]>>, c.q) THEN Rejected
     ELSE IF numel(o.out) = 0 THEN Empty
     ELSE IF ~TokensClose(st) THEN Rejected
     ELSE IF ~valid_heads(H, HKv) \/ ~valid_call(st, c.scale) THEN KernelRejects
     ELSE IF c.cu_q.dev = "cpu" THEN launch_varlen(c, st, dims, H, HKv, c.causal, c.cu_q.val, c.cu_k.val)
     ELSE launch_varlen_dev(c, st, dims, H, HKv, c.causal, VarlenCall(c, tq, tk))

-----------------------------------------------------------------------------
host_ints(t, n) == t.type = "int32" /\ t.flat /\ t.dev = "cpu" /\ (n < 0 \/ Len(t.val) = n)

(* forward_paged: K and V in pages [pages, page_size, kv_heads, D].        *)
forward_paged(c) ==
  LET tq == c.q.size[1]
      H == c.q.size[2]
      HKv == c.k.size[3]
      dims == <<c.q.size[3], c.v.size[4]>>
      P == c.k.size[2]
      n == Len(c.cu_q.val) - 1
      table == Len(c.page_table.val)
      o == outputs(c.out, <<tq, H, dims[2]>>, c.lse, <<H, tq>>, c.q)
      st == tensors(c.q, c.k, c.v, o, THD, Pages, VarlenLse)
  IN IF \/ ~check_tensor(c.q, 3, c.q) \/ ~require_gfx950(c.q.dev)
        \/ ~check_tensor(c.k, 4, c.q) \/ ~check_tensor(c.v, 4, c.q)
        \/ ~HeadDims(dims[1], dims[2]) \/ c.k.size[4] # dims[1]
        \/ SubSeq(c.k.size, 1, 3) # SubSeq(c.v.size, 1, 3) \/ ~check_heads(H, HKv)
        \/ ~to_int(P) \/ P < (IF is_mla(dims[1], dims[2]) THEN MlaMinPage ELSE MinPage)
        \/ \A e \in 0 .. P : P # 2 ^ e
        \/ ~is_mla(dims[1], dims[2]) /\ c.k.stride # c.v.stride
        \/ ~(c.page_table.type = "int32" /\ c.page_table.flat /\ c.page_table.dev = c.q.dev)
        \/ table \notin 1 .. IntMax \div 4
        \/ n < 0 \/ ~host_ints(c.cu_q, -1) \/ ~host_ints(c.page_starts, n) \/ ~host_ints(c.seqlens_k, n)
        \/ ~check_cu_values(c.cu_q.val, tq, IntMax)
        \/ \E i \in 1 .. n :
             LET start == c.page_starts.val[i]
                 len == c.seqlens_k.val[i]
             IN start < 0 \/ len < 0 \/ CeilDiv(len, P) > table - start
        \/ ~check_scale(c.scale) \/ ~check_out(c.out, <<tq, H, dims[2]>>, c.q) THEN Rejected
     ELSE IF numel(o.out) = 0 THEN Empty
     ELSE IF ~TokensClose(st) THEN Rejected
     ELSE api_paged_fwd(c, st, dims, H, HKv, P)

-----------------------------------------------------------------------------
(* VarlenPlan: plan for the numbers c.plan, then one run on c's tensors.   *)
plan_admits(c) ==
  /\ c.cu_q.dev # "cpu" /\ require_gfx950(c.cu_q.dev)
  /\ HeadDims(c.plan.dims[1], c.plan.dims[2])
  /\ to_int(c.plan.H) /\ to_int(c.plan.HKv) /\ check_heads(c.plan.H, c.plan.HKv)
  /\ to_int(c.max_q) /\ to_int(c.max_k) /\ to_int(c.plan.total_q) /\ to_int(c.plan.total_k)
  /\ check_seqs(c, c.plan.total_q, c.plan.total_k, c.cu_q.dev)

run_any_tokens(c) ==                                           \* mutant: another call's tokens taken
  /\ check_qkv(c.q, c.k, c.v, 3, 2)
  /\ is_mla(Last(c.q.size), Last(c.v.size)) <=> is_mla(c.plan.dims[1], c.plan.dims[2])
  /\ c.q.dev = c.cu_q.dev /\ check_scale(c.scale)
run_admits(c) ==
  /\ check_qkv(c.q, c.k, c.v, 3, 2)
  /\ is_mla(Last(c.q.size), Last(c.v.size)) <=> is_mla(c.plan.dims[1], c.plan.dims[2])
  /\ c.q.dev = c.cu_q.dev
  /\ c.q.size[1] = c.plan.total_q /\ c.q.size[2] = c.plan.H
  /\ c.k.size[1] = c.plan.total_k /\ c.k.size[2] = c.plan.HKv /\ c.v.size[1] = c.plan.total_k
  /\ check_scale(c.scale)

plan_and_run(c) ==
  LET sizes == <<c.plan.total_q, c.plan.H, c.v.size[3]>>
      o == outputs(c.out, sizes, c.lse, <<c.plan.H, c.plan.total_q>>, c.q)
      st == tensors(c.q, c.k, c.v, o, THD, THD, VarlenLse)
      planned == launch_varlen_dev([c EXCEPT !.lse = FALSE], st, c.plan.dims, c.plan.H, c.plan.HKv,
                                   c.plan.causal, VarlenCall(c, c.plan.total_q, c.plan.total_k))
  IN IF ~plan_admits(c) THEN Rejected
     ELSE IF planned = KernelRejects THEN KernelRejects
     ELSE IF ~run_admits(c) \/ ~check_out(c.out, sizes, c.q) THEN Rejected
     ELSE IF numel(o.out) = 0 THEN Empty
     ELSE IF ~TokensClose(st) THEN Rejected
     ELSE IF ~valid_call(st, c.scale) THEN KernelRejects
     ELSE planned                                    \* which knows of no LSEs

Entered(c) ==
  CASE c.entry = "forward" -> forward(c)
    [] c.entry = "varlen" -> forward_varlen(c)
    [] c.entry = "paged" -> forward_paged(c)
    [] c.entry = "plan" -> plan_and_run(c)
=============================================================================
