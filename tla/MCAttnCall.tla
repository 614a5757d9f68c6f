----------------------------- MODULE MCAttnCall -----------------------------
(* Head dims are the real ones; everything else is small: wave rows of two *)
(* and one, tiles of two keys, two chunks to a q block, two XCDs, one to   *)
(* eight CUs, a list-building CTA of two waves of two lanes, "INT_MAX" of   *)
(* 2^16 - 1.  Each set of calls varies what its name says; the last holds  *)
(* calls with one thing wrong, or that look wrong and are not.             *)
EXTENDS AttnCall

G == "gpu0"
T(sizes) == Contiguous(sizes, G)
Ints(val, dev) == [type |-> "int32", dev |-> dev, flat |-> TRUE, val |-> val]

(* A view into a wider tensor: heads apart, and tokens further apart.      *)
View(t, h, s) == [t EXCEPT !.stride[h] = @ + 64, !.stride[s] = 2 * @ + 1024]
BHSD(t) == [t EXCEPT !.stride = <<@[1], @[3], @[2], @[4]>>, !.size = <<@[1], @[3], @[2], @[4]>>]

Base == [out |-> None, causal |-> FALSE, scale |-> "default", layout |-> "bshd", lse |-> FALSE, cus |-> 2,
         capturing |-> FALSE, cu_q |-> None, cu_k |-> None, host_q |-> None, host_k |-> None,
         max_q |-> 0, max_k |-> 0, page_table |-> None, page_starts |-> None, seqlens_k |-> None,
         plan |-> None]
Call(entry, q, k, v) == [entry |-> entry, q |-> q, k |-> k, v |-> v] @@ Base

Fwd(B, sq, skv, H, HKv, Dqk) ==
  Call("forward", T(<<B, sq, H, Dqk>>), T(<<B, skv, HKv, Dqk>>), T(<<B, skv, HKv, 128>>))

(* One batch, many shapes, CU counts and causal.                           *)
Batches == {[Fwd(1, sq, skv, H, H, 128) EXCEPT !.causal = z, !.cus = cus] :
              sq \in {1, 3, 8}, skv \in {0, 1, 7, 10}, H \in {1, 2}, z \in BOOLEAN, cus \in {-1, 1, 3}}
(* Causal GQA in packs, with LSEs, MLA and MHA.                            *)
Packs == {[Fwd(2, sq, skv, 2, 1, D) EXCEPT !.causal = z, !.cus = cus, !.lse = TRUE] :
            sq \in {2, 5}, skv \in {3, 9}, D \in {128, 192}, z \in BOOLEAN, cus \in {2, 4}}
(* Head-major and strided views, and a strided out.                        *)
Views == UNION {{[x EXCEPT !.q = View(@, 3, 2), !.v = View(@, 3, 2)],
                 [x EXCEPT !.k = View(@, 3, 2), !.out = View(T(<<2, 3, 4, 128>>), 3, 2)],
                 [x EXCEPT !.q = BHSD(@), !.k = BHSD(@), !.v = BHSD(@), !.layout = "bhsd"]} :
                  x \in {[Fwd(2, 3, 4, 4, 2, 128) EXCEPT !.causal = z, !.lse = TRUE] : z \in BOOLEAN}}

Thd(tq, tk, H, HKv, Dqk) == <<T(<<tq, H, Dqk>>), T(<<tk, HKv, Dqk>>), T(<<tk, HKv, 128>>)>>
Varlen(t, sq, sk, mq, mk, dev) ==
  [Call("varlen", t[1], t[2], t[3]) EXCEPT
     !.cu_q = Ints(sq, dev), !.cu_k = Ints(sk, dev), !.max_q = mq, !.max_k = mk]

(* Sequences on the host: two, or with an empty one, or with rows unused.  *)
OnHost == {[Varlen(Thd(a + b + 1, x + y, 2, 1, 128), <<1, a + 1, a + 1, a + b + 1>>, <<0, x, x, x + y>>,
                   4, 8, "cpu") EXCEPT !.causal = z, !.cus = cus] :
             a \in {1, 4}, b \in {2, 4}, x \in {0, 5, 8}, y \in {3, 8}, z \in BOOLEAN, cus \in {2, 4}}

Ascends(cu) == \A i \in 1 .. Len(cu) - 1 : cu[i] <= cu[i + 1]
Cu(len, top) == {cu \in [1 .. len + 1 -> 0 .. top] : cu[1] <= 1 /\ cu[len + 1] = top /\ Ascends(cu)}

(* cu_seqlens on the GPU: valid ones, max_q too small for some.            *)
OnGpu == {[Varlen(Thd(4, 6, 2, 1, 128), cq, ck, mq, 6, G) EXCEPT !.causal = z, !.cus = cus] :
            cq \in Cu(2, 4), ck \in {<<0, 2, 6>>, <<1, 6, 6>>}, z \in BOOLEAN, mq \in {2, 4}, cus \in {1, 4}}
SplitOnGpu == {[Varlen(Thd(3, 14, 2, 1, 128), cq, <<0, 5, 14>>, 3, 11, G) EXCEPT !.causal = z, !.cus = 8] :
                 cq \in Cu(2, 3), z \in BOOLEAN}
ThreeOnGpu == {[Varlen(Thd(3, 6, 1, 1, 128), cq, <<0, 1, 4, 6>>, 3, 6, G) EXCEPT !.cus = 3, !.lse = TRUE] :
                 cq \in Cu(3, 3)}
(* Values no check sees, on a GPU with one CU: nothing is split.           *)
Garbage == {[Varlen(Thd(3, 4, 2, 2, 128), cq, ck, 3, 4, G) EXCEPT !.causal = TRUE, !.cus = 1] :
              cq \in {<<0, 3, 0, 3>>, <<-1, 2, 5, 1>>, <<3, 0, 9, 3>>}, ck \in {<<0, 4, 0, 4>>, <<9, -2, 4, 4>>}}
(* Both, in a capture and out of one.                                      *)
Copies == {[Varlen(Thd(4, 6, 2, 1, D), <<0, 3, 4>>, <<0, 2, 6>>, 3, 6, G) EXCEPT
              !.host_q = Ints(hq, "cpu"), !.host_k = Ints(<<0, 2, 6>>, "cpu"), !.capturing = cap] :
             hq \in {<<0, 3, 4>>, <<0, 4, 3>>, <<1, 2, 4>>, <<0, 3, 4, 4>>}, cap \in BOOLEAN, D \in {128, 192}}
Plans == {[x EXCEPT !.entry = "plan", !.lse = lse,
             !.plan = [total_q |-> tq, total_k |-> 6, H |-> 2, HKv |-> 1, dims |-> <<128, 128>>, causal |-> z]] :
            x \in {y \in Copies : y.q.size[3] = 128}
                   \cup {[y EXCEPT !.host_q = None, !.host_k = None, !.cu_q.val = cu] :
                           y \in Copies, cu \in {<<0, 3, 4>>, <<0, 3, 5>>}},
            z \in BOOLEAN, lse \in BOOLEAN, tq \in {4, 5}}

(* Pages of two and four tokens; sequences share pages and end within one. *)
Paged(P, HKv, Dqk, stride) ==
  LET kv(D) == [T(<<3, P, HKv, D>>) EXCEPT !.stride[1] = stride * @] IN
  [Call("paged", T(<<6, 2, Dqk>>), kv(Dqk), kv(128)) EXCEPT
     !.cu_q = Ints(<<0, 2, 6>>, "cpu"), !.page_table = Ints(<<2, 0, 1, 2, 0>>, G),
     !.page_starts = Ints(<<0, 2>>, "cpu"), !.seqlens_k = Ints(<<3, 5>>, "cpu")]
Pagings == {[Paged(P, HKv, D, s) EXCEPT !.causal = z, !.lse = z, !.cus = cus,
               !.seqlens_k.val = lens, !.page_starts.val = starts] :
              P \in {2, 4}, HKv \in {1, 2}, D \in {128, 192}, s \in {1, 2}, z \in BOOLEAN, cus \in {1, 4},
              lens \in {<<3, 5>>, <<0, 8>>}, starts \in {<<0, 2>>, <<3, 1>>}}

Wrong ==
  LET f == Fwd(2, 3, 4, 4, 2, 128)
      far == [f EXCEPT !.k.stride[2] = MaxTokenStride + 1]
      g == Varlen(Thd(4, 6, 2, 1, 128), <<0, 3, 4>>, <<0, 2, 6>>, 3, 6, "cpu")
      pg == Paged(4, 2, 128, 1)
  IN {[f EXCEPT !.scale = s] : s \in Scales}
     \cup {[f EXCEPT !.k.type = "f16"], [f EXCEPT !.v.dev = "gpu1"], [f EXCEPT !.q.stride[4] = 2],
           [f EXCEPT !.layout = "thd"], [f EXCEPT !.v.size[2] = 3], [f EXCEPT !.k.size[1] = 1],
           [f EXCEPT !.k.size[3] = 3, !.v.size[3] = 3], [f EXCEPT !.v.size[4] = 64],
           [f EXCEPT !.out = T(<<2, 3, 2, 128>>)], [f EXCEPT !.out = Contiguous(<<2, 3, 4, 128>>, "cpu")],
           far, [far EXCEPT !.q.size[2] = 0],
           [f EXCEPT !.q.dev = "gpu9", !.k.dev = "gpu9", !.v.dev = "gpu9"]}
     \cup {[g EXCEPT !.cu_q.val = cu] : cu \in {<<0, 4, 3>>, <<-1, 3, 4>>, <<0, 4, 4>>, <<0, 3, 4, 4>>, <<0, 3, 5>>, <<0, 3, 2, 4>>}}
     \cup {[g EXCEPT !.cu_q.val = <<0, 3, 2, 4>>, !.cu_k.val = <<0, 2, 4, 6>>],
           [g EXCEPT !.cu_q.dev = G], [g EXCEPT !.cu_k.type = "int64"], [g EXCEPT !.max_k = IntMax + 1],
           [g EXCEPT !.host_q = Ints(<<0, 3, 4>>, "cpu")]}
     \cup {[pg EXCEPT !.cu_q.val = <<0, 4, 2>>], [pg EXCEPT !.seqlens_k.val = <<3, 13>>],
           [pg EXCEPT !.page_starts.val = <<0, 5>>], [pg EXCEPT !.page_starts.val = <<-1, 2>>],
           [pg EXCEPT !.page_table.dev = "cpu"], [pg EXCEPT !.v.stride[1] = 4096],
           [pg EXCEPT !.k.stride[1] = IntMax + 1, !.v.stride[1] = IntMax + 1],
           [pg EXCEPT !.k.size[2] = 3, !.v.size[2] = 3], Paged(2, 2, 192, 1)}

MCCalls == Batches \cup Packs \cup Views \cup OnHost \cup OnGpu \cup SplitOnGpu \cup ThreeOnGpu \cup Garbage
           \cup Copies \cup Plans \cup Pagings \cup Wrong
(* cu_seqlens on the GPU that descend: six q blocks of two tiles each, for *)
(* a list of room for four in three parts.                                 *)
DescendingCalls == {[Varlen(Thd(4, 16, 1, 1, 128), <<0, 4, 0, 4, 0, 4>>, <<0, 4, 0, 4, 0, 4>>, 4, 16, G)
                       EXCEPT !.cus = 8]}
=============================================================================
