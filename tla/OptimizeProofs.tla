---------------------------- MODULE OptimizeProofs ----------------------------
(* Theorems about Optimize: for every model, every set of configurations    *)
(* and any number of apply() calls, what is installed is well counted, and  *)
(* what runs fused was asked for.                                           *)
EXTENDS Optimize, SequenceTheorems, TLAPS

Wheres == {"lm", "expert", "visual"}
Operation == {"embed", "cast", "norm1", "q", "rope", "attention", "o", "add",
              "norm2", "mlp", "merger"}
Implementation == {"stock", "triton", "linear", "packed", "bf16"}

(* The operations a pass may run at the moment, fused or not. *)
Allowed(where) ==
    {o \in Operation \X Implementation :
       \/ o[2] = "stock" \/ o[1] \in {"rope", "cast"}
       \/ \E c \in asked, f \in Accounts(where, o[1]) : f \subseteq c}

(* An override is there because a configuration since the last unfuse_mlps  *)
(* wants it.                                                                *)
SitesAsked == \A p \in Sites : installed[p] > 0 => \E c \in asked : WantsSite(c, p)

(* The last pass ran what is allowed since.                                 *)
OInv == /\ SitesAsked
        /\ \/ ran.ops = <<>>
           \/ ran.where \in Wheres /\ ran.ops \in Seq(Allowed(ran.where))

(* What an override of each kind makes allowed.                             *)
LEMMA AskedDecoder ==
  ASSUME SitesAsked, NEW where \in {"lm", "expert"}, NEW motif \in DecoderMotifs,
         On(<<where, motif>>)
  PROVE  \E c \in asked : {motif} \cup (IF where = "expert" THEN {"flow_cache"} ELSE {}) \subseteq c
<1>1. <<where, motif>> \in Sites
  BY DEF Sites
<1>2. PICK c \in asked : WantsSite(c, <<where, motif>>)
  BY <1>1 DEF SitesAsked, On
<1> QED
  BY <1>2 DEF WantsSite

(* An override in the vision encoder was asked for by "vision". *)
LEMMA AskedVisual ==
  ASSUME SitesAsked, NEW motif \in VisualMotifs, On(<<"visual", motif>>)
  PROVE  \E c \in asked : {"vision"} \subseteq c
<1>1. <<"visual", motif>> \in Sites
  BY DEF Sites
<1>2. PICK c \in asked : WantsSite(c, <<"visual", motif>>)
  BY <1>1 DEF SitesAsked, On
<1> QED
  BY <1>2 DEF WantsSite

(* The pieces of a decoder layer. *)
LEMMA DecoderPieces ==
  ASSUME SitesAsked, NEW where \in {"lm", "expert"}, NEW rows, NEW fast
  PROVE  /\ Norm(where, "norm1") \in Seq(Allowed(where))
         /\ Norm(where, "norm2") \in Seq(Allowed(where))
         /\ SelfAttn(where, rows, fast) \in Seq(Allowed(where))
         /\ P5(where, rows) \in Seq(Allowed(where))
         /\ <<"add", "stock">> \in Allowed(where)
         /\ On(<<where, "add_rmsnorm">>) =>
              <<"add", "triton">> \in Allowed(where) /\ <<"norm2", "triton">> \in Allowed(where)
<1> DEFINE F == IF where = "expert" THEN {"flow_cache"} ELSE {}
<1>0. where # "visual"
  OBVIOUS
<1>1. \A op \in Operation : <<op, "stock">> \in Allowed(where)
  BY DEF Allowed, Implementation
<1>2. \A motif \in DecoderMotifs : On(<<where, motif>>) => \E c \in asked : {motif} \cup F \subseteq c
  BY AskedDecoder
<1>3. On(<<where, "norm">>) => \A op \in {"norm1", "norm2"} : <<op, "triton">> \in Allowed(where)
  <2>1. SUFFICES ASSUME On(<<where, "norm">>), NEW op \in {"norm1", "norm2"}
                 PROVE  <<op, "triton">> \in Allowed(where)
    OBVIOUS
  <2>2. PICK c \in asked : {"norm"} \cup F \subseteq c
    BY <1>2, <2>1 DEF DecoderMotifs
  <2>3. {"norm"} \cup F \in Accounts(where, op)
    BY <1>0 DEF Accounts
  <2> QED
    BY <2>2, <2>3 DEF Allowed, Operation, Implementation
<1>4. On(<<where, "add_rmsnorm">>) => \A op \in {"add", "norm2"} : <<op, "triton">> \in Allowed(where)
  <2>1. SUFFICES ASSUME On(<<where, "add_rmsnorm">>), NEW op \in {"add", "norm2"}
                 PROVE  <<op, "triton">> \in Allowed(where)
    OBVIOUS
  <2>2. PICK c \in asked : {"add_rmsnorm"} \cup F \subseteq c
    BY <1>2, <2>1 DEF DecoderMotifs
  <2>3. {"add_rmsnorm"} \cup F \in Accounts(where, op)
    BY <1>0 DEF Accounts
  <2> QED
    BY <2>2, <2>3 DEF Allowed, Operation, Implementation
<1>5. On(<<where, "linear">>) => \A op \in {"q", "o"} : <<op, "triton">> \in Allowed(where)
  <2>1. SUFFICES ASSUME On(<<where, "linear">>), NEW op \in {"q", "o"}
                 PROVE  <<op, "triton">> \in Allowed(where)
    OBVIOUS
  <2>2. PICK c \in asked : {"linear"} \cup F \subseteq c
    BY <1>2, <2>1 DEF DecoderMotifs
  <2>3. {"linear"} \cup F \in Accounts(where, op)
    BY <1>0 DEF Accounts
  <2> QED
    BY <2>2, <2>3 DEF Allowed, Operation, Implementation
<1>6. On(<<where, "mlp">>) => <<"mlp", "triton">> \in Allowed(where)
  <2>1. SUFFICES ASSUME On(<<where, "mlp">>)
                 PROVE  <<"mlp", "triton">> \in Allowed(where)
    OBVIOUS
  <2>2. PICK c \in asked : {"mlp"} \cup F \subseteq c
    BY <1>2, <2>1 DEF DecoderMotifs
  <2>3. {"mlp"} \cup F \in Accounts(where, "mlp")
    BY <1>0 DEF Accounts
  <2> QED
    BY <2>2, <2>3 DEF Allowed, Operation, Implementation
<1>7. \A im \in Implementation : <<"rope", im>> \in Allowed(where)
  BY DEF Allowed, Operation
<1>8. /\ <<"norm1", Impl(On(<<where, "norm">>))>> \in Allowed(where)
      /\ <<"norm2", Impl(On(<<where, "norm">>))>> \in Allowed(where)
  BY <1>1, <1>3 DEF Impl, Operation
<1>9. Linear(where, "q", rows) \in Allowed(where) /\ Linear(where, "o", rows) \in Allowed(where)
  BY <1>1, <1>5 DEF Linear, Impl, Operation
<1>10. <<"rope", Impl(On(TextRope) /\ fast)>> \in Allowed(where)
  BY <1>7 DEF Impl, Implementation
<1>11. <<"attention", "stock">> \in Allowed(where) /\ <<"add", "stock">> \in Allowed(where)
  BY <1>1 DEF Operation
<1>12. <<"mlp", Impl(On(<<where, "mlp">>) /\ rows = "many" /\ triton)>> \in Allowed(where)
  BY <1>1, <1>6 DEF Impl, Operation
<1>13. SelfAttn(where, rows, fast) \in Seq(Allowed(where))
  BY <1>9, <1>10, <1>11 DEF SelfAttn
<1> QED
  BY <1>4, <1>8, <1>11, <1>12, <1>13 DEF Norm, P5

(* A decoder layer runs only what its overrides allow. *)
LEMMA DecoderAllowed ==
  ASSUME SitesAsked, NEW where \in {"lm", "expert"}, NEW rows, NEW fast
  PROVE  DecoderLayer(where, rows, fast) \in Seq(Allowed(where))
<1> DEFINE A == Allowed(where)
<1>1. /\ Norm(where, "norm1") \in Seq(A) /\ Norm(where, "norm2") \in Seq(A)
      /\ SelfAttn(where, rows, fast) \in Seq(A) /\ P5(where, rows) \in Seq(A)
      /\ <<"add", "stock">> \in A
      /\ On(<<where, "add_rmsnorm">>) => <<"add", "triton">> \in A /\ <<"norm2", "triton">> \in A
  BY DecoderPieces
<1> HIDE DEF A
<1>2. << <<"add", "stock">> >> \in Seq(A)
  BY <1>1
<1>3. Norm(where, "norm1") \o SelfAttn(where, rows, fast) \in Seq(A)
  BY <1>1
<1>4. CASE On(<<where, "add_rmsnorm">>)
  <2>1. << <<"add", "triton">>, <<"norm2", "triton">> >> \in Seq(A)
    BY <1>1, <1>4
  <2>2. FusedLayer(where, rows, fast) \in Seq(A)
    BY <1>1, <1>2, <1>3, <2>1 DEF FusedLayer
  <2> QED
    BY <1>4, <2>2 DEF DecoderLayer, A
<1>5. CASE ~On(<<where, "add_rmsnorm">>)
  <2>1. StockLayer(where, rows, fast) \in Seq(A)
    BY <1>1, <1>2, <1>3 DEF StockLayer
  <2> QED
    BY <1>5, <2>1 DEF DecoderLayer, A
<1> QED
  BY <1>4, <1>5

(* So does the vision encoder. *)
LEMMA EncoderAllowed ==
  ASSUME SitesAsked
  PROVE  Encoder \in Seq(Allowed("visual"))
<1> DEFINE A == Allowed("visual")
<1>1. \A op \in Operation : <<op, "stock">> \in A
  BY DEF Allowed, Implementation
<1>2. \A im \in Implementation : <<"rope", im>> \in A /\ <<"cast", im>> \in A
  BY DEF Allowed, Operation
<1>3. ASSUME NEW motif \in VisualMotifs, On(<<"visual", motif>>)
      PROVE  \A op \in Operation, im \in Implementation : <<op, im>> \in A
  <2>1. PICK c \in asked : {"vision"} \subseteq c
    BY <1>3, AskedVisual
  <2>2. \A op \in Operation : {"vision"} \in Accounts("visual", op)
    BY DEF Accounts
  <2> QED
    BY <2>1, <2>2 DEF Allowed
<1> HIDE DEF A
<1>4. Embed \in Seq(A)
  <2>1. <<"embed", IF On(<<"visual", "patch_embed">>) THEN "linear" ELSE "stock">> \in A
    BY <1>1, <1>3 DEF VisualMotifs, Operation, Implementation
  <2> QED
    BY <2>1 DEF Embed
<1>5. \A name \in {"norm1", "norm2", "merger"} : Norm("visual", name) \in Seq(A)
  <2>1. \A name \in {"norm1", "norm2", "merger"} : <<name, Impl(On(<<"visual", "norm">>))>> \in A
    BY <1>1, <1>3 DEF VisualMotifs, Operation, Implementation, Impl
  <2> QED
    BY <2>1 DEF Norm
<1>6. VisualAttn \in Seq(A)
  <2>1. <<"rope", Impl(On(VisionRope))>> \in A
    BY <1>2 DEF Impl, Implementation
  <2>2. <<"attention", IF On(<<"visual", "attn">>) THEN "packed" ELSE "stock">> \in A
    BY <1>1, <1>3 DEF VisualMotifs, Operation, Implementation
  <2> QED
    BY <2>1, <2>2 DEF VisualAttn
<1>7. CASE On(<<"visual", "encoder">>)
  <2>1. \A op \in {"add", "norm2", "mlp", "merger"}, im \in {"stock", "triton"} : <<op, im>> \in A
    BY <1>3, <1>7 DEF VisualMotifs, Operation, Implementation
  <2>2. << <<"add", "triton">>, <<"norm2", "triton">>, <<"mlp", "stock">>,
           <<"add", "triton">>, <<"merger", "triton">> >> \in Seq(A)
    BY <2>1
  <2>3. FusedEncoder \in Seq(A)
    BY <1>4, <1>5, <1>6, <2>2 DEF FusedEncoder
  <2> QED
    BY <1>7, <2>3 DEF Encoder, A
<1>8. CASE ~On(<<"visual", "encoder">>)
  <2>1. (IF On(Cast) THEN << <<"cast", "bf16">> >> ELSE <<>>) \in Seq(A)
    BY <1>2 DEF Implementation
  <2>2. << <<"add", "stock">> >> \in Seq(A) /\ << <<"mlp", "stock">>, <<"add", "stock">> >> \in Seq(A)
    BY <1>1 DEF Operation
  <2>3. StockEncoder \in Seq(A)
    BY <1>4, <1>5, <1>6, <2>1, <2>2 DEF StockEncoder
  <2> QED
    BY <1>8, <2>3 DEF Encoder, A
<1> QED
  BY <1>7, <1>8

(* OInv holds at the start. *)
LEMMA OInvInit == Init => OInv
<1>1. \A p \in Sites : p \in Patches
  BY DEF Patches
<1> QED
  BY <1>1 DEF Init, OInv, SitesAsked, NoRun

(* OInv is inductive. *)
LEMMA OInvStep == OInv /\ [Next]_vars => OInv'
<1> SUFFICES ASSUME OInv, [Next]_vars PROVE OInv'
  OBVIOUS
<1>0. \A p \in Sites : p \in Patches
  BY DEF Patches
<1>1. ASSUME NEW c \in Configs, Apply(c) PROVE OInv'
  <2>1. ASSUME NEW p \in Sites, installed'[p] > 0
        PROVE  \E d \in asked' : WantsSite(d, p)'
    <3>1. CASE WantsSite(c, p)
      BY <1>1, <3>1 DEF Apply, WantsSite, platform
    <3>2. CASE ~WantsSite(c, p)
      <4>1. ~WantsOther(c, p)
        BY DEF WantsOther, Sites, DecoderMotifs, VisualMotifs, TextRope, VisionRope,
               Cast, ExpertHook, Runner, VlmHook, Adaptive
      <4>2. installed'[p] = installed[p]
        BY <1>0, <1>1, <3>2, <4>1 DEF Apply
      <4>3. PICK d \in asked : WantsSite(d, p)
        BY <2>1, <4>2 DEF OInv, SitesAsked
      <4> QED
        BY <1>1, <4>3 DEF Apply, WantsSite, platform
    <3> QED
      BY <3>1, <3>2
  <2>2. SitesAsked'
    BY <2>1 DEF SitesAsked
  <2>3. ran'.ops = <<>>
    BY <1>1 DEF Apply, NoRun
  <2> QED
    BY <2>2, <2>3 DEF OInv
<1>2. CASE Unfuse
  BY <1>0, <1>2 DEF Unfuse, OInv, SitesAsked, NoRun
<1>3. ASSUME NEW where \in Wheres, NEW rows \in {"one", "many"}, NEW fast \in BOOLEAN,
             Forward(where, rows, fast)
      PROVE  OInv'
  <2>1. Ops(where, rows, fast) \in Seq(Allowed(where))
    BY DecoderAllowed, EncoderAllowed DEF Ops, OInv, Wheres
  <2>2. UNCHANGED <<platform, installed, asked>> /\ ran'.where = where
        /\ (ran'.ops = <<>> \/ ran'.ops = Ops(where, rows, fast))
    BY <1>3 DEF Forward
  <2>3. Allowed(where)' = Allowed(where)
    BY <2>2 DEF Allowed, Accounts
  <2>4. SitesAsked'
    BY <2>2 DEF OInv, SitesAsked, WantsSite, platform
  <2>5. Allowed(ran.where)' = Allowed(where)
    BY <2>2 DEF Allowed, Accounts
  <2>6. CASE ran'.ops = <<>>
    BY <2>4, <2>6 DEF OInv
  <2>7. CASE ran'.ops = Ops(where, rows, fast)
    <3>1. ran'.where \in Wheres
      BY <2>2
    <3>2. ran'.ops \in Seq(Allowed(ran.where)')
      BY <2>1, <2>5, <2>7
    <3> QED
      BY <2>4, <3>1, <3>2 DEF OInv
  <2> QED
    BY <2>2, <2>6, <2>7
<1>4. CASE UNCHANGED vars
  BY <1>4 DEF vars, platform, OInv, SitesAsked, WantsSite, Allowed, Accounts
<1> QED
  BY <1>1, <1>2, <1>3, <1>4 DEF Next, Wheres

(* For every model and however often and with whatever configurations       *)
(* apply() and unfuse_mlps() were called, a fused implementation runs only  *)
(* where a configuration asked for it (optimize.py:113-150,                 *)
(* integrate.py:759-766).                                                   *)
THEOREM FusedOnlyAsked == Spec => []OnlyAsked
<1>1. OInv => OnlyAsked
  <2>1. SUFFICES ASSUME OInv, NEW i \in DOMAIN ran.ops
                 PROVE  \/ ran.ops[i][2] = "stock" \/ ran.ops[i][1] \in {"rope", "cast"}
                        \/ \E c \in asked, f \in Accounts(ran.where, ran.ops[i][1]) : f \subseteq c
    BY DEF OnlyAsked
  <2>2. ran.ops \in Seq(Allowed(ran.where))
    BY <2>1 DEF OInv
  <2>3. ran.ops[i] \in Allowed(ran.where)
    BY <2>1, <2>2
  <2> QED
    BY <2>3 DEF Allowed
<1> QED
  BY <1>1, OInvInit, OInvStep, PTL DEF Spec

(* No patch is there more often than apply() was called. *)
Counted == TypeOK /\ \A p \in Patches : installed[p] <= applies

(* Overrides and RoPE functions are installed once however often apply()    *)
(* runs, hooks and wrappers at most once per call (optimize.py:92-168).     *)
THEOREM OptimizeTypeCorrect == Spec => []TypeOK
<1>1. Init => Counted
  BY Parameters DEF Init, Counted, TypeOK, Patches, NoRun
<1>2. Counted /\ [Next]_vars => Counted'
  <2> SUFFICES ASSUME Counted, [Next]_vars PROVE Counted'
    OBVIOUS
  <2>0. /\ \A p \in Patches : installed[p] \in 0 .. applies
        /\ applies \in Nat /\ MaxApplies \in Nat
        /\ Sites \cup {TextRope, VisionRope} \subseteq Patches
    BY Parameters DEF Counted, TypeOK, Patches
  <2>1. ASSUME NEW c \in Configs, Apply(c) PROVE Counted'
    <3>1. applies' = applies + 1 /\ applies' \in 0 .. MaxApplies
      BY <2>0, <2>1 DEF Apply, Counted, TypeOK
    <3>2. \A p \in Patches : installed'[p] \in 0 .. applies'
      BY <2>0, <2>1, <3>1 DEF Apply
    <3>3. installed' \in [Patches -> 0 .. MaxApplies]
      BY <2>0, <2>1, <3>1, <3>2 DEF Apply
    <3>4. ASSUME NEW p \in Sites \cup {TextRope, VisionRope} PROVE installed'[p] <= 1
      <4>1. ~Stacks(p) /\ p \in Patches /\ installed[p] <= 1
        BY <2>0 DEF Counted, TypeOK, Stacks, Sites, DecoderMotifs, VisualMotifs, Cast,
                    ExpertHook, VlmHook, Runner, Adaptive, TextRope, VisionRope
      <4> QED
        BY <2>1, <4>1 DEF Apply
    <3>5. report' \subseteq Patches /\ asked' \subseteq Configs /\ ran'.died \in BOOLEAN
          /\ UNCHANGED <<triton, model>>
      BY <2>1 DEF Apply, NoRun, platform, Counted, TypeOK
    <3> QED
      BY <2>0, <3>1, <3>2, <3>3, <3>4, <3>5 DEF Counted, TypeOK
  <2>2. CASE Unfuse
    BY <2>0, <2>2 DEF Unfuse, Counted, TypeOK, NoRun, platform
  <2>3. ASSUME NEW where \in Wheres, NEW rows \in {"one", "many"}, NEW fast \in BOOLEAN,
               Forward(where, rows, fast)
        PROVE  Counted'
    BY <2>3 DEF Forward, Counted, TypeOK, platform
  <2>4. CASE UNCHANGED vars
    BY <2>4 DEF vars, platform, Counted, TypeOK
  <2> QED
    BY <2>1, <2>2, <2>3, <2>4 DEF Next, Wheres
<1> QED
  BY <1>1, <1>2, PTL DEF Spec, Counted

-----------------------------------------------------------------------------
(* What a pass computes, and what a report promises.                        *)

Pairs == Operation \X Implementation

(* One sequence of operations after another does the operations of both. *)
LEMMA MathConcat ==
  ASSUME NEW a \in Seq(Pairs), NEW b \in Seq(Pairs)
  PROVE  a \o b \in Seq(Pairs) /\ Math(a \o b) = Math(a) \o Math(b)
<1>1. \A q \in Seq(Pairs) :
        /\ Math(q) \in Seq(Operation) /\ Len(Math(q)) = Len(q)
        /\ \A i \in 1 .. Len(q) : Math(q)[i] = q[i][1]
  <2> SUFFICES ASSUME NEW q \in Seq(Pairs)
               PROVE  /\ Math(q) \in Seq(Operation) /\ Len(Math(q)) = Len(q)
                      /\ \A i \in 1 .. Len(q) : Math(q)[i] = q[i][1]
    OBVIOUS
  <2>1. \A i \in 1 .. Len(q) : q[i][1] \in Operation
    BY DEF Pairs
  <2>2. Math(q) = [i \in 1 .. Len(q) |-> q[i][1]] /\ Len(q) \in Nat
    BY DEF Math
  <2> HIDE DEF Operation
  <2> QED
    BY <2>1, <2>2
<1> DEFINE c == a \o b
           m == Math(a) \o Math(b)
<1> HIDE DEF Pairs
<1>2. c \in Seq(Pairs) /\ Len(c) = Len(a) + Len(b)
  OBVIOUS
<1>3. /\ Math(a) \in Seq(Operation) /\ Math(b) \in Seq(Operation)
      /\ Len(Math(a)) = Len(a) /\ Len(Math(b)) = Len(b)
  BY <1>1
<1> HIDE DEF Operation
<1>4. m \in Seq(Operation) /\ Len(m) = Len(a) + Len(b)
  BY <1>3
<1>5. Math(c) \in Seq(Operation) /\ Len(Math(c)) = Len(m)
  BY <1>1, <1>2, <1>4
<1>6. ASSUME NEW i \in 1 .. Len(m) PROVE Math(c)[i] = m[i]
  <2>1. Math(c)[i] = c[i][1] /\ i \in 1 .. Len(a) + Len(b)
    BY <1>1, <1>2, <1>4
  <2>2. CASE i <= Len(a)
    <3>1. i \in 1 .. Len(a) /\ c[i] = a[i]
      BY <2>1, <2>2
    <3>2. m[i] = Math(a)[i] /\ Math(a)[i] = a[i][1]
      BY <1>1, <1>3, <3>1
    <3> QED
      BY <2>1, <3>1, <3>2
  <2>3. CASE i > Len(a)
    <3>1. i - Len(a) \in 1 .. Len(b) /\ c[i] = b[i - Len(a)]
      BY <2>1, <2>3
    <3>2. m[i] = Math(b)[i - Len(a)] /\ Math(b)[i - Len(a)] = b[i - Len(a)][1]
      BY <1>1, <1>3, <2>1, <2>3, <3>1
    <3> QED
      BY <2>1, <3>1, <3>2
  <2> QED
    BY <2>1, <2>2, <2>3
<1> HIDE DEF c, m
<1>7. Math(c) = m
  BY <1>4, <1>5, <1>6, SeqEqual
<1> QED
  BY <1>2, <1>7 DEF c, m

(* The pieces of each kind of pass, put together.                           *)
LEMMA DecoderFusedConcat ==
  <<"norm1">> \o <<"q", "rope", "attention", "o">> \o <<"add", "norm2">>
       \o <<"mlp">> \o <<"add">>
      = DecoderMath
<1> DEFINE l == <<"norm1">> \o <<"q", "rope", "attention", "o">> \o <<"add", "norm2">>
                  \o <<"mlp">> \o <<"add">>
<1>1. l \in Seq(Operation) /\ Len(l) = 9
  BY DEF Operation
<1>2. DecoderMath \in Seq(Operation) /\ Len(DecoderMath) = 9
  BY DEF DecoderMath, Operation
<1>3. l[1] = DecoderMath[1] /\ l[2] = DecoderMath[2] /\ l[3] = DecoderMath[3]
  BY DEF DecoderMath
<1>4. l[4] = DecoderMath[4] /\ l[5] = DecoderMath[5] /\ l[6] = DecoderMath[6]
  BY DEF DecoderMath
<1>5. l[7] = DecoderMath[7] /\ l[8] = DecoderMath[8] /\ l[9] = DecoderMath[9]
  BY DEF DecoderMath
<1> HIDE DEF l
<1>6. \A i \in 1 .. 9 : l[i] = DecoderMath[i]
  BY <1>3, <1>4, <1>5
<1>7. l = DecoderMath
  BY <1>1, <1>2, <1>6, SeqEqual
<1> QED
  BY <1>7 DEF l

(* The operations of the stock decoder layer, from its pieces. *)
LEMMA DecoderStockConcat ==
  <<"norm1">> \o <<"q", "rope", "attention", "o">> \o <<"add">>
       \o <<"norm2">> \o <<"mlp">> \o <<"add">>
      = DecoderMath
<1> DEFINE l == <<"norm1">> \o <<"q", "rope", "attention", "o">> \o <<"add">>
                  \o <<"norm2">> \o <<"mlp">> \o <<"add">>
<1>1. l \in Seq(Operation) /\ Len(l) = 9
  BY DEF Operation
<1>2. DecoderMath \in Seq(Operation) /\ Len(DecoderMath) = 9
  BY DEF DecoderMath, Operation
<1>3. l[1] = DecoderMath[1] /\ l[2] = DecoderMath[2] /\ l[3] = DecoderMath[3]
  BY DEF DecoderMath
<1>4. l[4] = DecoderMath[4] /\ l[5] = DecoderMath[5] /\ l[6] = DecoderMath[6]
  BY DEF DecoderMath
<1>5. l[7] = DecoderMath[7] /\ l[8] = DecoderMath[8] /\ l[9] = DecoderMath[9]
  BY DEF DecoderMath
<1> HIDE DEF l
<1>6. \A i \in 1 .. 9 : l[i] = DecoderMath[i]
  BY <1>3, <1>4, <1>5
<1>7. l = DecoderMath
  BY <1>1, <1>2, <1>6, SeqEqual
<1> QED
  BY <1>7 DEF l

(* The operations of the fused encoder, from its pieces. *)
LEMMA VisualFusedConcat ==
  <<"embed">> \o <<"norm1">> \o <<"rope", "attention">>
       \o <<"add", "norm2", "mlp", "add", "merger">>
      = VisualMath
<1> DEFINE l == <<"embed">> \o <<"norm1">> \o <<"rope", "attention">>
                  \o <<"add", "norm2", "mlp", "add", "merger">>
<1>1. l \in Seq(Operation) /\ Len(l) = 9
  BY DEF Operation
<1>2. VisualMath \in Seq(Operation) /\ Len(VisualMath) = 9
  BY DEF VisualMath, Operation
<1>3. l[1] = VisualMath[1] /\ l[2] = VisualMath[2] /\ l[3] = VisualMath[3]
  BY DEF VisualMath
<1>4. l[4] = VisualMath[4] /\ l[5] = VisualMath[5] /\ l[6] = VisualMath[6]
  BY DEF VisualMath
<1>5. l[7] = VisualMath[7] /\ l[8] = VisualMath[8] /\ l[9] = VisualMath[9]
  BY DEF VisualMath
<1> HIDE DEF l
<1>6. \A i \in 1 .. 9 : l[i] = VisualMath[i]
  BY <1>3, <1>4, <1>5
<1>7. l = VisualMath
  BY <1>1, <1>2, <1>6, SeqEqual
<1> QED
  BY <1>7 DEF l

(* Those of the stock encoder with the cast. *)
LEMMA VisualCastConcat ==
  <<"embed">> \o <<"cast">> \o <<"norm1">> \o <<"rope", "attention">>
       \o <<"add">> \o <<"norm2">> \o <<"mlp", "add">> \o <<"merger">>
      = CastMath
<1> DEFINE l == <<"embed">> \o <<"cast">> \o <<"norm1">> \o <<"rope", "attention">>
                  \o <<"add">> \o <<"norm2">> \o <<"mlp", "add">> \o <<"merger">>
<1>1. l \in Seq(Operation) /\ Len(l) = 10
  BY DEF Operation
<1>2. CastMath \in Seq(Operation) /\ Len(CastMath) = 10
  BY DEF CastMath, Operation
<1>3. l[1] = CastMath[1] /\ l[2] = CastMath[2] /\ l[3] = CastMath[3]
  BY DEF CastMath
<1>4. l[4] = CastMath[4] /\ l[5] = CastMath[5] /\ l[6] = CastMath[6]
  BY DEF CastMath
<1>5. l[7] = CastMath[7] /\ l[8] = CastMath[8]
  BY DEF CastMath
<1>6. l[9] = CastMath[9] /\ l[10] = CastMath[10]
  BY DEF CastMath
<1> HIDE DEF l
<1>7. \A i \in 1 .. 10 : l[i] = CastMath[i]
  BY <1>3, <1>4, <1>5, <1>6
<1>8. l = CastMath
  BY <1>1, <1>2, <1>7, SeqEqual
<1> QED
  BY <1>8 DEF l

(* Those of the stock encoder without it. *)
LEMMA VisualStockConcat ==
  <<"embed">> \o <<>> \o <<"norm1">> \o <<"rope", "attention">>
       \o <<"add">> \o <<"norm2">> \o <<"mlp", "add">> \o <<"merger">>
      = VisualMath
<1> DEFINE l == <<"embed">> \o <<>> \o <<"norm1">> \o <<"rope", "attention">>
                  \o <<"add">> \o <<"norm2">> \o <<"mlp", "add">> \o <<"merger">>
<1>1. l \in Seq(Operation) /\ Len(l) = 9
  BY DEF Operation
<1>2. VisualMath \in Seq(Operation) /\ Len(VisualMath) = 9
  BY DEF VisualMath, Operation
<1>3. l[1] = VisualMath[1] /\ l[2] = VisualMath[2] /\ l[3] = VisualMath[3]
  BY DEF VisualMath
<1>4. l[4] = VisualMath[4] /\ l[5] = VisualMath[5] /\ l[6] = VisualMath[6]
  BY DEF VisualMath
<1>5. l[7] = VisualMath[7] /\ l[8] = VisualMath[8] /\ l[9] = VisualMath[9]
  BY DEF VisualMath
<1> HIDE DEF l
<1>6. \A i \in 1 .. 9 : l[i] = VisualMath[i]
  BY <1>3, <1>4, <1>5
<1>7. l = VisualMath
  BY <1>1, <1>2, <1>6, SeqEqual
<1> QED
  BY <1>7 DEF l

(* What the pieces of a pass compute, whatever implementation each runs.    *)
LEMMA NormMath ==
  ASSUME NEW where, NEW name \in {"norm1", "norm2", "merger"}
  PROVE  Norm(where, name) \in Seq(Pairs) /\ Math(Norm(where, name)) = <<name>>
<1>1. <<name, Impl(On(<<where, "norm">>))>> \in Pairs
  BY DEF Impl, Pairs, Operation, Implementation
<1> HIDE DEF Pairs
<1> QED
  BY <1>1 DEF Norm, Math

(* An mlp is one operation, stock or fused. *)
LEMMA MlpMath ==
  ASSUME NEW where, NEW rows
  PROVE  P5(where, rows) \in Seq(Pairs) /\ Math(P5(where, rows)) = <<"mlp">>
<1>1. <<"mlp", Impl(On(<<where, "mlp">>) /\ rows = "many" /\ triton)>> \in Pairs
  BY DEF Impl, Pairs, Operation, Implementation
<1> HIDE DEF Pairs
<1> QED
  BY <1>1 DEF P5, Math

(* Self-attention is four operations, whatever runs them. *)
LEMMA SelfAttnMath ==
  ASSUME NEW where, NEW rows, NEW fast
  PROVE  /\ SelfAttn(where, rows, fast) \in Seq(Pairs)
         /\ Math(SelfAttn(where, rows, fast)) = <<"q", "rope", "attention", "o">>
<1>1. /\ Linear(where, "q", rows) \in Pairs /\ Linear(where, "o", rows) \in Pairs
      /\ Linear(where, "q", rows)[1] = "q" /\ Linear(where, "o", rows)[1] = "o"
  BY DEF Linear, Impl, Pairs, Operation, Implementation
<1>2. <<"rope", Impl(On(TextRope) /\ fast)>> \in Pairs /\ <<"attention", "stock">> \in Pairs
  BY DEF Impl, Pairs, Operation, Implementation
<1> HIDE DEF Pairs
<1> QED
  BY <1>1, <1>2 DEF SelfAttn, Math

(* Attention in the encoder is two. *)
LEMMA VisualAttnMath ==
  VisualAttn \in Seq(Pairs) /\ Math(VisualAttn) = <<"rope", "attention">>
<1>1. /\ <<"rope", Impl(On(VisionRope))>> \in Pairs
      /\ <<"attention", IF On(<<"visual", "attn">>) THEN "packed" ELSE "stock">> \in Pairs
  BY DEF Impl, Pairs, Operation, Implementation
<1> HIDE DEF Pairs
<1> QED
  BY <1>1 DEF VisualAttn, Math

(* The patch embedding is one, a convolution or a linear. *)
LEMMA EmbedMath == Embed \in Seq(Pairs) /\ Math(Embed) = <<"embed">>
<1>1. <<"embed", IF On(<<"visual", "patch_embed">>) THEN "linear" ELSE "stock">> \in Pairs
  BY DEF Pairs, Operation, Implementation
<1> HIDE DEF Pairs
<1> QED
  BY <1>1 DEF Embed, Math

(* A single operation, whatever runs it. *)
LEMMA AddMath ==
  ASSUME NEW op \in Operation, NEW im \in Implementation
  PROVE  << <<op, im>> >> \in Seq(Pairs) /\ Math(<< <<op, im>> >>) = <<op>>
<1>1. <<op, im>> \in Pairs
  BY DEF Pairs
<1> HIDE DEF Pairs
<1> QED
  BY <1>1 DEF Math

(* A decoder layer does the stock operations, whatever overrides it has. *)
LEMMA DecoderMathIs ==
  ASSUME NEW where, NEW rows, NEW fast
  PROVE  Math(DecoderLayer(where, rows, fast)) = DecoderMath
<1> DEFINE norm1 == Norm(where, "norm1")
           norm2 == Norm(where, "norm2")
           attn == SelfAttn(where, rows, fast)
           mlp == P5(where, rows)
           add == << <<"add", "stock">> >>
           both == << <<"add", "triton">>, <<"norm2", "triton">> >>
<1>1. /\ norm1 \in Seq(Pairs) /\ Math(norm1) = <<"norm1">>
      /\ norm2 \in Seq(Pairs) /\ Math(norm2) = <<"norm2">>
      /\ attn \in Seq(Pairs) /\ Math(attn) = <<"q", "rope", "attention", "o">>
      /\ mlp \in Seq(Pairs) /\ Math(mlp) = <<"mlp">>
  BY NormMath, SelfAttnMath, MlpMath
<1>2. add \in Seq(Pairs) /\ Math(add) = <<"add">>
  BY AddMath DEF Operation, Implementation
<1>3. both \in Seq(Pairs) /\ Math(both) = <<"add", "norm2">>
  <2>1. <<"add", "triton">> \in Pairs /\ <<"norm2", "triton">> \in Pairs
    BY DEF Pairs, Operation, Implementation
  <2> HIDE DEF Pairs
  <2> QED
    BY <2>1 DEF Math
<1> HIDE DEF norm1, norm2, attn, mlp, add, both
<1>4. CASE On(<<where, "add_rmsnorm">>)
  <2>1. DecoderLayer(where, rows, fast) = norm1 \o attn \o both \o mlp \o add
    BY <1>4 DEF DecoderLayer, FusedLayer, norm1, attn, both, mlp, add
  <2>2. Math(norm1 \o attn \o both \o mlp \o add)
          = Math(norm1) \o Math(attn) \o Math(both) \o Math(mlp) \o Math(add)
    <3>1. /\ norm1 \o attn \in Seq(Pairs)
          /\ Math(norm1 \o attn)
               = Math(norm1) \o Math(attn)
      BY <1>1, <1>2, <1>3, MathConcat
    <3>2. /\ norm1 \o attn \o both \in Seq(Pairs)
          /\ Math(norm1 \o attn \o both)
               = Math(norm1) \o Math(attn) \o Math(both)
      BY <1>1, <1>2, <1>3, <3>1, MathConcat
    <3>3. /\ norm1 \o attn \o both \o mlp \in Seq(Pairs)
          /\ Math(norm1 \o attn \o both \o mlp)
               = Math(norm1) \o Math(attn) \o Math(both) \o Math(mlp)
      BY <1>1, <1>2, <1>3, <3>2, MathConcat
    <3>4. /\ norm1 \o attn \o both \o mlp \o add \in Seq(Pairs)
          /\ Math(norm1 \o attn \o both \o mlp \o add)
               = Math(norm1) \o Math(attn) \o Math(both) \o Math(mlp) \o Math(add)
      BY <1>1, <1>2, <1>3, <3>3, MathConcat
    <3> QED
      BY <3>4
  <2>3. <<"norm1">> \o <<"q", "rope", "attention", "o">> \o <<"add", "norm2">>
          \o <<"mlp">> \o <<"add">> = DecoderMath
    BY DecoderFusedConcat
  <2> QED
    BY <1>1, <1>2, <1>3, <2>1, <2>2, <2>3, Zenon
<1>5. CASE ~On(<<where, "add_rmsnorm">>)
  <2>1. DecoderLayer(where, rows, fast) = norm1 \o attn \o add \o norm2 \o mlp \o add
    BY <1>5 DEF DecoderLayer, StockLayer, norm1, norm2, attn, mlp, add
  <2>2. /\ norm1 \o attn \o add \o norm2 \o mlp \in Seq(Pairs)
        /\ Math(norm1 \o attn \o add \o norm2 \o mlp)
             = Math(norm1) \o Math(attn) \o Math(add) \o Math(norm2) \o Math(mlp)
    <3>1. /\ norm1 \o attn \in Seq(Pairs)
          /\ Math(norm1 \o attn)
               = Math(norm1) \o Math(attn)
      BY <1>1, <1>2, MathConcat
    <3>2. /\ norm1 \o attn \o add \in Seq(Pairs)
          /\ Math(norm1 \o attn \o add)
               = Math(norm1) \o Math(attn) \o Math(add)
      BY <1>1, <1>2, <3>1, MathConcat
    <3>3. /\ norm1 \o attn \o add \o norm2 \in Seq(Pairs)
          /\ Math(norm1 \o attn \o add \o norm2)
               = Math(norm1) \o Math(attn) \o Math(add) \o Math(norm2)
      BY <1>1, <1>2, <3>2, MathConcat
    <3>4. /\ norm1 \o attn \o add \o norm2 \o mlp \in Seq(Pairs)
          /\ Math(norm1 \o attn \o add \o norm2 \o mlp)
               = Math(norm1) \o Math(attn) \o Math(add) \o Math(norm2) \o Math(mlp)
      BY <1>1, <1>2, <3>3, MathConcat
    <3> QED
      BY <3>4
  <2>3. Math(norm1 \o attn \o add \o norm2 \o mlp \o add)
          = Math(norm1) \o Math(attn) \o Math(add) \o Math(norm2) \o Math(mlp) \o Math(add)
    BY <1>2, <2>2, MathConcat
  <2>4. <<"norm1">> \o <<"q", "rope", "attention", "o">> \o <<"add">>
          \o <<"norm2">> \o <<"mlp">> \o <<"add">> = DecoderMath
    BY DecoderStockConcat
  <2> QED
    BY <1>1, <1>2, <2>1, <2>3, <2>4, Zenon
<1> QED
  BY <1>4, <1>5

(* So does the encoder, but for the cast. *)
LEMMA EncoderMathIs ==
  /\ Math(Encoder) \in {VisualMath, CastMath}
  /\ On(<<"visual", "encoder">>) => Math(Encoder) = VisualMath
<1> DEFINE norm1 == Norm("visual", "norm1")
           norm2 == Norm("visual", "norm2")
           merger == Norm("visual", "merger")
           cast == IF On(Cast) THEN << <<"cast", "bf16">> >> ELSE <<>>
           add == << <<"add", "stock">> >>
           mlp == << <<"mlp", "stock">>, <<"add", "stock">> >>
           rest == << <<"add", "triton">>, <<"norm2", "triton">>, <<"mlp", "stock">>,
                      <<"add", "triton">>, <<"merger", "triton">> >>
<1>1. /\ norm1 \in Seq(Pairs) /\ Math(norm1) = <<"norm1">>
      /\ norm2 \in Seq(Pairs) /\ Math(norm2) = <<"norm2">>
      /\ merger \in Seq(Pairs) /\ Math(merger) = <<"merger">>
  BY NormMath
<1>2. \A op \in {"add", "norm2", "mlp", "merger"}, im \in {"stock", "triton"} :
        <<op, im>> \in Pairs
  BY DEF Pairs, Operation, Implementation
<1>3. cast \in Seq(Pairs) /\ Math(cast) \in {<<"cast">>, <<>>}
  <2>1. << <<"cast", "bf16">> >> \in Seq(Pairs) /\ Math(<< <<"cast", "bf16">> >>) = <<"cast">>
    BY AddMath DEF Operation, Implementation
  <2>2. <<>> \in Seq(Pairs) /\ Math(<<>>) = <<>>
    BY DEF Math
  <2> QED
    BY <2>1, <2>2
<1>4. add \in Seq(Pairs) /\ Math(add) = <<"add">>
  BY AddMath DEF Operation, Implementation
<1>5. mlp \in Seq(Pairs) /\ Math(mlp) = <<"mlp", "add">>
  <2> HIDE DEF Pairs
  <2> QED
    BY <1>2 DEF Math
<1>6. rest \in Seq(Pairs) /\ Math(rest) = <<"add", "norm2", "mlp", "add", "merger">>
  <2> HIDE DEF Pairs
  <2> QED
    BY <1>2 DEF Math
<1> HIDE DEF norm1, norm2, merger, cast, add, mlp, rest
<1>7. CASE On(<<"visual", "encoder">>)
  <2>1. Encoder = Embed \o norm1 \o VisualAttn \o rest
    BY <1>7 DEF Encoder, FusedEncoder, norm1, rest
  <2>2. Embed \o norm1 \in Seq(Pairs) /\ Math(Embed \o norm1) = Math(Embed) \o Math(norm1)
    BY <1>1, EmbedMath, MathConcat
  <2>3. /\ Embed \o norm1 \o VisualAttn \in Seq(Pairs)
        /\ Math(Embed \o norm1 \o VisualAttn) = Math(Embed) \o Math(norm1) \o Math(VisualAttn)
    BY <2>2, VisualAttnMath, MathConcat
  <2>4. Math(Embed \o norm1 \o VisualAttn \o rest)
          = Math(Embed) \o Math(norm1) \o Math(VisualAttn) \o Math(rest)
    BY <2>3, <1>6, MathConcat
  <2>5. <<"embed">> \o <<"norm1">> \o <<"rope", "attention">>
          \o <<"add", "norm2", "mlp", "add", "merger">> = VisualMath
    BY VisualFusedConcat
  <2>6. Math(Encoder) = VisualMath
    BY <1>1, <1>6, <2>1, <2>4, <2>5, EmbedMath, VisualAttnMath, Zenon
  <2> QED
    BY <2>6
<1>8. CASE ~On(<<"visual", "encoder">>)
  <2>1. Encoder = Embed \o cast \o norm1 \o VisualAttn \o add \o norm2 \o mlp \o merger
    BY <1>8 DEF Encoder, StockEncoder, norm1, norm2, merger, cast, add, mlp
  <2>2. /\ Embed \o cast \o norm1 \o VisualAttn \o add \in Seq(Pairs)
        /\ Math(Embed \o cast \o norm1 \o VisualAttn \o add)
             = Math(Embed) \o Math(cast) \o Math(norm1) \o Math(VisualAttn) \o Math(add)
    <3>1. /\ Embed \o cast \in Seq(Pairs)
          /\ Math(Embed \o cast)
               = Math(Embed) \o Math(cast)
      BY <1>1, <1>3, <1>4, EmbedMath, VisualAttnMath, MathConcat
    <3>2. /\ Embed \o cast \o norm1 \in Seq(Pairs)
          /\ Math(Embed \o cast \o norm1)
               = Math(Embed) \o Math(cast) \o Math(norm1)
      BY <1>1, <1>3, <1>4, EmbedMath, VisualAttnMath, <3>1, MathConcat
    <3>3. /\ Embed \o cast \o norm1 \o VisualAttn \in Seq(Pairs)
          /\ Math(Embed \o cast \o norm1 \o VisualAttn)
               = Math(Embed) \o Math(cast) \o Math(norm1) \o Math(VisualAttn)
      BY <1>1, <1>3, <1>4, EmbedMath, VisualAttnMath, <3>2, MathConcat
    <3>4. /\ Embed \o cast \o norm1 \o VisualAttn \o add \in Seq(Pairs)
          /\ Math(Embed \o cast \o norm1 \o VisualAttn \o add)
               = Math(Embed) \o Math(cast) \o Math(norm1) \o Math(VisualAttn) \o Math(add)
      BY <1>1, <1>3, <1>4, EmbedMath, VisualAttnMath, <3>3, MathConcat
    <3> QED
      BY <3>4
  <2> DEFINE half == Embed \o cast \o norm1 \o VisualAttn \o add
  <2> HIDE DEF half
  <2>3. /\ half \o norm2 \in Seq(Pairs)
        /\ Math(half \o norm2) = Math(half) \o Math(norm2)
    BY <1>1, <2>2, MathConcat DEF half
  <2>4. /\ half \o norm2 \o mlp \in Seq(Pairs)
        /\ Math(half \o norm2 \o mlp) = Math(half) \o Math(norm2) \o Math(mlp)
    BY <1>5, <2>3, MathConcat
  <2>5. Math(half \o norm2 \o mlp \o merger)
          = Math(half) \o Math(norm2) \o Math(mlp) \o Math(merger)
    BY <1>1, <2>4, MathConcat
  <2>6. Math(Encoder) = <<"embed">> \o Math(cast) \o <<"norm1">> \o <<"rope", "attention">>
                          \o <<"add">> \o <<"norm2">> \o <<"mlp", "add">> \o <<"merger">>
    BY <1>1, <1>4, <1>5, <2>1, <2>2, <2>5, EmbedMath, VisualAttnMath, Zenon DEF half
  <2>7. CASE Math(cast) = <<"cast">>
    <3>1. <<"embed">> \o <<"cast">> \o <<"norm1">> \o <<"rope", "attention">>
            \o <<"add">> \o <<"norm2">> \o <<"mlp", "add">> \o <<"merger">> = CastMath
      BY VisualCastConcat
    <3>2. Math(Encoder) = CastMath
      BY <2>6, <2>7, <3>1, Zenon
    <3> QED
      BY <1>8, <3>2
  <2>8. CASE Math(cast) = <<>>
    <3>1. <<"embed">> \o <<>> \o <<"norm1">> \o <<"rope", "attention">>
            \o <<"add">> \o <<"norm2">> \o <<"mlp", "add">> \o <<"merger">> = VisualMath
      BY VisualStockConcat
    <3>2. Math(Encoder) = VisualMath
      BY <2>6, <2>8, <3>1, Zenon
    <3> QED
      BY <3>2
  <2> QED
    BY <1>3, <1>8, <2>7, <2>8
<1> QED
  BY <1>7, <1>8

(* Whatever was applied, taken back or found no motif, a pass does the      *)
(* operations of the unpatched model, each once and in their order          *)
(* (integrate.py:11-12, 112-160, 495-617).                                 *)
THEOREM AlwaysSameMath == Spec => []SameMath
<1>1. Init => SameMath
  BY DEF Init, NoRun, SameMath
<1>2. SameMath /\ [Next]_vars => SameMath'
  <2> SUFFICES ASSUME SameMath, [Next]_vars PROVE SameMath'
    OBVIOUS
  <2>1. ASSUME NEW c \in Configs, Apply(c) PROVE SameMath'
    BY <2>1 DEF Apply, NoRun, SameMath
  <2>2. CASE Unfuse
    BY <2>2 DEF Unfuse, NoRun, SameMath
  <2>3. ASSUME NEW where \in Wheres, NEW rows \in {"one", "many"}, NEW fast \in BOOLEAN,
               Forward(where, rows, fast)
        PROVE  SameMath'
    <3>1. /\ ran'.where = where
          /\ ran'.ops = <<>> \/ ran'.ops = Ops(where, rows, fast)
      BY <2>3 DEF Forward
    <3>2. where = "visual" => Math(Ops(where, rows, fast)) \in {VisualMath, CastMath}
      BY EncoderMathIs DEF Ops
    <3>3. where # "visual" => Math(Ops(where, rows, fast)) = DecoderMath
      BY DecoderMathIs DEF Ops
    <3>4. Math(ran.ops)' = Math(ran'.ops)
      BY DEF Math
    <3> HIDE DEF Math, Ops
    <3> QED
      BY <3>1, <3>2, <3>3, <3>4 DEF SameMath
  <2>4. CASE UNCHANGED vars
    BY <2>4 DEF vars, SameMath, Math
  <2> QED
    BY <2>1, <2>2, <2>3, <2>4 DEF Next, Wheres
<1> QED
  BY <1>1, <1>2, PTL DEF Spec

(* What runs fused in a part runs fused in the whole. *)
LEMMA FusedConcat ==
  ASSUME NEW a \in Seq(Pairs), NEW b \in Seq(Pairs), NEW op,
         Fused(a, op) \/ Fused(b, op)
  PROVE  Fused(a \o b, op)
<1> HIDE DEF Pairs
<1>1. CASE Fused(a, op)
  <2>1. PICK i \in DOMAIN a : a[i][1] = op /\ a[i][2] # "stock"
    BY <1>1 DEF Fused
  <2>2. i \in DOMAIN (a \o b) /\ (a \o b)[i] = a[i]
    BY <2>1
  <2> QED
    BY <2>1, <2>2 DEF Fused
<1>2. CASE Fused(b, op)
  <2>1. PICK i \in DOMAIN b : b[i][1] = op /\ b[i][2] # "stock"
    BY <1>2 DEF Fused
  <2>2. i + Len(a) \in DOMAIN (a \o b) /\ (a \o b)[i + Len(a)] = b[i]
    BY <2>1
  <2> QED
    BY <2>1, <2>2 DEF Fused
<1> QED
  BY <1>1, <1>2

(* The last of several pieces, or one before it. *)
LEMMA FusedConcat4 ==
  ASSUME NEW a \in Seq(Pairs), NEW b \in Seq(Pairs), NEW c \in Seq(Pairs),
         NEW d \in Seq(Pairs), NEW op,
         Fused(a, op) \/ Fused(b, op) \/ Fused(c, op) \/ Fused(d, op)
  PROVE  a \o b \o c \o d \in Seq(Pairs) /\ Fused(a \o b \o c \o d, op)
<1>1. a \o b \in Seq(Pairs) /\ a \o b \o c \in Seq(Pairs)
  <2>1. a \o b \in Seq(Pairs)
    BY MathConcat
  <2> QED
    BY <2>1, MathConcat
<1>2. a \o b \o c \o d \in Seq(Pairs)
  BY <1>1, MathConcat
<1>3. Fused(a, op) \/ Fused(b, op) => Fused(a \o b, op)
  BY FusedConcat
<1>4. Fused(a \o b, op) \/ Fused(c, op) => Fused(a \o b \o c, op)
  BY <1>1, FusedConcat
<1>5. Fused(a \o b \o c, op) \/ Fused(d, op) => Fused(a \o b \o c \o d, op)
  BY <1>1, FusedConcat
<1> QED
  BY <1>2, <1>3, <1>4, <1>5

(* An operation that runs other than stock. *)
LEMMA FusedPair ==
  ASSUME NEW op, NEW im, im # "stock"
  PROVE  Fused(<< <<op, im>> >>, op)
  BY DEF Fused

(* What a decoder layer shows of an override in it, or of the RoPE.         *)
LEMMA DecoderShows ==
  ASSUME triton, NEW where, NEW p \in ({where} \X DecoderMotifs) \cup {TextRope}, On(p),
         NEW op \in Shows(p)
  PROVE  Fused(DecoderLayer(where, "many", TRUE), op)
<1> DEFINE norm1 == Norm(where, "norm1")
           norm2 == Norm(where, "norm2")
           attn == SelfAttn(where, "many", TRUE)
           mlp == P5(where, "many")
           add == << <<"add", "stock">> >>
           both == << <<"add", "triton">>, <<"norm2", "triton">> >>
<1>1. /\ norm1 \in Seq(Pairs) /\ norm2 \in Seq(Pairs)
      /\ attn \in Seq(Pairs) /\ mlp \in Seq(Pairs)
  BY NormMath, SelfAttnMath, MlpMath
<1>2. add \in Seq(Pairs)
  BY AddMath DEF Operation, Implementation
<1>3. both \in Seq(Pairs)
  <2>1. <<"add", "triton">> \in Pairs /\ <<"norm2", "triton">> \in Pairs
    BY DEF Pairs, Operation, Implementation
  <2> HIDE DEF Pairs
  <2> QED
    BY <2>1
<1>4. On(<<where, "mlp">>) => Fused(mlp, "mlp")
  BY DEF P5, Impl, Fused
<1>5. On(<<where, "linear">>) => Fused(attn, "q") /\ Fused(attn, "o")
  <2> SUFFICES ASSUME On(<<where, "linear">>) PROVE Fused(attn, "q") /\ Fused(attn, "o")
    OBVIOUS
  <2>1. /\ DOMAIN attn = 1 .. 4
        /\ attn[1] = <<"q", "triton">> /\ attn[4] = <<"o", "triton">>
    BY DEF SelfAttn, Linear, Impl
  <2> HIDE DEF attn
  <2> QED
    BY <2>1 DEF Fused
<1>10. On(TextRope) => Fused(attn, "rope")
  <2> SUFFICES ASSUME On(TextRope) PROVE Fused(attn, "rope")
    OBVIOUS
  <2>1. DOMAIN attn = 1 .. 4 /\ attn[2] = <<"rope", "triton">>
    BY DEF SelfAttn, Impl
  <2> HIDE DEF attn
  <2> QED
    BY <2>1 DEF Fused
<1>6. On(<<where, "norm">>) => Fused(norm1, "norm1") /\ Fused(norm2, "norm2")
  BY DEF Norm, Impl, Fused
<1>7. Fused(both, "add") /\ Fused(both, "norm2")
  <2>1. /\ DOMAIN both = 1 .. 2
        /\ both[1] = <<"add", "triton">> /\ both[2] = <<"norm2", "triton">>
    OBVIOUS
  <2> HIDE DEF both
  <2> QED
    BY <2>1 DEF Fused
<1>11. \/ op \in {"q", "o"} /\ On(<<where, "linear">>)
       \/ op = "mlp" /\ On(<<where, "mlp">>)
       \/ op \in {"norm1", "norm2"} /\ On(<<where, "norm">>)
       \/ op \in {"add", "norm2"} /\ On(<<where, "add_rmsnorm">>)
       \/ op = "rope" /\ On(TextRope)
  <2>1. CASE p = TextRope
    <3>1. Shows(p) = {"rope"}
      BY <2>1 DEF Shows
    <3>2. op = "rope" /\ On(TextRope)
      BY <2>1, <3>1
    <3> QED
      BY <3>2
  <2>2. CASE p # TextRope
    <3>1. PICK motif \in DecoderMotifs : p = <<where, motif>>
      BY <2>2
    <3>2. p \notin {TextRope, VisionRope, Cast} /\ p[2] = motif
      BY <3>1 DEF DecoderMotifs, TextRope, VisionRope, Cast
    <3>3. op \in Shows(p) /\ On(<<where, motif>>)
      BY <3>1
    <3> QED
      BY <3>2, <3>3 DEF DecoderMotifs, Shows
  <2> QED
    BY <2>1, <2>2
<1> HIDE DEF norm1, norm2, attn, mlp, add, both
<1>8. CASE On(<<where, "add_rmsnorm">>)
  <2>1. Fused(norm1, op) \/ Fused(attn, op) \/ Fused(both, op) \/ Fused(mlp, op)
    BY <1>4, <1>5, <1>6, <1>7, <1>10, <1>11
  <2>2. /\ norm1 \o attn \o both \o mlp \in Seq(Pairs)
        /\ Fused(norm1 \o attn \o both \o mlp, op)
    BY <1>1, <1>3, <2>1, FusedConcat4
  <2>3. Fused(norm1 \o attn \o both \o mlp \o add, op)
    BY <1>2, <2>2, FusedConcat
  <2> QED
    BY <1>8, <2>3 DEF DecoderLayer, FusedLayer, norm1, attn, both, mlp, add
<1>9. CASE ~On(<<where, "add_rmsnorm">>)
  <2>1. Fused(norm1, op) \/ Fused(attn, op) \/ Fused(norm2, op) \/ Fused(mlp, op)
    BY <1>4, <1>5, <1>6, <1>9, <1>10, <1>11
  <2>2. norm1 \o attn \o add \in Seq(Pairs)
    <3>1. norm1 \o attn \in Seq(Pairs)
      BY <1>1, MathConcat
    <3> QED
      BY <3>1, <1>2, MathConcat
  <2>3. Fused(norm1, op) \/ Fused(attn, op) => Fused(norm1 \o attn \o add, op)
    <3>1. norm1 \o attn \in Seq(Pairs)
      BY <1>1, MathConcat
    <3>2. Fused(norm1, op) \/ Fused(attn, op) => Fused(norm1 \o attn, op)
      BY <1>1, FusedConcat
    <3> QED
      BY <3>1, <3>2, <1>2, FusedConcat
  <2> DEFINE half == norm1 \o attn \o add
  <2> HIDE DEF half
  <2>4. /\ half \o norm2 \o mlp \o add \in Seq(Pairs)
        /\ Fused(half \o norm2 \o mlp \o add, op)
    BY <1>1, <1>2, <2>1, <2>2, <2>3, FusedConcat4 DEF half
  <2> QED
    BY <1>9, <2>4 DEF half, DecoderLayer, StockLayer, norm1, norm2, attn, mlp, add
<1> QED
  BY <1>8, <1>9

(* What the vision encoder shows of one, of the RoPE, or of the cast when   *)
(* the encoder is not fused.                                                *)
LEMMA EncoderShows ==
  ASSUME triton, NEW p \in ({"visual"} \X VisualMotifs) \cup {VisionRope, Cast}, On(p),
         p = Cast => ~On(<<"visual", "encoder">>), NEW op \in Shows(p)
  PROVE  Fused(Encoder, op)
<1> DEFINE norm1 == Norm("visual", "norm1")
           norm2 == Norm("visual", "norm2")
           merger == Norm("visual", "merger")
           cast == IF On(Cast) THEN << <<"cast", "bf16">> >> ELSE <<>>
           add == << <<"add", "stock">> >>
           mlp == << <<"mlp", "stock">>, <<"add", "stock">> >>
           rest == << <<"add", "triton">>, <<"norm2", "triton">>, <<"mlp", "stock">>,
                      <<"add", "triton">>, <<"merger", "triton">> >>
<1>1. norm1 \in Seq(Pairs) /\ norm2 \in Seq(Pairs) /\ merger \in Seq(Pairs)
  BY NormMath
<1>2. Embed \in Seq(Pairs) /\ VisualAttn \in Seq(Pairs)
  BY EmbedMath, VisualAttnMath
<1>3. cast \in Seq(Pairs) /\ add \in Seq(Pairs)
  <2>1. << <<"cast", "bf16">> >> \in Seq(Pairs) /\ << <<"add", "stock">> >> \in Seq(Pairs)
    BY AddMath DEF Operation, Implementation
  <2>2. <<>> \in Seq(Pairs)
    OBVIOUS
  <2> QED
    BY <2>1, <2>2
<1>4. mlp \in Seq(Pairs) /\ rest \in Seq(Pairs)
  <2>1. \A o \in {"add", "norm2", "mlp", "merger"}, im \in {"stock", "triton"} :
          <<o, im>> \in Pairs
    BY DEF Pairs, Operation, Implementation
  <2> HIDE DEF Pairs
  <2> QED
    BY <2>1
<1>5. On(<<"visual", "norm">>) => Fused(norm1, "norm1") /\ Fused(norm2, "norm2")
  BY DEF Norm, Impl, Fused
<1>6. On(<<"visual", "patch_embed">>) => Fused(Embed, "embed")
  BY DEF Embed, Fused
<1>7. On(<<"visual", "attn">>) => Fused(VisualAttn, "attention")
  <2> SUFFICES ASSUME On(<<"visual", "attn">>) PROVE Fused(VisualAttn, "attention")
    OBVIOUS
  <2>1. DOMAIN VisualAttn = 1 .. 2 /\ VisualAttn[2] = <<"attention", "packed">>
    BY DEF VisualAttn
  <2> QED
    BY <2>1 DEF Fused
<1>8. Fused(rest, "add") /\ Fused(rest, "norm2") /\ Fused(rest, "merger")
  <2>1. /\ DOMAIN rest = 1 .. 5
        /\ rest[1] = <<"add", "triton">> /\ rest[2] = <<"norm2", "triton">>
        /\ rest[5] = <<"merger", "triton">>
    OBVIOUS
  <2> HIDE DEF rest
  <2> QED
    BY <2>1 DEF Fused
<1>11. On(VisionRope) => Fused(VisualAttn, "rope")
  <2> SUFFICES ASSUME On(VisionRope) PROVE Fused(VisualAttn, "rope")
    OBVIOUS
  <2>1. DOMAIN VisualAttn = 1 .. 2 /\ VisualAttn[1] = <<"rope", "triton">>
    BY DEF VisualAttn, Impl
  <2> QED
    BY <2>1 DEF Fused
<1>12. On(Cast) => Fused(cast, "cast")
  BY DEF Fused
<1>13. \/ op \in {"norm1", "norm2"} /\ On(<<"visual", "norm">>)
       \/ op = "embed" /\ On(<<"visual", "patch_embed">>)
       \/ op = "attention" /\ On(<<"visual", "attn">>)
       \/ op \in {"add", "norm2", "merger"} /\ On(<<"visual", "encoder">>)
       \/ op = "rope" /\ On(VisionRope)
       \/ op = "cast" /\ On(Cast) /\ ~On(<<"visual", "encoder">>)
  <2>1. CASE p = VisionRope
    <3>1. Shows(p) = {"rope"}
      BY <2>1 DEF Shows
    <3>2. op = "rope" /\ On(VisionRope)
      BY <2>1, <3>1
    <3> QED
      BY <3>2
  <2>2. CASE p = Cast
    <3>1. p \notin {TextRope, VisionRope}
      BY <2>2 DEF TextRope, VisionRope, Cast
    <3>2. Shows(p) = {"cast"}
      BY <2>2, <3>1 DEF Shows
    <3>3. op = "cast" /\ On(Cast) /\ ~On(<<"visual", "encoder">>)
      BY <2>2, <3>2
    <3> QED
      BY <3>3
  <2>3. CASE p \notin {VisionRope, Cast}
    <3>1. PICK motif \in VisualMotifs : p = <<"visual", motif>>
      BY <2>3
    <3>2. p \notin {TextRope, VisionRope, Cast} /\ p[2] = motif
      BY <3>1 DEF VisualMotifs, TextRope, VisionRope, Cast
    <3>3. op \in Shows(p) /\ On(<<"visual", motif>>)
      BY <3>1
    <3> QED
      BY <3>2, <3>3 DEF VisualMotifs, Shows
  <2> QED
    BY <2>1, <2>2, <2>3
<1> HIDE DEF norm1, norm2, merger, cast, add, mlp, rest
<1>9. CASE On(<<"visual", "encoder">>)
  <2>1. Fused(Embed, op) \/ Fused(norm1, op) \/ Fused(VisualAttn, op) \/ Fused(rest, op)
    BY <1>5, <1>6, <1>7, <1>8, <1>9, <1>11, <1>13
  <2>2. Fused(Embed \o norm1 \o VisualAttn \o rest, op)
    BY <1>1, <1>2, <1>4, <2>1, FusedConcat4
  <2> QED
    BY <1>9, <2>2 DEF Encoder, FusedEncoder, norm1, rest
<1>10. CASE ~On(<<"visual", "encoder">>)
  <2>1. \/ Fused(Embed, op) \/ Fused(cast, op) \/ Fused(norm1, op) \/ Fused(VisualAttn, op)
        \/ Fused(norm2, op)
    BY <1>5, <1>6, <1>7, <1>10, <1>11, <1>12, <1>13
  <2> DEFINE half == Embed \o cast \o norm1 \o VisualAttn
             more == half \o add \o norm2 \o mlp
  <2>2. half \in Seq(Pairs)
    <3>1. Embed \o cast \in Seq(Pairs)
      BY <1>2, <1>3, MathConcat
    <3>2. Embed \o cast \o norm1 \in Seq(Pairs)
      BY <3>1, <1>1, MathConcat
    <3> QED
      BY <3>2, <1>2, MathConcat
  <2>3. Fused(Embed, op) \/ Fused(cast, op) \/ Fused(norm1, op) \/ Fused(VisualAttn, op)
          => Fused(half, op)
    BY <1>1, <1>2, <1>3, FusedConcat4
  <2> HIDE DEF half
  <2>4. more \in Seq(Pairs) /\ Fused(more, op)
    BY <1>1, <1>3, <1>4, <2>1, <2>2, <2>3, FusedConcat4
  <2> HIDE DEF more
  <2>5. Fused(more \o merger, op)
    BY <1>1, <2>4, FusedConcat
  <2> QED
    BY <1>10, <2>5 DEF more, half, Encoder, StockEncoder, norm1, norm2, merger, cast, add, mlp
<1> QED
  BY <1>9, <1>10

(* The fused encoder does not cast. *)
LEMMA EncoderHidesCast ==
  ASSUME On(<<"visual", "encoder">>)
  PROVE  ~Fused(Encoder, "cast")
<1>1. Math(Encoder) = VisualMath
  BY EncoderMathIs
<1>2. \A i \in DOMAIN Encoder : i \in DOMAIN VisualMath /\ VisualMath[i] = Encoder[i][1]
  BY <1>1 DEF Math
<1>3. \A i \in DOMAIN VisualMath : VisualMath[i] # "cast"
  BY DEF VisualMath
<1> QED
  BY <1>2, <1>3 DEF Fused

(* A reported patch is installed: apply() reports what it has just done,    *)
(* and unfuse_mlps leaves no report behind. The encoder is fused where it   *)
(* was found, and then also reported with the cast.                         *)
Reported ==
    /\ \A p \in report : p \in Patches /\ installed[p] > 0
    /\ On(<<"visual", "encoder">>) => <<"visual", "encoder">> \in model
    /\ Cast \in report /\ <<"visual", "encoder">> \in model => <<"visual", "encoder">> \in report

(* Reported is inductive. *)
LEMMA ReportedStep == TypeOK /\ Reported /\ [Next]_vars => Reported'
<1> DEFINE encoder == <<"visual", "encoder">>
<1> SUFFICES ASSUME TypeOK, Reported, [Next]_vars PROVE Reported'
  OBVIOUS
<1>0. encoder \in Sites /\ Sites \subseteq Patches /\ encoder # Cast /\ encoder[1] = "visual"
  BY DEF Sites, VisualMotifs, Patches, Cast
<1>1. ASSUME NEW c \in Configs, Apply(c) PROVE Reported'
  <2>1. \A p \in Patches : installed[p] \in Nat
    BY Parameters DEF TypeOK
  <2>2. \A p \in report' : p \in Patches /\ installed'[p] > 0
    BY <1>1, <2>1 DEF Apply
  <2>3. ~WantsOther(c, encoder)
    BY DEF WantsOther, TextRope, VisionRope, Cast, ExpertHook, Runner, VlmHook, Adaptive
  <2>4. On(encoder)' => encoder \in model'
    BY <1>0, <1>1, <2>3 DEF Apply, WantsSite, On, Reported, platform
  <2>5. ASSUME Cast \in report', encoder \in model' PROVE encoder \in report'
    <3>1. ~WantsSite(c, Cast)
      BY DEF WantsSite, Sites, Cast, DecoderMotifs, VisualMotifs
    <3>2. WantsOther(c, Cast)
      BY <1>1, <2>5, <3>1 DEF Apply
    <3>3. "vision" \in c
      BY <3>2 DEF WantsOther, Cast, TextRope, VisionRope, ExpertHook, Runner, VlmHook, Adaptive
    <3>4. WantsSite(c, encoder)
      BY <1>0, <1>1, <2>5, <3>3 DEF WantsSite, Apply, platform
    <3> QED
      BY <1>0, <1>1, <3>4 DEF Apply
  <2> QED
    BY <2>2, <2>4, <2>5 DEF Reported
<1>2. CASE Unfuse
  BY <1>0, <1>2 DEF Unfuse, Reported, On, platform
<1>3. ASSUME NEW where \in Wheres, NEW rows \in {"one", "many"}, NEW fast \in BOOLEAN,
             Forward(where, rows, fast)
      PROVE  Reported'
  BY <1>3 DEF Forward, Reported, On, platform
<1>4. CASE UNCHANGED vars
  BY <1>4 DEF vars, Reported, On, platform
<1> QED
  BY <1>1, <1>2, <1>3, <1>4 DEF Next, Wheres

(* Whatever was called before, for every model and configuration: what      *)
(* apply() reports as fused is what the next pass of many rows runs fused,  *)
(* no later patch of the call hides an earlier one, but for the cast to     *)
(* bf16, which runs exactly where no fused encoder is reported with it      *)
(* (optimize.py:92-168, integrate.py:575-576, 709).                         *)
THEOREM ReportsAreTrue == Spec => ReportTrue
<1> DEFINE encoder == <<"visual", "encoder">>
           Kept == \A where \in {"lm", "expert", "visual"}, p \in Entries : Reporting(where, p) =>
                     \A op \in Shows(p) : Fused(ran'.ops, op) <=> ~Bypassed(p)
<1>1. Init => Reported
  BY DEF Init, Reported, On
<1>2. Reported => Kept
  <2> SUFFICES ASSUME Reported, NEW where \in {"lm", "expert", "visual"}, NEW p \in Entries,
                      Reporting(where, p), NEW op \in Shows(p)
               PROVE  Fused(ran'.ops, op) <=> ~Bypassed(p)
    OBVIOUS
  <2>1. /\ triton /\ p \in report /\ where \in In(p)
        /\ ran'.ops = Ops(where, "many", TRUE)
    BY DEF Reporting, Forward
  <2>2. On(p)
    BY <2>1 DEF Reported, On
  <2>3. CASE where = "visual" /\ Bypassed(p)
    <3>1. On(encoder) /\ op = "cast"
      BY <2>3 DEF Bypassed, Reported, On, Shows, Cast, TextRope, VisionRope
    <3>2. ~Fused(Encoder, op)
      BY <3>1, EncoderHidesCast
    <3> QED
      BY <2>1, <2>3, <3>2 DEF Ops
  <2>4. CASE where = "visual" /\ ~Bypassed(p)
    <3>1. p \in ({"visual"} \X VisualMotifs) \cup {VisionRope, Cast}
      BY <2>1, <2>4 DEF Entries, In, Sites
    <3>2. p = Cast => ~On(encoder)
      BY <2>1, <2>4 DEF Bypassed, Reported
    <3>3. Fused(Encoder, op)
      BY <2>1, <2>2, <3>1, <3>2, EncoderShows
    <3> QED
      BY <2>1, <2>4, <3>3 DEF Ops
  <2>5. CASE where # "visual"
    <3>1. p \in ({where} \X DecoderMotifs) \cup {TextRope}
      BY <2>1, <2>5 DEF Entries, In, Sites
    <3>2. Fused(DecoderLayer(where, "many", TRUE), op)
      BY <2>1, <2>2, <3>1, DecoderShows
    <3>3. ~Bypassed(p)
      BY <3>1 DEF Bypassed, Cast, TextRope, DecoderMotifs
    <3> QED
      BY <2>1, <2>5, <3>2, <3>3 DEF Ops
  <2> QED
    BY <2>3, <2>4, <2>5
<1>3. Spec => []Reported
  BY <1>1, ReportedStep, OptimizeTypeCorrect, PTL DEF Spec
<1>4. Reported /\ [Next]_vars => [Kept]_vars
  BY <1>2
<1> QED
  BY <1>3, <1>4, PTL DEF Spec, ReportTrue
=============================================================================
