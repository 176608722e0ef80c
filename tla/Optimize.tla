------------------------------ MODULE Optimize ------------------------------
(***************************************************************************)
(* umic.apply: which forwards, functions, hooks and wrappers a sequence of  *)
(* apply() and unfuse_mlps() calls leaves installed, and which              *)
(* implementation each operation of a later forward pass then runs.         *)
(*                                                                         *)
(* A patch is a pair <<where, motif>>. Of a model only the motifs that the  *)
(* structural matchers find in it are kept. What the hooks and wrappers do  *)
(* once installed is the subject of RepeatCache, DecodeGraph, FlowSampling. *)
(***************************************************************************)
EXTENDS Integers, Sequences

CONSTANTS
  Models,      \* models to try, each the set of sites its matchers find
  Configs,     \* configurations, each the set of UmicConfig flags that are on
  MaxApplies   \* bound on the number of apply() calls

Flags == {"mlp", "linear", "norm", "add_rmsnorm", "text_rope", "vision",
          "flow_cache", "decode_cache", "decode_graph", "adaptive_flow"}

(* Modules whose forward is overridden. "blocks" is not: it is there when   *)
(* the vision encoder has blocks to hang the cast hook on.                  *)
DecoderMotifs == {"mlp", "linear", "norm", "add_rmsnorm"}
VisualMotifs == {"norm", "patch_embed", "attn", "encoder"}
Sites == ({"lm", "expert"} \X DecoderMotifs) \cup ({"visual"} \X VisualMotifs)
Blocks == <<"visual", "blocks">>

TextRope == <<"rope", "text">>
VisionRope == <<"rope", "vision">>
Cast == <<"hook", "cast">>
ExpertHook == <<"hook", "expert">>
VlmHook == <<"hook", "vlm">>
Runner == <<"wrap", "decode_graph">>
Adaptive == <<"wrap", "adaptive_flow">>
Patches == Sites \cup {TextRope, VisionRope, Cast, ExpertHook, VlmHook, Runner,
                       Adaptive}

ASSUME Parameters == /\ \A m \in Models : m \subseteq Sites \cup {Blocks}
                     /\ \A c \in Configs : c \subseteq Flags
                     /\ MaxApplies \in Nat

VARIABLES
  triton,      \* HAS_TRITON
  model,       \* the sites the matchers find
  installed,   \* how many times each patch is there, nested or appended
  report,      \* the patches the last apply() reported
  asked,       \* configurations applied since the last unfuse_mlps
  applies,     \* number of apply() calls
  ran          \* the last forward pass: where, its operations, whether it died

platform == <<triton, model>>
vars == <<platform, installed, report, asked, applies, ran>>

Has(where) == \E s \in model : s[1] = where

(* Mutation: the fused text RoPE is built again around itself. *)
StacksRope(p) == p \in {TextRope, Cast, ExpertHook, VlmHook, Runner, Adaptive}

(* Overrides are assigned, and fuse_text_rope looks for its own mark; hooks *)
(* and wrappers come on top of what is there.                              *)
Stacks(p) == p \in {Cast, ExpertHook, VlmHook, Runner, Adaptive}

(* Mutation: the expert's norms are fused whatever flow_cache says. *)
WantsExpertAlways(c, p) ==
    /\ p \in model \cap Sites
    /\ \/ p[1] = "lm" /\ p[2] \in c
       \/ p[1] = "visual" /\ "vision" \in c
       \/ p[1] = "expert" /\ p[2] \in {"norm", "add_rmsnorm"} \cap c

(* The sites apply() asks the matchers for under c, of those they find. *)
WantsSite(c, p) ==
    /\ p \in model \cap Sites
    /\ \/ p[1] = "lm" /\ p[2] \in c
       \/ p[1] = "visual" /\ "vision" \in c
       \/ /\ p[1] = "expert" /\ "flow_cache" \in c
          /\ p[2] \in {"norm", "add_rmsnorm"} \cap c

(* The RoPE functions, hooks and wrappers it installs. *)
WantsOther(c, p) ==
    \/ p = TextRope /\ "text_rope" \in c /\ triton
    \/ p = VisionRope /\ "vision" \in c /\ Has("visual") /\ triton
    \/ p = Cast /\ "vision" \in c /\ Blocks \in model
    \/ p = ExpertHook /\ "flow_cache" \in c /\ Has("expert")
    \/ p = Runner /\ "decode_graph" \in c
    \/ p = VlmHook /\ "decode_graph" \notin c /\ "decode_cache" \in c
    \/ p = Adaptive /\ "adaptive_flow" \in c

NoRun == [where |-> "none", ops |-> <<>>, died |-> FALSE]

Init == /\ triton \in BOOLEAN /\ model \in Models
        /\ installed = [p \in Patches |-> 0]
        /\ report = {} /\ asked = {} /\ applies = 0 /\ ran = NoRun

Apply(c) ==
    LET w == {p \in Patches : WantsSite(c, p) \/ WantsOther(c, p)} IN
    /\ applies < MaxApplies /\ applies' = applies + 1
    /\ installed' = [p \in Patches |-> IF p \notin w THEN installed[p]
                                       ELSE IF Stacks(p) THEN installed[p] + 1
                                       ELSE 1]
    /\ report' = w /\ asked' = asked \cup {c} /\ ran' = NoRun
    /\ UNCHANGED platform

(* unfuse_mlps(model) deletes every instance override of forward, also the  *)
(* decode runner's; functions, hooks and the other wrappers stay.           *)
Unfuse ==
    /\ applies > 0 /\ asked # {}
    /\ installed' = [p \in Patches |-> IF p \in Sites \cup {Runner} THEN 0
                                       ELSE installed[p]]
    /\ report' = {} /\ asked' = {} /\ ran' = NoRun
    /\ UNCHANGED <<platform, applies>>
-----------------------------------------------------------------------------
(* Forward passes, as sequences of <<operation, implementation>>.          *)

On(p) == p \in Patches /\ installed[p] > 0
Impl(on) == IF on THEN "triton" ELSE "stock"

(* A projection: fewer rows than FUSE_MIN_ROWS stay on cuBLAS. *)
Linear(where, name, rows) ==
    <<name, Impl(On(<<where, "linear">>) /\ rows = "many")>>

(* The MLP; gate_silu_mul falls back where there is no Triton. *)
P5(where, rows) ==
    << <<"mlp", Impl(On(<<where, "mlp">>) /\ rows = "many" /\ triton)>> >>

Norm(where, name) == << <<name, Impl(On(<<where, "norm">>))>> >>

SelfAttn(where, rows, fast) ==
    << Linear(where, "q", rows), <<"rope", Impl(On(TextRope) /\ fast)>>,
       <<"attention", "stock">>, Linear(where, "o", rows) >>

(* Mutation: the residual is added after the norm as well. *)
AddsTwice(where, rows, fast) ==
    Norm(where, "norm1") \o SelfAttn(where, rows, fast)
      \o << <<"add", "triton">>, <<"norm2", "triton">>, <<"add", "stock">> >>
      \o P5(where, rows) \o << <<"add", "stock">> >>

(* A decoder layer with its attention residual folded into the second norm, *)
(* whose own forward is then not called.                                   *)
FusedLayer(where, rows, fast) ==
    Norm(where, "norm1") \o SelfAttn(where, rows, fast)
      \o << <<"add", "triton">>, <<"norm2", "triton">> >>
      \o P5(where, rows) \o << <<"add", "stock">> >>

StockLayer(where, rows, fast) ==
    Norm(where, "norm1") \o SelfAttn(where, rows, fast)
      \o << <<"add", "stock">> >> \o Norm(where, "norm2")
      \o P5(where, rows) \o << <<"add", "stock">> >>

DecoderLayer(where, rows, fast) ==
    IF On(<<where, "add_rmsnorm">>) THEN FusedLayer(where, rows, fast)
    ELSE StockLayer(where, rows, fast)

Embed == << <<"embed", IF On(<<"visual", "patch_embed">>) THEN "linear" ELSE "stock">> >>

(* The packed attention looks the vision RoPE up where it was replaced. *)
VisualAttn == << <<"rope", Impl(On(VisionRope))>>,
                 <<"attention", IF On(<<"visual", "attn">>) THEN "packed" ELSE "stock">> >>

(* Mutation: the fused encoder embeds its patches itself. *)
OwnEmbed ==
    << <<"embed", "stock">> >> \o Norm("visual", "norm1") \o VisualAttn
      \o << <<"add", "triton">>, <<"norm2", "triton">>, <<"mlp", "stock">>,
            <<"add", "triton">>, <<"merger", "triton">> >>

(* The encoder, of one block (VisionEncoder has the others). Calling a      *)
(* block runs the cast hook first; the fused encoder reads the parts of a   *)
(* block and does not call it.                                             *)
FusedEncoder ==
    Embed \o Norm("visual", "norm1") \o VisualAttn
      \o << <<"add", "triton">>, <<"norm2", "triton">>, <<"mlp", "stock">>,
            <<"add", "triton">>, <<"merger", "triton">> >>

StockEncoder ==
    Embed \o (IF On(Cast) THEN << <<"cast", "bf16">> >> ELSE <<>>)
      \o Norm("visual", "norm1") \o VisualAttn
      \o << <<"add", "stock">> >> \o Norm("visual", "norm2")
      \o << <<"mlp", "stock">>, <<"add", "stock">> >> \o Norm("visual", "merger")

Encoder == IF On(<<"visual", "encoder">>) THEN FusedEncoder ELSE StockEncoder

Ops(where, rows, fast) ==
    IF where = "visual" THEN Encoder ELSE DecoderLayer(where, rows, fast)

(* Only RoPE and P5 fall back; the other fused forwards import a kernel     *)
(* that is not defined without Triton.                                     *)
Forward(where, rows, fast) ==
    LET ops == Ops(where, rows, fast)
        died == ~triton /\ \E i \in DOMAIN ops : ops[i][2] = "triton" IN
    /\ Has(where)
    /\ ran' = [where |-> where, ops |-> IF died THEN <<>> ELSE ops, died |-> died]
    /\ UNCHANGED <<platform, installed, report, asked, applies>>

Next == \/ \E c \in Configs : Apply(c)
        \/ Unfuse
        \/ \E where \in {"lm", "expert", "visual"}, rows \in {"one", "many"},
              fast \in BOOLEAN : Forward(where, rows, fast)

Spec == Init /\ [][Next]_vars
-----------------------------------------------------------------------------
(* Correctness.                                                             *)

TypeOK ==
    /\ triton \in BOOLEAN /\ model \in Models /\ applies \in 0 .. MaxApplies
    /\ installed \in [Patches -> 0 .. MaxApplies]
    /\ \A p \in Sites \cup {TextRope, VisionRope} : installed[p] <= 1
    /\ report \subseteq Patches /\ asked \subseteq Configs
    /\ ran.died \in BOOLEAN

Math(ops) == [i \in DOMAIN ops |-> ops[i][1]]

DecoderMath == <<"norm1", "q", "rope", "attention", "o", "add", "norm2", "mlp", "add">>
VisualMath == <<"embed", "norm1", "rope", "attention", "add", "norm2", "mlp", "add", "merger">>
CastMath == <<"embed", "cast", "norm1", "rope", "attention", "add", "norm2", "mlp", "add", "merger">>

(* "only the execution schedule of the same math changes" (integrate.py:    *)
(* 11-12): whichever fusions were applied, in whatever order and however    *)
(* often, taken back or found no motif, a pass does the operations of the   *)
(* unpatched model, each once and in their order; only the cast to bf16 may *)
(* come in, once and at the entry of the first block.                      *)
SameMath ==
    ran.ops # <<>> =>
        Math(ran.ops) \in IF ran.where = "visual" THEN {VisualMath, CastMath}
                          ELSE {DecoderMath}

(* The flags that account for an implementation other than the stock one.   *)
Accounts(where, op) ==
    IF where = "visual" THEN {{"vision"}}
    ELSE LET flow == IF where = "expert" THEN {"flow_cache"} ELSE {} IN
         CASE op = "rope" -> {{"text_rope"}}
           [] op \in {"q", "o"} -> {{"linear"} \cup flow}
           [] op = "mlp" -> {{"mlp"} \cup flow}
           [] op = "norm1" -> {{"norm"} \cup flow}
           [] op = "norm2" -> {{"norm"} \cup flow, {"add_rmsnorm"} \cup flow}
           [] OTHER -> {{"add_rmsnorm"} \cup flow}

(* A fused implementation only runs where some configuration asked for it   *)
(* since the overrides were last deleted; RoPE and the cast outlive that.   *)
OnlyAsked ==
    \A i \in DOMAIN ran.ops :
      \/ ran.ops[i][2] = "stock" \/ ran.ops[i][1] \in {"rope", "cast"}
      \/ \E c \in asked, f \in Accounts(ran.where, ran.ops[i][1]) : f \subseteq c

(* The entries of a report that name what passes of many rows run fused, the *)
(* parts of the model they are about, and the operations they show in.      *)
Entries == Sites \cup {TextRope, VisionRope, Cast}
In(p) == IF p = TextRope THEN {"lm", "expert"}
         ELSE IF p \in {VisionRope, Cast} THEN {"visual"} ELSE {p[1]}
Shows(p) == IF p \in {TextRope, VisionRope} THEN {"rope"}
            ELSE IF p = Cast THEN {"cast"}
            ELSE CASE p[2] = "mlp" -> {"mlp"} [] p[2] = "linear" -> {"q", "o"}
                   [] p[2] = "norm" -> {"norm1", "norm2"}
                   [] p[2] = "add_rmsnorm" -> {"add", "norm2"}
                   [] p[2] = "patch_embed" -> {"embed"}
                   [] p[2] = "attn" -> {"attention"}
                   [] p[2] = "encoder" -> {"add", "norm2", "merger"}

Fused(ops, op) == \E i \in DOMAIN ops : ops[i][1] = op /\ ops[i][2] # "stock"

(* The cast is a hook on the first block, which the fused encoder of the    *)
(* same report does not call.                                              *)
Bypassed(p) == p = Cast /\ <<"visual", "encoder">> \in report

Reporting(where, p) == Forward(where, "many", TRUE) /\ triton /\ p \in report /\ where \in In(p)

(* What apply() reports (optimize.py:99-101) is what the next pass runs, and *)
(* no later patch of the same call hides an earlier one, with one exception *)
(* either way: a reported cast runs exactly if the report has no fused      *)
(* encoder, although vision_fusion is said to be the "bf16 residual +        *)
(* patch-embed conv->linear + [...] + pipeline fusion" (optimize.py:46-48). *)
ReportTrue ==
    [][\A where \in {"lm", "expert", "visual"}, p \in Entries : Reporting(where, p) =>
         \A op \in Shows(p) : Fused(ran'.ops, op) <=> ~Bypassed(p)]_vars
=============================================================================
