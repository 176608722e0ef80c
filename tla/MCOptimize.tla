----------------------------- MODULE MCOptimize -----------------------------
(* Models and configurations for TLC. *)
EXTENDS Optimize

Full == Sites \cup {Blocks}
NoDecoder == {<<"lm", "norm">>, <<"expert", "norm">>} \cup {s \in Full : s[1] = "visual"}
NoEncoder == Full \ {<<"visual", "encoder">>, <<"lm", "add_rmsnorm">>}

AllModels == {Full, NoDecoder, NoEncoder}

Default == Flags \ {"adaptive_flow"}
SomeConfigs == {Default, {"norm", "vision", "decode_cache"}, {"add_rmsnorm", "text_rope"},
                {"norm", "flow_cache", "adaptive_flow"}, {"mlp", "linear", "decode_graph"}}
=============================================================================
