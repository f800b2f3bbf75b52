--------------------------- MODULE MCPagedAttention ---------------------------
(* Values of the constants for TLC. *)
EXTENDS PagedAttention

Builds == {{}, {"metal"}, {"metal-flash"}, {"flashinfer"}, {"flash", "flashinfer"}, {"flash", "flashattn"}}
Conventionals == {{}, {"metal"}}
FlashInferBuild == {{"flash", "flashinfer"}}
Symmetry == Permutations(Seqs)

\* Of the configurations, those with one unusual choice at a time, and also those with
\* a window and FP8 in FlashInfer builds, or TurboQuant in native Metal ones.  TurboQuant never uses FlashInfer or
\* FlashAttention and is left to the build with the latter; a group FlashInfer never
\* serves behaves like calls without its metadata; only windows differ with sm90; with
\* them FlashInfer serves every call; and the build without native kernels differs from
\* the others in a single path.
OneChoice ==
  /\ config.group # "none"
  /\ config.features = {"metal"} => ~config.fp8
  /\ "flashinfer" \in config.features =>
       /\ config.turboquant = "none" /\ (config.sm90 => config.window # 0 /\ ~config.fp8)
       /\ config.window # 0 => call = Idle \/ call.plan
  /\ config.features = {"flashinfer"} =>
       config.paged /\ ~config.fp8 /\ config.window = 0 /\ config.group = "any"
  /\ Cardinality({x \in {"tq", "fp8", "wide", "group", "window"} :
        CASE x = "tq" -> /\ config.turboquant # "none"
                         /\ ~(config.features = {"metal-flash"} /\ config.window # 0)
          [] x = "fp8" -> /\ config.fp8 /\ config.turboquant = "none"
                          /\ ~("flashinfer" \in config.features /\ config.window # 0)
          [] x = "wide" -> config.wideHead
          [] x = "group" -> config.group # "any"
          [] x = "window" -> config.window # 0}) <= 1
===============================================================================
