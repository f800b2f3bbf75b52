---------------------------- MODULE SequenceKernels ----------------------------
(***************************************************************************)
(* The two kinds of layer that keep a state along a sequence other than a  *)
(* plain key/value cache.  A model has the one or the other; the state of  *)
(* one is not used by the other.                                           *)
(***************************************************************************)
EXTENDS GatedDeltaNet, DeepseekV4

VARIABLE family   \* the kind of the layer: fixed after the start

allVars == <<family, gdnVars, dsVars>>

\* The kernels are built for these taps, and the callers group whole heads.
ASSUME GdnAssumption ==
  /\ KernelSize \in 2..4
  /\ NumKHeads \in Nat \ {0} /\ NumVHeads \in Nat \ {0} /\ NumVHeads % NumKHeads = 0
  /\ Pad \notin Slots /\ LockStep \in BOOLEAN
  /\ MaxTokens \in Nat /\ MaxChunk \in Nat /\ MaxRows \in Nat \ {0}

ASSUME DsAssumption ==
  /\ Window \in Nat \ {0} /\ IndexTopk \in Nat \ {0}
  /\ {SerialWork, SortRows, Remembered, SharedRows, FromPosRows} \subseteq Nat
  /\ \A l \in Layers : l.overlap \in BOOLEAN /\ l.ratio \in Nat \ {0}
  /\ MaxLen \in Nat /\ LongestChunk \in Nat
  /\ Refused \notin Seq([pos : Nat, rows : Seq(Nat)])

\* The state of the other kind is there, and of one form.
Init ==
  /\ GdnInit /\ DsInit
  /\ \/ family = "gated delta net" /\ layer = CHOOSE l \in Layers : TRUE
     \/ family = "deepseek" /\ build = CHOOSE b \in Builds : TRUE

Next ==
  \/ family = "gated delta net" /\ GdnNext /\ UNCHANGED <<family, dsVars>>
  \/ family = "deepseek" /\ DsNext /\ UNCHANGED <<family, gdnVars>>

Spec == Init /\ [][Next]_allVars
===============================================================================
