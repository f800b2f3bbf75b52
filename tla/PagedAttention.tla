---------------------------- MODULE PagedAttention ----------------------------
(***************************************************************************)
(* The PagedAttention layers of a model and the KV memory they share.  A   *)
(* call of forward stores the K and V rows of the new tokens and attends   *)
(* to the context of each sequence, by one of five paths which the build,  *)
(* the configuration and the call select.  Depending on the TurboQuant     *)
(* mode the rows are kept in the layer's cache tensors (standard), in the  *)
(* process-wide TurboQuant buffers of the layer's index, or split between  *)
(* the two; FP8 rows are stored under a scale.                             *)
(*                                                                         *)
(* The engine, which is not part of the repository, chooses the batches,   *)
(* the block tables and what is swapped; it hands out free blocks only.    *)
(* The attention arithmetic is abstracted to the rows it reads.            *)
(***************************************************************************)
EXTENDS Integers, Sequences, FiniteSets, TLC, FiniteSetsExt, SequencesExt, KvBlocks

CONSTANTS Seqs,            \* sequences
          NumBlocks,       \* bound: blocks of a layer's cache
          NumCpuBlocks,    \* bound: blocks of the CPU cache
          MaxLen,          \* bound: tokens of a sequence
          MaxLayers,       \* bound: layers of the model
          TqLayers,        \* layers the TurboQuant buffers are made for
          FeatureSets,     \* the builds: sets of "flash", "flashinfer", "flashattn", "metal", "metal-flash"
          ClearWidths,     \* bound: element widths for which blocks are cleared
          Windows,         \* sliding windows; 0 for none
          WorkspaceSeqs,   \* sequences the split-K workspace is made for
          SplitKThreshold, TokensPerSplit, NumSplits,  \* of native flash decode
          MetalThreshold, MetalTokensPerSplit,         \* of Metal flash decode
          DirectPrefillMin,        \* tokens of a chunk that Metal attends to directly
          PartitionSize,           \* of the conventional kernel
          KvScaleUpdateIteration,  \* calls that update the FP8 scales
          MaxScale,                \* bound: levels of the scale, 1 for 1.0
          EarlierLayers,           \* bound: layers a model built before may have
          Idle,                    \* no call is being served
          Failed                   \* the answer of a call that fails

ASSUME BoundsAssumption ==
  /\ {NumBlocks, NumCpuBlocks, MaxLen, MaxLayers, TqLayers, WorkspaceSeqs,
      KvScaleUpdateIteration} \subseteq Nat
  /\ IsFiniteSet(Seqs) /\ MaxScale \in Nat \ {0}
  /\ Windows \subseteq Nat /\ EarlierLayers \subseteq 0..MaxLayers /\ ClearWidths \subseteq {1, 2}
ASSUME SplitAssumption ==
  /\ {SplitKThreshold, TokensPerSplit, NumSplits, MetalThreshold, MetalTokensPerSplit,
      PartitionSize} \subseteq Nat \ {0}
  /\ NumSplits >= 2 /\ PartitionSize % BlockSize = 0
\* The compile_error!s at the head of lib.rs.
ASSUME FeatureAssumption ==
  \A f \in FeatureSets :
    /\ ~({"flashinfer", "flashattn"} \subseteq f)
    /\ f \cap {"metal", "metal-flash"} # {} => f \cap {"flash", "flashinfer", "flashattn"} = {}

VARIABLES config,   \* build and model: fixed after Init
          counter,  \* PAGED_ATTENTION_LAYER_COUNTER
          layers,   \* the layers built: index, FP8 scale, number of scale updates
          std,      \* layer -> its key and value cache
          cpu,      \* layer -> the CPU copies of swapped blocks
          tq,       \* index -> the TurboQuant rows
          tables,   \* sequence -> its block table
          len,      \* sequence -> its tokens
          place,    \* sequence -> new, running, swapped or done
          call,     \* Idle, or the batch being served and the next layer
          out       \* sequence -> for each query, the K and V rows attended to

vars == <<config, counter, layers, std, cpu, tq, tables, len, place, call, out>>

Has(feature) == feature \in config.features
Native == Has("flash") \/ Has("metal-flash")
Width == IF config.fp8 THEN 1 ELSE 2
StdFormat == IF config.fp8 THEN "fp8" ELSE "half"
Slots(blocks) == 0..(blocks * BlockSize - 1)
Tokens == Seqs \X (0..(MaxLen - 1))
Cells == [tok : Tokens \cup {Garbage}, fmt : {"none", "half", "fp8", "q3", "q4"}, scale : 1..MaxScale]
Cache(blocks) == [k : [Slots(blocks) -> Cells], v : [Slots(blocks) -> Cells]]
EmptyCache(blocks) == LET rows == [t \in Slots(blocks) |-> NoCell] IN [k |-> rows, v |-> rows]

\* The TurboQuant modes need a build with a native flash path and a matching
\* cache; group is what FlashInfer can serve of the ratio of heads; paged is the
\* cache layout of rank 5, the only one the conventional kernel reads.  sm90 is a
\* build with the kernels for it.  A FlashInfer build with an FP8 cache has the FP8
\* kernels (has_flashinfer_fp8_e4m3): without them it would store and answer nothing.
Configs ==
  {c \in [features : FeatureSets, turboquant : {"none", "turbo8", "turbo4", "turbo3"},
          fp8 : BOOLEAN, wideHead : BOOLEAN, sm90 : BOOLEAN,
          group : {"any", "prefill", "none"}, paged : BOOLEAN, window : Windows,
          size : 1..MaxLayers] :
     LET native == c.features \cap {"flash", "metal-flash"} # {}
         attn == "flashattn" \in c.features
     IN /\ c.turboquant # "none" => native
        /\ c.turboquant = "turbo8" => c.fp8
        /\ c.turboquant \in {"turbo4", "turbo3"} => ~c.fp8
        /\ c.turboquant = "none" => c.size = 1
        /\ c.group # "any" => "flashinfer" \in c.features
        /\ c.wideHead => "flash" \in c.features
        /\ c.sm90 => (attn /\ c.fp8) \/ "flashinfer" \in c.features
        /\ c.features = {} => c.paged
        /\ c.paged => ~native /\ (attn => c.fp8 /\ ~c.sm90)}

Calls == [kind : {"fresh", "chunk", "decode"}, batch : Seq(Seqs), tokens : Nat,
          metadata : BOOLEAN, plan : BOOLEAN, layer : Nat]
ASSUME IdleAssumption == Idle \notin Calls

TypeOK ==
  /\ counter \in 0..(2 * MaxLayers)
  /\ \A l \in DOMAIN layers : layers[l] \in [index : 0..(2 * MaxLayers), scale : 1..MaxScale,
                                              updates : 0..KvScaleUpdateIteration]
  /\ std \in [1..config.size -> Cache(NumBlocks)]
  /\ cpu \in [1..config.size -> Cache(NumCpuBlocks)]
  /\ tq \in [0..(TqLayers - 1) -> Cache(NumBlocks)]
  /\ \A s \in Seqs : \A i \in DOMAIN tables[s] :
       tables[s][i] \in 0..((IF place[s] = "swapped" THEN NumCpuBlocks ELSE NumBlocks) - 1)
  /\ len \in [Seqs -> 0..MaxLen]
  /\ place \in [Seqs -> {"new", "running", "swapped", "done"}]
  /\ call # Idle => call.layer \in 1..config.size

Init ==
  /\ config \in Configs
  \* The layer index only matters to TurboQuant.
  /\ counter \in IF config.turboquant = "none" THEN {0} ELSE EarlierLayers
  /\ layers = <<>>
  /\ std = [l \in 1..config.size |-> EmptyCache(NumBlocks)]
  /\ cpu = [l \in 1..config.size |-> EmptyCache(NumCpuBlocks)]
  /\ tq = [i \in 0..(TqLayers - 1) |-> EmptyCache(NumBlocks)]
  /\ tables = [s \in Seqs |-> <<>>]
  /\ len = [s \in Seqs |-> 0]
  /\ place = [s \in Seqs |-> "new"]
  /\ call = Idle
  /\ out = Idle

-------------------------------------------------------------------------------
(* Building the layers. *)

\* PagedAttention::new: the layer takes the next index of the process.
New ==
  /\ Len(layers) < config.size
  /\ layers' = Append(layers, [index |-> counter, scale |-> 1, updates |-> 0])
  /\ counter' = counter + 1
  /\ UNCHANGED <<config, std, cpu, tq, tables, len, place, call, out>>

\* A loader resets the counter before it builds the layers of a model.
ResetPagedAttentionLayerCounter ==
  /\ layers = <<>> /\ counter # 0
  /\ counter' = 0
  /\ UNCHANGED <<config, layers, std, cpu, tq, tables, len, place, call, out>>

-------------------------------------------------------------------------------
(* The rows of a call. *)

Row(s, p) == tables[s][p \div BlockSize + 1] * BlockSize + (p % BlockSize)
Batch == Range(call.batch)
NewPositions(s) == (len[s] - call.tokens)..(len[s] - 1)
NewTokens == UNION {{<<s, p>> : p \in NewPositions(s)} : s \in Batch}

\* The slots of the new rows, and what becomes of them and of the others.
SlotMapping == {Row(x[1], x[2]) : x \in NewTokens}
NewCell(t, fmt, scale) ==
  [tok |-> CHOOSE x \in NewTokens : Row(x[1], x[2]) = t, fmt |-> fmt, scale |-> scale]
Storing(rows, fmt, scale) ==
  [t \in DOMAIN rows |-> IF t \in SlotMapping THEN NewCell(t, fmt, scale) ELSE rows[t]]

\* What a kernel makes of a slot whose rows it takes to be in a format and scale.
Decoded(cell, fmt, scale) ==
  IF cell.fmt = fmt /\ cell.scale = scale THEN cell.tok ELSE Garbage

\* The caches a layer sees, and whether TurboQuant has buffers for its index.
ViewOf(l) ==
  LET i == layers[l].index
  IN [std |-> std[l], scale |-> layers[l].scale,
      tq |-> IF i \in DOMAIN tq THEN tq[i] ELSE EmptyCache(0), hasTq |-> i \in DOMAIN tq]

-------------------------------------------------------------------------------
(* Storing the rows, on a view of a layer's caches. *)

StoredInCache(w) ==
  [w EXCEPT !.std = [k |-> Storing(@.k, StdFormat, w.scale), v |-> Storing(@.v, StdFormat, w.scale)]]

StoredInCacheMetal(w) == StoredInCache(w)
FlashReshapeAndCache(w) == StoredInCache(w)
FlashReshapeAndCacheMetal(w) == StoredInCache(w)

\* With the cache layout of rank 5 FlashInfer fails before it writes.
AppendKvCache(w) == IF config.paged THEN w ELSE StoredInCache(w)

\* k8v4: on CUDA the keys are written once more, next to the 4-bit values.
FlashTqStoreK8V4(w) ==
  [w EXCEPT !.std.k = Storing(@, StdFormat, w.scale), !.tq.v = Storing(@, "q4", 1)]
FlashTqStoreK8V4Metal(w) == [w EXCEPT !.tq.v = Storing(@, "q4", 1)]
FlashTq4Store(w) == [w EXCEPT !.tq = [k |-> Storing(@.k, "q4", 1), v |-> Storing(@.v, "q4", 1)]]
FlashTq3Store(w) == [w EXCEPT !.tq = [k |-> Storing(@.k, "q3", 1), v |-> Storing(@.v, "q4", 1)]]
FlashTq4StoreMetal(w) == FlashTq4Store(w)
FlashTq3StoreMetal(w) == FlashTq3Store(w)

\* Without buffers for the layer a TurboQuant store does nothing.
WithTurboquantLayer(w, stored) == IF w.hasTq THEN stored ELSE w

FlashWrites(w) ==
  LET mode == config.turboquant
  IN CASE mode = "none"   -> FlashReshapeAndCache(w)
       [] mode = "turbo8" -> LET u == FlashReshapeAndCache(w)
                             IN WithTurboquantLayer(u, FlashTqStoreK8V4(u))
       [] mode = "turbo4" -> WithTurboquantLayer(w, FlashTq4Store(w))
       [] mode = "turbo3" -> WithTurboquantLayer(w, FlashTq3Store(w))

MetalWrites(w) ==
  LET mode == config.turboquant
  IN CASE mode = "none"   -> FlashReshapeAndCacheMetal(w)
       [] mode = "turbo8" -> LET u == FlashReshapeAndCacheMetal(w)
                             IN WithTurboquantLayer(u, FlashTqStoreK8V4Metal(u))
       [] mode = "turbo4" -> WithTurboquantLayer(w, FlashTq4StoreMetal(w))
       [] mode = "turbo3" -> WithTurboquantLayer(w, FlashTq3StoreMetal(w))

-------------------------------------------------------------------------------
(* Attending: the rows a query reads, in the order they are merged. *)

Rows(cells, fmt, scale) == [t \in DOMAIN cells |-> Decoded(cells[t], fmt, scale)]
StdRows(w) == [k |-> Rows(w.std.k, StdFormat, w.scale), v |-> Rows(w.std.v, StdFormat, w.scale)]
K8V4Rows(w) == [k |-> Rows(w.std.k, StdFormat, w.scale), v |-> Rows(w.tq.v, "q4", 1)]
Tq4Rows(w) == [k |-> Rows(w.tq.k, "q4", 1), v |-> Rows(w.tq.v, "q4", 1)]
Tq3Rows(w) == [k |-> Rows(w.tq.k, "q3", 1), v |-> Rows(w.tq.v, "q4", 1)]

\* The positions the query at a position attends to: the last "span", or all for 0.
WindowStart(last, span) == IF span > 0 /\ span <= last THEN last + 1 - span ELSE 0
Attended(last, span) ==
  [i \in 1..(last + 1 - WindowStart(last, span)) |-> WindowStart(last, span) + i - 1]

\* The native and the conventional kernels count the query's own position in the
\* window; the causal mask, FlashInfer, where it has a window, and FlashAttention
\* count those before it.
Span == config.window
SpanBefore == IF config.window = 0 THEN 0 ELSE config.window + 1

ReadAt(rows, s, positions) ==
  [i \in DOMAIN positions |-> <<rows.k[Row(s, positions[i])], rows.v[Row(s, positions[i])]>>]

\* The queries of a sequence, at its new positions, each over the cache.
Prefill(rows, span) ==
  [s \in Batch |-> [q \in 1..call.tokens |->
     ReadAt(rows, s, Attended(len[s] - call.tokens + q - 1, span))]]

\* The new rows themselves, as they came in: the sequence has no others.
SdpPrefill ==
  [s \in Batch |-> [q \in 1..call.tokens |->
     LET positions == Attended(len[s] - call.tokens + q - 1, SpanBefore)
     IN [i \in DOMAIN positions |->
           IF positions[i] \in NewPositions(s) THEN <<<<s, positions[i]>>, <<s, positions[i]>>>>
           ELSE <<Garbage, Garbage>>]]]
FlashVarLen == SdpPrefill
SdpaCausal == SdpPrefill

Decode(rows, span) == [s \in Batch |-> <<ReadAt(rows, s, Attended(len[s] - 1, span))>>]

CeilDiv(a, b) == (a + b - 1) \div b
Clamp(n, lo, hi) == IF n < lo THEN lo ELSE IF n > hi THEN hi ELSE n
MaxContextLen == Max({len[s] : s \in Batch})

FlashNumSplits(n) ==
  IF n < SplitKThreshold THEN 1 ELSE Clamp(CeilDiv(n, TokensPerSplit), 2, NumSplits)

\* Mutant of Part: the size of a part is rounded down.
PartRoundedDown(positions, i, splits) ==
  LET size == Len(positions) \div splits
  IN SubSeq(positions, (i - 1) * size + 1, Min({i * size, Len(positions)}))

Part(positions, i, splits) ==
  LET size == CeilDiv(Len(positions), splits)
  IN SubSeq(positions, (i - 1) * size + 1, Min({i * size, Len(positions)}))

\* Split-K decode: the parts are read apart and merged; an empty part is skipped.
\* room is the number of sequences the workspace has partial results for: those of
\* the others lie beyond its end.
PlaceInBatch(s) == CHOOSE i \in DOMAIN call.batch : call.batch[i] = s
SplitKDecode(rows, splits, room) ==
  [s \in Batch |->
     LET merged == FlattenSeq([i \in 1..splits |-> Part(Attended(len[s] - 1, Span), i, splits)])
         read == ReadAt(rows, s, merged)
     IN << IF PlaceInBatch(s) <= room THEN read ELSE [i \in DOMAIN read |-> <<Garbage, Garbage>>] >>]

\* The workspace is made for WorkspaceSeqs sequences in NumSplits parts.
WorkspaceRoom == (WorkspaceSeqs * NumSplits) \div FlashNumSplits(MaxContextLen)
NativeDecode(rows) ==
  LET splits == FlashNumSplits(MaxContextLen)
  IN IF splits > 1 THEN SplitKDecode(rows, splits, WorkspaceRoom) ELSE Decode(rows, Span)

FlashPrefill(w) == Prefill(StdRows(w), Span)
FlashDecode(w) == NativeDecode(StdRows(w))
FlashTqDecodeK8V4SplitK(w) == NativeDecode(K8V4Rows(w))
FlashTq4Prefill(w) == Prefill(Tq4Rows(w), Span)
FlashTq4Decode(w) == NativeDecode(Tq4Rows(w))
FlashTq3Prefill(w) == Prefill(Tq3Rows(w), Span)
FlashTq3Decode(w) == NativeDecode(Tq3Rows(w))

\* FlashInfer masks by the window when it decodes only in an SM90 build, and when it
\* prefills only over rows that are not FP8; elsewhere it is not given the window.
DefaultDecodeAttention == IF config.sm90 THEN SpanBefore ELSE 0
PrefillAttention == IF config.fp8 THEN 0 ELSE SpanBefore
DecodeWithPlan(w) == Decode(StdRows(w), DefaultDecodeAttention)
PrefillWithPlan(w) == Prefill(StdRows(w), PrefillAttention)

\* Metal splits only the standard decode, with a scratch as large as the batch; the
\* low-bit prefill kernels are given the window and do not look at it.
FlashPrefillMetal(w) == Prefill(StdRows(w), Span)
FlashDecodeMetal(w) ==
  LET splits == IF MaxContextLen < MetalThreshold THEN 1
                ELSE Clamp(CeilDiv(MaxContextLen, MetalTokensPerSplit), 2, NumSplits)
  IN IF splits > 1 THEN SplitKDecode(StdRows(w), splits, Len(call.batch)) ELSE Decode(StdRows(w), Span)
FlashTqDecodeK8V4Metal(w) == Decode(K8V4Rows(w), Span)
FlashTq4PrefillMetal(w) == Prefill(Tq4Rows(w), 0)
FlashTq4DecodeMetal(w) == Decode(Tq4Rows(w), Span)
FlashTq3PrefillMetal(w) == Prefill(Tq3Rows(w), 0)
FlashTq3DecodeMetal(w) == Decode(Tq3Rows(w), Span)

-------------------------------------------------------------------------------
(* The paths of forward. *)

FlashAttends(w) ==
  LET mode == config.turboquant
  IN CASE call.kind = "fresh" -> SdpPrefill
       [] call.kind = "chunk" /\ mode = "turbo4" /\ w.hasTq -> FlashTq4Prefill(w)
       [] call.kind = "chunk" /\ mode = "turbo3" /\ w.hasTq -> FlashTq3Prefill(w)
       [] call.kind = "chunk" /\ mode \in {"none", "turbo8"} -> FlashPrefill(w)
       [] call.kind = "decode" /\ mode = "turbo8" /\ w.hasTq -> FlashTqDecodeK8V4SplitK(w)
       [] call.kind = "decode" /\ mode = "turbo4" /\ w.hasTq -> FlashTq4Decode(w)
       [] call.kind = "decode" /\ mode = "turbo3" /\ w.hasTq -> FlashTq3Decode(w)
       [] OTHER -> FlashDecode(w)

\* A long first chunk of a single sequence is attended to without the cache.
MetalDirect ==
  /\ call.kind = "chunk" /\ Len(call.batch) = 1
  /\ call.tokens >= DirectPrefillMin /\ len[call.batch[1]] = call.tokens
  /\ config.window = 0 /\ config.turboquant = "none" /\ ~config.fp8

MetalAttends(w) ==
  LET mode == config.turboquant
  IN CASE call.kind = "fresh" -> SdpPrefill
       [] MetalDirect -> SdpaCausal
       [] call.kind = "chunk" /\ mode = "turbo4" /\ w.hasTq -> FlashTq4PrefillMetal(w)
       [] call.kind = "chunk" /\ mode = "turbo3" /\ w.hasTq -> FlashTq3PrefillMetal(w)
       [] call.kind = "decode" /\ mode = "turbo8" /\ w.hasTq -> FlashTqDecodeK8V4Metal(w)
       [] call.kind = "decode" /\ mode = "turbo4" /\ w.hasTq -> FlashTq4DecodeMetal(w)
       [] call.kind = "decode" /\ mode = "turbo3" /\ w.hasTq -> FlashTq3DecodeMetal(w)
       [] OTHER -> IF call.kind = "decode" THEN FlashDecodeMetal(w) ELSE FlashPrefillMetal(w)

\* The conventional kernels: one thread block for a sequence (V1), or one for each
\* partition of it (V2).  On CUDA every partition starts at the window at the
\* earliest and spans a partition's blocks from there; the Metal kernels for
\* decoding are given no window.
UseV1(manyHeads) == MaxContextLen <= PartitionSize \/ manyHeads
Whole(n) == [i \in 1..n |-> i - 1]
BlocksOfPartition == PartitionSize \div BlockSize
PartitionPositions(n, p) ==
  LET start == Max({p * BlocksOfPartition, WindowStart(n - 1, Span) \div BlockSize}) * BlockSize
      first == Max({start, WindowStart(n - 1, Span)})
  IN [i \in 1..(Min({start + PartitionSize, n}) - first) |-> first + i - 1]
PartitionPositionsMetal(n, p) ==
  SubSeq(Whole(n), p * PartitionSize + 1, Min({(p + 1) * PartitionSize, n}))

PagedAttentionV1(rows) == Decode(rows, Span)
PagedAttentionV2(rows) ==
  [s \in Batch |-> <<ReadAt(rows, s,
     FlattenSeq([p \in 1..CeilDiv(len[s], PartitionSize) |-> PartitionPositions(len[s], p - 1)]))>>]
PagedAttentionV1Metal(rows) == [s \in Batch |-> <<ReadAt(rows, s, Whole(len[s]))>>]
PagedAttentionV2Metal(rows) ==
  [s \in Batch |-> <<ReadAt(rows, s,
     FlattenSeq([p \in 1..CeilDiv(len[s], PartitionSize) |-> PartitionPositionsMetal(len[s], p - 1)]))>>]

PagedAttentionCuda(rows, manyHeads) ==
  IF call.kind = "chunk" THEN Prefill(rows, Span)
  ELSE IF UseV1(manyHeads) THEN PagedAttentionV1(rows) ELSE PagedAttentionV2(rows)

\* The Metal prefill kernel has no causal mask, and counts the window from the end of
\* the chunk: every query of a sequence reads the same positions.
PagedAttentionPrefillMetal(rows) ==
  [s \in Batch |-> [q \in 1..call.tokens |-> ReadAt(rows, s, Attended(len[s] - 1, Span))]]
PagedAttentionMetal(rows, manyHeads) ==
  IF call.kind = "chunk" THEN PagedAttentionPrefillMetal(rows)
  ELSE IF UseV1(manyHeads) THEN PagedAttentionV1Metal(rows) ELSE PagedAttentionV2Metal(rows)

\* Mutant of MaybeUpdateKvScales: the number of updates is not bounded.
MaybeUpdateKvScalesForever(layer) ==
  IF config.fp8 THEN {[layer EXCEPT !.scale = x, !.updates = @ + 1] : x \in layer.scale..MaxScale}
  ELSE {layer}

\* The first calls raise the FP8 scales to what the new rows need.
MaybeUpdateKvScales(layer) ==
  IF config.fp8 /\ layer.updates < KvScaleUpdateIteration
  THEN {[layer EXCEPT !.scale = x, !.updates = @ + 1] : x \in layer.scale..MaxScale}
  ELSE {layer}

-------------------------------------------------------------------------------
(* The call of forward for the next layer, by path. *)

GroupSupported == config.group = "any" \/ (config.group = "prefill" /\ call.kind # "decode")
UsesFlashInfer ==
  Has("flashinfer") /\ call.metadata /\ ~(Has("flash") /\ config.wideHead) /\ GroupSupported
SkipFlashAttn == config.wideHead \/ config.turboquant # "none" \/ (config.fp8 /\ ~config.sm90)
UsesFlashAttn == Has("flashattn") /\ ~SkipFlashAttn

\* The layer's caches become those of w; after the last layer, or a failure, the
\* call is over.  The engine drops the sequences of a failed call.
Answer(w, layer, answer) ==
  LET l == call.layer
      over == answer = Failed \/ l = config.size
  IN /\ std' = [std EXCEPT ![l] = w.std]
     /\ tq' = IF w.hasTq THEN [tq EXCEPT ![layer.index] = w.tq] ELSE tq
     /\ layers' = [layers EXCEPT ![l] = layer]
     /\ out' = answer
     /\ call' = IF over THEN Idle ELSE [call EXCEPT !.layer = l + 1]
     /\ place' = [s \in Seqs |-> IF s \notin Batch THEN place[s]
                                 ELSE IF answer = Failed THEN "done" ELSE "running"]
     /\ tables' = IF answer = Failed THEN [s \in Seqs |-> IF s \in Batch THEN <<>> ELSE tables[s]]
                  ELSE tables
     /\ len' = IF answer = Failed THEN [s \in Seqs |-> IF s \in Batch THEN 0 ELSE len[s]] ELSE len
     /\ UNCHANGED <<config, counter, cpu>>

ForwardFlashInfer ==
  /\ call # Idle /\ UsesFlashInfer
  /\ LET w == AppendKvCache(ViewOf(call.layer))
     IN Answer(w, layers[call.layer],
               IF config.paged \/ ~call.plan THEN Failed
               ELSE IF call.kind = "decode" THEN DecodeWithPlan(w) ELSE PrefillWithPlan(w))

ForwardFlashAttn ==
  /\ call # Idle /\ ~UsesFlashInfer /\ UsesFlashAttn
  /\ LET w == StoredInCache(ViewOf(call.layer))
     IN Answer(w, layers[call.layer],
               CASE call.kind = "fresh"  -> FlashVarLen
                 [] call.kind = "chunk"  -> Prefill(StdRows(w), SpanBefore)
                 [] call.kind = "decode" -> Decode(StdRows(w), SpanBefore))

ForwardFlash ==
  /\ call # Idle /\ ~UsesFlashInfer /\ ~UsesFlashAttn /\ Has("flash")
  /\ LET w == FlashWrites(ViewOf(call.layer))
     IN Answer(w, layers[call.layer], FlashAttends(w))

ForwardMetal ==
  /\ call # Idle /\ Has("metal-flash")
  /\ LET w == MetalWrites(ViewOf(call.layer))
     IN Answer(w, layers[call.layer], MetalAttends(w))

ForwardConventional ==
  /\ call # Idle /\ ~UsesFlashInfer /\ ~UsesFlashAttn /\ ~Native
  /\ \E layer \in MaybeUpdateKvScales(layers[call.layer]), manyHeads \in BOOLEAN :
       LET u == [ViewOf(call.layer) EXCEPT !.scale = layer.scale]
           w == IF Has("metal") THEN StoredInCacheMetal(u) ELSE StoredInCache(u)
       IN Answer(w, layer,
                 IF call.kind = "fresh" THEN SdpPrefill
                 ELSE IF ~config.paged THEN Failed
                 ELSE IF Has("metal") THEN PagedAttentionMetal(StdRows(w), manyHeads)
                 ELSE PagedAttentionCuda(StdRows(w), manyHeads))

Forward == ForwardFlashInfer \/ ForwardFlashAttn \/ ForwardFlash \/ ForwardMetal \/ ForwardConventional

-------------------------------------------------------------------------------
(* The engine. *)

Ready == call = Idle /\ Len(layers) = config.size
InUse == UNION {Range(tables[s]) : s \in {x \in Seqs : place[x] # "swapped"}}
FreeBlocks == (0..(NumBlocks - 1)) \ InUse
InUseOnCpu == UNION {Range(tables[s]) : s \in {x \in Seqs : place[x] = "swapped"}}
FreeCpuBlocks == (0..(NumCpuBlocks - 1)) \ InUseOnCpu

\* The engine hands out distinct free blocks; which ones makes no difference.
Given(wanted, free) == CHOOSE given \in [wanted -> free] : IsInjective(given)

\* The places in the tables of a batch which its new tokens need blocks for.
BlocksFor(s, tokens) == CeilDiv(len[s] + tokens, BlockSize)
NewPlaces(batch, tokens) ==
  UNION {{i} \X ((Len(tables[batch[i]]) + 1)..BlocksFor(batch[i], tokens)) : i \in DOMAIN batch}
TableFor(batch, i, tokens) ==
  [j \in 1..BlocksFor(batch[i], tokens) |->
     IF j \in DOMAIN tables[batch[i]] THEN tables[batch[i]][j]
     ELSE Given(NewPlaces(batch, tokens), FreeBlocks)[<<i, j>>]]

\* A call for a batch; metadata says whether FlashInfer's is given, plan whether
\* it holds the plan.  With TurboQuant the engine gives none.
Start(kind, batch, tokens, metadata, plan) ==
  /\ Ready /\ \A i \in DOMAIN batch : len[batch[i]] + tokens <= MaxLen
  /\ Cardinality(NewPlaces(batch, tokens)) <= Cardinality(FreeBlocks)
  /\ metadata => Has("flashinfer") /\ config.turboquant = "none"
  /\ plan => metadata
  /\ len' = [s \in Seqs |-> IF s \in Range(batch) THEN len[s] + tokens ELSE len[s]]
  /\ call' = [kind |-> kind, batch |-> batch, tokens |-> tokens, metadata |-> metadata,
              plan |-> plan, layer |-> 1]
  /\ tables' = [s \in Seqs |-> IF s \notin Range(batch) THEN tables[s]
                ELSE TableFor(batch, CHOOSE i \in DOMAIN batch : batch[i] = s, tokens)]
  /\ out' = Idle
  /\ UNCHANGED <<config, counter, layers, std, cpu, tq, place>>

StartPrefill ==
  \E s \in Seqs, tokens \in 1..2, kind \in {"fresh", "chunk"}, metadata, plan \in BOOLEAN :
    /\ place[s] \in (IF kind = "fresh" THEN {"new"} ELSE {"new", "running"})
    /\ Start(kind, <<s>>, tokens, metadata, plan)

StartDecode ==
  \E n \in 1..Cardinality(Seqs), metadata, plan \in BOOLEAN :
  \E batch \in [1..n -> {s \in Seqs : place[s] = "running"}] :
    /\ IsInjective(batch)
    /\ Start("decode", batch, 1, metadata, plan)

SwapOut(s) ==
  /\ Ready /\ place[s] = "running" /\ config.turboquant = "none"
  /\ Cardinality(FreeCpuBlocks) >= Len(tables[s])
  /\ LET mapping == Given(Range(tables[s]), FreeCpuBlocks)
     IN /\ cpu' = [l \in DOMAIN cpu |-> [k |-> Swapped(std[l].k, cpu[l].k, mapping),
                                         v |-> Swapped(std[l].v, cpu[l].v, mapping)]]
        /\ tables' = [tables EXCEPT ![s] = [i \in DOMAIN @ |-> mapping[@[i]]]]
  /\ place' = [place EXCEPT ![s] = "swapped"]
  /\ out' = Idle
  /\ UNCHANGED <<config, counter, layers, std, tq, len, call>>

SwapIn(s) ==
  /\ Ready /\ place[s] = "swapped" /\ Cardinality(FreeBlocks) >= Len(tables[s])
  /\ LET mapping == Given(Range(tables[s]), FreeBlocks)
     IN /\ std' = [l \in DOMAIN std |-> [k |-> Swapped(cpu[l].k, std[l].k, mapping),
                                         v |-> Swapped(cpu[l].v, std[l].v, mapping)]]
        /\ tables' = [tables EXCEPT ![s] = [i \in DOMAIN @ |-> mapping[@[i]]]]
  /\ place' = [place EXCEPT ![s] = "running"]
  /\ out' = Idle
  /\ UNCHANGED <<config, counter, layers, cpu, tq, len, call>>

\* Blocks of the cache are copied within it.
MoveBlocks(s) ==
  /\ Ready /\ place[s] = "running" /\ config.turboquant = "none"
  /\ Cardinality(FreeBlocks) >= Len(tables[s])
  /\ LET mapping == Given(Range(tables[s]), FreeBlocks)
     IN /\ std' = [l \in DOMAIN std |-> [k |-> Swapped(std[l].k, std[l].k, mapping),
                                         v |-> Swapped(std[l].v, std[l].v, mapping)]]
        /\ tables' = [tables EXCEPT ![s] = [i \in DOMAIN @ |-> mapping[@[i]]]]
  /\ out' = Idle
  /\ UNCHANGED <<config, counter, layers, cpu, tq, len, place, call>>

\* A free block is cleared in every cache before it is used again.
ClearBlocks(b) ==
  /\ Ready /\ Width \in ClearWidths /\ config.turboquant = "none" /\ b \in FreeBlocks
  /\ LET metal == Has("metal") \/ Has("metal-flash")
     IN std' = [l \in DOMAIN std |-> [k |-> ClearedBlocks(std[l].k, {b}, Width, metal),
                                      v |-> ClearedBlocks(std[l].v, {b}, Width, metal)]]
  /\ out' = Idle
  /\ UNCHANGED <<config, counter, layers, cpu, tq, tables, len, place, call>>

FreeSequence(s) ==
  /\ Ready /\ place[s] \in {"running", "swapped"}
  /\ tables' = [tables EXCEPT ![s] = <<>>]
  /\ place' = [place EXCEPT ![s] = "done"]
  /\ len' = [len EXCEPT ![s] = 0]
  /\ out' = Idle
  /\ UNCHANGED <<config, counter, layers, std, cpu, tq, call>>

Next ==
  \/ New
  \/ ResetPagedAttentionLayerCounter
  \/ Forward
  \/ StartPrefill
  \/ StartDecode
  \/ \E s \in Seqs : SwapOut(s) \/ SwapIn(s) \/ MoveBlocks(s) \/ FreeSequence(s)
  \/ \E b \in 0..(NumBlocks - 1) : ClearBlocks(b)

Spec == Init /\ [][Next]_vars

-------------------------------------------------------------------------------
(* Properties. *)

\* The layer indices are the ones TurboQuant has buffers for.
TurboquantCovers ==
  config.turboquant \in {"turbo4", "turbo3"} => \A l \in DOMAIN layers : layers[l].index < TqLayers

\* No layer has moved its FP8 scales, which the conventional path does.
StableScale == \A l \in DOMAIN layers : layers[l].scale = 1

\* The partitions of a CUDA build that decodes by the conventional kernels overlap
\* where there is a window.
Conventional == ~Native /\ ~UsesFlashInfer /\ ~UsesFlashAttn
PartitionsApart ==
  config.window = 0 \/ ~Conventional \/ Has("metal") \/ call.kind # "decode"
  \/ MaxContextLen <= PartitionSize

\* A sequence whose partial results, if it has any, are inside the workspace.
InWorkspace(s) ==
  \/ ~Has("flash") \/ UsesFlashInfer \/ UsesFlashAttn \/ call.kind # "decode"
  \/ FlashNumSplits(MaxContextLen) = 1 \/ PlaceInBatch(s) <= WorkspaceRoom

\* The window a call is served with: the configured one, or one more by the paths
\* that do not count the query's own position, or none by those that have no window.
ServedSpan ==
  IF \/ UsesFlashInfer /\ (IF call.kind = "decode" THEN ~config.sm90 ELSE config.fp8)
     \/ Conventional /\ Has("metal") /\ call.kind = "decode"
     \/ Has("metal-flash") /\ call.kind = "chunk" /\ config.turboquant \in {"turbo4", "turbo3"}
  THEN 0
  ELSE IF UsesFlashInfer \/ UsesFlashAttn \/ call.kind = "fresh" THEN SpanBefore ELSE Span

\* The last position a query is served: its own, or that of the chunk by the kernel
\* that has no causal mask.
OwnPosition(s, q) == len[s] - call.tokens + q - 1
ServedUpTo(s, q) ==
  IF Conventional /\ Has("metal") /\ call.kind = "chunk" THEN len[s] - 1 ELSE OwnPosition(s, q)

\* The rows of a sequence up to a position, and what its queries should read.
OwnRows(s, last, span) ==
  LET positions == Attended(last, span)
  IN [i \in DOMAIN positions |-> <<<<s, positions[i]>>, <<s, positions[i]>>>>]
OwnContext(s, span) == [q \in 1..call.tokens |-> OwnRows(s, OwnPosition(s, q), span)]
ServedContext(s) == [q \in 1..call.tokens |-> OwnRows(s, ServedUpTo(s, q), ServedSpan)]

\* A query reads the K and V rows of its own sequence, each position it is served once
\* and in order, in the format and scale they were stored in, whichever path stored and
\* reads them, in a batch of any sequences and wherever the blocks have been copied
\* (PagedAttention::forward).  Beyond the preconditions it fails: see the runs that
\* violate it.
ReadsOwnContext ==
  [][ out' # Idle /\ out' # Failed /\ call # Idle /\ TurboquantCovers /\ StableScale' /\ PartitionsApart
      => \A s \in Batch : InWorkspace(s) => out'[s] = ServedContext(s) ]_vars

\* Where the rows of a sequence are kept that later calls read.
KeptCells(s) ==
  LET at(p) == Row(s, p)
      kept(c) == [p \in 0..(len[s] - 1) |-> <<c.k[at(p)], c.v[at(p)]>>]
  IN IF place[s] = "swapped" THEN [l \in DOMAIN cpu |-> kept(cpu[l])]
     ELSE IF config.turboquant \in {"turbo4", "turbo3"} THEN [i \in DOMAIN tq |-> kept(tq[i])]
     ELSE [l \in DOMAIN std |-> kept(std[l])]

\* A step leaves what is stored of every sequence it does not extend: no call, copy,
\* swap or clearing touches the rows of another sequence (slot_mapping, swap_blocks,
\* clear_blocks).
ContextsUntouched ==
  [][ \A s \in Seqs :
        place[s] \in {"running", "swapped"} /\ place'[s] # "done" /\ len'[s] = len[s]
        /\ (call # Idle => s \notin Batch)
        => KeptCells(s)' = KeptCells(s) ]_vars

-------------------------------------------------------------------------------
(* The statements of the sources that the program does not satisfy. *)

\* "we only attend to tokens in [seq_len - sliding_window, seq_len)", and to each of
\* them once, whichever path serves the call.
AttendsWindowOnce ==
  [][ out' # Idle /\ out' # Failed /\ call # Idle /\ StableScale'
      => out' = [s \in Batch |-> OwnContext(s, Span)] ]_vars

\* Rows stored under a scale are not read with another one.
ReadWithTheirScale ==
  [][ out' # Idle /\ out' # Failed /\ call # Idle /\ config.window = 0
      => out' = [s \in Batch |-> OwnContext(s, 0)] ]_vars
===============================================================================
