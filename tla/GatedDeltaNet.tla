---------------------------- MODULE GatedDeltaNet -----------------------------
(***************************************************************************)
(* One gated-delta-net layer: a causal convolution over the last K inputs  *)
(* of a sequence, then a recurrence over all of them.  Each slot keeps the *)
(* K - 1 inputs the next convolution needs and, for every value head, the  *)
(* recurrent state.  A prefill serves a batch of chunks laid end to end; a *)
(* decode serves one token per row; a verified prefill keeps a snapshot    *)
(* after every token, from which the state is set back to the last token   *)
(* that is accepted.                                                       *)
(*                                                                         *)
(* The recurrent state of a head is the sequence of the updates it took,   *)
(* each with the key, the value and the decay that went into it; the       *)
(* floating-point arithmetic is left out.  The caller, which is not part   *)
(* of the repository, chooses batches and kernels and allocates snapshots. *)
(***************************************************************************)
EXTENDS Integers, Sequences, FiniteSets, FiniteSetsExt, SequencesExt

CONSTANTS Slots,        \* slots of the cache
          KernelSize,   \* K, the taps of the convolution
          NumKHeads, NumVHeads,
          MaxTokens,    \* bound: tokens issued to a slot
          MaxChunk,     \* bound: tokens of a row of a prefill
          MaxRows,         \* bound: rows of a batch
          LockStep,     \* the threads of a block run in step
          Pad,          \* the slot of a row that only fills a graph's batch
          Nothing       \* not written yet; also the input before the first

VARIABLES build,   \* backend and model: fixed after the start
          conv,    \* slot -> its K - 1 inputs
          rec,     \* slot -> head -> its updates
          fed,     \* slot -> the tokens that count, which nothing in the code keeps
          issued,  \* slot -> tokens handed out so far
          op       \* the call being served, or Idle

gdnVars == <<build, conv, rec, fed, issued, op>>

Width == KernelSize - 1
VHeads == 0..(NumVHeads - 1)
Zeros == [i \in 1..Width |-> Nothing]
Metal == build.backend = "metal"

\* gqa: the model calls the kernels that share key heads; half: inputs are 16 bit;
\* vectors: d_conv is a multiple of the vector width; wide: heads of more than 256.
Builds ==
  {b \in [backend : {"cuda", "metal"}, gqa : BOOLEAN, half : BOOLEAN, vectors : BOOLEAN, wide : BOOLEAN] :
     b.backend = "metal" => b.vectors /\ b.half}

Idle == [phase |-> "idle"]

GdnInit ==
  /\ build \in Builds
  /\ conv = [s \in Slots |-> Zeros]
  /\ rec = [s \in Slots |-> [h \in VHeads |-> <<>>]]
  /\ fed = [s \in Slots |-> <<>>]
  /\ issued = [s \in Slots |-> 0]
  /\ op = Idle

-------------------------------------------------------------------------------
(* The layout of a batch: row r is x[cu[r] + 1 .. cu[r + 1]]. *)

Batch(o) == DOMAIN o.slots
RowLen(o, r) == o.cu[r + 1] - o.cu[r]
Flat(o) == DOMAIN o.x

\* The last row that starts at or before the token: empty rows are passed over.
RowOf(o, t) == Max({r \in Batch(o) : o.cu[r] <= t - 1})

\* Input j of a row; before the row's first, what its state carries.
At(o, r, j) == IF j >= 0 THEN o.x[o.cu[r] + j + 1] ELSE o.state[r][j + KernelSize]

-------------------------------------------------------------------------------
(* Convolution. *)

\* One block of causal_conv1d_fwd_parallel: a token, its output and snapshot.
CausalConv1dFwdParallel(t) ==
  LET r == RowOf(op, t)
      pos == t - 1 - op.cu[r]
  IN /\ op.phase = "conv" /\ op.parallel /\ op.out[t] = Nothing
     /\ op' = [op EXCEPT
          !.out[t] = [i \in 1..KernelSize |-> At(op, r, pos - Width + i - 1)],
          !.snaps[t] = [i \in 1..Width |-> At(op, r, pos - (Width - 1) + i - 1)]]

\* Mutant of Committed: a chunk shorter than the state forgets what was there.
CommittedShort(o, r) ==
  [i \in 1..Width |-> LET j == RowLen(o, r) - Width + i - 1
                      IN IF j >= 0 THEN At(o, r, j) ELSE Nothing]

Committed(o, r) == [i \in 1..Width |-> At(o, r, RowLen(o, r) - Width + i - 1)]

\* Mutant of ConvolutionDone: nothing waits for the tokens before a commit.
ConvolutionDoneAlways == TRUE

ConvolutionDone == \A t \in Flat(op) : op.out[t] # Nothing

\* causal_conv1d_state_commit: launched behind the tokens, one block per row.
CausalConv1dStateCommit(r) ==
  /\ op.phase = "conv" /\ op.parallel /\ r \notin op.committed
  /\ ConvolutionDone
  /\ op' = [op EXCEPT !.state[r] = Committed(op, r), !.committed = @ \cup {r}]

\* A window of the last inputs moving over one row, as both backends run it
\* when the tokens are not served in parallel.
Shifted(row, tok) == Append(Tail(row), tok)
StateAfter(o, r, n) ==
  LET after[i \in 0..n] == IF i = 0 THEN o.state[r] ELSE Shifted(after[i - 1], o.x[o.cu[r] + i])
  IN after[n]

InSequence(r) ==
  LET mine == (op.cu[r] + 1)..op.cu[r + 1]
  IN /\ op.phase = "conv" /\ ~op.parallel /\ r \notin op.committed
     /\ op' = [op EXCEPT
          !.out = [t \in Flat(op) |-> IF t \in mine THEN Append(StateAfter(op, r, t - 1 - op.cu[r]), op.x[t])
                                      ELSE @[t]],
          !.snaps = [t \in Flat(op) |-> IF t \in mine THEN StateAfter(op, r, t - op.cu[r]) ELSE @[t]],
          !.state[r] = StateAfter(op, r, RowLen(op, r)),
          !.committed = @ \cup {r}]

CausalConv1dFwd(r) == ~Metal /\ InSequence(r)
CausalConv1dFwdMetal(r) == Metal /\ InSequence(r)

\* CUDA serves the tokens in parallel where the launcher finds the layout fit.
ParallelServes == ~Metal /\ build.vectors /\ KernelSize \in 2..4

\* get_batch_conv_state
Gathered(slots) == [r \in DOMAIN slots |-> conv[slots[r]]]

\* set_batch_conv_state: rows without a slot are dropped.
Scattered(rows, slots) ==
  [s \in Slots |-> IF \E r \in DOMAIN slots : slots[r] = s
                   THEN rows[CHOOSE r \in DOMAIN slots : slots[r] = s] ELSE conv[s]]

FinishConvolution ==
  /\ op.phase = "conv" /\ op.committed = Batch(op)
  /\ conv' = Scattered(op.state, op.slots)
  /\ op' = [op EXCEPT !.phase = "recurrence"]
  /\ UNCHANGED <<build, rec, fed, issued>>

\* causal_conv1d_update_slots: one token per row, on the slots; a row without
\* a slot is left zero.  causal_conv1d_update does it on gathered rows.
CausalConv1dUpdateSlots(o) ==
  [out |-> [t \in Flat(o) |-> IF o.slots[t] = Pad THEN Nothing ELSE Append(conv[o.slots[t]], o.x[t])],
   conv |-> [s \in Slots |-> IF \E t \in Flat(o) : o.slots[t] = s
                             THEN Shifted(conv[s], o.x[CHOOSE t \in Flat(o) : o.slots[t] = s])
                             ELSE conv[s]]]

CausalConv1dUpdate(o) ==
  LET rows == Gathered(o.slots)
  IN [out |-> [t \in Flat(o) |-> Append(rows[t], o.x[t])],
      conv |-> Scattered([t \in Flat(o) |-> Shifted(rows[t], o.x[t])], o.slots)]

CausalConv1dUpdateSlotsMetal(o) == CausalConv1dUpdateSlots(o)
CausalConv1dUpdateMetal(o) == CausalConv1dUpdate(o)

-------------------------------------------------------------------------------
(* What goes into an update of a head. *)

\* A packed row is the q heads, the k heads and the v heads.  l2_norm_range
\* normalises a range of it, where it serves heads so wide; otherwise the
\* caller takes k apart for l2_norm_last_dim.
L2NormRange(first, count) == IF build.wide THEN {} ELSE first..(first + count - 1)
L2NormRangeMetal(first, count) == L2NormRange(first, count)
L2NormLastDim == NumKHeads..(2 * NumKHeads - 1)
L2NormLastDimMetal == L2NormLastDim
Normalised ==
  LET range == IF Metal THEN L2NormRangeMetal(NumKHeads, NumKHeads) ELSE L2NormRange(NumKHeads, NumKHeads)
  IN IF range # {} THEN range ELSE IF Metal THEN L2NormLastDimMetal ELSE L2NormLastDim

Key(tok, kh) == [tok |-> tok, head |-> kh, norm |-> NumKHeads + kh \in Normalised]

\* The value heads of a row; strided kernels find them in the packed one.
Value(tok, h) == <<tok, h>>
StridedValue(tok, offset, h) == <<tok, offset + h - 2 * NumKHeads>>

\* fused_gdn_gating: the log decay and beta of a head, from the token's own inputs.
FusedGdnGating(tok, h) == [tok |-> tok, head |-> h, exps |-> 0]
FusedGdnGatingMetal(tok, h) == FusedGdnGating(tok, h)
Gate(tok, h) == IF Metal THEN FusedGdnGatingMetal(tok, h) ELSE FusedGdnGating(tok, h)
Exp(gate) == [gate EXCEPT !.exps = @ + 1]

\* The caller repeats the key heads for the plain kernels, whose wrapper takes
\* the exponential; the gqa kernels find the key head and take it themselves.
Group == NumVHeads \div NumKHeads
Repeated(tok, h) ==
  [key |-> Key(tok, h \div Group), value |-> Value(tok, h), gate |-> Exp(Gate(tok, h))]

SharedKeyHead(h) == h \div Group
Shared(tok, h) ==
  [key |-> Key(tok, SharedKeyHead(h)), value |-> Value(tok, h), gate |-> Exp(Gate(tok, h))]
Strided(tok, h) == [Shared(tok, h) EXCEPT !.value = StridedValue(tok, 2 * NumKHeads, h)]

\* What a kernel makes of a token, by the form in which it is given the heads.
Taken(form, tok, h) ==
  CASE form = "repeated" -> Repeated(tok, h)
    [] form = "shared" -> Shared(tok, h)
    [] form = "strided" -> Strided(tok, h)

\* An update some of whose threads read the next token's key.
Torn(entry) == [entry EXCEPT !.key.tok = Nothing]

-------------------------------------------------------------------------------
(* Recurrence. *)

\* The kernels that keep the key of a step in one shared buffer, without a
\* barrier between its last use and the next step's key: a group of threads
\* that is ahead overwrites it.  Outcomes: the steps where that happens.
Overtaken(r) == IF LockStep THEN {{}} ELSE SUBSET ((op.cu[r] + 1)..(op.cu[r + 1] - 1))

\* A row's updates up to a token, given the torn steps.
Ran(form, r, upto, torn, h) ==
  [i \in 1..(upto - op.cu[r]) |->
     LET t == op.cu[r] + i
     IN IF t \in torn THEN Torn(Taken(form, op.x[t], h)) ELSE Taken(form, op.x[t], h)]

Through(form, r, upto, torn) ==
  [h \in VHeads |-> rec[op.slots[r]][h] \o Ran(form, r, upto, torn, h)]

\* Rows run apart, each on its slot: rows without one, and empty ones, return.
Recurred(form, torn) ==
  [s \in Slots |-> IF \E r \in Batch(op) : op.slots[r] = s
                   THEN LET r == CHOOSE q \in Batch(op) : op.slots[q] = s
                        IN Through(form, r, op.cu[r + 1], torn)
                   ELSE rec[s]]
StatesAfter(form, torn) ==
  [t \in Flat(op) |-> LET r == RowOf(op, t)
                      IN IF op.slots[r] = Pad THEN Nothing ELSE Through(form, r, t, torn)]

TornSomewhere ==
  {torn \in SUBSET Flat(op) : \A r \in Batch(op) :
     torn \cap ((op.cu[r] + 1)..op.cu[r + 1]) \in Overtaken(r)}

Recur(form, torn) ==
  /\ op.phase = "recurrence"
  /\ rec' = Recurred(form, torn)
  /\ op' = [op EXCEPT !.phase = "answer", !.states = StatesAfter(form, torn)]
  /\ UNCHANGED <<build, conv, fed, issued>>

\* CUDA's varlen kernels hold two steps in turn behind one barrier, Metal's one.
GatedDeltaRuleRecurrenceVarlen ==
  ~Metal /\ ~op.decode /\ ~build.gqa /\ Recur("repeated", {})
GatedDeltaRuleRecurrenceVarlenMetal ==
  Metal /\ ~op.decode /\ ~build.gqa /\ \E torn \in TornSomewhere : Recur("repeated", torn)

GatedDeltaRuleRecurrenceVarlenGqa ==
  ~Metal /\ ~op.decode /\ build.gqa /\ Recur("shared", {})
GatedDeltaRuleRecurrenceVarlenGqaMetal ==
  Metal /\ ~op.decode /\ build.gqa /\ \E torn \in TornSomewhere : Recur("shared", torn)

\* The chunked prefill: 16-bit inputs, more value heads than key heads, no snapshots.
GatedDeltaRulePrefillFlashInferGqa ==
  /\ ~Metal /\ ~op.decode /\ build.gqa /\ build.half /\ NumVHeads > NumKHeads /\ ~op.verify
  /\ Recur("shared", {})

\* The recurrence on states gathered from the slots, over rows of one length.
Dense ==
  /\ ~build.gqa /\ ~op.verify
  /\ \A r \in Batch(op) : op.slots[r] # Pad /\ RowLen(op, r) = RowLen(op, 1)
GatedDeltaRuleRecurrence == ~Metal /\ Dense /\ \E torn \in TornSomewhere : Recur("repeated", torn)
GatedDeltaRuleRecurrenceMetal == Metal /\ Dense /\ \E torn \in TornSomewhere : Recur("repeated", torn)

GatedDeltaRuleDecodeSlots == ~Metal /\ op.decode /\ ~build.gqa /\ Recur("repeated", {})
GatedDeltaRuleDecodeSlotsMetal == Metal /\ op.decode /\ ~build.gqa /\ Recur("repeated", {})
GatedDeltaRuleDecodeSlotsGqa == ~Metal /\ op.decode /\ build.gqa /\ Recur("shared", {})
GatedDeltaRuleDecodeSlotsGqaMetal == Metal /\ op.decode /\ build.gqa /\ Recur("shared", {})
GatedDeltaRuleDecodeSlotsGqaStridedV == ~Metal /\ op.decode /\ build.gqa /\ Recur("strided", {})
GatedDeltaRuleDecodeSlotsGqaStridedVMetal == Metal /\ op.decode /\ build.gqa /\ Recur("strided", {})

Recurrence ==
  \/ GatedDeltaRuleRecurrenceVarlen \/ GatedDeltaRuleRecurrenceVarlenMetal
  \/ GatedDeltaRuleRecurrenceVarlenGqa \/ GatedDeltaRuleRecurrenceVarlenGqaMetal
  \/ GatedDeltaRulePrefillFlashInferGqa
  \/ GatedDeltaRuleRecurrence \/ GatedDeltaRuleRecurrenceMetal
  \/ GatedDeltaRuleDecodeSlots \/ GatedDeltaRuleDecodeSlotsMetal
  \/ GatedDeltaRuleDecodeSlotsGqa \/ GatedDeltaRuleDecodeSlotsGqaMetal
  \/ GatedDeltaRuleDecodeSlotsGqaStridedV \/ GatedDeltaRuleDecodeSlotsGqaStridedVMetal

-------------------------------------------------------------------------------
(* Calls. *)

\* Where the rows of these lengths begin, and the one in which a token is.
CuSeqlens(lens) ==
  LET cu[r \in 1..(Len(lens) + 1)] == IF r = 1 THEN 0 ELSE cu[r - 1] + lens[r - 1]
  IN cu
Holder(cu, rows, t) == Max({r \in rows : cu[r] < t})

\* A row's next tokens; a row without a slot brings some token nobody counts.
NewToken(s, i) == IF s = Pad THEN <<Pad, i>> ELSE <<s, issued[s] + i>>

Call(slots, lens, decode, verify) ==
  LET cu == CuSeqlens(lens)
      x == [t \in 1..cu[Len(slots) + 1] |->
              LET r == Holder(cu, DOMAIN slots, t) IN NewToken(slots[r], t - cu[r])]
      unset == [t \in DOMAIN x |-> Nothing]
  IN [slots |-> slots, x |-> x, decode |-> decode, verify |-> verify, cu |-> cu,
      phase |-> "conv", parallel |-> ParallelServes, committed |-> {},
      state |-> IF decode THEN <<>> ELSE Gathered(slots),
      out |-> unset, snaps |-> unset, states |-> unset]

\* A row's slot is its own; any number of rows may have none.
Batches(slots) ==
  {b \in UNION {[1..n -> slots] : n \in 1..MaxRows} :
     /\ \E r \in DOMAIN b : b[r] # Pad
     /\ \A r, q \in DOMAIN b : r # q /\ b[r] = b[q] => b[r] = Pad}

Issue(o) ==
  /\ issued' = [s \in Slots |-> issued[s] + Cardinality({t \in Flat(o) : o.x[t][1] = s})]
  /\ \A s \in Slots : issued'[s] <= MaxTokens
  /\ op' = o
  /\ UNCHANGED <<build, rec, fed>>

Prefill ==
  /\ op = Idle
  /\ \E slots \in Batches(Slots), verify \in BOOLEAN : \E lens \in [DOMAIN slots -> 0..MaxChunk] :
       /\ \E r \in DOMAIN lens : lens[r] > 0
       /\ verify => \A r \in DOMAIN lens : lens[r] > 0
       /\ Issue(Call(slots, lens, FALSE, verify))
  /\ UNCHANGED conv

\* One token per row; the dense kernel needs a slot in every row.
DecodeStep ==
  /\ op = Idle
  /\ \E slots \in Batches(Slots \cup {Pad}) :
       LET o == Call(slots, [r \in DOMAIN slots |-> 1], TRUE, FALSE)
           Updated(u) == Issue([o EXCEPT !.phase = "recurrence", !.out = u.out]) /\ conv' = u.conv
       IN \/ ~Metal /\ Updated(CausalConv1dUpdateSlots(o))
          \/ Metal /\ Updated(CausalConv1dUpdateSlotsMetal(o))
          \/ /\ \A r \in DOMAIN slots : slots[r] # Pad
             /\ \/ ~Metal /\ Updated(CausalConv1dUpdate(o))
                \/ Metal /\ Updated(CausalConv1dUpdateMetal(o))

Convolve ==
  /\ op.phase = "conv"
  /\ \/ \E t \in Flat(op) : CausalConv1dFwdParallel(t)
     \/ \E r \in Batch(op) : CausalConv1dStateCommit(r) \/ CausalConv1dFwd(r) \/ CausalConv1dFwdMetal(r)
  /\ UNCHANGED <<build, conv, rec, fed, issued>>

Served(s) == IF \E r \in Batch(op) : op.slots[r] = s
           THEN LET r == CHOOSE q \in Batch(op) : op.slots[q] = s
                IN SubSeq(op.x, op.cu[r] + 1, op.cu[r + 1])
           ELSE <<>>

Answer ==
  /\ op.phase = "answer" /\ ~op.verify
  /\ fed' = [s \in Slots |-> fed[s] \o Served(s)]
  /\ op' = Idle
  /\ UNCHANGED <<build, conv, rec, issued>>

\* Of every row of a verified prefill the caller accepts some first tokens, and
\* sets conv and rec back to the snapshots taken after the last of them.
Accept ==
  /\ op.phase = "answer" /\ op.verify
  /\ \E n \in [Batch(op) -> 1..MaxChunk] :
       /\ \A r \in Batch(op) : n[r] <= RowLen(op, r)
       /\ LET last == [r \in Batch(op) |-> op.cu[r] + n[r]]
          IN /\ conv' = Scattered([r \in Batch(op) |-> op.snaps[last[r]]], op.slots)
             /\ rec' = [s \in Slots |-> IF \E r \in Batch(op) : op.slots[r] = s
                                        THEN op.states[last[CHOOSE r \in Batch(op) : op.slots[r] = s]]
                                        ELSE rec[s]]
             /\ fed' = [s \in Slots |-> IF \E r \in Batch(op) : op.slots[r] = s
                                        THEN fed[s] \o SubSeq(Served(s), 1, n[CHOOSE r \in Batch(op) : op.slots[r] = s])
                                        ELSE fed[s]]
  /\ op' = Idle
  /\ UNCHANGED <<build, issued>>

GdnNext ==
  \/ Prefill \/ DecodeStep
  \/ op # Idle /\ (Convolve \/ FinishConvolution \/ Recurrence \/ Answer \/ Accept)

-------------------------------------------------------------------------------
LastInputs(seq, n) == SubSeq(Zeros \o <<Nothing>> \o seq, KernelSize + Len(seq) - n + 1, KernelSize + Len(seq))
Expected(tok, h) ==
  [key |-> [tok |-> tok, head |-> h \div Group, norm |-> TRUE], value |-> <<tok, h>>,
   gate |-> [tok |-> tok, head |-> h, exps |-> 1]]
States(seq) == [h \in VHeads |-> [i \in DOMAIN seq |-> Expected(seq[i], h)]]

\* Between calls every slot carries exactly its own sequence: the last inputs of
\* the tokens that count, and one update per head for each of them, whatever mix
\* of chunks, kernels, paddings and rejected drafts they came by.  This is what
\* ties the state a prefill leaves to the one the decode kernels go on from.
StatesFollowTheirSequences ==
  op = Idle => \A s \in Slots : conv[s] = LastInputs(fed[s], Width) /\ rec[s] = States(fed[s])

\* Every convolution output was made of the last K inputs of its own sequence,
\* and every recurrence output of the state just after its token, for empty and
\* short rows and in whichever order the blocks of a launch run.
OutputsSeeTheirSequence ==
  op # Idle => \A t \in Flat(op) :
    LET r == Holder(op.cu, Batch(op), t)
        s == op.slots[r]
        seen == fed[s] \o SubSeq(op.x, op.cu[r] + 1, t)
    IN s # Pad => /\ op.out[t] \in {Nothing, LastInputs(seen, KernelSize)}
                  /\ op.states[t] \in {Nothing, States(seen)}
===============================================================================
