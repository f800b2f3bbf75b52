-------------------------- MODULE PagedAttentionProofs --------------------------
(***************************************************************************)
(* Every call of a PagedAttention layer reads exactly the rows of its own  *)
(* sequences, and no step disturbs what another sequence has stored, for   *)
(* every build, configuration and size.                                    *)
(*                                                                         *)
(* The inductive invariant has five parts: the tables share no block; the  *)
(* call being served is one the engine may make; the layers have distinct  *)
(* indices; the caches are caches; and every token of a sequence which a   *)
(* layer has been given is stored, in every cache the mode keeps it in, in *)
(* the row the table names.                                                *)
(***************************************************************************)
EXTENDS PagedAttention, NumberFacts, SequenceTheorems, TLAPS

-------------------------------------------------------------------------------
(* The inductive invariant. *)

\* The row of a position by a block table: Row for any table.
RowAt(table, p) == table[p \div BlockSize + 1] * BlockSize + (p % BlockSize)

\* The first n tokens of a sequence are stored, each in its row, in a format and
\* under a scale no larger than another.
HasRows(rows, s, table, n, fmt, scale) ==
  \A p \in 0..(n - 1) : /\ rows[RowAt(table, p)].tok = <<s, p>>
                        /\ rows[RowAt(table, p)].fmt = fmt
                        /\ rows[RowAt(table, p)].scale \in 1..scale

OnCpu(s) == place[s] = "swapped"
BlocksOf(s) == IF OnCpu(s) THEN NumCpuBlocks ELSE NumBlocks
InBatch(s) == call # Idle /\ s \in Batch

TablesInv ==
  /\ len \in [Seqs -> 0..MaxLen]
  /\ place \in [Seqs -> {"new", "running", "swapped", "done"}]
  /\ tables \in [Seqs -> Seq(Nat)]
  /\ \A s \in Seqs : Len(tables[s]) = CeilDiv(len[s], BlockSize)
  /\ \A s \in Seqs : \A i \in DOMAIN tables[s] : tables[s][i] \in 0..(BlocksOf(s) - 1)
  /\ \A s, r \in Seqs : \A i \in DOMAIN tables[s], j \in DOMAIN tables[r] :
       (OnCpu(s) <=> OnCpu(r)) /\ tables[s][i] = tables[r][j] => s = r /\ i = j
  /\ \A s \in Seqs : place[s] = "new" /\ ~InBatch(s) => len[s] = 0
  /\ \A s \in Seqs : OnCpu(s) => config.turboquant = "none"

CallInv ==
  call # Idle =>
    /\ call \in Calls /\ Len(call.batch) >= 1 /\ IsInjective(call.batch)
    /\ call.tokens >= 1 /\ call.layer \in 1..config.size /\ Len(layers) = config.size
    /\ \A s \in Batch : place[s] \in {"new", "running"} /\ call.tokens <= len[s]
    /\ call.kind = "decode" => call.tokens = 1
    /\ call.kind = "fresh" => \A s \in Batch : len[s] = call.tokens
    /\ call.metadata => config.turboquant = "none"

LayersInv ==
  /\ config \in Configs
  /\ layers \in Seq([index : 0..(2 * MaxLayers), scale : 1..MaxScale,
                     updates : 0..KvScaleUpdateIteration])
  /\ Len(layers) <= config.size
  /\ counter \in Nat /\ counter - Len(layers) \in 0..MaxLayers
  /\ \A l \in DOMAIN layers : layers[l].index = counter - Len(layers) + l - 1
  /\ (\E s \in Seqs : len[s] > 0) => Len(layers) = config.size

CachesInv ==
  /\ std \in [1..config.size -> Cache(NumBlocks)]
  /\ cpu \in [1..config.size -> Cache(NumCpuBlocks)]
  /\ tq \in [0..(TqLayers - 1) -> Cache(NumBlocks)]

\* The tokens of a sequence a layer has been given; a mode keeps K and V rows in
\* the cache, in the TurboQuant buffers, or in both.
Served(s, l) == IF InBatch(s) /\ l >= call.layer THEN len[s] - call.tokens ELSE len[s]
InStd == config.turboquant \in {"none", "turbo8"}
StdHolds(c, scale, s, table, n) ==
  InStd => HasRows(c.k, s, table, n, StdFormat, scale) /\ HasRows(c.v, s, table, n, StdFormat, scale)
TqHolds(c, s, table, n) ==
  /\ config.turboquant = "turbo4" => HasRows(c.k, s, table, n, "q4", 1)
  /\ config.turboquant = "turbo3" => HasRows(c.k, s, table, n, "q3", 1)
  /\ config.turboquant # "none" => HasRows(c.v, s, table, n, "q4", 1)

RowsInv ==
  \A s \in Seqs, l \in DOMAIN layers :
    /\ StdHolds(IF OnCpu(s) THEN cpu[l] ELSE std[l], layers[l].scale, s, tables[s], Served(s, l))
    /\ layers[l].index \in DOMAIN tq => TqHolds(tq[layers[l].index], s, tables[s], Served(s, l))

Shape == TablesInv /\ CallInv /\ LayersInv /\ CachesInv

-------------------------------------------------------------------------------
(* Rows. *)

LEMMA BlocksCover ==
  ASSUME NEW n \in Nat, NEW p \in 0..(n - 1)
  PROVE  p \div BlockSize \in Nat /\ p \div BlockSize + 1 <= CeilDiv(n, BlockSize)
<1>1. BlockSize \in Nat \ {0} /\ n - 1 \in Nat /\ p \in Nat /\ p <= n - 1
  BY BlockSizeAssumption
<1>2. n + BlockSize - 1 = BlockSize * 1 + (n - 1)
  BY <1>1
<1>3. (BlockSize * 1 + (n - 1)) \div BlockSize = 1 + ((n - 1) \div BlockSize)
  BY <1>1, DivAdd
<1>4. p \div BlockSize <= (n - 1) \div BlockSize
  BY <1>1, DivMonotonic
<1>5. p \div BlockSize \in Nat /\ (n - 1) \div BlockSize \in Nat
  BY <1>1, ModFacts
<1> QED
  BY <1>2, <1>3, <1>4, <1>5 DEF CeilDiv

LEMMA CeilDivNat ==
  ASSUME NEW n \in Nat, NEW w \in Nat \ {0}
  PROVE  CeilDiv(n, w) \in Nat
<1>1. n + w - 1 \in Nat
  OBVIOUS
<1> QED
  BY <1>1, ModFacts DEF CeilDiv

\* The block of a row, and the row's place in it.
LEMMA RowFacts ==
  ASSUME NEW table \in Seq(Nat), NEW n \in Nat, Len(table) = CeilDiv(n, BlockSize),
         NEW p \in 0..(n - 1)
  PROVE  /\ p \div BlockSize + 1 \in DOMAIN table
         /\ RowAt(table, p) \in Nat
         /\ BlockOf(RowAt(table, p)) = table[p \div BlockSize + 1]
         /\ RowAt(table, p) % BlockSize = p % BlockSize
<1> DEFINE i == p \div BlockSize + 1
           r == p % BlockSize
<1>1. BlockSize \in Nat \ {0} /\ p \in Nat
  BY BlockSizeAssumption
<1>2. i \in Nat /\ i >= 1 /\ i <= Len(table)
  <2>1. p \div BlockSize \in Nat /\ p \div BlockSize + 1 <= CeilDiv(n, BlockSize)
    BY BlocksCover
  <2> QED
    BY <2>1
<1>3. r \in 0..(BlockSize - 1)
  BY <1>1, ModFacts
<1>4. i \in DOMAIN table /\ table[i] \in Nat
  BY <1>2
<1> DEFINE b == table[i]
           a == b * BlockSize + r
<1> HIDE DEF i, r, b
<1>5. a \in Nat /\ a = BlockSize * b + r /\ b \in Int
  BY <1>1, <1>3, <1>4, SMTT(30) DEF b
<1> HIDE DEF a
<1>6. a % BlockSize = r /\ a \div BlockSize = b
  BY <1>1, <1>3, <1>5, DivUnique
<1> QED
  BY <1>4, <1>5, <1>6 DEF RowAt, BlockOf, i, r, a, b

LEMMA RowInSlots ==
  ASSUME NEW b \in Nat, NEW blocks \in Nat, b \in 0..(blocks - 1), NEW r \in 0..(BlockSize - 1)
  PROVE  b * BlockSize + r \in Slots(blocks)
<1>1. BlockSize \in Nat \ {0}
  BY BlockSizeAssumption
<1>2. (blocks - 1 - b) * BlockSize >= 0
  BY <1>1
<1>3. (blocks - 1 - b) * BlockSize = blocks * BlockSize - BlockSize - b * BlockSize
  BY <1>1
<1>4. b * BlockSize \in Nat /\ blocks * BlockSize \in Nat
  BY <1>1
<1> QED
  BY <1>1, <1>2, <1>3, <1>4 DEF Slots

LEMMA RowIsASlot ==
  ASSUME NEW table \in Seq(Nat), NEW n \in Nat, Len(table) = CeilDiv(n, BlockSize),
         NEW blocks \in Nat, \A i \in DOMAIN table : table[i] \in 0..(blocks - 1),
         NEW p \in 0..(n - 1)
  PROVE  RowAt(table, p) \in Slots(blocks)
<1> DEFINE i == p \div BlockSize + 1
           r == p % BlockSize
<1>1. i \in DOMAIN table
  BY RowFacts
<1>2. r \in 0..(BlockSize - 1)
  <2>1. p \in Nat
    OBVIOUS
  <2> QED
    BY <2>1, BlockSizeAssumption, ModFacts
<1> HIDE DEF i, r
<1>3. table[i] * BlockSize + r \in Slots(blocks)
  BY <1>1, <1>2, RowInSlots
<1> QED
  BY <1>3 DEF RowAt, i, r

\* A row determines the block and the place in the block.
LEMMA SameRow ==
  ASSUME NEW t1 \in Seq(Nat), NEW n1 \in Nat, Len(t1) = CeilDiv(n1, BlockSize), NEW p1 \in 0..(n1 - 1),
         NEW t2 \in Seq(Nat), NEW n2 \in Nat, Len(t2) = CeilDiv(n2, BlockSize), NEW p2 \in 0..(n2 - 1),
         RowAt(t1, p1) = RowAt(t2, p2)
  PROVE  /\ t1[p1 \div BlockSize + 1] = t2[p2 \div BlockSize + 1]
         /\ p1 \div BlockSize = p2 \div BlockSize => p1 = p2
<1>1. /\ BlockOf(RowAt(t1, p1)) = t1[p1 \div BlockSize + 1]
      /\ RowAt(t1, p1) % BlockSize = p1 % BlockSize
  BY RowFacts
<1>2. /\ BlockOf(RowAt(t2, p2)) = t2[p2 \div BlockSize + 1]
      /\ RowAt(t2, p2) % BlockSize = p2 % BlockSize
  BY RowFacts
<1>3. p1 % BlockSize = p2 % BlockSize
  BY <1>1, <1>2
<1>0. p1 \in Nat /\ p2 \in Nat
  OBVIOUS
<1>4. /\ p1 = BlockSize * (p1 \div BlockSize) + (p1 % BlockSize)
      /\ p2 = BlockSize * (p2 \div BlockSize) + (p2 % BlockSize)
  BY <1>0, BlockSizeAssumption, ModFacts
<1> QED
  BY <1>1, <1>2, <1>3, <1>4

LEMMA RowsInPlace ==
  ASSUME TablesInv, NEW s \in Seqs, NEW p \in 0..(len[s] - 1)
  PROVE  /\ len[s] \in Nat /\ len[s] <= MaxLen
         /\ tables[s] \in Seq(Nat) /\ Len(tables[s]) = CeilDiv(len[s], BlockSize)
         /\ BlocksOf(s) \in Nat
         /\ Row(s, p) = RowAt(tables[s], p) /\ Row(s, p) \in Slots(BlocksOf(s))
<1>1. /\ len[s] \in Nat /\ len[s] <= MaxLen
      /\ tables[s] \in Seq(Nat) /\ Len(tables[s]) = CeilDiv(len[s], BlockSize)
      /\ \A i \in DOMAIN tables[s] : tables[s][i] \in 0..(BlocksOf(s) - 1)
  BY BoundsAssumption DEF TablesInv
<1>2. BlocksOf(s) \in Nat
  BY BoundsAssumption DEF BlocksOf
<1>3. Row(s, p) = RowAt(tables[s], p)
  BY DEF Row, RowAt
<1>4. RowAt(tables[s], p) \in Slots(BlocksOf(s))
  BY <1>1, <1>2, RowIsASlot
<1> QED
  BY <1>1, <1>2, <1>3, <1>4

\* No row is two tokens'.
LEMMA RowsApart ==
  ASSUME TablesInv, NEW s \in Seqs, NEW p \in 0..(len[s] - 1),
         NEW r \in Seqs, NEW q \in 0..(len[r] - 1),
         OnCpu(s) <=> OnCpu(r), Row(s, p) = Row(r, q)
  PROVE  s = r /\ p = q
<1> DEFINE i == p \div BlockSize + 1
           j == q \div BlockSize + 1
<1>1. /\ len[s] \in Nat /\ tables[s] \in Seq(Nat) /\ Len(tables[s]) = CeilDiv(len[s], BlockSize)
      /\ len[r] \in Nat /\ tables[r] \in Seq(Nat) /\ Len(tables[r]) = CeilDiv(len[r], BlockSize)
      /\ RowAt(tables[s], p) = RowAt(tables[r], q)
  BY RowsInPlace
<1>2. i \in DOMAIN tables[s] /\ j \in DOMAIN tables[r]
  BY <1>1, RowFacts
<1>3. /\ tables[s][i] = tables[r][j]
      /\ p \div BlockSize = q \div BlockSize => p = q
  <2>1. PICK t1, n1 : t1 = tables[s] /\ n1 = len[s]
    OBVIOUS
  <2>2. PICK t2, n2 : t2 = tables[r] /\ n2 = len[r]
    OBVIOUS
  <2>3. /\ n1 \in Nat /\ t1 \in Seq(Nat) /\ Len(t1) = CeilDiv(n1, BlockSize) /\ p \in 0..(n1 - 1)
        /\ n2 \in Nat /\ t2 \in Seq(Nat) /\ Len(t2) = CeilDiv(n2, BlockSize) /\ q \in 0..(n2 - 1)
        /\ RowAt(t1, p) = RowAt(t2, q)
    BY <1>1, <2>1, <2>2 DEF RowAt
  <2>4. /\ t1[p \div BlockSize + 1] = t2[q \div BlockSize + 1]
        /\ p \div BlockSize = q \div BlockSize => p = q
    BY <2>3, SameRow
  <2> QED
    BY <2>1, <2>2, <2>4
<1>4. p \div BlockSize \in Nat /\ q \div BlockSize \in Nat
  BY <1>1, BlocksCover
<1>5. s = r /\ i = j
  <2> HIDE DEF i, j
  <2> QED
    BY <1>2, <1>3 DEF TablesInv
<1>6. p \div BlockSize = q \div BlockSize
  BY <1>4, <1>5
<1> QED
  BY <1>3, <1>5, <1>6

LEMMA BatchFacts ==
  ASSUME TablesInv, CallInv, call # Idle
  PROVE  /\ Batch \subseteq Seqs /\ call.tokens \in Nat /\ call.tokens >= 1
         /\ call.layer \in 1..config.size
         /\ \A s \in Batch : /\ ~OnCpu(s) /\ InBatch(s) /\ len[s] \in Nat /\ call.tokens <= len[s]
                             /\ NewPositions(s) \subseteq 0..(len[s] - 1)
                             /\ len[s] - call.tokens \in Nat
<1>1. call \in Calls /\ call.tokens >= 1 /\ call.layer \in 1..config.size
  BY DEF CallInv
<1>2. call.tokens \in Nat /\ call.batch \in Seq(Seqs)
  BY <1>1 DEF Calls
<1>3. Batch \subseteq Seqs
  BY <1>2 DEF Batch, Range
<1>4. ASSUME NEW s \in Batch
      PROVE  /\ ~OnCpu(s) /\ InBatch(s) /\ len[s] \in Nat /\ call.tokens <= len[s]
             /\ NewPositions(s) \subseteq 0..(len[s] - 1) /\ len[s] - call.tokens \in Nat
  <2>1. len[s] \in Nat /\ s \in Seqs
    BY <1>3, BoundsAssumption DEF TablesInv
  <2>2. place[s] \in {"new", "running"} /\ call.tokens <= len[s]
    BY DEF CallInv
  <2> QED
    BY <1>1, <1>2, <2>1, <2>2 DEF OnCpu, InBatch, NewPositions
<1> QED
  BY <1>1, <1>2, <1>3, <1>4

LEMMA NewTokensAre ==
  ASSUME NEW x
  PROVE  x \in NewTokens <=> \E s \in Batch : \E p \in NewPositions(s) : x = <<s, p>>
BY DEF NewTokens

\* Storing the new rows writes each new token into its row and no other's.
LEMMA StoredRows ==
  ASSUME TablesInv, CallInv, call # Idle, NEW s \in Seqs, ~OnCpu(s), NEW p \in 0..(len[s] - 1),
         NEW rows, Row(s, p) \in DOMAIN rows, NEW fmt, NEW scale
  PROVE  Storing(rows, fmt, scale)[Row(s, p)] =
           IF s \in Batch /\ p \in NewPositions(s)
           THEN [tok |-> <<s, p>>, fmt |-> fmt, scale |-> scale] ELSE rows[Row(s, p)]
<1>1. ASSUME NEW x \in NewTokens, Row(x[1], x[2]) = Row(s, p) PROVE x = <<s, p>>
  <2>0. PICK r \in Batch : \E q \in NewPositions(r) : x = <<r, q>>
    BY NewTokensAre
  <2>1. PICK q \in NewPositions(r) : x = <<r, q>>
    BY <2>0
  <2>2. r \in Seqs /\ ~OnCpu(r) /\ q \in 0..(len[r] - 1)
    BY BatchFacts
  <2>3. Row(r, q) = Row(s, p)
    BY <1>1, <2>1
  <2> QED
    BY <2>1, <2>2, <2>3, RowsApart
<1> DEFINE t == Row(s, p)
<1>2. CASE s \in Batch /\ p \in NewPositions(s)
  <2>1. <<s, p>> \in NewTokens
    BY <1>2, NewTokensAre
  <2>2. (CHOOSE x \in NewTokens : Row(x[1], x[2]) = t) = <<s, p>>
    BY <1>1, <2>1
  <2>3. t \in SlotMapping
    BY <2>1 DEF SlotMapping
  <2>4. Storing(rows, fmt, scale)[t] = NewCell(t, fmt, scale)
    BY <2>3 DEF Storing
  <2> QED
    BY <1>2, <2>2, <2>4 DEF NewCell
<1>3. CASE ~(s \in Batch /\ p \in NewPositions(s))
  <2>1. <<s, p>> \notin NewTokens
    BY <1>3, NewTokensAre
  <2>2. t \notin SlotMapping
    BY <1>1, <2>1 DEF SlotMapping
  <2> QED
    BY <1>3, <2>2 DEF Storing
<1> QED
  BY <1>2, <1>3

\* Stored rows are cells again.
LEMMA StoringCells ==
  ASSUME TablesInv, CallInv, call # Idle, NEW rows \in [Slots(NumBlocks) -> Cells],
         NEW fmt \in {"half", "fp8", "q3", "q4"}, NEW scale \in 1..MaxScale
  PROVE  Storing(rows, fmt, scale) \in [Slots(NumBlocks) -> Cells]
<1> SUFFICES ASSUME NEW t \in SlotMapping PROVE NewCell(t, fmt, scale) \in Cells
  BY DEF Storing
<1>1. PICK x \in NewTokens : Row(x[1], x[2]) = t
  BY DEF SlotMapping
<1> DEFINE y == CHOOSE y \in NewTokens : Row(y[1], y[2]) = t
<1>2. y \in NewTokens
  BY <1>1
<1> HIDE DEF y
<1>3. PICK s \in Batch : \E p \in NewPositions(s) : y = <<s, p>>
  BY <1>2, NewTokensAre
<1>3a. PICK p \in NewPositions(s) : y = <<s, p>>
  BY <1>3
<1>4. s \in Seqs /\ p \in 0..(len[s] - 1)
  BY BatchFacts
<1>5. len[s] \in Nat /\ len[s] <= MaxLen
  BY <1>4, RowsInPlace
<1>6. y \in Tokens
  BY <1>3a, <1>4, <1>5, BoundsAssumption DEF Tokens
<1> QED
  BY <1>6 DEF NewCell, Cells, y

-------------------------------------------------------------------------------
(* Views: what a layer sees of the caches, before and after it stores.       *)

Views == [std : Cache(NumBlocks), scale : 1..MaxScale,
          tq : Cache(NumBlocks) \cup {EmptyCache(0)}, hasTq : BOOLEAN]
IsView(w) == w \in Views /\ (w.hasTq => w.tq \in Cache(NumBlocks))

ViewHolds(w, s, table, n) ==
  StdHolds(w.std, w.scale, s, table, n) /\ (w.hasTq => TqHolds(w.tq, s, table, n))

\* The rows of the sequences which are not in the batch stay.
SameRows(rows, new) ==
  \A s \in Seqs \ Batch : ~OnCpu(s) =>
    \A p \in 0..(len[s] - 1) : new[Row(s, p)] = rows[Row(s, p)]
Keeps(u, w) ==
  /\ IsView(w) /\ w.scale = u.scale /\ w.hasTq = u.hasTq
  /\ SameRows(u.std.k, w.std.k) /\ SameRows(u.std.v, w.std.v)
  /\ w.hasTq => SameRows(u.tq.k, w.tq.k) /\ SameRows(u.tq.v, w.tq.v)

\* Cells become new cells: other sequences keep theirs, and the rows of the batch,
\* which held the tokens of earlier calls, hold those of this call too.
Grows(rows, new, fmt, scale) ==
  /\ new \in [Slots(NumBlocks) -> Cells]
  /\ SameRows(rows, new)
  /\ \A s \in Batch : \A table, n :
       /\ table = tables[s] /\ n = len[s]
       /\ HasRows(rows, s, table, n - call.tokens, fmt, scale)
       => HasRows(new, s, table, n, fmt, scale)

LEMMA StoringGrows ==
  ASSUME TablesInv, CallInv, call # Idle, NEW rows \in [Slots(NumBlocks) -> Cells],
         NEW fmt \in {"half", "fp8", "q3", "q4"}, NEW scale \in 1..MaxScale,
         NEW new, new = Storing(rows, fmt, scale)
  PROVE  Grows(rows, new, fmt, scale)
<1>1. new \in [Slots(NumBlocks) -> Cells]
  BY StoringCells
<1>2. ASSUME NEW s \in Seqs \ Batch, ~OnCpu(s), NEW p \in 0..(len[s] - 1)
      PROVE  new[Row(s, p)] = rows[Row(s, p)]
  <2>1. Row(s, p) \in Slots(NumBlocks)
    BY <1>2, RowsInPlace DEF BlocksOf
  <2>2. Storing(rows, fmt, scale)[Row(s, p)] = rows[Row(s, p)]
    BY <1>2, <2>1, StoredRows
  <2> QED
    BY <2>2
<1>3. ASSUME NEW s \in Batch, NEW table, NEW n, table = tables[s], n = len[s],
             HasRows(rows, s, table, n - call.tokens, fmt, scale)
      PROVE  HasRows(new, s, table, n, fmt, scale)
  <2>1. s \in Seqs /\ ~OnCpu(s) /\ n \in Nat /\ call.tokens \in Nat
    BY <1>3, BatchFacts
  <2>2. ASSUME NEW p \in 0..(n - 1)
        PROVE  /\ new[RowAt(table, p)].tok = <<s, p>> /\ new[RowAt(table, p)].fmt = fmt
               /\ new[RowAt(table, p)].scale \in 1..scale
    <3>1. p \in 0..(len[s] - 1)
      BY <1>3
    <3>2. Row(s, p) = RowAt(table, p) /\ Row(s, p) \in Slots(NumBlocks)
      BY <1>3, <2>1, <3>1, RowsInPlace DEF BlocksOf, RowAt, Row
    <3>3. Storing(rows, fmt, scale)[Row(s, p)] =
            IF s \in Batch /\ p \in NewPositions(s)
            THEN [tok |-> <<s, p>>, fmt |-> fmt, scale |-> scale] ELSE rows[Row(s, p)]
      BY <2>1, <3>1, <3>2, StoredRows
    <3>4. CASE p \in NewPositions(s)
      BY <3>2, <3>3, <3>4
    <3>5. CASE p \notin NewPositions(s)
      <4>1. p \in 0..(n - call.tokens - 1)
        BY <1>3, <2>1, <3>5 DEF NewPositions
      <4> QED
        BY <1>3, <3>2, <3>3, <3>5, <4>1 DEF HasRows
    <3> QED
      BY <3>4, <3>5
  <2> QED
    BY <2>2 DEF HasRows
<1> QED
  BY <1>1, <1>2, <1>3 DEF Grows, SameRows

\* Stored twice is stored.
LEMMA GrowsAgain ==
  ASSUME TablesInv, CallInv, call # Idle, NEW rows, NEW new, NEW newer, NEW fmt, NEW scale,
         Grows(rows, new, fmt, scale), Grows(new, newer, fmt, scale)
  PROVE  Grows(rows, newer, fmt, scale)
<1>1. SameRows(rows, newer)
  BY DEF Grows, SameRows
<1>2. ASSUME NEW s \in Batch, NEW table, NEW n, table = tables[s], n = len[s],
             HasRows(rows, s, table, n - call.tokens, fmt, scale)
      PROVE  HasRows(newer, s, table, n, fmt, scale)
  <2>1. HasRows(new, s, table, n, fmt, scale)
    BY <1>2 DEF Grows
  <2>2. HasRows(new, s, table, n - call.tokens, fmt, scale)
    <3>1. n \in Nat /\ call.tokens \in Nat
      BY <1>2, BatchFacts
    <3> QED
      BY <2>1, <3>1 DEF HasRows
  <2> QED
    BY <1>2, <2>2 DEF Grows
<1> QED
  BY <1>1, <1>2 DEF Grows

\* What a store does: it keeps the rows of the other sequences, and stores those of
\* the call wherever the mode keeps them.
Written(u, w) ==
  /\ Keeps(u, w)
  /\ \A s \in Batch : \A table, n :
       /\ table = tables[s] /\ n = len[s]
       /\ ViewHolds(u, s, table, n - call.tokens)
       => ViewHolds(w, s, table, n)

LEMMA WrittenByGrowth ==
  ASSUME TablesInv, CallInv, call # Idle, NEW u, IsView(u), NEW w, IsView(w),
         w.scale = u.scale, w.hasTq = u.hasTq, NEW fmt, fmt = StdFormat,
         config.turboquant \in {"none", "turbo8", "turbo4", "turbo3"},
         InStd => Grows(u.std.k, w.std.k, fmt, u.scale) /\ Grows(u.std.v, w.std.v, fmt, u.scale),
         ~InStd => w.std = u.std,
         w.hasTq /\ config.turboquant = "turbo4" => Grows(u.tq.k, w.tq.k, "q4", 1),
         w.hasTq /\ config.turboquant = "turbo3" => Grows(u.tq.k, w.tq.k, "q3", 1),
         w.hasTq /\ InStd => w.tq.k = u.tq.k,
         w.hasTq /\ config.turboquant # "none" => Grows(u.tq.v, w.tq.v, "q4", 1),
         w.hasTq /\ config.turboquant = "none" => w.tq.v = u.tq.v
  PROVE  Written(u, w)
<1>1. SameRows(u.std.k, w.std.k) /\ SameRows(u.std.v, w.std.v)
  <2>1. CASE InStd
    BY <2>1 DEF Grows
  <2>2. CASE ~InStd
    BY <2>2 DEF SameRows
  <2> QED
    BY <2>1, <2>2
<1>2. w.hasTq => SameRows(u.tq.k, w.tq.k) /\ SameRows(u.tq.v, w.tq.v)
  <2> SUFFICES ASSUME w.hasTq PROVE SameRows(u.tq.k, w.tq.k) /\ SameRows(u.tq.v, w.tq.v)
    OBVIOUS
  <2>1. SameRows(u.tq.k, w.tq.k)
    <3>1. CASE InStd
      BY <3>1 DEF SameRows
    <3>2. CASE ~InStd
      BY <3>2 DEF Grows, InStd
    <3> QED
      BY <3>1, <3>2
  <2>2. SameRows(u.tq.v, w.tq.v)
    <3>1. CASE config.turboquant = "none"
      BY <3>1 DEF SameRows
    <3>2. CASE config.turboquant # "none"
      BY <3>2 DEF Grows
    <3> QED
      BY <3>1, <3>2
  <2> QED
    BY <2>1, <2>2
<1>3. ASSUME NEW s \in Batch, NEW table, NEW n, table = tables[s], n = len[s],
             ViewHolds(u, s, table, n - call.tokens)
      PROVE  ViewHolds(w, s, table, n)
  <2>1. StdHolds(w.std, w.scale, s, table, n)
    <3> SUFFICES ASSUME InStd
                 PROVE  HasRows(w.std.k, s, table, n, fmt, w.scale) /\ HasRows(w.std.v, s, table, n, fmt, w.scale)
      BY DEF StdHolds
    <3>1. /\ HasRows(u.std.k, s, table, n - call.tokens, fmt, u.scale)
          /\ HasRows(u.std.v, s, table, n - call.tokens, fmt, u.scale)
      BY <1>3 DEF ViewHolds, StdHolds
    <3> QED
      BY <1>3, <3>1 DEF Grows
  <2>2. ASSUME w.hasTq PROVE TqHolds(w.tq, s, table, n)
    <3>1. TqHolds(u.tq, s, table, n - call.tokens)
      BY <1>3, <2>2 DEF ViewHolds
    <3>2. ASSUME config.turboquant = "turbo4" PROVE HasRows(w.tq.k, s, table, n, "q4", 1)
      BY <1>3, <2>2, <3>1, <3>2 DEF Grows, TqHolds
    <3>3. ASSUME config.turboquant = "turbo3" PROVE HasRows(w.tq.k, s, table, n, "q3", 1)
      BY <1>3, <2>2, <3>1, <3>3 DEF Grows, TqHolds
    <3>4. ASSUME config.turboquant # "none" PROVE HasRows(w.tq.v, s, table, n, "q4", 1)
      BY <1>3, <2>2, <3>1, <3>4 DEF Grows, TqHolds
    <3> QED
      BY <3>2, <3>3, <3>4 DEF TqHolds
  <2> QED
    BY <2>1, <2>2 DEF ViewHolds
<1> QED
  BY <1>1, <1>2, <1>3 DEF Written, Keeps

LEMMA StdFormats ==
  StdFormat \in {"half", "fp8", "q3", "q4"}
BY DEF StdFormat

LEMMA CacheParts ==
  ASSUME NEW c
  PROVE  /\ c \in Cache(NumBlocks) => /\ c = [k |-> c.k, v |-> c.v]
                                      /\ c.k \in [Slots(NumBlocks) -> Cells]
                                      /\ c.v \in [Slots(NumBlocks) -> Cells]
         /\ \A k, v \in [Slots(NumBlocks) -> Cells] : [k |-> k, v |-> v] \in Cache(NumBlocks)
BY DEF Cache

\* The store into the layer's own cache.
LEMMA StdStore ==
  ASSUME TablesInv, CallInv, call # Idle, NEW u, IsView(u), NEW w, w = StoredInCache(u),
         NEW fmt, fmt = StdFormat
  PROVE  /\ IsView(w) /\ w.scale = u.scale /\ w.hasTq = u.hasTq /\ w.tq = u.tq
         /\ Grows(u.std.k, w.std.k, fmt, u.scale) /\ Grows(u.std.v, w.std.v, fmt, u.scale)
<1>1. PICK k, v : k = Storing(u.std.k, fmt, u.scale) /\ v = Storing(u.std.v, fmt, u.scale)
  OBVIOUS
<1>2. w = [u EXCEPT !.std = [k |-> k, v |-> v]]
  BY <1>1 DEF StoredInCache
<1>3. u \in Views /\ u.std \in Cache(NumBlocks) /\ u.scale \in 1..MaxScale
  BY DEF IsView, Views
<1>4. u.std.k \in [Slots(NumBlocks) -> Cells] /\ u.std.v \in [Slots(NumBlocks) -> Cells]
  BY <1>3, CacheParts
<1>5. fmt \in {"half", "fp8", "q3", "q4"}
  BY StdFormats
<1>6. Grows(u.std.k, k, fmt, u.scale) /\ Grows(u.std.v, v, fmt, u.scale)
  BY <1>1, <1>3, <1>4, <1>5, StoringGrows
<1>7. [k |-> k, v |-> v] \in Cache(NumBlocks)
  BY <1>6, CacheParts DEF Grows
<1>8. w.std = [k |-> k, v |-> v] /\ w.scale = u.scale /\ w.tq = u.tq /\ w.hasTq = u.hasTq /\ w \in Views
  BY <1>2, <1>3, <1>7 DEF Views
<1>9. IsView(w)
  BY <1>8 DEF IsView
<1> QED
  BY <1>6, <1>8, <1>9

LEMMA ValueStore ==
  ASSUME TablesInv, CallInv, call # Idle, NEW u, IsView(u), u.hasTq, NEW w,
         w = FlashTqStoreK8V4Metal(u)
  PROVE  /\ IsView(w) /\ w.scale = u.scale /\ w.hasTq = u.hasTq /\ w.std = u.std
         /\ w.tq.k = u.tq.k /\ Grows(u.tq.v, w.tq.v, "q4", 1)
<1>1. PICK v : v = Storing(u.tq.v, "q4", 1)
  OBVIOUS
<1>2. w = [u EXCEPT !.tq.v = v]
  BY <1>1 DEF FlashTqStoreK8V4Metal
<1>3. u \in Views /\ u.tq \in Cache(NumBlocks) /\ 1 \in 1..MaxScale
  BY BoundsAssumption DEF IsView
<1>4. u.tq.k \in [Slots(NumBlocks) -> Cells] /\ u.tq.v \in [Slots(NumBlocks) -> Cells]
  BY <1>3, CacheParts
<1>5. w = [u EXCEPT !.tq = [k |-> u.tq.k, v |-> v]]
  BY <1>2, <1>3 DEF Cache
<1>6. Grows(u.tq.v, v, "q4", 1)
  BY <1>1, <1>3, <1>4, StoringGrows
<1>7. [k |-> u.tq.k, v |-> v] \in Cache(NumBlocks)
  BY <1>4, <1>6, CacheParts DEF Grows
<1>8. /\ w.tq = [k |-> u.tq.k, v |-> v] /\ w.scale = u.scale /\ w.std = u.std
      /\ w.hasTq = u.hasTq /\ w \in Views
  BY <1>3, <1>5, <1>7 DEF Views
<1>9. IsView(w)
  BY <1>7, <1>8 DEF IsView
<1> QED
  BY <1>6, <1>8, <1>9

LEMMA KeyAndValueStore ==
  ASSUME TablesInv, CallInv, call # Idle, NEW u, IsView(u), u.hasTq, NEW w,
         w = FlashTqStoreK8V4(u), NEW fmt, fmt = StdFormat
  PROVE  /\ IsView(w) /\ w.scale = u.scale /\ w.hasTq = u.hasTq
         /\ Grows(u.std.k, w.std.k, fmt, u.scale) /\ w.std.v = u.std.v
         /\ w.tq.k = u.tq.k /\ Grows(u.tq.v, w.tq.v, "q4", 1)
<1>1. PICK k, v : k = Storing(u.std.k, fmt, u.scale) /\ v = Storing(u.tq.v, "q4", 1)
  OBVIOUS
<1>2. w = [u EXCEPT !.std.k = k, !.tq.v = v]
  BY <1>1 DEF FlashTqStoreK8V4
<1>3. u \in Views /\ u.tq \in Cache(NumBlocks) /\ u.std \in Cache(NumBlocks)
      /\ u.scale \in 1..MaxScale /\ 1 \in 1..MaxScale
  BY BoundsAssumption DEF IsView, Views
<1>4. /\ u.tq.k \in [Slots(NumBlocks) -> Cells] /\ u.tq.v \in [Slots(NumBlocks) -> Cells]
      /\ u.std.k \in [Slots(NumBlocks) -> Cells] /\ u.std.v \in [Slots(NumBlocks) -> Cells]
  BY <1>3, CacheParts
<1>5. w = [u EXCEPT !.std = [k |-> k, v |-> u.std.v], !.tq = [k |-> u.tq.k, v |-> v]]
  BY <1>2, <1>3 DEF Cache, Views
<1>6. Grows(u.std.k, k, fmt, u.scale) /\ Grows(u.tq.v, v, "q4", 1)
  BY <1>1, <1>3, <1>4, StoringGrows, StdFormats
<1>7. [k |-> k, v |-> u.std.v] \in Cache(NumBlocks) /\ [k |-> u.tq.k, v |-> v] \in Cache(NumBlocks)
  BY <1>4, <1>6, CacheParts DEF Grows
<1>8. /\ w.std = [k |-> k, v |-> u.std.v] /\ w.tq = [k |-> u.tq.k, v |-> v]
      /\ w.scale = u.scale /\ w.hasTq = u.hasTq /\ w \in Views
  BY <1>3, <1>5, <1>7 DEF Views
<1>9. IsView(w)
  BY <1>7, <1>8 DEF IsView
<1>10. w.std.k = k /\ w.std.v = u.std.v /\ w.tq.k = u.tq.k /\ w.tq.v = v
  BY <1>8
<1> QED
  BY <1>6, <1>8, <1>9, <1>10

LEMMA Modes ==
  ASSUME LayersInv
  PROVE  config.turboquant \in {"none", "turbo8", "turbo4", "turbo3"}
BY DEF LayersInv, Configs

\* Where TurboQuant is off the store into the cache is all there is to do.
LEMMA StoredInCacheWrites ==
  ASSUME TablesInv, CallInv, call # Idle, config.turboquant = "none",
         NEW u, IsView(u), NEW w, w = StoredInCache(u)
  PROVE  Written(u, w)
<1>1. PICK fmt : fmt = StdFormat
  OBVIOUS
<1>2. /\ IsView(w) /\ w.scale = u.scale /\ w.hasTq = u.hasTq /\ w.tq = u.tq
      /\ Grows(u.std.k, w.std.k, fmt, u.scale) /\ Grows(u.std.v, w.std.v, fmt, u.scale)
  BY <1>1, StdStore
<1>3. InStd
  BY DEF InStd
<1> QED
  BY <1>1, <1>2, <1>3, WrittenByGrowth

\* The stores of a build with native kernels, given the store of each mode.
LEMMA ModeWrites ==
  ASSUME TablesInv, CallInv, LayersInv, call # Idle, NEW u, IsView(u), NEW w,
         config.turboquant = "none" => w = StoredInCache(u),
         config.turboquant = "turbo8" =>
           \E c : c = StoredInCache(u) /\ IF c.hasTq THEN w = FlashTqStoreK8V4(c) \/ w = FlashTqStoreK8V4Metal(c)
                                          ELSE w = c,
         config.turboquant = "turbo4" => w = IF u.hasTq THEN FlashTq4Store(u) ELSE u,
         config.turboquant = "turbo3" => w = IF u.hasTq THEN FlashTq3Store(u) ELSE u
  PROVE  Written(u, w)
<1>1. PICK fmt : fmt = StdFormat
  OBVIOUS
<1>2. CASE config.turboquant = "none"
  BY <1>2, StoredInCacheWrites
<1>3. CASE config.turboquant = "turbo8"
  <2>1. PICK c : c = StoredInCache(u) /\ IF c.hasTq THEN w = FlashTqStoreK8V4(c) \/ w = FlashTqStoreK8V4Metal(c)
                                         ELSE w = c
    BY <1>3
  <2>2. /\ IsView(c) /\ c.scale = u.scale /\ c.hasTq = u.hasTq /\ c.tq = u.tq
        /\ Grows(u.std.k, c.std.k, fmt, u.scale) /\ Grows(u.std.v, c.std.v, fmt, u.scale)
    BY <1>1, <2>1, StdStore
  <2>3. CASE ~c.hasTq
    <3>1. w = c
      BY <2>1, <2>3
    <3> QED
      BY <1>1, <1>3, <2>2, <2>3, <3>1, WrittenByGrowth DEF InStd
  <2>4. CASE c.hasTq
    <3>1. /\ IsView(w) /\ w.scale = c.scale /\ w.hasTq = c.hasTq
          /\ Grows(c.std.k, w.std.k, fmt, c.scale) \/ w.std.k = c.std.k
          /\ w.std.v = c.std.v
          /\ w.tq.k = c.tq.k /\ Grows(c.tq.v, w.tq.v, "q4", 1)
      <4>1. CASE w = FlashTqStoreK8V4(c)
        BY <1>1, <2>2, <2>4, <4>1, KeyAndValueStore, ZenonT(40)
      <4>2. CASE w = FlashTqStoreK8V4Metal(c)
        BY <2>2, <2>4, <4>2, ValueStore, ZenonT(40)
      <4> QED
        BY <2>1, <2>4, <4>1, <4>2
    <3>2. Grows(u.std.k, w.std.k, fmt, u.scale)
      <4>1. CASE w.std.k = c.std.k
        BY <2>2, <4>1
      <4>2. CASE Grows(c.std.k, w.std.k, fmt, c.scale)
        BY <2>2, <4>2, GrowsAgain
      <4> QED
        BY <3>1, <4>1, <4>2
    <3> QED
      BY <1>1, <1>3, <2>2, <2>4, <3>1, <3>2, WrittenByGrowth DEF InStd
  <2> QED
    BY <2>3, <2>4
<1>4. ASSUME NEW kfmt \in {"q3", "q4"}, u.hasTq, ~InStd,
             config.turboquant = "turbo4" => kfmt = "q4", config.turboquant = "turbo3" => kfmt = "q3",
             w = [u EXCEPT !.tq = [k |-> Storing(u.tq.k, kfmt, 1), v |-> Storing(u.tq.v, "q4", 1)]]
      PROVE  Written(u, w)
  <2>4. PICK k, v : k = Storing(u.tq.k, kfmt, 1) /\ v = Storing(u.tq.v, "q4", 1)
    OBVIOUS
  <2>5. w = [u EXCEPT !.tq = [k |-> k, v |-> v]]
    BY <1>4, <2>4
  <2>6. u \in Views /\ u.tq \in Cache(NumBlocks) /\ 1 \in 1..MaxScale
    BY <1>4, BoundsAssumption DEF IsView
  <2>7. u.tq.k \in [Slots(NumBlocks) -> Cells] /\ u.tq.v \in [Slots(NumBlocks) -> Cells]
    BY <2>6, CacheParts
  <2>8. Grows(u.tq.k, k, kfmt, 1) /\ Grows(u.tq.v, v, "q4", 1)
    BY <2>4, <2>6, <2>7, StoringGrows
  <2>9. [k |-> k, v |-> v] \in Cache(NumBlocks)
    BY <2>8, CacheParts DEF Grows
  <2>10. /\ w.tq = [k |-> k, v |-> v] /\ w.scale = u.scale /\ w.std = u.std
         /\ w.hasTq = u.hasTq /\ w \in Views
    BY <2>5, <2>6, <2>9 DEF Views
  <2>11. IsView(w) /\ w.tq.k = k /\ w.tq.v = v
    BY <2>9, <2>10 DEF IsView
  <2>1. /\ IsView(w) /\ w.scale = u.scale /\ w.hasTq = u.hasTq /\ w.std = u.std
        /\ Grows(u.tq.k, w.tq.k, kfmt, 1) /\ Grows(u.tq.v, w.tq.v, "q4", 1)
    BY <2>8, <2>10, <2>11
  <2>2. config.turboquant # "none"
    BY <1>4 DEF InStd
  <2>3. config.turboquant \in {"none", "turbo8", "turbo4", "turbo3"}
    BY Modes
  <2> QED
    BY <1>1, <1>4, <2>1, <2>2, <2>3, WrittenByGrowth
<1>5. CASE config.turboquant = "turbo4"
  <2>1. CASE u.hasTq
    BY <1>4, <1>5, <2>1 DEF FlashTq4Store, InStd
  <2>2. CASE ~u.hasTq
    BY <1>1, <1>5, <2>2, WrittenByGrowth DEF InStd
  <2> QED
    BY <2>1, <2>2
<1>6. CASE config.turboquant = "turbo3"
  <2>1. CASE u.hasTq
    BY <1>4, <1>6, <2>1 DEF FlashTq3Store, InStd
  <2>2. CASE ~u.hasTq
    BY <1>1, <1>6, <2>2, WrittenByGrowth DEF InStd
  <2> QED
    BY <2>1, <2>2
<1> QED
  BY <1>2, <1>3, <1>5, <1>6, Modes

LEMMA FlashWritesAll ==
  ASSUME TablesInv, CallInv, LayersInv, call # Idle, NEW u, IsView(u), NEW w, w = FlashWrites(u)
  PROVE  Written(u, w)
<1>1. PICK c : c = StoredInCache(u)
  OBVIOUS
<1>2. config.turboquant = "turbo8" => w = IF c.hasTq THEN FlashTqStoreK8V4(c) ELSE c
  BY <1>1 DEF FlashWrites, FlashReshapeAndCache, WithTurboquantLayer
<1>3. config.turboquant = "none" => w = StoredInCache(u)
  BY DEF FlashWrites, FlashReshapeAndCache
<1>4. config.turboquant = "turbo4" => w = IF u.hasTq THEN FlashTq4Store(u) ELSE u
  BY DEF FlashWrites, WithTurboquantLayer
<1>5. config.turboquant = "turbo3" => w = IF u.hasTq THEN FlashTq3Store(u) ELSE u
  BY DEF FlashWrites, WithTurboquantLayer
<1> QED
  BY <1>1, <1>2, <1>3, <1>4, <1>5, ModeWrites

LEMMA MetalWritesAll ==
  ASSUME TablesInv, CallInv, LayersInv, call # Idle, NEW u, IsView(u), NEW w, w = MetalWrites(u)
  PROVE  Written(u, w)
<1>1. PICK c : c = StoredInCache(u)
  OBVIOUS
<1>2. config.turboquant = "turbo8" => w = IF c.hasTq THEN FlashTqStoreK8V4Metal(c) ELSE c
  BY <1>1 DEF MetalWrites, FlashReshapeAndCacheMetal, WithTurboquantLayer
<1>3. config.turboquant = "none" => w = StoredInCache(u)
  BY DEF MetalWrites, FlashReshapeAndCacheMetal
<1>4. config.turboquant = "turbo4" => w = IF u.hasTq THEN FlashTq4Store(u) ELSE u
  BY DEF MetalWrites, WithTurboquantLayer, FlashTq4StoreMetal
<1>5. config.turboquant = "turbo3" => w = IF u.hasTq THEN FlashTq3Store(u) ELSE u
  BY DEF MetalWrites, WithTurboquantLayer, FlashTq3StoreMetal
<1> QED
  BY <1>1, <1>2, <1>3, <1>4, <1>5, ModeWrites

-------------------------------------------------------------------------------
(* Parts of a sequence, laid end to end, are the sequence.                   *)

\* Parts of a sequence that end at some places, or are of a size but for the last.
EndingAt(parts, seq, n, ends) ==
  parts = [i \in 1..n |-> SubSeq(seq, ends[i - 1] + 1, ends[i])]
OfSize(parts, seq, n, size) ==
  parts = [i \in 1..n |-> SubSeq(seq, (i - 1) * size + 1, Min({i * size, Len(seq)}))]

LEMMA PartsAreTheWhole ==
  ASSUME NEW S, NEW seq \in Seq(S), NEW n \in Nat \ {0},
         NEW ends \in [0..n -> 0..Len(seq)], ends[0] = 0, ends[n] = Len(seq),
         \A i \in 1..n : ends[i - 1] <= ends[i],
         NEW parts, EndingAt(parts, seq, n, ends)
  PROVE  FlattenSeq(parts) = seq
<1> DEFINE whole == [i \in 1..n |-> SubSeq(seq, 1, ends[i])]
           Solves(f) == f = [i \in 1..n |-> IF i = 1 THEN parts[i] ELSE f[i - 1] \o parts[i]]
<1>1. Len(parts) = n /\ n # 0
  BY DEF EndingAt
<1>2. \A i \in 1..n : parts[i] = SubSeq(seq, ends[i - 1] + 1, ends[i])
  BY DEF EndingAt
<1>3. \A i \in 0..n : ends[i] \in 0..Len(seq)
  OBVIOUS
<1>4. ASSUME NEW i \in 1..n
      PROVE  whole[i] = IF i = 1 THEN parts[i] ELSE whole[i - 1] \o parts[i]
  <2>1. whole[i] = SubSeq(seq, 1, ends[i])
    OBVIOUS
  <2>2. CASE i = 1
    <3>1. 1 \in 1..n /\ 1 - 1 = 0 /\ 0 + 1 = 1
      BY <2>2
    <3>2. parts[1] = SubSeq(seq, ends[1 - 1] + 1, ends[1])
      BY <1>2, <3>1, Zenon
    <3>3. ends[1 - 1] + 1 = 1
      BY <3>1
    <3> QED
      BY <2>1, <2>2, <3>2, <3>3
  <2>3. CASE i # 1
    <3>1. i - 1 \in 1..n /\ i - 1 \in 0..n /\ i \in 0..n
      BY <2>3
    <3>2. whole[i - 1] = SubSeq(seq, 1, ends[i - 1])
      BY <3>1
    <3>3. ends[i - 1] \in 0..Len(seq) /\ ends[i] \in ends[i - 1]..Len(seq) /\ Len(seq) \in Nat
      BY <1>3, <3>1
    <3>4. SubSeq(seq, 1, ends[i - 1]) \o SubSeq(seq, ends[i - 1] + 1, ends[i]) = SubSeq(seq, 1, ends[i])
      <4> DEFINE a == ends[i - 1]
                 b == ends[i]
      <4>1. 1 \in 1..(Len(seq) + 1) /\ a \in (1 - 1)..Len(seq) /\ b \in a..Len(seq)
        BY <3>3
      <4> HIDE DEF a, b
      <4>2. SubSeq(seq, 1, a) \o SubSeq(seq, a + 1, b) = SubSeq(seq, 1, b)
        BY <4>1, ConcatAdjacentSubSeq
      <4> QED
        BY <4>2 DEF a, b
    <3> QED
      BY <1>2, <2>1, <2>3, <3>2, <3>4
  <2> QED
    BY <2>2, <2>3
<1>5. Solves(whole)
  <2> HIDE DEF whole
  <2>1. whole = [i \in 1..n |-> whole[i]]
    BY DEF whole
  <2> QED
    BY <1>4, <2>1
<1> DEFINE f == CHOOSE f : Solves(f)
<1>6. Solves(f)
  BY <1>5
<1>7. FlattenSeq(parts) = f[n]
  BY <1>1 DEF FlattenSeq
<1> HIDE DEF f, whole
<1> DEFINE Bad == {i \in Nat : i \in 1..n /\ f[i] # whole[i]}
<1>8. ASSUME Bad # {} PROVE FALSE
  <2>1. PICK i \in Bad : \A j \in Bad : i <= j
    BY <1>8, LeastNumber
  <2>2. i \in 1..n /\ f[i] # whole[i]
    BY <2>1
  <2>3. f[i] = IF i = 1 THEN parts[i] ELSE f[i - 1] \o parts[i]
    BY <1>6, <2>2
  <2>4. CASE i = 1
    BY <1>4, <2>2, <2>3, <2>4
  <2>5. CASE i # 1
    <3>1. i - 1 \in 1..n /\ i - 1 \notin Bad
      BY <2>1, <2>2, <2>5
    <3>2. f[i - 1] = whole[i - 1]
      BY <3>1
    <3> QED
      BY <1>4, <2>2, <2>3, <2>5, <3>2
  <2> QED
    BY <2>4, <2>5
<1>9. f[n] = whole[n]
  <2>1. n \in Nat /\ n \in 1..n
    OBVIOUS
  <2>2. n \notin Bad
    BY <1>8, Zenon
  <2> QED
    BY <2>1, <2>2
<1>10. whole[n] = seq
  BY SubSeqFull DEF whole
<1> QED
  BY <1>7, <1>9, <1>10

LEMMA SmallerOf ==
  ASSUME NEW n \in Int, NEW w \in Int
  PROVE  Min({n, w}) = IF n <= w THEN n ELSE w
BY DEF Min

LEMMA LargerOf ==
  ASSUME NEW n \in Int, NEW w \in Int
  PROVE  Max({n, w}) = IF n >= w THEN n ELSE w
BY DEF Max

\* Enough parts of a size cover a length.
LEMMA CeilDivCovers ==
  ASSUME NEW n \in Nat, NEW w \in Nat \ {0}
  PROVE  CeilDiv(n, w) \in Nat /\ w * CeilDiv(n, w) >= n
<1> DEFINE a == n + w - 1
           q == a \div w
<1>1. a \in Nat
  OBVIOUS
<1> HIDE DEF a
<1>2. q \in Nat /\ a % w \in 0..(w - 1) /\ a = w * q + (a % w)
  BY <1>1, ModFacts
<1>3. q = CeilDiv(n, w)
  BY DEF CeilDiv, a
<1> HIDE DEF q
<1>4. a % w <= w - 1 /\ w * q \in Nat
  BY <1>2
<1>5. w * q >= n
  BY <1>2, <1>4 DEF a
<1> QED
  BY <1>2, <1>3, <1>5

\* A sequence cut into pieces of a size, the last of which may be short or empty.
LEMMA CutBySize ==
  ASSUME NEW S, NEW seq \in Seq(S), NEW n \in Nat \ {0}, NEW size \in Nat, n * size >= Len(seq),
         NEW parts, OfSize(parts, seq, n, size)
  PROVE  FlattenSeq(parts) = seq
<1> DEFINE L == Len(seq)
           ends == [i \in 0..n |-> Min({i * size, L})]
<1>1. L \in Nat
  OBVIOUS
<1>2. ASSUME NEW i \in 0..n
      PROVE  /\ i * size \in Nat
             /\ ends[i] = IF i * size <= L THEN i * size ELSE L
  BY <1>1, <1>2, SmallerOf
<1>3. ASSUME NEW i \in 1..n
      PROVE  /\ i - 1 \in 0..n /\ i \in 0..n /\ (i - 1) * size + size = i * size
             /\ (i - 1) * size \in Nat /\ i * size \in Nat
  <2>1. i \in Nat /\ i - 1 \in Nat
    OBVIOUS
  <2>2. i * size \in Nat /\ (i - 1) * size \in Nat /\ (i - 1) * size + size = i * size
    BY <2>1
  <2> QED
    BY <2>2
<1> HIDE DEF L, ends
<1>4. ends \in [0..n -> 0..L]
  <2>1. \A i \in 0..n : ends[i] \in 0..L
    BY <1>1, <1>2
  <2> QED
    BY <2>1 DEF ends
<1>5. ends[0] = 0 /\ ends[n] = L
  <2>1. ends[0] = 0
    <3>1. 0 \in 0..n /\ 0 * size = 0
      OBVIOUS
    <3> QED
      BY <1>1, <1>2, <3>1
  <2>2. n \in 0..n /\ n * size >= L
    BY DEF L
  <2> QED
    BY <1>1, <1>2, <2>1, <2>2
<1>6. \A i \in 1..n : ends[i - 1] <= ends[i]
  BY <1>1, <1>2, <1>3
<1>7. ASSUME NEW i \in 1..n
      PROVE  parts[i] = SubSeq(seq, ends[i - 1] + 1, ends[i])
  <2> DEFINE a == (i - 1) * size
             b == i * size
  <2>1. /\ a \in Nat /\ b \in Nat /\ a + size = b
        /\ ends[i - 1] = IF a <= L THEN a ELSE L
        /\ ends[i] = IF b <= L THEN b ELSE L
    BY <1>2, <1>3
  <2>2. parts[i] = SubSeq(seq, a + 1, Min({b, L}))
    BY DEF L, OfSize
  <2> HIDE DEF a, b
  <2>3. Min({b, L}) = IF b <= L THEN b ELSE L
    BY <1>1, <2>1, SmallerOf
  <2>4. CASE a <= L
    BY <2>1, <2>2, <2>3, <2>4
  <2>5. CASE a > L
    <3>1. parts[i] = SubSeq(seq, a + 1, L)
      BY <1>1, <2>1, <2>2, <2>3, <2>5
    <3>2. SubSeq(seq, a + 1, L) = <<>>
      BY <1>1, <2>1, <2>5, SubSeqEmpty
    <3>3. ends[i - 1] = L /\ ends[i] = L
      BY <1>1, <2>1, <2>5
    <3>4. SubSeq(seq, L + 1, L) = <<>>
      BY <1>1, SubSeqEmpty
    <3> QED
      BY <3>1, <3>2, <3>3, <3>4
  <2>6. a <= L \/ a > L
    BY <1>1, <2>1
  <2> QED
    BY <2>4, <2>5, <2>6
<1>8. EndingAt(parts, seq, n, ends)
  BY <1>7 DEF OfSize, EndingAt
<1>9. seq \in Seq(S) /\ ends \in [0..n -> 0..Len(seq)] /\ ends[n] = Len(seq)
  BY <1>4, <1>5 DEF L
<1> QED
  BY <1>5, <1>6, <1>8, <1>9, PartsAreTheWhole

-------------------------------------------------------------------------------
(* Reading: kernels given rows that hold the tokens they are named for read   *)
(* the context of each sequence.                                             *)

GoodRows(rows) ==
  \A s \in Batch : \A p \in 0..(len[s] - 1) :
    rows.k[Row(s, p)] = <<s, p>> /\ rows.v[Row(s, p)] = <<s, p>>

OwnReads(s, positions) == [i \in DOMAIN positions |-> <<<<s, positions[i]>>, <<s, positions[i]>>>>]
Reads(answer, span) == answer = [s \in Batch |-> OwnContext(s, span)]

LEMMA AttendedFacts ==
  ASSUME NEW last \in Nat, NEW span \in Nat
  PROVE  /\ WindowStart(last, span) \in 0..last
         /\ Attended(last, span) \in Seq(0..last)
         /\ Len(Attended(last, span)) = last + 1 - WindowStart(last, span)
<1> DEFINE start == WindowStart(last, span)
<1>1. start \in 0..last
  BY DEF WindowStart
<1>2. Attended(last, span) = [i \in 1..(last + 1 - start) |-> start + i - 1]
  BY DEF Attended
<1> HIDE DEF start
<1>3. last + 1 - start \in Nat
  BY <1>1
<1>4. \A i \in 1..(last + 1 - start) : start + i - 1 \in 0..last
  BY <1>1
<1> QED
  BY <1>1, <1>2, <1>3, <1>4 DEF start

LEMMA ReadsOwnRows ==
  ASSUME NEW rows, GoodRows(rows), NEW s \in Batch, NEW positions,
         \A i \in DOMAIN positions : positions[i] \in 0..(len[s] - 1)
  PROVE  ReadAt(rows, s, positions) = OwnReads(s, positions)
<1>1. \A i \in DOMAIN positions : /\ rows.k[Row(s, positions[i])] = <<s, positions[i]>>
                                  /\ rows.v[Row(s, positions[i])] = <<s, positions[i]>>
  BY DEF GoodRows
<1> QED
  BY <1>1 DEF ReadAt, OwnReads

\* The query at a position of a sequence reads the rows it attends to.
LEMMA QueryReads ==
  ASSUME NEW rows, GoodRows(rows), NEW s \in Batch, NEW last \in Nat, last < len[s], len[s] \in Nat,
         NEW span \in Nat, NEW positions, positions = Attended(last, span)
  PROVE  ReadAt(rows, s, positions) = OwnReads(s, positions)
<1>1. positions \in Seq(0..last)
  BY AttendedFacts
<1>2. \A i \in DOMAIN positions : positions[i] \in 0..(len[s] - 1)
  BY <1>1
<1> QED
  BY <1>2, ReadsOwnRows

LEMMA OwnContextIs ==
  ASSUME NEW s, NEW span
  PROVE  OwnContext(s, span) =
           [q \in 1..call.tokens |-> OwnReads(s, Attended(len[s] - call.tokens + q - 1, span))]
BY DEF OwnContext, OwnRows, OwnPosition, OwnReads

LEMMA PrefillReads ==
  ASSUME TablesInv, CallInv, call # Idle, NEW rows, GoodRows(rows), NEW span \in Nat
  PROVE  Reads(Prefill(rows, span), span)
<1>1. ASSUME NEW s \in Batch, NEW q \in 1..call.tokens
      PROVE  ReadAt(rows, s, Attended(len[s] - call.tokens + q - 1, span)) =
             OwnReads(s, Attended(len[s] - call.tokens + q - 1, span))
  <2>1. /\ len[s] \in Nat /\ len[s] - call.tokens \in Nat /\ call.tokens \in Nat
    BY BatchFacts
  <2>2. PICK last : last = len[s] - call.tokens + q - 1
    OBVIOUS
  <2>3. last \in Nat /\ last < len[s]
    BY <2>1, <2>2
  <2>4. PICK positions : positions = Attended(last, span)
    OBVIOUS
  <2>5. ReadAt(rows, s, positions) = OwnReads(s, positions)
    BY <2>1, <2>3, <2>4, QueryReads
  <2> QED
    BY <2>2, <2>4, <2>5
<1>2. Prefill(rows, span) = [s \in Batch |-> [q \in 1..call.tokens |->
        ReadAt(rows, s, Attended(len[s] - call.tokens + q - 1, span))]]
  BY DEF Prefill
<1>3. ASSUME NEW s \in Batch
      PROVE  [q \in 1..call.tokens |-> ReadAt(rows, s, Attended(len[s] - call.tokens + q - 1, span))]
             = OwnContext(s, span)
  BY <1>1, OwnContextIs
<1> QED
  BY <1>2, <1>3 DEF Reads

\* In a decoding call each sequence has one query, the last token.
LEMMA DecodeContextIs ==
  ASSUME TablesInv, CallInv, call # Idle, call.tokens = 1, NEW span \in Nat, NEW s \in Batch,
         NEW read, read = OwnReads(s, Attended(len[s] - 1, span))
  PROVE  <<read>> = OwnContext(s, span)
<1>1. len[s] \in Nat
  BY BatchFacts
<1>2. OwnContext(s, span) = [q \in 1..1 |-> OwnReads(s, Attended(len[s] - 1 + q - 1, span))]
  BY OwnContextIs
<1>3. ASSUME NEW q \in 1..1
      PROVE  OwnReads(s, Attended(len[s] - 1 + q - 1, span)) = read
  <2>1. len[s] - 1 + q - 1 = len[s] - 1
    BY <1>1
  <2> QED
    BY <2>1
<1>4. OwnContext(s, span) = [q \in 1..1 |-> read]
  BY <1>2, <1>3
<1>5. [q \in 1..1 |-> read] = <<read>>
  OBVIOUS
<1> QED
  BY <1>4, <1>5

LEMMA DecodeReads ==
  ASSUME TablesInv, CallInv, call # Idle, call.tokens = 1, NEW span \in Nat, NEW reads,
         \A s \in Batch : reads[s] = OwnReads(s, Attended(len[s] - 1, span)),
         NEW answer, answer = [s \in Batch |-> <<reads[s]>>]
  PROVE  Reads(answer, span)
<1>1. ASSUME NEW s \in Batch PROVE answer[s] = OwnContext(s, span)
  <2>1. PICK read : read = reads[s]
    OBVIOUS
  <2>2. <<read>> = OwnContext(s, span)
    BY <2>1, DecodeContextIs
  <2> QED
    BY <2>1, <2>2
<1> QED
  BY <1>1 DEF Reads

LEMMA DecodeReadsRows ==
  ASSUME TablesInv, CallInv, call # Idle, call.tokens = 1, NEW span \in Nat,
         NEW rows, GoodRows(rows)
  PROVE  /\ Reads(Decode(rows, span), span)
         /\ \A s \in Batch : ReadAt(rows, s, Attended(len[s] - 1, span)) = OwnReads(s, Attended(len[s] - 1, span))
<1>1. ASSUME NEW s \in Batch
      PROVE  ReadAt(rows, s, Attended(len[s] - 1, span)) = OwnReads(s, Attended(len[s] - 1, span))
  <2>1. len[s] \in Nat /\ len[s] >= 1
    BY BatchFacts
  <2>2. PICK last : last = len[s] - 1
    OBVIOUS
  <2>3. last \in Nat /\ last < len[s]
    BY <2>1, <2>2
  <2>4. PICK positions : positions = Attended(last, span)
    OBVIOUS
  <2>5. ReadAt(rows, s, positions) = OwnReads(s, positions)
    BY <2>1, <2>3, <2>4, QueryReads
  <2> QED
    BY <2>2, <2>4, <2>5
<1>2. PICK reads : reads = [s \in Batch |-> ReadAt(rows, s, Attended(len[s] - 1, span))]
  OBVIOUS
<1>3. \A s \in Batch : reads[s] = OwnReads(s, Attended(len[s] - 1, span))
  BY <1>1, <1>2
<1>4. Decode(rows, span) = [s \in Batch |-> <<reads[s]>>]
  BY <1>2 DEF Decode
<1> QED
  BY <1>1, <1>3, <1>4, DecodeReads

\* The new rows themselves are the context of a sequence which has no others.
LEMMA SdpReads ==
  ASSUME TablesInv, CallInv, call # Idle, \A s \in Batch : len[s] = call.tokens, SpanBefore \in Nat
  PROVE  Reads(SdpPrefill, SpanBefore)
<1>1. PICK span : span = SpanBefore
  OBVIOUS
<1>2. ASSUME NEW s \in Batch, NEW q \in 1..call.tokens,
             NEW positions, positions = Attended(len[s] - call.tokens + q - 1, span)
      PROVE  [i \in DOMAIN positions |->
                IF positions[i] \in NewPositions(s) THEN <<<<s, positions[i]>>, <<s, positions[i]>>>>
                ELSE <<Garbage, Garbage>>] = OwnReads(s, positions)
  <2>1. len[s] \in Nat /\ call.tokens \in Nat /\ len[s] = call.tokens
    BY BatchFacts
  <2>2. PICK last : last = len[s] - call.tokens + q - 1
    OBVIOUS
  <2>3. last \in Nat /\ last < len[s]
    BY <2>1, <2>2
  <2>4. positions \in Seq(0..last)
    BY <1>1, <1>2, <2>2, <2>3, AttendedFacts
  <2>5. \A i \in DOMAIN positions : positions[i] \in NewPositions(s)
    BY <2>1, <2>3, <2>4 DEF NewPositions
  <2> QED
    BY <2>5 DEF OwnReads
<1>3. ASSUME NEW s \in Batch, NEW q \in 1..call.tokens
      PROVE  (LET positions == Attended(len[s] - call.tokens + q - 1, SpanBefore)
              IN [i \in DOMAIN positions |->
                    IF positions[i] \in NewPositions(s) THEN <<<<s, positions[i]>>, <<s, positions[i]>>>>
                    ELSE <<Garbage, Garbage>>])
             = OwnReads(s, Attended(len[s] - call.tokens + q - 1, SpanBefore))
  <2>1. PICK positions : positions = Attended(len[s] - call.tokens + q - 1, span)
    OBVIOUS
  <2> QED
    BY <1>1, <1>2, <2>1
<1>4. ASSUME NEW s \in Batch PROVE SdpPrefill[s] = OwnContext(s, SpanBefore)
  BY <1>3, OwnContextIs DEF SdpPrefill
<1>5. SdpPrefill = [s \in Batch |-> SdpPrefill[s]]
  BY DEF SdpPrefill
<1> QED
  BY <1>4, <1>5 DEF Reads

LEMMA PartsMerge ==
  ASSUME NEW S, NEW positions \in Seq(S), NEW splits \in Nat \ {0},
         NEW parts, parts = [i \in 1..splits |-> Part(positions, i, splits)]
  PROVE  FlattenSeq(parts) = positions
<1>1. Len(positions) \in Nat
  OBVIOUS
<1>2. PICK size : size = CeilDiv(Len(positions), splits)
  OBVIOUS
<1>3. size \in Nat /\ splits * size >= Len(positions)
  BY <1>1, <1>2, CeilDivCovers
<1>4. OfSize(parts, positions, splits, size)
  BY <1>2 DEF Part, OfSize
<1> QED
  BY <1>3, <1>4, CutBySize

LEMMA SplitKReads ==
  ASSUME TablesInv, CallInv, call # Idle, call.tokens = 1, NEW span \in Nat, span = Span,
         NEW rows, GoodRows(rows), NEW splits \in Nat \ {0}, NEW room,
         NEW answer, answer = SplitKDecode(rows, splits, room),
         NEW s \in Batch, PlaceInBatch(s) <= room
  PROVE  answer[s] = OwnContext(s, span)
<1>1. FlattenSeq([i \in 1..splits |-> Part(Attended(len[s] - 1, Span), i, splits)])
      = Attended(len[s] - 1, span)
  <2>1. len[s] \in Nat /\ len[s] >= 1
    BY BatchFacts
  <2>2. PICK last : last = len[s] - 1
    OBVIOUS
  <2>3. last \in Nat
    BY <2>1, <2>2
  <2>4. PICK positions : positions = Attended(last, span)
    OBVIOUS
  <2>5. positions \in Seq(0..last)
    BY <2>3, <2>4, AttendedFacts
  <2>6. PICK parts : parts = [i \in 1..splits |-> Part(positions, i, splits)]
    OBVIOUS
  <2>7. FlattenSeq(parts) = positions
    BY <2>5, <2>6, PartsMerge
  <2>8. positions = Attended(len[s] - 1, Span)
    BY <2>2, <2>4
  <2> QED
    BY <2>4, <2>6, <2>7, <2>8
<1>2. PICK read : read = ReadAt(rows, s, Attended(len[s] - 1, span))
  OBVIOUS
<1>3. read = OwnReads(s, Attended(len[s] - 1, span))
  BY <1>2, DecodeReadsRows
<1>4. answer[s] = <<read>>
  BY <1>1, <1>2 DEF SplitKDecode
<1> QED
  BY <1>3, <1>4, DecodeContextIs

LEMMA LongestIsALength ==
  ASSUME TablesInv, CallInv, call # Idle
  PROVE  MaxContextLen \in Nat
<1> DEFINE lens == {len[s] : s \in Batch}
           gaps == {MaxLen - n : n \in lens}
<1>0. MaxLen \in Nat
  BY BoundsAssumption
<1>1. \A n \in lens : n \in 0..MaxLen
  BY BatchFacts, <1>0 DEF TablesInv
<1>2. lens # {}
  <2>1. 1 \in DOMAIN call.batch
    BY DEF CallInv, Calls
  <2> QED
    BY <2>1 DEF Batch, Range
<1> HIDE DEF lens
<1>3. gaps \in SUBSET Nat /\ gaps # {}
  BY <1>0, <1>1, <1>2
<1>4. PICK g \in gaps : \A h \in gaps : g <= h
  BY <1>3, LeastNumber
<1>5. PICK n \in lens : g = MaxLen - n
  BY <1>4
<1>6. ASSUME NEW m \in lens PROVE n >= m
  <2>1. MaxLen - m \in gaps
    OBVIOUS
  <2>2. g <= MaxLen - m
    BY <1>4, <2>1
  <2> QED
    BY <1>0, <1>1, <1>5, <2>2
<1>7. Max(lens) \in lens
  BY <1>6 DEF Max
<1>8. MaxContextLen = Max(lens)
  BY DEF MaxContextLen, lens
<1> QED
  BY <1>1, <1>7, <1>8

LEMMA ClampedSplits ==
  ASSUME NEW n \in Nat
  PROVE  Clamp(n, 2, NumSplits) \in Nat \ {0}
BY SplitAssumption DEF Clamp

\* Native decoding, in parts or not.
LEMMA NativeDecodeReads ==
  ASSUME TablesInv, CallInv, call # Idle, call.tokens = 1, NEW span \in Nat, span = Span,
         NEW rows, GoodRows(rows), NEW answer, answer = NativeDecode(rows),
         NEW s \in Batch, FlashNumSplits(MaxContextLen) = 1 \/ PlaceInBatch(s) <= WorkspaceRoom
  PROVE  answer[s] = OwnContext(s, span)
<1>1. PICK splits : splits = FlashNumSplits(MaxContextLen)
  OBVIOUS
<1>2. splits \in Nat \ {0}
  <2>1. PICK n : n = MaxContextLen
    OBVIOUS
  <2>2. n \in Nat
    BY <2>1, LongestIsALength
  <2>3. TokensPerSplit \in Nat \ {0}
    BY SplitAssumption
  <2>4. PICK c : c = CeilDiv(n, TokensPerSplit)
    OBVIOUS
  <2>5. c \in Nat
    BY <2>2, <2>3, <2>4, CeilDivNat
  <2>6. Clamp(c, 2, NumSplits) \in Nat \ {0}
    BY <2>5, ClampedSplits
  <2> QED
    BY <1>1, <2>1, <2>4, <2>6 DEF FlashNumSplits
<1>3. CASE splits > 1
  <2>1. answer = SplitKDecode(rows, splits, WorkspaceRoom)
    BY <1>1, <1>3 DEF NativeDecode
  <2>2. PlaceInBatch(s) <= WorkspaceRoom
    BY <1>1, <1>3
  <2> QED
    BY <1>2, <2>1, <2>2, SplitKReads
<1>4. CASE ~(splits > 1)
  <2>1. answer = Decode(rows, span)
    BY <1>1, <1>4 DEF NativeDecode
  <2> QED
    BY <2>1, DecodeReadsRows DEF Reads
<1> QED
  BY <1>3, <1>4

\* Metal splits with a scratch as large as the batch.
LEMMA MetalDecodeReads ==
  ASSUME TablesInv, CallInv, call # Idle, call.tokens = 1, NEW span \in Nat, span = Span,
         NEW w, GoodRows(StdRows(w)), NEW answer, answer = FlashDecodeMetal(w)
  PROVE  Reads(answer, span)
<1>1. PICK n : n = MaxContextLen
  OBVIOUS
<1>2. n \in Nat
  BY <1>1, LongestIsALength
<1>3. PICK splits : splits = IF n < MetalThreshold THEN 1
                             ELSE Clamp(CeilDiv(n, MetalTokensPerSplit), 2, NumSplits)
  OBVIOUS
<1>4. splits \in Nat \ {0}
  <2>1. MetalTokensPerSplit \in Nat \ {0}
    BY SplitAssumption
  <2>2. PICK c : c = CeilDiv(n, MetalTokensPerSplit)
    OBVIOUS
  <2>3. c \in Nat
    BY <1>2, <2>1, <2>2, CeilDivNat
  <2>4. Clamp(c, 2, NumSplits) \in Nat \ {0}
    BY <2>3, ClampedSplits
  <2> QED
    BY <1>3, <2>2, <2>4
<1>5. PICK rows : rows = StdRows(w)
  OBVIOUS
<1>6. GoodRows(rows)
  BY <1>5
<1>7. CASE splits > 1
  <2>1. PICK room : room = Len(call.batch)
    OBVIOUS
  <2>2. answer = SplitKDecode(rows, splits, room)
    BY <1>1, <1>3, <1>5, <1>7, <2>1 DEF FlashDecodeMetal
  <2>3. ASSUME NEW s \in Batch PROVE PlaceInBatch(s) <= room
    <3>1. call.batch \in Seq(Seqs)
      BY DEF CallInv, Calls
    <3>2. \E i \in DOMAIN call.batch : call.batch[i] = s
      BY DEF Batch, Range
    <3>3. PlaceInBatch(s) \in DOMAIN call.batch
      BY <3>2 DEF PlaceInBatch
    <3> QED
      BY <2>1, <3>1, <3>3
  <2>4. ASSUME NEW s \in Batch PROVE answer[s] = OwnContext(s, span)
    BY <1>4, <1>6, <2>2, <2>3, SplitKReads
  <2>5. answer = [s \in Batch |-> answer[s]]
    BY <2>2 DEF SplitKDecode
  <2> QED
    BY <2>4, <2>5 DEF Reads
<1>8. CASE ~(splits > 1)
  <2>1. answer = Decode(rows, span)
    BY <1>1, <1>3, <1>5, <1>8 DEF FlashDecodeMetal
  <2> QED
    BY <1>6, <2>1, DecodeReadsRows
<1> QED
  BY <1>7, <1>8

\* Without a window a query attends to every position.
LEMMA WholeIsAttended ==
  ASSUME NEW n \in Nat \ {0}
  PROVE  /\ Attended(n - 1, 0) = Whole(n) /\ WindowStart(n - 1, 0) = 0
         /\ Whole(n) \in Seq(Nat) /\ Len(Whole(n)) = n
<1>1. WindowStart(n - 1, 0) = 0
  BY DEF WindowStart
<1>2. Attended(n - 1, 0) = [i \in 1..(n - 1 + 1 - 0) |-> 0 + i - 1]
  BY <1>1 DEF Attended
<1>3. n - 1 + 1 - 0 = n /\ \A i \in 1..n : 0 + i - 1 = i - 1
  OBVIOUS
<1>4. Attended(n - 1, 0) = Whole(n)
  BY <1>2, <1>3 DEF Whole
<1> QED
  BY <1>1, <1>4 DEF Whole

\* The partitions of the conventional kernels, of CUDA and of Metal, cut a context
\* without a window into pieces of the partition's size.
LEMMA PartitionIs ==
  ASSUME NEW n \in Nat \ {0}, NEW p \in Nat, p * PartitionSize < n, Span = 0
  PROVE  PartitionPositions(n, p) =
           SubSeq(Whole(n), p * PartitionSize + 1, Min({(p + 1) * PartitionSize, n}))
<1> DEFINE start == p * PartitionSize
           next == (p + 1) * PartitionSize
           end == Min({next, n})
<1>1. PartitionSize \in Nat \ {0} /\ BlockSize \in Nat \ {0} /\ PartitionSize % BlockSize = 0
  BY SplitAssumption, BlockSizeAssumption
<1>2. BlocksOfPartition \in Nat /\ BlocksOfPartition * BlockSize = PartitionSize
  <2>1. /\ PartitionSize \div BlockSize \in Nat
        /\ PartitionSize = BlockSize * (PartitionSize \div BlockSize) + (PartitionSize % BlockSize)
    BY <1>1, ModFacts
  <2> QED
    BY <1>1, <2>1 DEF BlocksOfPartition
<1>3. start \in Nat /\ next \in Nat /\ next = start + PartitionSize /\ start < n
  BY <1>1
<1>4. end = IF next <= n THEN next ELSE n
  BY <1>3, SmallerOf
<1>5. WindowStart(n - 1, Span) = 0 /\ 0 \div BlockSize = 0
  <2>1. 0 \div BlockSize = 0
    <3>1. 0 = BlockSize * 0 + 0 /\ 0 \in 0..(BlockSize - 1) /\ 0 \in Int
      BY <1>1
    <3> QED
      BY <1>1, <3>1, DivUnique
  <2> QED
    BY <2>1, WholeIsAttended
<1>6. Max({p * BlocksOfPartition, 0}) * BlockSize = start
  <2> DEFINE b == p * BlocksOfPartition
  <2>1. b \in Nat /\ b * BlockSize = start
    <3>1. (p * BlocksOfPartition) * BlockSize = p * (BlocksOfPartition * BlockSize)
      BY <1>1, <1>2
    <3> QED
      BY <1>2, <3>1
  <2> HIDE DEF b
  <2>2. Max({b, 0}) = b
    BY <2>1, LargerOf
  <2> QED
    BY <2>1, <2>2 DEF b
<1> HIDE DEF start, next, end
<1>7. Max({start, 0}) = start
  BY <1>3, LargerOf
<1>8. PartitionPositions(n, p) = [i \in 1..(Min({start + PartitionSize, n}) - start) |-> start + i - 1]
  BY <1>5, <1>6, <1>7 DEF PartitionPositions
<1>9. PartitionPositions(n, p) = [i \in 1..(end - start) |-> start + i - 1]
  BY <1>3, <1>8 DEF end
<1>10. end \in Nat /\ end > start /\ end <= n /\ start + 1 \in Int
  BY <1>1, <1>3, <1>4
<1> DEFINE part == SubSeq(Whole(n), start + 1, end)
<1>11. \A i \in (start + 1)..end : Whole(n)[i] = i - 1 /\ Whole(n)[i] \in Nat
  BY <1>3, <1>10 DEF Whole
<1>12. /\ part \in Seq(Nat)
       /\ Len(part) = IF start + 1 <= end THEN end - (start + 1) + 1 ELSE 0
       /\ \A i \in 1..(end - (start + 1) + 1) : part[i] = Whole(n)[start + 1 + i - 1]
  BY <1>10, <1>11, SubSeqProperties
<1> HIDE DEF part
<1>13. Len(part) = end - start /\ end - (start + 1) + 1 = end - start
  BY <1>3, <1>10, <1>12
<1>14. \A i \in 1..(end - start) : part[i] = start + i - 1
  <2> SUFFICES ASSUME NEW i \in 1..(end - start) PROVE part[i] = start + i - 1
    OBVIOUS
  <2>1. part[i] = Whole(n)[start + 1 + i - 1]
    BY <1>12, <1>13
  <2>2. start + 1 + i - 1 = start + i /\ start + i \in (start + 1)..end
    BY <1>3, <1>10
  <2>3. Whole(n)[start + i] = start + i - 1
    <3>1. PICK j : j = start + i
      OBVIOUS
    <3>2. Whole(n)[j] = j - 1
      BY <1>11, <2>2, <3>1
    <3>3. j - 1 = start + i - 1
      BY <1>3, <3>1
    <3> QED
      BY <3>1, <3>2, <3>3
  <2> QED
    BY <2>1, <2>2, <2>3
<1>15. part = [i \in 1..(end - start) |-> start + i - 1]
  BY <1>12, <1>13, <1>14
<1> QED
  BY <1>9, <1>15 DEF part, start, next, end

LEMMA PartitionsMerge ==
  ASSUME NEW n \in Nat \ {0}, NEW parts,
         \/ Span = 0 /\ parts = [p \in 1..CeilDiv(n, PartitionSize) |-> PartitionPositions(n, p - 1)]
         \/ parts = [p \in 1..CeilDiv(n, PartitionSize) |-> PartitionPositionsMetal(n, p - 1)]
  PROVE  FlattenSeq(parts) = Whole(n)
<1>1. PartitionSize \in Nat \ {0}
  BY SplitAssumption
<1>2. PICK m : m = CeilDiv(n, PartitionSize)
  OBVIOUS
<1>3. m \in Nat /\ PartitionSize * m >= n
  BY <1>1, <1>2, CeilDivCovers
<1>4. m # 0 /\ m * PartitionSize >= n
  BY <1>1, <1>3
<1>5. ASSUME NEW p \in 1..m
      PROVE  parts[p] = SubSeq(Whole(n), (p - 1) * PartitionSize + 1, Min({p * PartitionSize, n}))
  <2>1. p - 1 \in Nat /\ p - 1 + 1 = p
    OBVIOUS
  <2>2. CASE parts = [q \in 1..m |-> PartitionPositionsMetal(n, q - 1)]
    <3>1. parts[p] = SubSeq(Whole(n), (p - 1) * PartitionSize + 1, Min({(p - 1 + 1) * PartitionSize, n}))
      BY <2>2 DEF PartitionPositionsMetal
    <3> QED
      BY <2>1, <3>1
  <2>3. CASE Span = 0 /\ parts = [q \in 1..m |-> PartitionPositions(n, q - 1)]
    <3>1. (p - 1) * PartitionSize < n
      <4> DEFINE a == n + PartitionSize - 1
      <4>1. a \in Nat /\ m = a \div PartitionSize
        BY <1>1, <1>2 DEF CeilDiv
      <4> HIDE DEF a
      <4>2. a % PartitionSize \in 0..(PartitionSize - 1) /\ a = PartitionSize * m + (a % PartitionSize)
        BY <1>1, <4>1, ModFacts
      <4>3. PartitionSize * m <= a
        BY <1>1, <1>3, <4>1, <4>2
      <4>4. (m - p) * PartitionSize >= 0
        BY <1>1, <1>3
      <4>5. (m - p) * PartitionSize = PartitionSize * m - p * PartitionSize
        BY <1>1, <1>3
      <4>6. (p - 1) * PartitionSize = p * PartitionSize - PartitionSize
        BY <1>1
      <4> QED
        BY <1>1, <1>3, <4>3, <4>4, <4>5, <4>6 DEF a
    <3>2. PICK r : r = p - 1
      OBVIOUS
    <3>3. r \in Nat /\ r * PartitionSize < n /\ r + 1 = p
      BY <2>1, <3>1, <3>2
    <3>4. PartitionPositions(n, r) =
            SubSeq(Whole(n), r * PartitionSize + 1, Min({(r + 1) * PartitionSize, n}))
      BY <2>3, <3>3, PartitionIs
    <3> QED
      BY <2>3, <3>2, <3>3, <3>4
  <2> QED
    BY <1>2, <2>2, <2>3
<1>6. PICK seq : seq = Whole(n)
  OBVIOUS
<1>7. seq \in Seq(Nat) /\ Len(seq) = n
  BY <1>6, WholeIsAttended
<1>8. parts = [p \in 1..m |-> parts[p]]
  BY <1>2
<1>9. OfSize(parts, seq, m, PartitionSize)
  BY <1>5, <1>6, <1>7, <1>8 DEF OfSize
<1> QED
  BY <1>1, <1>3, <1>4, <1>6, <1>7, <1>9, CutBySize

\* The conventional kernels that attend to the whole context: those of Metal, and in
\* partitions those of CUDA where there is no window.
LEMMA WholeReads ==
  ASSUME TablesInv, CallInv, call # Idle, call.tokens = 1,
         NEW rows, GoodRows(rows), NEW answer,
         \/ answer \in {PagedAttentionV1Metal(rows), PagedAttentionV2Metal(rows)}
         \/ Span = 0 /\ answer = PagedAttentionV2(rows)
  PROVE  Reads(answer, 0)
<1>1. ASSUME NEW s \in Batch
      PROVE  /\ len[s] \in Nat \ {0}
             /\ Whole(len[s]) = Attended(len[s] - 1, 0)
  <2>1. len[s] \in Nat /\ len[s] >= 1
    BY BatchFacts
  <2>2. PICK n : n = len[s]
    OBVIOUS
  <2>3. n \in Nat \ {0}
    BY <2>1, <2>2
  <2>4. Whole(n) = Attended(n - 1, 0)
    BY <2>3, WholeIsAttended
  <2> QED
    BY <2>2, <2>3, <2>4
<1>2. PICK reads : reads = [s \in Batch |-> ReadAt(rows, s, Attended(len[s] - 1, 0))]
  OBVIOUS
<1>3. \A s \in Batch : reads[s] = OwnReads(s, Attended(len[s] - 1, 0))
  BY <1>2, DecodeReadsRows
<1>4. ASSUME NEW s \in Batch, NEW parts,
             \/ Span = 0 /\ parts = [p \in 1..CeilDiv(len[s], PartitionSize) |-> PartitionPositions(len[s], p - 1)]
             \/ parts = [p \in 1..CeilDiv(len[s], PartitionSize) |-> PartitionPositionsMetal(len[s], p - 1)]
      PROVE  FlattenSeq(parts) = Attended(len[s] - 1, 0)
  <2>1. PICK n : n = len[s]
    OBVIOUS
  <2>2. n \in Nat \ {0} /\ Whole(n) = Attended(len[s] - 1, 0)
    BY <1>1, <2>1
  <2>3. FlattenSeq(parts) = Whole(n)
    BY <1>4, <2>1, <2>2, PartitionsMerge
  <2> QED
    BY <2>2, <2>3
<1>5. answer = [s \in Batch |-> <<reads[s]>>]
  <2>1. CASE answer = PagedAttentionV1Metal(rows)
    BY <1>1, <1>2, <2>1 DEF PagedAttentionV1Metal
  <2>2. CASE Span = 0 /\ answer = PagedAttentionV2(rows)
    <3>1. ASSUME NEW s \in Batch
          PROVE  FlattenSeq([p \in 1..CeilDiv(len[s], PartitionSize) |-> PartitionPositions(len[s], p - 1)])
                 = Attended(len[s] - 1, 0)
      BY <1>4, <2>2
    <3> QED
      BY <1>2, <2>2, <3>1 DEF PagedAttentionV2
  <2>3. CASE answer = PagedAttentionV2Metal(rows)
    <3>1. ASSUME NEW s \in Batch
          PROVE  FlattenSeq([p \in 1..CeilDiv(len[s], PartitionSize) |-> PartitionPositionsMetal(len[s], p - 1)])
                 = Attended(len[s] - 1, 0)
      BY <1>4
    <3> QED
      BY <1>2, <2>3, <3>1 DEF PagedAttentionV2Metal
  <2> QED
    BY <2>1, <2>2, <2>3
<1> QED
  BY <1>3, <1>5, DecodeReads

-------------------------------------------------------------------------------
(* The paths: after the stores every path reads rows that hold their tokens. *)

Complete(w) ==
  \A s \in Batch : \A table, n : table = tables[s] /\ n = len[s] => ViewHolds(w, s, table, n)

\* A tensor that holds the first tokens of every sequence decodes to them.
LEMMA DecodedRows ==
  ASSUME TablesInv, CallInv, call # Idle, NEW cells \in [Slots(NumBlocks) -> Cells], NEW fmt,
         \A s \in Batch : \A table, n : table = tables[s] /\ n = len[s] => HasRows(cells, s, table, n, fmt, 1),
         NEW s \in Batch, NEW p \in 0..(len[s] - 1), NEW rows, rows = Rows(cells, fmt, 1)
  PROVE  rows[Row(s, p)] = <<s, p>>
<1>1. PICK table, n : table = tables[s] /\ n = len[s]
  OBVIOUS
<1>2. s \in Seqs /\ ~OnCpu(s) /\ p \in 0..(n - 1)
  BY <1>1, BatchFacts
<1>3. Row(s, p) = RowAt(table, p) /\ Row(s, p) \in Slots(NumBlocks)
  BY <1>1, <1>2, RowsInPlace DEF BlocksOf, RowAt, Row
<1>4. HasRows(cells, s, table, n, fmt, 1)
  BY <1>1
<1>5. /\ cells[RowAt(table, p)].tok = <<s, p>> /\ cells[RowAt(table, p)].fmt = fmt
      /\ cells[RowAt(table, p)].scale = 1
  BY <1>2, <1>4 DEF HasRows
<1>6. rows[Row(s, p)] = Decoded(cells[Row(s, p)], fmt, 1)
  BY <1>3 DEF Rows
<1> QED
  BY <1>3, <1>5, <1>6 DEF Decoded

LEMMA GoodFromParts ==
  ASSUME TablesInv, CallInv, call # Idle,
         NEW ks \in [Slots(NumBlocks) -> Cells], NEW vs \in [Slots(NumBlocks) -> Cells], NEW kfmt, NEW vfmt,
         \A s \in Batch : \A table, n : table = tables[s] /\ n = len[s] => HasRows(ks, s, table, n, kfmt, 1),
         \A s \in Batch : \A table, n : table = tables[s] /\ n = len[s] => HasRows(vs, s, table, n, vfmt, 1),
         NEW rows, rows = [k |-> Rows(ks, kfmt, 1), v |-> Rows(vs, vfmt, 1)]
  PROVE  GoodRows(rows)
<1>1. PICK k, v : k = Rows(ks, kfmt, 1) /\ v = Rows(vs, vfmt, 1)
  OBVIOUS
<1>2. rows.k = k /\ rows.v = v
  BY <1>1
<1>3. ASSUME NEW s \in Batch, NEW p \in 0..(len[s] - 1)
      PROVE  k[Row(s, p)] = <<s, p>> /\ v[Row(s, p)] = <<s, p>>
  BY <1>1, DecodedRows
<1> QED
  BY <1>2, <1>3 DEF GoodRows

LEMMA GoodViews ==
  ASSUME TablesInv, CallInv, LayersInv, call # Idle, NEW w, IsView(w), Complete(w), w.scale = 1
  PROVE  /\ InStd => GoodRows(StdRows(w))
         /\ config.turboquant = "turbo8" /\ w.hasTq => GoodRows(K8V4Rows(w))
         /\ config.turboquant = "turbo4" /\ w.hasTq => GoodRows(Tq4Rows(w))
         /\ config.turboquant = "turbo3" /\ w.hasTq => GoodRows(Tq3Rows(w))
<1>1. PICK fmt : fmt = StdFormat
  OBVIOUS
<1>2. w.std \in Cache(NumBlocks)
  BY DEF IsView, Views
<1>3. w.std.k \in [Slots(NumBlocks) -> Cells] /\ w.std.v \in [Slots(NumBlocks) -> Cells]
  BY <1>2, CacheParts
<1>4. ASSUME w.hasTq PROVE w.tq.k \in [Slots(NumBlocks) -> Cells] /\ w.tq.v \in [Slots(NumBlocks) -> Cells]
  BY <1>4, CacheParts DEF IsView
<1>5. ASSUME InStd, NEW s \in Batch, NEW table, NEW n, table = tables[s], n = len[s]
      PROVE  HasRows(w.std.k, s, table, n, fmt, 1) /\ HasRows(w.std.v, s, table, n, fmt, 1)
  BY <1>1, <1>5 DEF Complete, ViewHolds, StdHolds
<1>6. ASSUME w.hasTq, NEW s \in Batch, NEW table, NEW n, table = tables[s], n = len[s]
      PROVE  TqHolds(w.tq, s, table, n)
  BY <1>6 DEF Complete, ViewHolds
<1>7. ASSUME InStd PROVE GoodRows(StdRows(w))
  <2>1. PICK rows : rows = [k |-> Rows(w.std.k, fmt, 1), v |-> Rows(w.std.v, fmt, 1)]
    OBVIOUS
  <2>2. GoodRows(rows)
    BY <1>3, <1>5, <1>7, <2>1, GoodFromParts
  <2>3. rows = StdRows(w)
    BY <1>1, <2>1 DEF StdRows
  <2> QED
    BY <2>2, <2>3
<1>8. ASSUME config.turboquant = "turbo8", w.hasTq PROVE GoodRows(K8V4Rows(w))
  <2>1. PICK rows : rows = [k |-> Rows(w.std.k, fmt, 1), v |-> Rows(w.tq.v, "q4", 1)]
    OBVIOUS
  <2>2. InStd
    BY <1>8 DEF InStd
  <2>3. \A s \in Batch : \A table, n :
          table = tables[s] /\ n = len[s] => HasRows(w.tq.v, s, table, n, "q4", 1)
    BY <1>6, <1>8 DEF TqHolds
  <2>4. GoodRows(rows)
    BY <1>3, <1>4, <1>5, <1>8, <2>1, <2>2, <2>3, GoodFromParts
  <2>5. rows = K8V4Rows(w)
    BY <1>1, <2>1 DEF K8V4Rows
  <2> QED
    BY <2>4, <2>5
<1> DEFINE IsKeyFormat(f) ==
             \/ config.turboquant = "turbo4" /\ f = "q4"
             \/ config.turboquant = "turbo3" /\ f = "q3"
<1>9. ASSUME w.hasTq, NEW kfmt, IsKeyFormat(kfmt),
             NEW rows, rows = [k |-> Rows(w.tq.k, kfmt, 1), v |-> Rows(w.tq.v, "q4", 1)]
      PROVE  GoodRows(rows)
  <2>1. \A s \in Batch : \A table, n :
          table = tables[s] /\ n = len[s] => HasRows(w.tq.v, s, table, n, "q4", 1)
    BY <1>6, <1>9 DEF TqHolds
  <2>2. \A s \in Batch : \A table, n :
          table = tables[s] /\ n = len[s] => HasRows(w.tq.k, s, table, n, kfmt, 1)
    BY <1>6, <1>9 DEF TqHolds
  <2>3. PICK ks, vs : ks = w.tq.k /\ vs = w.tq.v
    OBVIOUS
  <2>4. ks \in [Slots(NumBlocks) -> Cells] /\ vs \in [Slots(NumBlocks) -> Cells]
    BY <1>4, <1>9, <2>3
  <2>5. rows = [k |-> Rows(ks, kfmt, 1), v |-> Rows(vs, "q4", 1)]
    BY <1>9, <2>3
  <2>6. \A s \in Batch : \A table, n :
          table = tables[s] /\ n = len[s] => HasRows(ks, s, table, n, kfmt, 1)
    BY <2>2, <2>3
  <2>7. \A s \in Batch : \A table, n :
          table = tables[s] /\ n = len[s] => HasRows(vs, s, table, n, "q4", 1)
    BY <2>1, <2>3
  <2> QED
    BY <2>4, <2>5, <2>6, <2>7, GoodFromParts
<1> HIDE DEF IsKeyFormat
<1>10. ASSUME config.turboquant = "turbo4", w.hasTq PROVE GoodRows(Tq4Rows(w))
  <2>0. PICK kfmt : kfmt = "q4" /\ IsKeyFormat(kfmt)
    BY <1>10 DEF IsKeyFormat
  <2>1. PICK rows : rows = [k |-> Rows(w.tq.k, kfmt, 1), v |-> Rows(w.tq.v, "q4", 1)]
    OBVIOUS
  <2>2. GoodRows(rows)
    BY <1>9, <1>10, <2>0, <2>1
  <2> QED
    BY <2>0, <2>1, <2>2 DEF Tq4Rows
<1>11. ASSUME config.turboquant = "turbo3", w.hasTq PROVE GoodRows(Tq3Rows(w))
  <2>0. PICK kfmt : kfmt = "q3" /\ IsKeyFormat(kfmt)
    BY <1>11 DEF IsKeyFormat
  <2>1. PICK rows : rows = [k |-> Rows(w.tq.k, kfmt, 1), v |-> Rows(w.tq.v, "q4", 1)]
    OBVIOUS
  <2>2. GoodRows(rows)
    BY <1>9, <1>11, <2>0, <2>1
  <2> QED
    BY <2>0, <2>1, <2>2 DEF Tq3Rows
<1> QED
  BY <1>7, <1>8, <1>10, <1>11


\* What a call answers the sequences inside the workspace: their contexts.
OwnAnswer(answer) == \A s \in Batch : InWorkspace(s) => answer[s] = ServedContext(s)

\* The one kind of call whose queries are not served up to their own positions.
MetalChunk == Conventional /\ Has("metal") /\ call.kind = "chunk"

LEMMA ServedIs ==
  ASSUME NEW s, ~MetalChunk
  PROVE  ServedContext(s) = OwnContext(s, ServedSpan)
<1>1. \A q : ServedUpTo(s, q) = OwnPosition(s, q)
  BY DEF ServedUpTo, MetalChunk
<1> QED
  BY <1>1 DEF ServedContext, OwnContext

LEMMA OwnReading ==
  ASSUME ~MetalChunk, NEW answer, NEW span, span = ServedSpan, Reads(answer, span)
  PROVE  OwnAnswer(answer)
BY ServedIs DEF OwnAnswer, Reads

LEMMA ConfigFacts ==
  ASSUME LayersInv
  PROVE  /\ Span \in Nat /\ SpanBefore \in Nat
         /\ config.size \in Nat /\ config.size >= 1 /\ config.size <= MaxLayers
         /\ ~Native => config.turboquant = "none"
         /\ UsesFlashAttn => config.turboquant = "none"
         /\ config.window = 0 => Span = 0 /\ SpanBefore = 0
         /\ DefaultDecodeAttention \in Nat /\ PrefillAttention \in Nat
         /\ Has("metal-flash") => Native /\ ~Has("flash") /\ ~UsesFlashInfer /\ ~UsesFlashAttn
         /\ config.turboquant \in {"none", "turbo8", "turbo4", "turbo3"}
<1>1. config \in Configs /\ MaxLayers \in Nat /\ Windows \subseteq Nat
  BY BoundsAssumption DEF LayersInv
<1>2. config.window \in Nat /\ config.size \in 1..MaxLayers
  BY <1>1 DEF Configs
<1>3. config.turboquant # "none" => config.features \cap {"flash", "metal-flash"} # {}
  BY <1>1 DEF Configs
<1>4. config.features \cap {"flash", "metal-flash"} # {} => Native
  BY DEF Native, Has
<1>5. UsesFlashAttn => config.turboquant = "none"
  BY DEF UsesFlashAttn, SkipFlashAttn
<1>6. Span \in Nat /\ SpanBefore \in Nat
  BY <1>2 DEF Span, SpanBefore
<1>7. DefaultDecodeAttention \in Nat /\ PrefillAttention \in Nat
  BY <1>6 DEF DefaultDecodeAttention, PrefillAttention
<1>8. ASSUME Has("metal-flash")
      PROVE  Native /\ ~Has("flash") /\ ~UsesFlashInfer /\ ~UsesFlashAttn
  <2>1. config.features \in FeatureSets
    BY <1>1 DEF Configs
  <2>2. ~Has("flash") /\ ~Has("flashinfer") /\ ~Has("flashattn")
    BY <1>8, <2>1, FeatureAssumption DEF Has
  <2> QED
    BY <1>8, <2>2 DEF Native, UsesFlashInfer, UsesFlashAttn
<1>9. config.window = 0 => Span = 0 /\ SpanBefore = 0
  BY DEF Span, SpanBefore
<1> QED
  BY <1>1, <1>2, <1>3, <1>4, <1>5, <1>6, <1>7, <1>8, <1>9, Modes

\* The chunks that Metal's low-bit kernels serve, without a window.
LowBitChunk == Has("metal-flash") /\ call.kind = "chunk" /\ config.turboquant \in {"turbo4", "turbo3"}

\* The window of each path.
LEMMA Spans ==
  ASSUME LayersInv
  PROVE  /\ UsesFlashInfer =>
              ServedSpan = IF call.kind = "decode" THEN DefaultDecodeAttention ELSE PrefillAttention
         /\ ~UsesFlashInfer /\ (UsesFlashAttn \/ call.kind = "fresh") => ServedSpan = SpanBefore
         /\ /\ ~UsesFlashInfer /\ ~UsesFlashAttn /\ call.kind # "fresh"
            /\ Native \/ call.kind # "decode" \/ ~Has("metal")
            /\ ~LowBitChunk
            => ServedSpan = Span
         /\ LowBitChunk \/ (Conventional /\ Has("metal") /\ call.kind = "decode") => ServedSpan = 0
BY ConfigFacts DEF ServedSpan, Conventional, DefaultDecodeAttention, PrefillAttention, LowBitChunk

LEMMA CallKinds ==
  ASSUME CallInv, call # Idle
  PROVE  /\ call.kind \in {"fresh", "chunk", "decode"}
         /\ call.kind = "decode" => call.tokens = 1
         /\ call.kind = "fresh" => \A s \in Batch : len[s] = call.tokens
BY DEF CallInv, Calls

\* Over one pair of tensors, a chunk of a prompt or a decode in one part.
LEMMA SpanReads ==
  ASSUME TablesInv, CallInv, call # Idle, NEW rows, GoodRows(rows), NEW span \in Nat, span = ServedSpan,
         ~MetalChunk
  PROVE  /\ OwnAnswer(Prefill(rows, span))
         /\ call.kind = "decode" => OwnAnswer(Decode(rows, span))
<1>1. PICK chunk, token : chunk = Prefill(rows, span) /\ token = Decode(rows, span)
  OBVIOUS
<1>2. Reads(chunk, span)
  BY <1>1, PrefillReads
<1>3. call.kind = "decode" => Reads(token, span)
  BY <1>1, CallKinds, DecodeReadsRows
<1> QED
  BY <1>1, <1>2, <1>3, OwnReading

\* The same on a native path, or a decode in parts.
LEMMA NativeReads ==
  ASSUME TablesInv, CallInv, LayersInv, call # Idle, ~UsesFlashInfer, ~UsesFlashAttn, Native,
         call.kind # "fresh", ~LowBitChunk, NEW rows, GoodRows(rows)
  PROVE  /\ OwnAnswer(Prefill(rows, Span))
         /\ call.kind = "decode" => OwnAnswer(Decode(rows, Span))
         /\ call.kind = "decode" /\ Has("flash") => OwnAnswer(NativeDecode(rows))
<1>1. PICK span : span = Span
  OBVIOUS
<1>2. span \in Nat /\ span = ServedSpan /\ ~MetalChunk
  BY <1>1, ConfigFacts, Spans DEF MetalChunk, Conventional
<1>3. ASSUME call.kind = "decode", Has("flash") PROVE OwnAnswer(NativeDecode(rows))
  <2>1. PICK answer : answer = NativeDecode(rows)
    OBVIOUS
  <2>2. ASSUME NEW s \in Batch, InWorkspace(s) PROVE answer[s] = OwnContext(s, span)
    <3>1. FlashNumSplits(MaxContextLen) = 1 \/ PlaceInBatch(s) <= WorkspaceRoom
      BY <1>3, <2>2 DEF InWorkspace
    <3> QED
      BY <1>1, <1>2, <1>3, <2>1, <3>1, CallKinds, NativeDecodeReads
  <2> QED
    BY <1>2, <2>1, <2>2, ServedIs DEF OwnAnswer
<1> QED
  BY <1>1, <1>2, <1>3, SpanReads

LEMMA SdpOwn ==
  ASSUME TablesInv, CallInv, LayersInv, call # Idle, \A s \in Batch : len[s] = call.tokens,
         ServedSpan = SpanBefore, ~MetalChunk
  PROVE  OwnAnswer(SdpPrefill)
<1>1. PICK span, answer : span = SpanBefore /\ answer = SdpPrefill
  OBVIOUS
<1>2. Reads(answer, span)
  BY <1>1, ConfigFacts, SdpReads
<1> QED
  BY <1>1, <1>2, OwnReading

LEMMA FlashReads ==
  ASSUME TablesInv, CallInv, LayersInv, call # Idle, ~UsesFlashInfer, ~UsesFlashAttn, Has("flash"),
         NEW w, IsView(w), Complete(w), w.scale = 1,
         config.turboquant \in {"turbo4", "turbo3"} => w.hasTq
  PROVE  OwnAnswer(FlashAttends(w))
<1>1. /\ InStd => GoodRows(StdRows(w))
      /\ config.turboquant = "turbo8" /\ w.hasTq => GoodRows(K8V4Rows(w))
      /\ config.turboquant = "turbo4" => GoodRows(Tq4Rows(w))
      /\ config.turboquant = "turbo3" => GoodRows(Tq3Rows(w))
  BY GoodViews
<1>2. /\ config.turboquant \in {"none", "turbo8", "turbo4", "turbo3"}
      /\ call.kind \in {"fresh", "chunk", "decode"} /\ Native /\ ~LowBitChunk /\ ~MetalChunk
  BY ConfigFacts, CallKinds DEF Native, LowBitChunk, MetalChunk, Conventional
<1>3. CASE call.kind = "fresh"
  <2>1. FlashAttends(w) = SdpPrefill
    BY <1>3 DEF FlashAttends
  <2>2. OwnAnswer(SdpPrefill)
    BY <1>2, <1>3, CallKinds, Spans, SdpOwn
  <2> QED
    BY <2>1, <2>2
<1>4. CASE call.kind # "fresh" /\ config.turboquant = "turbo4"
  <2>1. PICK rows : rows = Tq4Rows(w)
    OBVIOUS
  <2>2. GoodRows(rows)
    BY <1>1, <1>4, <2>1
  <2>3. FlashAttends(w) = IF call.kind = "chunk" THEN Prefill(rows, Span) ELSE NativeDecode(rows)
    BY <1>2, <1>4, <2>1 DEF FlashAttends, FlashTq4Prefill, FlashTq4Decode
  <2> QED
    BY <1>2, <1>4, <2>2, <2>3, NativeReads
<1>5. CASE call.kind # "fresh" /\ config.turboquant = "turbo3"
  <2>1. PICK rows : rows = Tq3Rows(w)
    OBVIOUS
  <2>2. GoodRows(rows)
    BY <1>1, <1>5, <2>1
  <2>3. FlashAttends(w) = IF call.kind = "chunk" THEN Prefill(rows, Span) ELSE NativeDecode(rows)
    BY <1>2, <1>5, <2>1 DEF FlashAttends, FlashTq3Prefill, FlashTq3Decode
  <2> QED
    BY <1>2, <1>5, <2>2, <2>3, NativeReads
<1>6. CASE call.kind = "decode" /\ config.turboquant = "turbo8" /\ w.hasTq
  <2>1. PICK rows : rows = K8V4Rows(w)
    OBVIOUS
  <2>2. GoodRows(rows)
    BY <1>1, <1>6, <2>1
  <2>3. FlashAttends(w) = NativeDecode(rows)
    BY <1>6, <2>1 DEF FlashAttends, FlashTqDecodeK8V4SplitK
  <2> QED
    BY <1>2, <1>6, <2>2, <2>3, NativeReads
<1>7. CASE /\ call.kind # "fresh" /\ config.turboquant \in {"none", "turbo8"}
           /\ ~(call.kind = "decode" /\ config.turboquant = "turbo8" /\ w.hasTq)
  <2>1. PICK rows : rows = StdRows(w)
    OBVIOUS
  <2>2. GoodRows(rows)
    BY <1>1, <1>7, <2>1 DEF InStd
  <2>3. FlashAttends(w) = IF call.kind = "chunk" THEN Prefill(rows, Span) ELSE NativeDecode(rows)
    BY <1>2, <1>7, <2>1 DEF FlashAttends, FlashPrefill, FlashDecode
  <2> QED
    BY <1>2, <1>7, <2>2, <2>3, NativeReads
<1> QED
  BY <1>2, <1>3, <1>4, <1>5, <1>6, <1>7

LEMMA MetalReads ==
  ASSUME TablesInv, CallInv, LayersInv, call # Idle, Has("metal-flash"),
         NEW w, IsView(w), Complete(w), w.scale = 1,
         config.turboquant \in {"turbo4", "turbo3"} => w.hasTq
  PROVE  OwnAnswer(MetalAttends(w))
<1>1. /\ InStd => GoodRows(StdRows(w))
      /\ config.turboquant = "turbo8" /\ w.hasTq => GoodRows(K8V4Rows(w))
      /\ config.turboquant = "turbo4" => GoodRows(Tq4Rows(w))
      /\ config.turboquant = "turbo3" => GoodRows(Tq3Rows(w))
  BY GoodViews
<1>2. /\ config.turboquant \in {"none", "turbo8", "turbo4", "turbo3"}
      /\ call.kind \in {"fresh", "chunk", "decode"}
      /\ Native /\ ~UsesFlashInfer /\ ~UsesFlashAttn /\ ~MetalChunk
  BY ConfigFacts, CallKinds DEF MetalChunk, Conventional
<1>3. CASE call.kind = "fresh"
  <2>1. MetalAttends(w) = SdpPrefill
    BY <1>3 DEF MetalAttends, MetalDirect
  <2>2. OwnAnswer(SdpPrefill)
    BY <1>2, <1>3, CallKinds, Spans, SdpOwn
  <2> QED
    BY <2>1, <2>2
<1>4. CASE MetalDirect
  <2>1. MetalAttends(w) = SdpPrefill
    BY <1>4 DEF MetalAttends, MetalDirect, SdpaCausal
  <2>2. \A s \in Batch : len[s] = call.tokens
    <3>1. call.batch \in Seq(Seqs)
      BY DEF CallInv, Calls
    <3> QED
      BY <1>4, <3>1 DEF MetalDirect, Batch, Range
  <2>3. ServedSpan = SpanBefore
    BY <1>2, <1>4, ConfigFacts, Spans DEF MetalDirect, LowBitChunk
  <2>4. OwnAnswer(SdpPrefill)
    BY <1>2, <2>2, <2>3, SdpOwn
  <2> QED
    BY <2>1, <2>4
<1>5. CASE call.kind # "fresh" /\ ~MetalDirect /\ config.turboquant = "turbo4"
  <2>1. PICK rows : rows = Tq4Rows(w)
    OBVIOUS
  <2>2. GoodRows(rows)
    BY <1>1, <1>5, <2>1
  <2>3. MetalAttends(w) = IF call.kind = "chunk" THEN Prefill(rows, 0) ELSE Decode(rows, Span)
    BY <1>2, <1>5, <2>1 DEF MetalAttends, FlashTq4PrefillMetal, FlashTq4DecodeMetal
  <2>4. CASE call.kind = "chunk"
    <3>1. ServedSpan = 0
      BY <1>5, <2>4, Spans DEF LowBitChunk
    <3> QED
      BY <1>2, <2>2, <2>3, <2>4, <3>1, SpanReads
  <2>5. CASE call.kind = "decode"
    BY <1>2, <2>2, <2>3, <2>5, NativeReads DEF LowBitChunk
  <2> QED
    BY <1>2, <1>5, <2>4, <2>5
<1>6. CASE call.kind # "fresh" /\ ~MetalDirect /\ config.turboquant = "turbo3"
  <2>1. PICK rows : rows = Tq3Rows(w)
    OBVIOUS
  <2>2. GoodRows(rows)
    BY <1>1, <1>6, <2>1
  <2>3. MetalAttends(w) = IF call.kind = "chunk" THEN Prefill(rows, 0) ELSE Decode(rows, Span)
    BY <1>2, <1>6, <2>1 DEF MetalAttends, FlashTq3PrefillMetal, FlashTq3DecodeMetal
  <2>4. CASE call.kind = "chunk"
    <3>1. ServedSpan = 0
      BY <1>6, <2>4, Spans DEF LowBitChunk
    <3> QED
      BY <1>2, <2>2, <2>3, <2>4, <3>1, SpanReads
  <2>5. CASE call.kind = "decode"
    BY <1>2, <2>2, <2>3, <2>5, NativeReads DEF LowBitChunk
  <2> QED
    BY <1>2, <1>6, <2>4, <2>5
<1>7. CASE call.kind = "decode" /\ config.turboquant = "turbo8" /\ w.hasTq
  <2>1. PICK rows : rows = K8V4Rows(w)
    OBVIOUS
  <2>2. GoodRows(rows)
    BY <1>1, <1>7, <2>1
  <2>3. MetalAttends(w) = Decode(rows, Span)
    BY <1>7, <2>1 DEF MetalAttends, MetalDirect, FlashTqDecodeK8V4Metal
  <2> QED
    BY <1>2, <1>7, <2>2, <2>3, NativeReads DEF LowBitChunk
<1>8. CASE /\ call.kind # "fresh" /\ ~MetalDirect /\ config.turboquant \in {"none", "turbo8"}
           /\ ~(call.kind = "decode" /\ config.turboquant = "turbo8" /\ w.hasTq)
  <2>1. PICK rows : rows = StdRows(w)
    OBVIOUS
  <2>2. GoodRows(rows)
    BY <1>1, <1>8, <2>1 DEF InStd
  <2>3. MetalAttends(w) = IF call.kind = "chunk" THEN Prefill(rows, Span) ELSE FlashDecodeMetal(w)
    BY <1>2, <1>8, <2>1 DEF MetalAttends, FlashPrefillMetal
  <2>4. CASE call.kind = "chunk"
    BY <1>2, <1>8, <2>2, <2>3, <2>4, NativeReads DEF LowBitChunk
  <2>5. CASE call.kind = "decode"
    <3>1. PICK span, answer : span = Span /\ answer = FlashDecodeMetal(w)
      OBVIOUS
    <3>2. span \in Nat /\ call.tokens = 1 /\ GoodRows(StdRows(w))
      BY <2>1, <2>2, <2>5, <3>1, ConfigFacts, CallKinds
    <3>3. Reads(answer, span)
      BY <3>1, <3>2, MetalDecodeReads
    <3>4. span = ServedSpan
      BY <1>2, <2>5, <3>1, Spans DEF LowBitChunk
    <3> QED
      BY <1>2, <2>3, <2>5, <3>1, <3>3, <3>4, OwnReading
  <2> QED
    BY <1>2, <1>8, <2>4, <2>5
<1> QED
  BY <1>2, <1>3, <1>4, <1>5, <1>6, <1>7, <1>8

\* A chunk on Metal: every query reads up to the end of the chunk.
LEMMA MetalChunkReads ==
  ASSUME TablesInv, CallInv, LayersInv, call # Idle, MetalChunk, NEW rows, GoodRows(rows)
  PROVE  OwnAnswer(PagedAttentionPrefillMetal(rows))
<1>1. PICK span : span = Span
  OBVIOUS
<1>2. span \in Nat /\ span = ServedSpan
  <2>1. Has("metal") /\ ~Native /\ ~UsesFlashInfer /\ ~UsesFlashAttn /\ call.kind = "chunk"
    BY DEF MetalChunk, Conventional
  <2> QED
    BY <1>1, <2>1, ConfigFacts, Spans DEF LowBitChunk, Native
<1>3. ASSUME NEW s \in Batch
      PROVE  PagedAttentionPrefillMetal(rows)[s] = ServedContext(s)
  <2>1. PICK last, positions : last = len[s] - 1 /\ positions = Attended(last, span)
    OBVIOUS
  <2>2. len[s] \in Nat /\ last \in Nat /\ last < len[s]
    BY <2>1, BatchFacts
  <2>3. ReadAt(rows, s, positions) = OwnReads(s, positions)
    BY <1>2, <2>1, <2>2, QueryReads
  <2>4. \A q : OwnRows(s, ServedUpTo(s, q), ServedSpan) = OwnReads(s, positions)
    BY <1>2, <2>1 DEF OwnRows, OwnReads, ServedUpTo, MetalChunk
  <2>5. PagedAttentionPrefillMetal(rows)[s] = [q \in 1..call.tokens |-> ReadAt(rows, s, positions)]
    BY <1>1, <2>1 DEF PagedAttentionPrefillMetal
  <2> QED
    BY <2>3, <2>4, <2>5 DEF ServedContext
<1> QED
  BY <1>3 DEF OwnAnswer

\* The conventional kernels: with no window on Metal, within the window on CUDA.
LEMMA ConventionalAnswers ==
  ASSUME TablesInv, CallInv, LayersInv, call # Idle, call.kind # "fresh", Conventional, PartitionsApart,
         NEW rows, GoodRows(rows), NEW manyHeads \in BOOLEAN,
         NEW answer, answer = IF Has("metal") THEN PagedAttentionMetal(rows, manyHeads)
                              ELSE PagedAttentionCuda(rows, manyHeads)
  PROVE  OwnAnswer(answer)
<1>1. PICK span : span = Span
  OBVIOUS
<1>2. /\ call.kind \in {"chunk", "decode"} /\ span \in Nat
      /\ ~Has("metal") => ServedSpan = span /\ ~MetalChunk
      /\ call.kind = "decode" => ~MetalChunk
  BY <1>1, CallKinds, ConfigFacts, Spans DEF Conventional, MetalChunk, LowBitChunk, Native
<1>3. CASE call.kind = "chunk"
  <2>1. CASE ~Has("metal")
    <3>1. answer = Prefill(rows, span)
      BY <1>1, <1>3, <2>1 DEF PagedAttentionCuda
    <3> QED
      BY <1>2, <2>1, <3>1, SpanReads
  <2>2. CASE Has("metal")
    BY <1>3, <2>2, MetalChunkReads DEF PagedAttentionMetal, MetalChunk
  <2> QED
    BY <2>1, <2>2
<1>4. CASE call.kind = "decode" /\ ~Has("metal")
  <2>1. CASE answer = PagedAttentionV1(rows)
    BY <1>1, <1>2, <1>4, <2>1, SpanReads DEF PagedAttentionV1
  <2>2. CASE answer # PagedAttentionV1(rows)
    <3>1. ~UseV1(manyHeads) /\ answer = PagedAttentionV2(rows)
      BY <1>4, <2>2 DEF PagedAttentionCuda
    <3>2. Span = 0
      BY <1>4, <3>1, ConfigFacts DEF PartitionsApart, UseV1
    <3>3. Reads(answer, 0)
      BY <1>4, <3>1, <3>2, CallKinds, WholeReads
    <3> QED
      BY <1>1, <1>2, <1>4, <3>2, <3>3, OwnReading
  <2> QED
    BY <2>1, <2>2
<1>5. CASE call.kind = "decode" /\ Has("metal")
  <2>1. answer \in {PagedAttentionV1Metal(rows), PagedAttentionV2Metal(rows)}
    BY <1>5 DEF PagedAttentionMetal
  <2>2. Reads(answer, 0)
    BY <1>5, <2>1, CallKinds, WholeReads
  <2>3. ServedSpan = 0
    BY <1>5, Spans
  <2> QED
    BY <1>2, <1>5, <2>2, <2>3, OwnReading
<1> QED
  BY <1>2, <1>3, <1>4, <1>5

-------------------------------------------------------------------------------
(* A call of forward.                                                         *)

LEMMA LayersListed ==
  ASSUME LayersInv
  PROVE  DOMAIN layers = 1..Len(layers) /\ Len(layers) \in Nat
<1>1. PICK S : S = [index : 0..(2 * MaxLayers), scale : 1..MaxScale, updates : 0..KvScaleUpdateIteration]
  OBVIOUS
<1>2. layers \in Seq(S)
  BY <1>1 DEF LayersInv
<1> QED
  BY <1>2

LEMMA CallLayer ==
  ASSUME LayersInv, CallInv, call # Idle
  PROVE  /\ call.layer \in DOMAIN layers /\ DOMAIN layers = 1..config.size
         /\ Len(layers) = config.size /\ config.size \in Nat /\ call.layer \in 1..config.size
<1>1. call.layer \in 1..config.size /\ Len(layers) = config.size
  BY DEF CallInv
<1>2. DOMAIN layers = 1..Len(layers) /\ Len(layers) \in Nat
  BY LayersListed
<1> QED
  BY <1>1, <1>2

LEMMA LayerFacts ==
  ASSUME LayersInv, NEW l \in DOMAIN layers
  PROVE  /\ layers[l] \in [index : 0..(2 * MaxLayers), scale : 1..MaxScale,
                           updates : 0..KvScaleUpdateIteration]
         /\ layers[l].index \in Nat /\ l \in 1..config.size
<1>1. layers[l] \in [index : 0..(2 * MaxLayers), scale : 1..MaxScale, updates : 0..KvScaleUpdateIteration]
  <2>1. PICK S : S = [index : 0..(2 * MaxLayers), scale : 1..MaxScale, updates : 0..KvScaleUpdateIteration]
    OBVIOUS
  <2>2. layers \in Seq(S)
    BY <2>1 DEF LayersInv
  <2>3. layers[l] \in S
    BY <2>2
  <2> QED
    BY <2>1, <2>3
<1>2. DOMAIN layers = 1..Len(layers) /\ Len(layers) \in Nat
  BY LayersListed
<1>3. Len(layers) <= config.size /\ config.size \in Nat
  <2>1. Len(layers) <= config.size
    BY DEF LayersInv
  <2> QED
    BY <2>1, ConfigFacts
<1> QED
  BY <1>1, <1>2, <1>3, BoundsAssumption

\* No two layers share an index.
LEMMA OwnIndex ==
  ASSUME LayersInv, NEW l \in DOMAIN layers, NEW m \in DOMAIN layers, layers[l].index = layers[m].index
  PROVE  l = m
<1>1. DOMAIN layers = 1..Len(layers) /\ Len(layers) \in Nat /\ counter - Len(layers) \in 0..MaxLayers
  BY LayersListed DEF LayersInv
<1>2. PICK base : base = counter - Len(layers)
  OBVIOUS
<1>3. layers[l].index = base + l - 1 /\ layers[m].index = base + m - 1
  BY <1>2 DEF LayersInv
<1>4. base \in Nat /\ l \in Nat /\ m \in Nat
  BY <1>1, <1>2, BoundsAssumption
<1>5. base + l - 1 = base + m - 1
  BY <1>3
<1> QED
  BY <1>4, <1>5

\* The view of a layer, under its scale or the one it is about to get.
SeenBy(u, l, scale) == u = [ViewOf(l) EXCEPT !.scale = scale]

LEMMA ViewFacts ==
  ASSUME LayersInv, CachesInv, NEW l \in DOMAIN layers, NEW scale \in 1..MaxScale, NEW u, SeenBy(u, l, scale)
  PROVE  /\ IsView(u) /\ u.std = std[l] /\ u.scale = scale
         /\ u.hasTq <=> layers[l].index \in DOMAIN tq
         /\ u.hasTq => u.tq = tq[layers[l].index]
<1>1. PICK i : i = layers[l].index
  OBVIOUS
<1>2. PICK buffers : buffers = IF i \in DOMAIN tq THEN tq[i] ELSE EmptyCache(0)
  OBVIOUS
<1>3. u = [std |-> std[l], scale |-> scale, tq |-> buffers, hasTq |-> i \in DOMAIN tq]
  BY <1>1, <1>2 DEF SeenBy, ViewOf
<1>4. std[l] \in Cache(NumBlocks) /\ (i \in DOMAIN tq => tq[i] \in Cache(NumBlocks))
  BY LayerFacts DEF CachesInv
<1>5. u \in Views
  BY <1>2, <1>3, <1>4 DEF Views
<1> QED
  BY <1>1, <1>2, <1>3, <1>4, <1>5 DEF IsView

LEMMA MoreScale ==
  ASSUME NEW rows, NEW s, NEW table, NEW n, NEW fmt, NEW a \in Nat, NEW b \in Nat, a <= b,
         HasRows(rows, s, table, n, fmt, a)
  PROVE  HasRows(rows, s, table, n, fmt, b)
<1>1. \A x : x \in 1..a => x \in 1..b
  OBVIOUS
<1> QED
  BY <1>1 DEF HasRows

LEMMA ViewHeld ==
  ASSUME Shape, RowsInv, NEW s \in Seqs, ~OnCpu(s), NEW l \in DOMAIN layers,
         NEW scale \in 1..MaxScale, layers[l].scale <= scale, NEW u, SeenBy(u, l, scale),
         NEW table, table = tables[s], NEW n, n = Served(s, l)
  PROVE  ViewHolds(u, s, table, n)
<1>1. /\ StdHolds(std[l], layers[l].scale, s, table, n)
      /\ layers[l].index \in DOMAIN tq => TqHolds(tq[layers[l].index], s, table, n)
  BY DEF RowsInv
<1>2. /\ IsView(u) /\ u.std = std[l] /\ u.scale = scale
      /\ u.hasTq <=> layers[l].index \in DOMAIN tq
      /\ u.hasTq => u.tq = tq[layers[l].index]
  BY ViewFacts DEF Shape
<1>3. PICK fmt, old : fmt = StdFormat /\ old = layers[l].scale
  OBVIOUS
<1>4. old \in Nat /\ scale \in Nat /\ old <= scale
  <2>1. old \in 1..MaxScale
    BY <1>3, LayerFacts DEF Shape
  <2> QED
    BY <1>3, <2>1
<1>5. ASSUME InStd PROVE HasRows(std[l].k, s, table, n, fmt, scale) /\ HasRows(std[l].v, s, table, n, fmt, scale)
  <2>1. HasRows(std[l].k, s, table, n, fmt, old) /\ HasRows(std[l].v, s, table, n, fmt, old)
    BY <1>1, <1>3, <1>5 DEF StdHolds
  <2> QED
    BY <1>4, <2>1, MoreScale
<1> QED
  BY <1>1, <1>2, <1>3, <1>5 DEF ViewHolds, StdHolds

\* What a layer that is about to answer makes of its caches and of the call.
Outcome(u, w, layer, answer) ==
  /\ layer \in [index : 0..(2 * MaxLayers), scale : 1..MaxScale, updates : 0..KvScaleUpdateIteration]
  /\ layer.index = layers[call.layer].index /\ layers[call.layer].scale <= layer.scale
  /\ SeenBy(u, call.layer, layer.scale) /\ Keeps(u, w)
  /\ answer # Failed =>
       /\ Written(u, w)
       /\ RowsInv /\ TurboquantCovers /\ layer.scale = 1 /\ PartitionsApart
          => OwnAnswer(answer)

LEMMA KeepsItself ==
  ASSUME NEW u, IsView(u)
  PROVE  Keeps(u, u)
BY DEF Keeps, SameRows

\* What was written for a call makes the view complete.
LEMMA WrittenIsComplete ==
  ASSUME Shape, RowsInv, call # Idle, NEW scale \in 1..MaxScale, layers[call.layer].scale <= scale,
         NEW u, SeenBy(u, call.layer, scale), NEW w, Written(u, w)
  PROVE  Complete(w)
<1> SUFFICES ASSUME NEW s \in Batch, NEW table, NEW n, table = tables[s], n = len[s]
             PROVE  ViewHolds(w, s, table, n)
  BY DEF Complete
<1>1. s \in Seqs /\ ~OnCpu(s) /\ InBatch(s) /\ call.layer \in 1..config.size
  BY BatchFacts DEF Shape
<1>2. call.layer \in DOMAIN layers /\ config.size \in Nat
  BY CallLayer DEF Shape
<1>3. n - call.tokens = Served(s, call.layer)
  BY <1>1, <1>2 DEF Served
<1>4. PICK l, m : l = call.layer /\ m = n - call.tokens
  OBVIOUS
<1>5. ViewHolds(u, s, table, m)
  BY <1>1, <1>2, <1>3, <1>4, ViewHeld
<1> QED
  BY <1>4, <1>5 DEF Written

\* The facts of a layer about to answer.
LEMMA Answering ==
  ASSUME Shape, call # Idle, NEW u, NEW layer, layer = layers[call.layer], SeenBy(u, call.layer, layer.scale)
  PROVE  /\ layer \in [index : 0..(2 * MaxLayers), scale : 1..MaxScale, updates : 0..KvScaleUpdateIteration]
         /\ layer.scale \in 1..MaxScale /\ layer.scale <= layer.scale
         /\ u = ViewOf(call.layer) /\ IsView(u)
         /\ u.scale = layer.scale /\ (u.hasTq <=> layer.index \in DOMAIN tq)
<1>1. call.layer \in DOMAIN layers
  BY CallLayer DEF Shape
<1>2. layer \in [index : 0..(2 * MaxLayers), scale : 1..MaxScale, updates : 0..KvScaleUpdateIteration]
  BY <1>1, LayerFacts DEF Shape
<1>3. layer.scale \in 1..MaxScale /\ layer.scale <= layer.scale
  BY <1>2
<1>4. IsView(u) /\ u.scale = layer.scale /\ (u.hasTq <=> layer.index \in DOMAIN tq)
  BY <1>1, <1>3, ViewFacts DEF Shape
<1>5. u = ViewOf(call.layer)
  BY DEF SeenBy, ViewOf
<1> QED
  BY <1>2, <1>3, <1>4, <1>5

LEMMA CoveredHasTq ==
  ASSUME Shape, call # Idle, TurboquantCovers, config.turboquant \in {"turbo4", "turbo3"}
  PROVE  layers[call.layer].index \in DOMAIN tq
<1>1. call.layer \in DOMAIN layers
  BY CallLayer DEF Shape
<1>2. layers[call.layer].index \in Nat /\ layers[call.layer].index < TqLayers
  BY <1>1, LayerFacts DEF Shape, TurboquantCovers
<1>3. DOMAIN tq = 0..(TqLayers - 1) /\ TqLayers \in Nat
  BY BoundsAssumption DEF Shape, CachesInv
<1> QED
  BY <1>2, <1>3

\* A call by a path which leaves the scale alone, and writes u into w.
LEMMA Unscaled ==
  ASSUME Shape, call # Idle, NEW u, NEW layer, layer = layers[call.layer], SeenBy(u, call.layer, layer.scale),
         NEW w, Written(u, w), NEW answer,
         /\ IsView(w) /\ Complete(w) /\ w.scale = 1
         /\ config.turboquant \in {"turbo4", "turbo3"} => w.hasTq
         => OwnAnswer(answer)
  PROVE  Outcome(u, w, layer, answer)
<1>1. /\ layer \in [index : 0..(2 * MaxLayers), scale : 1..MaxScale, updates : 0..KvScaleUpdateIteration]
      /\ layer.scale \in 1..MaxScale /\ layer.scale <= layer.scale
      /\ u.scale = layer.scale /\ (u.hasTq <=> layer.index \in DOMAIN tq)
  BY Answering
<1>2. Keeps(u, w) /\ IsView(w) /\ w.scale = u.scale /\ w.hasTq = u.hasTq
  BY DEF Written, Keeps
<1>3. PICK scale : scale = layer.scale
  OBVIOUS
<1>4. RowsInv => Complete(w)
  BY <1>1, <1>3, WrittenIsComplete
<1>5. TurboquantCovers /\ config.turboquant \in {"turbo4", "turbo3"} => w.hasTq
  BY <1>1, <1>2, CoveredHasTq
<1> QED
  BY <1>1, <1>2, <1>4, <1>5 DEF Outcome

LEMMA FlashInferAnswers ==
  ASSUME Shape, ForwardFlashInfer
  PROVE  \E u, w, layer, answer : Answer(w, layer, answer) /\ Outcome(u, w, layer, answer)
<1>1. call # Idle /\ call.metadata /\ UsesFlashInfer
  BY DEF ForwardFlashInfer, UsesFlashInfer
<1>2. TablesInv /\ CallInv /\ LayersInv
  BY DEF Shape
<1>3. config.turboquant = "none" /\ InStd
  BY <1>1, <1>2 DEF CallInv, InStd
<1>4. PICK layer : layer = layers[call.layer]
  OBVIOUS
<1>5. PICK u : SeenBy(u, call.layer, layer.scale)
  BY DEF SeenBy
<1>6. /\ layer \in [index : 0..(2 * MaxLayers), scale : 1..MaxScale, updates : 0..KvScaleUpdateIteration]
      /\ layer.scale <= layer.scale /\ u = ViewOf(call.layer) /\ IsView(u)
  BY <1>1, <1>4, <1>5, Answering
<1>7. PICK w : w = AppendKvCache(u)
  OBVIOUS
<1>8. PICK answer : answer = IF config.paged \/ ~call.plan THEN Failed
                             ELSE IF call.kind = "decode" THEN DecodeWithPlan(w) ELSE PrefillWithPlan(w)
  OBVIOUS
<1>9. Answer(w, layer, answer)
  BY <1>4, <1>6, <1>7, <1>8 DEF ForwardFlashInfer
<1>10. CASE config.paged
  <2>1. w = u
    BY <1>7, <1>10 DEF AppendKvCache
  <2>2. Keeps(u, w)
    BY <1>6, <2>1, KeepsItself
  <2>3. answer = Failed
    BY <1>8, <1>10
  <2>4. Outcome(u, w, layer, answer)
    BY <1>4, <1>5, <1>6, <2>2, <2>3 DEF Outcome
  <2> QED
    BY <1>9, <2>4
<1>11. CASE ~config.paged
  <2>1. w = StoredInCache(u)
    BY <1>7, <1>11 DEF AppendKvCache
  <2>2. Written(u, w)
    BY <1>1, <1>2, <1>3, <1>6, <2>1, StoredInCacheWrites
  <2>3. CASE answer = Failed
    <3>1. Outcome(u, w, layer, answer)
      BY <1>4, <1>5, <1>6, <2>2, <2>3 DEF Outcome, Written
    <3> QED
      BY <1>9, <3>1
  <2>4. CASE answer # Failed
    <3>1. PICK rows : rows = StdRows(w)
      OBVIOUS
    <3>2. PICK span : span = IF call.kind = "decode" THEN DefaultDecodeAttention ELSE PrefillAttention
      OBVIOUS
    <3>3. ASSUME IsView(w), Complete(w), w.scale = 1
          PROVE  OwnAnswer(answer)
      <4>1. GoodRows(rows)
        BY <1>1, <1>2, <1>3, <3>1, <3>3, GoodViews
      <4>2. span \in Nat /\ span = ServedSpan
        BY <1>1, <1>2, <3>2, ConfigFacts, Spans
      <4>3. answer = IF call.kind = "decode" THEN Decode(rows, span) ELSE Prefill(rows, span)
        BY <1>8, <2>4, <3>1, <3>2 DEF DecodeWithPlan, PrefillWithPlan
      <4>4. ~MetalChunk
        BY <1>1 DEF MetalChunk, Conventional
      <4> QED
        BY <1>1, <1>2, <4>1, <4>2, <4>3, <4>4, SpanReads
    <3>4. Outcome(u, w, layer, answer)
      BY <1>1, <1>4, <1>5, <2>2, <3>3, Unscaled
    <3> QED
      BY <1>9, <3>4
  <2> QED
    BY <2>3, <2>4
<1> QED
  BY <1>10, <1>11

LEMMA FlashAttnAnswers ==
  ASSUME Shape, ForwardFlashAttn
  PROVE  \E u, w, layer, answer : Answer(w, layer, answer) /\ Outcome(u, w, layer, answer)
<1>1. call # Idle /\ UsesFlashAttn /\ ~UsesFlashInfer
  BY DEF ForwardFlashAttn
<1>2. TablesInv /\ CallInv /\ LayersInv
  BY DEF Shape
<1>3. config.turboquant = "none" /\ InStd
  BY <1>1, <1>2, ConfigFacts DEF InStd
<1>4. PICK layer : layer = layers[call.layer]
  OBVIOUS
<1>5. PICK u : SeenBy(u, call.layer, layer.scale)
  BY DEF SeenBy
<1>6. u = ViewOf(call.layer) /\ IsView(u)
  BY <1>1, <1>4, <1>5, Answering
<1>7. PICK w : w = StoredInCache(u)
  OBVIOUS
<1>8. PICK rows : rows = StdRows(w)
  OBVIOUS
<1>9. PICK span, answer :
        /\ span = SpanBefore
        /\ answer = CASE call.kind = "fresh" -> SdpPrefill
                      [] call.kind = "chunk" -> Prefill(rows, span)
                      [] call.kind = "decode" -> Decode(rows, span)
  OBVIOUS
<1>10. Answer(w, layer, answer)
  BY <1>4, <1>6, <1>7, <1>8, <1>9 DEF ForwardFlashAttn, FlashVarLen
<1>11. Written(u, w)
  BY <1>1, <1>2, <1>3, <1>6, <1>7, StoredInCacheWrites
<1>12. ASSUME IsView(w), Complete(w), w.scale = 1
       PROVE  OwnAnswer(answer)
  <2>1. GoodRows(rows)
    BY <1>1, <1>2, <1>3, <1>8, <1>12, GoodViews
  <2>2. call.kind \in {"fresh", "chunk", "decode"}
    BY <1>1, <1>2, CallKinds
  <2>3. span \in Nat /\ span = ServedSpan /\ ~MetalChunk
    BY <1>1, <1>2, <1>9, ConfigFacts, Spans DEF MetalChunk, Conventional
  <2>4. CASE call.kind = "fresh"
    BY <1>1, <1>2, <1>9, <2>3, <2>4, CallKinds, SdpOwn
  <2>5. CASE call.kind \in {"chunk", "decode"}
    BY <1>1, <1>2, <1>9, <2>1, <2>3, <2>5, SpanReads
  <2> QED
    BY <2>2, <2>4, <2>5
<1>13. Outcome(u, w, layer, answer)
  BY <1>1, <1>4, <1>5, <1>11, <1>12, Unscaled
<1> QED
  BY <1>10, <1>13

LEMMA NativeAnswers ==
  ASSUME Shape, ForwardFlash \/ ForwardMetal
  PROVE  \E u, w, layer, answer : Answer(w, layer, answer) /\ Outcome(u, w, layer, answer)
<1>1. call # Idle
  BY DEF ForwardFlash, ForwardMetal
<1>2. TablesInv /\ CallInv /\ LayersInv
  BY DEF Shape
<1>3. PICK layer : layer = layers[call.layer]
  OBVIOUS
<1>4. PICK u : SeenBy(u, call.layer, layer.scale)
  BY DEF SeenBy
<1>5. u = ViewOf(call.layer) /\ IsView(u)
  BY <1>1, <1>3, <1>4, Answering
<1>6. CASE ForwardFlash
  <2>1. PICK w : w = FlashWrites(u)
    OBVIOUS
  <2>2. PICK answer : answer = FlashAttends(w)
    OBVIOUS
  <2>3. Answer(w, layer, answer)
    BY <1>3, <1>5, <1>6, <2>1, <2>2 DEF ForwardFlash
  <2>4. Written(u, w)
    BY <1>1, <1>2, <1>5, <2>1, FlashWritesAll
  <2>5. ASSUME IsView(w), Complete(w), w.scale = 1,
               config.turboquant \in {"turbo4", "turbo3"} => w.hasTq
        PROVE  OwnAnswer(answer)
    BY <1>1, <1>2, <1>6, <2>2, <2>5, FlashReads DEF ForwardFlash
  <2>6. Outcome(u, w, layer, answer)
    BY <1>1, <1>3, <1>4, <2>4, <2>5, Unscaled
  <2> QED
    BY <2>3, <2>6
<1>7. CASE ForwardMetal
  <2>1. PICK w : w = MetalWrites(u)
    OBVIOUS
  <2>2. PICK answer : answer = MetalAttends(w)
    OBVIOUS
  <2>3. Answer(w, layer, answer)
    BY <1>3, <1>5, <1>7, <2>1, <2>2 DEF ForwardMetal
  <2>4. Written(u, w)
    BY <1>1, <1>2, <1>5, <2>1, MetalWritesAll
  <2>5. ASSUME IsView(w), Complete(w), w.scale = 1,
               config.turboquant \in {"turbo4", "turbo3"} => w.hasTq
        PROVE  OwnAnswer(answer)
    BY <1>1, <1>2, <1>7, <2>2, <2>5, MetalReads DEF ForwardMetal
  <2>6. Outcome(u, w, layer, answer)
    BY <1>1, <1>3, <1>4, <2>4, <2>5, Unscaled
  <2> QED
    BY <2>3, <2>6
<1> QED
  BY <1>6, <1>7

LEMMA UpdatedLayer ==
  ASSUME LayersInv, NEW old, NEW layer, layer \in MaybeUpdateKvScales(old),
         old \in [index : 0..(2 * MaxLayers), scale : 1..MaxScale, updates : 0..KvScaleUpdateIteration]
  PROVE  /\ layer \in [index : 0..(2 * MaxLayers), scale : 1..MaxScale, updates : 0..KvScaleUpdateIteration]
         /\ layer.index = old.index /\ old.scale <= layer.scale
<1>1. old.scale \in 1..MaxScale /\ old.updates \in 0..KvScaleUpdateIteration /\ MaxScale \in Nat
      /\ KvScaleUpdateIteration \in Nat
  BY BoundsAssumption
<1>2. CASE layer = old
  BY <1>1, <1>2
<1>3. CASE layer # old
  <2>1. old.updates < KvScaleUpdateIteration
    BY <1>3 DEF MaybeUpdateKvScales
  <2>2. PICK x \in old.scale..MaxScale : layer = [old EXCEPT !.scale = x, !.updates = @ + 1]
    BY <1>3 DEF MaybeUpdateKvScales
  <2>3. layer = [index |-> old.index, scale |-> x, updates |-> old.updates + 1]
    BY <2>2
  <2>4. x \in 1..MaxScale /\ old.updates + 1 \in 0..KvScaleUpdateIteration /\ old.scale <= x
    BY <1>1, <2>1
  <2>5. old.index \in 0..(2 * MaxLayers)
    OBVIOUS
  <2> QED
    BY <2>3, <2>4, <2>5
<1> QED
  BY <1>2, <1>3

LEMMA ConventionalCallAnswers ==
  ASSUME Shape, ForwardConventional
  PROVE  \E u, w, layer, answer : Answer(w, layer, answer) /\ Outcome(u, w, layer, answer)
<1>1. call # Idle /\ ~UsesFlashInfer /\ ~UsesFlashAttn /\ ~Native
  BY DEF ForwardConventional
<1>2. TablesInv /\ CallInv /\ LayersInv
  BY DEF Shape
<1>3. config.turboquant = "none" /\ InStd
  BY <1>1, <1>2, ConfigFacts DEF InStd
<1>4. PICK old : old = layers[call.layer]
  OBVIOUS
<1>5. old \in [index : 0..(2 * MaxLayers), scale : 1..MaxScale, updates : 0..KvScaleUpdateIteration]
  BY <1>1, <1>2, <1>4, CallLayer, LayerFacts
<1>6. PICK layer \in MaybeUpdateKvScales(old), manyHeads \in BOOLEAN :
        LET u == [ViewOf(call.layer) EXCEPT !.scale = layer.scale]
            w == IF Has("metal") THEN StoredInCacheMetal(u) ELSE StoredInCache(u)
        IN Answer(w, layer,
                  IF call.kind = "fresh" THEN SdpPrefill
                  ELSE IF ~config.paged THEN Failed
                  ELSE IF Has("metal") THEN PagedAttentionMetal(StdRows(w), manyHeads)
                  ELSE PagedAttentionCuda(StdRows(w), manyHeads))
  BY <1>4 DEF ForwardConventional
<1>7. /\ layer \in [index : 0..(2 * MaxLayers), scale : 1..MaxScale, updates : 0..KvScaleUpdateIteration]
      /\ layer.index = old.index /\ old.scale <= layer.scale
  BY <1>2, <1>5, UpdatedLayer
<1>8. PICK u : u = [ViewOf(call.layer) EXCEPT !.scale = layer.scale]
  OBVIOUS
<1>9. PICK scale : scale = layer.scale
  OBVIOUS
<1>10. SeenBy(u, call.layer, scale) /\ scale \in 1..MaxScale /\ call.layer \in DOMAIN layers /\ CachesInv
  BY <1>1, <1>2, <1>7, <1>8, <1>9, CallLayer DEF SeenBy, Shape
<1>11. IsView(u) /\ u.scale = scale
  <2>1. PICK l : l = call.layer
    OBVIOUS
  <2> QED
    BY <1>2, <1>10, <2>1, ViewFacts
<1>12. PICK w : w = StoredInCache(u)
  OBVIOUS
<1>13. PICK rows : rows = StdRows(w)
  OBVIOUS
<1>14. PICK answer : answer = IF call.kind = "fresh" THEN SdpPrefill
                              ELSE IF ~config.paged THEN Failed
                              ELSE IF Has("metal") THEN PagedAttentionMetal(rows, manyHeads)
                              ELSE PagedAttentionCuda(rows, manyHeads)
  OBVIOUS
<1>15. Answer(w, layer, answer)
  BY <1>6, <1>8, <1>12, <1>13, <1>14 DEF StoredInCacheMetal
<1>16. Written(u, w)
  BY <1>1, <1>2, <1>3, <1>11, <1>12, StoredInCacheWrites
<1>17. Keeps(u, w) /\ IsView(w) /\ w.scale = scale
  BY <1>11, <1>16 DEF Written, Keeps
<1>18. RowsInv => Complete(w)
  BY <1>1, <1>4, <1>7, <1>9, <1>10, <1>16, WrittenIsComplete
<1>19. ASSUME RowsInv, answer # Failed, layer.scale = 1, PartitionsApart
       PROVE  OwnAnswer(answer)
  <2>1. GoodRows(rows)
    BY <1>1, <1>2, <1>3, <1>9, <1>13, <1>17, <1>18, <1>19, GoodViews
  <2>2. CASE call.kind = "fresh"
    BY <1>1, <1>2, <1>14, <2>2, CallKinds, Spans, SdpOwn DEF MetalChunk
  <2>3. CASE call.kind # "fresh"
    <3>1. Conventional
      BY <1>1 DEF Conventional
    <3>2. answer = IF Has("metal") THEN PagedAttentionMetal(rows, manyHeads)
                   ELSE PagedAttentionCuda(rows, manyHeads)
      BY <1>14, <1>19, <2>3
    <3> QED
      BY <1>1, <1>2, <1>19, <2>1, <2>3, <3>1, <3>2, ConventionalAnswers
  <2> QED
    BY <2>2, <2>3
<1>20. Outcome(u, w, layer, answer)
  BY <1>4, <1>7, <1>9, <1>10, <1>16, <1>17, <1>19 DEF Outcome
<1> QED
  BY <1>15, <1>20

\* Whichever path serves it, a call answers with the context of its sequences.
LEMMA ForwardAnswers ==
  ASSUME Shape, Forward
  PROVE  \E u, w, layer, answer : Answer(w, layer, answer) /\ Outcome(u, w, layer, answer)
BY FlashInferAnswers, FlashAttnAnswers, NativeAnswers, ConventionalCallAnswers DEF Forward

LEMMA CallSteps ==
  ASSUME Shape, call # Idle, [Next]_vars
  PROVE  Forward \/ UNCHANGED vars
<1>1. Len(layers) = config.size /\ config.size >= 1
  BY CallLayer, ConfigFacts DEF Shape
<1>2. ~New
  BY <1>1 DEF New, Shape, LayersInv
<1>3. ~ResetPagedAttentionLayerCounter
  BY <1>1 DEF ResetPagedAttentionLayerCounter
<1>4. ~StartPrefill /\ ~StartDecode
  BY ZenonT(40) DEF StartPrefill, StartDecode, Start, Ready
<1>5. ~\E s \in Seqs : SwapOut(s) \/ SwapIn(s) \/ MoveBlocks(s) \/ FreeSequence(s)
  BY DEF SwapOut, SwapIn, MoveBlocks, FreeSequence, Ready
<1>6. ~\E b \in 0..(NumBlocks - 1) : ClearBlocks(b)
  BY DEF ClearBlocks, Ready
<1> QED
  BY <1>2, <1>3, <1>4, <1>5, <1>6 DEF Next

\* A step of forward reads what it should.
LEMMA StepReads ==
  ASSUME Shape, RowsInv, [Next]_vars, ~UNCHANGED vars, out' # Idle, out' # Failed, call # Idle,
         TurboquantCovers, StableScale', PartitionsApart
  PROVE  \A s \in Batch : InWorkspace(s) => out'[s] = ServedContext(s)
<1>1. Forward
  BY CallSteps
<1>2. PICK u, w, layer, answer : Answer(w, layer, answer) /\ Outcome(u, w, layer, answer)
  BY <1>1, ForwardAnswers
<1>3. out' = answer /\ layers' = [layers EXCEPT ![call.layer] = layer]
  BY <1>2 DEF Answer
<1>4. layer.scale = 1
  <2>1. call.layer \in DOMAIN layers /\ DOMAIN layers' = DOMAIN layers
    BY <1>3, CallLayer DEF Shape
  <2>2. layers'[call.layer] = layer
    BY <1>3, <2>1
  <2> QED
    BY <2>1, <2>2 DEF StableScale
<1>5. OwnAnswer(answer)
  BY <1>2, <1>3, <1>4 DEF Outcome
<1> QED
  BY <1>3, <1>5 DEF OwnAnswer

-------------------------------------------------------------------------------
(* The steps preserve the invariant.                                         *)

\* What RowsInv asks of a sequence and a layer, now and after the step.
Held(s, l) ==
  \A c, d, scale, table, n :
    /\ c = IF OnCpu(s) THEN cpu[l] ELSE std[l]
    /\ d = tq[layers[l].index] /\ scale = layers[l].scale /\ table = tables[s] /\ n = Served(s, l)
    => StdHolds(c, scale, s, table, n) /\ (layers[l].index \in DOMAIN tq => TqHolds(d, s, table, n))
HeldNext(s, l) ==
  \A c, d, scale, table, n :
    /\ c = IF place'[s] = "swapped" THEN cpu'[l] ELSE std'[l]
    /\ d = tq'[layers'[l].index] /\ scale = layers'[l].scale /\ table = tables'[s] /\ n = Served(s, l)'
    => StdHolds(c, scale, s, table, n) /\ (layers'[l].index \in DOMAIN tq' => TqHolds(d, s, table, n))

LEMMA RowsNow ==
  ASSUME RowsInv, NEW s \in Seqs, NEW l \in DOMAIN layers
  PROVE  Held(s, l)
BY DEF RowsInv, Held

LEMMA RowsNext ==
  ASSUME config' = config, \A s \in Seqs, l \in DOMAIN layers' : HeldNext(s, l)
  PROVE  RowsInv'
<1> SUFFICES ASSUME NEW s \in Seqs, NEW l \in DOMAIN layers'
             PROVE  /\ StdHolds(IF OnCpu(s) THEN cpu[l] ELSE std[l], layers[l].scale, s, tables[s], Served(s, l))'
                    /\ layers'[l].index \in DOMAIN tq' => TqHolds(tq[layers[l].index], s, tables[s], Served(s, l))'
  BY DEF RowsInv
<1>1. PICK c, d, scale, table, n :
        /\ c = IF place'[s] = "swapped" THEN cpu'[l] ELSE std'[l]
        /\ d = tq'[layers'[l].index] /\ scale = layers'[l].scale /\ table = tables'[s] /\ n = Served(s, l)'
  OBVIOUS
<1>2. HeldNext(s, l)
  OBVIOUS
<1>3. StdHolds(c, scale, s, table, n) /\ (layers'[l].index \in DOMAIN tq' => TqHolds(d, s, table, n))
  BY <1>1, <1>2 DEF HeldNext
<1>4. StdHolds(IF OnCpu(s) THEN cpu[l] ELSE std[l], layers[l].scale, s, tables[s], Served(s, l))'
  BY <1>1, <1>3 DEF StdHolds, InStd, StdFormat, OnCpu
<1>5. layers'[l].index \in DOMAIN tq' => TqHolds(tq[layers[l].index], s, tables[s], Served(s, l))'
  BY <1>1, <1>3 DEF TqHolds
<1> QED
  BY <1>4, <1>5

\* No blocks are needed for no tokens.
LEMMA CeilDivZero ==
  CeilDiv(0, BlockSize) = 0
<1>1. BlockSize \in Nat \ {0}
  BY BlockSizeAssumption
<1>2. PICK r, q : r = BlockSize - 1 /\ q = 0
  OBVIOUS
<1>3. r \in Nat /\ r \in 0..(BlockSize - 1) /\ q \in Int /\ r = BlockSize * q + r
  BY <1>1, <1>2
<1>4. r \div BlockSize = q
  BY <1>1, <1>3, DivUnique
<1> QED
  BY <1>1, <1>2, <1>4 DEF CeilDiv

\* Sequences that keep their tables, and sequences that lose them.
LEMMA TablesShrink ==
  ASSUME TablesInv, config' = config, len' \in [Seqs -> 0..MaxLen],
         place' \in [Seqs -> {"new", "running", "swapped", "done"}], tables' \in [Seqs -> Seq(Nat)],
         \A s \in Seqs : \/ tables'[s] = tables[s] /\ len'[s] = len[s] /\ (OnCpu(s)' <=> OnCpu(s))
                         \/ tables'[s] = <<>> /\ len'[s] = 0 /\ ~OnCpu(s)',
         \A s \in Seqs : place'[s] = "new" /\ ~InBatch(s)' => len'[s] = 0
  PROVE  TablesInv'
<1>1. CeilDiv(0, BlockSize) = 0
  BY CeilDivZero
<1>2. \A s \in Seqs : Len(tables'[s]) = CeilDiv(len'[s], BlockSize)
  BY <1>1 DEF TablesInv
<1>3. ASSUME NEW s \in Seqs, NEW i \in DOMAIN tables'[s]
      PROVE  /\ tables'[s] = tables[s] /\ (OnCpu(s)' <=> OnCpu(s))
             /\ tables'[s][i] \in 0..(BlocksOf(s)' - 1)
  <2>1. tables'[s] = tables[s] /\ (OnCpu(s)' <=> OnCpu(s))
    BY <1>3
  <2>2. BlocksOf(s)' = BlocksOf(s)
    BY <2>1 DEF BlocksOf
  <2> QED
    BY <1>3, <2>1, <2>2 DEF TablesInv
<1>4. ASSUME NEW s \in Seqs, NEW r \in Seqs, NEW i \in DOMAIN tables'[s], NEW j \in DOMAIN tables'[r],
             OnCpu(s)' <=> OnCpu(r)', tables'[s][i] = tables'[r][j]
      PROVE  s = r /\ i = j
  <2>1. /\ tables'[s] = tables[s] /\ (OnCpu(s)' <=> OnCpu(s))
        /\ tables'[r] = tables[r] /\ (OnCpu(r)' <=> OnCpu(r))
    BY <1>3
  <2> QED
    BY <1>4, <2>1 DEF TablesInv
<1>5. \A s \in Seqs : OnCpu(s)' => config'.turboquant = "none"
  BY DEF TablesInv
<1> QED
  BY <1>2, <1>3, <1>4, <1>5 DEF TablesInv

\* What an answer leaves of the sequences.
LEMMA AnswerSequences ==
  ASSUME Shape, call # Idle, NEW w, NEW layer, NEW answer, Answer(w, layer, answer), NEW s \in Seqs
  PROVE  /\ s \notin Batch => place'[s] = place[s] /\ tables'[s] = tables[s] /\ len'[s] = len[s]
         /\ s \in Batch /\ answer # Failed =>
              place'[s] = "running" /\ tables'[s] = tables[s] /\ len'[s] = len[s]
         /\ s \in Batch /\ answer = Failed => place'[s] = "done" /\ tables'[s] = <<>> /\ len'[s] = 0
         /\ s \in Batch => place[s] \in {"new", "running"}
<1>1. place' = [r \in Seqs |-> IF r \notin Batch THEN place[r]
                               ELSE IF answer = Failed THEN "done" ELSE "running"]
  BY DEF Answer
<1>2. tables' = IF answer = Failed THEN [r \in Seqs |-> IF r \in Batch THEN <<>> ELSE tables[r]] ELSE tables
  BY DEF Answer
<1>3. len' = IF answer = Failed THEN [r \in Seqs |-> IF r \in Batch THEN 0 ELSE len[r]] ELSE len
  BY DEF Answer
<1>4. s \in Batch => place[s] \in {"new", "running"}
  BY DEF Shape, CallInv
<1> QED
  BY <1>1, <1>2, <1>3, <1>4

LEMMA AnswerTables ==
  ASSUME Shape, call # Idle, NEW w, NEW layer, NEW answer, Answer(w, layer, answer)
  PROVE  TablesInv'
<1>1. TablesInv /\ config' = config
  BY DEF Shape, Answer
<1>2. /\ place' = [r \in Seqs |-> IF r \notin Batch THEN place[r]
                                  ELSE IF answer = Failed THEN "done" ELSE "running"]
      /\ tables' = IF answer = Failed THEN [r \in Seqs |-> IF r \in Batch THEN <<>> ELSE tables[r]] ELSE tables
      /\ len' = IF answer = Failed THEN [r \in Seqs |-> IF r \in Batch THEN 0 ELSE len[r]] ELSE len
  BY DEF Answer
<1>3. MaxLen \in Nat
  BY BoundsAssumption
<1>4. len' \in [Seqs -> 0..MaxLen]
  <2>1. len \in [Seqs -> 0..MaxLen]
    BY <1>1 DEF TablesInv
  <2> QED
    BY <1>2, <1>3, <2>1
<1>5. place' \in [Seqs -> {"new", "running", "swapped", "done"}]
  BY <1>1, <1>2 DEF TablesInv
<1>6. tables' \in [Seqs -> Seq(Nat)]
  <2>1. tables \in [Seqs -> Seq(Nat)] /\ <<>> \in Seq(Nat)
    BY <1>1 DEF TablesInv
  <2> QED
    BY <1>2, <2>1
<1>7. ASSUME NEW s \in Seqs
      PROVE  /\ \/ tables'[s] = tables[s] /\ len'[s] = len[s] /\ (OnCpu(s)' <=> OnCpu(s))
                \/ tables'[s] = <<>> /\ len'[s] = 0 /\ ~OnCpu(s)'
             /\ place'[s] = "new" /\ ~InBatch(s)' => len'[s] = 0
  <2>1. CASE s \notin Batch
    <3>1. place'[s] = place[s] /\ tables'[s] = tables[s] /\ len'[s] = len[s]
      BY <2>1, AnswerSequences
    <3>2. place[s] = "new" => len[s] = 0
      BY <1>1, <2>1 DEF TablesInv, InBatch
    <3> QED
      BY <3>1, <3>2 DEF OnCpu
  <2>2. CASE s \in Batch
    <3>1. /\ answer # Failed => place'[s] = "running" /\ tables'[s] = tables[s] /\ len'[s] = len[s]
          /\ answer = Failed => place'[s] = "done" /\ tables'[s] = <<>> /\ len'[s] = 0
          /\ place[s] \in {"new", "running"}
      BY <2>2, AnswerSequences
    <3> QED
      BY <3>1 DEF OnCpu
  <2> QED
    BY <2>1, <2>2
<1> QED
  BY <1>1, <1>4, <1>5, <1>6, <1>7, TablesShrink

LEMMA AnswerCall ==
  ASSUME Shape, call # Idle, NEW w, NEW layer, NEW answer, Answer(w, layer, answer)
  PROVE  CallInv'
<1> SUFFICES ASSUME call' # Idle PROVE CallInv'
  BY DEF CallInv
<1>1. /\ CallInv /\ config' = config /\ layers' = [layers EXCEPT ![call.layer] = layer]
      /\ answer # Failed /\ call.layer # config.size /\ call' = [call EXCEPT !.layer = call.layer + 1]
  BY DEF Shape, Answer
<1>2. call \in Calls /\ call.layer \in 1..config.size /\ config.size \in Nat /\ Len(layers) = config.size
  BY <1>1, ConfigFacts DEF CallInv, Shape
<1>3. /\ call'.kind = call.kind /\ call'.batch = call.batch /\ call'.tokens = call.tokens
      /\ call'.metadata = call.metadata /\ call'.layer = call.layer + 1 /\ call' \in Calls
  <2>1. call.layer + 1 \in Nat
    BY <1>2
  <2> QED
    BY <1>1, <1>2, <2>1 DEF Calls
<1>4. call'.layer \in 1..config.size
  BY <1>1, <1>2, <1>3
<1>5. Batch' = Batch
  BY <1>3 DEF Batch
<1>6. Batch \subseteq Seqs
  BY BatchFacts DEF Shape
<1>7. \A s \in Batch : place'[s] \in {"new", "running"} /\ len'[s] = len[s]
  BY <1>1, <1>6, AnswerSequences
<1>8. Len(layers') = config.size
  <2>1. PICK S : layers \in Seq(S)
    BY DEF Shape, LayersInv
  <2>2. Len(layers') = Len(layers)
    BY <1>1, <2>1
  <2> QED
    BY <1>2, <2>2
<1> QED
  BY <1>1, <1>3, <1>4, <1>5, <1>7, <1>8 DEF CallInv

LEMMA AnswerLayers ==
  ASSUME Shape, call # Idle, NEW u, NEW w, NEW layer, NEW answer, Answer(w, layer, answer),
         Outcome(u, w, layer, answer)
  PROVE  /\ LayersInv' /\ Len(layers') = Len(layers) /\ DOMAIN layers' = DOMAIN layers
         /\ layers'[call.layer] = layer
         /\ \A l \in DOMAIN layers : l # call.layer => layers'[l] = layers[l]
<1>1. /\ LayersInv /\ config' = config /\ layers' = [layers EXCEPT ![call.layer] = layer] /\ counter' = counter
  BY DEF Shape, Answer
<1>2. call.layer \in DOMAIN layers
  BY CallLayer DEF Shape
<1>3. PICK S : S = [index : 0..(2 * MaxLayers), scale : 1..MaxScale, updates : 0..KvScaleUpdateIteration]
  OBVIOUS
<1>4. layers \in Seq(S) /\ layer \in S /\ layer.index = layers[call.layer].index
  BY <1>1, <1>3 DEF LayersInv, Outcome
<1>5. layers' \in Seq(S) /\ Len(layers') = Len(layers) /\ DOMAIN layers' = DOMAIN layers
  BY <1>1, <1>2, <1>4
<1>6. /\ layers'[call.layer] = layer
      /\ \A l \in DOMAIN layers : l # call.layer => layers'[l] = layers[l]
  BY <1>1, <1>2, <1>4
<1>7. \A l \in DOMAIN layers : layers'[l].index = layers[l].index
  BY <1>4, <1>6
<1>8. (\E s \in Seqs : len'[s] > 0) => Len(layers) = config.size
  BY CallLayer DEF Shape
<1>9. LayersInv'
  BY <1>1, <1>3, <1>5, <1>7, <1>8 DEF LayersInv
<1> QED
  BY <1>5, <1>6, <1>9

LEMMA AnswerCaches ==
  ASSUME Shape, call # Idle, NEW u, NEW w, NEW layer, NEW answer, Answer(w, layer, answer),
         Outcome(u, w, layer, answer)
  PROVE  /\ CachesInv' /\ cpu' = cpu /\ DOMAIN tq' = DOMAIN tq
         /\ std'[call.layer] = w.std
         /\ \A l \in DOMAIN layers : l # call.layer => std'[l] = std[l]
         /\ u.std = std[call.layer] /\ u.scale = layer.scale /\ w.scale = layer.scale
         /\ u.hasTq <=> layer.index \in DOMAIN tq
         /\ w.hasTq <=> layer.index \in DOMAIN tq
         /\ layer.index \in DOMAIN tq => u.tq = tq[layer.index] /\ tq'[layer.index] = w.tq
         /\ \A i \in DOMAIN tq : i # layer.index => tq'[i] = tq[i]
<1>1. /\ config' = config /\ cpu' = cpu /\ std' = [std EXCEPT ![call.layer] = w.std]
      /\ tq' = IF w.hasTq THEN [tq EXCEPT ![layer.index] = w.tq] ELSE tq
  BY DEF Answer
<1>2. /\ call.layer \in DOMAIN layers /\ call.layer \in 1..config.size /\ DOMAIN layers = 1..config.size
  BY CallLayer DEF Shape
<1>3. /\ SeenBy(u, call.layer, layer.scale) /\ Keeps(u, w) /\ layer.scale \in 1..MaxScale
      /\ layer.index = layers[call.layer].index
  BY DEF Outcome
<1>4. /\ IsView(u) /\ u.std = std[call.layer] /\ u.scale = layer.scale
      /\ u.hasTq <=> layer.index \in DOMAIN tq
      /\ u.hasTq => u.tq = tq[layer.index]
  <2>1. PICK l, scale : l = call.layer /\ scale = layer.scale
    OBVIOUS
  <2>2. /\ IsView(u) /\ u.std = std[l] /\ u.scale = scale
        /\ u.hasTq <=> layers[l].index \in DOMAIN tq
        /\ u.hasTq => u.tq = tq[layers[l].index]
    BY <1>2, <1>3, <2>1, ViewFacts DEF Shape
  <2> QED
    BY <1>3, <2>1, <2>2
<1>5. /\ IsView(w) /\ w.scale = u.scale /\ w.hasTq = u.hasTq
      /\ w.std \in Cache(NumBlocks) /\ (w.hasTq => w.tq \in Cache(NumBlocks))
  BY <1>3 DEF Keeps, IsView, Views
<1>6. PICK C, D : C = Cache(NumBlocks) /\ D = Cache(NumCpuBlocks)
  OBVIOUS
<1>7. /\ std \in [1..config.size -> C] /\ cpu \in [1..config.size -> D]
      /\ tq \in [0..(TqLayers - 1) -> C]
  BY <1>6 DEF Shape, CachesInv
<1>8. std' \in [1..config.size -> C] /\ tq' \in [0..(TqLayers - 1) -> C] /\ DOMAIN tq' = DOMAIN tq
  BY <1>1, <1>2, <1>5, <1>6, <1>7
<1>9. CachesInv'
  BY <1>1, <1>6, <1>7, <1>8 DEF CachesInv
<1>10. /\ std'[call.layer] = w.std
       /\ \A l \in DOMAIN layers : l # call.layer => std'[l] = std[l]
  BY <1>1, <1>2, <1>7
<1>11. /\ layer.index \in DOMAIN tq => tq'[layer.index] = w.tq
       /\ \A i \in DOMAIN tq : i # layer.index => tq'[i] = tq[i]
  BY <1>1, <1>4, <1>5, <1>7
<1> QED
  BY <1>1, <1>4, <1>5, <1>8, <1>9, <1>10, <1>11

LEMMA KeptRows ==
  ASSUME TablesInv, NEW s \in Seqs, s \notin Batch, ~OnCpu(s), NEW rows, NEW new, SameRows(rows, new),
         NEW table, table = tables[s], NEW n, n = len[s], NEW fmt, NEW scale,
         HasRows(rows, s, table, n, fmt, scale)
  PROVE  HasRows(new, s, table, n, fmt, scale)
<1>1. ASSUME NEW p \in 0..(n - 1)
      PROVE  new[RowAt(table, p)] = rows[RowAt(table, p)]
  <2>1. Row(s, p) = RowAt(table, p)
    BY DEF Row, RowAt
  <2>2. new[Row(s, p)] = rows[Row(s, p)]
    BY DEF SameRows
  <2> QED
    BY <2>1, <2>2
<1> QED
  BY <1>1 DEF HasRows

LEMMA KeptView ==
  ASSUME TablesInv, NEW s \in Seqs, s \notin Batch, ~OnCpu(s), NEW u, NEW w, Keeps(u, w),
         NEW table, table = tables[s], NEW n, n = len[s], ViewHolds(u, s, table, n)
  PROVE  ViewHolds(w, s, table, n)
<1>1. /\ w.scale = u.scale /\ w.hasTq = u.hasTq
      /\ SameRows(u.std.k, w.std.k) /\ SameRows(u.std.v, w.std.v)
      /\ w.hasTq => SameRows(u.tq.k, w.tq.k) /\ SameRows(u.tq.v, w.tq.v)
  BY DEF Keeps
<1>2. PICK fmt : fmt = StdFormat
  OBVIOUS
<1>3. ASSUME InStd PROVE HasRows(w.std.k, s, table, n, fmt, w.scale) /\ HasRows(w.std.v, s, table, n, fmt, w.scale)
  <2>1. HasRows(u.std.k, s, table, n, fmt, u.scale) /\ HasRows(u.std.v, s, table, n, fmt, u.scale)
    BY <1>2, <1>3 DEF ViewHolds, StdHolds
  <2> QED
    BY <1>1, <2>1, KeptRows
<1>4. ASSUME w.hasTq PROVE TqHolds(w.tq, s, table, n)
  <2>1. TqHolds(u.tq, s, table, n) /\ SameRows(u.tq.k, w.tq.k) /\ SameRows(u.tq.v, w.tq.v)
    BY <1>1, <1>4 DEF ViewHolds
  <2>2. ASSUME NEW f, HasRows(u.tq.k, s, table, n, f, 1) PROVE HasRows(w.tq.k, s, table, n, f, 1)
    BY <2>1, <2>2, KeptRows
  <2>3. ASSUME NEW f, HasRows(u.tq.v, s, table, n, f, 1) PROVE HasRows(w.tq.v, s, table, n, f, 1)
    BY <2>1, <2>3, KeptRows
  <2> QED
    BY <2>1, <2>2, <2>3 DEF TqHolds
<1> QED
  BY <1>2, <1>3, <1>4 DEF ViewHolds, StdHolds

\* A sequence of which nothing is stored is stored anywhere.
LEMMA NothingHeld ==
  ASSUME NEW c, NEW d, NEW scale, NEW s, NEW table, NEW n, n = 0
  PROVE  StdHolds(c, scale, s, table, n) /\ TqHolds(d, s, table, n)
<1>1. 0..(n - 1) = {}
  OBVIOUS
<1> QED
  BY <1>1 DEF StdHolds, TqHolds, HasRows

\* What an answer makes of the tokens the layers have been given.
LEMMA AnswerServes ==
  ASSUME Shape, call # Idle, NEW w, NEW layer, NEW answer, Answer(w, layer, answer), NEW s \in Seqs,
         NEW l \in DOMAIN layers
  PROVE  /\ s \notin Batch => Served(s, l) = len[s] /\ Served(s, l)' = len'[s]
         /\ answer = Failed => Served(s, l)' = len'[s]
         /\ s \in Batch /\ l = call.layer => /\ Served(s, l) = len[s] - call.tokens
                                             /\ Served(s, l)' = len'[s]
         /\ s \in Batch /\ l # call.layer /\ answer # Failed => Served(s, l)' = Served(s, l)
<1>1. /\ call.layer \in 1..config.size /\ config.size \in Nat /\ DOMAIN layers = 1..config.size
  BY CallLayer DEF Shape
<1>2. call' = IF answer = Failed \/ call.layer = config.size THEN Idle ELSE [call EXCEPT !.layer = call.layer + 1]
  BY DEF Answer
<1>3. answer = Failed \/ call.layer = config.size \/
      /\ call'.layer = call.layer + 1 /\ call'.batch = call.batch /\ call'.tokens = call.tokens
  <2>1. call \in Calls
    BY DEF Shape, CallInv
  <2> QED
    BY <1>2, <2>1 DEF Calls
<1>4. call' # Idle => /\ call'.layer = call.layer + 1 /\ Batch' = Batch /\ call'.tokens = call.tokens
                      /\ answer # Failed
  BY <1>2, <1>3 DEF Batch
<1>5. l \in Nat /\ call.layer \in Nat /\ l <= config.size
  BY <1>1
<1>6. s \notin Batch => Served(s, l) = len[s] /\ Served(s, l)' = len'[s]
  BY <1>4 DEF Served, InBatch
<1>7. answer = Failed => Served(s, l)' = len'[s]
  BY <1>4 DEF Served, InBatch
<1>8. s \in Batch /\ l = call.layer => Served(s, l) = len[s] - call.tokens /\ Served(s, l)' = len'[s]
  BY <1>4, <1>5 DEF Served, InBatch
<1>9. ASSUME s \in Batch, l # call.layer, answer # Failed PROVE Served(s, l)' = Served(s, l)
  <2>1. len'[s] = len[s]
    BY <1>9, AnswerSequences
  <2>2. CASE call' = Idle
    <3>1. call.layer = config.size
      <4>1. call \in Calls /\ call.layer + 1 \in Nat
        BY <1>5 DEF Shape, CallInv
      <4>2. [call EXCEPT !.layer = call.layer + 1] \in Calls
        BY <4>1 DEF Calls
      <4> QED
        BY <1>2, <1>9, <2>2, <4>2, IdleAssumption
    <3>2. l < call.layer
      BY <1>1, <1>5, <1>9, <3>1
    <3> QED
      BY <1>5, <2>1, <2>2, <3>2 DEF Served, InBatch
  <2>3. CASE call' # Idle
    BY <1>4, <1>5, <1>9, <2>1, <2>3 DEF Served, InBatch
  <2> QED
    BY <2>2, <2>3
<1> QED
  BY <1>6, <1>7, <1>8, <1>9

LEMMA AnswerRows ==
  ASSUME Shape, RowsInv, call # Idle, NEW u, NEW w, NEW layer, NEW answer, Answer(w, layer, answer),
         Outcome(u, w, layer, answer)
  PROVE  RowsInv'
<1>1. /\ config' = config /\ TablesInv /\ LayersInv
      /\ layer.index = layers[call.layer].index /\ layers[call.layer].scale <= layer.scale
      /\ SeenBy(u, call.layer, layer.scale) /\ Keeps(u, w) /\ layer.scale \in 1..MaxScale
      /\ answer # Failed => Written(u, w)
  BY DEF Answer, Outcome, Shape
<1>2. /\ DOMAIN layers' = DOMAIN layers /\ layers'[call.layer] = layer
      /\ \A l \in DOMAIN layers : l # call.layer => layers'[l] = layers[l]
  BY AnswerLayers
<1>3. /\ cpu' = cpu /\ DOMAIN tq' = DOMAIN tq /\ std'[call.layer] = w.std
      /\ \A l \in DOMAIN layers : l # call.layer => std'[l] = std[l]
      /\ u.std = std[call.layer] /\ u.scale = layer.scale /\ w.scale = layer.scale
      /\ u.hasTq <=> layer.index \in DOMAIN tq
      /\ w.hasTq <=> layer.index \in DOMAIN tq
      /\ layer.index \in DOMAIN tq => u.tq = tq[layer.index] /\ tq'[layer.index] = w.tq
      /\ \A i \in DOMAIN tq : i # layer.index => tq'[i] = tq[i]
  BY AnswerCaches
<1>4. call.layer \in DOMAIN layers
  BY CallLayer DEF Shape
<1> SUFFICES ASSUME NEW s \in Seqs, NEW l \in DOMAIN layers PROVE HeldNext(s, l)
  BY <1>1, <1>2, RowsNext
<1> SUFFICES ASSUME NEW c, NEW d, NEW scale, NEW table, NEW n,
                    c = IF place'[s] = "swapped" THEN cpu'[l] ELSE std'[l],
                    d = tq'[layers'[l].index], scale = layers'[l].scale, table = tables'[s], n = Served(s, l)'
             PROVE  StdHolds(c, scale, s, table, n) /\ (layers'[l].index \in DOMAIN tq' => TqHolds(d, s, table, n))
  BY DEF HeldNext
<1>5. /\ s \notin Batch => place'[s] = place[s] /\ tables'[s] = tables[s] /\ len'[s] = len[s]
      /\ s \in Batch /\ answer # Failed =>
           place'[s] = "running" /\ tables'[s] = tables[s] /\ len'[s] = len[s]
      /\ s \in Batch /\ answer = Failed => place'[s] = "done" /\ tables'[s] = <<>> /\ len'[s] = 0
      /\ s \in Batch => place[s] \in {"new", "running"}
  BY AnswerSequences
<1>6. /\ s \notin Batch => Served(s, l) = len[s] /\ Served(s, l)' = len'[s]
      /\ answer = Failed => Served(s, l)' = len'[s]
      /\ s \in Batch /\ l = call.layer => /\ Served(s, l) = len[s] - call.tokens
                                          /\ Served(s, l)' = len'[s]
      /\ s \in Batch /\ l # call.layer /\ answer # Failed => Served(s, l)' = Served(s, l)
  BY AnswerServes
<1>7. Held(s, l)
  BY <1>1, RowsNow
<1>8. CASE s \in Batch /\ answer = Failed
  <2>1. n = 0
    BY <1>5, <1>6, <1>8
  <2> QED
    BY <2>1, NothingHeld
<1>9. CASE ~(s \in Batch /\ answer = Failed) /\ l # call.layer
  <2>1. layers'[l] = layers[l] /\ std'[l] = std[l] /\ layers[l].index # layer.index
    BY <1>1, <1>2, <1>3, <1>4, <1>9, OwnIndex
  <2>2. table = tables[s] /\ n = Served(s, l) /\ (place'[s] = "swapped" <=> OnCpu(s))
    BY <1>5, <1>6, <1>9 DEF OnCpu
  <2>3. c = IF OnCpu(s) THEN cpu[l] ELSE std[l]
    BY <1>3, <2>1, <2>2
  <2>4. /\ scale = layers[l].scale /\ DOMAIN tq' = DOMAIN tq /\ layers'[l].index = layers[l].index
        /\ layers[l].index \in DOMAIN tq => d = tq[layers[l].index]
    BY <1>3, <2>1
  <2>5. StdHolds(c, scale, s, table, n)
    <3>1. PICK e : e = tq[layers[l].index]
      OBVIOUS
    <3> QED
      BY <1>7, <2>2, <2>3, <2>4, <3>1 DEF Held
  <2>6. ASSUME layers'[l].index \in DOMAIN tq' PROVE TqHolds(d, s, table, n)
    BY <1>7, <2>2, <2>3, <2>4, <2>6 DEF Held
  <2> QED
    BY <2>5, <2>6
<1>10. CASE ~(s \in Batch /\ answer = Failed) /\ l = call.layer /\ ~OnCpu(s)
  <2>1. /\ table = tables[s] /\ n = len[s] /\ c = w.std /\ scale = w.scale
        /\ layers'[l].index = layer.index /\ (layer.index \in DOMAIN tq => d = w.tq)
    BY <1>2, <1>3, <1>5, <1>6, <1>10 DEF OnCpu
  <2>2. ViewHolds(w, s, table, n)
    <3>1. PICK m, x : m = Served(s, l) /\ x = layer.scale
      OBVIOUS
    <3>2. ViewHolds(u, s, table, m)
      BY <1>1, <1>4, <1>10, <2>1, <3>1, ViewHeld
    <3>3. CASE s \notin Batch
      <4>1. m = n
        BY <1>5, <1>6, <2>1, <3>1, <3>3
      <4> QED
        BY <1>1, <1>10, <2>1, <3>2, <3>3, <4>1, KeptView
    <3>4. CASE s \in Batch
      <4>1. m = n - call.tokens /\ Written(u, w)
        BY <1>1, <1>5, <1>6, <1>10, <2>1, <3>1, <3>4
      <4> QED
        BY <2>1, <3>2, <3>4, <4>1 DEF Written
    <3> QED
      BY <3>3, <3>4
  <2>3. w.hasTq <=> layers'[l].index \in DOMAIN tq'
    BY <1>3, <2>1
  <2> QED
    BY <1>3, <2>1, <2>2, <2>3 DEF ViewHolds
<1>11. CASE l = call.layer /\ OnCpu(s)
  <2>1. s \notin Batch
    BY <1>5, <1>11 DEF OnCpu
  <2>2. /\ table = tables[s] /\ n = Served(s, l) /\ c = cpu[l] /\ scale = layer.scale
    BY <1>2, <1>3, <1>5, <1>6, <1>11, <2>1 DEF OnCpu
  <2>3. config.turboquant = "none"
    BY <1>1, <1>11 DEF TablesInv
  <2>4. PICK old, fmt, e : old = layers[l].scale /\ fmt = StdFormat /\ e = tq[layers[l].index]
    OBVIOUS
  <2>5. StdHolds(c, old, s, table, n)
    BY <1>7, <1>11, <2>2, <2>4 DEF Held
  <2>6. HasRows(c.k, s, table, n, fmt, old) /\ HasRows(c.v, s, table, n, fmt, old)
    BY <2>3, <2>4, <2>5 DEF StdHolds, InStd
  <2>7. old \in Nat /\ scale \in Nat /\ old <= scale
    <3>1. old \in 1..MaxScale
      BY <1>1, <2>4, LayerFacts
    <3> QED
      BY <1>1, <1>11, <2>2, <2>4, <3>1
  <2>8. HasRows(c.k, s, table, n, fmt, scale) /\ HasRows(c.v, s, table, n, fmt, scale)
    BY <2>6, <2>7, MoreScale
  <2> QED
    BY <2>3, <2>4, <2>8 DEF StdHolds, TqHolds
<1> QED
  BY <1>8, <1>9, <1>10, <1>11

LEMMA ForwardKeeps ==
  ASSUME Shape, Forward
  PROVE  Shape' /\ (RowsInv => RowsInv')
<1>1. call # Idle
  BY DEF Forward, ForwardFlashInfer, ForwardFlashAttn, ForwardFlash, ForwardMetal, ForwardConventional
<1>2. PICK u, w, layer, answer : Answer(w, layer, answer) /\ Outcome(u, w, layer, answer)
  BY ForwardAnswers
<1>3. TablesInv' /\ CallInv' /\ LayersInv' /\ CachesInv' /\ (RowsInv => RowsInv')
  BY <1>1, <1>2, AnswerTables, AnswerCall, AnswerLayers, AnswerCaches, AnswerRows
<1> QED
  BY <1>3 DEF Shape

\* A call leaves what is stored of the sequences that are not in its batch.
LEMMA ForwardUntouched ==
  ASSUME Shape, Forward, NEW s \in Seqs, s \notin Batch
  PROVE  KeptCells(s)' = KeptCells(s)
<1>1. call # Idle /\ TablesInv
  BY DEF Forward, ForwardFlashInfer, ForwardFlashAttn, ForwardFlash, ForwardMetal, ForwardConventional, Shape
<1>2. PICK u, w, layer, answer : Answer(w, layer, answer) /\ Outcome(u, w, layer, answer)
  BY ForwardAnswers
<1>3. config' = config /\ cpu' = cpu /\ Keeps(u, w) /\ layer.index = layers[call.layer].index
  BY <1>2 DEF Answer, Outcome
<1>4. place'[s] = place[s] /\ tables'[s] = tables[s] /\ len'[s] = len[s]
  BY <1>1, <1>2, AnswerSequences
<1>5. \A p : Row(s, p)' = Row(s, p)
  BY <1>4 DEF Row
<1>6. /\ DOMAIN tq' = DOMAIN tq /\ std'[call.layer] = w.std
      /\ \A l \in DOMAIN layers : l # call.layer => std'[l] = std[l]
      /\ u.std = std[call.layer]
      /\ u.hasTq <=> layer.index \in DOMAIN tq
      /\ w.hasTq <=> layer.index \in DOMAIN tq
      /\ layer.index \in DOMAIN tq => u.tq = tq[layer.index] /\ tq'[layer.index] = w.tq
      /\ \A i \in DOMAIN tq : i # layer.index => tq'[i] = tq[i]
  BY <1>1, <1>2, AnswerCaches
<1>7. DOMAIN std = DOMAIN layers /\ DOMAIN std' = DOMAIN layers
  BY <1>1, <1>2, <1>3, AnswerCaches, CallLayer DEF Shape, CachesInv
<1>8. CASE OnCpu(s)
  BY <1>3, <1>4, <1>5, <1>8 DEF KeptCells, OnCpu
<1>9. CASE ~OnCpu(s)
  <2>1. /\ SameRows(u.std.k, w.std.k) /\ SameRows(u.std.v, w.std.v)
        /\ w.hasTq => SameRows(u.tq.k, w.tq.k) /\ SameRows(u.tq.v, w.tq.v)
    BY <1>3 DEF Keeps
  <2>2. ASSUME NEW rows, NEW new, SameRows(rows, new), NEW p \in 0..(len[s] - 1)
        PROVE  new[Row(s, p)] = rows[Row(s, p)]
    BY <1>9, <2>2 DEF SameRows
  <2>3. ASSUME NEW l \in DOMAIN std, NEW p \in 0..(len[s] - 1)
        PROVE  std'[l].k[Row(s, p)] = std[l].k[Row(s, p)] /\ std'[l].v[Row(s, p)] = std[l].v[Row(s, p)]
    <3>1. CASE l # call.layer
      BY <1>6, <1>7, <3>1
    <3>2. CASE l = call.layer
      BY <1>6, <2>1, <2>2, <3>2
    <3> QED
      BY <3>1, <3>2
  <2>4. ASSUME NEW i \in DOMAIN tq, NEW p \in 0..(len[s] - 1)
        PROVE  tq'[i].k[Row(s, p)] = tq[i].k[Row(s, p)] /\ tq'[i].v[Row(s, p)] = tq[i].v[Row(s, p)]
    <3>1. CASE i # layer.index
      BY <1>6, <3>1
    <3>2. CASE i = layer.index
      BY <1>6, <2>1, <2>2, <3>2
    <3> QED
      BY <3>1, <3>2
  <2>5. \A l \in DOMAIN std : [p \in 0..(len[s] - 1) |-> <<std'[l].k[Row(s, p)], std'[l].v[Row(s, p)]>>]
                              = [p \in 0..(len[s] - 1) |-> <<std[l].k[Row(s, p)], std[l].v[Row(s, p)]>>]
    BY <2>3
  <2>6. \A i \in DOMAIN tq : [p \in 0..(len[s] - 1) |-> <<tq'[i].k[Row(s, p)], tq'[i].v[Row(s, p)]>>]
                             = [p \in 0..(len[s] - 1) |-> <<tq[i].k[Row(s, p)], tq[i].v[Row(s, p)]>>]
    BY <2>4
  <2>7. DOMAIN std' = DOMAIN std
    BY <1>7
  <2>8. CASE config.turboquant \in {"turbo4", "turbo3"}
    <3>1. KeptCells(s) = [i \in DOMAIN tq |->
            [p \in 0..(len[s] - 1) |-> <<tq[i].k[Row(s, p)], tq[i].v[Row(s, p)]>>]]
      BY <1>9, <2>8 DEF KeptCells, OnCpu
    <3>2. KeptCells(s)' = [i \in DOMAIN tq |->
            [p \in 0..(len[s] - 1) |-> <<tq'[i].k[Row(s, p)], tq'[i].v[Row(s, p)]>>]]
      BY <1>3, <1>4, <1>5, <1>6, <1>9, <2>8 DEF KeptCells, OnCpu
    <3> QED
      BY <2>6, <3>1, <3>2
  <2>9. CASE config.turboquant \notin {"turbo4", "turbo3"}
    <3>1. KeptCells(s) = [l \in DOMAIN std |->
            [p \in 0..(len[s] - 1) |-> <<std[l].k[Row(s, p)], std[l].v[Row(s, p)]>>]]
      BY <1>9, <2>9 DEF KeptCells, OnCpu
    <3>2. KeptCells(s)' = [l \in DOMAIN std |->
            [p \in 0..(len[s] - 1) |-> <<std'[l].k[Row(s, p)], std'[l].v[Row(s, p)]>>]]
      BY <1>3, <1>4, <1>5, <1>9, <2>7, <2>9 DEF KeptCells, OnCpu
    <3> QED
      BY <2>5, <3>1, <3>2
  <2> QED
    BY <2>8, <2>9
<1> QED
  BY <1>8, <1>9

LEMMA InitHolds ==
  ASSUME Init
  PROVE  Shape /\ RowsInv
<1>1. TablesInv
  <2>1. MaxLen \in Nat /\ <<>> \in Seq(Nat) /\ Len(<<>>) = 0
    BY BoundsAssumption
  <2>2. \A s \in Seqs : len[s] = 0 /\ place[s] = "new" /\ tables[s] = <<>>
    BY DEF Init
  <2>3. /\ len \in [Seqs -> 0..MaxLen] /\ tables \in [Seqs -> Seq(Nat)]
        /\ place \in [Seqs -> {"new", "running", "swapped", "done"}]
    BY <2>1 DEF Init
  <2> QED
    BY <2>1, <2>2, <2>3, CeilDivZero DEF TablesInv, OnCpu
<1>2. CallInv
  BY DEF Init, CallInv
<1>3. LayersInv
  <2>1. config \in Configs /\ layers = <<>> /\ Len(<<>>) = 0 /\ \A s \in Seqs : len[s] = 0
    BY DEF Init
  <2>2. counter \in 0..MaxLayers /\ counter \in Nat
    BY BoundsAssumption DEF Init
  <2>3. config.size \in Nat
    BY <2>1 DEF Configs
  <2>4. PICK S : S = [index : 0..(2 * MaxLayers), scale : 1..MaxScale, updates : 0..KvScaleUpdateIteration]
    OBVIOUS
  <2>5. layers \in Seq(S) /\ DOMAIN layers = {} /\ Len(layers) = 0
    BY <2>1
  <2>6. counter - Len(layers) \in 0..MaxLayers
    BY <2>2, <2>5
  <2> QED
    BY <2>1, <2>2, <2>3, <2>4, <2>5, <2>6 DEF LayersInv
<1>4. CachesInv
  <2>1. NoCell \in Cells
    BY BoundsAssumption DEF NoCell, Cells
  <2>2. EmptyCache(NumBlocks) \in Cache(NumBlocks) /\ EmptyCache(NumCpuBlocks) \in Cache(NumCpuBlocks)
    BY <2>1 DEF EmptyCache, Cache
  <2> QED
    BY <2>2 DEF Init, CachesInv
<1>5. RowsInv
  <2>1. DOMAIN layers = {}
    BY DEF Init
  <2> QED
    BY <2>1 DEF RowsInv
<1> QED
  BY <1>1, <1>2, <1>3, <1>4, <1>5 DEF Shape

\* A sequence of which no token is kept, and one which a step does not touch.
LEMMA HeldEmpty ==
  ASSUME call' = Idle, NEW s, len'[s] = 0, NEW l
  PROVE  HeldNext(s, l)
<1>1. Served(s, l)' = 0
  BY DEF Served, InBatch
<1> QED
  BY <1>1, NothingHeld DEF HeldNext

LEMMA HeldSame ==
  ASSUME RowsInv, NEW s \in Seqs, NEW l \in DOMAIN layers, layers'[l] = layers[l],
         tables'[s] = tables[s], place'[s] = place[s], Served(s, l)' = Served(s, l),
         IF OnCpu(s) THEN cpu'[l] = cpu[l] ELSE std'[l] = std[l], tq' = tq
  PROVE  HeldNext(s, l)
<1>1. Held(s, l)
  BY RowsNow
<1> QED
  BY <1>1 DEF Held, HeldNext, OnCpu

LEMMA SameKept ==
  ASSUME config' = config, NEW s \in Seqs, place'[s] = place[s], tables'[s] = tables[s], len'[s] = len[s],
         std' = std, cpu' = cpu, tq' = tq
  PROVE  KeptCells(s)' = KeptCells(s)
<1>1. \A p : Row(s, p)' = Row(s, p)
  BY DEF Row
<1>2. CASE place[s] = "swapped"
  BY <1>1, <1>2 DEF KeptCells
<1>3. CASE place[s] # "swapped" /\ config.turboquant \in {"turbo4", "turbo3"}
  BY <1>1, <1>3 DEF KeptCells
<1>4. CASE place[s] # "swapped" /\ config.turboquant \notin {"turbo4", "turbo3"}
  BY <1>1, <1>4 DEF KeptCells
<1> QED
  BY <1>2, <1>3, <1>4

LEMMA NewKeeps ==
  ASSUME Shape, New
  PROVE  Shape' /\ (RowsInv => RowsInv')
<1>1. /\ Len(layers) < config.size /\ counter' = counter + 1
      /\ layers' = Append(layers, [index |-> counter, scale |-> 1, updates |-> 0])
      /\ UNCHANGED <<config, std, cpu, tq, tables, len, place, call, out>>
  BY DEF New
<1>2. /\ TablesInv /\ CallInv /\ LayersInv /\ CachesInv
  BY DEF Shape
<1>3. /\ Len(layers) \in Nat /\ config.size \in Nat /\ config.size <= MaxLayers
      /\ counter - Len(layers) \in 0..MaxLayers /\ MaxLayers \in Nat
  BY <1>2, ConfigFacts, BoundsAssumption DEF LayersInv
<1>4. call = Idle
  BY <1>1, <1>2, <1>3 DEF CallInv
<1>5. ASSUME NEW s \in Seqs PROVE len[s] = 0
  <2>1. len[s] \in Nat /\ ~(len[s] > 0)
    BY <1>1, <1>2, <1>3, BoundsAssumption DEF LayersInv, TablesInv
  <2> QED
    BY <2>1
<1>6. PICK S : S = [index : 0..(2 * MaxLayers), scale : 1..MaxScale, updates : 0..KvScaleUpdateIteration]
  OBVIOUS
<1>7. PICK layer, n, base : /\ layer = [index |-> counter, scale |-> 1, updates |-> 0] /\ n = Len(layers)
                            /\ base = counter - Len(layers)
  OBVIOUS
<1>8. /\ n \in Nat /\ base \in 0..MaxLayers /\ n < config.size
  BY <1>1, <1>3, <1>7
<1>9. counter = base + n /\ counter \in Int
  <2>1. counter \in Int
    BY <1>2 DEF LayersInv
  <2> QED
    BY <1>3, <1>7, <2>1
<1>10. layer \in S
  BY <1>3, <1>6, <1>7, <1>8, <1>9, BoundsAssumption
<1>11. /\ layers \in Seq(S) /\ layers' \in Seq(S) /\ Len(layers') = n + 1
       /\ \A l \in 1..n : layers'[l] = layers[l]
       /\ layers'[n + 1] = layer /\ DOMAIN layers' = 1..(n + 1)
  BY <1>1, <1>2, <1>6, <1>7, <1>10 DEF LayersInv
<1>12. counter' - Len(layers') = base /\ counter' \in Nat
  BY <1>1, <1>3, <1>8, <1>9, <1>11, SMTT(30)
<1>13. ASSUME NEW l \in DOMAIN layers' PROVE layers'[l].index = base + l - 1
  <2>1. CASE l \in 1..n
    <3>1. layers[l].index = base + l - 1
      BY <1>2, <1>7, <1>11, <2>1 DEF LayersInv
    <3> QED
      BY <1>11, <2>1, <3>1
  <2>2. CASE l = n + 1
    BY <1>7, <1>8, <1>9, <1>11, <2>2
  <2> QED
    BY <1>8, <1>11, <2>1, <2>2
<1>14. LayersInv'
  <2>1. config' \in Configs /\ Len(layers') <= config'.size /\ \A s \in Seqs : ~(len'[s] > 0)
    BY <1>1, <1>2, <1>3, <1>5, <1>8, <1>11 DEF LayersInv
  <2>2. \A l \in DOMAIN layers' : layers'[l].index = counter' - Len(layers') + l - 1
    BY <1>12, <1>13
  <2>3. counter' - Len(layers') \in 0..MaxLayers
    BY <1>8, <1>12
  <2> QED
    BY <1>6, <1>11, <1>12, <2>1, <2>2, <2>3 DEF LayersInv
<1>15. RowsInv'
  <2>1. \A s \in Seqs, l \in DOMAIN layers' : HeldNext(s, l)
    BY <1>1, <1>4, <1>5, HeldEmpty
  <2> QED
    BY <1>1, <2>1, RowsNext
<1>16. TablesInv' /\ CallInv' /\ CachesInv'
  <2>1. CachesInv' /\ CallInv'
    BY <1>1, <1>2, <1>4 DEF CachesInv, CallInv
  <2>2. TablesInv'
    BY <1>1, <1>2, <1>4, <1>5 DEF TablesInv, OnCpu, BlocksOf, InBatch
  <2> QED
    BY <2>1, <2>2
<1> QED
  BY <1>14, <1>15, <1>16 DEF Shape

LEMMA ResetKeeps ==
  ASSUME Shape, ResetPagedAttentionLayerCounter
  PROVE  Shape' /\ (RowsInv => RowsInv')
<1>1. /\ layers = <<>> /\ counter' = 0
      /\ UNCHANGED <<config, layers, std, cpu, tq, tables, len, place, call, out>>
  BY DEF ResetPagedAttentionLayerCounter
<1>2. Len(<<>>) = 0 /\ DOMAIN <<>> = {} /\ 0 - 0 \in 0..MaxLayers /\ 0 \in Nat
  BY BoundsAssumption
<1>3. LayersInv'
  BY <1>1, <1>2 DEF Shape, LayersInv
<1>4. RowsInv'
  BY <1>1, <1>2 DEF RowsInv
<1>5. TablesInv'
  BY <1>1 DEF Shape, TablesInv, OnCpu, BlocksOf, InBatch, Batch
<1>6. CachesInv' /\ CallInv'
  BY <1>1 DEF Shape, CachesInv, CallInv, Batch
<1> QED
  BY <1>3, <1>4, <1>5, <1>6 DEF Shape

LEMMA FreeKeeps ==
  ASSUME Shape, NEW s \in Seqs, FreeSequence(s)
  PROVE  Shape' /\ (RowsInv => RowsInv')
<1>1. /\ call = Idle /\ tables' = [tables EXCEPT ![s] = <<>>]
      /\ place' = [place EXCEPT ![s] = "done"] /\ len' = [len EXCEPT ![s] = 0]
      /\ UNCHANGED <<config, counter, layers, std, cpu, tq, call>>
  BY DEF FreeSequence, Ready
<1>2. TablesInv /\ LayersInv /\ CachesInv
  BY DEF Shape
<1>3. /\ len \in [Seqs -> 0..MaxLen] /\ tables \in [Seqs -> Seq(Nat)] /\ MaxLen \in Nat
      /\ place \in [Seqs -> {"new", "running", "swapped", "done"}] /\ <<>> \in Seq(Nat)
  BY <1>2, BoundsAssumption DEF TablesInv
<1>4. /\ len' \in [Seqs -> 0..MaxLen] /\ tables' \in [Seqs -> Seq(Nat)]
      /\ place' \in [Seqs -> {"new", "running", "swapped", "done"}]
  BY <1>1, <1>3
<1>5. ASSUME NEW r \in Seqs
      PROVE  /\ r # s => tables'[r] = tables[r] /\ len'[r] = len[r] /\ place'[r] = place[r]
             /\ r = s => tables'[r] = <<>> /\ len'[r] = 0 /\ place'[r] = "done"
  BY <1>1, <1>3
<1>6. ASSUME NEW r \in Seqs
      PROVE  /\ \/ tables'[r] = tables[r] /\ len'[r] = len[r] /\ (OnCpu(r)' <=> OnCpu(r))
                \/ tables'[r] = <<>> /\ len'[r] = 0 /\ ~OnCpu(r)'
             /\ place'[r] = "new" /\ ~InBatch(r)' => len'[r] = 0
  <2>1. CASE r = s
    BY <1>5, <2>1 DEF OnCpu
  <2>2. CASE r # s
    <3>1. tables'[r] = tables[r] /\ len'[r] = len[r] /\ place'[r] = place[r]
      BY <1>5, <2>2
    <3>2. place[r] = "new" => len[r] = 0
      BY <1>1, <1>2 DEF TablesInv, InBatch
    <3> QED
      BY <3>1, <3>2 DEF OnCpu
  <2> QED
    BY <2>1, <2>2
<1>7. TablesInv'
  BY <1>1, <1>2, <1>4, <1>6, TablesShrink
<1>8. LayersInv'
  <2>1. (\E r \in Seqs : len'[r] > 0) => \E r \in Seqs : len[r] > 0
    BY <1>5
  <2> QED
    BY <1>1, <1>2, <2>1 DEF LayersInv
<1>9. ASSUME RowsInv, NEW r \in Seqs, NEW l \in DOMAIN layers PROVE HeldNext(r, l)
  <2>1. CASE r = s
    BY <1>1, <1>5, <2>1, HeldEmpty
  <2>2. CASE r # s
    <3>1. Served(r, l)' = Served(r, l)
      BY <1>1, <1>5, <2>2 DEF Served, InBatch
    <3> QED
      BY <1>1, <1>2, <1>5, <1>9, <2>2, <3>1, HeldSame
  <2> QED
    BY <2>1, <2>2
<1>10. RowsInv => RowsInv'
  BY <1>1, <1>9, RowsNext
<1>11. CachesInv' /\ CallInv'
  BY <1>1, <1>2 DEF CachesInv, CallInv
<1> QED
  BY <1>7, <1>8, <1>10, <1>11 DEF Shape

-------------------------------------------------------------------------------
(* The engine gives out free blocks.                                         *)

LEMMA GivenExists ==
  ASSUME NEW wanted, NEW free, IsFiniteSet(wanted), IsFiniteSet(free),
         Cardinality(wanted) <= Cardinality(free)
  PROVE  Given(wanted, free) \in [wanted -> free] /\ IsInjective(Given(wanted, free))
<1>1. PICK m, k : m = Cardinality(wanted) /\ k = Cardinality(free)
  OBVIOUS
<1>2. m \in Nat /\ k \in Nat /\ m <= k /\ ExistsBijection(1..m, wanted) /\ ExistsBijection(1..k, free)
  BY <1>1, FS_CardinalityType
<1>3. PICK f \in Bijection(1..m, wanted) : TRUE
  BY <1>2 DEF ExistsBijection
<1>4. PICK g \in Bijection(1..k, free) : TRUE
  BY <1>2 DEF ExistsBijection
<1>5. f \in [1..m -> wanted] /\ \A x \in wanted : \E i \in 1..m : f[i] = x
  BY <1>3 DEF Bijection, Injection, Surjection
<1>6. g \in [1..k -> free] /\ \A i, j \in 1..k : g[i] = g[j] => i = j
  BY <1>4 DEF Bijection, Injection, IsInjective
<1> DEFINE at(x) == CHOOSE i \in 1..m : f[i] = x
           h == [x \in wanted |-> g[at(x)]]
<1>7. ASSUME NEW x \in wanted PROVE at(x) \in 1..k /\ f[at(x)] = x
  <2>1. at(x) \in 1..m /\ f[at(x)] = x
    BY <1>5
  <2> QED
    BY <1>2, <2>1
<1> HIDE DEF at
<1>8. h \in [wanted -> free]
  BY <1>6, <1>7
<1>9. ASSUME NEW x \in wanted, NEW y \in wanted, h[x] = h[y] PROVE x = y
  <2>1. at(x) = at(y)
    BY <1>6, <1>7, <1>9
  <2> QED
    BY <1>7, <2>1
<1>10. IsInjective(h)
  BY <1>8, <1>9 DEF IsInjective
<1> HIDE DEF h
<1> QED
  BY <1>8, <1>10 DEF Given

LEMMA TableBlocks ==
  ASSUME NEW table \in Seq(Nat)
  PROVE  IsFiniteSet(Range(table)) /\ Cardinality(Range(table)) <= Len(table)
<1>1. PICK n : n = Len(table)
  OBVIOUS
<1>2. n \in Nat /\ DOMAIN table = 1..n
  BY <1>1
<1>3. IsFiniteSet(1..n) /\ Cardinality(1..n) = n
  BY <1>2, FS_Interval
<1>4. table \in Surjection(1..n, Range(table))
  BY <1>2 DEF Surjection, Range
<1> QED
  BY <1>1, <1>3, <1>4, FS_Surjection

LEMMA FreeAre ==
  /\ FreeBlocks \subseteq 0..(NumBlocks - 1) /\ IsFiniteSet(FreeBlocks)
  /\ FreeCpuBlocks \subseteq 0..(NumCpuBlocks - 1) /\ IsFiniteSet(FreeCpuBlocks)
  /\ \A s \in Seqs : ~OnCpu(s) => Range(tables[s]) \cap FreeBlocks = {}
  /\ \A s \in Seqs : OnCpu(s) => Range(tables[s]) \cap FreeCpuBlocks = {}
<1>1. NumBlocks \in Nat /\ NumCpuBlocks \in Nat
  BY BoundsAssumption
<1>2. PICK m, k : m = NumBlocks - 1 /\ k = NumCpuBlocks - 1
  OBVIOUS
<1>3. IsFiniteSet(0..m) /\ IsFiniteSet(0..k)
  BY <1>1, <1>2, FS_Interval
<1>4. IsFiniteSet(0..m \ InUse) /\ IsFiniteSet(0..k \ InUseOnCpu)
  BY <1>3, FS_Difference
<1>5. \A s \in Seqs : ~OnCpu(s) => Range(tables[s]) \subseteq InUse
  BY DEF InUse, OnCpu
<1>6. \A s \in Seqs : OnCpu(s) => Range(tables[s]) \subseteq InUseOnCpu
  BY DEF InUseOnCpu, OnCpu
<1> QED
  BY <1>2, <1>4, <1>5, <1>6 DEF FreeBlocks, FreeCpuBlocks

\* A block map of a sequence, to distinct blocks of a set.
MapOf(s, mapping, free) == mapping \in [Range(tables[s]) -> free] /\ IsInjective(mapping)

LEMMA MapExists ==
  ASSUME TablesInv, NEW s \in Seqs, NEW free, IsFiniteSet(free), Cardinality(free) >= Len(tables[s])
  PROVE  MapOf(s, Given(Range(tables[s]), free), free)
<1>1. PICK table, wanted : table = tables[s] /\ wanted = Range(tables[s])
  OBVIOUS
<1>2. table \in Seq(Nat)
  BY <1>1 DEF TablesInv
<1>3. IsFiniteSet(wanted) /\ Cardinality(wanted) <= Len(table) /\ Len(table) \in Nat
  BY <1>1, <1>2, TableBlocks
<1>4. Cardinality(wanted) \in Nat /\ Cardinality(free) \in Nat
  BY <1>3, FS_CardinalityType
<1>5. Cardinality(wanted) <= Cardinality(free)
  BY <1>1, <1>3, <1>4
<1>6. Given(wanted, free) \in [wanted -> free] /\ IsInjective(Given(wanted, free))
  BY <1>3, <1>5, GivenExists
<1> QED
  BY <1>1, <1>6 DEF MapOf

\* Rows are copied, with the blocks of a table, to other blocks.
Copied(table, n, free, blocks, mapping, moved, src, dst, new) ==
  /\ table \in Seq(Nat) /\ n \in Nat /\ Len(table) = CeilDiv(n, BlockSize)
  /\ blocks \in Nat /\ free \subseteq 0..(blocks - 1)
  /\ mapping \in [Range(table) -> free] /\ IsInjective(mapping)
  /\ \A i \in DOMAIN table : moved[i] = mapping[table[i]]
  /\ DOMAIN dst = Slots(blocks) /\ new = Swapped(src, dst, mapping)

\* Copying moves a row with its block, and leaves the rows of other blocks.
LEMMA SwappedRows ==
  ASSUME NEW table, NEW n, NEW free, NEW blocks, NEW mapping, NEW moved, NEW src, NEW dst, NEW new,
         Copied(table, n, free, blocks, mapping, moved, src, dst, new), NEW p \in 0..(n - 1)
  PROVE  new[RowAt(moved, p)] = src[RowAt(table, p)]
<1>0. /\ table \in Seq(Nat) /\ n \in Nat /\ Len(table) = CeilDiv(n, BlockSize)
      /\ blocks \in Nat /\ free \subseteq 0..(blocks - 1)
      /\ mapping \in [Range(table) -> free] /\ IsInjective(mapping)
      /\ \A i \in DOMAIN table : moved[i] = mapping[table[i]]
      /\ DOMAIN dst = Slots(blocks) /\ new = Swapped(src, dst, mapping)
  BY DEF Copied
<1>1. PICK i, r : i = p \div BlockSize + 1 /\ r = p % BlockSize
  OBVIOUS
<1>2. BlockSize \in Nat \ {0} /\ p \in Nat
  BY BlockSizeAssumption
<1>3. r \in 0..(BlockSize - 1)
  BY <1>1, <1>2, ModFacts
<1>4. i \in DOMAIN table
  BY <1>0, <1>1, RowFacts
<1>5. PICK b, x : b = table[i] /\ x = mapping[b]
  OBVIOUS
<1>6. b \in Range(table) /\ x \in 0..(blocks - 1) /\ x \in Nat /\ x \in Int
  <2>1. b \in Range(table)
    BY <1>4, <1>5 DEF Range
  <2>2. x \in free
    BY <1>0, <1>5, <2>1
  <2>3. x \in 0..(blocks - 1)
    BY <1>0, <2>2
  <2> QED
    BY <2>1, <2>3
<1>7. PICK t : t = x * BlockSize + r
  OBVIOUS
<1>8. t \in Slots(blocks)
  BY <1>0, <1>3, <1>6, <1>7, RowInSlots
<1>9. BlockOf(t) = x /\ t % BlockSize = r
  <2>1. t \in Nat /\ t = BlockSize * x + r
    <3>1. x * BlockSize \in Nat /\ x * BlockSize = BlockSize * x
      BY <1>2, <1>6
    <3> QED
      BY <1>3, <1>7, <3>1
  <2>2. t % BlockSize = r /\ t \div BlockSize = x
    BY <1>2, <1>3, <1>6, <2>1, DivUnique
  <2> QED
    BY <2>2 DEF BlockOf
<1>10. (CHOOSE c \in DOMAIN mapping : mapping[c] = BlockOf(t)) = b
  BY <1>0, <1>5, <1>6, <1>9 DEF IsInjective
<1>11. new[t] = src[b * BlockSize + r]
  BY <1>5, <1>6, <1>8, <1>9, <1>10, <1>0 DEF Swapped
<1>12. RowAt(moved, p) = t /\ RowAt(table, p) = b * BlockSize + r
  BY <1>0, <1>1, <1>4, <1>5, <1>7 DEF RowAt
<1> QED
  BY <1>11, <1>12

LEMMA SwappedCells ==
  ASSUME NEW S, NEW here \in Nat, S \subseteq 0..(here - 1), NEW there, NEW free, NEW mapping \in [S -> free],
         NEW src \in [Slots(here) -> Cells], NEW dst \in [Slots(there) -> Cells]
  PROVE  Swapped(src, dst, mapping) \in [Slots(there) -> Cells]
<1> SUFFICES ASSUME NEW t \in Slots(there), \E b \in S : mapping[b] = BlockOf(t)
             PROVE  src[(CHOOSE b \in S : mapping[b] = BlockOf(t)) * BlockSize + (t % BlockSize)] \in Cells
  BY DEF Swapped
<1>1. PICK b : b = CHOOSE a \in S : mapping[a] = BlockOf(t)
  OBVIOUS
<1>2. b \in S
  BY <1>1
<1>3. b \in 0..(here - 1) /\ b \in Nat
  BY <1>2
<1>4. PICK r : r = t % BlockSize
  OBVIOUS
<1>5. r \in 0..(BlockSize - 1)
  <2>1. t \in Nat
    BY DEF Slots
  <2> QED
    BY <1>4, <2>1, BlockSizeAssumption, ModFacts
<1>6. b * BlockSize + r \in Slots(here)
  BY <1>3, <1>5, RowInSlots
<1> QED
  BY <1>1, <1>4, <1>6

\* The caches a sequence's rows are in, and a step after which each row is where the
\* sequence's table names it.
Home(s) == IF OnCpu(s) THEN cpu ELSE std
HomeNext(s) == IF place'[s] = "swapped" THEN cpu' ELSE std'
Moved(s) ==
  \A l \in 1..config.size : \A table, next, n, p :
    table = tables[s] /\ next = tables'[s] /\ n = len[s] /\ p \in 0..(n - 1) =>
      /\ HomeNext(s)[l].k[RowAt(next, p)] = Home(s)[l].k[RowAt(table, p)]
      /\ HomeNext(s)[l].v[RowAt(next, p)] = Home(s)[l].v[RowAt(table, p)]
BetweenCalls ==
  /\ call = Idle /\ call' = Idle /\ config.turboquant = "none"
  /\ UNCHANGED <<config, counter, layers, len>>

LEMMA MovedRows ==
  ASSUME Shape, RowsInv, BetweenCalls, \A s \in Seqs : Moved(s)
  PROVE  RowsInv'
<1>1. config' = config /\ layers' = layers /\ config.turboquant = "none"
  BY DEF BetweenCalls, Shape
<1> SUFFICES ASSUME NEW s \in Seqs, NEW l \in DOMAIN layers PROVE HeldNext(s, l)
  BY <1>1, RowsNext
<1> SUFFICES ASSUME NEW c, NEW d, NEW scale, NEW next, NEW n,
                    c = IF place'[s] = "swapped" THEN cpu'[l] ELSE std'[l],
                    d = tq'[layers'[l].index], scale = layers'[l].scale, next = tables'[s], n = Served(s, l)'
             PROVE  StdHolds(c, scale, s, next, n) /\ (layers'[l].index \in DOMAIN tq' => TqHolds(d, s, next, n))
  BY DEF HeldNext
<1>2. n = len[s] /\ Served(s, l) = len[s]
  BY DEF BetweenCalls, Served, InBatch
<1>3. PICK old, table, e, fmt : /\ old = Home(s)[l] /\ table = tables[s] /\ e = tq[layers[l].index]
                                /\ fmt = StdFormat
  OBVIOUS
<1>4. StdHolds(old, scale, s, table, n)
  <2>1. Held(s, l) /\ old = IF OnCpu(s) THEN cpu[l] ELSE std[l]
    BY <1>1, <1>3, RowsNow DEF Home
  <2> QED
    BY <1>1, <1>2, <1>3, <2>1 DEF Held
<1>5. HasRows(old.k, s, table, n, fmt, scale) /\ HasRows(old.v, s, table, n, fmt, scale)
  BY <1>1, <1>3, <1>4 DEF StdHolds, InStd
<1>6. l \in 1..config.size /\ c = HomeNext(s)[l]
  BY LayerFacts DEF Shape, HomeNext
<1>7. ASSUME NEW p \in 0..(n - 1)
      PROVE  c.k[RowAt(next, p)] = old.k[RowAt(table, p)] /\ c.v[RowAt(next, p)] = old.v[RowAt(table, p)]
  BY <1>2, <1>3, <1>6 DEF Moved
<1>8. HasRows(c.k, s, next, n, fmt, scale) /\ HasRows(c.v, s, next, n, fmt, scale)
  <2>1. ASSUME NEW p \in 0..(n - 1)
        PROVE  /\ c.k[RowAt(next, p)].tok = <<s, p>> /\ c.v[RowAt(next, p)].tok = <<s, p>>
               /\ c.k[RowAt(next, p)].fmt = fmt /\ c.v[RowAt(next, p)].fmt = fmt
               /\ c.k[RowAt(next, p)].scale \in 1..scale /\ c.v[RowAt(next, p)].scale \in 1..scale
    <3>1. /\ old.k[RowAt(table, p)].tok = <<s, p>> /\ old.v[RowAt(table, p)].tok = <<s, p>>
          /\ old.k[RowAt(table, p)].fmt = fmt /\ old.v[RowAt(table, p)].fmt = fmt
          /\ old.k[RowAt(table, p)].scale \in 1..scale /\ old.v[RowAt(table, p)].scale \in 1..scale
      BY <1>5 DEF HasRows
    <3> QED
      BY <1>7, <3>1
  <2> QED
    BY <2>1 DEF HasRows
<1> QED
  BY <1>1, <1>3, <1>8 DEF StdHolds, TqHolds

LEMMA MovedKept ==
  ASSUME Shape, BetweenCalls, CachesInv', NEW s \in Seqs, Moved(s)
  PROVE  KeptCells(s)' = KeptCells(s)
<1>1. config' = config /\ config.turboquant = "none" /\ len' = len
  BY DEF BetweenCalls
<1>2. PICK old, new, n : old = Home(s) /\ new = HomeNext(s) /\ n = len[s]
  OBVIOUS
<1>3. DOMAIN old = 1..config.size /\ DOMAIN new = 1..config.size
  <2>1. DOMAIN cpu = 1..config.size /\ DOMAIN std = 1..config.size
    BY DEF Shape, CachesInv
  <2>2. DOMAIN cpu' = 1..config.size /\ DOMAIN std' = 1..config.size
    BY <1>1 DEF CachesInv
  <2> QED
    BY <1>2, <2>1, <2>2 DEF Home, HomeNext
<1>4. \A p : Row(s, p) = RowAt(tables[s], p) /\ Row(s, p)' = RowAt(tables'[s], p)
  BY DEF Row, RowAt
<1>5. KeptCells(s) = [l \in 1..config.size |-> [p \in 0..(n - 1) |-> <<old[l].k[Row(s, p)], old[l].v[Row(s, p)]>>]]
  <2>1. CASE OnCpu(s)
    BY <1>2, <1>3, <2>1 DEF KeptCells, Home, OnCpu
  <2>2. CASE ~OnCpu(s)
    BY <1>1, <1>2, <1>3, <2>2 DEF KeptCells, Home, OnCpu
  <2> QED
    BY <2>1, <2>2
<1>6. KeptCells(s)' = [l \in 1..config.size |->
                         [p \in 0..(n - 1) |-> <<new[l].k[Row(s, p)'], new[l].v[Row(s, p)']>>]]
  <2>1. CASE place'[s] = "swapped"
    BY <1>1, <1>2, <1>3, <2>1 DEF KeptCells, HomeNext
  <2>2. CASE place'[s] # "swapped"
    BY <1>1, <1>2, <1>3, <2>2 DEF KeptCells, HomeNext
  <2> QED
    BY <2>1, <2>2
<1>7. \A l \in 1..config.size : \A p \in 0..(n - 1) :
        new[l].k[Row(s, p)'] = old[l].k[Row(s, p)] /\ new[l].v[Row(s, p)'] = old[l].v[Row(s, p)]
  BY <1>2, <1>4 DEF Moved
<1> QED
  BY <1>5, <1>6, <1>7

\* The table of a sequence after its blocks are copied.
Remapped(s, mapping) ==
  tables' = [tables EXCEPT ![s] = [i \in DOMAIN tables[s] |-> mapping[tables[s][i]]]]

\* The engine moves a sequence to free blocks of the same cache or of the other.
LEMMA TablesMoved ==
  ASSUME TablesInv, BetweenCalls, NEW s \in Seqs, NEW mapping, NEW free, MapOf(s, mapping, free),
         NEW blocks, free \subseteq 0..(blocks - 1), blocks \in Nat, blocks = BlocksOf(s)',
         Remapped(s, mapping),
         place' \in [Seqs -> {"new", "running", "swapped", "done"}], place'[s] \in {"running", "swapped"},
         \A r \in Seqs : r # s => place'[r] = place[r],
         \A r \in Seqs : r # s /\ (OnCpu(r) <=> OnCpu(s)') => Range(tables[r]) \cap free = {}
  PROVE  TablesInv'
<1>1. /\ config' = config /\ len' = len /\ config.turboquant = "none" /\ call = Idle
      /\ tables \in [Seqs -> Seq(Nat)]
  BY DEF BetweenCalls, TablesInv
<1>2. PICK table, moved : table = tables[s] /\ moved = [i \in DOMAIN table |-> mapping[table[i]]]
  OBVIOUS
<1>3. table \in Seq(Nat) /\ mapping \in [Range(table) -> free] /\ IsInjective(mapping)
  BY <1>1, <1>2 DEF MapOf
<1>4. \A i \in DOMAIN table : table[i] \in Range(table) /\ mapping[table[i]] \in free /\ mapping[table[i]] \in Nat
  <2> SUFFICES ASSUME NEW i \in DOMAIN table
               PROVE  table[i] \in Range(table) /\ mapping[table[i]] \in free /\ mapping[table[i]] \in Nat
    OBVIOUS
  <2>1. table[i] \in Range(table)
    BY DEF Range
  <2>2. mapping[table[i]] \in free
    BY <1>3, <2>1
  <2>3. mapping[table[i]] \in 0..(blocks - 1)
    BY <2>2
  <2> QED
    BY <2>1, <2>2, <2>3
<1>5. moved \in Seq(Nat) /\ DOMAIN moved = DOMAIN table /\ Len(moved) = Len(table)
  <2>1. PICK n \in Nat : n = Len(table) /\ DOMAIN table = 1..n
    BY <1>3
  <2>2. moved \in [1..n -> Nat]
    BY <1>2, <1>4, <2>1
  <2>3. moved \in Seq(Nat) /\ Len(moved) = n
    BY <2>1, <2>2
  <2> QED
    BY <1>2, <2>1, <2>3
<1>6. tables'[s] = moved /\ tables' \in [Seqs -> Seq(Nat)] /\ \A r \in Seqs : r # s => tables'[r] = tables[r]
  BY <1>1, <1>2, <1>5 DEF Remapped
<1>7. \A r \in Seqs : Len(tables'[r]) = CeilDiv(len'[r], BlockSize)
  BY <1>1, <1>2, <1>5, <1>6 DEF TablesInv
<1>8. \A r \in Seqs : \A i \in DOMAIN tables'[r] : tables'[r][i] \in 0..(BlocksOf(r)' - 1)
  <2> SUFFICES ASSUME NEW r \in Seqs, NEW i \in DOMAIN tables'[r]
               PROVE  tables'[r][i] \in 0..(BlocksOf(r)' - 1)
    OBVIOUS
  <2>1. CASE r = s
    <3>1. tables'[r][i] \in free
      BY <1>2, <1>4, <1>5, <1>6, <2>1
    <3> QED
      BY <2>1, <3>1
  <2>2. CASE r # s
    <3>1. BlocksOf(r)' = BlocksOf(r)
      BY <2>2 DEF BlocksOf, OnCpu
    <3> QED
      BY <1>6, <2>2, <3>1 DEF TablesInv
  <2> QED
    BY <2>1, <2>2
<1>9. ASSUME NEW r \in Seqs, r # s, OnCpu(r)' <=> OnCpu(s)', NEW i \in DOMAIN tables'[r], NEW j \in DOMAIN tables'[s]
      PROVE  tables'[r][i] # tables'[s][j]
  <2>1. tables'[s][j] \in free
    BY <1>2, <1>4, <1>5, <1>6
  <2>2. tables'[r] = tables[r] /\ (OnCpu(r) <=> OnCpu(s)')
    BY <1>6, <1>9 DEF OnCpu
  <2>3. tables'[r][i] \in Range(tables[r])
    BY <2>2 DEF Range
  <2> QED
    BY <1>9, <2>1, <2>2, <2>3
<1>10. ASSUME NEW q \in Seqs, NEW r \in Seqs, NEW i \in DOMAIN tables'[q], NEW j \in DOMAIN tables'[r],
              place'[q] = "swapped" <=> place'[r] = "swapped", tables'[q][i] = tables'[r][j]
       PROVE  q = r /\ i = j
  <2>1. CASE q # s /\ r # s
    <3>1. tables'[q] = tables[q] /\ tables'[r] = tables[r] /\ (OnCpu(q) <=> OnCpu(r))
      BY <1>6, <1>10, <2>1 DEF OnCpu
    <3>2. i \in DOMAIN tables[q] /\ j \in DOMAIN tables[r] /\ tables[q][i] = tables[r][j]
      BY <1>10, <3>1
    <3>3. \A k \in DOMAIN tables[q], m \in DOMAIN tables[r] :
            (OnCpu(q) <=> OnCpu(r)) /\ tables[q][k] = tables[r][m] => q = r /\ k = m
      BY DEF TablesInv
    <3> QED
      BY <3>1, <3>2, <3>3
  <2>2. CASE q = s /\ r = s
    <3>1. i \in DOMAIN table /\ j \in DOMAIN table /\ mapping[table[i]] = mapping[table[j]]
      BY <1>2, <1>5, <1>6, <1>10, <2>2
    <3>2. table[i] = table[j]
      BY <1>3, <1>4, <3>1 DEF IsInjective
    <3>3. i = j
      BY <1>2, <3>1, <3>2 DEF TablesInv
    <3> QED
      BY <2>2, <3>3
  <2>3. CASE q = s /\ r # s
    <3>1. OnCpu(r)' <=> OnCpu(s)'
      BY <1>10, <2>3 DEF OnCpu
    <3>2. i \in DOMAIN tables'[s] /\ tables'[r][j] = tables'[s][i]
      BY <1>10, <2>3
    <3> QED
      BY <1>9, <2>3, <3>1, <3>2
  <2>4. CASE q # s /\ r = s
    <3>1. OnCpu(q)' <=> OnCpu(s)'
      BY <1>10, <2>4 DEF OnCpu
    <3>2. j \in DOMAIN tables'[s] /\ tables'[q][i] = tables'[s][j]
      BY <1>10, <2>4
    <3> QED
      BY <1>9, <2>4, <3>1, <3>2
  <2> QED
    BY <2>1, <2>2, <2>3, <2>4
<1>11. ASSUME NEW r \in Seqs, place'[r] = "new" PROVE len'[r] = 0
  <2>1. r # s /\ place[r] = "new"
    BY <1>11
  <2> QED
    BY <1>1, <2>1 DEF TablesInv, InBatch
<1>12. len' \in [Seqs -> 0..MaxLen] /\ config'.turboquant = "none"
  BY <1>1 DEF TablesInv
<1>13. \A q, r \in Seqs : \A i \in DOMAIN tables'[q], j \in DOMAIN tables'[r] :
          (place'[q] = "swapped" <=> place'[r] = "swapped") /\ tables'[q][i] = tables'[r][j] => q = r /\ i = j
  BY <1>10
<1>14. \A r \in Seqs : OnCpu(r)' => config'.turboquant = "none"
  BY <1>12
<1> QED
  BY <1>6, <1>7, <1>8, <1>11, <1>12, <1>13, <1>14 DEF TablesInv, OnCpu, BlocksOf

\* The rows of a sequence whose blocks are copied to free ones, and of the others.
LEMMA CopiedRows ==
  ASSUME Shape, BetweenCalls, NEW s \in Seqs, NEW mapping, NEW free, MapOf(s, mapping, free),
         NEW blocks \in Nat, free \subseteq 0..(blocks - 1), Remapped(s, mapping),
         DOMAIN HomeNext(s) = 1..config.size,
         \A l \in 1..config.size :
           \E dst : /\ DOMAIN dst.k = Slots(blocks) /\ DOMAIN dst.v = Slots(blocks)
                    /\ HomeNext(s)[l].k = Swapped(Home(s)[l].k, dst.k, mapping)
                    /\ HomeNext(s)[l].v = Swapped(Home(s)[l].v, dst.v, mapping)
  PROVE  Moved(s)
<1> SUFFICES ASSUME NEW l \in 1..config.size, NEW table, NEW next, NEW n,
                    table = tables[s], next = tables'[s], n = len[s], NEW p \in 0..(n - 1)
             PROVE  /\ HomeNext(s)[l].k[RowAt(next, p)] = Home(s)[l].k[RowAt(table, p)]
                    /\ HomeNext(s)[l].v[RowAt(next, p)] = Home(s)[l].v[RowAt(table, p)]
  BY DEF Moved
<1>1. table \in Seq(Nat) /\ n \in Nat /\ Len(table) = CeilDiv(n, BlockSize)
  BY BoundsAssumption DEF Shape, TablesInv
<1>2. next = [i \in DOMAIN table |-> mapping[table[i]]]
  <2>1. tables \in [Seqs -> Seq(Nat)]
    BY DEF Shape, TablesInv
  <2> QED
    BY <2>1 DEF Remapped
<1>3. mapping \in [Range(table) -> free] /\ IsInjective(mapping)
  BY DEF MapOf
<1>4. PICK dst : /\ DOMAIN dst.k = Slots(blocks) /\ DOMAIN dst.v = Slots(blocks)
                 /\ HomeNext(s)[l].k = Swapped(Home(s)[l].k, dst.k, mapping)
                 /\ HomeNext(s)[l].v = Swapped(Home(s)[l].v, dst.v, mapping)
  OBVIOUS
<1>5. PICK sk, sv, dk, dv, nk, nv :
        /\ sk = Home(s)[l].k /\ sv = Home(s)[l].v /\ dk = dst.k /\ dv = dst.v
        /\ nk = HomeNext(s)[l].k /\ nv = HomeNext(s)[l].v
  OBVIOUS
<1>6. nk = Swapped(sk, dk, mapping) /\ nv = Swapped(sv, dv, mapping)
      /\ DOMAIN dk = Slots(blocks) /\ DOMAIN dv = Slots(blocks)
  BY <1>4, <1>5
<1>7. /\ Copied(table, n, free, blocks, mapping, next, sk, dk, nk)
      /\ Copied(table, n, free, blocks, mapping, next, sv, dv, nv)
  BY <1>1, <1>2, <1>3, <1>6 DEF Copied
<1>8. nk[RowAt(next, p)] = sk[RowAt(table, p)] /\ nv[RowAt(next, p)] = sv[RowAt(table, p)]
  BY <1>7, SwappedRows
<1> QED
  BY <1>5, <1>8

\* A sequence whose cache, in its blocks, stays as it is.
LEMMA UnmovedRows ==
  ASSUME Shape, BetweenCalls, NEW r \in Seqs, tables'[r] = tables[r],
         \A l \in 1..config.size : \A b, t :
           b \in Range(tables[r]) /\ t \in Slots(BlocksOf(r)) /\ BlockOf(t) = b =>
             HomeNext(r)[l].k[t] = Home(r)[l].k[t] /\ HomeNext(r)[l].v[t] = Home(r)[l].v[t]
  PROVE  Moved(r)
<1> SUFFICES ASSUME NEW l \in 1..config.size, NEW table, NEW next, NEW n,
                    table = tables[r], next = tables'[r], n = len[r], NEW p \in 0..(n - 1)
             PROVE  /\ HomeNext(r)[l].k[RowAt(next, p)] = Home(r)[l].k[RowAt(table, p)]
                    /\ HomeNext(r)[l].v[RowAt(next, p)] = Home(r)[l].v[RowAt(table, p)]
  BY DEF Moved
<1>1. table \in Seq(Nat) /\ n \in Nat /\ Len(table) = CeilDiv(n, BlockSize)
  BY BoundsAssumption DEF Shape, TablesInv
<1>2. \A i \in DOMAIN table : table[i] \in 0..(BlocksOf(r) - 1)
  BY DEF Shape, TablesInv
<1>3. BlocksOf(r) \in Nat
  BY BoundsAssumption DEF BlocksOf
<1>4. PICK b, t : b = table[p \div BlockSize + 1] /\ t = RowAt(table, p)
  OBVIOUS
<1>5. t \in Slots(BlocksOf(r))
  BY <1>1, <1>2, <1>3, <1>4, RowIsASlot
<1>6. BlockOf(t) = b /\ p \div BlockSize + 1 \in DOMAIN table
  BY <1>1, <1>4, RowFacts
<1>7. b \in Range(table)
  BY <1>4, <1>6 DEF Range
<1> QED
  BY <1>4, <1>5, <1>6, <1>7

\* Each layer's keys and values are copied by the same block map.
CopiedCaches(src, dst, mapping, new) ==
  new = [l \in DOMAIN dst |-> [k |-> Swapped(src[l].k, dst[l].k, mapping),
                               v |-> Swapped(src[l].v, dst[l].v, mapping)]]

LEMMA CopiedType ==
  ASSUME NEW n, NEW here \in Nat, NEW there, NEW src, NEW dst, NEW S, NEW free, NEW mapping, NEW new,
         src \in [1..n -> Cache(here)], dst \in [1..n -> Cache(there)],
         S \subseteq 0..(here - 1), mapping \in [S -> free], CopiedCaches(src, dst, mapping, new)
  PROVE  new \in [1..n -> Cache(there)]
<1>1. ASSUME NEW l \in 1..n
      PROVE  [k |-> Swapped(src[l].k, dst[l].k, mapping), v |-> Swapped(src[l].v, dst[l].v, mapping)] \in Cache(there)
  <2>1. PICK a, b, c, d : a = src[l].k /\ b = src[l].v /\ c = dst[l].k /\ d = dst[l].v
    OBVIOUS
  <2>2. a \in [Slots(here) -> Cells] /\ b \in [Slots(here) -> Cells]
    <3>1. src[l] \in Cache(here)
      OBVIOUS
    <3> QED
      BY <2>1, <3>1 DEF Cache
  <2>3. c \in [Slots(there) -> Cells] /\ d \in [Slots(there) -> Cells]
    <3>1. dst[l] \in Cache(there)
      OBVIOUS
    <3> QED
      BY <2>1, <3>1 DEF Cache
  <2>4. Swapped(a, c, mapping) \in [Slots(there) -> Cells] /\ Swapped(b, d, mapping) \in [Slots(there) -> Cells]
    BY <2>2, <2>3, SwappedCells
  <2> QED
    BY <2>1, <2>4 DEF Cache
<1>2. DOMAIN dst = 1..n
  OBVIOUS
<1> QED
  BY <1>1, <1>2 DEF CopiedCaches

\* After a copy every sequence finds its rows: the copied one in its new blocks, the
\* others where they were.
Aside(r, s, dst, free, blocks) ==
  \/ HomeNext(r) = Home(r)
  \/ /\ Home(r) = dst /\ HomeNext(r) = HomeNext(s)
     /\ Range(tables[r]) \cap free = {} /\ BlocksOf(r) = blocks

LEMMA CopyMoves ==
  ASSUME Shape, BetweenCalls, NEW s \in Seqs, NEW mapping, NEW free, MapOf(s, mapping, free),
         NEW blocks \in Nat, free \subseteq 0..(blocks - 1), Remapped(s, mapping),
         NEW dst \in [1..config.size -> Cache(blocks)],
         CopiedCaches(Home(s), dst, mapping, HomeNext(s)),
         \A r \in Seqs : r # s => Aside(r, s, dst, free, blocks)
  PROVE  \A r \in Seqs : Moved(r)
<1>1. PICK new, src : new = HomeNext(s) /\ src = Home(s)
  OBVIOUS
<1>2. DOMAIN dst = 1..config.size /\ DOMAIN new = 1..config.size
  BY <1>1 DEF CopiedCaches
<1>3. ASSUME NEW l \in 1..config.size
      PROVE  /\ DOMAIN dst[l].k = Slots(blocks) /\ DOMAIN dst[l].v = Slots(blocks)
             /\ new[l].k = Swapped(src[l].k, dst[l].k, mapping)
             /\ new[l].v = Swapped(src[l].v, dst[l].v, mapping)
  <2>1. dst[l] \in Cache(blocks)
    OBVIOUS
  <2>2. DOMAIN dst[l].k = Slots(blocks) /\ DOMAIN dst[l].v = Slots(blocks)
    BY <2>1 DEF Cache
  <2>3. /\ new[l].k = Swapped(src[l].k, dst[l].k, mapping)
        /\ new[l].v = Swapped(src[l].v, dst[l].v, mapping)
    BY <1>1, <1>2 DEF CopiedCaches
  <2> QED
    BY <2>2, <2>3
<1>4. Moved(s)
  <2>1. \A l \in 1..config.size :
          \E d : /\ DOMAIN d.k = Slots(blocks) /\ DOMAIN d.v = Slots(blocks)
                 /\ HomeNext(s)[l].k = Swapped(Home(s)[l].k, d.k, mapping)
                 /\ HomeNext(s)[l].v = Swapped(Home(s)[l].v, d.v, mapping)
    BY <1>1, <1>3
  <2> QED
    BY <1>1, <1>2, <2>1, CopiedRows
<1>5. ASSUME NEW r \in Seqs, r # s PROVE Moved(r)
  <2>1. tables'[r] = tables[r]
    <3>1. tables \in [Seqs -> Seq(Nat)]
      BY DEF Shape, TablesInv
    <3> QED
      BY <1>5, <3>1 DEF Remapped
  <2>2. ASSUME NEW l \in 1..config.size, NEW b, NEW t, b \in Range(tables[r]), t \in Slots(BlocksOf(r)), BlockOf(t) = b
        PROVE  HomeNext(r)[l].k[t] = Home(r)[l].k[t] /\ HomeNext(r)[l].v[t] = Home(r)[l].v[t]
    <3>1. CASE HomeNext(r) = Home(r)
      BY <3>1
    <3>2. CASE /\ Home(r) = dst /\ HomeNext(r) = HomeNext(s)
               /\ Range(tables[r]) \cap free = {} /\ BlocksOf(r) = blocks
      <4>1. PICK dk, dv, sk, sv : dk = dst[l].k /\ dv = dst[l].v /\ sk = src[l].k /\ sv = src[l].v
        OBVIOUS
      <4>2. t \in DOMAIN dk /\ t \in DOMAIN dv /\ BlockOf(t) \notin free
        BY <1>3, <2>2, <3>2, <4>1
      <4>3. mapping \in [Range(tables[s]) -> free]
        BY DEF MapOf
      <4>4. Swapped(sk, dk, mapping)[t] = dk[t] /\ Swapped(sv, dv, mapping)[t] = dv[t]
        BY <4>2, <4>3 DEF Swapped
      <4>5. new[l].k[t] = dk[t] /\ new[l].v[t] = dv[t]
        BY <1>3, <4>1, <4>4
      <4> QED
        BY <1>1, <3>2, <4>1, <4>5
    <3> QED
      BY <1>5, <3>1, <3>2 DEF Aside
  <2> QED
    BY <2>1, <2>2, UnmovedRows
<1> QED
  BY <1>4, <1>5

LEMMA CopyKeeps ==
  ASSUME Shape, BetweenCalls, TablesInv', CachesInv', \A s \in Seqs : Moved(s)
  PROVE  Shape' /\ (RowsInv => RowsInv') /\ \A s \in Seqs : KeptCells(s)' = KeptCells(s)
<1>1. LayersInv' /\ CallInv'
  BY DEF BetweenCalls, Shape, LayersInv, CallInv
<1>2. RowsInv => RowsInv'
  BY MovedRows
<1>3. \A s \in Seqs : KeptCells(s)' = KeptCells(s)
  BY MovedKept
<1> QED
  BY <1>1, <1>2, <1>3 DEF Shape

LEMMA BlocksInCache ==
  ASSUME TablesInv, NEW s \in Seqs
  PROVE  Range(tables[s]) \subseteq 0..(BlocksOf(s) - 1)
BY DEF TablesInv, Range

LEMMA SwapOutKeeps ==
  ASSUME Shape, NEW s \in Seqs, SwapOut(s)
  PROVE  Shape' /\ (RowsInv => RowsInv') /\ \A r \in Seqs : KeptCells(r)' = KeptCells(r)
<1> DEFINE map == Given(Range(tables[s]), FreeCpuBlocks)
<1>1. PICK free, mapping : free = FreeCpuBlocks /\ mapping = map
  OBVIOUS
<1>2. /\ call = Idle /\ place[s] = "running" /\ config.turboquant = "none"
      /\ Cardinality(free) >= Len(tables[s])
      /\ cpu' = [l \in DOMAIN cpu |-> [k |-> Swapped(std[l].k, cpu[l].k, mapping),
                                       v |-> Swapped(std[l].v, cpu[l].v, mapping)]]
      /\ tables' = [tables EXCEPT ![s] = [i \in DOMAIN tables[s] |-> mapping[tables[s][i]]]]
      /\ place' = [place EXCEPT ![s] = "swapped"]
      /\ UNCHANGED <<config, counter, layers, std, tq, len, call>>
  BY <1>1 DEF SwapOut, Ready
<1>3. TablesInv /\ CachesInv
  BY DEF Shape
<1>4. MapOf(s, mapping, free)
  BY <1>1, <1>2, <1>3, FreeAre, MapExists
<1>5. BetweenCalls /\ Remapped(s, mapping)
  BY <1>2 DEF BetweenCalls, Remapped
<1>6. PICK blocks : blocks = NumCpuBlocks
  OBVIOUS
<1>7. blocks \in Nat /\ free \subseteq 0..(blocks - 1)
  BY <1>1, <1>6, FreeAre, BoundsAssumption
<1>8. /\ place' \in [Seqs -> {"new", "running", "swapped", "done"}] /\ place'[s] = "swapped"
      /\ \A r \in Seqs : r # s => place'[r] = place[r]
  <2>1. place \in [Seqs -> {"new", "running", "swapped", "done"}]
    BY <1>3 DEF TablesInv
  <2> QED
    BY <1>2, <2>1
<1>9. ~OnCpu(s) /\ BlocksOf(s) = NumBlocks /\ BlocksOf(s)' = NumCpuBlocks
  BY <1>2, <1>8 DEF OnCpu, BlocksOf
<1>10. Home(s) = std /\ HomeNext(s) = cpu'
  BY <1>8, <1>9 DEF Home, HomeNext
<1>11. \A r \in Seqs : OnCpu(r) => Range(tables[r]) \cap free = {}
  BY <1>1, FreeAre
<1>12. TablesInv'
  <2>1. \A r \in Seqs : r # s /\ (OnCpu(r) <=> OnCpu(s)') => Range(tables[r]) \cap free = {}
    BY <1>8, <1>11 DEF OnCpu
  <2> QED
    BY <1>3, <1>4, <1>5, <1>6, <1>7, <1>8, <1>9, <2>1, TablesMoved
<1>13. /\ std \in [1..config.size -> Cache(NumBlocks)] /\ cpu \in [1..config.size -> Cache(blocks)]
       /\ tq \in [0..(TqLayers - 1) -> Cache(NumBlocks)]
  BY <1>3, <1>6 DEF CachesInv
<1>14. CopiedCaches(std, cpu, mapping, cpu')
  BY <1>2 DEF CopiedCaches
<1>15. cpu' \in [1..config.size -> Cache(NumCpuBlocks)]
  <2>1. Range(tables[s]) \subseteq 0..(NumBlocks - 1) /\ mapping \in [Range(tables[s]) -> free] /\ NumBlocks \in Nat
    BY <1>3, <1>4, <1>9, BlocksInCache, BoundsAssumption DEF MapOf
  <2> QED
    BY <1>6, <1>13, <1>14, <2>1, CopiedType
<1>16. CachesInv'
  BY <1>2, <1>13, <1>15 DEF CachesInv
<1>17. ASSUME NEW r \in Seqs, r # s PROVE Aside(r, s, cpu, free, blocks)
  <2>1. CASE OnCpu(r)
    BY <1>6, <1>8, <1>10, <1>11, <1>17, <2>1 DEF Aside, Home, HomeNext, OnCpu, BlocksOf
  <2>2. CASE ~OnCpu(r)
    BY <1>2, <1>8, <1>17, <2>2 DEF Aside, Home, HomeNext, OnCpu
  <2> QED
    BY <2>1, <2>2
<1>18. \A r \in Seqs : Moved(r)
  BY <1>4, <1>5, <1>7, <1>10, <1>13, <1>14, <1>17, CopyMoves
<1> QED
  BY <1>5, <1>12, <1>16, <1>18, CopyKeeps

LEMMA SwapInKeeps ==
  ASSUME Shape, NEW s \in Seqs, SwapIn(s)
  PROVE  Shape' /\ (RowsInv => RowsInv') /\ \A r \in Seqs : KeptCells(r)' = KeptCells(r)
<1> DEFINE map == Given(Range(tables[s]), FreeBlocks)
<1>1. PICK free, mapping : free = FreeBlocks /\ mapping = map
  OBVIOUS
<1>2. /\ call = Idle /\ place[s] = "swapped" /\ Cardinality(free) >= Len(tables[s])
      /\ std' = [l \in DOMAIN std |-> [k |-> Swapped(cpu[l].k, std[l].k, mapping),
                                       v |-> Swapped(cpu[l].v, std[l].v, mapping)]]
      /\ tables' = [tables EXCEPT ![s] = [i \in DOMAIN tables[s] |-> mapping[tables[s][i]]]]
      /\ place' = [place EXCEPT ![s] = "running"]
      /\ UNCHANGED <<config, counter, layers, cpu, tq, len, call>>
  BY <1>1 DEF SwapIn, Ready
<1>3. TablesInv /\ CachesInv
  BY DEF Shape
<1>4. MapOf(s, mapping, free)
  BY <1>1, <1>2, <1>3, FreeAre, MapExists
<1>5. BetweenCalls /\ Remapped(s, mapping)
  <2>1. config.turboquant = "none"
    BY <1>2, <1>3 DEF TablesInv, OnCpu
  <2> QED
    BY <1>2, <2>1 DEF BetweenCalls, Remapped
<1>6. PICK blocks : blocks = NumBlocks
  OBVIOUS
<1>7. blocks \in Nat /\ free \subseteq 0..(blocks - 1)
  BY <1>1, <1>6, FreeAre, BoundsAssumption
<1>8. /\ place' \in [Seqs -> {"new", "running", "swapped", "done"}] /\ place'[s] = "running"
      /\ \A r \in Seqs : r # s => place'[r] = place[r]
  <2>1. place \in [Seqs -> {"new", "running", "swapped", "done"}]
    BY <1>3 DEF TablesInv
  <2> QED
    BY <1>2, <2>1
<1>9. OnCpu(s) /\ BlocksOf(s) = NumCpuBlocks /\ BlocksOf(s)' = NumBlocks
  BY <1>2, <1>8 DEF OnCpu, BlocksOf
<1>10. Home(s) = cpu /\ HomeNext(s) = std'
  BY <1>8, <1>9 DEF Home, HomeNext
<1>11. \A r \in Seqs : ~OnCpu(r) => Range(tables[r]) \cap free = {}
  BY <1>1, FreeAre
<1>12. TablesInv'
  <2>1. \A r \in Seqs : r # s /\ (OnCpu(r) <=> OnCpu(s)') => Range(tables[r]) \cap free = {}
    BY <1>8, <1>11 DEF OnCpu
  <2> QED
    BY <1>3, <1>4, <1>5, <1>6, <1>7, <1>8, <1>9, <2>1, TablesMoved
<1>13. /\ std \in [1..config.size -> Cache(blocks)] /\ cpu \in [1..config.size -> Cache(NumCpuBlocks)]
       /\ tq \in [0..(TqLayers - 1) -> Cache(NumBlocks)]
  BY <1>3, <1>6 DEF CachesInv
<1>14. CopiedCaches(cpu, std, mapping, std')
  BY <1>2 DEF CopiedCaches
<1>15. std' \in [1..config.size -> Cache(NumBlocks)]
  <2>1. Range(tables[s]) \subseteq 0..(NumCpuBlocks - 1) /\ mapping \in [Range(tables[s]) -> free] /\ NumCpuBlocks \in Nat
    BY <1>3, <1>4, <1>9, BlocksInCache, BoundsAssumption DEF MapOf
  <2> QED
    BY <1>6, <1>13, <1>14, <2>1, CopiedType
<1>16. CachesInv'
  BY <1>2, <1>13, <1>15 DEF CachesInv
<1>17. ASSUME NEW r \in Seqs, r # s PROVE Aside(r, s, std, free, blocks)
  <2>1. CASE ~OnCpu(r)
    BY <1>6, <1>8, <1>10, <1>11, <1>17, <2>1 DEF Aside, Home, HomeNext, OnCpu, BlocksOf
  <2>2. CASE OnCpu(r)
    BY <1>2, <1>8, <1>17, <2>2 DEF Aside, Home, HomeNext, OnCpu
  <2> QED
    BY <2>1, <2>2
<1>18. \A r \in Seqs : Moved(r)
  BY <1>4, <1>5, <1>7, <1>10, <1>13, <1>14, <1>17, CopyMoves
<1> QED
  BY <1>5, <1>12, <1>16, <1>18, CopyKeeps

LEMMA MoveBlocksKeeps ==
  ASSUME Shape, NEW s \in Seqs, MoveBlocks(s)
  PROVE  Shape' /\ (RowsInv => RowsInv') /\ \A r \in Seqs : KeptCells(r)' = KeptCells(r)
<1> DEFINE map == Given(Range(tables[s]), FreeBlocks)
<1>1. PICK free, mapping : free = FreeBlocks /\ mapping = map
  OBVIOUS
<1>2. /\ call = Idle /\ place[s] = "running" /\ config.turboquant = "none"
      /\ Cardinality(free) >= Len(tables[s])
      /\ std' = [l \in DOMAIN std |-> [k |-> Swapped(std[l].k, std[l].k, mapping),
                                       v |-> Swapped(std[l].v, std[l].v, mapping)]]
      /\ tables' = [tables EXCEPT ![s] = [i \in DOMAIN tables[s] |-> mapping[tables[s][i]]]]
      /\ UNCHANGED <<config, counter, layers, cpu, tq, len, place, call>>
  BY <1>1 DEF MoveBlocks, Ready
<1>3. TablesInv /\ CachesInv
  BY DEF Shape
<1>4. MapOf(s, mapping, free)
  BY <1>1, <1>2, <1>3, FreeAre, MapExists
<1>5. BetweenCalls /\ Remapped(s, mapping)
  BY <1>2 DEF BetweenCalls, Remapped
<1>6. PICK blocks : blocks = NumBlocks
  OBVIOUS
<1>7. blocks \in Nat /\ free \subseteq 0..(blocks - 1)
  BY <1>1, <1>6, FreeAre, BoundsAssumption
<1>8. /\ place' \in [Seqs -> {"new", "running", "swapped", "done"}] /\ place'[s] = "running"
      /\ \A r \in Seqs : place'[r] = place[r]
  BY <1>2, <1>3 DEF TablesInv
<1>9. ~OnCpu(s) /\ BlocksOf(s) = NumBlocks /\ BlocksOf(s)' = NumBlocks
  BY <1>2, <1>8 DEF OnCpu, BlocksOf
<1>10. Home(s) = std /\ HomeNext(s) = std'
  BY <1>8, <1>9 DEF Home, HomeNext
<1>11. \A r \in Seqs : ~OnCpu(r) => Range(tables[r]) \cap free = {}
  BY <1>1, FreeAre
<1>12. TablesInv'
  <2>1. \A r \in Seqs : r # s /\ (OnCpu(r) <=> OnCpu(s)') => Range(tables[r]) \cap free = {}
    BY <1>8, <1>11 DEF OnCpu
  <2> QED
    BY <1>3, <1>4, <1>5, <1>6, <1>7, <1>8, <1>9, <2>1, TablesMoved
<1>13. /\ std \in [1..config.size -> Cache(blocks)] /\ cpu \in [1..config.size -> Cache(NumCpuBlocks)]
       /\ tq \in [0..(TqLayers - 1) -> Cache(NumBlocks)]
  BY <1>3, <1>6 DEF CachesInv
<1>14. CopiedCaches(std, std, mapping, std')
  BY <1>2 DEF CopiedCaches
<1>15. std' \in [1..config.size -> Cache(NumBlocks)]
  <2>1. Range(tables[s]) \subseteq 0..(blocks - 1) /\ mapping \in [Range(tables[s]) -> free]
    BY <1>3, <1>4, <1>6, <1>9, BlocksInCache DEF MapOf
  <2> QED
    BY <1>6, <1>7, <1>13, <1>14, <2>1, CopiedType
<1>16. CachesInv'
  BY <1>2, <1>13, <1>15 DEF CachesInv
<1>17. ASSUME NEW r \in Seqs, r # s PROVE Aside(r, s, std, free, blocks)
  <2>1. CASE ~OnCpu(r)
    BY <1>6, <1>8, <1>10, <1>11, <1>17, <2>1 DEF Aside, Home, HomeNext, OnCpu, BlocksOf
  <2>2. CASE OnCpu(r)
    BY <1>2, <1>8, <1>17, <2>2 DEF Aside, Home, HomeNext, OnCpu
  <2> QED
    BY <2>1, <2>2
<1>18. \A r \in Seqs : Moved(r)
  BY <1>4, <1>5, <1>7, <1>10, <1>13, <1>14, <1>17, CopyMoves
<1> QED
  BY <1>5, <1>12, <1>16, <1>18, CopyKeeps

\* Blocks are cleared one byte to an element: at wider elements clear_blocks reaches
\* other blocks.
OneByteClears == ClearWidths \subseteq {1}

LEMMA ClearedCells ==
  ASSUME NEW blocks, NEW mem \in [Slots(blocks) -> Cells], NEW ids, NEW width, NEW metal
  PROVE  ClearedBlocks(mem, ids, width, metal) \in [Slots(blocks) -> Cells]
<1>1. NoCell \in Cells
  BY BoundsAssumption DEF NoCell, Cells
<1> QED
  BY <1>1 DEF ClearedBlocks

\* Clearing a block of one-byte elements leaves the rows of the others.
LEMMA ClearedRow ==
  ASSUME NEW b \in Nat, NEW ids, ids = {b}, NEW width, width = 1, NEW metal,
         NEW mem, NEW t \in DOMAIN mem, t \in Nat, BlockOf(t) # b
  PROVE  ClearedBlocks(mem, ids, width, metal)[t] = mem[t]
<1>1. BlockSize \in Nat \ {0}
  BY BlockSizeAssumption
<1>2. PICK base : base = b * BlockSize
  OBVIOUS
<1>3. base \in Nat /\ base = BlockSize * b
  BY <1>1, <1>2
<1>4. ClearedOnCuda(b, 1) = base..(base + BlockSize - 1) /\ ClearedOnMetal(b, 1) = base..(base + BlockSize - 1)
  <2>1. base * 1 = base /\ BlockSize * 1 = BlockSize /\ BlockSize * 1 * 1 = BlockSize
    BY <1>1, <1>3
  <2>2. b * BlockSize * 1 = base
    BY <1>1, <1>2, <1>3
  <2>3. ClearedOnCuda(b, 1) = base..(base + BlockSize - 1)
    BY <1>1, <1>2, <2>1 DEF ClearedOnCuda
  <2>4. ClearedOnMetal(b, 1) = base..(base + BlockSize - 1)
    BY <1>1, <1>2, <2>1, <2>2 DEF ClearedOnMetal
  <2> QED
    BY <2>3, <2>4
<1>5. SlotBytes(t, 1) = {t}
  BY DEF SlotBytes
<1>6. t \notin base..(base + BlockSize - 1)
  <2> SUFFICES ASSUME t \in base..(base + BlockSize - 1) PROVE FALSE
    OBVIOUS
  <2>1. PICK r : r = t - base
    OBVIOUS
  <2>2. r \in 0..(BlockSize - 1) /\ t = BlockSize * b + r /\ b \in Int
    BY <1>1, <1>3, <2>1
  <2>3. t \div BlockSize = b
    BY <1>1, <2>2, DivUnique
  <2> QED
    BY <2>3 DEF BlockOf
<1>7. SlotBytes(t, 1) \cap (IF metal THEN ClearedOnMetal(b, 1) ELSE ClearedOnCuda(b, 1)) = {}
  BY <1>4, <1>5, <1>6
<1> QED
  BY <1>7 DEF ClearedBlocks

LEMMA ClearKeeps ==
  ASSUME Shape, NEW b \in 0..(NumBlocks - 1), ClearBlocks(b)
  PROVE  /\ Shape'
         /\ OneByteClears => (RowsInv => RowsInv') /\ \A r \in Seqs : KeptCells(r)' = KeptCells(r)
<1>1. PICK metal : metal = (Has("metal") \/ Has("metal-flash"))
  OBVIOUS
<1>2. PICK width : width = Width
  OBVIOUS
<1>0. PICK ids : ids = {b}
  OBVIOUS
<1>3. /\ call = Idle /\ width \in ClearWidths /\ config.turboquant = "none" /\ b \in FreeBlocks
      /\ std' = [l \in DOMAIN std |-> [k |-> ClearedBlocks(std[l].k, ids, width, metal),
                                       v |-> ClearedBlocks(std[l].v, ids, width, metal)]]
      /\ UNCHANGED <<config, counter, layers, cpu, tq, tables, len, place, call>>
  BY <1>0, <1>1, <1>2 DEF ClearBlocks, Ready
<1>4. TablesInv /\ CachesInv /\ b \in Nat
  BY <1>1, BoundsAssumption DEF Shape
<1>5. BetweenCalls
  BY <1>3 DEF BetweenCalls
<1>6. TablesInv'
  BY <1>3, <1>4 DEF TablesInv, OnCpu, BlocksOf, InBatch
<1>7. DOMAIN std = 1..config.size /\ \A l \in 1..config.size : std[l] \in Cache(NumBlocks)
  BY <1>4 DEF CachesInv
<1>8. std' \in [1..config.size -> Cache(NumBlocks)]
  <2>1. ASSUME NEW l \in 1..config.size
        PROVE  [k |-> ClearedBlocks(std[l].k, ids, width, metal),
                v |-> ClearedBlocks(std[l].v, ids, width, metal)] \in Cache(NumBlocks)
    <3>1. std[l].k \in [Slots(NumBlocks) -> Cells] /\ std[l].v \in [Slots(NumBlocks) -> Cells]
      BY <1>7 DEF Cache
    <3>2. /\ ClearedBlocks(std[l].k, ids, width, metal) \in [Slots(NumBlocks) -> Cells]
          /\ ClearedBlocks(std[l].v, ids, width, metal) \in [Slots(NumBlocks) -> Cells]
      BY <3>1, ClearedCells
    <3> QED
      BY <3>2 DEF Cache
  <2> QED
    BY <1>3, <1>7, <2>1
<1>9. CachesInv'
  BY <1>3, <1>4, <1>8 DEF CachesInv
<1>10. Shape'
  <2>1. LayersInv' /\ CallInv'
    BY <1>3 DEF Shape, LayersInv, CallInv
  <2> QED
    BY <1>6, <1>9, <2>1 DEF Shape
<1>11. ASSUME OneByteClears PROVE \A r \in Seqs : Moved(r)
  <2> SUFFICES ASSUME NEW r \in Seqs PROVE Moved(r)
    OBVIOUS
  <2>1. width = 1
    BY <1>3, <1>11 DEF OneByteClears
  <2>2. tables'[r] = tables[r] /\ place'[r] = place[r]
    BY <1>3
  <2>3. ASSUME NEW l \in 1..config.size, NEW c, NEW t, c \in Range(tables[r]), t \in Slots(BlocksOf(r)), BlockOf(t) = c
        PROVE  HomeNext(r)[l].k[t] = Home(r)[l].k[t] /\ HomeNext(r)[l].v[t] = Home(r)[l].v[t]
    <3>1. CASE OnCpu(r)
      BY <1>3, <2>2, <3>1 DEF Home, HomeNext, OnCpu
    <3>2. CASE ~OnCpu(r)
      <4>1. BlockOf(t) # b
        <5>1. Range(tables[r]) \cap FreeBlocks = {}
          BY <3>2, FreeAre
        <5> QED
          BY <1>3, <2>3, <5>1
      <4>2. t \in Slots(NumBlocks) /\ t \in Nat
        <5>1. t \in Slots(NumBlocks)
          BY <2>3, <3>2 DEF BlocksOf
        <5> QED
          BY <5>1 DEF Slots
      <4>3. PICK ck, cv : ck = std[l].k /\ cv = std[l].v
        OBVIOUS
      <4>4. t \in DOMAIN ck /\ t \in DOMAIN cv
        BY <1>7, <4>2, <4>3 DEF Cache
      <4>5. ClearedBlocks(ck, ids, width, metal)[t] = ck[t] /\ ClearedBlocks(cv, ids, width, metal)[t] = cv[t]
        <5>1. ClearedBlocks(ck, ids, width, metal)[t] = ck[t]
          BY <1>0, <1>4, <2>1, <4>1, <4>2, <4>4, ClearedRow
        <5>2. ClearedBlocks(cv, ids, width, metal)[t] = cv[t]
          BY <1>0, <1>4, <2>1, <4>1, <4>2, <4>4, ClearedRow
        <5> QED
          BY <5>1, <5>2
      <4>6. std'[l].k[t] = ck[t] /\ std'[l].v[t] = cv[t]
        BY <1>3, <1>7, <4>3, <4>5
      <4> QED
        BY <2>2, <3>2, <4>3, <4>6 DEF Home, HomeNext, OnCpu
    <3> QED
      BY <3>1, <3>2
  <2> QED
    BY <1>5, <2>2, <2>3, UnmovedRows
<1> QED
  BY <1>5, <1>6, <1>9, <1>10, <1>11, CopyKeeps

LEMMA CeilDivMonotonic ==
  ASSUME NEW a \in Nat, NEW b \in Nat, a <= b
  PROVE  /\ CeilDiv(a, BlockSize) \in Nat /\ CeilDiv(b, BlockSize) \in Nat
         /\ CeilDiv(a, BlockSize) <= CeilDiv(b, BlockSize)
<1>1. BlockSize \in Nat \ {0}
  BY BlockSizeAssumption
<1>2. PICK x, y : x = a + BlockSize - 1 /\ y = b + BlockSize - 1
  OBVIOUS
<1>3. x \in Nat /\ y \in Nat /\ x <= y
  BY <1>1, <1>2
<1>4. x \div BlockSize <= y \div BlockSize /\ x \div BlockSize \in Nat /\ y \div BlockSize \in Nat
  BY <1>1, <1>3, DivMonotonic, ModFacts
<1> QED
  BY <1>2, <1>4 DEF CeilDiv

\* The calls the engine starts.
Startable(kind, batch, tokens, metadata, plan) ==
  /\ kind \in {"fresh", "chunk", "decode"} /\ batch \in Seq(Seqs) /\ Len(batch) >= 1 /\ IsInjective(batch)
  /\ tokens \in Nat /\ tokens >= 1 /\ metadata \in BOOLEAN /\ plan \in BOOLEAN
  /\ \A i \in DOMAIN batch : place[batch[i]] \in {"new", "running"}
  /\ kind = "decode" => tokens = 1
  /\ kind = "fresh" => \A i \in DOMAIN batch : place[batch[i]] = "new"

LEMMA Startables ==
  ASSUME StartPrefill \/ StartDecode
  PROVE  \E kind, batch, tokens, metadata, plan :
           Startable(kind, batch, tokens, metadata, plan) /\ Start(kind, batch, tokens, metadata, plan)
<1>1. CASE StartPrefill
  <2>1. PICK s \in Seqs, tokens \in 1..2, kind \in {"fresh", "chunk"}, metadata \in BOOLEAN, plan \in BOOLEAN :
          /\ place[s] \in (IF kind = "fresh" THEN {"new"} ELSE {"new", "running"})
          /\ Start(kind, <<s>>, tokens, metadata, plan)
    BY <1>1 DEF StartPrefill
  <2>2. PICK batch : batch = <<s>>
    OBVIOUS
  <2>3. batch \in Seq(Seqs) /\ Len(batch) = 1 /\ DOMAIN batch = {1} /\ batch[1] = s
    BY <2>2
  <2>4. IsInjective(batch)
    BY <2>3 DEF IsInjective
  <2>5. tokens \in Nat /\ tokens >= 1 /\ kind # "decode"
    BY <2>1
  <2>6. \A i \in DOMAIN batch : place[batch[i]] \in {"new", "running"} /\ (kind = "fresh" => place[batch[i]] = "new")
    BY <2>1, <2>3
  <2>7. Startable(kind, batch, tokens, metadata, plan)
    BY <2>1, <2>3, <2>4, <2>5, <2>6 DEF Startable
  <2> QED
    BY <2>1, <2>2, <2>7
<1>2. CASE StartDecode
  <2>1. PICK n \in 1..Cardinality(Seqs), metadata \in BOOLEAN, plan \in BOOLEAN :
          \E batch \in [1..n -> {s \in Seqs : place[s] = "running"}] :
            IsInjective(batch) /\ Start("decode", batch, 1, metadata, plan)
    BY <1>2 DEF StartDecode
  <2>2. PICK batch \in [1..n -> {s \in Seqs : place[s] = "running"}] :
          IsInjective(batch) /\ Start("decode", batch, 1, metadata, plan)
    BY <2>1
  <2>3. n \in Nat /\ n >= 1
    <3>1. Cardinality(Seqs) \in Nat
      BY BoundsAssumption, FS_CardinalityType
    <3> QED
      BY <2>1, <3>1
  <2>4. batch \in Seq(Seqs) /\ Len(batch) = n /\ DOMAIN batch = 1..n
    BY <2>2, <2>3
  <2>5. \A i \in DOMAIN batch : place[batch[i]] = "running"
    BY <2>2, <2>4
  <2>6. Startable("decode", batch, 1, metadata, plan)
    BY <2>1, <2>2, <2>3, <2>4, <2>5 DEF Startable
  <2> QED
    BY <2>2, <2>6
<1> QED
  BY <1>1, <1>2

MapInto(wanted, given, free) == given \in [wanted -> free] /\ IsInjective(given)

\* The blocks of a new call: distinct free blocks for the new places, one for each.
LEMMA NewBlocks ==
  ASSUME TablesInv, NEW kind, NEW batch, NEW tokens, NEW metadata, NEW plan,
         Startable(kind, batch, tokens, metadata, plan), Start(kind, batch, tokens, metadata, plan)
  PROVE  MapInto(NewPlaces(batch, tokens), Given(NewPlaces(batch, tokens), FreeBlocks), FreeBlocks)
<1>1. PICK n, max : n = Len(batch) /\ max = CeilDiv(MaxLen, BlockSize)
  OBVIOUS
<1>2. /\ batch \in Seq(Seqs) /\ n \in Nat /\ DOMAIN batch = 1..n /\ MaxLen \in Nat /\ tokens \in Nat
      /\ \A i \in 1..n : batch[i] \in Seqs
  BY <1>1, BoundsAssumption DEF Startable
<1>3. ASSUME NEW i \in 1..n
      PROVE  /\ Len(tables[batch[i]]) \in Nat
             /\ BlocksFor(batch[i], tokens) \in Nat /\ BlocksFor(batch[i], tokens) <= max
  <2>1. PICK s, m : s = batch[i] /\ m = len[s] + tokens
    OBVIOUS
  <2>2. s \in Seqs /\ m \in Nat /\ m <= MaxLen /\ tables[s] \in Seq(Nat)
    <3>1. s \in Seqs
      BY <1>2, <2>1
    <3>2. len[s] \in Nat /\ tables[s] \in Seq(Nat)
      BY <1>2, <3>1 DEF TablesInv
    <3>3. len[batch[i]] + tokens <= MaxLen
      BY <1>2 DEF Start
    <3> QED
      BY <1>2, <2>1, <3>1, <3>2, <3>3
  <2>3. CeilDiv(m, BlockSize) \in Nat /\ CeilDiv(m, BlockSize) <= max
    BY <1>1, <1>2, <2>2, CeilDivMonotonic
  <2> QED
    BY <2>1, <2>2, <2>3 DEF BlocksFor
<1>4. max \in Nat
  BY <1>1, <1>2, CeilDivMonotonic
<1>5. PICK wanted, free : wanted = NewPlaces(batch, tokens) /\ free = FreeBlocks
  OBVIOUS
<1>6. wanted \subseteq (1..n) \X (1..max)
  <2> SUFFICES ASSUME NEW x \in wanted PROVE x \in (1..n) \X (1..max)
    OBVIOUS
  <2>1. PICK i \in DOMAIN batch : x \in {i} \X ((Len(tables[batch[i]]) + 1)..BlocksFor(batch[i], tokens))
    BY <1>5 DEF NewPlaces
  <2>2. PICK j \in (Len(tables[batch[i]]) + 1)..BlocksFor(batch[i], tokens) : x = <<i, j>>
    BY <2>1
  <2>3. i \in 1..n
    BY <1>2
  <2>4. j \in 1..max
    BY <1>3, <1>4, <2>2, <2>3
  <2> QED
    BY <2>2, <2>3, <2>4
<1>7. IsFiniteSet(wanted) /\ IsFiniteSet(free)
  <2>1. IsFiniteSet(1..n) /\ IsFiniteSet(1..max)
    BY <1>2, <1>4, FS_Interval
  <2>2. IsFiniteSet((1..n) \X (1..max))
    BY <2>1, FS_Product
  <2> QED
    BY <1>5, <1>6, <2>2, FS_Subset, FreeAre
<1>8. Cardinality(wanted) <= Cardinality(free)
  BY <1>5 DEF Start
<1>9. Given(wanted, free) \in [wanted -> free] /\ IsInjective(Given(wanted, free))
  BY <1>7, <1>8, GivenExists
<1> QED
  BY <1>5, <1>9 DEF MapInto

\* What a new call makes of the table of a sequence: it keeps its blocks, and those
\* after them are free.
Grown(s, at, given) ==
  /\ tables'[s] \in Seq(Nat) /\ Len(tables'[s]) = CeilDiv(len'[s], BlockSize)
  /\ \A j \in DOMAIN tables[s] : j \in DOMAIN tables'[s] /\ tables'[s][j] = tables[s][j]
  /\ \A j \in DOMAIN tables'[s] \ DOMAIN tables[s] :
       <<at, j>> \in DOMAIN given /\ tables'[s][j] = given[<<at, j>>]

LEMMA TablesGrow ==
  ASSUME TablesInv, NEW kind, NEW batch, NEW tokens, NEW metadata, NEW plan,
         Startable(kind, batch, tokens, metadata, plan), Start(kind, batch, tokens, metadata, plan),
         NEW given, given = Given(NewPlaces(batch, tokens), FreeBlocks),
         NEW at \in DOMAIN batch, NEW s, s = batch[at]
  PROVE  /\ s \in Seqs /\ len'[s] = len[s] + tokens /\ len'[s] \in 0..MaxLen
         /\ Grown(s, at, given)
<1>1. PICK table, m, k, next : /\ table = tables[s] /\ m = len[s] + tokens /\ k = BlocksFor(s, tokens)
                               /\ next = tables'[s]
  OBVIOUS
<1>2. s \in Seqs /\ s \in Range(batch) /\ tokens \in Nat /\ MaxLen \in Nat
  BY BoundsAssumption DEF Startable, Range
<1>3. len[s] \in Nat /\ table \in Seq(Nat) /\ Len(table) = CeilDiv(len[s], BlockSize)
  BY <1>1, <1>2 DEF TablesInv
<1>4. m \in Nat /\ m <= MaxLen /\ len[s] <= m
  <2>1. len[batch[at]] + tokens <= MaxLen
    BY DEF Start
  <2> QED
    BY <1>1, <1>2, <1>3, <2>1
<1>5. len'[s] = m
  BY <1>1, <1>2 DEF Start
<1>6. k = CeilDiv(m, BlockSize) /\ k \in Nat /\ Len(table) <= k
  <2>1. CeilDiv(m, BlockSize) \in Nat /\ CeilDiv(len[s], BlockSize) <= CeilDiv(m, BlockSize)
    BY <1>3, <1>4, CeilDivMonotonic
  <2> QED
    BY <1>1, <1>3, <2>1 DEF BlocksFor
<1>7. (CHOOSE i \in DOMAIN batch : batch[i] = s) = at
  <2>1. IsInjective(batch)
    BY DEF Startable
  <2> QED
    BY <2>1 DEF IsInjective
<1>8. next = [j \in 1..k |-> IF j \in DOMAIN table THEN table[j] ELSE given[<<at, j>>]]
  <2>1. next = TableFor(batch, CHOOSE i \in DOMAIN batch : batch[i] = s, tokens)
    BY <1>1, <1>2 DEF Start
  <2>2. next = TableFor(batch, at, tokens)
    BY <1>7, <2>1
  <2> QED
    BY <1>1, <2>2 DEF TableFor
<1>9. MapInto(NewPlaces(batch, tokens), given, FreeBlocks)
  BY NewBlocks
<1>10. ASSUME NEW j \in 1..k, j \notin DOMAIN table
       PROVE  <<at, j>> \in DOMAIN given /\ given[<<at, j>>] \in Nat
  <2>1. DOMAIN table = 1..Len(table) /\ Len(table) \in Nat
    BY <1>3
  <2>2. j \in (Len(table) + 1)..k
    BY <1>10, <1>6, <2>1
  <2>3. <<at, j>> \in {at} \X ((Len(tables[batch[at]]) + 1)..BlocksFor(batch[at], tokens))
    BY <1>1, <2>2
  <2>4. <<at, j>> \in NewPlaces(batch, tokens)
    BY <2>3 DEF NewPlaces
  <2>5. <<at, j>> \in DOMAIN given /\ given[<<at, j>>] \in FreeBlocks
    BY <1>9, <2>4 DEF MapInto
  <2>6. given[<<at, j>>] \in 0..(NumBlocks - 1)
    BY <2>5, FreeAre
  <2> QED
    BY <2>5, <2>6
<1>11. next \in Seq(Nat) /\ Len(next) = k /\ DOMAIN next = 1..k
  <2>1. \A j \in DOMAIN table : table[j] \in Nat
    BY <1>3
  <2>2. next \in [1..k -> Nat]
    BY <1>8, <1>10, <2>1
  <2> QED
    BY <1>6, <2>2
<1>12. \A j \in DOMAIN table : j \in DOMAIN next /\ next[j] = table[j]
  <2>1. DOMAIN table = 1..Len(table) /\ Len(table) \in Nat
    BY <1>3
  <2>2. \A j \in DOMAIN table : j \in 1..k
    BY <1>6, <2>1
  <2> QED
    BY <1>8, <1>11, <2>2
<1>13. \A j \in DOMAIN next \ DOMAIN table : <<at, j>> \in DOMAIN given /\ next[j] = given[<<at, j>>]
  BY <1>8, <1>10, <1>11
<1>14. Grown(s, at, given)
  BY <1>1, <1>5, <1>6, <1>11, <1>12, <1>13 DEF Grown
<1> QED
  BY <1>1, <1>2, <1>4, <1>5, <1>14

\* Every table after a new call: as it was, or grown.
Continued(s) ==
  /\ len'[s] \in 0..MaxLen /\ tables'[s] \in Seq(Nat) /\ Len(tables'[s]) = CeilDiv(len'[s], BlockSize)
  /\ \A j \in DOMAIN tables[s] : j \in DOMAIN tables'[s] /\ tables'[s][j] = tables[s][j]
NewPlace(s, j) == j \in DOMAIN tables'[s] /\ j \notin DOMAIN tables[s]

LEMMA TablesContinue ==
  ASSUME TablesInv, NEW kind, NEW batch, NEW tokens, NEW metadata, NEW plan,
         Startable(kind, batch, tokens, metadata, plan), Start(kind, batch, tokens, metadata, plan)
  PROVE  /\ \A s \in Seqs : /\ Continued(s)
                            /\ s \notin Range(batch) => len'[s] = len[s] /\ tables'[s] = tables[s]
         /\ \A s \in Seqs : \A j : NewPlace(s, j) => ~OnCpu(s) /\ tables'[s][j] \in FreeBlocks
         /\ \A s, r \in Seqs : \A i, j : NewPlace(s, i) /\ NewPlace(r, j) /\ tables'[s][i] = tables'[r][j]
              => s = r /\ i = j
<1>1. PICK given : given = Given(NewPlaces(batch, tokens), FreeBlocks)
  OBVIOUS
<1>2. given \in [NewPlaces(batch, tokens) -> FreeBlocks] /\ IsInjective(given)
  BY <1>1, NewBlocks DEF MapInto
<1>3. \A s \in Seqs : /\ s \notin Range(batch) => len'[s] = len[s] /\ tables'[s] = tables[s]
                      /\ s \in Range(batch) => \E at \in DOMAIN batch : s = batch[at] /\ ~OnCpu(s)
  <2>1. \A s \in Seqs : s \notin Range(batch) => len'[s] = len[s] /\ tables'[s] = tables[s]
    BY DEF Start
  <2>2. ASSUME NEW s \in Seqs, s \in Range(batch) PROVE \E at \in DOMAIN batch : s = batch[at] /\ ~OnCpu(s)
    <3>1. PICK at \in DOMAIN batch : s = batch[at]
      BY <2>2 DEF Range
    <3>2. place[s] # "swapped"
      BY <3>1 DEF Startable
    <3> QED
      BY <3>1, <3>2 DEF OnCpu
  <2> QED
    BY <2>1, <2>2
<1>4. ASSUME NEW s \in Seqs PROVE Continued(s)
  <2>1. CASE s \notin Range(batch)
    <3>1. /\ len[s] \in 0..MaxLen /\ tables[s] \in Seq(Nat) /\ Len(tables[s]) = CeilDiv(len[s], BlockSize)
      BY DEF TablesInv
    <3> QED
      BY <1>3, <2>1, <3>1 DEF Continued
  <2>2. CASE s \in Range(batch)
    <3>1. PICK at \in DOMAIN batch : s = batch[at]
      BY <1>3, <2>2
    <3>2. len'[s] \in 0..MaxLen /\ Grown(s, at, given)
      BY <1>1, <3>1, TablesGrow
    <3> QED
      BY <3>2 DEF Continued, Grown
  <2> QED
    BY <2>1, <2>2
<1>5. ASSUME NEW s \in Seqs, NEW j, NewPlace(s, j)
      PROVE  /\ ~OnCpu(s) /\ tables'[s][j] \in FreeBlocks
             /\ \E at \in DOMAIN batch : /\ s = batch[at] /\ <<at, j>> \in DOMAIN given
                                         /\ tables'[s][j] = given[<<at, j>>]
  <2>1. s \in Range(batch)
    BY <1>3, <1>5 DEF NewPlace
  <2>2. PICK at \in DOMAIN batch : s = batch[at] /\ ~OnCpu(s)
    BY <1>3, <2>1
  <2>3. Grown(s, at, given)
    BY <1>1, <2>2, TablesGrow
  <2>4. <<at, j>> \in DOMAIN given /\ tables'[s][j] = given[<<at, j>>]
    BY <1>5, <2>3 DEF Grown, NewPlace
  <2>5. given[<<at, j>>] \in FreeBlocks
    BY <1>2, <2>4
  <2> QED
    BY <2>2, <2>4, <2>5
<1>6. ASSUME NEW s \in Seqs, NEW r \in Seqs, NEW i, NEW j, NewPlace(s, i), NewPlace(r, j), tables'[s][i] = tables'[r][j]
      PROVE  s = r /\ i = j
  <2>1. PICK a \in DOMAIN batch : s = batch[a] /\ <<a, i>> \in DOMAIN given /\ tables'[s][i] = given[<<a, i>>]
    BY <1>5, <1>6
  <2>2. PICK b \in DOMAIN batch : r = batch[b] /\ <<b, j>> \in DOMAIN given /\ tables'[r][j] = given[<<b, j>>]
    BY <1>5, <1>6
  <2>3. <<a, i>> = <<b, j>>
    BY <1>2, <1>6, <2>1, <2>2 DEF IsInjective
  <2> QED
    BY <2>1, <2>2, <2>3
<1>7. \A s \in Seqs : \A j : NewPlace(s, j) => ~OnCpu(s) /\ tables'[s][j] \in FreeBlocks
  BY <1>5
<1>8. \A s, r \in Seqs : \A i, j : NewPlace(s, i) /\ NewPlace(r, j) /\ tables'[s][i] = tables'[r][j]
        => s = r /\ i = j
  BY <1>6
<1> QED
  BY <1>3, <1>4, <1>7, <1>8

LEMMA ContinuedTables ==
  ASSUME TablesInv, config' = config, place' = place,
         \A s \in Seqs : Continued(s),
         \A s \in Seqs : \A j : NewPlace(s, j) => ~OnCpu(s) /\ tables'[s][j] \in FreeBlocks,
         \A s, r \in Seqs : \A i, j : NewPlace(s, i) /\ NewPlace(r, j) /\ tables'[s][i] = tables'[r][j]
           => s = r /\ i = j,
         DOMAIN tables' = Seqs, DOMAIN len' = Seqs, tables' = [s \in Seqs |-> tables'[s]],
         len' = [s \in Seqs |-> len'[s]],
         \A s \in Seqs : place[s] = "new" /\ ~InBatch(s)' => len'[s] = 0
  PROVE  TablesInv'
<1>1. ASSUME NEW s \in Seqs, NEW j \in DOMAIN tables'[s]
      PROVE  \/ NewPlace(s, j) /\ ~OnCpu(s) /\ tables'[s][j] \in FreeBlocks /\ tables'[s][j] \in 0..(NumBlocks - 1)
             \/ /\ j \in DOMAIN tables[s] /\ tables'[s][j] = tables[s][j]
                /\ tables[s][j] \in 0..(BlocksOf(s) - 1) /\ tables[s][j] \in Range(tables[s])
  <2>1. CASE j \in DOMAIN tables[s]
    <3>1. tables'[s][j] = tables[s][j]
      BY <2>1 DEF Continued
    <3>2. tables[s][j] \in 0..(BlocksOf(s) - 1)
      BY <2>1 DEF TablesInv
    <3> QED
      BY <2>1, <3>1, <3>2 DEF Range
  <2>2. CASE j \notin DOMAIN tables[s]
    <3>1. NewPlace(s, j)
      BY <2>2 DEF NewPlace
    <3>2. ~OnCpu(s) /\ tables'[s][j] \in FreeBlocks
      BY <3>1
    <3>3. tables'[s][j] \in 0..(NumBlocks - 1)
      BY <3>2, FreeAre
    <3> QED
      BY <3>1, <3>2, <3>3
  <2> QED
    BY <2>1, <2>2
<1>2. ASSUME NEW s \in Seqs, NEW r \in Seqs, NEW i \in DOMAIN tables'[s], NEW j \in DOMAIN tables'[r],
             NewPlace(s, i), ~OnCpu(r), j \in DOMAIN tables[r]
      PROVE  tables'[s][i] # tables'[r][j]
  <2>1. tables'[s][i] \in FreeBlocks
    BY <1>2
  <2>2. tables'[r][j] \in Range(tables[r])
    <3>1. tables'[r][j] = tables[r][j]
      BY <1>2 DEF Continued
    <3> QED
      BY <1>2, <3>1 DEF Range
  <2>3. Range(tables[r]) \cap FreeBlocks = {}
    BY <1>2, FreeAre
  <2> QED
    BY <2>1, <2>2, <2>3
<1>3. ASSUME NEW s \in Seqs, NEW r \in Seqs, NEW i \in DOMAIN tables'[s], NEW j \in DOMAIN tables'[r],
             OnCpu(s) <=> OnCpu(r), tables'[s][i] = tables'[r][j]
      PROVE  s = r /\ i = j
  <2>1. CASE NewPlace(s, i) /\ NewPlace(r, j)
    BY <1>3, <2>1
  <2>2. CASE NewPlace(s, i) /\ ~NewPlace(r, j)
    <3>1. ~OnCpu(r) /\ j \in DOMAIN tables[r]
      BY <1>3, <2>2 DEF NewPlace
    <3> QED
      BY <1>2, <1>3, <2>2, <3>1
  <2>3. CASE ~NewPlace(s, i) /\ NewPlace(r, j)
    <3>1. ~OnCpu(s) /\ i \in DOMAIN tables[s]
      BY <1>3, <2>3 DEF NewPlace
    <3>2. tables'[r][j] # tables'[s][i]
      BY <1>2, <1>3, <2>3, <3>1
    <3> QED
      BY <1>3, <3>2
  <2>4. CASE ~NewPlace(s, i) /\ ~NewPlace(r, j)
    <3>1. /\ i \in DOMAIN tables[s] /\ j \in DOMAIN tables[r]
          /\ tables'[s][i] = tables[s][i] /\ tables'[r][j] = tables[r][j]
      BY <1>3, <2>4 DEF NewPlace, Continued
    <3>2. \A k \in DOMAIN tables[s], m \in DOMAIN tables[r] :
            (OnCpu(s) <=> OnCpu(r)) /\ tables[s][k] = tables[r][m] => s = r /\ k = m
      BY DEF TablesInv
    <3> QED
      BY <1>3, <3>1, <3>2
  <2> QED
    BY <2>1, <2>2, <2>3, <2>4
<1>4. /\ len' \in [Seqs -> 0..MaxLen] /\ tables' \in [Seqs -> Seq(Nat)]
      /\ place' \in [Seqs -> {"new", "running", "swapped", "done"}]
  <2>1. \A s \in Seqs : len'[s] \in 0..MaxLen /\ tables'[s] \in Seq(Nat)
    BY DEF Continued
  <2>2. place' \in [Seqs -> {"new", "running", "swapped", "done"}]
    BY DEF TablesInv
  <2> QED
    BY <2>1, <2>2
<1>5. \A s \in Seqs : Len(tables'[s]) = CeilDiv(len'[s], BlockSize)
  BY DEF Continued
<1>6. \A s \in Seqs : \A j \in DOMAIN tables'[s] : tables'[s][j] \in 0..(BlocksOf(s) - 1)
  BY <1>1 DEF BlocksOf
<1>7. \A s \in Seqs : OnCpu(s) => config.turboquant = "none"
  BY DEF TablesInv
<1>8. \A s, r \in Seqs : \A i \in DOMAIN tables'[s], j \in DOMAIN tables'[r] :
        (OnCpu(s) <=> OnCpu(r)) /\ tables'[s][i] = tables'[r][j] => s = r /\ i = j
  BY <1>3
<1> QED
  BY <1>4, <1>5, <1>6, <1>7, <1>8 DEF TablesInv, OnCpu, BlocksOf

\* Rows of grown tables are where they were.
LEMMA ContinuedRows ==
  ASSUME TablesInv, RowsInv, config' = config, layers' = layers, std' = std, cpu' = cpu, tq' = tq, place' = place,
         NEW s \in Seqs, Continued(s), NEW l \in DOMAIN layers, Served(s, l)' = Served(s, l), Served(s, l) = len[s]
  PROVE  HeldNext(s, l)
<1> SUFFICES ASSUME NEW c, NEW d, NEW scale, NEW next, NEW n,
                    c = IF place'[s] = "swapped" THEN cpu'[l] ELSE std'[l],
                    d = tq'[layers'[l].index], scale = layers'[l].scale, next = tables'[s], n = Served(s, l)'
             PROVE  StdHolds(c, scale, s, next, n) /\ (layers'[l].index \in DOMAIN tq' => TqHolds(d, s, next, n))
  BY DEF HeldNext
<1>1. PICK table : table = tables[s]
  OBVIOUS
<1>2. StdHolds(c, scale, s, table, n) /\ (layers[l].index \in DOMAIN tq => TqHolds(d, s, table, n))
  <2>1. Held(s, l)
    BY RowsNow
  <2> QED
    BY <1>1, <2>1 DEF Held, OnCpu
<1>3. n = len[s] /\ n \in Nat /\ table \in Seq(Nat) /\ Len(table) = CeilDiv(n, BlockSize)
  BY <1>1, BoundsAssumption DEF TablesInv
<1>4. ASSUME NEW p \in 0..(n - 1) PROVE RowAt(next, p) = RowAt(table, p)
  <2>1. p \div BlockSize + 1 \in DOMAIN table
    BY <1>3, RowFacts
  <2>2. next[p \div BlockSize + 1] = table[p \div BlockSize + 1]
    BY <1>1, <2>1 DEF Continued
  <2> QED
    BY <2>2 DEF RowAt
<1>5. ASSUME NEW rows, NEW fmt, NEW x, HasRows(rows, s, table, n, fmt, x)
      PROVE  HasRows(rows, s, next, n, fmt, x)
  BY <1>4, <1>5 DEF HasRows
<1>6. StdHolds(c, scale, s, next, n)
  BY <1>2, <1>5 DEF StdHolds
<1>7. layers[l].index \in DOMAIN tq => TqHolds(d, s, next, n)
  BY <1>2, <1>5 DEF TqHolds
<1> QED
  BY <1>6, <1>7

LEMMA StartKeeps ==
  ASSUME Shape, StartPrefill \/ StartDecode
  PROVE  /\ Shape' /\ (RowsInv => RowsInv')
         /\ \A s \in Seqs : len'[s] = len[s] => KeptCells(s)' = KeptCells(s)
<1>1. PICK kind, batch, tokens, metadata, plan :
        Startable(kind, batch, tokens, metadata, plan) /\ Start(kind, batch, tokens, metadata, plan)
  BY Startables
<1>2. /\ call = Idle /\ Len(layers) = config.size
      /\ metadata => config.turboquant = "none"
      /\ call' = [kind |-> kind, batch |-> batch, tokens |-> tokens, metadata |-> metadata,
                  plan |-> plan, layer |-> 1]
      /\ config' = config /\ counter' = counter /\ layers' = layers /\ std' = std /\ cpu' = cpu /\ tq' = tq
      /\ place' = place
  BY <1>1 DEF Start, Ready
<1>3. /\ DOMAIN tables' = Seqs /\ DOMAIN len' = Seqs /\ tables' = [s \in Seqs |-> tables'[s]]
      /\ len' = [s \in Seqs |-> len'[s]]
      /\ \A s \in Seqs : s \in Range(batch) => len'[s] = len[s] + tokens
  BY <1>1 DEF Start
<1>4. TablesInv /\ LayersInv /\ CachesInv
  BY DEF Shape
<1>5. /\ \A s \in Seqs : /\ Continued(s)
                         /\ s \notin Range(batch) => len'[s] = len[s] /\ tables'[s] = tables[s]
      /\ \A s \in Seqs : \A j : NewPlace(s, j) => ~OnCpu(s) /\ tables'[s][j] \in FreeBlocks
      /\ \A s, r \in Seqs : \A i, j : NewPlace(s, i) /\ NewPlace(r, j) /\ tables'[s][i] = tables'[r][j]
           => s = r /\ i = j
  BY <1>1, <1>4, TablesContinue
<1>6. /\ batch \in Seq(Seqs) /\ tokens \in Nat /\ tokens >= 1 /\ Range(batch) \subseteq Seqs
      /\ \A s \in Range(batch) : place[s] \in {"new", "running"} /\ (kind = "fresh" => place[s] = "new")
  <2>1. batch \in Seq(Seqs) /\ tokens \in Nat /\ tokens >= 1
    BY <1>1 DEF Startable
  <2>2. ASSUME NEW s \in Range(batch)
        PROVE  s \in Seqs /\ place[s] \in {"new", "running"} /\ (kind = "fresh" => place[s] = "new")
    <3>1. PICK i \in DOMAIN batch : s = batch[i]
      BY DEF Range
    <3> QED
      BY <1>1, <2>1, <3>1 DEF Startable
  <2> QED
    BY <2>1, <2>2
<1>7. \A s \in Seqs : len[s] \in Nat /\ (place[s] = "new" => len[s] = 0)
  BY <1>2, <1>4, BoundsAssumption DEF TablesInv, InBatch
<1>8. PICK c : c = call'
  OBVIOUS
<1>9. c \in Calls /\ c # Idle
  <2>1. kind \in {"fresh", "chunk", "decode"} /\ metadata \in BOOLEAN /\ plan \in BOOLEAN
    BY <1>1 DEF Startable
  <2>2. c \in Calls
    BY <1>2, <1>6, <1>8, <2>1 DEF Calls
  <2> QED
    BY <2>2, IdleAssumption
<1>10. /\ c.kind = kind /\ c.batch = batch /\ c.tokens = tokens /\ c.metadata = metadata /\ c.layer = 1
       /\ Batch' = Range(batch)
  BY <1>2, <1>8 DEF Batch
<1>11. \A s \in Seqs : InBatch(s)' <=> s \in Range(batch)
  BY <1>8, <1>9, <1>10 DEF InBatch
<1>12. TablesInv'
  <2>1. \A s \in Seqs : place[s] = "new" /\ ~InBatch(s)' => len'[s] = 0
    BY <1>5, <1>7, <1>11
  <2> QED
    BY <1>2, <1>3, <1>4, <1>5, <2>1, ContinuedTables
<1>13. CallInv'
  <2>1. Len(batch) >= 1 /\ IsInjective(batch) /\ (kind = "decode" => tokens = 1)
    BY <1>1 DEF Startable
  <2>2. c.layer \in 1..config.size
    BY <1>4, <1>10, ConfigFacts
  <2>3. \A s \in Range(batch) : place[s] \in {"new", "running"} /\ tokens <= len'[s]
    BY <1>3, <1>6, <1>7
  <2>4. kind = "fresh" => \A s \in Range(batch) : len'[s] = tokens
    BY <1>3, <1>6, <1>7
  <2>5. /\ c \in Calls /\ Len(c.batch) >= 1 /\ IsInjective(c.batch)
        /\ c.tokens >= 1 /\ c.layer \in 1..config'.size /\ Len(layers') = config'.size
        /\ \A s \in Batch' : place'[s] \in {"new", "running"} /\ c.tokens <= len'[s]
        /\ c.kind = "decode" => c.tokens = 1
        /\ c.kind = "fresh" => \A s \in Batch' : len'[s] = c.tokens
        /\ c.metadata => config'.turboquant = "none"
    BY <1>2, <1>6, <1>9, <1>10, <2>1, <2>2, <2>3, <2>4
  <2> QED
    BY <1>8, <2>5 DEF CallInv
<1>14. LayersInv' /\ CachesInv'
  <2>1. CachesInv'
    BY <1>2, <1>4 DEF CachesInv
  <2>2. LayersInv'
    BY <1>2, <1>4 DEF LayersInv
  <2> QED
    BY <2>1, <2>2
<1>15. ASSUME RowsInv PROVE RowsInv'
  <2> SUFFICES ASSUME NEW s \in Seqs, NEW l \in DOMAIN layers PROVE HeldNext(s, l)
    BY <1>2, RowsNext
  <2>1. Served(s, l) = len[s]
    BY <1>2 DEF Served, InBatch
  <2>2. Served(s, l)' = len[s]
    <3>1. CASE s \in Range(batch)
      <4>1. l >= call'.layer /\ len'[s] = len[s] + tokens /\ call'.tokens = tokens /\ len[s] \in Nat
        BY <1>3, <1>4, <1>7, <1>8, <1>10, <3>1, LayerFacts
      <4>2. Served(s, l)' = len'[s] - call'.tokens
        BY <1>11, <3>1, <4>1 DEF Served
      <4> QED
        BY <1>6, <4>1, <4>2
    <3>2. CASE s \notin Range(batch)
      BY <1>5, <1>11, <3>2 DEF Served
    <3> QED
      BY <3>1, <3>2
  <2> QED
    BY <1>2, <1>4, <1>5, <1>15, <2>1, <2>2, ContinuedRows
<1>16. ASSUME NEW s \in Seqs, len'[s] = len[s] PROVE KeptCells(s)' = KeptCells(s)
  <2>1. s \notin Range(batch)
    BY <1>3, <1>6, <1>7, <1>16
  <2>2. tables'[s] = tables[s] /\ place'[s] = place[s]
    BY <1>2, <1>5, <2>1
  <2> QED
    BY <1>2, <1>16, <2>2, SameKept
<1> QED
  BY <1>12, <1>13, <1>14, <1>15, <1>16 DEF Shape

-------------------------------------------------------------------------------
(* The theorems.                                                             *)

LEMMA StepKeeps ==
  ASSUME Shape, [Next]_vars
  PROVE  Shape' /\ (OneByteClears => (RowsInv => RowsInv'))
<1>1. CASE New
  BY <1>1, NewKeeps
<1>2. CASE ResetPagedAttentionLayerCounter
  BY <1>2, ResetKeeps
<1>3. CASE Forward
  BY <1>3, ForwardKeeps
<1>4. CASE StartPrefill \/ StartDecode
  BY <1>4, StartKeeps
<1>5. CASE \E s \in Seqs : SwapOut(s) \/ SwapIn(s) \/ MoveBlocks(s) \/ FreeSequence(s)
  BY <1>5, SwapOutKeeps, SwapInKeeps, MoveBlocksKeeps, FreeKeeps
<1>6. CASE \E b \in 0..(NumBlocks - 1) : ClearBlocks(b)
  BY <1>6, ClearKeeps
<1>7. CASE UNCHANGED vars
  <2>1. UNCHANGED <<config, counter, layers, std, cpu, tq, tables, len, place, call>>
    BY <1>7 DEF vars
  <2>2. TablesInv'
    BY <2>1 DEF Shape, TablesInv, OnCpu, BlocksOf, InBatch, Batch
  <2>3. CallInv'
    BY <2>1 DEF Shape, CallInv, Batch
  <2>4. LayersInv' /\ CachesInv'
    BY <2>1 DEF Shape, LayersInv, CachesInv
  <2>5. RowsInv => RowsInv'
    BY <2>1 DEF RowsInv, OnCpu, Served, InBatch, Batch, StdHolds, TqHolds, InStd, StdFormat
  <2> QED
    BY <2>2, <2>3, <2>4, <2>5 DEF Shape
<1> QED
  BY <1>1, <1>2, <1>3, <1>4, <1>5, <1>6, <1>7 DEF Next

LEMMA ShapeTypes ==
  ASSUME Shape
  PROVE  TypeOK
<1>1. TablesInv /\ CallInv /\ LayersInv /\ CachesInv
  BY DEF Shape
<1>2. counter \in 0..(2 * MaxLayers)
  <2>1. /\ Len(layers) \in Nat /\ config.size \in Nat /\ config.size <= MaxLayers /\ MaxLayers \in Nat
        /\ Len(layers) <= config.size /\ counter \in Nat /\ counter - Len(layers) \in 0..MaxLayers
    BY <1>1, ConfigFacts, BoundsAssumption, SMTT(30) DEF LayersInv
  <2> QED
    BY <2>1
<1>3. \A l \in DOMAIN layers : layers[l] \in [index : 0..(2 * MaxLayers), scale : 1..MaxScale,
                                              updates : 0..KvScaleUpdateIteration]
  BY <1>1, LayerFacts
<1>4. \A s \in Seqs : \A i \in DOMAIN tables[s] :
        tables[s][i] \in 0..((IF place[s] = "swapped" THEN NumCpuBlocks ELSE NumBlocks) - 1)
  BY <1>1 DEF TablesInv, BlocksOf, OnCpu
<1>5. /\ len \in [Seqs -> 0..MaxLen] /\ place \in [Seqs -> {"new", "running", "swapped", "done"}]
  BY <1>1 DEF TablesInv
<1>6. /\ std \in [1..config.size -> Cache(NumBlocks)] /\ cpu \in [1..config.size -> Cache(NumCpuBlocks)]
      /\ tq \in [0..(TqLayers - 1) -> Cache(NumBlocks)]
  BY <1>1 DEF CachesInv
<1>7. call # Idle => call.layer \in 1..config.size
  BY <1>1 DEF CallInv
<1> QED
  BY <1>2, <1>3, <1>4, <1>5, <1>6, <1>7 DEF TypeOK

LEMMA StepUntouched ==
  ASSUME Shape, OneByteClears, [Next]_vars, NEW s \in Seqs, place'[s] # "done", len'[s] = len[s],
         call # Idle => s \notin Batch
  PROVE  KeptCells(s)' = KeptCells(s)
<1>1. CASE New
  <2>1. UNCHANGED <<config, std, cpu, tq, tables, len, place>>
    BY <1>1 DEF New
  <2> QED
    BY <2>1, SameKept
<1>2. CASE ResetPagedAttentionLayerCounter
  <2>1. UNCHANGED <<config, std, cpu, tq, tables, len, place>>
    BY <1>2 DEF ResetPagedAttentionLayerCounter
  <2> QED
    BY <2>1, SameKept
<1>3. CASE Forward
  <2>1. call # Idle
    BY <1>3 DEF Forward, ForwardFlashInfer, ForwardFlashAttn, ForwardFlash, ForwardMetal, ForwardConventional
  <2> QED
    BY <1>3, <2>1, ForwardUntouched
<1>4. CASE StartPrefill \/ StartDecode
  BY <1>4, StartKeeps
<1>5. CASE \E r \in Seqs : SwapOut(r) \/ SwapIn(r) \/ MoveBlocks(r)
  BY <1>5, SwapOutKeeps, SwapInKeeps, MoveBlocksKeeps
<1>6. CASE \E r \in Seqs : FreeSequence(r)
  <2>1. PICK r \in Seqs : FreeSequence(r)
    BY <1>6
  <2>2. /\ tables' = [tables EXCEPT ![r] = <<>>] /\ place' = [place EXCEPT ![r] = "done"]
        /\ UNCHANGED <<config, std, cpu, tq>>
    BY <2>1 DEF FreeSequence
  <2>3. /\ tables \in [Seqs -> Seq(Nat)] /\ place \in [Seqs -> {"new", "running", "swapped", "done"}]
    BY DEF Shape, TablesInv
  <2>4. s # r
    BY <2>2, <2>3
  <2>5. tables'[s] = tables[s] /\ place'[s] = place[s]
    BY <2>2, <2>3, <2>4
  <2> QED
    BY <2>2, <2>5, SameKept
<1>7. CASE \E b \in 0..(NumBlocks - 1) : ClearBlocks(b)
  BY <1>7, ClearKeeps
<1>8. CASE UNCHANGED vars
  <2>1. UNCHANGED <<config, std, cpu, tq, tables, len, place>>
    BY <1>8 DEF vars
  <2> QED
    BY <2>1, SameKept
<1> QED
  BY <1>1, <1>2, <1>3, <1>4, <1>5, <1>6, <1>7, <1>8 DEF Next

\* The tables, the call being served, the layers and the caches keep their types
\* and bounds, whatever is cleared.
THEOREM TypeCorrect ==
  Spec => []TypeOK
<1>1. Init => Shape
  BY InitHolds
<1>2. Shape /\ [Next]_vars => Shape'
  BY StepKeeps
<1>3. Shape => TypeOK
  BY ShapeTypes
<1> QED
  BY <1>1, <1>2, <1>3, PTL DEF Spec

\* Where only one-byte elements are cleared, every layer finds each token of a
\* sequence in the row its table names, in the caches of the mode.
THEOREM RowsAreStored ==
  ASSUME OneByteClears
  PROVE  Spec => [](Shape /\ RowsInv)
<1>1. Init => Shape /\ RowsInv
  BY InitHolds
<1>2. Shape /\ RowsInv /\ [Next]_vars => Shape' /\ RowsInv'
  BY StepKeeps
<1> QED
  BY <1>1, <1>2, PTL DEF Spec

\* Every query of a sequence inside the workspace reads the rows of its own sequence,
\* each position its path serves once and in order, whichever path that is and
\* whatever the batch (PagedAttention::forward).
THEOREM QueriesReadTheirContext ==
  ASSUME OneByteClears
  PROVE  Spec => ReadsOwnContext
<1>1. Spec => [](Shape /\ RowsInv)
  BY RowsAreStored
<1>2. Shape /\ RowsInv /\ [Next]_vars =>
        [ out' # Idle /\ out' # Failed /\ call # Idle /\ TurboquantCovers /\ StableScale'
          /\ PartitionsApart
          => \A s \in Batch : InWorkspace(s) => out'[s] = ServedContext(s) ]_vars
  BY StepReads
<1> QED
  BY <1>1, <1>2, PTL DEF Spec, ReadsOwnContext

\* No call, copy, swap or clearing touches the stored rows of a sequence it does not
\* extend (slot_mapping, swap_blocks, clear_blocks).
THEOREM OthersUntouched ==
  ASSUME OneByteClears
  PROVE  Spec => ContextsUntouched
<1>1. Spec => [](Shape /\ RowsInv)
  BY RowsAreStored
<1>2. Shape /\ RowsInv /\ [Next]_vars =>
        [ \A s \in Seqs :
            place[s] \in {"running", "swapped"} /\ place'[s] # "done" /\ len'[s] = len[s]
            /\ (call # Idle => s \notin Batch)
            => KeptCells(s)' = KeptCells(s) ]_vars
  BY StepUntouched
<1> QED
  BY <1>1, <1>2, PTL DEF Spec, ContextsUntouched
===============================================================================
