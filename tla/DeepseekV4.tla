------------------------------ MODULE DeepseekV4 ------------------------------
(***************************************************************************)
(* The attention state of one DeepSeek V4 layer and one sequence: a ring   *)
(* of the last Window key/value rows, a compressed row for every block of  *)
(* ratio tokens, in an overlapping layer pooled over the block and the one *)
(* before it, and the compressor's state, the projected tokens of the      *)
(* block that is still open.  Ring and compressed rows lie in one cache,   *)
(* and attention reads the rows a list of indices names, the window's      *)
(* first.  A chunk of tokens may be a first prefill, a continued one or a  *)
(* decode step, eager or captured.                                         *)
(*                                                                         *)
(* The caller, which is not part of the repository, decides which helpers  *)
(* serve a chunk.  Only the decode helpers write the compressor's state,   *)
(* so after a bulk prefill it replays the last tokens through them.        *)
(***************************************************************************)
EXTENDS Integers, Sequences, FiniteSets, FiniteSetsExt, SequencesExt

CONSTANTS Window,      \* rows of the ring
          Layers,      \* the layers: whether blocks overlap, and the ratio
          IndexTopk,   \* compressed rows an overlapping layer attends to
          SerialWork,  \* comparisons up to which the decode kernel selects serially
          SortRows,    \* rows the kernels that sort can hold
          Remembered,  \* picks the kernel for more rows than that remembers
          SharedRows,  \* rows whose scores a first prefill can hold in shared memory
          FromPosRows, \* rows a prefill with positions takes
          MaxLen,      \* bound: tokens of the sequence
          LongestChunk, \* bound: tokens of a chunk
          NoRow,       \* no row; in the state, a row whose score is minus infinity
          Refused      \* the answer of a call whose kernel refuses it

VARIABLES layer,   \* overlap and ratio: fixed after the start
          len,     \* tokens served
          ring,    \* slot -> key/value row
          comp,    \* block -> compressed row
          keys,    \* block -> row the indexer scores, in overlapping layers
          state,   \* route -> projected token
          emitted, \* the last row a decode step pooled
          read     \* the queries of the last chunk and the rows each attended to

dsVars == <<layer, len, ring, comp, keys, state, emitted, read>>

ratio == layer.ratio
Routes == 0..((IF layer.overlap THEN 2 * ratio ELSE ratio) - 1)
Blocks == 0..(MaxLen \div ratio)

DsInit ==
  /\ layer \in Layers
  /\ len = 0
  /\ ring = [slot \in 0..(Window - 1) |-> NoRow]
  /\ comp = [c \in Blocks |-> NoRow]
  /\ keys = [c \in Blocks |-> NoRow]
  /\ state = [route \in Routes |-> NoRow]
  /\ emitted = NoRow
  /\ read = <<>>

-------------------------------------------------------------------------------
(* The compressor. *)

\* A token projected for a route of its block, with the bias of that route.
Projected(tok, route) == [tok |-> tok, bias |-> route]
Block(first) == [i \in 0..(ratio - 1) |-> Projected(first + i, i)]
NoBlock == [i \in 0..(ratio - 1) |-> NoRow]

\* The routes of an overlapping layer: the block before, by the first half of
\* each projection, and the block, by the second.
Overlapping(before, block) ==
  [route \in 0..(2 * ratio - 1) |-> IF route < ratio THEN before[route] ELSE block[route - ratio]]

\* The softmax over the routes, in which NoRow weighs nothing.
Pool(routes) == [pool |-> routes]

CompressorNonoverlapPrefill(n) == [c \in 0..(n \div ratio - 1) |-> Pool(Block(c * ratio))]

CompressorOverlapPrefill(n) ==
  [c \in 0..(n \div ratio - 1) |->
     Pool(Overlapping(IF c = 0 THEN NoBlock ELSE Block((c - 1) * ratio), Block(c * ratio)))]

\* A decode step: the token goes to its route, and the last of a block pools them.
Emits(tok) == (tok + 1) % ratio = 0
Project(c, tok, offset) == [c EXCEPT !.state[offset + (tok % ratio)] = Projected(tok, tok % ratio)]
Weighted(c) == [c EXCEPT !.row = Pool(c.state)]

\* Mutant of OverlapShift: the block that was pooled is not kept for the next.
OverlapShiftForgotten(c) == c

OverlapShift(c) ==
  [c EXCEPT !.state = [route \in Routes |-> IF route < ratio THEN c.state[route + ratio] ELSE c.state[route]]]

CompressorNonoverlapDecodeAt(c, tok) ==
  LET projected == Project(c, tok, 0) IN IF Emits(tok) THEN Weighted(projected) ELSE projected

CompressorOverlapDecodeAt(c, tok) ==
  LET projected == Project(c, tok, ratio)
  IN IF Emits(tok) THEN OverlapShift(Weighted(projected)) ELSE projected

\* Captured: every kernel runs, and returns at once where nothing is to be emitted.
Gated(tok, ungated, gated) == IF Emits(tok) THEN gated ELSE ungated
CompressorNonoverlapDecodeAtGraph(c, tok) ==
  LET projected == Project(c, tok, 0) IN Gated(tok, projected, Weighted(projected))
CompressorOverlapDecodeAtGraph(c, tok) ==
  LET projected == Project(c, tok, ratio)
      pooled == Gated(tok, projected, Weighted(projected))
  IN Gated(tok, pooled, OverlapShift(pooled))

DecodeAt(c, tok) ==
  IF layer.overlap THEN CompressorOverlapDecodeAt(c, tok) ELSE CompressorNonoverlapDecodeAt(c, tok)

\* A continued prefill: the first row takes from the state what came before the chunk.
CompressorNonoverlapPrefillCont(st, start, rows) ==
  LET head == start % ratio
  IN [c \in 0..(rows - 1) |->
        Pool([i \in 0..(ratio - 1) |-> IF c = 0 /\ i < head THEN st[i]
                                       ELSE Projected(start + c * ratio + i - head, i)])]

CompressorOverlapPrefillCont(st, start, rows) ==
  [c \in 0..(rows - 1) |->
     LET first == start + c * ratio + ((ratio - (start % ratio)) % ratio)
     IN Pool(Overlapping(IF c = 0 THEN st ELSE Block(first - ratio), Block(first)))]

\* Rows written over older ones.
Over(rows, older) ==
  [c \in DOMAIN rows \cup DOMAIN older |-> IF c \in DOMAIN rows THEN rows[c] ELSE older[c]]

\* External: the tokens a caller serves one by one, keeping the rows or not.
Kept(c, tok) ==
  LET d == DecodeAt(c, tok)
  IN IF Emits(tok) THEN [d EXCEPT !.rows = Over([b \in {tok \div ratio} |-> d.row], @)] ELSE d
Serve(c, from, to) ==
  LET after[tok \in from..to] == IF tok = from THEN c ELSE Kept(after[tok - 1], tok - 1)
  IN after[to]
Replay(c, from, to) == [Serve(c, from, to) EXCEPT !.rows = c.rows]

From(first, rows) == [c \in {first + r : r \in DOMAIN rows} |-> rows[c - first]]
WithRows(c, rows) == [c EXCEPT !.rows = Over(rows, @)]

\* The tokens before the first whole block of a chunk, if it has one.
HeadTokens(start) == IF layer.overlap THEN (ratio - (start % ratio)) % ratio ELSE 0
Bulk(start, n) ==
  IF layer.overlap THEN (n - HeadTokens(start)) \div ratio ELSE ((start % ratio) + n) \div ratio

\* External: what the caller does to compress a chunk.
Compressed(c, start, n, first) ==
  LET end == start + n
      rows == Bulk(start, n)
      served == Serve(c, start, start + HeadTokens(start))
      bulk == IF first
              THEN IF layer.overlap THEN CompressorOverlapPrefill(n) ELSE CompressorNonoverlapPrefill(n)
              ELSE IF layer.overlap THEN CompressorOverlapPrefillCont(served.state, start, rows)
                   ELSE CompressorNonoverlapPrefillCont(served.state, start, rows)
      tail == end - (end % ratio)
  IN IF rows <= 0 THEN Serve(c, start, end)
     ELSE Replay(WithRows(served, From((start + HeadTokens(start)) \div ratio, bulk)),
                 IF layer.overlap THEN tail - ratio ELSE tail, end)

-------------------------------------------------------------------------------
(* The cache. *)

Kv(tok) == [kv |-> tok]

\* write_window_rows_from_pos: rows that share a slot would race, so the caller
\* passes no more than the ring holds.
WriteWindowRows(start, n) ==
  [slot \in 0..(Window - 1) |->
     IF \E tok \in start..(start + n - 1) : tok % Window = slot
     THEN Kv(CHOOSE tok \in start..(start + n - 1) : tok % Window = slot) ELSE ring[slot]]

WriteKvRow(tok) == [ring EXCEPT ![tok % Window] = Kv(tok)]
GatherRingChrono(start, n) == [i \in 1..n |-> ring[(start + i - 1) % Window]]
WriteCompressedRow(tok, row) == IF Emits(tok) THEN [comp EXCEPT ![tok \div ratio] = row] ELSE comp
WriteIndexerRow(tok, row) ==
  IF layer.overlap /\ Emits(tok) THEN [keys EXCEPT ![tok \div ratio] = row] ELSE keys

\* The unified cache, with the rows of some blocks.
Unified(r, rows, blocks) ==
  [i \in 1..(Window + blocks) |-> IF i <= Window THEN r[i - 1] ELSE rows[i - Window - 1]]

-------------------------------------------------------------------------------
(* Indices: for a query, the window's rows and then the compressed ones. *)

Complete(pos) == (pos + 1) \div ratio
Entries(n) == 0..(n - 1)
Indices(entry) == [i \in 1..Cardinality(DOMAIN entry) |-> entry[i - 1]]

\* The chunk lies in token order at the start of the cache.
WindowTopkIndices(pos) ==
  LET start == IF pos < Window THEN 0 ELSE pos - (Window - 1)
  IN Indices([route \in Entries(Window) |-> IF start + route > pos THEN -1 ELSE start + route])

\* Mutant of WindowTopkIndicesDecode: the oldest row is taken to be in the next slot but one.
WindowTopkIndicesDecodeOffByOne(pos) ==
  LET p == pos % Window
      first == Window - 1 - p
  IN Indices([i \in Entries(Window) |->
       IF pos >= Window - 1 THEN IF i < first THEN p + 2 + i ELSE i - first
       ELSE IF i <= pos THEN i ELSE -1])

\* The rows lie in the ring, the oldest behind the one at pos.
WindowTopkIndicesDecode(pos) ==
  LET p == pos % Window
      first == Window - 1 - p
  IN Indices([i \in Entries(Window) |->
       IF pos >= Window - 1 THEN IF i < first THEN p + 1 + i ELSE i - first
       ELSE IF i <= pos THEN i ELSE -1])

WindowTopkIndicesDecodeFromPos(pos) == WindowTopkIndicesDecode(pos)
WindowTopkIndicesPrefillFromPos(pos) == WindowTopkIndicesDecode(pos)

\* The rows from gather_start on lie in token order.
WindowTopkIndicesChrono(pos, gatherStart, gatherLen) ==
  LET start == IF pos < Window THEN 0 ELSE pos - (Window - 1)
  IN Indices([route \in Entries(Window) |->
       LET key == start + route
       IN IF key > pos \/ key < gatherStart \/ key >= gatherStart + gatherLen THEN -1
          ELSE key - gatherStart])

\* All complete blocks, behind the other rows.
CompressTopkIndices(pos, blocks, offset) ==
  Indices([c \in Entries(blocks) |-> IF c < Complete(pos) THEN offset + c ELSE -1])
CompressTopkIndicesPrefillFromPos(pos, blocks, offset) == CompressTopkIndices(pos, blocks, offset)
CompressTopkIndicesDecodeFromPos(pos, blocks, offset) == CompressTopkIndices(pos, blocks, offset)

\* With the number of complete blocks known to the host, nothing is masked.
CompressTopkIndicesDecode(blocks, offset) == Indices([c \in Entries(blocks) |-> offset + c])

\* The indexer scores every row of a cache, also those that are not yet written; what
\* lies behind the query is masked, and the best of the rest are named.  Data: scores
\* favour old rows, or new ones.
IndexerScoresPrefill(blocks) == 0..(blocks - 1)
IndexerScoresDecode(blocks) == 0..(blocks - 1)
IndexerMaskScoresPrefillByPos(scored, pos) == {c \in scored : c < Complete(pos)}
IndexerMaskScoresByPosition(scored, pos) == {c \in scored : c < Complete(pos)}

\* The topk best of the scored rows.  Only so many picks are excluded from later ones:
\* all picks past them are of one row, the best that is left.
Ranked(scored, rank, newest) ==
  CHOOSE c \in scored : Cardinality({d \in scored : IF newest THEN d > c ELSE d < c}) = rank
Selected(scored, topk, excluded, offset, newest) ==
  Indices([i \in Entries(topk) |->
    LET rank == Min({i, excluded})
    IN IF rank < Cardinality(scored) THEN offset + Ranked(scored, rank, newest) ELSE -1])

\* The decode kernels strike out what they pick, or sort; for many rows they scan with
\* a list of what was picked.
Scans(blocks, topk) == blocks * topk > SerialWork /\ blocks > SortRows
IndexerTopkDecode(scored, blocks, topk, offset, newest) ==
  Selected(scored, topk, IF Scans(blocks, topk) THEN Remembered ELSE topk, offset, newest)

IndexerTopkPrefillFromPos(scored, pos, topk, offset, newest) ==
  Selected({c \in scored : c < Complete(pos)}, topk, topk, offset, newest)

\* Without positions: the query's place in the chunk is its position.
IndexerTopkPrefill(scored, token, topk, offset, newest) ==
  Selected({c \in scored : c < (token + 1) \div ratio}, topk, topk, offset, newest)

\* The calls these kernels refuse.
IndexerTopkDecodeServes(blocks, topk) == blocks > 0 /\ topk \in 1..blocks
IndexerTopkPrefillFromPosServes(blocks, topk) == blocks \in 1..FromPosRows /\ topk > 0
IndexerTopkPrefillServes(blocks, topk) == blocks \in 1..SharedRows /\ topk > 0

ConcatTopkIndices(window, compressed) == window \o compressed

-------------------------------------------------------------------------------
(* Attention: the rows that are read, by entry of the index list; padding and *)
(* rows past the end are skipped.                                              *)

Rows(kv, indices) ==
  [k \in {e \in DOMAIN indices : indices[e] \in 0..(Len(kv) - 1)} |-> kv[indices[k] + 1]]
SparseAttention(kv, indices) == Rows(kv, indices)

\* FlashMLA pads a prefill's indices up to a multiple it can serve; a single query has
\* its cache packed for it, and is left to another kernel where it would need padding.
FlashMlaPrefill(kv, indices) == Rows(kv, indices \o <<-1>>)
FlashMlaDecode(kv, indices) == Rows(kv, indices)

\* FlashInfer on SM120, for decode over the unified cache: the window's entries
\* and, taken relative to their own segment, the compressed ones.
ToLocal(i) == IF i < 0 THEN -1 ELSE i - Window
FlashInferSm120(kv, indices) ==
  LET extra == [k \in 1..(Len(indices) - Window) |-> ToLocal(indices[Window + k])]
  IN Over(Rows(kv, SubSeq(indices, 1, Window)),
          From(Window, Rows(SubSeq(kv, Window + 1, Len(kv)), extra)))

Read(kernel, kv, indices, n) ==
  CASE kernel = "sparse" -> SparseAttention(kv, indices)
    [] kernel = "flashmla" -> IF n > 1 THEN FlashMlaPrefill(kv, indices) ELSE FlashMlaDecode(kv, indices)
    [] kernel = "flashinfer" -> FlashInferSm120(kv, indices)

\* window and compressed give the indices of every query.
Queries(start, n) == start..(start + n - 1)
Attend(kernel, kv, window, compressed, start, n) ==
  [q \in 1..n |->
     LET pos == start + q - 1
     IN [pos |-> pos, rows |-> Read(kernel, kv, ConcatTopkIndices(window[pos], compressed[pos]), n)]]

\* External: how many blocks a caller asks for.  A careful one asks for no more than there
\* are, and while there are none it does without these helpers, which refuse.
Asked(blocks, careful) == IF careful THEN Min({IndexTopk, blocks}) ELSE IndexTopk
NoneAsked(blocks, careful) == careful /\ blocks = 0

\* A layer without overlap has no indexer and attends to all complete blocks.
FirstCompressOf(pos, blocks, offset, careful, newest) ==
  IF layer.overlap
  THEN IndexerTopkPrefill(IndexerScoresPrefill(blocks), pos, Asked(blocks, careful), offset, newest)
  ELSE CompressTopkIndices(pos, blocks, offset)
FirstCompressServed(blocks, careful) ==
  \/ NoneAsked(blocks, careful)
  \/ IF layer.overlap THEN IndexerTopkPrefillServes(blocks, Asked(blocks, careful)) ELSE blocks > 0

CompressOf(pos, blocks, offset, careful, newest) ==
  IF layer.overlap
  THEN IndexerTopkPrefillFromPos(IndexerMaskScoresPrefillByPos(IndexerScoresPrefill(blocks), pos), pos,
                                 Asked(blocks, careful), offset, newest)
  ELSE CompressTopkIndicesPrefillFromPos(pos, blocks, offset)
CompressServed(blocks, careful) ==
  \/ NoneAsked(blocks, careful)
  \/ IF layer.overlap THEN IndexerTopkPrefillFromPosServes(blocks, Asked(blocks, careful)) ELSE blocks > 0

-------------------------------------------------------------------------------
(* Steps. *)

Compressor == [state |-> state, row |-> emitted, rows |-> <<>>]
Chunk(n, first) ==
  LET c == Compressed(Compressor, len, n, first)
      kept == Min({n, Window})
  IN /\ len + n <= MaxLen
     /\ len' = len + n
     /\ ring' = WriteWindowRows(len + n - kept, kept)
     /\ comp' = Over(c.rows, comp)
     /\ keys' = IF layer.overlap THEN Over(c.rows, keys) ELSE keys
     /\ state' = c.state
     /\ emitted' = c.row
     /\ UNCHANGED layer

\* The rows of a chunk behind older ones, and all compressed rows behind both.
Behind(older, n) ==
  older \o [i \in 1..n |-> Kv(len + i - 1)] \o [i \in 1..((len + n) \div ratio) |-> comp'[i - 1]]

\* A first prefill attends to the rows it brings.
FirstPrefill(n, careful, newest, kernel) ==
  LET blocks == n \div ratio
  IN /\ len = 0 /\ Chunk(n, TRUE)
     /\ read' = IF FirstCompressServed(blocks, careful)
                THEN Attend(kernel, Behind(<<>>, n), [pos \in Queries(0, n) |-> WindowTopkIndices(pos)],
                            [pos \in Queries(0, n) |-> FirstCompressOf(pos, blocks, n, careful, newest)], 0, n)
                ELSE Refused

\* A continued one to what is left of the window in the ring, and those.
ContinuedPrefill(n, careful, newest, kernel) ==
  LET start == Max({0, len - (Window - 1)})
      older == GatherRingChrono(start, len - start)
      total == len - start + n
      blocks == (len + n) \div ratio
  IN /\ Chunk(n, FALSE)
     /\ read' = IF CompressServed(blocks, careful)
                THEN Attend(kernel, Behind(older, n),
                            [pos \in Queries(len, n) |-> WindowTopkIndicesChrono(pos, start, total)],
                            [pos \in Queries(len, n) |-> CompressOf(pos, blocks, total, careful, newest)], len, n)
                ELSE Refused

\* Or to the ring once the chunk is in it.  External: the caller's chunk does not
\* overwrite rows that its own first queries need; no code checks it.
RingPrefill(n, careful, newest, kernel) ==
  LET blocks == (len + n) \div ratio
  IN /\ n = 1 \/ len + n <= Window
     /\ Chunk(n, FALSE)
     /\ read' = IF CompressServed(blocks, careful)
                THEN Attend(kernel, Unified(ring', comp', blocks),
                            [pos \in Queries(len, n) |-> WindowTopkIndicesPrefillFromPos(pos)],
                            [pos \in Queries(len, n) |-> CompressOf(pos, blocks, Window, careful, newest)], len, n)
                ELSE Refused

\* A decode step, c being the compressor after it.
Decoded(c) ==
  /\ len < MaxLen
  /\ len' = len + 1
  /\ ring' = WriteKvRow(len)
  /\ state' = c.state
  /\ emitted' = c.row
  /\ comp' = WriteCompressedRow(len, c.row)
  /\ keys' = WriteIndexerRow(len, c.row)
  /\ UNCHANGED layer

DecodeCompressOf(blocks, careful, newest) ==
  IF layer.overlap
  THEN IndexerTopkDecode(IndexerScoresDecode(blocks), blocks, Asked(blocks, careful), Window, newest)
  ELSE CompressTopkIndicesDecode(blocks, Window)
DecodeServed(blocks, careful) ==
  layer.overlap => NoneAsked(blocks, careful) \/ IndexerTopkDecodeServes(blocks, Asked(blocks, careful))

Decode(careful, newest, kernel) ==
  LET blocks == Complete(len)
  IN /\ Decoded(DecodeAt(Compressor, len))
     /\ read' = IF DecodeServed(blocks, careful)
                THEN Attend(kernel, Unified(ring', comp', blocks),
                            [pos \in {len} |-> WindowTopkIndicesDecode(pos)],
                            [pos \in {len} |-> DecodeCompressOf(blocks, careful, newest)], len, 1)
                ELSE Refused

\* The graph runs over every block the cache has room for.
GraphCompressOf(pos, blocks, careful, newest) ==
  IF layer.overlap
  THEN IndexerTopkDecode(IndexerMaskScoresByPosition(IndexerScoresDecode(blocks), pos), blocks,
                         Asked(blocks, careful), Window, newest)
  ELSE CompressTopkIndicesDecodeFromPos(pos, blocks, Window)

DecodeGraph(careful, newest, kernel) ==
  LET blocks == Cardinality(Blocks)
  IN /\ Decoded(IF layer.overlap THEN CompressorOverlapDecodeAtGraph(Compressor, len)
                ELSE CompressorNonoverlapDecodeAtGraph(Compressor, len))
     /\ read' = IF DecodeServed(blocks, careful)
                THEN Attend(kernel, Unified(ring', comp', blocks),
                            [pos \in {len} |-> WindowTopkIndicesDecodeFromPos(pos)],
                            [pos \in {len} |-> GraphCompressOf(pos, blocks, careful, newest)], len, 1)
                ELSE Refused

\* A refused call ends the sequence.
DsNext ==
  /\ read # Refused
  /\ \E careful, newest \in BOOLEAN :
       \/ \E n \in 1..LongestChunk, kernel \in {"sparse", "flashmla"} :
            \/ FirstPrefill(n, careful, newest, kernel)
            \/ ContinuedPrefill(n, careful, newest, kernel)
            \/ RingPrefill(n, careful, newest, kernel)
       \/ \E kernel \in {"sparse", "flashmla", "flashinfer"} :
            Decode(careful, newest, kernel) \/ DecodeGraph(careful, newest, kernel)

-------------------------------------------------------------------------------
\* What a compressed row is to hold.
PoolOf(c) ==
  IF layer.overlap
  THEN Pool(Overlapping(IF c > 0 THEN Block((c - 1) * ratio) ELSE NoBlock, Block(c * ratio)))
  ELSE Pool(Block(c * ratio))

\* Every complete block has its row, pooled over exactly its own tokens and, in
\* an overlapping layer, those of the block before it, each with the bias of its
\* own route once, in whatever chunks and steps the tokens came.
RowsCoverTheirTokens ==
  \A c \in 0..(len \div ratio - 1) : comp[c] = PoolOf(c) /\ (layer.overlap => keys[c] = PoolOf(c))

\* Every query that is served read the last Window rows up to its own, each once, and
\* next to them nothing but rows of distinct blocks complete at its position: all of
\* them, or as many as the indexer may pick.
AttendsExactlyItsContext ==
  read # Refused =>
  \A q \in DOMAIN read :
    LET pos == read[q].pos
        near == {Kv(tok) : tok \in Max({0, pos - Window + 1})..pos}
        blocks == {PoolOf(c) : c \in 0..(Complete(pos) - 1)}
        picked == IF layer.overlap THEN Min({IndexTopk, Cardinality(blocks)}) ELSE Cardinality(blocks)
        got == Range(read[q].rows)
    IN /\ near \subseteq got /\ got \subseteq near \cup blocks
       /\ IsInjective(read[q].rows)
       /\ Cardinality(got \ near) = picked
===============================================================================
