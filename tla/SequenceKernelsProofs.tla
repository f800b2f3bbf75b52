-------------------------- MODULE SequenceKernelsProofs --------------------------
(***************************************************************************)
(* Proofs about the two kinds of layer that keep a state along a sequence. *)
(* First DeepseekV4: its ring, its compressed rows and its reads, for      *)
(* every size of the ring, ratio, length of a sequence and length of its   *)
(* chunks.  Then GatedDeltaNet: its windows and states, for every number   *)
(* of slots, heads and tokens and every batch.                             *)
(***************************************************************************)
EXTENDS SequenceKernels, NumberFacts, TLAPS

\* The tokens a query at the last position may see through the window.
InWindow(tok) == tok \in 0..(len - 1) /\ len - tok <= Window

\* The ring holds the last Window tokens, each at its position modulo Window.
RingHoldsTheNewest == \A tok \in Nat : InWindow(tok) => ring[tok % Window] = Kv(tok)

\* The inductive invariant.
Inv == len \in Nat /\ DOMAIN ring = 0..(Window - 1) /\ RingHoldsTheNewest

\* Two tokens less than a window apart have slots of their own.
LEMMA SlotsApart ==
  ASSUME NEW w \in Nat \ {0}, NEW a \in Nat, NEW b \in Nat, a < b, b - a < w
  PROVE  a % w # b % w
<1> DEFINE q == a \div w
           r == b \div w
<1>1. q \in Nat /\ r \in Nat /\ a = w * q + (a % w) /\ b = w * r + (b % w)
  BY ModFacts
<1> HIDE DEF q, r
<1> SUFFICES ASSUME a % w = b % w PROVE FALSE
  OBVIOUS
<1>2. a % w \in Nat
  BY ModFacts
<1>3. w * r - w * q = b - a /\ w * r \in Nat /\ w * q \in Nat
  BY <1>1, <1>2
<1>4. w * r - w * q = w * (r - q)
  BY <1>1
<1>5. CASE r <= q
  <2>1. w * (r - q) <= 0
    BY <1>1, <1>5
  <2> QED
    BY <1>3, <1>4, <2>1
<1>6. CASE r >= q + 1
  <2>1. w * (r - q) >= w
    BY <1>1, <1>6
  <2> QED
    BY <1>3, <1>4, <2>1
<1> QED
  BY <1>1, <1>5, <1>6

\* Rows written behind one another, no more than the ring holds, all stay.
LEMMA WrittenRows ==
  ASSUME Window \in Nat \ {0}, NEW start \in Nat, NEW n \in Nat, n <= Window
  PROVE  /\ DOMAIN WriteWindowRows(start, n) = 0..(Window - 1)
         /\ \A tok \in start..(start + n - 1) :
              WriteWindowRows(start, n)[tok % Window] = Kv(tok)
         /\ \A tok \in Nat : tok < start /\ start + n - tok <= Window =>
              WriteWindowRows(start, n)[tok % Window] = ring[tok % Window]
<1> DEFINE chunk == start..(start + n - 1)
           Here(slot) == \E t \in chunk : t % Window = slot
<1>1. WriteWindowRows(start, n) =
        [slot \in 0..(Window - 1) |->
           IF Here(slot) THEN Kv(CHOOSE t \in chunk : t % Window = slot) ELSE ring[slot]]
  BY DEF WriteWindowRows
<1>2. \A t \in chunk : t \in Nat /\ t >= start /\ t <= start + n - 1
  OBVIOUS
<1>3. ASSUME NEW tok \in chunk
      PROVE  WriteWindowRows(start, n)[tok % Window] = Kv(tok)
  <2> DEFINE t == CHOOSE t \in chunk : t % Window = tok % Window
  <2>1. t \in chunk /\ t % Window = tok % Window
    OBVIOUS
  <2> HIDE DEF t
  <2>2. t - tok < Window /\ tok - t < Window
    BY <1>2, <1>3, <2>1
  <2>3. ~(t < tok) /\ ~(tok < t)
    BY <1>2, <1>3, <2>1, <2>2, SlotsApart
  <2>4. t = tok
    BY <1>2, <1>3, <2>1, <2>3
  <2>5. tok % Window \in 0..(Window - 1) /\ Here(tok % Window)
    BY <1>2, <1>3, ModFacts
  <2>6. WriteWindowRows(start, n)[tok % Window] = Kv(t)
    BY <1>1, <2>5 DEF t
  <2> QED
    BY <2>4, <2>6
<1>4. ASSUME NEW tok \in Nat, tok < start, start + n - tok <= Window
      PROVE  WriteWindowRows(start, n)[tok % Window] = ring[tok % Window]
  <2>1. \A t \in chunk : tok < t /\ t - tok < Window
    BY <1>2, <1>4
  <2>2. ~Here(tok % Window)
    BY <1>2, <2>1, SlotsApart
  <2>3. tok % Window \in 0..(Window - 1)
    BY ModFacts
  <2> HIDE DEF Here
  <2> QED
    BY <1>1, <2>2, <2>3
<1>5. DOMAIN WriteWindowRows(start, n) = 0..(Window - 1)
  BY <1>1
<1> QED
  BY <1>3, <1>4, <1>5

LEMMA SmallerOf ==
  ASSUME NEW n \in Nat, NEW w \in Nat
  PROVE  Min({n, w}) = IF n <= w THEN n ELSE w
BY DEF Min

\* A chunk, first or continued, and of any length.
LEMMA ChunkPreserves ==
  ASSUME Window \in Nat \ {0}, Inv, NEW n \in Nat, NEW first, Chunk(n, first)
  PROVE  Inv'
<1> DEFINE kept == Min({n, Window})
           start == len + n - kept
<1>1. kept \in Nat /\ kept <= n /\ kept <= Window /\ (kept = n \/ kept = Window)
  BY SmallerOf
<1>2. len' = len + n /\ ring' = WriteWindowRows(start, kept)
  BY DEF Chunk
<1> HIDE DEF kept
<1>3. start \in Nat /\ len \in Nat
  BY <1>1 DEF Inv
<1>4. DOMAIN ring' = 0..(Window - 1)
  BY <1>1, <1>2, <1>3, WrittenRows
<1>5. ASSUME NEW tok \in Nat, tok \in 0..(len' - 1), len' - tok <= Window
      PROVE  ring'[tok % Window] = Kv(tok)
  <2>1. CASE tok \in start..(start + kept - 1)
    BY <1>1, <1>2, <1>3, <2>1, WrittenRows
  <2>2. CASE tok \notin start..(start + kept - 1)
    <3>1. tok < start /\ start + kept - tok <= Window
      BY <1>1, <1>2, <1>3, <1>5, <2>2
    <3>2. ring'[tok % Window] = ring[tok % Window]
      BY <1>1, <1>2, <1>3, <3>1, WrittenRows
    <3>3. tok \in 0..(len - 1) /\ len - tok <= Window
      BY <1>1, <1>2, <1>3, <1>5, <3>1
    <3> QED
      BY <3>2, <3>3 DEF Inv, RingHoldsTheNewest, InWindow
  <2> QED
    BY <2>1, <2>2
<1> QED
  BY <1>2, <1>3, <1>4, <1>5 DEF Inv, RingHoldsTheNewest, InWindow, Kv

\* A decode step, eager or captured, whatever the compressor makes of it.
LEMMA DecodePreserves ==
  ASSUME Window \in Nat \ {0}, Inv, NEW c, Decoded(c)
  PROVE  Inv'
<1>1. len' = len + 1 /\ ring' = [ring EXCEPT ![len % Window] = Kv(len)] /\ len \in Nat
  BY DEF Decoded, WriteKvRow, Inv
<1>2. len % Window \in DOMAIN ring /\ DOMAIN ring' = 0..(Window - 1)
  BY <1>1, ModFacts DEF Inv
<1>3. ASSUME NEW tok \in Nat, tok \in 0..(len' - 1), len' - tok <= Window
      PROVE  ring'[tok % Window] = Kv(tok)
  <2>1. CASE tok = len
    BY <1>1, <1>2, <2>1
  <2>2. CASE tok # len
    <3>1. tok < len /\ len - tok < Window
      BY <1>1, <1>3, <2>2
    <3>2. tok % Window # len % Window
      BY <1>1, <3>1, SlotsApart
    <3>3. tok % Window \in DOMAIN ring
      BY ModFacts DEF Inv
    <3>4. ring'[tok % Window] = ring[tok % Window]
      BY <1>1, <3>2, <3>3
    <3>5. InWindow(tok)
      BY <1>1, <3>1 DEF InWindow
    <3> QED
      BY <3>4, <3>5 DEF Inv, RingHoldsTheNewest
  <2> QED
    BY <2>1, <2>2
<1> QED
  BY <1>1, <1>2, <1>3 DEF Inv, RingHoldsTheNewest, InWindow, Kv

LEMMA InitInv == Init => Inv
<1> SUFFICES ASSUME Init PROVE Inv
  OBVIOUS
<1>1. len = 0 /\ ring = [slot \in 0..(Window - 1) |-> NoRow]
  BY DEF Init, DsInit
<1>2. len \in Nat /\ DOMAIN ring = 0..(Window - 1)
  BY <1>1
<1>3. \A tok \in Nat : ~InWindow(tok)
  BY <1>1 DEF InWindow
<1> QED
  BY <1>2, <1>3 DEF Inv, RingHoldsTheNewest

LEMMA StepInv == Inv /\ [Next]_allVars => Inv'
<1> SUFFICES ASSUME Inv, [Next]_allVars PROVE Inv'
  OBVIOUS
<1>1. CASE UNCHANGED <<len, ring>>
  BY <1>1 DEF Inv, RingHoldsTheNewest, InWindow
<1>2. CASE DsNext
  <2>1. ASSUME NEW n \in 1..LongestChunk, NEW first, Chunk(n, first) PROVE Inv'
    <3>1. n \in Nat
      BY DsAssumption
    <3> QED
      BY <2>1, <3>1, DsAssumption, ChunkPreserves
  <2>2. ASSUME NEW n \in 1..LongestChunk, NEW careful, NEW newest, NEW kernel,
               \/ FirstPrefill(n, careful, newest, kernel) \/ ContinuedPrefill(n, careful, newest, kernel)
               \/ RingPrefill(n, careful, newest, kernel)
        PROVE  Inv'
    BY <2>1, <2>2 DEF FirstPrefill, ContinuedPrefill, RingPrefill
  <2>3. ASSUME NEW careful, NEW newest, NEW kernel,
               Decode(careful, newest, kernel) \/ DecodeGraph(careful, newest, kernel)
        PROVE  Inv'
    BY <2>3, DsAssumption, DecodePreserves DEF Decode, DecodeGraph
  <2> QED
    BY <1>2, <2>2, <2>3 DEF DsNext
<1> QED
  BY <1>1, <1>2 DEF Next, allVars, dsVars

LEMMA InvIsInvariant == Spec => []Inv
BY InitInv, StepInv, PTL DEF Spec

\* After any mix of chunks and decode steps the ring holds the last Window rows of
\* the sequence, each where the index kernels look for it.
THEOREM RingKeepsTheWindow == Spec => []RingHoldsTheNewest
<1>1. Inv => RingHoldsTheNewest
  BY DEF Inv
<1> QED
  BY <1>1, InvIsInvariant, PTL
-------------------------------------------------------------------------------
(* What the index kernel of a decode step names.                             *)

\* Entry i names the slot of the i-th token of the window, the oldest first; the
\* entries a short sequence has no token for are -1.
LEMMA EntryOfDecode ==
  ASSUME Window \in Nat \ {0}, NEW pos \in Nat, NEW i \in 1..Window
  PROVE  WindowTopkIndicesDecode(pos)[i] =
           IF pos >= Window - 1 THEN (pos - (Window - 1) + i - 1) % Window
           ELSE IF i - 1 <= pos THEN i - 1 ELSE -1
<1> DEFINE p == pos % Window
           k == pos \div Window
           Entry(n) == IF pos >= Window - 1
                       THEN IF n < Window - 1 - p THEN p + 1 + n ELSE n - (Window - 1 - p)
                       ELSE IF n <= pos THEN n ELSE -1
           entry == [n \in 0..(Window - 1) |-> Entry(n)]
<1>1. p \in 0..(Window - 1) /\ k \in Nat /\ pos = Window * k + p
  BY ModFacts
<1>2. WindowTopkIndicesDecode(pos) = [n \in 1..Cardinality(DOMAIN entry) |-> entry[n - 1]]
  BY DEF WindowTopkIndicesDecode, Indices, Entries
<1>3. Cardinality(DOMAIN entry) = Window
  <2>1. DOMAIN entry = 0..(Window - 1)
    OBVIOUS
  <2>2. Cardinality(0..(Window - 1)) = Window
    <3>1. Cardinality(0..(Window - 1)) = IF 0 > Window - 1 THEN 0 ELSE (Window - 1) - 0 + 1
      BY FS_Interval
    <3> QED
      BY <3>1
  <2> QED
    BY <2>1, <2>2
<1>4. i - 1 \in 0..(Window - 1)
  OBVIOUS
<1>5. WindowTopkIndicesDecode(pos)[i] = Entry(i - 1)
  BY <1>2, <1>3, <1>4
<1> HIDE DEF p, k
<1>6. CASE pos >= Window - 1
  <2> DEFINE tok == pos - (Window - 1) + i - 1
  <2>1. tok \in Nat
    BY <1>4, <1>6
  <2>2. CASE i - 1 < Window - 1 - p
    <3>1. tok = Window * (k - 1) + (p + 1 + i - 1) /\ p + 1 + i - 1 \in 0..(Window - 1)
      BY <1>1, <1>4, <2>2
    <3>2. tok % Window = p + 1 + i - 1
      BY <1>1, <2>1, <3>1, ModUnique
    <3> QED
      BY <1>1, <1>4, <1>5, <1>6, <2>2, <3>2
  <2>3. CASE ~(i - 1 < Window - 1 - p)
    <3> DEFINE slot == i - 1 - (Window - 1 - p)
    <3>1. tok = Window * k + slot /\ slot \in 0..(Window - 1) /\ k \in Int
      BY <1>1, <1>4, <2>3
    <3>2. tok % Window = slot
      <4> HIDE DEF slot, tok
      <4> QED
        BY <2>1, <3>1, ModUnique
    <3> QED
      BY <1>5, <1>6, <2>3, <3>2
  <2> QED
    BY <2>2, <2>3
<1>7. CASE ~(pos >= Window - 1)
  BY <1>5, <1>7
<1> QED
  BY <1>6, <1>7

\* What a decode step, or a chunk that attends to the ring, reads of it for the
\* last token: every row of the window, no other row, and none of them twice.
DecodeReadsTheWindow ==
  LET idx == WindowTopkIndicesDecode(len - 1)
  IN len > 0 =>
       /\ \A tok \in Nat : InWindow(tok) => \E i \in 1..Window : idx[i] >= 0 /\ ring[idx[i]] = Kv(tok)
       /\ \A i \in 1..Window : idx[i] = -1 \/ \E tok \in Nat : InWindow(tok) /\ ring[idx[i]] = Kv(tok)
       /\ \A i, j \in 1..Window : i # j /\ idx[i] = idx[j] => idx[i] = -1

LEMMA ReadsTheWindow ==
  ASSUME Window \in Nat \ {0}, Inv
  PROVE  DecodeReadsTheWindow
<1> SUFFICES ASSUME len > 0 PROVE DecodeReadsTheWindow
  BY DEF DecodeReadsTheWindow
<1> DEFINE pos == len - 1
           idx == WindowTopkIndicesDecode(pos)
           Tok(i) == IF pos >= Window - 1 THEN pos - (Window - 1) + i - 1 ELSE i - 1
<1>1. pos \in Nat /\ len \in Nat
  BY DEF Inv
<1>2. ASSUME NEW i \in 1..Window
      PROVE  idx[i] = -1 \/ (InWindow(Tok(i)) /\ idx[i] = Tok(i) % Window /\ Tok(i) \in Nat)
  <2>1. idx[i] = IF pos >= Window - 1 THEN (pos - (Window - 1) + i - 1) % Window
                 ELSE IF i - 1 <= pos THEN i - 1 ELSE -1
    BY <1>1, EntryOfDecode
  <2>2. CASE pos >= Window - 1
    BY <1>1, <2>1, <2>2 DEF InWindow
  <2>3. CASE ~(pos >= Window - 1) /\ i - 1 <= pos
    <3>1. (i - 1) % Window = i - 1
      BY ModUnique
    <3> QED
      BY <1>1, <2>1, <2>3, <3>1 DEF InWindow
  <2>4. CASE ~(pos >= Window - 1) /\ ~(i - 1 <= pos)
    BY <2>1, <2>4
  <2> QED
    BY <2>2, <2>3, <2>4
<1>3. ASSUME NEW tok \in Nat, InWindow(tok)
      PROVE  \E i \in 1..Window : Tok(i) = tok /\ idx[i] = tok % Window
  <2>1. CASE pos >= Window - 1
    <3> DEFINE i == tok - pos + Window
    <3>1. i \in 1..Window /\ pos - (Window - 1) + i - 1 = tok
      BY <1>1, <1>3 DEF InWindow
    <3>2. idx[i] = tok % Window
      BY <1>1, <2>1, <3>1, EntryOfDecode
    <3> QED
      BY <2>1, <3>1, <3>2
  <2>2. CASE ~(pos >= Window - 1)
    <3> DEFINE i == tok + 1
    <3>1. i \in 1..Window /\ i - 1 = tok /\ i - 1 <= pos /\ tok \in 0..(Window - 1)
      BY <1>1, <1>3, <2>2 DEF InWindow
    <3>2. tok % Window = tok
      BY <3>1, ModUnique
    <3>3. idx[i] = i - 1
      BY <1>1, <2>2, <3>1, EntryOfDecode
    <3> QED
      BY <2>2, <3>1, <3>2, <3>3
  <2> QED
    BY <2>1, <2>2
<1>4. \A i, j \in 1..Window : i # j /\ InWindow(Tok(i)) /\ InWindow(Tok(j)) =>
        Tok(i) \in Nat /\ Tok(j) \in Nat /\ Tok(i) # Tok(j)
        /\ Tok(i) - Tok(j) < Window /\ Tok(j) - Tok(i) < Window
  BY <1>1 DEF InWindow
<1> HIDE DEF idx, Tok
<1>5. ASSUME NEW i \in 1..Window, NEW j \in 1..Window, i # j, idx[i] = idx[j], idx[i] # -1
      PROVE  FALSE
  <2>1. /\ InWindow(Tok(i)) /\ InWindow(Tok(j)) /\ Tok(i) % Window = Tok(j) % Window
        /\ Tok(i) \in Nat /\ Tok(j) \in Nat
    BY <1>2, <1>5
  <2>2. Tok(i) < Tok(j) \/ Tok(j) < Tok(i)
    BY <1>4, <1>5, <2>1
  <2> QED
    BY <1>4, <1>5, <2>1, <2>2, SlotsApart
<1>6. \A tok \in Nat : tok % Window >= 0
  BY ModFacts
<1>7. \A tok \in Nat : InWindow(tok) => \E i \in 1..Window : idx[i] >= 0 /\ ring[idx[i]] = Kv(tok)
  BY <1>3, <1>6 DEF Inv, RingHoldsTheNewest
<1>8. \A i \in 1..Window : idx[i] = -1 \/ \E tok \in Nat : InWindow(tok) /\ ring[idx[i]] = Kv(tok)
  BY <1>2 DEF Inv, RingHoldsTheNewest
<1> QED
  BY <1>5, <1>7, <1>8 DEF DecodeReadsTheWindow, idx

\* The window half of what a decode step attends to, for every size of the ring
\* and every position, before and after the ring has wrapped.
THEOREM WindowIsReadExactly == Spec => []DecodeReadsTheWindow
<1>1. Inv => DecodeReadsTheWindow
  BY DsAssumption, ReadsTheWindow
<1> QED
  BY <1>1, InvIsInvariant, PTL
-------------------------------------------------------------------------------
(* The compressor.                                                           *)

\* The layers there are.
RatioOK == ratio \in Nat \ {0} /\ layer.overlap \in BOOLEAN

\* The routes of the block that is still open begin here.
Offset == IF layer.overlap THEN ratio ELSE 0

\* The state after n tokens: those of the open block at their routes ...
OpenBlock(st, n) ==
  \A i \in 0..((n % ratio) - 1) : st[Offset + i] = Projected((n \div ratio) * ratio + i, i)

\* ... and, in an overlapping layer, behind the block before it.
BlockBefore(st, n) ==
  layer.overlap => \A i \in 0..(ratio - 1) :
    st[i] = IF n \div ratio > 0 THEN Projected((n \div ratio - 1) * ratio + i, i) ELSE NoRow

IsCompressor(c) ==
  c = [state |-> c.state, row |-> c.row, rows |-> c.rows] /\ DOMAIN c.state = Routes

\* The rows of the blocks completed by the tokens up to "to", and no others.
RowsBetween(rows, from, to) ==
  /\ DOMAIN rows = (from \div ratio)..((to \div ratio) - 1)
  /\ \A b \in DOMAIN rows : rows[b] = PoolOf(b)

\* What one decode step makes of the state.
Put(c, tok) == [c.state EXCEPT ![Offset + (tok % ratio)] = Projected(tok, tok % ratio)]
ShiftedState(st) == [route \in Routes |-> IF route < ratio THEN st[route + ratio] ELSE st[route]]

LEMMA DecodeForm ==
  ASSUME RatioOK, NEW c, IsCompressor(c), NEW tok \in Nat
  PROVE  LET d == DecodeAt(c, tok)
         IN /\ IsCompressor(d) /\ d.rows = c.rows
            /\ ~Emits(tok) => d.state = Put(c, tok) /\ d.row = c.row
            /\ Emits(tok) => /\ d.row = Pool(Put(c, tok))
                             /\ d.state = IF layer.overlap THEN ShiftedState(Put(c, tok))
                                          ELSE Put(c, tok)
<1> DEFINE offset == IF layer.overlap THEN ratio ELSE 0
           p == Project(c, tok, offset)
           w == [state |-> Put(c, tok), row |-> Pool(Put(c, tok)), rows |-> c.rows]
<1>1. p = [state |-> Put(c, tok), row |-> c.row, rows |-> c.rows]
  BY DEF Project, Put, IsCompressor, Offset
<1>2. Weighted(p) = w
  BY <1>1 DEF Weighted
<1>3. OverlapShift(w) = [w EXCEPT !.state = ShiftedState(Put(c, tok))]
  BY DEF OverlapShift, ShiftedState
<1>4. OverlapShift(w) = [state |-> ShiftedState(Put(c, tok)), row |-> Pool(Put(c, tok)),
                         rows |-> c.rows]
  BY <1>3
<1>5. DOMAIN Put(c, tok) = Routes /\ DOMAIN ShiftedState(Put(c, tok)) = Routes
  BY DEF Put, ShiftedState, IsCompressor
<1>6. DecodeAt(c, tok) = IF Emits(tok) THEN IF layer.overlap THEN OverlapShift(Weighted(p))
                                            ELSE Weighted(p)
                         ELSE p
  BY DEF DecodeAt, CompressorOverlapDecodeAt, CompressorNonoverlapDecodeAt, RatioOK
<1> HIDE DEF p
<1> QED
  BY <1>1, <1>2, <1>4, <1>5, <1>6 DEF IsCompressor

\* The row of a block by the tokens at its routes.
LEMMA PoolOfRoutes ==
  ASSUME RatioOK, NEW b \in Nat
  PROVE  PoolOf(b) =
           Pool([route \in Routes |->
                   IF layer.overlap /\ route < ratio
                   THEN IF b > 0 THEN Projected((b - 1) * ratio + route, route) ELSE NoRow
                   ELSE Projected(b * ratio + route - Offset, route - Offset)])
<1>1. CASE layer.overlap
  <2>1. Routes = 0..(2 * ratio - 1) /\ Offset = ratio
    BY <1>1 DEF Routes, Offset
  <2>2. ASSUME NEW route \in Routes
        PROVE  Overlapping(IF b > 0 THEN Block((b - 1) * ratio) ELSE NoBlock, Block(b * ratio))[route]
                 = IF route < ratio
                   THEN IF b > 0 THEN Projected((b - 1) * ratio + route, route) ELSE NoRow
                   ELSE Projected(b * ratio + route - Offset, route - Offset)
    <3>1. route \in 0..(2 * ratio - 1) /\ ratio \in Nat \ {0}
      BY <2>1 DEF RatioOK
    <3>2. b * ratio \in Int
      BY <3>1
    <3>3. CASE route < ratio
      BY <3>1, <3>3 DEF Overlapping, Block, NoBlock
    <3>4. CASE ~(route < ratio)
      <4>1. route - ratio \in 0..(ratio - 1) /\ b * ratio + (route - ratio) = b * ratio + route - ratio
        BY <3>1, <3>2, <3>4
      <4> QED
        BY <2>1, <3>1, <3>4, <4>1 DEF Overlapping, Block
    <3> QED
      BY <3>3, <3>4
  <2> QED
    BY <1>1, <2>1, <2>2 DEF PoolOf, Overlapping
<1>2. CASE ~layer.overlap
  <2>1. Routes = 0..(ratio - 1) /\ Offset = 0 /\ ratio \in Nat \ {0} /\ b * ratio \in Int
    BY <1>2 DEF Routes, Offset, RatioOK
  <2>2. \A route \in Routes : Block(b * ratio)[route] = Projected(b * ratio + route - 0, route - 0)
    BY <2>1 DEF Block
  <2> QED
    BY <1>2, <2>1, <2>2 DEF PoolOf, Block
<1> QED
  BY <1>1, <1>2 DEF RatioOK

\* A step puts its token to the others of its block; the last of a block pools it,
\* with the block before, and leaves it as the block before the next.
LEMMA DecodeKeepsState ==
  ASSUME RatioOK, NEW c, IsCompressor(c), NEW tok \in Nat, OpenBlock(c.state, tok)
  PROVE  LET d == DecodeAt(c, tok)
         IN /\ OpenBlock(d.state, tok + 1)
            /\ Emits(tok) \/ BlockBefore(c.state, tok) => BlockBefore(d.state, tok + 1)
            /\ Emits(tok) /\ BlockBefore(c.state, tok) => d.row = PoolOf(tok \div ratio)
<1> DEFINE w == ratio
           b == tok \div w
           r == tok % w
           put == Put(c, tok)
           d == DecodeAt(c, tok)
<1>1. w \in Nat \ {0} /\ layer.overlap \in BOOLEAN
  BY DEF RatioOK
<1>2. b \in Nat /\ r \in 0..(w - 1) /\ tok = w * b + r /\ tok = b * w + r
  <2> HIDE DEF w
  <2>1. b \in Nat /\ r \in 0..(w - 1) /\ tok = w * b + r
    BY <1>1, ModFacts
  <2> HIDE DEF b, r
  <2> QED
    BY <1>1, <2>1
<1>3. \/ r = w - 1 /\ (tok + 1) % w = 0 /\ (tok + 1) \div w = b + 1 /\ Emits(tok)
      \/ r # w - 1 /\ (tok + 1) % w = r + 1 /\ (tok + 1) \div w = b /\ ~Emits(tok)
  <2>1. Emits(tok) <=> (tok + 1) % w = 0
    BY DEF Emits
  <2> HIDE DEF w
  <2>2. \/ r = w - 1 /\ (tok + 1) % w = 0 /\ (tok + 1) \div w = b + 1
        \/ r # w - 1 /\ (tok + 1) % w = r + 1 /\ (tok + 1) \div w = b
    BY <1>1, Successor
  <2> HIDE DEF b, r
  <2> QED
    BY <1>1, <1>2, <2>1, <2>2
<1>4. /\ DOMAIN put = Routes
      /\ \A i \in 0..r : put[Offset + i] = Projected(b * w + i, i)
      /\ layer.overlap => \A i \in 0..(w - 1) : put[i] = c.state[i]
  <2>1. Routes = 0..(Offset + w - 1) /\ Offset \in {0, w} /\ (layer.overlap => Offset = w)
    BY <1>1 DEF Routes, Offset
  <2>2. /\ DOMAIN put = Routes
        /\ \A x \in Routes : put[x] = IF x = Offset + r THEN Projected(tok, r) ELSE c.state[x]
    <3>1. Offset + r \in Routes
      BY <1>1, <1>2, <2>1
    <3> QED
      BY <3>1 DEF Put, IsCompressor
  <2> HIDE DEF put, w, b, r
  <2>3. ASSUME NEW i \in 0..r PROVE put[Offset + i] = Projected(b * w + i, i)
    <3>1. Offset + i \in Routes
      BY <1>1, <1>2, <2>1
    <3>2. CASE i = r
      BY <1>2, <2>2, <3>1, <3>2
    <3>3. CASE i # r
      <4>1. i \in 0..(r - 1) /\ Offset + i # Offset + r
        BY <1>1, <1>2, <2>1, <3>3
      <4>2. c.state[Offset + i] = Projected(b * w + i, i)
        BY <4>1 DEF OpenBlock, b, w, r
      <4> QED
        BY <2>2, <3>1, <4>1, <4>2
    <3> QED
      BY <3>2, <3>3
  <2>4. ASSUME layer.overlap, NEW i \in 0..(w - 1) PROVE put[i] = c.state[i]
    BY <1>1, <1>2, <2>1, <2>2, <2>4
  <2> QED
    BY <2>2, <2>3, <2>4
<1>5. /\ ~Emits(tok) => d.state = put
      /\ Emits(tok) => d.row = Pool(put)
                       /\ d.state = IF layer.overlap THEN ShiftedState(put) ELSE put
  BY DecodeForm
<1> HIDE DEF put, d, b, r
<1>6. OpenBlock(d.state, tok + 1)
  <2>1. CASE Emits(tok)
    <3>1. (tok + 1) % w = 0
      BY <1>1, <1>2, <1>3, <2>1
    <3> QED
      BY <1>1, <3>1 DEF OpenBlock
  <2>2. CASE ~Emits(tok)
    <3>1. (tok + 1) % w = r + 1 /\ (tok + 1) \div w = b
      BY <1>3, <2>2
    <3>2. d.state = put
      BY <1>5, <2>2
    <3>3. \A i \in 0..((r + 1) - 1) : put[Offset + i] = Projected(b * w + i, i)
      BY <1>2, <1>4
    <3> QED
      BY <3>1, <3>2, <3>3 DEF OpenBlock
  <2> QED
    BY <2>1, <2>2
<1>7. ASSUME layer.overlap, Emits(tok), NEW i \in 0..(w - 1)
      PROVE  d.state[i] = Projected(b * w + i, i)
  <2>1. r = w - 1 /\ Offset = w /\ d.state = ShiftedState(put)
    BY <1>3, <1>5, <1>7 DEF Offset
  <2>2. i \in Routes /\ i < w
    BY <1>1, <1>7 DEF Routes
  <2>3. d.state[i] = put[i + w]
    BY <2>1, <2>2 DEF ShiftedState
  <2>4. i \in 0..r /\ i + w = w + i
    BY <1>1, <1>2, <2>1
  <2> QED
    BY <1>4, <2>1, <2>3, <2>4
<1>8. Emits(tok) \/ BlockBefore(c.state, tok) => BlockBefore(d.state, tok + 1)
  <2>1. CASE Emits(tok)
    <3>1. (tok + 1) \div w = b + 1 /\ b + 1 > 0
      BY <1>2, <1>3, <2>1
    <3>2. ASSUME layer.overlap, NEW i \in 0..(w - 1)
          PROVE  d.state[i] = IF (tok + 1) \div w > 0
                              THEN Projected(((tok + 1) \div w - 1) * w + i, i) ELSE NoRow
      <4>1. (tok + 1) \div w - 1 = b
        BY <1>2, <3>1
      <4> QED
        BY <1>7, <2>1, <3>1, <3>2, <4>1
    <3> QED
      BY <3>2 DEF BlockBefore
  <2>2. CASE ~Emits(tok) /\ BlockBefore(c.state, tok)
    <3>1. (tok + 1) \div w = b /\ d.state = put
      BY <1>3, <1>5, <2>2
    <3>2. ASSUME layer.overlap, NEW i \in 0..(w - 1)
          PROVE  d.state[i] = IF b > 0 THEN Projected((b - 1) * w + i, i) ELSE NoRow
      <4>1. c.state[i] = IF b > 0 THEN Projected((b - 1) * w + i, i) ELSE NoRow
        BY <2>2, <3>2 DEF BlockBefore, b
      <4> QED
        BY <1>4, <3>1, <3>2, <4>1
    <3> QED
      BY <3>1, <3>2 DEF BlockBefore
  <2> QED
    BY <2>1, <2>2
<1>9. ASSUME Emits(tok), BlockBefore(c.state, tok)
      PROVE  d.row = PoolOf(b)
  <2>1. r = w - 1 /\ d.row = Pool(put)
    BY <1>3, <1>5, <1>9
  <2> DEFINE Entry(route) == IF layer.overlap /\ route < w
                             THEN IF b > 0 THEN Projected((b - 1) * w + route, route) ELSE NoRow
                             ELSE Projected(b * w + route - Offset, route - Offset)
  <2>2. ASSUME NEW route \in Routes PROVE put[route] = Entry(route)
    <3>1. Routes = 0..(Offset + w - 1) /\ Offset \in {0, w} /\ (layer.overlap <=> Offset = w)
      BY <1>1 DEF Routes, Offset
    <3>2. CASE layer.overlap /\ route < w
      <4>1. route \in 0..(w - 1)
        BY <1>1, <3>1, <3>2
      <4>2. put[route] = c.state[route]
        BY <1>4, <3>2, <4>1
      <4>3. c.state[route] = IF b > 0 THEN Projected((b - 1) * w + route, route) ELSE NoRow
        BY <1>9, <3>2, <4>1 DEF BlockBefore, b
      <4> QED
        BY <3>2, <4>2, <4>3
    <3>3. CASE ~(layer.overlap /\ route < w)
      <4> DEFINE i == route - Offset
      <4>1. i \in 0..r /\ Offset + i = route /\ b * w \in Int
        BY <1>1, <1>2, <2>1, <3>1, <3>3
      <4>2. b * w + i = b * w + route - Offset
        BY <3>1, <1>1, <4>1
      <4>3. put[Offset + i] = Projected(b * w + i, i)
        BY <1>4, <4>1
      <4> QED
        BY <3>3, <4>1, <4>2, <4>3
    <3> QED
      BY <3>2, <3>3
  <2>3. put = [route \in Routes |-> Entry(route)]
    <3>1. put = [route \in DOMAIN put |-> put[route]]
      BY DEF put, Put
    <3> QED
      BY <1>4, <2>2, <3>1
  <2>4. PoolOf(b) = Pool([route \in Routes |-> Entry(route)])
    BY <1>2, PoolOfRoutes
  <2> QED
    BY <2>1, <2>3, <2>4
<1> QED
  BY <1>6, <1>8, <1>9 DEF d, b

\* Serve is the loop it is written as.
ServesBy(after, c, from, to) ==
  /\ Serve(c, from, to) = after[to]
  /\ after[from] = c
  /\ \A tok \in (from + 1)..to : after[tok] = Kept(after[tok - 1], tok - 1)

LEMMA ServeUnfolds ==
  ASSUME NEW c, NEW from \in Nat, NEW to \in Nat, from <= to
  PROVE  \E after : ServesBy(after, c, from, to)
<1> DEFINE Solves(f, n) ==
             f = [tok \in from..n |-> IF tok = from THEN c ELSE Kept(f[tok - 1], tok - 1)]
           Bad == {n \in Nat : n >= from /\ ~\E f : Solves(f, n)}
<1>1. ASSUME Bad # {} PROVE FALSE
  <2>1. PICK n \in Bad : \A m \in Bad : n <= m
    BY <1>1, LeastNumber
  <2>2. n \in Nat /\ n >= from /\ ~\E f : Solves(f, n)
    BY <2>1
  <2>3. n # from
    <3> DEFINE f == [tok \in from..from |-> c]
    <3>1. Solves(f, from)
      OBVIOUS
    <3> HIDE DEF f, Solves
    <3> QED
      BY <2>2, <3>1
  <2>4. PICK f : Solves(f, n - 1)
    <3> HIDE DEF Solves
    <3> QED
      BY <2>1, <2>2, <2>3
  <2> DEFINE g == [tok \in from..n |-> IF tok = n THEN Kept(f[n - 1], n - 1) ELSE f[tok]]
  <2>5. Solves(g, n)
    <3>1. f = [tok \in from..(n - 1) |-> IF tok = from THEN c ELSE Kept(f[tok - 1], tok - 1)]
      BY <2>4
    <3>2. ASSUME NEW tok \in from..n
          PROVE  g[tok] = IF tok = from THEN c ELSE Kept(g[tok - 1], tok - 1)
      <4>1. CASE tok = from
        BY <2>2, <2>3, <3>1, <4>1
      <4>2. CASE tok # from
        <5>1. tok - 1 \in from..(n - 1) /\ tok - 1 \in from..n /\ tok - 1 # n
          BY <2>2, <4>2
        <5>2. g[tok - 1] = f[tok - 1]
          BY <5>1
        <5>3. CASE tok = n
          BY <4>2, <5>2, <5>3
        <5>4. CASE tok # n
          <6>1. tok \in from..(n - 1)
            BY <2>2, <5>4
          <6> QED
            BY <3>1, <4>2, <5>2, <5>4, <6>1
        <5> QED
          BY <5>3, <5>4
      <4> QED
        BY <4>1, <4>2
    <3> QED
      BY <3>2
  <2> HIDE DEF Solves, g
  <2> QED
    BY <2>2, <2>5
<1>2. \E f : Solves(f, to)
  <2> HIDE DEF Solves
  <2> QED
    BY <1>1
<1> DEFINE after == CHOOSE f : Solves(f, to)
<1>3. Solves(after, to)
  BY <1>2
<1>4. Serve(c, from, to) = after[to]
  BY DEF Serve
<1> HIDE DEF after
<1>5. ServesBy(after, c, from, to)
  BY <1>3, <1>4 DEF ServesBy
<1> QED
  BY <1>5

\* The tokens of a block served so far, and the rows of the blocks they completed.
ServedOK(c, d, from, k) ==
  /\ IsCompressor(d) /\ OpenBlock(d.state, k)
  /\ from \div ratio < k \div ratio \/ BlockBefore(c.state, from) => BlockBefore(d.state, k)
  /\ BlockBefore(c.state, from) /\ DOMAIN c.rows = {} => RowsBetween(d.rows, from, k)

LEMMA KeptStep ==
  ASSUME RatioOK, NEW c, NEW from \in Nat, NEW k \in Nat, from <= k,
         NEW d, ServedOK(c, d, from, k)
  PROVE  ServedOK(c, Kept(d, k), from, k + 1)
<1> DEFINE e == DecodeAt(d, k)
           rows == Over([b \in {k \div ratio} |-> e.row], e.rows)
           f == Kept(d, k)
<1>1. IsCompressor(d) /\ OpenBlock(d.state, k)
  BY DEF ServedOK
<1>2. /\ IsCompressor(e) /\ e.rows = d.rows /\ OpenBlock(e.state, k + 1)
      /\ Emits(k) \/ BlockBefore(d.state, k) => BlockBefore(e.state, k + 1)
      /\ Emits(k) /\ BlockBefore(d.state, k) => e.row = PoolOf(k \div ratio)
  BY <1>1, DecodeForm, DecodeKeepsState
<1>3. f = IF Emits(k) THEN [e EXCEPT !.rows = rows] ELSE e
  BY DEF Kept
<1> HIDE DEF e, f
<1>4. IsCompressor(f) /\ f.state = e.state /\ f.rows = IF Emits(k) THEN rows ELSE d.rows
  BY <1>2, <1>3 DEF IsCompressor
<1>5. /\ from \div ratio \in Nat /\ k \div ratio \in Nat /\ from \div ratio <= k \div ratio
      /\ \/ (k + 1) \div ratio = (k \div ratio) + 1 /\ Emits(k)
         \/ (k + 1) \div ratio = k \div ratio /\ ~Emits(k)
  <2> DEFINE w == ratio
  <2>1. w \in Nat \ {0} /\ (Emits(k) <=> (k + 1) % w = 0)
    BY DEF RatioOK, Emits
  <2> HIDE DEF w
  <2>2. \/ (k + 1) % w = 0 /\ (k + 1) \div w = (k \div w) + 1
        \/ (k + 1) % w = (k % w) + 1 /\ (k + 1) \div w = k \div w
    BY <2>1, Successor
  <2>3. from \div w \in Nat /\ k \div w \in Nat /\ k % w \in Nat
    <3>1. \A a \in Nat : a \div w \in Nat /\ a % w \in 0..(w - 1)
      BY <2>1, ModFacts
    <3> QED
      BY <2>1, <3>1
  <2>4. from \div w <= k \div w
    BY <2>1, DivMonotonic
  <2> QED
    BY <2>1, <2>2, <2>3, <2>4 DEF w
<1>6. from \div ratio < (k + 1) \div ratio \/ BlockBefore(c.state, from)
        => BlockBefore(f.state, k + 1)
  BY <1>2, <1>4, <1>5 DEF ServedOK
<1>7. ASSUME BlockBefore(c.state, from), DOMAIN c.rows = {}
      PROVE  RowsBetween(f.rows, from, k + 1)
  <2>1. RowsBetween(d.rows, from, k) /\ BlockBefore(d.state, k)
    BY <1>7 DEF ServedOK
  <2>2. CASE ~Emits(k)
    <3>1. f.rows = d.rows /\ (k + 1) \div ratio = k \div ratio
      BY <1>4, <1>5, <2>2
    <3> QED
      BY <2>1, <3>1 DEF RowsBetween
  <2>3. CASE Emits(k)
    <3> DEFINE lo == from \div ratio
               b == k \div ratio
    <3>1. f.rows = rows /\ (k + 1) \div ratio = b + 1 /\ e.row = PoolOf(b)
      BY <1>2, <1>4, <1>5, <2>1, <2>3
    <3>2. DOMAIN d.rows = lo..(b - 1) /\ \A x \in DOMAIN d.rows : d.rows[x] = PoolOf(x)
      BY <2>1 DEF RowsBetween
    <3>3. lo \in Nat /\ b \in Nat /\ lo <= b
      BY <1>5
    <3> HIDE DEF lo, b
    <3>4. DOMAIN rows = {b} \cup DOMAIN d.rows
      BY <1>2 DEF Over, b
    <3>5. DOMAIN rows = lo..b
      <4>1. {b} \cup (lo..(b - 1)) = lo..b
        BY <3>3
      <4> HIDE DEF rows
      <4> QED
        BY <3>2, <3>4, <4>1
    <3>6. \A x \in DOMAIN rows : rows[x] = PoolOf(x)
      BY <1>2, <3>1, <3>2, <3>4 DEF Over, b
    <3>7. lo..b = lo..((b + 1) - 1)
      BY <3>3
    <3> HIDE DEF rows
    <3> QED
      BY <3>1, <3>5, <3>6, <3>7 DEF RowsBetween, lo
  <2> QED
    BY <2>2, <2>3
<1> QED
  BY <1>2, <1>4, <1>6, <1>7 DEF ServedOK, f

LEMMA ServedBy ==
  ASSUME RatioOK, NEW c, NEW from \in Nat, NEW to \in Nat, from <= to,
         IsCompressor(c), OpenBlock(c.state, from),
         NEW after, ServesBy(after, c, from, to)
  PROVE  ServedOK(c, after[to], from, to)
<1>1. /\ Serve(c, from, to) = after[to]
      /\ after[from] = c
      /\ \A tok \in (from + 1)..to : after[tok] = Kept(after[tok - 1], tok - 1)
  BY DEF ServesBy
<1> DEFINE Bad == {k \in from..to : ~ServedOK(c, after[k], from, k)}
<1>2. ASSUME Bad # {} PROVE FALSE
  <2>1. Bad \in SUBSET Nat
    OBVIOUS
  <2>2. PICK k \in Bad : \A m \in Bad : k <= m
    <3> HIDE DEF Bad
    <3> QED
      BY <1>2, <2>1, LeastNumber
  <2>3. k # from
    <3>1. DOMAIN c.rows = {} => RowsBetween(c.rows, from, from)
      <4>1. from \div ratio \in Nat
        BY ModFacts DEF RatioOK
      <4>2. (from \div ratio)..((from \div ratio) - 1) = {}
        BY <4>1
      <4> QED
        BY <4>2 DEF RowsBetween
    <3>2. ~(from \div ratio < from \div ratio)
      <4>1. from \div ratio \in Nat
        BY ModFacts DEF RatioOK
      <4> QED
        BY <4>1
    <3>3. ServedOK(c, after[from], from, from)
      BY <1>1, <3>1, <3>2 DEF ServedOK
    <3> QED
      BY <2>2, <3>3
  <2>4. k - 1 \in from..to /\ k \in (from + 1)..to /\ k - 1 \in Nat /\ (k - 1) + 1 = k
    BY <2>2, <2>3
  <2>5. ServedOK(c, after[k - 1], from, k - 1)
    BY <2>2, <2>4
  <2>6. ServedOK(c, Kept(after[k - 1], k - 1), from, (k - 1) + 1)
    <3> DEFINE m == k - 1
    <3> HIDE DEF m
    <3>1. m \in Nat /\ from <= m /\ ServedOK(c, after[m], from, m)
      BY <2>4, <2>5 DEF m
    <3>2. ServedOK(c, Kept(after[m], m), from, m + 1)
      BY <3>1, KeptStep
    <3> QED
      BY <3>2 DEF m
  <2>7. after[k] = Kept(after[k - 1], k - 1)
    BY <1>1, <2>4
  <2> QED
    BY <2>2, <2>4, <2>6, <2>7
<1>3. to \in from..to
  OBVIOUS
<1>4. ServedOK(c, after[to], from, to)
  BY <1>2, <1>3
<1> QED
  BY <1>4

LEMMA ServeKeepsState ==
  ASSUME RatioOK, NEW c, NEW from \in Nat, NEW to \in Nat, from <= to,
         IsCompressor(c), OpenBlock(c.state, from),
         NEW d, d = Serve(c, from, to)
  PROVE  ServedOK(c, d, from, to)
<1>1. ASSUME NEW after, ServesBy(after, c, from, to) PROVE ServedOK(c, d, from, to)
  <2>1. ServedOK(c, after[to], from, to)
    BY <1>1, ServedBy
  <2>2. d = after[to]
    BY <1>1 DEF ServesBy
  <2> QED
    BY <2>1, <2>2
<1>2. \E after : ServesBy(after, c, from, to)
  BY ServeUnfolds
<1> QED
  BY <1>1, <1>2, Zenon

\* No block ends before its last token.
LEMMA NoBlocks ==
  ASSUME NEW w \in Nat \ {0}, NEW x \in Int, x < 0
  PROVE  x \div w <= 0
<1> DEFINE q == x \div w
<1>1. q \in Int /\ w * q <= x
  OBVIOUS
<1> HIDE DEF q
<1>2. CASE q >= 1
  <2>1. w * q >= 0
    BY <1>1, <1>2
  <2> QED
    BY <1>1, <2>1
<1> QED
  BY <1>1, <1>2 DEF q

\* The tokens to the next whole block.
LEMMA HeadEndsABlock ==
  ASSUME NEW w \in Nat \ {0}, NEW s \in Nat, NEW h, h = (w - (s % w)) % w
  PROVE  h \in 0..(w - 1) /\ (s + h) % w = 0
<1> DEFINE q == s \div w
           r == s % w
<1>1. q \in Nat /\ r \in 0..(w - 1) /\ s = w * q + r
  BY ModFacts
<1> HIDE DEF q, r
<1>2. h = (w - r) % w
  BY DEF r
<1>3. CASE r = 0
  <2>1. w = w * 1 + 0 /\ w - r = w
    BY <1>3
  <2>2. w % w = 0
    BY <2>1, ModUnique
  <2>3. h = 0
    BY <1>2, <2>1, <2>2
  <2>4. s + h = w * q + 0
    BY <1>1, <1>3, <2>3
  <2>5. (s + h) % w = 0
    BY <1>1, <2>3, <2>4, ModUnique
  <2> QED
    BY <2>3, <2>5
<1>4. CASE r # 0
  <2>1. w - r \in 0..(w - 1) /\ w - r = w * 0 + (w - r)
    BY <1>1, <1>4
  <2>2. (w - r) % w = w - r
    BY <1>1, <2>1, ModUnique
  <2>3. h = w - r
    BY <1>2, <2>2
  <2>4. s + h = w * (q + 1) + 0
    BY <1>1, <2>3
  <2>5. (s + h) % w = 0
    BY <1>1, <2>1, <2>3, <2>4, ModUnique
  <2> QED
    BY <2>1, <2>3, <2>5
<1> QED
  BY <1>3, <1>4

\* The blocks of a chunk after its first h tokens end where the chunk's last block does,
\* and the last of them begins a block before that.
LEMMA LastBlock ==
  ASSUME NEW w \in Nat \ {0}, NEW e \in Nat, e \div w > 0,
         NEW tail, tail = e - (e % w)
  PROVE  /\ tail \in 0..e /\ tail % w = 0 /\ tail \div w = e \div w
         /\ tail - w \in 0..e /\ (tail - w) % w = 0 /\ (tail - w) \div w = (e \div w) - 1
<1> DEFINE q == e \div w
           r == e % w
<1>1. q \in Nat /\ r \in 0..(w - 1) /\ e = w * q + r /\ q > 0 /\ tail = e - r
  BY ModFacts
<1> HIDE DEF q, r
<1>2. tail = w * q + 0 /\ tail - w = w * (q - 1) + 0 /\ w * q \in Nat /\ w * (q - 1) \in Nat
  <2>1. q - 1 \in Nat /\ w * (q - 1) = w * q - w
    BY <1>1
  <2> QED
    BY <1>1, <2>1
<1>3. /\ tail \in Nat /\ tail - w \in Nat /\ tail <= e
      /\ 0 \in 0..(w - 1) /\ q \in Int /\ q - 1 \in Int
  BY <1>1, <1>2
<1> DEFINE before == tail - w
<1> HIDE DEF before
<1>4. tail % w = 0 /\ tail \div w = q
  BY <1>2, <1>3, DivUnique
<1>5. before = w * (q - 1) + 0 /\ before \in Nat
  BY <1>2, <1>3 DEF before
<1>6. before % w = 0 /\ before \div w = q - 1
  BY <1>3, <1>5, DivUnique
<1> QED
  BY <1>1, <1>3, <1>4, <1>6 DEF q, before

\* The rows a bulk kernel gives to k blocks, the first of them f.
BulkOK(rows, f, k) ==
  /\ DOMAIN rows = 0..(k - 1)
  /\ \A b \in f..(f + k - 1) : rows[b - f] = PoolOf(b)

LEMMA FirstPrefillRows ==
  ASSUME RatioOK, NEW n \in Nat
  PROVE  BulkOK(IF layer.overlap THEN CompressorOverlapPrefill(n) ELSE CompressorNonoverlapPrefill(n),
                0, n \div ratio)
<1> DEFINE rows == IF layer.overlap THEN CompressorOverlapPrefill(n) ELSE CompressorNonoverlapPrefill(n)
           k == n \div ratio
<1>1. k \in Nat /\ DOMAIN rows = 0..(k - 1)
  <2>1. k \in Nat
    BY ModFacts DEF RatioOK
  <2> QED
    BY <2>1 DEF RatioOK, CompressorOverlapPrefill, CompressorNonoverlapPrefill
<1>2. ASSUME NEW b \in 0..(k - 1) PROVE rows[b] = PoolOf(b)
  <2>1. CASE layer.overlap
    <3>1. rows[b] = Pool(Overlapping(IF b = 0 THEN NoBlock ELSE Block((b - 1) * ratio), Block(b * ratio)))
      BY <1>2, <2>1 DEF CompressorOverlapPrefill
    <3>2. PoolOf(b) = Pool(Overlapping(IF b > 0 THEN Block((b - 1) * ratio) ELSE NoBlock, Block(b * ratio)))
      BY <2>1 DEF PoolOf
    <3>3. b = 0 <=> ~(b > 0)
      BY <1>1
    <3> QED
      BY <3>1, <3>2, <3>3
  <2>2. CASE ~layer.overlap
    BY <1>2, <2>2 DEF CompressorNonoverlapPrefill, PoolOf
  <2> QED
    BY <2>1, <2>2
<1> HIDE DEF k, rows
<1>3. ASSUME NEW b \in 0..(0 + k - 1) PROVE rows[b - 0] = PoolOf(b)
  <2>1. b \in 0..(k - 1) /\ b - 0 = b
    BY <1>1
  <2> QED
    BY <1>2, <2>1
<1> QED
  BY <1>1, <1>3 DEF BulkOK, k, rows

\* A continued prefill of a layer without overlap: the open block's tokens are in the state.
LEMMA NonoverlapContRows ==
  ASSUME RatioOK, ~layer.overlap, NEW st, NEW start \in Nat, OpenBlock(st, start), NEW k \in Nat
  PROVE  BulkOK(CompressorNonoverlapPrefillCont(st, start, k), start \div ratio, k)
<1> DEFINE w == ratio
           f == start \div w
           head == start % w
           rows == CompressorNonoverlapPrefillCont(st, start, k)
           Entry(c, i) == IF c = 0 /\ i < head THEN st[i] ELSE Projected(start + c * w + i - head, i)
<1>1. w \in Nat \ {0} /\ Offset = 0 /\ Routes = 0..(w - 1)
  BY DEF RatioOK, Offset, Routes
<1>2. /\ DOMAIN rows = 0..(k - 1)
      /\ \A c \in 0..(k - 1) : rows[c] = Pool([i \in 0..(w - 1) |-> Entry(c, i)])
  BY DEF CompressorNonoverlapPrefillCont
<1>3. \A i \in 0..(head - 1) : st[0 + i] = Projected(f * w + i, i)
  BY <1>1 DEF OpenBlock
<1> HIDE DEF w
<1>4. f \in Nat /\ head \in 0..(w - 1) /\ start = w * f + head
  BY <1>1, ModFacts
<1> HIDE DEF f, head, rows
<1>5. ASSUME NEW b \in f..(f + k - 1) PROVE rows[b - f] = PoolOf(b)
  <2> DEFINE c == b - f
  <2>1. c \in 0..(k - 1) /\ b = f + c /\ b \in Nat
    BY <1>4
  <2>2. w * b = w * f + w * c /\ w * b \in Nat /\ w * c \in Nat /\ w * f \in Nat
        /\ b * w = w * b /\ c * w = w * c /\ f * w = w * f
    <3> HIDE DEF c
    <3> QED
      BY <1>1, <1>4, <2>1
  <2> HIDE DEF c
  <2>3. ASSUME NEW i \in 0..(w - 1) PROVE Entry(c, i) = Projected(b * w + i - 0, i - 0)
    <3>1. CASE c = 0 /\ i < head
      <4>1. i \in 0..(head - 1) /\ 0 + i = i /\ b * w + i - 0 = f * w + i /\ i - 0 = i
        BY <1>1, <1>4, <2>1, <2>2, <3>1
      <4>2. st[i] = Projected(f * w + i, i)
        BY <1>3, <4>1
      <4> QED
        BY <3>1, <4>1, <4>2 DEF Projected
    <3>2. CASE ~(c = 0 /\ i < head)
      <4>1. start + c * w + i - head = b * w + i - 0 /\ i - 0 = i
        BY <1>1, <1>4, <2>1, <2>2
      <4> QED
        BY <3>2, <4>1 DEF Projected
    <3> QED
      BY <3>1, <3>2
  <2>4. PoolOf(b) = Pool([i \in 0..(w - 1) |-> Projected(b * w + i - 0, i - 0)])
    <3>1. PoolOf(b) = Pool([route \in Routes |->
                   IF layer.overlap /\ route < ratio
                   THEN IF b > 0 THEN Projected((b - 1) * ratio + route, route) ELSE NoRow
                   ELSE Projected(b * ratio + route - Offset, route - Offset)])
      BY <2>1, PoolOfRoutes
    <3> QED
      BY <1>1, <3>1 DEF w
  <2>5. rows[c] = Pool([i \in 0..(w - 1) |-> Entry(c, i)])
    BY <1>2, <2>1
  <2>6. [i \in 0..(w - 1) |-> Entry(c, i)] = [i \in 0..(w - 1) |-> Projected(b * w + i - 0, i - 0)]
    <3> HIDE DEF Entry
    <3> QED
      BY <2>3
  <2>7. rows[c] = PoolOf(b)
    <3> HIDE DEF Entry
    <3> QED
      BY <2>4, <2>5, <2>6
  <2> QED
    BY <2>7 DEF c
<1> QED
  BY <1>2, <1>5 DEF BulkOK, rows, f, w

\* One of an overlapping layer: the first block's predecessor is in the state.
LEMMA OverlapContRows ==
  ASSUME RatioOK, layer.overlap, NEW st, NEW start \in Nat, NEW h \in Nat,
         h = (ratio - (start % ratio)) % ratio, (start + h) % ratio = 0,
         BlockBefore(st, start + h), NEW k \in Nat
  PROVE  BulkOK(CompressorOverlapPrefillCont(st, start, k), (start + h) \div ratio, k)
<1> DEFINE w == ratio
           m == start + h
           f == m \div w
           rows == CompressorOverlapPrefillCont(st, start, k)
           First(c) == start + c * w + h
           Entry(c, route) ==
             IF route < w THEN IF c = 0 THEN st[route] ELSE Projected(First(c) - w + route, route)
             ELSE Projected(First(c) + (route - w), route - w)
<1>1. w \in Nat \ {0} /\ Offset = w /\ Routes = 0..(2 * w - 1)
  BY DEF RatioOK, Offset, Routes
<1>2. /\ DOMAIN rows = 0..(k - 1)
      /\ \A c \in 0..(k - 1) :
           rows[c] = Pool(Overlapping(IF c = 0 THEN st ELSE Block(First(c) - w), Block(First(c))))
  BY DEF CompressorOverlapPrefillCont
<1>3. \A i \in 0..(w - 1) : st[i] = IF f > 0 THEN Projected((f - 1) * w + i, i) ELSE NoRow
  BY DEF BlockBefore
<1>4. ASSUME NEW c \in 0..(k - 1)
      PROVE  rows[c] = Pool([route \in Routes |-> Entry(c, route)])
  <2>1. Overlapping(IF c = 0 THEN st ELSE Block(First(c) - w), Block(First(c)))
          = [route \in 0..(2 * w - 1) |->
               IF route < w THEN (IF c = 0 THEN st ELSE Block(First(c) - w))[route]
               ELSE Block(First(c))[route - w]]
    BY DEF Overlapping
  <2>2. ASSUME NEW route \in 0..(2 * w - 1)
        PROVE  (IF route < w THEN (IF c = 0 THEN st ELSE Block(First(c) - w))[route]
                ELSE Block(First(c))[route - w]) = Entry(c, route)
    <3>1. CASE route < w
      <4>1. route \in 0..(w - 1)
        BY <1>1, <3>1
      <4> HIDE DEF First
      <4> QED
        BY <3>1, <4>1 DEF Block, w
    <3>2. CASE ~(route < w)
      <4>1. route - w \in 0..(w - 1)
        BY <1>1, <3>2
      <4> HIDE DEF First
      <4> QED
        BY <3>2, <4>1 DEF Block, w
    <3> QED
      BY <3>1, <3>2
  <2>3. Overlapping(IF c = 0 THEN st ELSE Block(First(c) - w), Block(First(c)))
          = [route \in 0..(2 * w - 1) |-> Entry(c, route)]
    <3> HIDE DEF Entry, First
    <3> QED
      BY <2>1, <2>2
  <2> HIDE DEF Entry, First, rows
  <2> QED
    BY <1>1, <1>2, <2>3
<1>5. m \in Nat /\ m % w = 0
  OBVIOUS
<1> HIDE DEF w, m
<1>6. f \in Nat /\ m = w * f
  <2>1. f \in Nat /\ m = w * f + (m % w)
    BY <1>1, <1>5, ModFacts
  <2> HIDE DEF f
  <2> QED
    BY <1>1, <1>5, <2>1
<1> HIDE DEF f, rows
<1>7. ASSUME NEW b \in f..(f + k - 1) PROVE rows[b - f] = PoolOf(b)
  <2> DEFINE c == b - f
  <2>1. c \in 0..(k - 1) /\ b = f + c /\ b \in Nat /\ (c = 0 <=> b = f)
    BY <1>6
  <2> HIDE DEF c
  <2>2. First(c) = b * w /\ b * w \in Nat /\ (b - 1) * w = b * w - w /\ (b > 0 => (b - 1) * w \in Nat)
    <3>1. c * w = w * c /\ b * w = w * f + w * c /\ start + h = w * f /\ w * c \in Nat /\ w * f \in Nat
      BY <1>1, <1>6, <2>1 DEF m
    <3>2. (b - 1) * w = b * w - w
      BY <1>1, <2>1
    <3>3. b > 0 => (b - 1) * w \in Nat
      BY <1>1, <2>1
    <3> QED
      BY <3>1, <3>2, <3>3
  <2> DEFINE Pooled(route) == IF layer.overlap /\ route < ratio
                              THEN IF b > 0 THEN Projected((b - 1) * ratio + route, route) ELSE NoRow
                              ELSE Projected(b * ratio + route - Offset, route - Offset)
  <2>3. ASSUME NEW route \in Routes PROVE Entry(c, route) = Pooled(route)
    <3>1. route \in 0..(2 * w - 1) /\ ratio = w /\ Offset = w
      BY <1>1 DEF w
    <3>2. CASE route < w
      <4>1. route \in 0..(w - 1)
        BY <1>1, <3>1, <3>2
      <4>2. CASE c = 0
        <5>1. f = b
          BY <2>1, <4>2
        <5>2. Entry(c, route) = st[route]
          BY <3>2, <4>2
        <5>3. Pooled(route) = IF b > 0 THEN Projected((b - 1) * w + route, route) ELSE NoRow
          BY <3>1, <3>2
        <5> QED
          BY <1>3, <4>1, <5>1, <5>2, <5>3
      <4>3. CASE c # 0
        <5>1. b > 0 /\ First(c) - w + route = (b - 1) * w + route
          BY <1>1, <1>6, <2>1, <2>2, <4>3, <3>1
        <5>2. Entry(c, route) = Projected(First(c) - w + route, route)
          BY <3>2, <4>3
        <5>3. Pooled(route) = Projected((b - 1) * w + route, route)
          BY <3>1, <3>2, <5>1
        <5> QED
          BY <5>1, <5>2, <5>3
      <4> QED
        BY <4>2, <4>3
    <3>3. CASE ~(route < w)
      <4>1. First(c) + (route - w) = b * w + route - w
        BY <1>1, <2>2, <3>1
      <4>2. Entry(c, route) = Projected(First(c) + (route - w), route - w)
        BY <3>3
      <4>3. Pooled(route) = Projected(b * w + route - w, route - w)
        BY <3>1, <3>3
      <4> QED
        BY <4>1, <4>2, <4>3
    <3> QED
      BY <3>2, <3>3
  <2>4. PoolOf(b) = Pool([route \in Routes |-> Pooled(route)])
    BY <2>1, PoolOfRoutes
  <2>5. rows[c] = Pool([route \in Routes |-> Entry(c, route)])
    BY <1>4, <2>1
  <2> HIDE DEF Entry, Pooled
  <2>6. rows[c] = PoolOf(b)
    BY <2>3, <2>4, <2>5
  <2> QED
    BY <2>6 DEF c
<1> QED
  BY <1>2, <1>7 DEF BulkOK, rows, f, w, m

\* What compressing the tokens from "from" to "to" is to leave.
CompressedOK(d, from, to) ==
  /\ IsCompressor(d) /\ OpenBlock(d.state, to) /\ BlockBefore(d.state, to)
  /\ RowsBetween(d.rows, from, to)

LEMMA BulkThenReplay ==
  ASSUME RatioOK, NEW s \in Nat, NEW m \in Nat, NEW e \in Nat, s <= m,
         NEW c, BlockBefore(c.state, s), DOMAIN c.rows = {},
         NEW v, ServedOK(c, v, s, m),
         NEW k \in Nat, NEW bulk, BulkOK(bulk, m \div ratio, k), e \div ratio = (m \div ratio) + k,
         NEW t \in Nat, t <= e, t % ratio = 0, t \div ratio < e \div ratio \/ ~layer.overlap,
         NEW d, d = Replay(WithRows(v, From(m \div ratio, bulk)), t, e)
  PROVE  CompressedOK(d, s, e)
<1> DEFINE lo == s \div ratio
           f == m \div ratio
           new == From(f, bulk)
           all == Over(new, v.rows)
<1>1. lo \in Nat /\ f \in Nat /\ lo <= f
  <2>1. ratio \in Nat \ {0}
    BY DEF RatioOK
  <2> QED
    BY <2>1, ModFacts, DivMonotonic
<1>2. IsCompressor(v) /\ RowsBetween(v.rows, s, m)
  BY DEF ServedOK
<1>3. RowsBetween(all, s, e)
  <2>1. DOMAIN v.rows = lo..(f - 1) /\ \A b \in DOMAIN v.rows : v.rows[b] = PoolOf(b)
    BY <1>2 DEF RowsBetween
  <2>2. DOMAIN bulk = 0..(k - 1) /\ \A b \in f..(f + k - 1) : bulk[b - f] = PoolOf(b)
    BY DEF BulkOK
  <2>3. e \div ratio = f + k
    OBVIOUS
  <2> HIDE DEF lo, f
  <2>4. DOMAIN new = {f + r : r \in DOMAIN bulk} /\ \A b \in DOMAIN new : new[b] = bulk[b - f]
    BY DEF From
  <2>5. {f + r : r \in 0..(k - 1)} = f..(f + k - 1)
    <3>1. \A b \in f..(f + k - 1) : b - f \in 0..(k - 1) /\ f + (b - f) = b
      BY <1>1
    <3>2. \A r \in 0..(k - 1) : f + r \in f..(f + k - 1)
      BY <1>1
    <3> QED
      BY <3>1, <3>2
  <2> HIDE DEF new
  <2>6. DOMAIN new = f..(f + k - 1) /\ \A b \in DOMAIN new : new[b] = PoolOf(b)
    BY <2>2, <2>4, <2>5
  <2>7. DOMAIN all = DOMAIN new \cup DOMAIN v.rows
        /\ \A b \in DOMAIN all : all[b] = IF b \in DOMAIN new THEN new[b] ELSE v.rows[b]
    BY DEF Over
  <2> HIDE DEF all
  <2>8. DOMAIN all = lo..((f + k) - 1)
    <3>1. (f..(f + k - 1)) \cup (lo..(f - 1)) = lo..((f + k) - 1)
      BY <1>1
    <3> QED
      BY <2>1, <2>6, <2>7, <3>1
  <2>9. \A b \in DOMAIN all : all[b] = PoolOf(b)
    BY <2>1, <2>6, <2>7
  <2> QED
    BY <2>3, <2>8, <2>9 DEF RowsBetween, lo
<1>4. PICK x : x = WithRows(v, From(m \div ratio, bulk))
  OBVIOUS
<1>5. IsCompressor(x) /\ x.state = v.state /\ x.rows = all
  BY <1>2, <1>4 DEF WithRows, IsCompressor
<1> HIDE DEF all, lo, f
<1>6. OpenBlock(x.state, t)
  BY DEF OpenBlock
<1>7. PICK y : y = Serve(x, t, e)
  OBVIOUS
<1>8. ServedOK(x, y, t, e)
  BY <1>5, <1>6, <1>7, ServeKeepsState
<1>9. d = Replay(x, t, e)
  BY <1>4
<1>10. d = [y EXCEPT !.rows = all]
  BY <1>5, <1>7, <1>9 DEF Replay
<1>11. IsCompressor(d) /\ d.state = y.state /\ d.rows = all
  BY <1>8, <1>10 DEF ServedOK, IsCompressor
<1>12. OpenBlock(y.state, e) /\ BlockBefore(y.state, e)
  BY <1>8 DEF ServedOK, BlockBefore
<1> QED
  BY <1>3, <1>11, <1>12 DEF CompressedOK

LEMMA ServedAlone ==
  ASSUME RatioOK, NEW c, IsCompressor(c), DOMAIN c.rows = {},
         NEW from \in Nat, NEW to \in Nat, from <= to,
         OpenBlock(c.state, from), BlockBefore(c.state, from), NEW d, d = Serve(c, from, to)
  PROVE  CompressedOK(d, from, to)
BY ServeKeepsState DEF ServedOK, CompressedOK

LEMMA NonoverlapCompressed ==
  ASSUME RatioOK, ~layer.overlap, NEW c, IsCompressor(c), DOMAIN c.rows = {},
         NEW start \in Nat, NEW n \in Nat, NEW first \in BOOLEAN, first => start = 0,
         OpenBlock(c.state, start), BlockBefore(c.state, start),
         NEW d, d = Compressed(c, start, n, first)
  PROVE  CompressedOK(d, start, start + n)
<1> DEFINE w == ratio
           e == start + n
           k == ((start % w) + n) \div w
           tail == e - (e % w)
<1>1. w \in Nat \ {0} /\ HeadTokens(start) = 0 /\ Bulk(start, n) = k
      /\ start + 0 = start /\ e \in Nat /\ start <= e
  BY DEF RatioOK, HeadTokens, Bulk
<1>2. PICK v : v = Serve(c, start, start)
  OBVIOUS
<1>3. PICK bulk : bulk = IF first THEN CompressorNonoverlapPrefill(n)
                         ELSE CompressorNonoverlapPrefillCont(v.state, start, k)
  OBVIOUS
<1>4. d = IF k <= 0 THEN Serve(c, start, e)
          ELSE Replay(WithRows(v, From(start \div w, bulk)), tail, e)
  <2>1. v = Serve(c, start, start + HeadTokens(start))
    BY <1>1, <1>2
  <2>2. d = IF Bulk(start, n) <= 0 THEN Serve(c, start, e)
            ELSE Replay(WithRows(v, From((start + HeadTokens(start)) \div w, bulk)), tail, e)
    <3> HIDE DEF k
    <3> QED
      BY <1>1, <1>3, <2>1 DEF Compressed
  <2> HIDE DEF k, e, tail
  <2> QED
    BY <1>1, <2>2
<1>5. ServedOK(c, v, start, start)
  BY <1>2, ServeKeepsState
<1>6. CASE k <= 0
  <2>1. d = Serve(c, start, e)
    BY <1>4, <1>6
  <2> HIDE DEF e
  <2>2. CompressedOK(d, start, e)
    BY <1>1, <2>1, ServedAlone
  <2> QED
    BY <2>2 DEF e
<1>7. CASE ~(k <= 0)
  <2>1. d = Replay(WithRows(v, From(start \div ratio, bulk)), tail, e)
    BY <1>4, <1>7
  <2>2. k \in Nat /\ k > 0 /\ e \div ratio = (start \div ratio) + k
    <3> HIDE DEF w
    <3> DEFINE q == start \div w
               r == start % w
               x == r + n
    <3>1. q \in Nat /\ r \in 0..(w - 1) /\ start = w * q + r
      BY <1>1, ModFacts
    <3> HIDE DEF q, r
    <3>2. e = w * q + x /\ x \in Nat
      BY <1>1, <3>1
    <3> HIDE DEF x
    <3>3. (w * q + x) \div w = q + (x \div w) /\ x \div w \in Nat
      <4>1. (w * q + x) \div w = q + (x \div w)
        BY <1>1, <3>1, <3>2, DivAdd
      <4>2. x \div w \in Nat
        BY <1>1, <3>2, ModFacts
      <4> QED
        BY <4>1, <4>2
    <3>4. k = x \div w
      BY DEF x, r
    <3> HIDE DEF k, e
    <3>5. e \div w = q + k
      BY <3>2, <3>3, <3>4
    <3> QED
      BY <1>7, <3>3, <3>4, <3>5 DEF w, q
  <2>3. tail \in Nat /\ tail <= e /\ tail % ratio = 0
    <3>1. e \div w > 0
      <4>1. start \div w \in Nat
        BY <1>1, ModFacts
      <4> HIDE DEF k
      <4> QED
        BY <2>2, <4>1
    <3> HIDE DEF w, k, e, tail
    <3>2. tail \in 0..e /\ tail % w = 0
      BY <1>1, <3>1, LastBlock DEF tail
    <3> QED
      BY <1>1, <3>2 DEF w
  <2>4. BulkOK(bulk, start \div ratio, k)
    <3>1. CASE first
      <4>1. BulkOK(CompressorNonoverlapPrefill(n), 0, n \div ratio)
        BY FirstPrefillRows
      <4>2. 0 % w = 0 /\ 0 \div w = 0
        <5>1. 0 = w * 0 + 0 /\ 0 \in 0..(w - 1) /\ 0 \in Nat /\ 0 \in Int
          BY <1>1
        <5> HIDE DEF w
        <5> QED
          BY <1>1, <5>1, DivUnique
      <4>3. start = 0 /\ 0 + n = n
        BY <3>1
      <4>4. k = n \div ratio /\ start \div ratio = 0
        BY <4>2, <4>3
      <4> QED
        BY <1>3, <3>1, <4>1, <4>4
    <3>2. CASE ~first
      <4>1. OpenBlock(v.state, start)
        BY <1>5 DEF ServedOK
      <4> HIDE DEF k
      <4>2. BulkOK(CompressorNonoverlapPrefillCont(v.state, start, k), start \div ratio, k)
        BY <2>2, <4>1, NonoverlapContRows
      <4> QED
        BY <1>3, <3>2, <4>2
    <3> QED
      BY <3>1, <3>2
  <2> HIDE DEF w, k, e, tail
  <2>5. CompressedOK(d, start, e)
    BY <1>1, <1>5, <2>1, <2>2, <2>3, <2>4, BulkThenReplay
  <2> QED
    BY <2>5 DEF e
<1> QED
  BY <1>6, <1>7

LEMMA OverlapCompressed ==
  ASSUME RatioOK, layer.overlap, NEW c, IsCompressor(c), DOMAIN c.rows = {},
         NEW start \in Nat, NEW n \in Nat, NEW first \in BOOLEAN, first => start = 0,
         OpenBlock(c.state, start), BlockBefore(c.state, start),
         NEW d, d = Compressed(c, start, n, first)
  PROVE  CompressedOK(d, start, start + n)
<1> DEFINE w == ratio
           e == start + n
           h == (w - (start % w)) % w
           m == start + h
           k == (n - h) \div w
           tail == e - (e % w)
<1>1. w \in Nat \ {0} /\ HeadTokens(start) = h /\ Bulk(start, n) = k /\ e \in Nat /\ start <= e
  BY DEF RatioOK, HeadTokens, Bulk
<1>2. h \in 0..(w - 1) /\ m % w = 0 /\ m \in Nat /\ h \in Nat /\ start <= m
  <2> HIDE DEF w
  <2>1. h \in 0..(w - 1) /\ m % w = 0
    BY <1>1, HeadEndsABlock
  <2> HIDE DEF h
  <2> QED
    BY <1>1, <2>1
<1>3. PICK v : v = Serve(c, start, m)
  OBVIOUS
<1>4. PICK bulk : bulk = IF first THEN CompressorOverlapPrefill(n)
                         ELSE CompressorOverlapPrefillCont(v.state, start, k)
  OBVIOUS
<1>5. d = IF k <= 0 THEN Serve(c, start, e)
          ELSE Replay(WithRows(v, From(m \div w, bulk)), tail - w, e)
  <2>1. v = Serve(c, start, start + HeadTokens(start))
    BY <1>1, <1>3
  <2>2. d = IF Bulk(start, n) <= 0 THEN Serve(c, start, e)
            ELSE Replay(WithRows(v, From((start + HeadTokens(start)) \div w, bulk)), tail - w, e)
    <3> HIDE DEF k
    <3> QED
      BY <1>1, <1>4, <2>1 DEF Compressed
  <2> HIDE DEF k, e, tail, h
  <2> QED
    BY <1>1, <2>2
<1> HIDE DEF h
<1>6. ServedOK(c, v, start, m)
  <2> HIDE DEF m
  <2> QED
    BY <1>2, <1>3, ServeKeepsState
<1>7. CASE k <= 0
  <2>1. d = Serve(c, start, e)
    BY <1>5, <1>7
  <2> HIDE DEF e
  <2>2. CompressedOK(d, start, e)
    BY <1>1, <2>1, ServedAlone
  <2> QED
    BY <2>2 DEF e
<1>8. CASE ~(k <= 0)
  <2>1. d = Replay(WithRows(v, From(m \div ratio, bulk)), tail - w, e)
    BY <1>5, <1>8
  <2>2. k \in Nat /\ k > 0 /\ e \div ratio = (m \div ratio) + k /\ m \div ratio \in Nat
    <3> HIDE DEF w
    <3> DEFINE x == n - h
    <3>1. x \in Int /\ k = x \div w /\ m + x = e
      BY <1>1, <1>2
    <3> HIDE DEF x, k
    <3>2. x \in Nat
      <4>1. x < 0 => x \div w <= 0
        BY <1>1, <3>1, NoBlocks
      <4> QED
        BY <1>8, <3>1, <4>1
    <3>3. k \in Nat
      BY <1>1, <3>1, <3>2, ModFacts
    <3> HIDE DEF m
    <3>4. m \div w \in Nat /\ (m + x) \div w = (m \div w) + k
      <4>1. m \in Nat /\ m % w = 0 /\ k \in Int /\ k = x \div w /\ w \in Nat \ {0}
        BY <1>1, <1>2, <3>1, <3>3
      <4> DEFINE q == m \div w
      <4>2. q \in Nat /\ m = w * q + (m % w)
        BY <4>1, ModFacts
      <4> HIDE DEF q
      <4>3. m = w * q
        BY <4>1, <4>2
      <4>4. (w * q + x) \div w = q + (x \div w)
        BY <3>2, <4>1, <4>2, DivAdd
      <4> QED
        BY <4>1, <4>2, <4>3, <4>4 DEF q
    <3> HIDE DEF e
    <3>5. e \div w = (m \div w) + k
      BY <3>1, <3>4
    <3> QED
      BY <1>8, <3>3, <3>4, <3>5 DEF w
  <2>3. tail - w \in Nat /\ tail - w <= e /\ (tail - w) % ratio = 0
        /\ (tail - w) \div ratio < e \div ratio
    <3> HIDE DEF k, m
    <3>1. e \div w > 0 /\ e \div w \in Nat
      BY <2>2
    <3> HIDE DEF w, e, tail
    <3>2. tail - w \in 0..e /\ (tail - w) % w = 0 /\ (tail - w) \div w = (e \div w) - 1
      BY <1>1, <3>1, LastBlock DEF tail
    <3> QED
      BY <1>1, <3>1, <3>2 DEF w
  <2>4. BulkOK(bulk, m \div ratio, k)
    <3>1. CASE first
      <4>1. BulkOK(CompressorOverlapPrefill(n), 0, n \div ratio)
        BY FirstPrefillRows
      <4>2. h % w = 0
        <5>1. m = h
          BY <1>2, <3>1
        <5> HIDE DEF m
        <5> QED
          BY <1>2, <5>1
      <4>3. 0 % w = 0 /\ 0 \div w = 0 /\ h % w = h
        <5>1. 0 = w * 0 + 0 /\ 0 \in 0..(w - 1) /\ 0 \in Nat /\ 0 \in Int /\ h = w * 0 + h
          BY <1>1, <1>2
        <5> HIDE DEF w
        <5>2. h % w = h
          BY <1>1, <1>2, <5>1, ModUnique
        <5> QED
          BY <1>1, <5>1, <5>2, DivUnique
      <4>4. h = 0
        BY <4>2, <4>3
      <4>5. m = 0 /\ n - h = n
        BY <3>1, <4>4
      <4>6. k = n \div ratio /\ m \div ratio = 0
        BY <4>3, <4>5
      <4> QED
        BY <1>4, <3>1, <4>1, <4>6
    <3>2. CASE ~first
      <4>1. BlockBefore(v.state, start + h)
        BY <1>6 DEF ServedOK
      <4>2. h = (ratio - (start % ratio)) % ratio /\ (start + h) % ratio = 0
        BY <1>2 DEF h
      <4> HIDE DEF k
      <4>3. BulkOK(CompressorOverlapPrefillCont(v.state, start, k), (start + h) \div ratio, k)
        BY <1>2, <2>2, <4>1, <4>2, OverlapContRows
      <4> QED
        BY <1>4, <3>2, <4>3
    <3> QED
      BY <3>1, <3>2
  <2> DEFINE t == tail - w
  <2> HIDE DEF t, w, k, e, tail, m
  <2>5. d = Replay(WithRows(v, From(m \div ratio, bulk)), t, e) /\ t \in Nat /\ t <= e
        /\ t % ratio = 0 /\ t \div ratio < e \div ratio
    BY <2>1, <2>3 DEF t
  <2>6. CompressedOK(d, start, e)
    BY <1>1, <1>2, <1>6, <2>2, <2>4, <2>5, BulkThenReplay
  <2> QED
    BY <2>6 DEF e
<1> QED
  BY <1>7, <1>8

\* What compressing a chunk leaves of a state whose open block and block before it are
\* in place: the same of the chunk's end, and the rows of the blocks it completes.
LEMMA ChunkCompressed ==
  ASSUME RatioOK, NEW c, IsCompressor(c), DOMAIN c.rows = {},
         NEW start \in Nat, NEW n \in Nat, NEW first \in BOOLEAN, first => start = 0,
         OpenBlock(c.state, start), BlockBefore(c.state, start),
         NEW d, d = Compressed(c, start, n, first)
  PROVE  CompressedOK(d, start, start + n)
<1>1. CASE layer.overlap
  BY <1>1, OverlapCompressed
<1>2. CASE ~layer.overlap
  BY <1>2, NonoverlapCompressed
<1> QED
  BY <1>1, <1>2

-------------------------------------------------------------------------------
(* The inductive invariant of the compressed rows: the rows, and a state     *)
(* from which the next ones can be pooled.                                   *)

CompressorInv ==
  /\ layer \in Layers
  /\ len \in Nat /\ len <= MaxLen
  /\ DOMAIN state = Routes /\ OpenBlock(state, len) /\ BlockBefore(state, len)
  /\ Blocks \subseteq DOMAIN comp /\ Blocks \subseteq DOMAIN keys
  /\ RowsCoverTheirTokens

LEMMA LayersHaveRatios ==
  ASSUME layer \in Layers
  PROVE  RatioOK
BY DsAssumption DEF RatioOK, ratio

LEMMA LayerIsFixed ==
  ASSUME UNCHANGED layer
  PROVE  /\ ratio' = ratio /\ Offset' = Offset /\ Routes' = Routes /\ Blocks' = Blocks
         /\ \A b : PoolOf(b)' = PoolOf(b)
<1>1. ratio' = ratio
  BY DEF ratio
<1>2. Offset' = Offset /\ Routes' = Routes /\ Blocks' = Blocks
  BY <1>1 DEF Offset, Routes, Blocks
<1>3. ASSUME NEW b PROVE PoolOf(b)' = PoolOf(b)
  BY <1>1 DEF PoolOf, Pool, Overlapping, NoBlock, Block, Projected
<1> QED
  BY <1>1, <1>2, <1>3

LEMMA NextCompressorInv ==
  ASSUME CompressorInv, UNCHANGED layer,
         NEW d, IsCompressor(d), NEW e \in Nat, e <= MaxLen, OpenBlock(d.state, e), BlockBefore(d.state, e),
         len' = e, state' = d.state,
         Blocks \subseteq DOMAIN comp', Blocks \subseteq DOMAIN keys',
         \A b \in 0..(e \div ratio - 1) : comp'[b] = PoolOf(b) /\ (layer.overlap => keys'[b] = PoolOf(b))
  PROVE  CompressorInv'
<1>1. /\ ratio' = ratio /\ Offset' = Offset /\ Routes' = Routes /\ Blocks' = Blocks
      /\ \A b : PoolOf(b)' = PoolOf(b)
  BY LayerIsFixed
<1>2. OpenBlock(state, len)'
  BY <1>1 DEF OpenBlock, Projected
<1>3. BlockBefore(state, len)'
  BY <1>1 DEF BlockBefore, Projected
<1>4. RowsCoverTheirTokens'
  BY <1>1 DEF RowsCoverTheirTokens
<1> QED
  BY <1>1, <1>2, <1>3, <1>4 DEF CompressorInv, IsCompressor

LEMMA ChunkKeepsRows ==
  ASSUME CompressorInv, NEW n \in Nat, NEW first \in BOOLEAN, first => len = 0, Chunk(n, first)
  PROVE  CompressorInv'
<1>1. PICK c : c = Compressor
  OBVIOUS
<1>2. PICK d : d = Compressed(c, len, n, first)
  OBVIOUS
<1>3. /\ len + n <= MaxLen /\ len' = len + n /\ comp' = Over(d.rows, comp) /\ state' = d.state
      /\ keys' = (IF layer.overlap THEN Over(d.rows, keys) ELSE keys) /\ UNCHANGED layer
  BY <1>1, <1>2 DEF Chunk
<1>4. RatioOK /\ len \in Nat /\ len + n \in Nat /\ ratio \in Nat \ {0}
  BY LayersHaveRatios DEF CompressorInv, RatioOK
<1>5. IsCompressor(c) /\ DOMAIN c.rows = {} /\ OpenBlock(c.state, len) /\ BlockBefore(c.state, len)
  <2>1. c.state = state /\ c.rows = <<>> /\ c = [state |-> c.state, row |-> c.row, rows |-> c.rows]
    BY <1>1 DEF Compressor
  <2> QED
    BY <2>1 DEF CompressorInv, IsCompressor
<1>6. CompressedOK(d, len, len + n)
  <2>1. ASSUME NEW start, start = len PROVE CompressedOK(d, start, start + n)
    BY <1>2, <1>4, <1>5, <2>1, ChunkCompressed
  <2> QED
    BY <2>1
<1>7. /\ IsCompressor(d) /\ OpenBlock(d.state, len + n) /\ BlockBefore(d.state, len + n)
      /\ RowsBetween(d.rows, len, len + n)
  BY <1>6 DEF CompressedOK
<1> DEFINE lo == len \div ratio
           hi == (len + n) \div ratio
<1>8. lo \in Nat /\ hi \in Nat
  BY <1>4, ModFacts
<1>9. DOMAIN d.rows = lo..(hi - 1) /\ \A b \in DOMAIN d.rows : d.rows[b] = PoolOf(b)
  BY <1>7 DEF RowsBetween
<1>10. \A b \in 0..(lo - 1) : comp[b] = PoolOf(b) /\ (layer.overlap => keys[b] = PoolOf(b))
  BY DEF CompressorInv, RowsCoverTheirTokens
<1>11. Blocks \subseteq DOMAIN comp /\ Blocks \subseteq DOMAIN keys
  BY DEF CompressorInv
<1> HIDE DEF lo, hi
<1>12. ASSUME NEW rows, Blocks \subseteq DOMAIN rows
       PROVE  Blocks \subseteq DOMAIN Over(d.rows, rows)
  BY <1>12 DEF Over
<1>13. ASSUME NEW rows, NEW b \in 0..(hi - 1), b \in 0..(lo - 1) => b \in DOMAIN rows /\ rows[b] = PoolOf(b)
       PROVE  Over(d.rows, rows)[b] = PoolOf(b)
  <2>1. CASE b >= lo
    BY <1>8, <1>9, <2>1 DEF Over
  <2>2. CASE b < lo
    <3>1. b \in 0..(lo - 1) /\ b \notin DOMAIN d.rows
      BY <1>8, <1>9, <2>2
    <3> QED
      BY <1>13, <3>1 DEF Over
  <2> QED
    BY <1>8, <2>1, <2>2
<1>14. ASSUME NEW b \in 0..(lo - 1) PROVE b \in Blocks
  <2>1. lo <= MaxLen \div ratio /\ MaxLen \div ratio \in Nat
    BY <1>4, DivMonotonic, ModFacts, DsAssumption DEF lo, CompressorInv
  <2> QED
    BY <1>8, <2>1 DEF Blocks
<1>15. \A b \in 0..(hi - 1) : comp'[b] = PoolOf(b) /\ (layer.overlap => keys'[b] = PoolOf(b))
  <2>1. ASSUME NEW b \in 0..(hi - 1) PROVE comp'[b] = PoolOf(b)
    BY <1>3, <1>10, <1>11, <1>13, <1>14
  <2>2. ASSUME layer.overlap, NEW b \in 0..(hi - 1) PROVE keys'[b] = PoolOf(b)
    BY <1>3, <1>10, <1>11, <1>13, <1>14, <2>2
  <2> QED
    BY <2>1, <2>2
<1>16. Blocks \subseteq DOMAIN comp' /\ Blocks \subseteq DOMAIN keys'
  BY <1>3, <1>11, <1>12
<1>17. PICK e \in Nat : e = len + n
  BY <1>4
<1> QED
  BY <1>3, <1>7, <1>15, <1>16, <1>17, NextCompressorInv DEF hi

LEMMA DecodedKeepsRows ==
  ASSUME CompressorInv, Decoded(DecodeAt(Compressor, len))
  PROVE  CompressorInv'
<1>1. PICK c : c = Compressor
  OBVIOUS
<1>2. PICK tok : tok = len
  OBVIOUS
<1>3. PICK d : d = DecodeAt(c, tok)
  OBVIOUS
<1>4. RatioOK /\ tok \in Nat /\ ratio \in Nat \ {0} /\ tok < MaxLen /\ MaxLen \in Nat
  BY <1>2, LayersHaveRatios, DsAssumption DEF CompressorInv, RatioOK, Decoded
<1>5. /\ len' = tok + 1 /\ state' = d.state /\ UNCHANGED layer
      /\ comp' = (IF Emits(tok) THEN [comp EXCEPT ![tok \div ratio] = d.row] ELSE comp)
      /\ keys' = (IF layer.overlap /\ Emits(tok) THEN [keys EXCEPT ![tok \div ratio] = d.row] ELSE keys)
  BY <1>1, <1>2, <1>3 DEF Decoded, WriteCompressedRow, WriteIndexerRow
<1>6. IsCompressor(c) /\ OpenBlock(c.state, tok) /\ BlockBefore(c.state, tok)
  <2>1. c.state = state /\ c = [state |-> c.state, row |-> c.row, rows |-> c.rows]
    BY <1>1 DEF Compressor
  <2> QED
    BY <1>2, <2>1 DEF CompressorInv, IsCompressor
<1>7. /\ IsCompressor(d) /\ OpenBlock(d.state, tok + 1) /\ BlockBefore(d.state, tok + 1)
      /\ Emits(tok) => d.row = PoolOf(tok \div ratio)
  BY <1>3, <1>4, <1>6, DecodeForm, DecodeKeepsState
<1> DEFINE lo == tok \div ratio
           hi == (tok + 1) \div ratio
<1>8. /\ lo \in Nat
      /\ \/ Emits(tok) /\ hi = lo + 1
         \/ ~Emits(tok) /\ hi = lo
  <2> DEFINE w == ratio
  <2>1. w \in Nat \ {0} /\ (Emits(tok) <=> (tok + 1) % w = 0)
    BY <1>4 DEF Emits
  <2> HIDE DEF w
  <2>2. \/ (tok + 1) % w = 0 /\ (tok + 1) \div w = (tok \div w) + 1
        \/ (tok + 1) % w = (tok % w) + 1 /\ (tok + 1) \div w = tok \div w
    BY <1>4, <2>1, Successor
  <2>3. tok \div w \in Nat /\ tok % w \in 0..(w - 1)
    BY <1>4, <2>1, ModFacts
  <2> QED
    BY <2>1, <2>2, <2>3 DEF w
<1>9. \A b \in 0..(lo - 1) : comp[b] = PoolOf(b) /\ (layer.overlap => keys[b] = PoolOf(b))
  BY <1>2 DEF CompressorInv, RowsCoverTheirTokens
<1>10. lo \in Blocks
  <2>1. lo <= MaxLen \div ratio /\ MaxLen \div ratio \in Nat
    BY <1>4, DivMonotonic, ModFacts
  <2> QED
    BY <1>8, <2>1 DEF Blocks
<1>11. lo \in DOMAIN comp /\ lo \in DOMAIN keys /\ Blocks \subseteq DOMAIN comp' /\ Blocks \subseteq DOMAIN keys'
  BY <1>5, <1>10 DEF CompressorInv
<1>12. Emits(tok) => d.row = PoolOf(lo)
  BY <1>7
<1>13. /\ comp' = (IF Emits(tok) THEN [comp EXCEPT ![lo] = d.row] ELSE comp)
       /\ keys' = (IF layer.overlap /\ Emits(tok) THEN [keys EXCEPT ![lo] = d.row] ELSE keys)
  BY <1>5
<1> HIDE DEF lo, hi
<1>14. \A b \in 0..(hi - 1) : comp'[b] = PoolOf(b) /\ (layer.overlap => keys'[b] = PoolOf(b))
  <2>1. ASSUME NEW b \in 0..(hi - 1), b # lo \/ ~Emits(tok)
        PROVE  comp'[b] = PoolOf(b) /\ (layer.overlap => keys'[b] = PoolOf(b))
    <3>1. b \in 0..(lo - 1)
      BY <1>8, <2>1
    <3>2. comp'[b] = comp[b] /\ keys'[b] = keys[b]
      BY <1>13, <2>1
    <3> QED
      BY <1>9, <3>1, <3>2
  <2>2. ASSUME Emits(tok) PROVE comp'[lo] = PoolOf(lo) /\ (layer.overlap => keys'[lo] = PoolOf(lo))
    BY <1>11, <1>12, <1>13, <2>2
  <2> QED
    BY <2>1, <2>2
<1>15. PICK e \in Nat : e = tok + 1
  BY <1>4
<1>16. e <= MaxLen
  BY <1>4, <1>15
<1> QED
  BY <1>5, <1>7, <1>11, <1>14, <1>15, <1>16, NextCompressorInv DEF hi

\* Captured, a decode step does the same.
LEMMA GraphIsEager ==
  ASSUME RatioOK, NEW c, NEW tok
  PROVE  (IF layer.overlap THEN CompressorOverlapDecodeAtGraph(c, tok)
          ELSE CompressorNonoverlapDecodeAtGraph(c, tok)) = DecodeAt(c, tok)
BY DEF DecodeAt, CompressorOverlapDecodeAtGraph, CompressorNonoverlapDecodeAtGraph,
       CompressorOverlapDecodeAt, CompressorNonoverlapDecodeAt, Gated

LEMMA CompressorInvInit ==
  ASSUME Init
  PROVE  CompressorInv
<1>1. layer \in Layers /\ len = 0 /\ DOMAIN comp = Blocks /\ DOMAIN keys = Blocks
      /\ DOMAIN state = Routes /\ \A route \in Routes : state[route] = NoRow
  BY DEF Init, DsInit
<1>2. RatioOK /\ ratio \in Nat \ {0}
  BY <1>1, LayersHaveRatios DEF RatioOK
<1>3. 0 % ratio = 0 /\ 0 \div ratio = 0
  <2> DEFINE w == ratio
  <2> HIDE DEF w
  <2>1. w \in Nat \ {0}
    BY <1>2 DEF w
  <2>2. 0 = w * 0 + 0 /\ 0 \in 0..(w - 1) /\ 0 \in Nat /\ 0 \in Int
    BY <2>1
  <2>3. 0 % w = 0 /\ 0 \div w = 0
    BY <2>1, <2>2, DivUnique
  <2> QED
    BY <2>3 DEF w
<1>4. OpenBlock(state, len) /\ RowsCoverTheirTokens
  BY <1>1, <1>3 DEF OpenBlock, RowsCoverTheirTokens
<1>5. BlockBefore(state, len)
  <2>1. ASSUME layer.overlap, NEW i \in 0..(ratio - 1) PROVE i \in Routes
    BY <1>2, <2>1 DEF Routes
  <2> QED
    BY <1>1, <1>3, <2>1 DEF BlockBefore
<1> QED
  BY <1>1, <1>4, <1>5, DsAssumption DEF CompressorInv

LEMMA CompressorStutters ==
  ASSUME CompressorInv, UNCHANGED dsVars
  PROVE  CompressorInv'
<1>1. UNCHANGED <<layer, len, comp, keys, state>>
  BY DEF dsVars
<1>2. /\ ratio' = ratio /\ Offset' = Offset /\ Routes' = Routes /\ Blocks' = Blocks
      /\ \A b : PoolOf(b)' = PoolOf(b)
  BY <1>1, LayerIsFixed
<1>3. OpenBlock(state, len)' /\ BlockBefore(state, len)'
  BY <1>1, <1>2 DEF CompressorInv, OpenBlock, BlockBefore, Projected
<1>4. RowsCoverTheirTokens'
  BY <1>1, <1>2 DEF CompressorInv, RowsCoverTheirTokens
<1> QED
  BY <1>1, <1>2, <1>3, <1>4 DEF CompressorInv

LEMMA CompressorNext ==
  ASSUME CompressorInv, DsNext
  PROVE  CompressorInv'
<1>1. PICK careful, newest \in BOOLEAN :
        \/ \E n \in 1..LongestChunk, kernel \in {"sparse", "flashmla"} :
             \/ FirstPrefill(n, careful, newest, kernel)
             \/ ContinuedPrefill(n, careful, newest, kernel)
             \/ RingPrefill(n, careful, newest, kernel)
        \/ \E kernel \in {"sparse", "flashmla", "flashinfer"} :
             Decode(careful, newest, kernel) \/ DecodeGraph(careful, newest, kernel)
  BY DEF DsNext
<1>2. ASSUME NEW n \in 1..LongestChunk, NEW kernel, FirstPrefill(n, careful, newest, kernel)
      PROVE  CompressorInv'
  <2>1. Chunk(n, TRUE) /\ len = 0
    BY <1>2 DEF FirstPrefill
  <2>2. n \in Nat
    BY DsAssumption
  <2> QED
    BY <2>1, <2>2, ChunkKeepsRows
<1>3. ASSUME NEW n \in 1..LongestChunk, NEW kernel, ContinuedPrefill(n, careful, newest, kernel)
      PROVE  CompressorInv'
  <2>1. Chunk(n, FALSE)
    BY <1>3 DEF ContinuedPrefill
  <2>2. n \in Nat
    BY DsAssumption
  <2> QED
    BY <2>1, <2>2, ChunkKeepsRows
<1>4. ASSUME NEW n \in 1..LongestChunk, NEW kernel, RingPrefill(n, careful, newest, kernel)
      PROVE  CompressorInv'
  <2>1. Chunk(n, FALSE)
    BY <1>4 DEF RingPrefill
  <2>2. n \in Nat
    BY DsAssumption
  <2> QED
    BY <2>1, <2>2, ChunkKeepsRows
<1>5. ASSUME NEW kernel, Decode(careful, newest, kernel)
      PROVE  CompressorInv'
  BY <1>5, DecodedKeepsRows DEF Decode
<1>6. ASSUME NEW kernel, DecodeGraph(careful, newest, kernel)
      PROVE  CompressorInv'
  <2>1. PICK d : d = IF layer.overlap THEN CompressorOverlapDecodeAtGraph(Compressor, len)
                     ELSE CompressorNonoverlapDecodeAtGraph(Compressor, len)
    OBVIOUS
  <2>2. ASSUME NEW c, NEW tok, c = Compressor, tok = len
        PROVE  d = DecodeAt(c, tok)
    BY <2>1, <2>2, GraphIsEager, LayersHaveRatios DEF CompressorInv
  <2>3. d = DecodeAt(Compressor, len)
    BY <2>2
  <2>4. Decoded(d)
    BY <1>6, <2>1 DEF DecodeGraph
  <2> QED
    BY <2>3, <2>4, DecodedKeepsRows
<1> QED
  BY <1>1, <1>2, <1>3, <1>4, <1>5, <1>6

\* Every complete block has its row, for every ratio, every length of the sequence
\* and every way in which the tokens came: first and continued prefills, chunks
\* into the ring and decode steps, eager or captured.
THEOREM RowsAlwaysCover == Spec => []RowsCoverTheirTokens
<1>1. Init => CompressorInv
  BY CompressorInvInit
<1>2. CompressorInv /\ [Next]_allVars => CompressorInv'
  BY CompressorNext, CompressorStutters DEF Next, allVars
<1>3. CompressorInv => RowsCoverTheirTokens
  BY DEF CompressorInv
<1> QED
  BY <1>1, <1>2, <1>3, PTL DEF Spec

-------------------------------------------------------------------------------
(* What a query reads.  The window's part of an index list names, entry by   *)
(* entry, the rows of the window's tokens, the oldest first; the other part  *)
(* names rows of distinct complete blocks.  Entries past them are -1.        *)

\* The oldest token in the window of a position.
Oldest(pos) == IF pos < Window THEN 0 ELSE pos - (Window - 1)

NamesWindow(kv, w, pos) ==
  /\ w \in Seq(Int) /\ Len(w) = Window
  /\ \A i \in 1..Window :
       IF Oldest(pos) + i - 1 <= pos
       THEN w[i] \in 0..(Len(kv) - 1) /\ kv[w[i] + 1] = Kv(Oldest(pos) + i - 1)
       ELSE w[i] = -1

\* The blocks an index list names, in the order in which it does.
PicksBlocks(b, pos, picked) ==
  /\ b \in [1..picked -> 0..(Complete(pos) - 1)]
  /\ \A i, j \in 1..picked : b[i] = b[j] => i = j

NamesBlocks(kv, c, b, offset, picked) ==
  /\ c \in Seq(Int) /\ picked <= Len(c)
  /\ \A i \in 1..Len(c) :
       IF i <= picked
       THEN c[i] = offset + b[i] /\ c[i] \in 0..(Len(kv) - 1) /\ kv[c[i] + 1] = PoolOf(b[i])
       ELSE c[i] = -1

\* How many blocks a query at a position attends to.
Attended(pos) == IF layer.overlap /\ IndexTopk <= Complete(pos) THEN IndexTopk ELSE Complete(pos)

\* AttendsExactlyItsContext, of one query.
ReadsItsContext(query) ==
  LET pos == query.pos
      near == {Kv(tok) : tok \in Max({0, pos - Window + 1})..pos}
      blocks == {PoolOf(c) : c \in 0..(Complete(pos) - 1)}
      picked == IF layer.overlap THEN Min({IndexTopk, Cardinality(blocks)}) ELSE Cardinality(blocks)
      got == Range(query.rows)
  IN /\ near \subseteq got /\ got \subseteq near \cup blocks
     /\ IsInjective(query.rows)
     /\ Cardinality(got \ near) = picked

LEMMA EveryQuery ==
  AttendsExactlyItsContext <=> read = Refused \/ \A q \in DOMAIN read : ReadsItsContext(read[q])
BY DEF AttendsExactlyItsContext, ReadsItsContext

EntriesOf(f, n) == {f[i] : i \in 1..n}

Unlike(f, n) == \A i, j \in 1..n : f[i] = f[j] => i = j

\* The rows that are read of an injective list are as many as its entries.
LEMMA CountListed ==
  ASSUME NEW n \in Nat, NEW f, Unlike(f, n)
  PROVE  Cardinality(EntriesOf(f, n)) = n
<1> DEFINE T == {f[i] : i \in 1..n}
           g == [i \in 1..n |-> f[i]]
<1>1. g \in Bijection(1..n, T)
  <2>1. g \in [1..n -> T]
    OBVIOUS
  <2>2. g \in Injection(1..n, T)
    BY <2>1 DEF Injection, IsInjective, Unlike
  <2>3. g \in Surjection(1..n, T)
    BY <2>1 DEF Surjection
  <2> QED
    BY <2>2, <2>3 DEF Bijection
<1> HIDE DEF T, g
<1>2. ExistsBijection(1..n, T)
  BY <1>1 DEF ExistsBijection
<1>3. IsFiniteSet(1..n) /\ Cardinality(1..n) = n
  <2>1. IsFiniteSet(1..n) /\ Cardinality(1..n) = IF 1 > n THEN 0 ELSE n - 1 + 1
    BY FS_Interval
  <2> QED
    BY <2>1
<1>4. Cardinality(T) = n
  BY <1>2, <1>3, FS_Bijection
<1> QED
  BY <1>4 DEF T, EntriesOf

LEMMA LargerOf ==
  ASSUME NEW x \in Int, NEW y \in Int
  PROVE  Max({x, y}) = IF x <= y THEN y ELSE x
BY DEF Max

\* Rows of different blocks differ, and none is a row of the window.
LEMMA PoolsApart ==
  ASSUME RatioOK, NEW b \in Nat, NEW c \in Nat, PoolOf(b) = PoolOf(c)
  PROVE  b = c
<1>1. ratio \in Nat \ {0}
  BY DEF RatioOK
<1> DEFINE FirstToken(x) == IF layer.overlap THEN PoolOf(x).pool[ratio] ELSE PoolOf(x).pool[0]
<1>2. ASSUME NEW x \in Nat PROVE FirstToken(x) = Projected(x * ratio, 0)
  <2>1. Block(x * ratio)[0] = Projected(x * ratio, 0)
    <3>1. 0 \in 0..(ratio - 1)
      BY <1>1
    <3>2. Block(x * ratio)[0] = Projected(x * ratio + 0, 0)
      BY <3>1 DEF Block
    <3>3. x * ratio + 0 = x * ratio
      BY <1>1
    <3> QED
      BY <3>2, <3>3
  <2>2. CASE ~layer.overlap
    BY <2>1, <2>2 DEF PoolOf, Pool
  <2>3. CASE layer.overlap
    <3>1. PICK before : PoolOf(x) = Pool(Overlapping(before, Block(x * ratio)))
      BY <2>3 DEF PoolOf
    <3>2. ratio \in 0..(2 * ratio - 1) /\ ~(ratio < ratio) /\ ratio - ratio = 0
      BY <1>1
    <3>3. Overlapping(before, Block(x * ratio))[ratio] = Block(x * ratio)[0]
      BY <3>2 DEF Overlapping
    <3> QED
      BY <2>1, <2>3, <3>1, <3>3 DEF Pool
  <2> QED
    BY <2>2, <2>3
<1>3. Projected(b * ratio, 0) = Projected(c * ratio, 0)
  BY <1>2
<1> HIDE DEF FirstToken
<1>4. b * ratio = c * ratio
  BY <1>3 DEF Projected
<1>5. PICK w \in Nat \ {0} : w = ratio
  BY <1>1
<1>6. w * (b - c) = 0
  BY <1>4, <1>5
<1>7. CASE b > c
  <2>1. w * (b - c) >= w
    BY <1>5, <1>7
  <2> QED
    BY <1>6, <2>1
<1>8. CASE c > b
  <2>1. w * (c - b) >= w /\ w * (c - b) = -(w * (b - c))
    BY <1>5, <1>8
  <2> QED
    BY <1>6, <2>1
<1> QED
  BY <1>7, <1>8

LEMMA NoPoolIsKv == \A b, tok : PoolOf(b) # Kv(tok)
<1>1. ASSUME NEW b PROVE DOMAIN PoolOf(b) = {"pool"}
  BY DEF PoolOf, Pool
<1>2. ASSUME NEW tok PROVE DOMAIN Kv(tok) = {"kv"}
  BY DEF Kv
<1> QED
  BY <1>1, <1>2

\* The list of a query: its window's part and the blocks' part.
ListOf(idx, w, c) == w \in Seq(Int) /\ c \in Seq(Int) /\ Len(w) = Window /\ idx = ConcatTopkIndices(w, c)

LEMMA Listed ==
  ASSUME Window \in Nat \ {0}, NEW w, NEW c, NEW idx, ListOf(idx, w, c)
  PROVE  /\ idx \in Seq(Int) /\ Len(idx) = Window + Len(c) /\ DOMAIN idx = 1..(Window + Len(c))
         /\ \A i \in 1..Window : idx[i] = w[i]
         /\ \A i \in 1..Len(c) : idx[Window + i] = c[i]
<1>1. idx = w \o c /\ w \in Seq(Int) /\ c \in Seq(Int) /\ Len(w) = Window
  BY DEF ConcatTopkIndices, ListOf
<1>2. Len(c) \in Nat /\ Window \in Nat
  BY <1>1
<1>3. idx \in Seq(Int) /\ Len(idx) = Window + Len(c)
  <2>1. ASSUME NEW u \in Seq(Int), NEW v \in Seq(Int)
        PROVE  u \o v \in Seq(Int) /\ Len(u \o v) = Len(u) + Len(v)
    OBVIOUS
  <2> QED
    BY <1>1, <2>1
<1>4. DOMAIN idx = 1..(Window + Len(c))
  BY <1>3
<1>5. ASSUME NEW i \in 1..(Window + Len(c))
      PROVE  idx[i] = IF i <= Window THEN w[i] ELSE c[i - Window]
  BY <1>1, <1>2, <1>5
<1>6. ASSUME NEW i \in 1..Window PROVE idx[i] = w[i]
  BY <1>2, <1>5, <1>6
<1>7. ASSUME NEW i \in 1..Len(c) PROVE idx[Window + i] = c[i]
  <2>1. Window + i \in 1..(Window + Len(c)) /\ ~(Window + i <= Window) /\ (Window + i) - Window = i
    BY <1>2
  <2> QED
    BY <1>5, <2>1
<1> QED
  BY <1>3, <1>4, <1>6, <1>7

LEMMA CompleteType ==
  ASSUME RatioOK, NEW pos \in Nat
  PROVE  Complete(pos) \in Nat
<1>1. PICK w \in Nat \ {0} : w = ratio
  BY DEF RatioOK
<1>2. (pos + 1) \div w \in Nat
  BY ModFacts
<1> QED
  BY <1>1, <1>2 DEF Complete

LEMMA RowsListed ==
  ASSUME RatioOK, Window \in Nat \ {0}, IndexTopk \in Nat \ {0}, NEW pos \in Nat, NEW kv, Len(kv) \in Nat,
         NEW w, NEW c, NEW b, NEW offset \in Int,
         NamesWindow(kv, w, pos), PicksBlocks(b, pos, Attended(pos)), NamesBlocks(kv, c, b, offset, Attended(pos)),
         NEW query, query = [pos |-> pos, rows |-> Rows(kv, ConcatTopkIndices(w, c))]
  PROVE  ReadsItsContext(query)
<1>1. PICK idx : idx = ConcatTopkIndices(w, c)
  OBVIOUS
<1>2. PICK rows : rows = Rows(kv, idx)
  OBVIOUS
<1>3. /\ DOMAIN idx = 1..(Window + Len(c)) /\ Len(c) \in Nat
      /\ \A i \in 1..Window : idx[i] = w[i]
      /\ \A i \in 1..Len(c) : idx[Window + i] = c[i]
  <2>1. w \in Seq(Int) /\ c \in Seq(Int) /\ Len(w) = Window
    BY DEF NamesWindow, NamesBlocks
  <2>2. /\ DOMAIN idx = 1..(Window + Len(c))
        /\ \A i \in 1..Window : idx[i] = w[i]
        /\ \A i \in 1..Len(c) : idx[Window + i] = c[i]
    <3>1. ListOf(idx, w, c)
      BY <1>1, <2>1 DEF ListOf
    <3> QED
      BY <3>1, Listed
  <2>3. Len(c) \in Nat
    BY <2>1
  <2> QED
    BY <2>2, <2>3
<1>4. PICK K \in Nat : K = Complete(pos)
  BY CompleteType
<1>5. PICK picked \in 0..K : picked = Attended(pos)
  BY <1>4 DEF Attended
<1>6. PICK first \in 0..pos : first = Oldest(pos) /\ pos - first < Window
                              /\ \A tok \in Nat : tok <= pos /\ pos - tok < Window => first <= tok
  <2>1. Oldest(pos) \in 0..pos /\ pos - Oldest(pos) < Window
        /\ \A tok \in Nat : tok <= pos /\ pos - tok < Window => Oldest(pos) <= tok
    BY DEF Oldest
  <2> QED
    BY <2>1
<1> DEFINE InW(e) == e \in 1..Window /\ first + e - 1 <= pos
           InB(e) == e > Window /\ e - Window \in 1..picked
<1>7. /\ b \in [1..picked -> 0..(K - 1)] /\ \A i, j \in 1..picked : b[i] = b[j] => i = j
      /\ picked <= Len(c)
  BY <1>4, <1>5 DEF PicksBlocks, NamesBlocks
<1>8. ASSUME NEW e \in DOMAIN rows
      PROVE  /\ e \in Nat
             /\ \/ InW(e) /\ rows[e] = Kv(first + e - 1)
                \/ InB(e) /\ rows[e] = PoolOf(b[e - Window])
  <2>1. e \in 1..(Window + Len(c)) /\ idx[e] \in 0..(Len(kv) - 1) /\ rows[e] = kv[idx[e] + 1]
    BY <1>2, <1>3 DEF Rows
  <2>2. CASE e <= Window
    <3>1. e \in 1..Window /\ idx[e] = w[e] /\ w[e] # -1
      BY <1>3, <2>1, <2>2
    <3>2. first + e - 1 <= pos /\ kv[w[e] + 1] = Kv(first + e - 1)
      BY <1>6, <3>1 DEF NamesWindow
    <3>3. rows[e] = Kv(first + e - 1)
      BY <2>1, <3>1, <3>2
    <3>4. e \in Nat
      BY <3>1
    <3> QED
      BY <3>1, <3>2, <3>3, <3>4
  <2>3. CASE e > Window
    <3>1. PICK i \in 1..Len(c) : i = e - Window
      BY <1>3, <2>1, <2>3
    <3>2. idx[e] = c[i] /\ c[i] # -1 /\ e = Window + i
      <4>1. e = Window + i
        BY <2>1, <3>1
      <4>2. idx[Window + i] = c[i]
        BY <1>3
      <4>3. idx[e] # -1
        BY <2>1
      <4> QED
        BY <4>1, <4>2, <4>3
    <3>3. i <= picked /\ kv[c[i] + 1] = PoolOf(b[i])
      BY <1>5, <3>2 DEF NamesBlocks
    <3>4. e - Window = i /\ i \in 1..picked /\ e \in Nat
      BY <1>3, <2>1, <3>1, <3>3
    <3> QED
      BY <2>1, <2>3, <3>2, <3>3, <3>4
  <2>4. e \in Nat /\ (e <= Window \/ e > Window)
    BY <1>3, <2>1
  <2> HIDE DEF InW, InB
  <2>5. CASE e <= Window
    BY <2>2, <2>4, <2>5
  <2>6. CASE e > Window
    BY <2>3, <2>4, <2>6
  <2> QED
    BY <2>4, <2>5, <2>6
<1>9. ASSUME NEW tok \in first..pos
      PROVE  Kv(tok) \in Range(rows)
  <2>1. PICK e \in 1..Window : e = tok - first + 1
    BY <1>6
  <2>2. first + e - 1 = tok /\ first + e - 1 <= pos
    BY <2>1, <1>6, SMTT(30)
  <2>3. w[e] \in 0..(Len(kv) - 1) /\ kv[w[e] + 1] = Kv(tok)
    BY <1>6, <2>1, <2>2 DEF NamesWindow
  <2>4. e \in DOMAIN idx /\ idx[e] = w[e]
    BY <1>3, <2>1
  <2>5. e \in DOMAIN rows /\ rows[e] = Kv(tok)
    BY <1>2, <2>3, <2>4 DEF Rows
  <2> QED
    BY <2>5 DEF Range
<1>10. ASSUME NEW i \in 1..picked
       PROVE  PoolOf(b[i]) \in Range(rows)
  <2>1. i \in 1..Len(c)
    BY <1>3, <1>7
  <2>2. c[i] \in 0..(Len(kv) - 1) /\ kv[c[i] + 1] = PoolOf(b[i])
    BY <1>5, <2>1 DEF NamesBlocks
  <2>3. Window + i \in DOMAIN idx /\ idx[Window + i] = c[i]
    BY <1>3, <2>1
  <2>4. Window + i \in DOMAIN rows /\ rows[Window + i] = PoolOf(b[i])
    BY <1>2, <2>2, <2>3 DEF Rows
  <2> QED
    BY <2>4 DEF Range
<1> DEFINE near == {Kv(tok) : tok \in Max({0, pos - Window + 1})..pos}
           blocks == {PoolOf(x) : x \in 0..(K - 1)}
           chosen == {PoolOf(b[i]) : i \in 1..picked}
           got == Range(rows)
<1>11. near = {Kv(tok) : tok \in first..pos}
  <2>1. Max({0, pos - Window + 1}) = IF 0 <= pos - Window + 1 THEN pos - Window + 1 ELSE 0
    BY LargerOf
  <2>2. Max({0, pos - Window + 1}) = first
    BY <1>6, <2>1 DEF Oldest
  <2> QED
    BY <2>2
<1>12. near \subseteq got
  BY <1>9, <1>11
<1>13. got \subseteq near \cup chosen
  <2>1. ASSUME NEW e \in DOMAIN rows PROVE rows[e] \in near \cup chosen
    <3>1. CASE InW(e) /\ rows[e] = Kv(first + e - 1)
      <4>1. first + e - 1 \in first..pos
        BY <3>1
      <4> QED
        BY <1>11, <3>1, <4>1
    <3>2. CASE InB(e) /\ rows[e] = PoolOf(b[e - Window])
      BY <3>2
    <3> QED
      BY <1>8, <3>1, <3>2
  <2> QED
    BY <2>1 DEF Range
<1>14. chosen \subseteq blocks /\ chosen \subseteq got
  BY <1>7, <1>10
<1>15. chosen \cap near = {}
  BY NoPoolIsKv
<1>16. IsInjective(rows)
  <2>1. ASSUME NEW e \in DOMAIN rows, NEW f \in DOMAIN rows, rows[e] = rows[f]
        PROVE  e = f
    <3>1. CASE InW(e) /\ rows[e] = Kv(first + e - 1)
      <4>1. InW(f) /\ rows[f] = Kv(first + f - 1)
        BY <1>8, <2>1, <3>1, NoPoolIsKv
      <4>2. first + e - 1 = first + f - 1
        <5>1. Kv(first + e - 1) = Kv(first + f - 1)
          BY <2>1, <3>1, <4>1
        <5>2. ASSUME NEW s, NEW t, Kv(s) = Kv(t) PROVE s = t
          BY <5>2 DEF Kv
        <5> QED
          BY <5>1, <5>2
      <4> QED
        BY <3>1, <4>1, <4>2
    <3>2. CASE InB(e) /\ rows[e] = PoolOf(b[e - Window])
      <4>1. InB(f) /\ rows[f] = PoolOf(b[f - Window])
        BY <1>8, <2>1, <3>2, NoPoolIsKv
      <4>2. b[e - Window] \in 0..(K - 1) /\ b[f - Window] \in 0..(K - 1)
        BY <1>7, <3>2, <4>1
      <4>3. b[e - Window] = b[f - Window]
        <5>1. PICK s \in Nat : s = b[e - Window]
          BY <4>2
        <5>2. PICK t \in Nat : t = b[f - Window]
          BY <4>2
        <5>3. PoolOf(s) = PoolOf(t)
          BY <2>1, <3>2, <4>1, <5>1, <5>2
        <5> QED
          BY <5>1, <5>2, <5>3, PoolsApart
      <4>4. e - Window = f - Window
        BY <1>7, <3>2, <4>1, <4>3
      <4> QED
        BY <1>8, <4>4
    <3> QED
      BY <1>8, <3>1, <3>2
  <2> QED
    BY <2>1 DEF IsInjective
<1> HIDE DEF InW, InB, near, blocks, chosen, got
<1>17. got \ near = chosen
  BY <1>13, <1>14, <1>15
<1>18. Cardinality(chosen) = picked
  <2>1. PICK f : f = [i \in 1..picked |-> PoolOf(b[i])]
    OBVIOUS
  <2>2. ASSUME NEW i \in 1..picked, NEW j \in 1..picked, f[i] = f[j] PROVE i = j
    <3>1. b[i] \in 0..(K - 1) /\ b[j] \in 0..(K - 1)
      BY <1>7
    <3>2. b[i] = b[j]
      BY <2>1, <2>2, <3>1, PoolsApart
    <3> QED
      BY <1>7, <3>2
  <2>3. chosen = {f[i] : i \in 1..picked}
    BY <2>1 DEF chosen
  <2>4. Unlike(f, picked) /\ chosen = EntriesOf(f, picked)
    BY <2>2, <2>3 DEF Unlike, EntriesOf
  <2>5. picked \in Nat
    OBVIOUS
  <2> QED
    BY <2>4, <2>5, CountListed
<1>19. Cardinality(blocks) = K
  <2>1. PICK f : f = [i \in 1..K |-> PoolOf(i - 1)]
    OBVIOUS
  <2>2. ASSUME NEW i \in 1..K, NEW j \in 1..K, f[i] = f[j] PROVE i = j
    <3>1. PoolOf(i - 1) = PoolOf(j - 1) /\ i - 1 \in Nat /\ j - 1 \in Nat
      BY <2>1, <2>2
    <3>2. i - 1 = j - 1
      BY <3>1, PoolsApart
    <3> QED
      BY <3>2
  <2>3. blocks = {f[i] : i \in 1..K}
    <3>1. ASSUME NEW x \in 0..(K - 1) PROVE x + 1 \in 1..K /\ f[x + 1] = PoolOf(x)
      BY <2>1
    <3>2. ASSUME NEW i \in 1..K PROVE i - 1 \in 0..(K - 1) /\ f[i] = PoolOf(i - 1)
      BY <2>1
    <3>3. {f[i] : i \in 1..K} \subseteq blocks
      BY <3>2 DEF blocks
    <3>4. blocks \subseteq {f[i] : i \in 1..K}
      BY <3>1 DEF blocks
    <3> QED
      BY <3>3, <3>4
  <2>4. Unlike(f, K) /\ blocks = EntriesOf(f, K)
    BY <2>2, <2>3 DEF Unlike, EntriesOf
  <2>5. K \in Nat
    OBVIOUS
  <2> QED
    BY <2>4, <2>5, CountListed
<1>20. Cardinality(got \ near) = IF layer.overlap THEN Min({IndexTopk, Cardinality(blocks)}) ELSE Cardinality(blocks)
  <2>1. Min({IndexTopk, K}) = IF IndexTopk <= K THEN IndexTopk ELSE K
    BY SmallerOf
  <2>2. picked = IF layer.overlap THEN Min({IndexTopk, K}) ELSE K
    BY <1>4, <1>5, <2>1 DEF Attended
  <2> QED
    BY <1>17, <1>18, <1>19, <2>2
<1>21. query.pos = pos /\ query.rows = rows
  BY <1>1, <1>2
<1> QED
  BY <1>4, <1>12, <1>13, <1>14, <1>16, <1>20, <1>21 DEF ReadsItsContext, near, blocks, chosen, got

\* The kernels read the same rows: FlashMLA's padding names none, and FlashInfer's
\* segments, the second with indices of its own, are parts of one cache.
LEMMA PaddingNamesNone ==
  ASSUME NEW kv, Len(kv) \in Nat, NEW idx \in Seq(Int)
  PROVE  FlashMlaPrefill(kv, idx) = Rows(kv, idx)
<1>1. PICK n \in Nat : n = Len(idx)
  OBVIOUS
<1>2. PICK padded : padded = idx \o <<-1>>
  OBVIOUS
<1>3. /\ DOMAIN idx = 1..n /\ DOMAIN padded = 1..(n + 1) /\ padded[n + 1] = -1
      /\ \A e \in 1..n : padded[e] = idx[e]
  BY <1>1, <1>2
<1> DEFINE Valid(list) == {e \in DOMAIN list : list[e] \in 0..(Len(kv) - 1)}
<1>4. Valid(padded) = Valid(idx)
  <2>1. ASSUME NEW e \in 1..(n + 1), padded[e] \in 0..(Len(kv) - 1) PROVE e \in 1..n
    BY <1>3, <2>1
  <2> QED
    BY <1>3, <2>1
<1>5. \A e \in Valid(idx) : padded[e] = idx[e]
  BY <1>3
<1> HIDE DEF Valid
<1>6. Rows(kv, padded) = Rows(kv, idx)
  <2>1. Rows(kv, padded) = [e \in Valid(padded) |-> kv[padded[e] + 1]]
    BY DEF Rows, Valid
  <2>2. Rows(kv, idx) = [e \in Valid(idx) |-> kv[idx[e] + 1]]
    BY DEF Rows, Valid
  <2> QED
    BY <1>4, <1>5, <2>1, <2>2
<1> QED
  BY <1>2, <1>6 DEF FlashMlaPrefill

LEMMA SegmentsOfOneCache ==
  ASSUME Window \in Nat \ {0}, NEW S, NEW kv \in Seq(S), Window <= Len(kv),
         NEW w, NEW c, NEW idx, ListOf(idx, w, c),
         \A i \in 1..Len(c) : c[i] < 0 \/ c[i] >= Window
  PROVE  FlashInferSm120(kv, idx) = Rows(kv, idx)
<1>1. /\ idx \in Seq(Int) /\ Len(idx) = Window + Len(c) /\ DOMAIN idx = 1..(Window + Len(c))
      /\ \A i \in 1..Window : idx[i] = w[i]
      /\ \A i \in 1..Len(c) : idx[Window + i] = c[i]
  BY Listed
<1>2. PICK m \in Nat : m = Len(c)
  BY DEF ListOf
<1>3. PICK N \in Nat : N = Len(kv) /\ Window <= N
  OBVIOUS
<1>4. PICK first : first = SubSeq(idx, 1, Window)
  OBVIOUS
<1>5. PICK rest : rest = SubSeq(kv, Window + 1, N)
  OBVIOUS
<1>6. PICK extra : extra = [k \in 1..m |-> ToLocal(idx[Window + k])]
  OBVIOUS
<1>7. DOMAIN first = 1..Window /\ \A e \in 1..Window : first[e] = idx[e]
  BY <1>1, <1>2, <1>4
<1>8. Len(rest) = N - Window /\ \A e \in 1..(N - Window) : rest[e] = kv[Window + e]
  <2>1. \A s \in 1..(N + 1), t \in 0..N : t >= s - 1 =>
          Len(SubSeq(kv, s, t)) = t - s + 1 /\ \A e \in 1..(t - s + 1) : SubSeq(kv, s, t)[e] = kv[s + e - 1]
    BY <1>3
  <2>2. Window + 1 \in 1..(N + 1) /\ N \in 0..N /\ N >= (Window + 1) - 1 /\ N - (Window + 1) + 1 = N - Window
    BY <1>3
  <2>3. Len(rest) = N - Window /\ \A e \in 1..(N - Window) : rest[e] = kv[(Window + 1) + e - 1]
    BY <1>5, <2>1, <2>2
  <2>4. \A e \in 1..(N - Window) : (Window + 1) + e - 1 = Window + e
    BY <1>3
  <2> QED
    BY <2>3, <2>4
<1> DEFINE A == Rows(kv, first)
           B == Rows(rest, extra)
           R == Rows(kv, idx)
<1>9. FlashInferSm120(kv, idx) = Over(A, From(Window, B))
  <2>1. 1..(Len(idx) - Window) = 1..m
    BY <1>1, <1>2
  <2> QED
    BY <1>3, <1>4, <1>5, <1>6, <2>1 DEF FlashInferSm120
<1>10. /\ DOMAIN A = {e \in 1..Window : idx[e] \in 0..(N - 1)}
       /\ \A e \in DOMAIN A : A[e] = kv[idx[e] + 1]
  BY <1>3, <1>7 DEF Rows
<1>11. ASSUME NEW k \in 1..m
       PROVE  /\ extra[k] \in 0..(N - Window - 1) <=> idx[Window + k] \in 0..(N - 1)
              /\ extra[k] \in 0..(N - Window - 1) => Window + extra[k] = idx[Window + k]
  <2>1. idx[Window + k] = c[k] /\ c[k] \in Int /\ (c[k] < 0 \/ c[k] >= Window)
    BY <1>1, <1>2 DEF ListOf
  <2>2. extra[k] = IF c[k] < 0 THEN -1 ELSE c[k] - Window
    BY <1>6, <2>1 DEF ToLocal
  <2> QED
    BY <1>3, <2>1, <2>2
<1>12. /\ DOMAIN B = {k \in 1..m : idx[Window + k] \in 0..(N - 1)}
       /\ \A k \in DOMAIN B : B[k] = kv[idx[Window + k] + 1]
  <2>1. DOMAIN extra = 1..m
    BY <1>6
  <2>2. DOMAIN B = {k \in 1..m : extra[k] \in 0..(N - Window - 1)}
    BY <1>8, <2>1 DEF Rows
  <2>3. ASSUME NEW k \in 1..m, extra[k] \in 0..(N - Window - 1)
        PROVE  B[k] = kv[idx[Window + k] + 1]
    <3>1. B[k] = rest[extra[k] + 1]
      BY <1>8, <2>1, <2>3 DEF Rows
    <3>2. extra[k] + 1 \in 1..(N - Window) /\ Window + (extra[k] + 1) = idx[Window + k] + 1
      <4>1. PICK x \in 0..(N - Window - 1) : x = extra[k]
        BY <2>3
      <4>2. Window + x = idx[Window + k]
        BY <1>11, <2>3, <4>1
      <4>3. x + 1 \in 1..(N - Window) /\ Window + (x + 1) = (Window + x) + 1
        BY <1>3
      <4> QED
        BY <4>1, <4>2, <4>3
    <3> QED
      BY <1>8, <3>1, <3>2
  <2> HIDE DEF B
  <2> QED
    BY <1>11, <2>2, <2>3
<1>13. /\ DOMAIN R = {e \in 1..(Window + m) : idx[e] \in 0..(N - 1)}
       /\ R = [e \in DOMAIN R |-> kv[idx[e] + 1]]
  BY <1>1, <1>2, <1>3 DEF Rows
<1> HIDE DEF A, B, R
<1>14. PICK F : F = From(Window, B)
  OBVIOUS
<1>15. /\ DOMAIN F = {Window + k : k \in DOMAIN B}
       /\ \A k \in DOMAIN B : F[Window + k] = kv[idx[Window + k] + 1]
  <2>1. DOMAIN F = {Window + k : k \in DOMAIN B} /\ \A e \in DOMAIN F : F[e] = B[e - Window]
    BY <1>14 DEF From
  <2>2. \A k \in DOMAIN B : Window + k \in DOMAIN F /\ (Window + k) - Window = k
    BY <1>12, <2>1
  <2> QED
    BY <1>12, <2>1, <2>2
<1>16. DOMAIN R = DOMAIN A \cup DOMAIN F
  <2>1. ASSUME NEW e \in DOMAIN R PROVE e \in DOMAIN A \cup DOMAIN F
    <3>1. CASE e <= Window
      BY <1>10, <1>13, <3>1
    <3>2. CASE e > Window
      <4>1. PICK k \in 1..m : e = Window + k
        <5>1. e - Window \in 1..m /\ e = Window + (e - Window)
          BY <1>13, <3>2
        <5> QED
          BY <5>1
      <4>2. k \in DOMAIN B
        BY <1>12, <1>13, <4>1
      <4> QED
        BY <1>15, <4>1, <4>2
    <3> QED
      BY <1>13, <3>1, <3>2
  <2>2. ASSUME NEW e \in DOMAIN A PROVE e \in DOMAIN R
    BY <1>10, <1>13
  <2>3. ASSUME NEW k \in DOMAIN B PROVE Window + k \in DOMAIN R
    BY <1>12, <1>13
  <2> QED
    BY <1>15, <2>1, <2>2, <2>3
<1>17. ASSUME NEW e \in DOMAIN R
       PROVE  Over(A, F)[e] = kv[idx[e] + 1]
  <2>1. CASE e \in DOMAIN A
    BY <1>10, <2>1 DEF Over
  <2>2. CASE e \notin DOMAIN A
    <3>1. PICK k \in DOMAIN B : e = Window + k
      BY <1>15, <1>16, <2>2
    <3>2. F[e] = kv[idx[e] + 1] /\ e \in DOMAIN F
      BY <1>15, <3>1
    <3> QED
      BY <2>2, <3>2 DEF Over
  <2> QED
    BY <2>1, <2>2
<1>18. Over(A, F) = [e \in DOMAIN R |-> Over(A, F)[e]]
  BY <1>16 DEF Over
<1>19. Over(A, F) = R
  BY <1>13, <1>17, <1>18
<1> QED
  BY <1>9, <1>14, <1>19 DEF R

-------------------------------------------------------------------------------
(* The index kernels.                                                        *)

LEMMA CountEntries ==
  ASSUME NEW a \in Int, NEW b \in Int
  PROVE  Cardinality(a..b) = IF a > b THEN 0 ELSE b - a + 1
BY FS_Interval

LEMMA ListOfEntries ==
  ASSUME NEW n \in Nat, NEW f, DOMAIN f = Entries(n), \A x \in Entries(n) : f[x] \in Int,
         NEW list, list = Indices(f)
  PROVE  list \in Seq(Int) /\ Len(list) = n /\ \A i \in 1..n : i - 1 \in Entries(n) /\ list[i] = f[i - 1]
<1>1. Cardinality(DOMAIN f) = n
  <2>1. Cardinality(0..(n - 1)) = n
    <3>1. Cardinality(0..(n - 1)) = IF 0 > n - 1 THEN 0 ELSE (n - 1) - 0 + 1
      BY CountEntries
    <3> QED
      BY <3>1
  <2> QED
    BY <2>1 DEF Entries
<1>2. list = [i \in 1..n |-> f[i - 1]]
  BY <1>1 DEF Indices
<1>3. \A i \in 1..n : i - 1 \in Entries(n)
  BY DEF Entries
<1>4. \A i \in 1..n : list[i] \in Int /\ list[i] = f[i - 1]
  BY <1>2, <1>3
<1>5. list \in [1..n -> Int]
  BY <1>2, <1>4
<1>6. list \in Seq(Int) /\ Len(list) = n
  BY <1>5
<1> QED
  BY <1>3, <1>4, <1>6

\* The rows of tokens lie in order at the start of what is read ...
InOrder(kv, start, total) ==
  /\ total <= Len(kv)
  /\ \A i \in 1..total : kv[i] = Kv(start + i - 1)

\* ... or the ring does, with those of a query's window.
InRing(kv, pos) ==
  /\ Window <= Len(kv)
  /\ \A tok \in Oldest(pos)..pos : kv[(tok % Window) + 1] = Kv(tok)

LEMMA OldestToken ==
  ASSUME Window \in Nat \ {0}, NEW pos \in Nat
  PROVE  /\ Oldest(pos) \in 0..pos /\ pos - Oldest(pos) < Window
         /\ pos < Window => Oldest(pos) = 0
         /\ pos >= Window - 1 => Oldest(pos) = pos - (Window - 1)
BY DEF Oldest

LEMMA ChronoWindow ==
  ASSUME Window \in Nat \ {0}, NEW pos \in Nat, NEW start \in Nat, NEW total \in Nat,
         start <= Oldest(pos), pos < start + total,
         NEW kv, Len(kv) \in Nat, InOrder(kv, start, total)
  PROVE  NamesWindow(kv, WindowTopkIndicesChrono(pos, start, total), pos)
<1>1. PICK w : w = WindowTopkIndicesChrono(pos, start, total)
  OBVIOUS
<1>2. PICK first \in 0..pos : first = Oldest(pos) /\ start <= first
  BY OldestToken
<1> DEFINE Entry(x) == LET key == first + x
                       IN IF key > pos \/ key < start \/ key >= start + total THEN -1 ELSE key - start
           f == [x \in Entries(Window) |-> Entry(x)]
<1>3. w = Indices(f)
  BY <1>1, <1>2 DEF WindowTopkIndicesChrono, Oldest
<1>4. \A x \in Entries(Window) : x \in Nat /\ f[x] \in Int /\ f[x] = IF first + x <= pos THEN first + x - start ELSE -1
  BY <1>2 DEF Entries
<1>5. DOMAIN f = Entries(Window)
  OBVIOUS
<1> HIDE DEF f
<1>6. w \in Seq(Int) /\ Len(w) = Window /\ \A i \in 1..Window : i - 1 \in Entries(Window) /\ w[i] = f[i - 1]
  <2>1. \A x \in Entries(Window) : f[x] \in Int
    BY <1>4
  <2>2. Window \in Nat
    OBVIOUS
  <2> QED
    BY <1>3, <1>5, <2>1, <2>2, ListOfEntries
<1>7. ASSUME NEW i \in 1..Window
      PROVE  IF Oldest(pos) + i - 1 <= pos
             THEN w[i] \in 0..(Len(kv) - 1) /\ kv[w[i] + 1] = Kv(Oldest(pos) + i - 1)
             ELSE w[i] = -1
  <2>1. w[i] = IF first + (i - 1) <= pos THEN first + (i - 1) - start ELSE -1
    BY <1>4, <1>6
  <2>2. PICK tok \in Nat : tok = first + i - 1
    BY <1>2
  <2>3. CASE tok <= pos
    <3>a. first \in Int /\ i \in Int /\ tok = first + (i - 1) /\ start <= tok
      BY <1>2, <2>2
    <3>b. w[i] = tok - start
      BY <2>1, <2>3, <3>a
    <3>c. tok - start + 1 \in 1..total
      BY <2>3, <3>a
    <3>1. w[i] = tok - start /\ tok - start + 1 \in 1..total
      BY <3>b, <3>c
    <3>2. kv[tok - start + 1] = Kv(start + (tok - start + 1) - 1)
      BY <3>1 DEF InOrder
    <3>3. start + (tok - start + 1) - 1 = tok
      OBVIOUS
    <3>4. w[i] \in 0..(Len(kv) - 1)
      BY <3>1 DEF InOrder
    <3> QED
      BY <1>2, <2>2, <2>3, <3>1, <3>2, <3>3, <3>4
  <2>4. CASE ~(tok <= pos)
    BY <1>2, <2>1, <2>2, <2>4
  <2> QED
    BY <2>3, <2>4
<1> QED
  BY <1>1, <1>6, <1>7 DEF NamesWindow

\* A first chunk's rows are in order from the sequence's first token on.
LEMMA FirstWindow ==
  ASSUME Window \in Nat \ {0}, NEW pos \in Nat, NEW total \in Nat, pos < total
  PROVE  WindowTopkIndices(pos) = WindowTopkIndicesChrono(pos, 0, total)
<1>1. PICK first \in 0..pos : first = Oldest(pos)
  BY OldestToken
<1> DEFINE f == [x \in Entries(Window) |-> IF first + x > pos THEN -1 ELSE first + x]
           g == [x \in Entries(Window) |->
                   LET key == first + x
                   IN IF key > pos \/ key < 0 \/ key >= 0 + total THEN -1 ELSE key - 0]
<1>2. ASSUME NEW x \in Entries(Window) PROVE f[x] = g[x]
  <2>1. x \in Nat
    BY DEF Entries
  <2> QED
    BY <1>1, <2>1
<1>3. f = g
  BY <1>2
<1>4. WindowTopkIndices(pos) = Indices(f)
  BY <1>1 DEF WindowTopkIndices, Oldest
<1>5. WindowTopkIndicesChrono(pos, 0, total) = Indices(g)
  BY <1>1 DEF WindowTopkIndicesChrono, Oldest
<1> QED
  BY <1>3, <1>4, <1>5

LEMMA RingWindow ==
  ASSUME Window \in Nat \ {0}, NEW pos \in Nat, NEW kv, Len(kv) \in Nat, InRing(kv, pos)
  PROVE  NamesWindow(kv, WindowTopkIndicesDecode(pos), pos)
<1>1. PICK w : w = WindowTopkIndicesDecode(pos)
  OBVIOUS
<1> DEFINE p == pos % Window
           Entry(n) == IF pos >= Window - 1
                       THEN IF n < Window - 1 - p THEN p + 1 + n ELSE n - (Window - 1 - p)
                       ELSE IF n <= pos THEN n ELSE -1
           f == [n \in Entries(Window) |-> Entry(n)]
<1>2. w = Indices(f)
  BY <1>1 DEF WindowTopkIndicesDecode
<1>3. p \in 0..(Window - 1)
  BY ModFacts
<1> HIDE DEF p
<1>4. DOMAIN f = Entries(Window) /\ \A x \in Entries(Window) : f[x] \in Int
  BY <1>3 DEF Entries
<1> HIDE DEF f
<1>5. w \in Seq(Int) /\ Len(w) = Window
  BY <1>2, <1>4, ListOfEntries
<1>6. PICK first \in 0..pos : /\ first = Oldest(pos) /\ pos - first < Window
                              /\ pos < Window => first = 0
                              /\ pos >= Window - 1 => first = pos - (Window - 1)
  BY OldestToken
<1>7. ASSUME NEW i \in 1..Window
      PROVE  IF Oldest(pos) + i - 1 <= pos
             THEN w[i] \in 0..(Len(kv) - 1) /\ kv[w[i] + 1] = Kv(Oldest(pos) + i - 1)
             ELSE w[i] = -1
  <2>1. w[i] = IF pos >= Window - 1 THEN (pos - (Window - 1) + i - 1) % Window
               ELSE IF i - 1 <= pos THEN i - 1 ELSE -1
    BY <1>1, EntryOfDecode
  <2>2. PICK tok \in Nat : tok = first + i - 1
    BY <1>6
  <2>3. ASSUME tok <= pos, w[i] = tok % Window
        PROVE  w[i] \in 0..(Len(kv) - 1) /\ kv[w[i] + 1] = Kv(tok)
    <3>1. tok % Window \in 0..(Window - 1)
      BY ModFacts
    <3>2. tok \in Oldest(pos)..pos
      BY <1>6, <2>2, <2>3
    <3> QED
      BY <2>3, <3>1, <3>2 DEF InRing
  <2>4. CASE pos >= Window - 1
    <3>1. pos - (Window - 1) + i - 1 = tok /\ tok <= pos
      BY <1>6, <2>2, <2>4
    <3>2. w[i] = tok % Window
      BY <2>1, <2>4, <3>1
    <3> QED
      BY <1>6, <2>2, <2>3, <3>1, <3>2
  <2>5. CASE pos < Window - 1
    <3>1. tok = i - 1 /\ first = 0
      BY <1>6, <2>2, <2>5
    <3>2. CASE tok <= pos
      <4>1. tok % Window = tok
        <5>1. tok = Window * 0 + tok /\ tok \in 0..(Window - 1)
          BY <2>5, <3>2
        <5> QED
          BY <5>1, ModUnique
      <4>2. w[i] = tok % Window
        BY <2>1, <2>5, <3>1, <3>2, <4>1
      <4> QED
        BY <1>6, <2>2, <2>3, <3>2, <4>2
    <3>3. CASE ~(tok <= pos)
      BY <1>6, <2>1, <2>2, <2>5, <3>1, <3>3
    <3> QED
      BY <3>2, <3>3
  <2> QED
    BY <2>4, <2>5
<1> QED
  BY <1>1, <1>5, <1>7 DEF NamesWindow

\* The rows of the complete blocks lie behind the other rows.
HoldsBlocks(kv, offset, pos) ==
  \A x \in 0..(Complete(pos) - 1) : offset + x \in 0..(Len(kv) - 1) /\ kv[offset + x + 1] = PoolOf(x)

\* All of them, the oldest first ...
LEMMA AllBlocks ==
  ASSUME RatioOK, NEW pos \in Nat, NEW blocks \in Nat, Complete(pos) <= blocks, NEW offset \in Nat,
         NEW kv, HoldsBlocks(kv, offset, pos), NEW picked, picked = Complete(pos)
  PROVE  \E b : /\ PicksBlocks(b, pos, picked)
                /\ NamesBlocks(kv, CompressTopkIndices(pos, blocks, offset), b, offset, picked)
<1>1. picked \in Nat
  BY CompleteType
<1>2. PICK list : list = CompressTopkIndices(pos, blocks, offset)
  OBVIOUS
<1>3. PICK b : b = [i \in 1..picked |-> i - 1]
  OBVIOUS
<1>4. PicksBlocks(b, pos, picked)
  <2>1. b \in [1..picked -> 0..(picked - 1)]
    BY <1>1, <1>3
  <2>2. \A i, j \in 1..picked : b[i] = b[j] => i = j
    BY <1>1, <1>3
  <2> QED
    BY <2>1, <2>2 DEF PicksBlocks
<1>5. PICK f : f = [c \in Entries(blocks) |-> IF c < picked THEN offset + c ELSE -1]
  OBVIOUS
<1>6. list = Indices(f)
  BY <1>2, <1>5 DEF CompressTopkIndices
<1>7. DOMAIN f = Entries(blocks) /\ \A x \in Entries(blocks) : f[x] \in Int
  BY <1>1, <1>5 DEF Entries
<1>8. list \in Seq(Int) /\ Len(list) = blocks /\ \A i \in 1..blocks : i - 1 \in Entries(blocks) /\ list[i] = f[i - 1]
  BY <1>6, <1>7, ListOfEntries
<1>9. ASSUME NEW i \in 1..blocks
      PROVE  IF i <= picked
             THEN list[i] = offset + b[i] /\ list[i] \in 0..(Len(kv) - 1) /\ kv[list[i] + 1] = PoolOf(b[i])
             ELSE list[i] = -1
  <2>1. list[i] = IF i - 1 < picked THEN offset + (i - 1) ELSE -1
    BY <1>5, <1>8
  <2>2. CASE i <= picked
    <3>1. b[i] = i - 1 /\ i - 1 \in 0..(picked - 1) /\ list[i] = offset + (i - 1)
      BY <1>1, <1>3, <2>1, <2>2
    <3>2. offset + (i - 1) \in 0..(Len(kv) - 1) /\ kv[offset + (i - 1) + 1] = PoolOf(i - 1)
      BY <3>1 DEF HoldsBlocks
    <3> QED
      BY <2>2, <3>1, <3>2
  <2>3. CASE ~(i <= picked)
    BY <1>1, <2>1, <2>3
  <2> QED
    BY <2>2, <2>3
<1>10. NamesBlocks(kv, list, b, offset, picked)
  BY <1>8, <1>9 DEF NamesBlocks
<1> QED
  BY <1>2, <1>4, <1>10

\* ... masked or not, when there are no others.
LEMMA UnmaskedBlocks ==
  ASSUME RatioOK, NEW pos \in Nat, NEW blocks, blocks = Complete(pos), NEW offset
  PROVE  CompressTopkIndicesDecode(blocks, offset) = CompressTopkIndices(pos, blocks, offset)
<1> DEFINE f == [c \in Entries(blocks) |-> offset + c]
           g == [c \in Entries(blocks) |-> IF c < Complete(pos) THEN offset + c ELSE -1]
<1>1. blocks \in Nat
  BY CompleteType
<1>2. \A c \in Entries(blocks) : c < Complete(pos)
  BY <1>1 DEF Entries
<1>3. f = g
  BY <1>2
<1>4. CompressTopkIndicesDecode(blocks, offset) = Indices(f)
  BY DEF CompressTopkIndicesDecode
<1>5. CompressTopkIndices(pos, blocks, offset) = Indices(g)
  BY DEF CompressTopkIndices
<1> QED
  BY <1>3, <1>4, <1>5

\* The place of a block among the first K, counted from either end.
LEMMA PlaceOfBlock ==
  ASSUME NEW K \in Nat, NEW c \in 0..(K - 1), NEW newest \in BOOLEAN
  PROVE  Cardinality({d \in 0..(K - 1) : IF newest THEN d > c ELSE d < c}) = IF newest THEN K - 1 - c ELSE c
<1> DEFINE T == {d \in 0..(K - 1) : IF newest THEN d > c ELSE d < c}
<1> SUFFICES Cardinality(T) = IF newest THEN K - 1 - c ELSE c
  OBVIOUS
<1>1. CASE newest
  <2>1. T = (c + 1)..(K - 1)
    BY <1>1
  <2>2. Cardinality((c + 1)..(K - 1)) = IF c + 1 > K - 1 THEN 0 ELSE (K - 1) - (c + 1) + 1
    BY CountEntries
  <2> HIDE DEF T
  <2> QED
    BY <1>1, <2>1, <2>2
<1>2. CASE ~newest
  <2>1. T = 0..(c - 1)
    BY <1>2
  <2>2. Cardinality(0..(c - 1)) = IF 0 > c - 1 THEN 0 ELSE (c - 1) - 0 + 1
    BY CountEntries
  <2> HIDE DEF T
  <2> QED
    BY <1>2, <2>1, <2>2
<1> QED
  BY <1>1, <1>2

\* Of an overlapping layer, those the indexer picks: the best of all that are complete, if
\* it can exclude what it picked.
LEMMA BestBlocks ==
  ASSUME RatioOK, NEW topk \in Nat, NEW excluded \in Nat, topk <= excluded + 1,
         NEW pos \in Nat, NEW offset \in Nat, NEW newest \in BOOLEAN,
         NEW scored, scored = 0..(Complete(pos) - 1),
         NEW kv, HoldsBlocks(kv, offset, pos),
         NEW picked, picked = IF topk <= Complete(pos) THEN topk ELSE Complete(pos)
  PROVE  \E b : /\ PicksBlocks(b, pos, picked)
                /\ NamesBlocks(kv, Selected(scored, topk, excluded, offset, newest), b, offset, picked)
<1>1. PICK K \in Nat : K = Complete(pos)
  BY CompleteType
<1>2. picked \in Nat /\ picked <= K /\ picked <= topk /\ (picked = K \/ picked = topk)
  BY <1>1
<1>3. PICK list : list = Selected(scored, topk, excluded, offset, newest)
  OBVIOUS
<1> DEFINE Place(c) == Cardinality({d \in scored : IF newest THEN d > c ELSE d < c})
           Best(i) == CHOOSE c \in scored : Place(c) = i
           Named(i) == IF newest THEN K - 1 - i ELSE i
<1>4. ASSUME NEW c \in 0..(K - 1) PROVE Place(c) = IF newest THEN K - 1 - c ELSE c
  BY <1>1, PlaceOfBlock
<1>5. ASSUME NEW i \in 0..(K - 1) PROVE Best(i) = Named(i)
  <2>1. Named(i) \in 0..(K - 1) /\ scored = 0..(K - 1)
    BY <1>1
  <2>2. Place(Named(i)) = i
    <3>1. Place(Named(i)) = IF newest THEN K - 1 - Named(i) ELSE Named(i)
      BY <1>4, <2>1
    <3> HIDE DEF Place
    <3> QED
      BY <3>1
  <2>3. ASSUME NEW c \in scored, Place(c) = i PROVE c = Named(i)
    <3>1. Place(c) = IF newest THEN K - 1 - c ELSE c
      BY <1>4, <2>1, <2>3
    <3> HIDE DEF Place
    <3> QED
      BY <2>1, <2>3, <3>1
  <2> HIDE DEF Place
  <2> QED
    BY <2>1, <2>2, <2>3
<1>6. Cardinality(scored) = K
  <2>1. Cardinality(0..(K - 1)) = IF 0 > K - 1 THEN 0 ELSE (K - 1) - 0 + 1
    BY CountEntries
  <2> QED
    BY <1>1, <2>1
<1>7. PICK b : b = [i \in 1..picked |-> Named(i - 1)]
  OBVIOUS
<1>8. PicksBlocks(b, pos, picked)
  <2>1. b \in [1..picked -> 0..(K - 1)]
    BY <1>2, <1>7
  <2>2. \A i, j \in 1..picked : b[i] = b[j] => i = j
    BY <1>2, <1>7
  <2> QED
    BY <1>1, <2>1, <2>2 DEF PicksBlocks
<1>9. PICK f : f = [i \in Entries(topk) |-> IF i < K THEN offset + Best(i) ELSE -1]
  OBVIOUS
<1>10. list = Indices(f)
  <2> DEFINE Entry(rank) == IF rank < Cardinality(scored) THEN offset + Ranked(scored, rank, newest) ELSE -1
  <2>1. list = Indices([i \in Entries(topk) |-> Entry(Min({i, excluded}))])
    BY <1>3 DEF Selected
  <2>2. ASSUME NEW i \in Entries(topk) PROVE Min({i, excluded}) = i
    <3>1. i \in Nat /\ i <= excluded
      BY DEF Entries
    <3> QED
      BY <3>1, SmallerOf
  <2>3. ASSUME NEW i PROVE Entry(i) = IF i < K THEN offset + Best(i) ELSE -1
    BY <1>6 DEF Ranked
  <2> HIDE DEF Best, Entry
  <2>4. [i \in Entries(topk) |-> Entry(Min({i, excluded}))] = [i \in Entries(topk) |-> Entry(i)]
    BY <2>2
  <2>5. [i \in Entries(topk) |-> Entry(i)] = f
    BY <1>9, <2>3
  <2> QED
    BY <2>1, <2>4, <2>5
<1> HIDE DEF Best
<1>11. \A x \in Entries(topk) : x \in Nat /\ f[x] = IF x < K THEN offset + Named(x) ELSE -1
  BY <1>5, <1>9 DEF Entries
<1>12. DOMAIN f = Entries(topk) /\ \A x \in Entries(topk) : f[x] \in Int
  BY <1>9, <1>11
<1>13. /\ list \in Seq(Int) /\ Len(list) = topk
       /\ \A i \in 1..topk : i - 1 \in Entries(topk) /\ list[i] = f[i - 1]
  BY <1>10, <1>12, ListOfEntries
<1>14. ASSUME NEW i \in 1..topk
       PROVE  IF i <= picked
              THEN list[i] = offset + b[i] /\ list[i] \in 0..(Len(kv) - 1) /\ kv[list[i] + 1] = PoolOf(b[i])
              ELSE list[i] = -1
  <2>1. list[i] = IF i - 1 < K THEN offset + Named(i - 1) ELSE -1
    BY <1>11, <1>13
  <2>2. CASE i <= picked
    <3>1. b[i] = Named(i - 1) /\ i - 1 < K
      BY <1>2, <1>7, <2>2
    <3>2. PICK x \in 0..(K - 1) : x = Named(i - 1)
      <4>1. K - 1 - (i - 1) \in 0..(K - 1) /\ i - 1 \in 0..(K - 1)
        BY <3>1
      <4>2. Named(i - 1) \in 0..(K - 1)
        BY <4>1
      <4> HIDE DEF Named
      <4> QED
        BY <4>2
    <3>3. offset + x \in 0..(Len(kv) - 1) /\ kv[offset + x + 1] = PoolOf(x)
      BY <1>1 DEF HoldsBlocks
    <3> HIDE DEF Named
    <3> QED
      BY <2>1, <2>2, <3>1, <3>2, <3>3
  <2>3. CASE ~(i <= picked)
    BY <1>2, <2>1, <2>3
  <2> QED
    BY <2>2, <2>3
<1>15. NamesBlocks(kv, list, b, offset, picked)
  BY <1>2, <1>13, <1>14 DEF NamesBlocks
<1> QED
  BY <1>3, <1>8, <1>15

-------------------------------------------------------------------------------
(* A query, of whichever kernels it is served by.                            *)

GivesBlocks(kv, c, pos, offset) ==
  \E b : PicksBlocks(b, pos, Attended(pos)) /\ NamesBlocks(kv, c, b, offset, Attended(pos))

LEMMA KernelsAgree ==
  ASSUME RatioOK, Window \in Nat \ {0}, NEW S, NEW kv \in Seq(S), NEW w, NEW c, NEW pos \in Nat, NEW offset \in Nat,
         NamesWindow(kv, w, pos), GivesBlocks(kv, c, pos, offset),
         NEW kernel \in {"sparse", "flashmla", "flashinfer"}, NEW n,
         kernel = "flashinfer" => offset = Window /\ Window <= Len(kv)
  PROVE  Read(kernel, kv, ConcatTopkIndices(w, c), n) = Rows(kv, ConcatTopkIndices(w, c))
<1>1. PICK b : PicksBlocks(b, pos, Attended(pos)) /\ NamesBlocks(kv, c, b, offset, Attended(pos))
  BY DEF GivesBlocks
<1>2. PICK idx : idx = ConcatTopkIndices(w, c)
  OBVIOUS
<1>3. ListOf(idx, w, c)
  BY <1>1, <1>2 DEF ListOf, NamesWindow, NamesBlocks
<1>4. idx \in Seq(Int) /\ Len(kv) \in Nat
  BY <1>3, Listed
<1>5. CASE kernel = "sparse"
  BY <1>2, <1>5 DEF Read, SparseAttention
<1>6. CASE kernel = "flashmla"
  <2>1. Read(kernel, kv, idx, n) = IF n > 1 THEN FlashMlaPrefill(kv, idx) ELSE Rows(kv, idx)
    BY <1>6 DEF Read, FlashMlaDecode
  <2> QED
    BY <1>2, <1>4, <2>1, PaddingNamesNone
<1>7. CASE kernel = "flashinfer"
  <2>1. Read(kernel, kv, idx, n) = FlashInferSm120(kv, idx)
    BY <1>7 DEF Read
  <2>2. PICK picked \in Nat : picked = Attended(pos)
    BY CompleteType, DsAssumption DEF Attended
  <2>3. ASSUME NEW i \in 1..Len(c) PROVE c[i] < 0 \/ c[i] >= Window
    <3>1. CASE i <= picked
      <4>1. i \in 1..picked /\ Complete(pos) \in Nat
        BY <2>2, <3>1, CompleteType
      <4>2. b[i] \in 0..(Complete(pos) - 1)
        BY <1>1, <2>2, <4>1 DEF PicksBlocks
      <4>3. c[i] = Window + b[i]
        BY <1>1, <1>7, <2>2, <3>1 DEF NamesBlocks
      <4> QED
        BY <4>1, <4>2, <4>3
    <3>2. CASE ~(i <= picked)
      BY <1>1, <2>2, <3>2 DEF NamesBlocks
    <3> QED
      BY <3>1, <3>2
  <2>4. FlashInferSm120(kv, idx) = Rows(kv, idx)
    BY <1>3, <1>7, <2>3, SegmentsOfOneCache
  <2> QED
    BY <1>2, <2>1, <2>4
<1> QED
  BY <1>5, <1>6, <1>7

\* What a kernel is given for the queries of a chunk.
WellServed(kernel, kv, window, compressed, offset, start, n) ==
  /\ kernel \in {"sparse", "flashmla", "flashinfer"}
  /\ kernel = "flashinfer" => offset = Window /\ Window <= Len(kv)
  /\ \A pos \in start..(start + n - 1) :
       NamesWindow(kv, window[pos], pos) /\ GivesBlocks(kv, compressed[pos], pos, offset)

LEMMA ChunkReads ==
  ASSUME RatioOK, Window \in Nat \ {0}, IndexTopk \in Nat \ {0},
         NEW S, NEW kv \in Seq(S), NEW start \in Nat, NEW n \in Nat, NEW offset \in Nat,
         NEW kernel, NEW window, NEW compressed,
         WellServed(kernel, kv, window, compressed, offset, start, n),
         NEW reads, reads = Attend(kernel, kv, window, compressed, start, n)
  PROVE  \A q \in DOMAIN reads : ReadsItsContext(reads[q])
<1> SUFFICES ASSUME NEW q \in DOMAIN reads PROVE ReadsItsContext(reads[q])
  OBVIOUS
<1>1. q \in 1..n
  BY DEF Attend
<1>2. PICK pos \in start..(start + n - 1) : pos = start + q - 1
  BY <1>1
<1>3. PICK w : w = window[pos]
  OBVIOUS
<1>4. PICK c : c = compressed[pos]
  OBVIOUS
<1>5. reads[q] = [pos |-> pos, rows |-> Read(kernel, kv, ConcatTopkIndices(w, c), n)]
  BY <1>1, <1>2, <1>3, <1>4 DEF Attend
<1>6. NamesWindow(kv, w, pos) /\ GivesBlocks(kv, c, pos, offset)
  BY <1>2, <1>3, <1>4 DEF WellServed
<1>7. pos \in Nat /\ Len(kv) \in Nat /\ offset \in Int
  BY <1>2
<1>8. Read(kernel, kv, ConcatTopkIndices(w, c), n) = Rows(kv, ConcatTopkIndices(w, c))
  <2>1. kernel \in {"sparse", "flashmla", "flashinfer"} /\ (kernel = "flashinfer" => offset = Window /\ Window <= Len(kv))
    BY DEF WellServed
  <2> QED
    BY <1>6, <1>7, <2>1, KernelsAgree
<1>9. PICK b : PicksBlocks(b, pos, Attended(pos)) /\ NamesBlocks(kv, c, b, offset, Attended(pos))
  BY <1>6 DEF GivesBlocks
<1>10. reads[q] = [pos |-> pos, rows |-> Rows(kv, ConcatTopkIndices(w, c))]
  BY <1>5, <1>8
<1> QED
  BY <1>6, <1>7, <1>9, <1>10, RowsListed

-------------------------------------------------------------------------------
(* The blocks a query may attend to.                                         *)

\* What a step leaves behind: the rows of every complete block, and the layer.
RowsReady ==
  /\ layer \in Layers /\ UNCHANGED layer /\ len' \in Nat
  /\ \A x \in 0..(len' \div ratio - 1) : comp'[x] = PoolOf(x) /\ (layer.overlap => keys'[x] = PoolOf(x))

LEMMA StepLeavesRows ==
  ASSUME CompressorInv, CompressorInv', UNCHANGED layer
  PROVE  RowsReady
<1>1. ratio' = ratio /\ \A b : PoolOf(b)' = PoolOf(b)
  BY LayerIsFixed
<1>2. layer \in Layers /\ len' \in Nat /\ RowsCoverTheirTokens'
  BY DEF CompressorInv
<1> QED
  BY <1>1, <1>2 DEF RowsReady, RowsCoverTheirTokens

LEMMA CompleteSoFar ==
  ASSUME RatioOK, NEW pos \in Nat, NEW end \in Nat, pos < end
  PROVE  Complete(pos) \in Nat /\ end \div ratio \in Nat /\ Complete(pos) <= end \div ratio
<1>1. PICK w \in Nat \ {0} : w = ratio
  BY DEF RatioOK
<1>2. (pos + 1) \div w \in Nat /\ end \div w \in Nat /\ (pos + 1) \div w <= end \div w
  BY ModFacts, DivMonotonic
<1> QED
  BY <1>1, <1>2 DEF Complete

\* Of the rows it scores, those of the complete blocks are left.
LEMMA EveryBlockIsScored ==
  ASSUME RatioOK, NEW pos \in Nat, NEW blocks \in Nat, Complete(pos) <= blocks
  PROVE  {c \in 0..(blocks - 1) : c < Complete(pos)} = 0..(Complete(pos) - 1)
BY CompleteType

\* A caller asks for as many blocks as a query attends to, or for more than there are.
LEMMA AskedIsAttended ==
  ASSUME RatioOK, IndexTopk \in Nat \ {0}, layer.overlap, NEW pos \in Nat,
         NEW blocks \in Nat, Complete(pos) <= blocks, NEW careful \in BOOLEAN
  PROVE  /\ Asked(blocks, careful) \in Nat /\ Asked(blocks, careful) <= IndexTopk
         /\ (IF Asked(blocks, careful) <= Complete(pos) THEN Asked(blocks, careful) ELSE Complete(pos)) = Attended(pos)
<1>1. Complete(pos) \in Nat
  BY CompleteType
<1>2. Min({IndexTopk, blocks}) = IF IndexTopk <= blocks THEN IndexTopk ELSE blocks
  BY SmallerOf
<1> QED
  BY <1>1, <1>2 DEF Asked, Attended

\* The lists of the blocks, by the kernels that make them.
LEMMA IndexedBlocks ==
  ASSUME RatioOK, IndexTopk \in Nat \ {0}, layer.overlap, NEW pos \in Nat,
         NEW blocks \in Nat, Complete(pos) <= blocks, NEW offset \in Nat, NEW newest \in BOOLEAN,
         NEW kv, HoldsBlocks(kv, offset, pos), NEW careful \in BOOLEAN,
         NEW scored, scored = {c \in 0..(blocks - 1) : c < Complete(pos)},
         NEW excluded \in Nat, Asked(blocks, careful) <= excluded + 1
  PROVE  GivesBlocks(kv, Selected(scored, Asked(blocks, careful), excluded, offset, newest), pos, offset)
<1>1. PICK topk \in Nat : topk = Asked(blocks, careful)
  BY AskedIsAttended
<1>2. scored = 0..(Complete(pos) - 1)
  BY EveryBlockIsScored
<1>3. PICK picked : picked = IF topk <= Complete(pos) THEN topk ELSE Complete(pos)
  OBVIOUS
<1>4. picked = Attended(pos)
  BY <1>1, <1>3, AskedIsAttended
<1>5. \E b : /\ PicksBlocks(b, pos, picked)
             /\ NamesBlocks(kv, Selected(scored, topk, excluded, offset, newest), b, offset, picked)
  BY <1>1, <1>2, <1>3, BestBlocks
<1> QED
  BY <1>1, <1>4, <1>5 DEF GivesBlocks

LEMMA ListedBlocks ==
  ASSUME RowsReady, ~layer.overlap, NEW pos \in Nat, NEW blocks \in Nat, Complete(pos) <= blocks,
         NEW offset \in Nat, NEW kv, HoldsBlocks(kv, offset, pos)
  PROVE  GivesBlocks(kv, CompressTopkIndices(pos, blocks, offset), pos, offset)
<1>1. RatioOK
  BY LayersHaveRatios DEF RowsReady
<1>2. PICK picked : picked = Complete(pos)
  OBVIOUS
<1>3. picked = Attended(pos)
  BY <1>2 DEF Attended
<1>4. \E b : /\ PicksBlocks(b, pos, picked)
             /\ NamesBlocks(kv, CompressTopkIndices(pos, blocks, offset), b, offset, picked)
  BY <1>1, <1>2, AllBlocks
<1> QED
  BY <1>3, <1>4 DEF GivesBlocks

\* The list of picks lasts for the blocks a decode step is shown.
ListLasts(blocks) == IndexTopk <= Remembered + 1 \/ blocks <= SortRows

LEMMA BlocksGiven ==
  ASSUME RowsReady, IndexTopk \in Nat \ {0}, NEW pos \in Nat,
         NEW blocks \in Nat, Complete(pos) <= blocks, NEW offset \in Nat, NEW careful \in BOOLEAN, NEW newest \in BOOLEAN,
         NEW kv, HoldsBlocks(kv, offset, pos)
  PROVE  /\ GivesBlocks(kv, FirstCompressOf(pos, blocks, offset, careful, newest), pos, offset)
         /\ GivesBlocks(kv, CompressOf(pos, blocks, offset, careful, newest), pos, offset)
         /\ offset = Window /\ ListLasts(blocks) =>
              GivesBlocks(kv, GraphCompressOf(pos, blocks, careful, newest), pos, offset)
         /\ offset = Window /\ ListLasts(blocks) /\ blocks = Complete(pos) =>
              GivesBlocks(kv, DecodeCompressOf(blocks, careful, newest), pos, offset)
<1>1. RatioOK
  BY LayersHaveRatios DEF RowsReady
<1>2. CASE ~layer.overlap
  <2>1. PICK list : list = CompressTopkIndices(pos, blocks, offset)
    OBVIOUS
  <2>2. GivesBlocks(kv, list, pos, offset)
    BY <1>2, <2>1, ListedBlocks
  <2>3. FirstCompressOf(pos, blocks, offset, careful, newest) = list /\ CompressOf(pos, blocks, offset, careful, newest) = list
    BY <1>2, <2>1 DEF FirstCompressOf, CompressOf, CompressTopkIndicesPrefillFromPos
  <2>4. offset = Window => GraphCompressOf(pos, blocks, careful, newest) = list
    BY <1>2, <2>1 DEF GraphCompressOf, CompressTopkIndicesDecodeFromPos
  <2>5. ASSUME offset = Window, blocks = Complete(pos) PROVE DecodeCompressOf(blocks, careful, newest) = list
    <3>1. DecodeCompressOf(blocks, careful, newest) = CompressTopkIndicesDecode(blocks, offset)
      BY <1>2, <2>5 DEF DecodeCompressOf
    <3>2. CompressTopkIndicesDecode(blocks, offset) = list
      BY <1>1, <2>1, <2>5, UnmaskedBlocks
    <3> QED
      BY <3>1, <3>2
  <2> QED
    BY <2>2, <2>3, <2>4, <2>5
<1>3. CASE layer.overlap
  <2>1. PICK scored : scored = {c \in 0..(blocks - 1) : c < Complete(pos)}
    OBVIOUS
  <2>2. PICK topk \in Nat : topk = Asked(blocks, careful) /\ topk <= IndexTopk
    BY <1>1, <1>3, AskedIsAttended
  <2>3. ASSUME NEW excluded \in Nat, topk <= excluded + 1
        PROVE  GivesBlocks(kv, Selected(scored, topk, excluded, offset, newest), pos, offset)
    BY <1>1, <1>3, <2>1, <2>2, <2>3, IndexedBlocks
  <2>4. GivesBlocks(kv, Selected(scored, topk, topk, offset, newest), pos, offset)
    <3>1. topk <= topk + 1
      OBVIOUS
    <3> QED
      BY <2>3, <3>1
  <2>5. FirstCompressOf(pos, blocks, offset, careful, newest) = Selected(scored, topk, topk, offset, newest)
    <3>1. FirstCompressOf(pos, blocks, offset, careful, newest)
            = Selected({c \in IndexerScoresPrefill(blocks) : c < (pos + 1) \div ratio}, topk, topk, offset, newest)
      BY <1>3, <2>2 DEF FirstCompressOf, IndexerTopkPrefill
    <3>2. {c \in IndexerScoresPrefill(blocks) : c < (pos + 1) \div ratio} = scored
      BY <2>1 DEF IndexerScoresPrefill, Complete
    <3> QED
      BY <3>1, <3>2
  <2>6. CompressOf(pos, blocks, offset, careful, newest) = Selected(scored, topk, topk, offset, newest)
    <3>1. PICK masked : masked = IndexerMaskScoresPrefillByPos(IndexerScoresPrefill(blocks), pos)
      OBVIOUS
    <3>2. CompressOf(pos, blocks, offset, careful, newest)
            = Selected({c \in masked : c < Complete(pos)}, topk, topk, offset, newest)
      BY <1>3, <2>2, <3>1 DEF CompressOf, IndexerTopkPrefillFromPos
    <3>3. {c \in masked : c < Complete(pos)} = scored
      BY <2>1, <3>1 DEF IndexerScoresPrefill, IndexerMaskScoresPrefillByPos
    <3> QED
      BY <3>2, <3>3
  <2>7. ASSUME ListLasts(blocks)
        PROVE  GivesBlocks(kv, IndexerTopkDecode(scored, blocks, topk, offset, newest), pos, offset)
    <3>1. PICK excluded \in Nat : /\ excluded = IF Scans(blocks, topk) THEN Remembered ELSE topk
                                  /\ topk <= excluded + 1
      <4>1. CASE Scans(blocks, topk)
        <5>1. SortRows \in Nat /\ Remembered \in Nat
          BY DsAssumption
        <5>2. blocks > SortRows
          BY <4>1 DEF Scans
        <5>3. IndexTopk <= Remembered + 1
          BY <2>7, <5>1, <5>2 DEF ListLasts
        <5> QED
          BY <2>2, <4>1, <5>1, <5>3
      <4>2. CASE ~Scans(blocks, topk)
        BY <2>2, <4>2
      <4> QED
        BY <4>1, <4>2
    <3>2. IndexerTopkDecode(scored, blocks, topk, offset, newest) = Selected(scored, topk, excluded, offset, newest)
      BY <3>1 DEF IndexerTopkDecode
    <3> QED
      BY <2>3, <3>1, <3>2
  <2>8. ASSUME offset = Window
        PROVE  GraphCompressOf(pos, blocks, careful, newest) = IndexerTopkDecode(scored, blocks, topk, offset, newest)
    <3>1. GraphCompressOf(pos, blocks, careful, newest)
            = IndexerTopkDecode(IndexerMaskScoresByPosition(IndexerScoresDecode(blocks), pos), blocks, topk, offset, newest)
      BY <1>3, <2>2, <2>8 DEF GraphCompressOf
    <3>2. IndexerMaskScoresByPosition(IndexerScoresDecode(blocks), pos) = scored
      BY <2>1 DEF IndexerScoresDecode, IndexerMaskScoresByPosition
    <3> QED
      BY <3>1, <3>2
  <2>9. ASSUME offset = Window, blocks = Complete(pos)
        PROVE  DecodeCompressOf(blocks, careful, newest) = IndexerTopkDecode(scored, blocks, topk, offset, newest)
    <3>1. DecodeCompressOf(blocks, careful, newest)
            = IndexerTopkDecode(IndexerScoresDecode(blocks), blocks, topk, offset, newest)
      BY <1>3, <2>2, <2>9 DEF DecodeCompressOf
    <3>2. \A c \in 0..(blocks - 1) : c < Complete(pos)
      BY <2>9
    <3>3. IndexerScoresDecode(blocks) = scored
      BY <2>1, <3>2 DEF IndexerScoresDecode
    <3> QED
      BY <3>1, <3>3
  <2> QED
    BY <2>4, <2>5, <2>6, <2>7, <2>8, <2>9
<1> QED
  BY <1>2, <1>3

-------------------------------------------------------------------------------
(* What is read, step by step.                                               *)

\* Two lists end to end.
IsList(u, n) == u = [i \in 1..n |-> u[i]]

LEMMA ListIsSeq ==
  ASSUME NEW n \in Nat, NEW u, IsList(u, n)
  PROVE  DOMAIN u = 1..n /\ Len(u) = n /\ \E S : u \in Seq(S)
<1>1. u = [i \in 1..n |-> u[i]]
  BY DEF IsList
<1> DEFINE S == {u[i] : i \in 1..n}
<1>2. \A i \in 1..n : u[i] \in S
  OBVIOUS
<1> HIDE DEF S
<1>3. u \in [1..n -> S]
  BY <1>1, <1>2
<1>4. u \in Seq(S) /\ Len(u) = n /\ DOMAIN u = 1..n
  BY <1>3
<1> QED
  BY <1>4

LEMMA SeqEndToEnd ==
  ASSUME NEW S, NEW T, NEW u \in Seq(S), NEW v \in Seq(T), NEW m \in Nat, NEW n \in Nat, Len(u) = m, Len(v) = n
  PROVE  /\ IsList(u \o v, m + n)
         /\ \A k \in 1..(m + n) : (u \o v)[k] = IF k <= m THEN u[k] ELSE v[k - m]
<1>1. PICK R : R = S \cup T
  OBVIOUS
<1>2. u \in Seq(R) /\ v \in Seq(R)
  BY <1>1
<1>3. u \o v \in Seq(R) /\ Len(u \o v) = m + n
  BY <1>2
<1>4. IsList(u \o v, m + n)
  <2>1. PICK c : c = u \o v
    OBVIOUS
  <2>2. PICK k \in Nat : k = m + n
    OBVIOUS
  <2>3. c \in Seq(R) /\ Len(c) = k
    BY <1>3, <2>1, <2>2
  <2>4. c \in [1..k -> R]
    BY <2>3
  <2>5. IsList(c, k)
    BY <2>4 DEF IsList
  <2> QED
    BY <2>1, <2>2, <2>5
<1>5. \A k \in 1..(m + n) : (u \o v)[k] = IF k <= m THEN u[k] ELSE v[k - m]
  BY <1>2
<1> QED
  BY <1>4, <1>5

Joined(list, u, m, v, n) == IsList(u, m) /\ IsList(v, n) /\ list = u \o v

LEMMA EndToEnd ==
  ASSUME NEW m \in Nat, NEW n \in Nat, NEW u, NEW v, NEW list, Joined(list, u, m, v, n)
  PROVE  /\ IsList(list, m + n)
         /\ \A i \in 1..m : list[i] = u[i]
         /\ \A i \in 1..n : list[m + i] = v[i]
<1>1. PICK S, T : u \in Seq(S) /\ v \in Seq(T) /\ Len(u) = m /\ Len(v) = n
  BY ListIsSeq DEF Joined
<1>2. /\ IsList(u \o v, m + n)
      /\ \A k \in 1..(m + n) : (u \o v)[k] = IF k <= m THEN u[k] ELSE v[k - m]
  BY <1>1, SeqEndToEnd
<1>3. list = u \o v
  BY DEF Joined
<1>4. IsList(list, m + n)
  BY <1>2, <1>3
<1>5. \A k \in 1..(m + n) : list[k] = IF k <= m THEN u[k] ELSE v[k - m]
  BY <1>2, <1>3
<1>6. ASSUME NEW i \in 1..m PROVE list[i] = u[i]
  <2>1. i \in 1..(m + n) /\ i <= m
    OBVIOUS
  <2> QED
    BY <1>5, <2>1
<1>7. ASSUME NEW i \in 1..n PROVE list[m + i] = v[i]
  <2>1. m + i \in 1..(m + n) /\ ~(m + i <= m) /\ (m + i) - m = i
    OBVIOUS
  <2> QED
    BY <1>5, <2>1
<1> QED
  BY <1>4, <1>6, <1>7

\* The rows of a chunk of n tokens behind those of the m tokens before it, and
\* all compressed rows behind both.
LaidBehind(kv, older, m, start, n) ==
  /\ start + m = len /\ len' = len + n
  /\ IsList(older, m) /\ \A i \in 1..m : older[i] = Kv(start + i - 1)
  /\ kv = Behind(older, n)

LEMMA RowsBehind ==
  ASSUME RowsReady, NEW m \in Nat, NEW n \in Nat, NEW start \in Nat,
         NEW older, NEW kv, LaidBehind(kv, older, m, start, n)
  PROVE  /\ \E S : kv \in Seq(S)
         /\ InOrder(kv, start, m + n)
         /\ \A pos \in 0..(len' - 1) : HoldsBlocks(kv, m + n, pos)
<1>1. RatioOK /\ len' \in Nat /\ len \in Nat
  BY LayersHaveRatios DEF RowsReady, LaidBehind
<1>2. PICK B \in Nat : B = len' \div ratio
  <2>1. PICK w \in Nat \ {0} : w = ratio
    BY <1>1 DEF RatioOK
  <2>2. len' \div w \in Nat
    BY <1>1, ModFacts
  <2> QED
    BY <2>1, <2>2
<1>3. PICK mine : mine = [i \in 1..n |-> Kv(len + i - 1)]
  OBVIOUS
<1>4. PICK rows : rows = [i \in 1..B |-> comp'[i - 1]]
  OBVIOUS
<1> DEFINE Past(u) == u = older /\ IsList(u, m) /\ \A i \in 1..m : u[i] = Kv(start + i - 1)
<1>0. PICK past : Past(past)
  BY DEF LaidBehind
<1>5. PICK both : both = past \o mine
  OBVIOUS
<1>6. PICK all : all = both \o rows /\ all = kv
  <2>1. len' = len + n /\ kv = Behind(older, n)
    BY DEF LaidBehind
  <2>2. kv = both \o [i \in 1..((len + n) \div ratio) |-> comp'[i - 1]]
    BY <1>0, <1>3, <1>5, <2>1 DEF Behind
  <2> QED
    BY <1>2, <1>4, <2>1, <2>2
<1>7. IsList(past, m) /\ IsList(mine, n) /\ IsList(rows, B)
  BY <1>0, <1>3, <1>4 DEF IsList
<1> HIDE DEF Past
<1>8. /\ IsList(both, m + n)
      /\ \A i \in 1..m : both[i] = past[i]
      /\ \A i \in 1..n : both[m + i] = mine[i]
  <2>1. Joined(both, past, m, mine, n)
    BY <1>5, <1>7 DEF Joined
  <2> QED
    BY <2>1, EndToEnd
<1>9. PICK t \in Nat : t = m + n
  OBVIOUS
<1>10. /\ IsList(kv, t + B) /\ Len(kv) = t + B
       /\ \A i \in 1..t : kv[i] = both[i]
       /\ \A i \in 1..B : kv[t + i] = rows[i]
  <2>1. IsList(both, t)
    BY <1>8, <1>9
  <2>2. /\ IsList(kv, t + B)
        /\ \A i \in 1..t : kv[i] = both[i]
        /\ \A i \in 1..B : kv[t + i] = rows[i]
    <3>1. Joined(all, both, t, rows, B)
      BY <1>6, <1>7, <2>1 DEF Joined
    <3>2. /\ IsList(all, t + B)
          /\ \A i \in 1..t : all[i] = both[i]
          /\ \A i \in 1..B : all[t + i] = rows[i]
      BY <3>1, EndToEnd
    <3> QED
      BY <1>6, <3>2
  <2>3. t + B \in Nat
    OBVIOUS
  <2> QED
    BY <2>2, <2>3, ListIsSeq
<1>11. ASSUME NEW i \in 1..t PROVE kv[i] = Kv(start + i - 1)
  <2>1. CASE i <= m
    <3>1. i \in 1..m
      BY <2>1
    <3>2. kv[i] = past[i]
      BY <1>8, <1>10, <3>1
    <3> QED
      BY <1>0, <3>1, <3>2 DEF Past
  <2>2. CASE i > m
    <3>1. PICK k \in 1..n : i = m + k
      <4>1. i - m \in 1..n /\ i = m + (i - m)
        BY <1>9, <2>2
      <4> QED
        BY <4>1
    <3>2. kv[i] = Kv(len + k - 1)
      BY <1>3, <1>8, <1>10, <3>1
    <3>3. len + k - 1 = start + i - 1
      BY <1>1, <3>1 DEF LaidBehind
    <3> QED
      BY <3>2, <3>3
  <2> QED
    BY <2>1, <2>2
<1>12. InOrder(kv, start, t)
  <2>1. t <= Len(kv)
    <3>1. Len(kv) = t + B
      BY <1>10
    <3> QED
      BY <3>1
  <2>2. \A i \in 1..t : kv[i] = Kv(start + i - 1)
    BY ONLY <1>11
  <2> QED
    BY ONLY <2>1, <2>2 DEF InOrder
<1>13. PICK end \in Nat : len' = end
  BY <1>1
<1>14. ASSUME NEW pos \in 0..(end - 1) PROVE HoldsBlocks(kv, t, pos)
  <2>0. pos \in Nat /\ pos < len'
    BY <1>13
  <2>1. Complete(pos) \in Nat /\ Complete(pos) <= B
    BY <1>1, <1>2, <2>0, CompleteSoFar
  <2>2. ASSUME NEW x \in 0..(Complete(pos) - 1)
        PROVE  t + x \in 0..(Len(kv) - 1) /\ kv[t + x + 1] = PoolOf(x)
    <3>1. x + 1 \in 1..B /\ x \in 0..(B - 1) /\ (x + 1) - 1 = x /\ t + (x + 1) = t + x + 1
      BY <2>1
    <3>2. kv[t + (x + 1)] = comp'[x]
      BY <1>4, <1>10, <3>1
    <3>3. comp'[x] = PoolOf(x)
      BY <1>2, <3>1 DEF RowsReady
    <3>4. t + x \in 0..(Len(kv) - 1)
      BY <1>10, <3>1
    <3> QED
      BY <3>1, <3>2, <3>3, <3>4
  <2> QED
    BY <2>2 DEF HoldsBlocks
<1>15. \E S : kv \in Seq(S)
  <2>1. t + B \in Nat
    OBVIOUS
  <2> QED
    BY <1>10, <2>1, ListIsSeq
<1> QED
  BY <1>9, <1>12, <1>13, <1>14, <1>15

LEMMA NewestTokens ==
  ASSUME Window \in Nat \ {0}, NEW e \in Nat, NEW pos \in Nat, pos < e, e - 1 = pos \/ e <= Window,
         NEW tok \in Nat, tok <= pos, pos - tok < Window
  PROVE  tok \in 0..(e - 1) /\ e - tok <= Window
OBVIOUS

\* The unified cache of the ring and the rows of at least the complete blocks.
LEMMA RowsOfTheCache ==
  ASSUME RowsReady, Window \in Nat \ {0}, Inv', NEW pos \in Nat, pos < len',
         len' - 1 = pos \/ len' <= Window,
         NEW blocks \in Nat, Complete(pos) <= blocks, NEW kv, kv = Unified(ring', comp', blocks)
  PROVE  /\ \E S : kv \in Seq(S)
         /\ Window <= Len(kv) /\ InRing(kv, pos) /\ HoldsBlocks(kv, Window, pos)
<1>1. RatioOK /\ len' \in Nat
  BY LayersHaveRatios DEF RowsReady
<1>2. PICK t \in Nat : t = Window + blocks
  OBVIOUS
<1>3. kv = [i \in 1..t |-> IF i <= Window THEN ring'[i - 1] ELSE comp'[i - Window - 1]]
  BY <1>2 DEF Unified
<1>4. IsList(kv, t) /\ Len(kv) = t
  <2>1. IsList(kv, t)
    BY <1>3 DEF IsList
  <2> QED
    BY <2>1, ListIsSeq
<1>5. InRing(kv, pos)
  <2>0. PICK first \in 0..pos : first = Oldest(pos) /\ pos - first < Window
    BY OldestToken
  <2>1. ASSUME NEW tok \in first..pos PROVE kv[(tok % Window) + 1] = Kv(tok)
    <3>1. tok \in Nat /\ tok <= pos /\ pos - tok < Window
      BY <2>0
    <3>2. InWindow(tok)'
      <4>1. tok \in 0..(len' - 1) /\ len' - tok <= Window
        BY <1>1, <3>1, NewestTokens
      <4> QED
        BY <4>1 DEF InWindow
    <3>3. ring'[tok % Window] = Kv(tok)
      BY <3>1, <3>2 DEF Inv, RingHoldsTheNewest
    <3>4. PICK slot \in 0..(Window - 1) : slot = tok % Window
      BY <3>1, ModFacts
    <3>5. slot + 1 \in 1..t /\ slot + 1 <= Window /\ (slot + 1) - 1 = slot
      BY <1>2
    <3>6. kv[slot + 1] = ring'[slot]
      BY <1>3, <3>5
    <3> QED
      BY <3>3, <3>4, <3>6
  <2> QED
    BY <1>2, <1>4, <2>0, <2>1 DEF InRing
<1>6. HoldsBlocks(kv, Window, pos)
  <2>1. Complete(pos) \in Nat /\ Complete(pos) <= len' \div ratio /\ len' \div ratio \in Nat
    BY <1>1, CompleteSoFar
  <2>2. ASSUME NEW x \in 0..(Complete(pos) - 1)
        PROVE  Window + x \in 0..(Len(kv) - 1) /\ kv[Window + x + 1] = PoolOf(x)
    <3>1. /\ Window + x + 1 \in 1..t /\ ~(Window + x + 1 <= Window)
          /\ (Window + x + 1) - Window - 1 = x /\ x \in 0..(len' \div ratio - 1)
      BY <1>2, <2>1
    <3>2. kv[Window + x + 1] = comp'[x]
      BY <1>3, <3>1
    <3>3. comp'[x] = PoolOf(x)
      BY <3>1 DEF RowsReady
    <3>4. Window + x \in 0..(Len(kv) - 1)
      BY <1>4, <3>1
    <3> QED
      BY <3>2, <3>3, <3>4
  <2> QED
    BY <2>2 DEF HoldsBlocks
<1>7. Window <= Len(kv)
  BY <1>2, <1>4
<1> QED
  BY <1>4, <1>5, <1>6, <1>7, ListIsSeq

\* Both halves of the invariant, before and after a step.
StepOK == CompressorInv /\ Inv /\ CompressorInv' /\ Inv' /\ UNCHANGED layer

ReadsOK == read' = Refused \/ \A q \in DOMAIN read' : ReadsItsContext(read'[q])

LEMMA StepFacts ==
  ASSUME StepOK
  PROVE  /\ RowsReady /\ RatioOK /\ len \in Nat /\ len' \in Nat /\ len' <= MaxLen
         /\ Window \in Nat \ {0} /\ IndexTopk \in Nat \ {0} /\ MaxLen \in Nat
BY StepLeavesRows, LayersHaveRatios, DsAssumption DEF StepOK, CompressorInv

LEMMA ChunkLength ==
  ASSUME NEW n, NEW first, Chunk(n, first)
  PROVE  len' = len + n
BY DEF Chunk

LEMMA BlocksUpTo ==
  ASSUME RatioOK, NEW end \in Nat
  PROVE  /\ end \div ratio \in Nat
         /\ \A pos \in 0..(end - 1) : Complete(pos) <= end \div ratio
<1>1. PICK w \in Nat \ {0} : w = ratio
  BY DEF RatioOK
<1>2. end \div w \in Nat
  BY ModFacts
<1>3. ASSUME NEW pos \in 0..(end - 1) PROVE Complete(pos) <= end \div ratio
  <2>1. pos \in Nat /\ pos < end
    OBVIOUS
  <2> QED
    BY <2>1, CompleteSoFar
<1> QED
  BY <1>1, <1>2, <1>3

\* The indices of a chunk of n tokens whose rows lie in order, total of them.
InOrderIndices(window, compressed, start, total, n, careful, newest) ==
  \A pos \in len..(len + n - 1) :
    /\ start <= Oldest(pos)
    /\ window[pos] = WindowTopkIndicesChrono(pos, start, total)
    /\ \/ compressed[pos] = FirstCompressOf(pos, len' \div ratio, total, careful, newest)
       \/ compressed[pos] = CompressOf(pos, len' \div ratio, total, careful, newest)

\* What the queries of a chunk of n tokens read.
Answers(kernel, kv, window, compressed, n) ==
  read' = Refused \/ read' = Attend(kernel, kv, window, compressed, len, n)

LEMMA AnswersRead ==
  ASSUME RatioOK, Window \in Nat \ {0}, IndexTopk \in Nat \ {0}, len \in Nat,
         NEW S, NEW kv \in Seq(S), NEW n \in Nat, NEW offset \in Nat, NEW kernel, NEW window, NEW compressed,
         WellServed(kernel, kv, window, compressed, offset, len, n), Answers(kernel, kv, window, compressed, n)
  PROVE  ReadsOK
<1>1. CASE read' = Refused
  BY <1>1 DEF ReadsOK
<1>2. CASE read' # Refused
  <2>1. PICK reads, start : /\ reads = Attend(kernel, kv, window, compressed, start, n)
                            /\ reads = read' /\ start = len
    BY <1>2 DEF Answers
  <2>2. start \in Nat /\ WellServed(kernel, kv, window, compressed, offset, start, n)
    BY <2>1
  <2>3. \A q \in DOMAIN reads : ReadsItsContext(reads[q])
    BY <2>1, <2>2, ChunkReads
  <2> QED
    BY <2>1, <2>3 DEF ReadsOK
<1> QED
  BY <1>1, <1>2

\* Chunks that attend to rows in order.
LEMMA ReadsInOrder ==
  ASSUME StepOK, NEW m \in Nat, NEW n \in Nat, NEW start \in Nat, NEW older, NEW kv, NEW careful \in BOOLEAN, NEW newest \in BOOLEAN,
         NEW kernel \in {"sparse", "flashmla"}, NEW window, NEW compressed,
         LaidBehind(kv, older, m, start, n),
         InOrderIndices(window, compressed, start, m + n, n, careful, newest),
         Answers(kernel, kv, window, compressed, n)
  PROVE  ReadsOK
<1>1. RowsReady /\ RatioOK /\ len \in Nat /\ len' \in Nat /\ Window \in Nat \ {0} /\ IndexTopk \in Nat \ {0}
  BY StepFacts
<1>2. PICK S : kv \in Seq(S)
  BY <1>1, RowsBehind
<1>3. InOrder(kv, start, m + n) /\ \A pos \in 0..(len' - 1) : HoldsBlocks(kv, m + n, pos)
  BY <1>1, RowsBehind
<1>4. PICK total \in Nat : total = m + n
  OBVIOUS
<1>5. len' = len + n /\ start + total = len'
  BY <1>1, <1>4 DEF LaidBehind
<1>6. PICK blocks \in Nat : blocks = len' \div ratio /\ \A pos \in 0..(len' - 1) : Complete(pos) <= blocks
  BY <1>1, BlocksUpTo
<1>7. ASSUME NEW pos \in len..(len + n - 1)
      PROVE  NamesWindow(kv, window[pos], pos) /\ GivesBlocks(kv, compressed[pos], pos, total)
  <2>1. pos \in Nat /\ pos < len' /\ pos \in 0..(len' - 1) /\ pos < start + total
    BY <1>1, <1>5
  <2>2. /\ start <= Oldest(pos)
        /\ window[pos] = WindowTopkIndicesChrono(pos, start, total)
        /\ \/ compressed[pos] = FirstCompressOf(pos, blocks, total, careful, newest)
           \/ compressed[pos] = CompressOf(pos, blocks, total, careful, newest)
    BY <1>4, <1>6 DEF InOrderIndices
  <2>3. NamesWindow(kv, WindowTopkIndicesChrono(pos, start, total), pos)
    BY <1>1, <1>2, <1>3, <1>4, <2>1, <2>2, ChronoWindow
  <2>4. HoldsBlocks(kv, total, pos) /\ Complete(pos) <= blocks
    BY <1>3, <1>4, <1>6, <2>1
  <2>5. /\ GivesBlocks(kv, FirstCompressOf(pos, blocks, total, careful, newest), pos, total)
        /\ GivesBlocks(kv, CompressOf(pos, blocks, total, careful, newest), pos, total)
    BY <1>1, <2>1, <2>4, BlocksGiven
  <2> QED
    BY <2>2, <2>3, <2>5
<1>8. WellServed(kernel, kv, window, compressed, total, len, n)
  BY <1>7 DEF WellServed
<1> QED
  BY <1>1, <1>2, <1>4, <1>8, AnswersRead

LEMMA FirstPrefillReads ==
  ASSUME StepOK, NEW n \in Nat, NEW careful \in BOOLEAN, NEW newest \in BOOLEAN, NEW kernel \in {"sparse", "flashmla"},
         FirstPrefill(n, careful, newest, kernel)
  PROVE  ReadsOK
<1>1. len = 0 /\ len' = n
  <2>1. len = 0 /\ Chunk(n, TRUE)
    BY DEF FirstPrefill
  <2>2. len' = len + n
    BY <2>1, ChunkLength
  <2> QED
    BY <2>1, <2>2
<1>2. RatioOK /\ Window \in Nat \ {0}
  BY StepFacts
<1>3. PICK window : window = [pos \in Queries(0, n) |-> WindowTopkIndices(pos)]
  OBVIOUS
<1>4. PICK compressed : compressed = [pos \in Queries(0, n) |-> FirstCompressOf(pos, n \div ratio, n, careful, newest)]
  OBVIOUS
<1>5. PICK older, kv : older = <<>> /\ kv = Behind(older, n) /\ IsList(older, 0)
  BY DEF IsList
<1>6. Answers(kernel, kv, window, compressed, n)
  BY <1>1, <1>3, <1>4, <1>5 DEF FirstPrefill, Answers
<1>7. LaidBehind(kv, older, 0, 0, n)
  BY <1>1, <1>5 DEF LaidBehind
<1>8. ASSUME NEW pos \in len..(len + n - 1)
      PROVE  /\ 0 <= Oldest(pos)
             /\ window[pos] = WindowTopkIndicesChrono(pos, 0, n)
             /\ compressed[pos] = FirstCompressOf(pos, len' \div ratio, n, careful, newest)
  <2>1. pos \in Queries(0, n) /\ pos \in Nat /\ pos < n
    BY <1>1 DEF Queries
  <2>2. WindowTopkIndices(pos) = WindowTopkIndicesChrono(pos, 0, n)
    BY <1>2, <2>1, FirstWindow
  <2>3. 0 <= Oldest(pos)
    BY <1>2, <2>1, OldestToken
  <2> QED
    BY <1>1, <1>3, <1>4, <2>1, <2>2, <2>3
<1>9. InOrderIndices(window, compressed, 0, 0 + n, n, careful, newest)
  <2>1. 0 + n = n
    OBVIOUS
  <2> QED
    BY <1>8, <2>1 DEF InOrderIndices
<1> QED
  BY <1>6, <1>7, <1>9, ReadsInOrder

\* What is left of the window in the ring, in order.
LEMMA GatheredRing ==
  ASSUME Inv, Window \in Nat \ {0}, NEW start \in Nat, start <= len, len - start < Window,
         NEW m, m = len - start
  PROVE  GatherRingChrono(start, m) = [i \in 1..m |-> Kv(start + i - 1)]
<1>1. len \in Nat /\ m \in Nat
  BY DEF Inv
<1>2. ASSUME NEW i \in 1..m PROVE ring[(start + i - 1) % Window] = Kv(start + i - 1)
  <2>1. start + i - 1 \in Nat /\ start + i - 1 \in 0..(len - 1) /\ len - (start + i - 1) <= Window
    BY <1>1
  <2> QED
    BY <2>1 DEF Inv, RingHoldsTheNewest, InWindow
<1> QED
  BY <1>2 DEF GatherRingChrono

LEMMA ContinuedPrefillReads ==
  ASSUME StepOK, NEW n \in Nat, NEW careful \in BOOLEAN, NEW newest \in BOOLEAN, NEW kernel \in {"sparse", "flashmla"},
         ContinuedPrefill(n, careful, newest, kernel)
  PROVE  ReadsOK
<1>1. len' = len + n
  BY ChunkLength DEF ContinuedPrefill
<1>2. RatioOK /\ Window \in Nat \ {0} /\ len \in Nat /\ Inv
  BY StepFacts DEF StepOK
<1>3. PICK start \in Nat : start = Max({0, len - (Window - 1)})
  BY <1>2, LargerOf
<1>4. start <= len /\ len - start < Window /\ (start = 0 \/ start = len - (Window - 1))
  <2>1. Max({0, len - (Window - 1)}) = IF 0 <= len - (Window - 1) THEN len - (Window - 1) ELSE 0
    BY <1>2, LargerOf
  <2> QED
    BY <1>2, <1>3, <2>1
<1>5. PICK m \in Nat : m = len - start
  BY <1>2, <1>4
<1>6. PICK total \in Nat : total = len - start + n /\ total = m + n
  BY <1>2, <1>5
<1>7. PICK window : window = [pos \in Queries(len, n) |-> WindowTopkIndicesChrono(pos, start, total)]
  OBVIOUS
<1>8. PICK compressed : compressed = [pos \in Queries(len, n) |-> CompressOf(pos, (len + n) \div ratio, total, careful, newest)]
  OBVIOUS
<1>9. PICK older, kv : older = GatherRingChrono(start, len - start) /\ kv = Behind(older, n)
  OBVIOUS
<1>10. Answers(kernel, kv, window, compressed, n)
  BY <1>3, <1>6, <1>7, <1>8, <1>9 DEF ContinuedPrefill, Answers
<1>11. older = [i \in 1..m |-> Kv(start + i - 1)]
  BY <1>2, <1>4, <1>5, <1>9, GatheredRing
<1>12. ASSUME NEW pos \in len..(len + n - 1)
       PROVE  /\ start <= Oldest(pos)
              /\ window[pos] = WindowTopkIndicesChrono(pos, start, m + n)
              /\ compressed[pos] = CompressOf(pos, len' \div ratio, m + n, careful, newest)
  <2>1. pos \in Queries(len, n) /\ pos \in Nat /\ pos >= len
    BY <1>2 DEF Queries
  <2>2. start <= Oldest(pos)
    BY <1>2, <1>4, <2>1 DEF Oldest
  <2> QED
    BY <1>1, <1>6, <1>7, <1>8, <2>1, <2>2
<1>13. LaidBehind(kv, older, m, start, n)
  <2>1. start + m = len
    BY <1>2, <1>5
  <2>2. IsList(older, m) /\ \A i \in 1..m : older[i] = Kv(start + i - 1)
    BY <1>11 DEF IsList
  <2> QED
    BY <1>1, <1>9, <2>1, <2>2 DEF LaidBehind
<1>14. InOrderIndices(window, compressed, start, m + n, n, careful, newest)
  BY <1>12 DEF InOrderIndices
<1> QED
  BY <1>10, <1>13, <1>14, ReadsInOrder

\* The indices of n queries of the cache, which shows them some of its blocks.
CacheIndices(window, compressed, blocks, n, careful, newest) ==
  \A pos \in len..(len + n - 1) :
    /\ Complete(pos) <= blocks
    /\ window[pos] = WindowTopkIndicesDecode(pos)
    /\ \/ compressed[pos] = CompressOf(pos, blocks, Window, careful, newest)
       \/ compressed[pos] = GraphCompressOf(pos, blocks, careful, newest) /\ ListLasts(blocks)
       \/ /\ compressed[pos] = DecodeCompressOf(blocks, careful, newest)
          /\ ListLasts(blocks) /\ blocks = Complete(pos)

\* Chunks and decode steps that attend to the ring.
LEMMA ReadsOfTheCache ==
  ASSUME StepOK, NEW n \in Nat, len' = len + n, n = 1 \/ len + n <= Window,
         NEW blocks \in Nat, NEW kernel \in {"sparse", "flashmla", "flashinfer"}, NEW careful \in BOOLEAN, NEW newest \in BOOLEAN,
         NEW window, NEW compressed, CacheIndices(window, compressed, blocks, n, careful, newest),
         NEW kv, kv = Unified(ring', comp', blocks), Answers(kernel, kv, window, compressed, n)
  PROVE  ReadsOK
<1>1. kv = Unified(ring', comp', blocks) /\ (n = 1 \/ len + n <= Window)
  OBVIOUS
<1>2. RowsReady /\ RatioOK /\ len \in Nat /\ len' \in Nat /\ Window \in Nat \ {0} /\ IndexTopk \in Nat \ {0} /\ Inv'
  BY StepFacts DEF StepOK
<1>3. kv = [i \in 1..(Window + blocks) |-> kv[i]]
  BY <1>1 DEF Unified
<1>4. IsList(kv, Window + blocks) /\ Window + blocks \in Nat
  BY <1>2, <1>3 DEF IsList
<1>5. PICK S : kv \in Seq(S)
  BY <1>4, ListIsSeq
<1>6. Len(kv) = Window + blocks
  BY <1>4, ListIsSeq
<1>7. ASSUME NEW pos \in len..(len + n - 1)
      PROVE  NamesWindow(kv, window[pos], pos) /\ GivesBlocks(kv, compressed[pos], pos, Window)
  <2>1. pos \in Nat /\ pos < len' /\ (len' - 1 = pos \/ len' <= Window)
    BY <1>2
  <2>2. /\ Complete(pos) <= blocks
        /\ window[pos] = WindowTopkIndicesDecode(pos)
        /\ \/ compressed[pos] = CompressOf(pos, blocks, Window, careful, newest)
           \/ compressed[pos] = GraphCompressOf(pos, blocks, careful, newest) /\ ListLasts(blocks)
           \/ /\ compressed[pos] = DecodeCompressOf(blocks, careful, newest)
              /\ ListLasts(blocks) /\ blocks = Complete(pos)
    BY DEF CacheIndices
  <2>3. InRing(kv, pos) /\ HoldsBlocks(kv, Window, pos)
    BY <1>1, <1>2, <2>1, <2>2, RowsOfTheCache
  <2>4. Len(kv) \in Nat /\ Window \in Nat
    BY <1>2, <1>4, <1>6
  <2>5. NamesWindow(kv, WindowTopkIndicesDecode(pos), pos)
    BY <1>2, <2>1, <2>3, <2>4, RingWindow
  <2>6. PICK offset \in Nat : offset = Window
    BY <2>4
  <2>7. /\ GivesBlocks(kv, CompressOf(pos, blocks, offset, careful, newest), pos, offset)
        /\ ListLasts(blocks) => GivesBlocks(kv, GraphCompressOf(pos, blocks, careful, newest), pos, offset)
        /\ ListLasts(blocks) /\ blocks = Complete(pos) =>
             GivesBlocks(kv, DecodeCompressOf(blocks, careful, newest), pos, offset)
    BY <1>2, <2>1, <2>2, <2>3, <2>6, BlocksGiven
  <2> QED
    BY <2>2, <2>5, <2>6, <2>7
<1>8. PICK offset \in Nat : offset = Window
  BY <1>2
<1>9. WellServed(kernel, kv, window, compressed, offset, len, n)
  BY <1>2, <1>4, <1>6, <1>7, <1>8 DEF WellServed
<1> QED
  BY <1>2, <1>5, <1>8, <1>9, AnswersRead

LEMMA RingPrefillReads ==
  ASSUME StepOK, NEW n \in Nat, NEW careful \in BOOLEAN, NEW newest \in BOOLEAN, NEW kernel \in {"sparse", "flashmla"},
         RingPrefill(n, careful, newest, kernel)
  PROVE  ReadsOK
<1>1. len' = len + n /\ (n = 1 \/ len + n <= Window)
  BY ChunkLength DEF RingPrefill
<1>2. RatioOK /\ len \in Nat /\ len' \in Nat
  BY StepFacts
<1>3. PICK blocks : blocks = (len + n) \div ratio
  OBVIOUS
<1>4. PICK window : window = [pos \in Queries(len, n) |-> WindowTopkIndicesPrefillFromPos(pos)]
  OBVIOUS
<1>5. PICK compressed : compressed = [pos \in Queries(len, n) |-> CompressOf(pos, blocks, Window, careful, newest)]
  OBVIOUS
<1>6. PICK kv : kv = Unified(ring', comp', blocks)
  OBVIOUS
<1>7. Answers(kernel, kv, window, compressed, n)
  BY <1>3, <1>4, <1>5, <1>6 DEF RingPrefill, Answers
<1>8. PICK end \in Nat : len + n = end
  BY <1>2
<1>9. blocks \in Nat /\ \A pos \in 0..(end - 1) : Complete(pos) <= blocks
  BY <1>2, <1>3, <1>8, BlocksUpTo
<1>10. CacheIndices(window, compressed, blocks, n, careful, newest)
  <2>1. ASSUME NEW pos \in len..(len + n - 1)
        PROVE  /\ Complete(pos) <= blocks
               /\ window[pos] = WindowTopkIndicesDecode(pos)
               /\ compressed[pos] = CompressOf(pos, blocks, Window, careful, newest)
    <3>1. pos \in Queries(len, n)
      BY DEF Queries
    <3>2. pos \in 0..(end - 1)
      BY <1>2, <1>8
    <3> QED
      BY <1>4, <1>5, <1>9, <3>1, <3>2 DEF WindowTopkIndicesPrefillFromPos
  <2> QED
    BY <2>1 DEF CacheIndices
<1> QED
  BY <1>1, <1>6, <1>7, <1>9, <1>10, ReadsOfTheCache

\* A decode step: one query.
LEMMA OneQuery ==
  ASSUME StepOK, len' = len + 1, NEW blocks \in Nat, Complete(len) <= blocks, ListLasts(blocks), NEW kernel \in {"sparse", "flashmla", "flashinfer"},
         NEW careful \in BOOLEAN, NEW newest \in BOOLEAN, NEW window, NEW compressed, window = [pos \in {len} |-> WindowTopkIndicesDecode(pos)],
         \/ compressed = [pos \in {len} |-> GraphCompressOf(pos, blocks, careful, newest)]
         \/ compressed = [pos \in {len} |-> DecodeCompressOf(blocks, careful, newest)] /\ blocks = Complete(len),
         NEW kv, kv = Unified(ring', comp', blocks), Answers(kernel, kv, window, compressed, 1)
  PROVE  ReadsOK
<1>1. len \in Nat
  BY StepFacts
<1>2. window[len] = WindowTopkIndicesDecode(len)
  OBVIOUS
<1>3. \/ compressed[len] = GraphCompressOf(len, blocks, careful, newest)
      \/ compressed[len] = DecodeCompressOf(blocks, careful, newest) /\ blocks = Complete(len)
  OBVIOUS
<1>4. CacheIndices(window, compressed, blocks, 1, careful, newest)
  <2>1. \A pos \in len..(len + 1 - 1) : pos = len
    BY <1>1
  <2> QED
    BY <1>2, <1>3, <2>1 DEF CacheIndices
<1>5. PICK n \in Nat : n = 1
  OBVIOUS
<1>6. len' = len + n /\ CacheIndices(window, compressed, blocks, n, careful, newest) /\ Answers(kernel, kv, window, compressed, n)
  BY <1>4, <1>5
<1>7. kernel \in {"sparse", "flashmla", "flashinfer"}
  OBVIOUS
<1> QED
  BY <1>5, <1>6, <1>7, ReadsOfTheCache

\* The decode kernel that lists its picks is not outrun: what it is asked for fits, or
\* the sequence never has so many blocks that it is used.
NeverOutrun == IndexTopk <= Remembered + 1 \/ \A l \in Layers : MaxLen \div l.ratio < SortRows

LEMMA RoomForEveryBlock ==
  ASSUME RowsReady, NeverOutrun, NEW blocks \in Nat, blocks <= (MaxLen \div ratio) + 1
  PROVE  ListLasts(blocks)
<1>1. CASE IndexTopk <= Remembered + 1
  BY <1>1 DEF ListLasts
<1>2. CASE ~(IndexTopk <= Remembered + 1)
  <2>1. MaxLen \div ratio < SortRows /\ RatioOK
    BY <1>2, LayersHaveRatios DEF NeverOutrun, RowsReady, ratio
  <2>2. MaxLen \div ratio \in Nat /\ SortRows \in Nat
    BY <2>1, BlocksUpTo, DsAssumption
  <2> QED
    BY <2>1, <2>2 DEF ListLasts
<1> QED
  BY <1>1, <1>2

LEMMA DecodeReads ==
  ASSUME StepOK, NeverOutrun, NEW careful \in BOOLEAN, NEW newest \in BOOLEAN,
         NEW kernel \in {"sparse", "flashmla", "flashinfer"}, Decode(careful, newest, kernel)
  PROVE  ReadsOK
<1>1. len' = len + 1
  BY DEF Decode, Decoded
<1>2. RowsReady /\ RatioOK /\ len \in Nat /\ len' <= MaxLen /\ MaxLen \in Nat
  BY StepFacts
<1>3. PICK blocks \in Nat : blocks = Complete(len) /\ blocks <= MaxLen \div ratio /\ MaxLen \div ratio \in Nat
  <2>1. len < MaxLen
    BY <1>1, <1>2
  <2> QED
    BY <1>2, <2>1, CompleteSoFar
<1>4. PICK window : window = [pos \in {len} |-> WindowTopkIndicesDecode(pos)]
  OBVIOUS
<1>5. PICK compressed : compressed = [pos \in {len} |-> DecodeCompressOf(blocks, careful, newest)]
  OBVIOUS
<1>6. PICK kv : kv = Unified(ring', comp', blocks)
  OBVIOUS
<1>7. Answers(kernel, kv, window, compressed, 1)
  BY <1>3, <1>4, <1>5, <1>6 DEF Decode, Answers
<1>8. Complete(len) <= blocks /\ blocks <= (MaxLen \div ratio) + 1
  BY <1>3
<1>9. ListLasts(blocks)
  BY <1>2, <1>8, RoomForEveryBlock
<1> QED
  BY <1>1, <1>3, <1>4, <1>5, <1>6, <1>7, <1>8, <1>9, OneQuery

LEMMA DecodeGraphReads ==
  ASSUME StepOK, NeverOutrun, NEW careful \in BOOLEAN, NEW newest \in BOOLEAN,
         NEW kernel \in {"sparse", "flashmla", "flashinfer"}, DecodeGraph(careful, newest, kernel)
  PROVE  ReadsOK
<1>1. len' = len + 1
  BY DEF DecodeGraph, Decoded
<1>2. RowsReady /\ RatioOK /\ len \in Nat /\ len' <= MaxLen /\ MaxLen \in Nat
  BY StepFacts
<1>3. PICK all \in Nat : all = MaxLen \div ratio
  BY <1>2, BlocksUpTo
<1>4. PICK blocks \in Nat : blocks = Cardinality(Blocks) /\ blocks = all + 1
  <2>1. Cardinality(0..all) = all + 1
    BY CountEntries
  <2> QED
    BY <1>3, <2>1 DEF Blocks
<1>5. PICK window : window = [pos \in {len} |-> WindowTopkIndicesDecode(pos)]
  OBVIOUS
<1>6. PICK compressed : compressed = [pos \in {len} |-> GraphCompressOf(pos, blocks, careful, newest)]
  OBVIOUS
<1>7. PICK kv : kv = Unified(ring', comp', blocks)
  OBVIOUS
<1>8. Answers(kernel, kv, window, compressed, 1)
  BY <1>4, <1>5, <1>6, <1>7 DEF DecodeGraph, Answers, WindowTopkIndicesDecodeFromPos
<1>9. Complete(len) <= blocks
  <2>1. len < MaxLen
    BY <1>1, <1>2
  <2>2. Complete(len) \in Nat /\ Complete(len) <= all
    BY <1>2, <1>3, <2>1, CompleteSoFar
  <2> QED
    BY <1>3, <1>4, <2>2
<1>10. ListLasts(blocks)
  BY <1>2, <1>3, <1>4, RoomForEveryBlock
<1> QED
  BY <1>1, <1>5, <1>6, <1>7, <1>8, <1>9, <1>10, OneQuery

\* Every step that serves tokens.
LEMMA NextReads ==
  ASSUME StepOK, NeverOutrun, DsNext
  PROVE  ReadsOK
<1>1. PICK careful, newest \in BOOLEAN :
        \/ \E n \in 1..LongestChunk, kernel \in {"sparse", "flashmla"} :
             \/ FirstPrefill(n, careful, newest, kernel)
             \/ ContinuedPrefill(n, careful, newest, kernel)
             \/ RingPrefill(n, careful, newest, kernel)
        \/ \E kernel \in {"sparse", "flashmla", "flashinfer"} :
             Decode(careful, newest, kernel) \/ DecodeGraph(careful, newest, kernel)
  BY DEF DsNext
<1>2. ASSUME NEW n \in 1..LongestChunk, NEW kernel \in {"sparse", "flashmla"},
             \/ FirstPrefill(n, careful, newest, kernel)
             \/ ContinuedPrefill(n, careful, newest, kernel)
             \/ RingPrefill(n, careful, newest, kernel)
      PROVE  ReadsOK
  <2>1. n \in Nat
    BY DsAssumption
  <2> QED
    BY <1>2, <2>1, FirstPrefillReads, ContinuedPrefillReads, RingPrefillReads
<1>3. ASSUME NEW kernel \in {"sparse", "flashmla", "flashinfer"},
             Decode(careful, newest, kernel) \/ DecodeGraph(careful, newest, kernel)
      PROVE  ReadsOK
  BY <1>3, DecodeReads, DecodeGraphReads
<1> QED
  BY <1>1, <1>2, <1>3

\* Neither the layer nor what is expected of a query ever changes.
LEMMA LayerStays ==
  ASSUME DsNext
  PROVE  UNCHANGED layer
<1>1. ASSUME NEW n, NEW first, Chunk(n, first) PROVE UNCHANGED layer
  BY <1>1 DEF Chunk
<1>2. ASSUME NEW c, Decoded(c) PROVE UNCHANGED layer
  BY <1>2 DEF Decoded
<1>3. ASSUME NEW n, NEW careful, NEW newest, NEW kernel,
             \/ FirstPrefill(n, careful, newest, kernel) \/ ContinuedPrefill(n, careful, newest, kernel)
             \/ RingPrefill(n, careful, newest, kernel)
      PROVE  UNCHANGED layer
  BY <1>1, <1>3 DEF FirstPrefill, ContinuedPrefill, RingPrefill
<1>4. ASSUME NEW careful, NEW newest, NEW kernel, Decode(careful, newest, kernel) \/ DecodeGraph(careful, newest, kernel)
      PROVE  UNCHANGED layer
  BY <1>2, <1>4 DEF Decode, DecodeGraph
<1> QED
  BY <1>3, <1>4 DEF DsNext

LEMMA ExpectedStays ==
  ASSUME UNCHANGED layer, NEW q \in DOMAIN read', ReadsItsContext(read'[q])
  PROVE  ReadsItsContext(read[q])'
<1>1. ratio' = ratio /\ \A b : PoolOf(b)' = PoolOf(b)
  BY LayerIsFixed
<1> QED
  BY <1>1 DEF ReadsItsContext, Complete

LEMMA StepReads ==
  ASSUME NeverOutrun, CompressorInv, Inv, CompressorInv', Inv', AttendsExactlyItsContext, [Next]_allVars
  PROVE  AttendsExactlyItsContext'
<1>1. UNCHANGED layer /\ (DsNext \/ UNCHANGED read)
  BY LayerStays DEF Next, allVars, dsVars
<1>2. ReadsOK
  <2>1. CASE DsNext
    BY <1>1, <2>1, NextReads DEF StepOK
  <2>2. CASE UNCHANGED read
    BY <2>2, EveryQuery DEF ReadsOK
  <2> QED
    BY <1>1, <2>1, <2>2
<1>3. ASSUME read' # Refused, NEW q \in DOMAIN read' PROVE ReadsItsContext(read[q])'
  BY <1>1, <1>2, <1>3, ExpectedStays DEF ReadsOK
<1> QED
  BY <1>3 DEF AttendsExactlyItsContext, ReadsItsContext

\* Unless the list of picks is outrun, every query that is served reads the rows of its
\* window, each once, and as many of the pooled rows of complete blocks as it is to:
\* whatever the ratio, the window, the chunks the sequence came in, the kernel, the
\* limits of the kernels and the blocks the indexer prefers.
THEOREM ContextIsReadExactly == NeverOutrun => (Spec => []AttendsExactlyItsContext)
<1> SUFFICES ASSUME NeverOutrun PROVE Spec => []AttendsExactlyItsContext
  OBVIOUS
<1>1. Init => CompressorInv /\ Inv /\ AttendsExactlyItsContext
  <2>1. Init => read = <<>>
    BY DEF Init, DsInit
  <2>2. read = <<>> => AttendsExactlyItsContext
    BY DEF AttendsExactlyItsContext
  <2> QED
    BY <2>1, <2>2, CompressorInvInit, InitInv
<1>2. CompressorInv /\ Inv /\ AttendsExactlyItsContext /\ [Next]_allVars
      => (CompressorInv /\ Inv /\ AttendsExactlyItsContext)'
  <2>1. CompressorInv /\ [Next]_allVars => CompressorInv'
    BY CompressorNext, CompressorStutters DEF Next, allVars
  <2> QED
    BY <2>1, StepInv, StepReads
<1> QED
  BY <1>1, <1>2, PTL DEF Spec

-------------------------------------------------------------------------------
(* Gated delta net.                                                          *)

LEMMA SameList ==
  ASSUME NEW n, NEW u, NEW v, IsList(u, n), IsList(v, n), \A i \in 1..n : u[i] = v[i]
  PROVE  u = v
<1>1. u = [i \in 1..n |-> u[i]] /\ v = [i \in 1..n |-> v[i]]
  BY DEF IsList
<1>2. [i \in 1..n |-> u[i]] = [i \in 1..n |-> v[i]]
  OBVIOUS
<1> QED
  BY <1>1, <1>2

\* A part of a list.
IsPart(part, u, a, b) == part = SubSeq(u, a + 1, b)

LEMMA PartOf ==
  ASSUME NEW n \in Nat, NEW u, IsList(u, n), NEW a \in Nat, NEW b \in Nat, a <= b, b <= n,
         NEW part, IsPart(part, u, a, b)
  PROVE  IsList(part, b - a) /\ \A i \in 1..(b - a) : part[i] = u[a + i]
<1>1. PICK S : u \in Seq(S) /\ Len(u) = n
  BY ListIsSeq
<1>2. PICK k \in Nat : k = b - a
  OBVIOUS
<1>3. part = [i \in 1..k |-> u[a + i]]
  <2>1. part = [i \in 1..(b - (a + 1) + 1) |-> u[(a + 1) + i - 1]]
    BY DEF SubSeq, IsPart
  <2>2. b - (a + 1) + 1 = k /\ \A i \in 1..k : (a + 1) + i - 1 = a + i
    BY <1>2
  <2> QED
    BY <2>1, <2>2
<1> QED
  BY <1>2, <1>3 DEF IsList

\* The input at a position, counted from the first; Nothing before it.
InputAt(seq, j) == IF j >= 1 THEN seq[j] ELSE Nothing

LEMMA LastInputsAre ==
  ASSUME NEW len0 \in Nat, NEW seq, IsList(seq, len0), NEW n \in Nat, n <= KernelSize
  PROVE  LastInputs(seq, n) = [i \in 1..n |-> InputAt(seq, len0 - n + i)]
<1>1. PICK K \in Nat \ {0} : K = KernelSize
  BY GdnAssumption
<1>2. PICK zeros, pad : zeros = Zeros /\ pad = zeros \o <<Nothing>>
  OBVIOUS
<1>3. IsList(pad, K) /\ \A i \in 1..K : pad[i] = Nothing
  <2>1. PICK k \in Nat : k = K - 1
    BY <1>1
  <2>2. zeros = [i \in 1..k |-> Nothing]
    BY <1>1, <1>2, <2>1 DEF Zeros, Width
  <2>3. PICK one : one = <<Nothing>>
    OBVIOUS
  <2>4. IsList(zeros, k) /\ IsList(one, 1) /\ one[1] = Nothing
    BY <2>2, <2>3 DEF IsList
  <2>5. Joined(pad, zeros, k, one, 1)
    BY <1>2, <2>3, <2>4 DEF Joined
  <2>6. /\ IsList(pad, k + 1)
        /\ \A i \in 1..k : pad[i] = zeros[i]
        /\ \A i \in 1..1 : pad[k + i] = one[i]
    BY <2>5, EndToEnd
  <2>7. ASSUME NEW i \in 1..K PROVE pad[i] = Nothing
    <3>1. CASE i \in 1..k
      BY <2>2, <2>6, <3>1
    <3>2. CASE i = k + 1
      BY <2>4, <2>6, <3>2
    <3> QED
      BY <2>1, <3>1, <3>2
  <2>8. k + 1 = K
    BY <2>1
  <2> QED
    BY <2>6, <2>7, <2>8
<1>4. PICK whole : whole = pad \o seq
  OBVIOUS
<1>5. /\ IsList(whole, K + len0)
      /\ \A i \in 1..K : whole[i] = pad[i]
      /\ \A i \in 1..len0 : whole[K + i] = seq[i]
  <2>1. Joined(whole, pad, K, seq, len0)
    BY <1>3, <1>4 DEF Joined
  <2> QED
    BY <2>1, EndToEnd
<1>6. Len(seq) = len0
  BY ListIsSeq
<1>7. PICK part, a, b : /\ part = LastInputs(seq, n) /\ a = K + len0 - n /\ b = K + len0
                        /\ a \in Nat /\ b \in Nat /\ a <= b
  BY <1>1
<1>8. IsPart(part, whole, a, b)
  <2>1. part = SubSeq(whole, K + len0 - n + 1, K + len0)
    BY <1>1, <1>2, <1>4, <1>6, <1>7 DEF LastInputs
  <2> QED
    BY <1>7, <2>1 DEF IsPart
<1>9. IsList(part, b - a) /\ \A i \in 1..(b - a) : part[i] = whole[a + i]
  <2>1. PICK t \in Nat : t = K + len0
    OBVIOUS
  <2>2. IsList(whole, t) /\ b <= t
    BY <1>5, <1>7, <2>1
  <2> QED
    BY <1>7, <1>8, <2>2, PartOf
<1>10. b - a = n
  BY <1>7
<1>11. ASSUME NEW i \in 1..n PROVE part[i] = InputAt(seq, len0 - n + i)
  <2>1. part[i] = whole[a + i]
    BY <1>9, <1>10
  <2>2. CASE len0 - n + i >= 1
    <3>1. PICK j \in 1..len0 : j = len0 - n + i
      BY <2>2
    <3>2. a + i = K + j
      BY <1>7, <3>1
    <3> QED
      BY <1>5, <2>1, <2>2, <3>1, <3>2 DEF InputAt
  <2>3. CASE ~(len0 - n + i >= 1)
    <3>1. a + i \in 1..K
      BY <1>1, <1>7, <2>3
    <3> QED
      BY <1>3, <1>5, <2>1, <2>3, <3>1 DEF InputAt
  <2> QED
    BY <2>2, <2>3
<1>12. part = [i \in 1..n |-> part[i]]
  BY <1>9, <1>10 DEF IsList
<1> QED
  BY <1>7, <1>11, <1>12

\* A slot's tokens f, and after them those of a list x from a + 1 to b.
Seen(f, x, a, b) == f \o SubSeq(x, a + 1, b)

IsSeq(u) == Len(u) \in Nat /\ IsList(u, Len(u))

Stretch(f, x, a, b) ==
  /\ IsSeq(f) /\ a \in Nat /\ b \in Nat /\ a <= b
  /\ \E n \in Nat : IsList(x, n) /\ b <= n

LEMMA SeenIs ==
  ASSUME NEW f, NEW x, NEW a, NEW b, Stretch(f, x, a, b)
  PROVE  LET seq == Seen(f, x, a, b)
         IN /\ IsSeq(seq) /\ Len(seq) = Len(f) + (b - a)
            /\ \A j \in 1..Len(f) : seq[j] = f[j]
            /\ \A j \in 1..(b - a) : seq[Len(f) + j] = x[a + j]
<1>8. PICK seq : seq = Seen(f, x, a, b)
  OBVIOUS
<1>9. a \in Nat /\ b \in Nat /\ a <= b
  BY DEF Stretch
<1>10. PICK n \in Nat : IsList(x, n) /\ b <= n
  BY DEF Stretch
<1>1. PICK m \in Nat : m = Len(f) /\ IsList(f, m)
  BY DEF IsSeq, Stretch
<1>2. PICK part : IsPart(part, x, a, b)
  BY DEF IsPart
<1>0. PICK k \in Nat : b - a = k
  BY <1>9
<1>3. IsList(part, k) /\ \A j \in 1..k : part[j] = x[a + j]
  <2>1. IsList(part, b - a) /\ \A j \in 1..(b - a) : part[j] = x[a + j]
    BY <1>2, <1>9, <1>10, PartOf
  <2> QED
    BY <1>0, <2>1
<1>4. Joined(seq, f, m, part, k)
  BY <1>1, <1>2, <1>3, <1>8 DEF Joined, Seen, IsPart
<1>5. /\ IsList(seq, m + k)
      /\ \A j \in 1..m : seq[j] = f[j]
      /\ \A j \in 1..k : seq[m + j] = part[j]
  BY <1>4, EndToEnd
<1>6. PICK t \in Nat : t = m + k
  OBVIOUS
<1>7. IsList(seq, t) /\ Len(seq) = t
  BY <1>5, <1>6, ListIsSeq
<1> QED
  <2>1. IsSeq(seq) /\ Len(seq) = Len(f) + (b - a)
    BY <1>0, <1>1, <1>6, <1>7 DEF IsSeq
  <2>2. \A j \in 1..Len(f) : seq[j] = f[j]
    BY <1>1, <1>5
  <2>3. \A j \in 1..(b - a) : seq[Len(f) + j] = x[a + j]
    BY <1>0, <1>1, <1>3, <1>5
  <2> QED
    BY <1>8, <2>1, <2>2, <2>3

\* Nothing served yet.
LEMMA NothingSeen ==
  ASSUME NEW f, NEW x, NEW a, Stretch(f, x, a, a)
  PROVE  Seen(f, x, a, a) = f
<1>1. PICK seq : seq = Seen(f, x, a, a)
  OBVIOUS
<1>2. PICK m \in Nat : m = Len(f) /\ IsList(f, m)
  BY DEF IsSeq, Stretch
<1>3. IsSeq(seq) /\ Len(seq) = Len(f) + (a - a) /\ \A j \in 1..Len(f) : seq[j] = f[j]
  BY <1>1, SeenIs
<1>4. IsList(seq, m) /\ \A j \in 1..m : seq[j] = f[j]
  <2>1. a \in Nat
    BY DEF Stretch
  <2>2. Len(f) + (a - a) = m
    BY <1>2, <2>1
  <2> QED
    BY <1>2, <1>3, <2>2 DEF IsSeq
<1>5. seq = f
  BY <1>2, <1>4, SameList
<1> QED
  BY <1>1, <1>5

LEMMA Kernel == KernelSize \in Nat /\ Width \in Nat \ {0} /\ Width + 1 = KernelSize
BY GdnAssumption DEF Width

\* A row's inputs, the first of them what its state carries.
OfRow(x, st, a, j) == IF j >= 0 THEN x[a + j + 1] ELSE st[j + KernelSize]

HoldsLast(st, f) == st = LastInputs(f, Width)

LEMMA InputOfRow ==
  ASSUME NEW f, NEW x, NEW a, NEW b, Stretch(f, x, a, b), NEW st, HoldsLast(st, f),
         NEW j \in Int, -Width <= j, j < b - a
  PROVE  OfRow(x, st, a, j) = InputAt(Seen(f, x, a, b), Len(f) + j + 1)
<1>1. PICK K \in Nat, w \in Nat : K = KernelSize /\ w = Width /\ K = w + 1
  BY Kernel
<1>2. PICK m \in Nat : m = Len(f) /\ IsList(f, m)
  BY DEF Stretch, IsSeq
<1>3. PICK seq : seq = Seen(f, x, a, b)
  OBVIOUS
<1>4. /\ \A i \in 1..m : seq[i] = f[i]
      /\ \A i \in 1..(b - a) : seq[m + i] = x[a + i]
  BY <1>2, <1>3, SeenIs
<1>5. a \in Nat /\ b \in Nat
  BY DEF Stretch
<1>6. CASE j >= 0
  <2>1. j + 1 \in 1..(b - a) /\ m + j + 1 >= 1 /\ m + (j + 1) = m + j + 1 /\ a + (j + 1) = a + j + 1
    BY <1>5, <1>6
  <2> QED
    BY <1>2, <1>3, <1>4, <1>6, <2>1 DEF OfRow, InputAt
<1>7. CASE j < 0
  <2>1. PICK i \in 1..w : i = j + K
    BY <1>1, <1>7
  <2>2. st = [k \in 1..w |-> InputAt(f, m - w + k)]
    BY <1>1, <1>2, LastInputsAre DEF HoldsLast
  <2>3. m - w + i = m + j + 1
    BY <1>1, <2>1
  <2>4. st[i] = InputAt(f, m + j + 1)
    BY <2>2, <2>3
  <2>5. OfRow(x, st, a, j) = InputAt(f, m + j + 1)
    BY <1>1, <1>7, <2>1, <2>4 DEF OfRow
  <2>6. InputAt(f, m + j + 1) = InputAt(seq, m + j + 1)
    <3>1. CASE m + j + 1 >= 1
      <4>1. m + j + 1 \in 1..m
        BY <1>7, <3>1
      <4> QED
        BY <1>4, <4>1 DEF InputAt
    <3>2. CASE ~(m + j + 1 >= 1)
      BY <3>2 DEF InputAt
    <3> QED
      BY <3>1, <3>2
  <2> QED
    BY <1>2, <1>3, <2>5, <2>6
<1> QED
  BY <1>6, <1>7

\* The window of n inputs that ends with the last of a row's first tokens.
RowWindow(x, st, a, b, n) == [i \in 1..n |-> OfRow(x, st, a, (b - a) - n + i - 1)]

LEMMA WindowOfRow ==
  ASSUME NEW f, NEW x, NEW a, NEW b, Stretch(f, x, a, b), NEW st, HoldsLast(st, f),
         NEW n, n = Width \/ (n = KernelSize /\ a < b)
  PROVE  RowWindow(x, st, a, b, n) = LastInputs(Seen(f, x, a, b), n)
<1>1. PICK K \in Nat, w \in Nat : K = KernelSize /\ w = Width /\ K = w + 1
  BY Kernel
<1>2. PICK k \in Nat : k = n /\ k <= K
  BY <1>1
<1>3. PICK m \in Nat : m = Len(f)
  BY DEF Stretch, IsSeq
<1>4. PICK d \in Nat : b - a = d /\ (k = w \/ (k = K /\ d > 0))
  <2>1. a \in Nat /\ b \in Nat /\ a <= b
    BY DEF Stretch
  <2> QED
    BY <1>1, <1>2, <2>1
<1>5. PICK seq : seq = Seen(f, x, a, b)
  OBVIOUS
<1>6. IsSeq(seq) /\ Len(seq) = m + d
  BY <1>3, <1>4, <1>5, SeenIs
<1>7. ASSUME NEW i \in 1..k PROVE OfRow(x, st, a, d - k + i - 1) = InputAt(seq, m + d - k + i)
  <2>1. PICK j \in Int : j = d - k + i - 1 /\ -w <= j /\ j < d
    BY <1>1, <1>4
  <2>2. OfRow(x, st, a, j) = InputAt(seq, m + j + 1)
    BY <1>1, <1>3, <1>4, <1>5, <2>1, InputOfRow
  <2>3. m + j + 1 = m + d - k + i
    BY <2>1
  <2> QED
    BY <2>1, <2>2, <2>3
<1>8. LastInputs(seq, k) = [i \in 1..k |-> InputAt(seq, m + d - k + i)]
  <2>1. PICK t \in Nat : t = m + d
    OBVIOUS
  <2>2. IsList(seq, t) /\ k <= KernelSize
    BY <1>1, <1>2, <1>6, <2>1 DEF IsSeq
  <2>3. LastInputs(seq, k) = [i \in 1..k |-> InputAt(seq, t - k + i)]
    BY <2>2, LastInputsAre
  <2> QED
    BY <2>1, <2>3
<1>9. RowWindow(x, st, a, b, k) = [i \in 1..k |-> OfRow(x, st, a, d - k + i - 1)]
  BY <1>4 DEF RowWindow
<1>10. RowWindow(x, st, a, b, k) = LastInputs(seq, k)
  BY <1>7, <1>8, <1>9
<1> QED
  BY <1>2, <1>5, <1>10

Extended(u, w, v) == u = Append(w, v)

LEMMA ExtendedList ==
  ASSUME NEW n \in Nat, NEW w, IsList(w, n), NEW v, NEW u, Extended(u, w, v)
  PROVE  IsList(u, n + 1) /\ (\A i \in 1..n : u[i] = w[i]) /\ u[n + 1] = v
<1>1. PICK S : w \in Seq(S) /\ Len(w) = n
  BY ListIsSeq
<1>2. PICK R : R = S \cup {v}
  OBVIOUS
<1>3. w \in Seq(R) /\ v \in R
  BY <1>1, <1>2
<1>4. Append(w, v) \in Seq(R) /\ Len(Append(w, v)) = n + 1
  BY <1>1, <1>3
<1>5. (\A i \in 1..n : Append(w, v)[i] = w[i]) /\ Append(w, v)[n + 1] = v
  BY <1>1, <1>3
<1>6. PICK k \in Nat : k = n + 1
  OBVIOUS
<1>7. u \in Seq(R) /\ Len(u) = k
  BY <1>4, <1>6 DEF Extended
<1>8. u \in [1..k -> R]
  BY <1>7
<1>9. IsList(u, k)
  BY <1>8 DEF IsList
<1> QED
  BY <1>5, <1>6, <1>9 DEF Extended

MovedOn(u, w, v) == u = Shifted(w, v)

LEMMA MovedList ==
  ASSUME NEW n \in Nat \ {0}, NEW w, IsList(w, n), NEW v, NEW u, MovedOn(u, w, v)
  PROVE  IsList(u, n) /\ (\A i \in 1..(n - 1) : u[i] = w[i + 1]) /\ u[n] = v
<1>1. PICK S : w \in Seq(S) /\ Len(w) = n
  BY ListIsSeq
<1>2. PICK k \in Nat : k = n - 1
  OBVIOUS
<1>3. PICK t : t = Tail(w)
  OBVIOUS
<1>4. t \in Seq(S) /\ Len(t) = k /\ \A i \in 1..k : t[i] = w[i + 1]
  BY <1>1, <1>2, <1>3
<1>5. IsList(t, k)
  <2>1. t \in [1..k -> S]
    BY <1>4
  <2> QED
    BY <2>1 DEF IsList
<1>6. Extended(u, t, v)
  BY <1>3 DEF Extended, MovedOn, Shifted
<1>7. IsList(u, k + 1) /\ (\A i \in 1..k : u[i] = t[i]) /\ u[k + 1] = v
  BY <1>5, <1>6, ExtendedList
<1>8. k + 1 = n
  BY <1>2
<1> QED
  BY <1>2, <1>4, <1>7, <1>8

\* A token more.
LEMMA LastOfOneMore ==
  ASSUME NEW f, NEW x, NEW a, NEW b, Stretch(f, x, a, b), Stretch(f, x, a, b + 1),
         NEW w, HoldsLast(w, Seen(f, x, a, b))
  PROVE  /\ Append(w, x[b + 1]) = LastInputs(Seen(f, x, a, b + 1), KernelSize)
         /\ HoldsLast(Shifted(w, x[b + 1]), Seen(f, x, a, b + 1))
<1>1. PICK K \in Nat, k \in Nat \ {0} : K = KernelSize /\ k = Width /\ k + 1 = K
  BY Kernel
<1>2. PICK m \in Nat : m = Len(f)
  BY DEF Stretch, IsSeq
<1>3. PICK d \in Nat : b - a = d /\ (b + 1) - a = d + 1 /\ a + (d + 1) = b + 1 /\ a + d = b
  <2>1. a \in Nat /\ b \in Nat /\ a <= b
    BY DEF Stretch
  <2> QED
    BY <2>1
<1>4. PICK seq, next : seq = Seen(f, x, a, b) /\ next = Seen(f, x, a, b + 1)
  OBVIOUS
<1>5. PICK t \in Nat : t = m + d
  OBVIOUS
<1>6. IsList(seq, t) /\ \A j \in 1..m : seq[j] = f[j]
  BY <1>2, <1>3, <1>4, <1>5, SeenIs DEF IsSeq
<1>7. \A j \in 1..d : seq[m + j] = x[a + j]
  <2>1. \A j \in 1..(b - a) : Seen(f, x, a, b)[Len(f) + j] = x[a + j]
    BY SeenIs
  <2> QED
    BY <1>2, <1>3, <1>4, <2>1
<1>8. IsList(next, t + 1) /\ \A j \in 1..m : next[j] = f[j]
  <2>1. IsSeq(next) /\ Len(next) = m + (d + 1) /\ \A j \in 1..m : next[j] = f[j]
    BY <1>2, <1>3, <1>4, SeenIs
  <2>2. m + (d + 1) = t + 1
    BY <1>5
  <2> QED
    BY <2>1, <2>2 DEF IsSeq
<1>9. \A j \in 1..(d + 1) : next[m + j] = x[a + j]
  BY <1>2, <1>3, <1>4, SeenIs
<1>10. \A j \in 1..t : next[j] = seq[j]
  <2>1. ASSUME NEW j \in 1..t PROVE next[j] = seq[j]
    <3>1. CASE j <= m
      BY <1>6, <1>8, <3>1
    <3>2. CASE j > m
      <4>1. PICK i \in 1..d : j = m + i
        BY <1>5, <3>2
      <4> QED
        BY <1>7, <1>9, <4>1
    <3> QED
      BY <3>1, <3>2
  <2> QED
    BY <2>1
<1>11. next[t + 1] = x[b + 1]
  <2>1. d + 1 \in 1..(d + 1) /\ m + (d + 1) = t + 1
    BY <1>5
  <2> QED
    BY <1>3, <1>9, <2>1
<1>12. w = [i \in 1..k |-> InputAt(seq, t - k + i)]
  <2>1. k \in Nat /\ k <= KernelSize
    BY <1>1
  <2>2. LastInputs(seq, k) = [i \in 1..k |-> InputAt(seq, t - k + i)]
    BY <1>6, <2>1, LastInputsAre
  <2> QED
    BY <1>1, <1>4, <2>2 DEF HoldsLast
<1>13. IsList(w, k)
  BY <1>12 DEF IsList
<1>14. ASSUME NEW i \in 1..k PROVE w[i] = InputAt(next, t - k + i)
  <2>1. w[i] = InputAt(seq, t - k + i)
    BY <1>12
  <2>2. CASE t - k + i >= 1
    <3>1. t - k + i \in 1..t
      BY <1>1, <2>2
    <3> QED
      BY <1>10, <2>1, <3>1 DEF InputAt
  <2>3. CASE ~(t - k + i >= 1)
    BY <2>1, <2>3 DEF InputAt
  <2> QED
    BY <2>2, <2>3
<1>15. InputAt(next, t + 1) = x[b + 1]
  BY <1>5, <1>11 DEF InputAt
<1>16. PICK v : v = x[b + 1]
  OBVIOUS
<1>17. PICK e \in Nat : e = t + 1 /\ IsList(next, e)
  BY <1>8
<1>18. Append(w, v) = LastInputs(next, K)
  <2>1. PICK u : u = Append(w, v)
    OBVIOUS
  <2>7. Extended(u, w, v) /\ k \in Nat
    BY <2>1 DEF Extended
  <2>2. IsList(u, k + 1) /\ (\A i \in 1..k : u[i] = w[i]) /\ u[k + 1] = v
    BY <1>13, <2>7, ExtendedList
  <2>3. IsList(u, K)
    BY <1>1, <2>2
  <2>4. PICK l : l = LastInputs(next, K) /\ l = [i \in 1..K |-> InputAt(next, e - K + i)]
    BY <1>1, <1>17, LastInputsAre
  <2>5. ASSUME NEW i \in 1..K PROVE u[i] = l[i]
    <3>1. l[i] = InputAt(next, e - K + i) /\ e - K + i = t - k + i
      BY <1>1, <1>17, <2>4
    <3>2. CASE i \in 1..k
      BY <1>14, <2>2, <3>1, <3>2
    <3>3. CASE i = k + 1
      <4>1. t - k + i = t + 1
        BY <3>3
      <4> QED
        BY <1>15, <1>16, <2>2, <3>1, <3>3, <4>1
    <3> QED
      BY <1>1, <3>2, <3>3
  <2>6. IsList(l, K)
    BY <2>4 DEF IsList
  <2> QED
    BY <2>1, <2>3, <2>4, <2>5, <2>6, SameList
<1>19. Shifted(w, v) = LastInputs(next, k)
  <2>1. PICK u : u = Shifted(w, v)
    OBVIOUS
  <2>2. IsList(u, k) /\ (\A i \in 1..(k - 1) : u[i] = w[i + 1]) /\ u[k] = v
    BY <1>13, <2>1, MovedList DEF MovedOn
  <2>3. PICK l : l = LastInputs(next, k) /\ l = [i \in 1..k |-> InputAt(next, e - k + i)]
    BY <1>1, <1>17, LastInputsAre
  <2>4. ASSUME NEW i \in 1..k PROVE u[i] = l[i]
    <3>1. l[i] = InputAt(next, e - k + i)
      BY <2>3
    <3>2. CASE i \in 1..(k - 1)
      <4>1. i + 1 \in 1..k /\ t - k + (i + 1) = e - k + i
        BY <1>1, <1>17, <3>2
      <4>2. w[i + 1] = InputAt(next, t - k + (i + 1))
        BY <1>14, <4>1
      <4> QED
        BY <2>2, <3>1, <3>2, <4>1, <4>2
    <3>3. CASE i = k
      <4>1. e - k + i = t + 1
        BY <1>17, <3>3
      <4> QED
        BY <1>15, <1>16, <2>2, <3>1, <3>3, <4>1
    <3> QED
      BY <1>1, <3>2, <3>3
  <2>5. IsList(l, k)
    BY <2>3 DEF IsList
  <2> QED
    BY <2>1, <2>2, <2>3, <2>4, <2>5, SameList
<1> QED
  BY <1>1, <1>4, <1>16, <1>18, <1>19 DEF HoldsLast

\* The moving window is the loop it is written as.
WindowsBy(after, st, x, a, n) ==
  after[0] = st /\ \A i \in 1..n : MovedOn(after[i], after[i - 1], x[a + i])

LEMMA StateAfterUnfolds ==
  ASSUME NEW o, NEW r, NEW n \in Nat
  PROVE  \E after : StateAfter(o, r, n) = after[n] /\ WindowsBy(after, o.state[r], o.x, o.cu[r], n)
<1> DEFINE Solves(g, k) == g = [i \in 0..k |-> IF i = 0 THEN o.state[r] ELSE Shifted(g[i - 1], o.x[o.cu[r] + i])]
           Bad == {k \in Nat : ~\E g : Solves(g, k)}
<1>1. ASSUME Bad # {} PROVE FALSE
  <2>1. PICK k \in Bad : \A m \in Bad : k <= m
    BY <1>1, LeastNumber
  <2>2. k \in Nat /\ ~\E g : Solves(g, k)
    BY <2>1
  <2>3. k # 0
    <3> DEFINE g == [i \in 0..0 |-> o.state[r]]
    <3>1. Solves(g, 0)
      OBVIOUS
    <3> HIDE DEF g, Solves
    <3> QED
      BY <2>2, <3>1
  <2>4. PICK g : Solves(g, k - 1)
    <3> HIDE DEF Solves
    <3> QED
      BY <2>1, <2>2, <2>3
  <2> DEFINE h == [i \in 0..k |-> IF i = k THEN Shifted(g[k - 1], o.x[o.cu[r] + k]) ELSE g[i]]
  <2>5. Solves(h, k)
    <3>1. g = [i \in 0..(k - 1) |-> IF i = 0 THEN o.state[r] ELSE Shifted(g[i - 1], o.x[o.cu[r] + i])]
      BY <2>4
    <3>2. ASSUME NEW i \in 0..k
          PROVE  h[i] = IF i = 0 THEN o.state[r] ELSE Shifted(h[i - 1], o.x[o.cu[r] + i])
      <4>1. CASE i = 0
        BY <2>2, <2>3, <3>1, <4>1
      <4>2. CASE i # 0
        <5>1. i - 1 \in 0..(k - 1) /\ i - 1 \in 0..k /\ i - 1 # k
          BY <2>2, <4>2
        <5>2. h[i - 1] = g[i - 1]
          BY <5>1
        <5>3. CASE i = k
          BY <4>2, <5>2, <5>3, SMTT(30)
        <5>4. CASE i # k
          <6>1. i \in 0..(k - 1)
            BY <2>2, <5>4
          <6> QED
            BY <3>1, <4>2, <5>2, <5>4, <6>1
        <5> QED
          BY <5>3, <5>4
      <4> QED
        BY <4>1, <4>2
    <3> QED
      BY <3>2
  <2> HIDE DEF Solves, h
  <2> QED
    BY <2>2, <2>5
<1>2. \E g : Solves(g, n)
  <2> HIDE DEF Solves
  <2> QED
    BY <1>1
<1> DEFINE after == CHOOSE g : Solves(g, n)
<1>3. Solves(after, n)
  BY <1>2
<1>4. StateAfter(o, r, n) = after[n]
  BY DEF StateAfter
<1> HIDE DEF after
<1>5. WindowsBy(after, o.state[r], o.x, o.cu[r], n)
  BY <1>3 DEF WindowsBy, MovedOn
<1> QED
  BY <1>4, <1>5

LEMMA ShorterStretch ==
  ASSUME NEW f, NEW x, NEW a, NEW b, Stretch(f, x, a, b), NEW c \in Nat, a <= c, c <= b
  PROVE  Stretch(f, x, a, c)
<1>1. PICK n \in Nat : IsList(x, n) /\ b <= n
  BY DEF Stretch
<1>2. c <= n
  BY <1>1 DEF Stretch
<1> QED
  BY <1>1, <1>2 DEF Stretch

LEMMA WindowsHoldLast ==
  ASSUME NEW n \in Nat, NEW after, NEW st, NEW x, NEW a, WindowsBy(after, st, x, a, n),
         NEW f, Stretch(f, x, a, a + n), HoldsLast(st, f)
  PROVE  HoldsLast(after[n], Seen(f, x, a, a + n))
<1>1. a \in Nat
  BY DEF Stretch
<1> DEFINE Bad == {i \in Nat : i <= n /\ ~HoldsLast(after[i], Seen(f, x, a, a + i))}
<1> SUFFICES ASSUME Bad # {} PROVE FALSE
  OBVIOUS
<1>2. PICK i \in Bad : \A m \in Bad : i <= m
  BY LeastNumber
<1>3. i \in Nat /\ i <= n /\ ~HoldsLast(after[i], Seen(f, x, a, a + i))
  BY <1>2
<1>4. i # 0
  <2>1. Stretch(f, x, a, a)
    BY <1>1, ShorterStretch
  <2>2. Seen(f, x, a, a) = f
    BY <2>1, NothingSeen
  <2>3. after[0] = st
    BY DEF WindowsBy
  <2>4. a + 0 = a
    BY <1>1
  <2> QED
    BY <1>3, <2>2, <2>3, <2>4
<1>5. PICK j \in Nat : i = j + 1
  BY <1>3, <1>4
<1>6. HoldsLast(after[j], Seen(f, x, a, a + j))
  BY <1>2, <1>3, <1>5
<1>7. PICK b \in Nat : b = a + j
  BY <1>1
<1>8. Stretch(f, x, a, b) /\ Stretch(f, x, a, b + 1)
  BY <1>1, <1>3, <1>5, <1>7, ShorterStretch
<1>9. HoldsLast(Shifted(after[j], x[b + 1]), Seen(f, x, a, b + 1))
  BY <1>6, <1>7, <1>8, LastOfOneMore
<1>10. MovedOn(after[i], after[j], x[a + i])
  <2>1. i \in 1..n /\ i - 1 = j
    BY <1>3, <1>5
  <2> QED
    BY <2>1 DEF WindowsBy
<1>11. a + i = b + 1
  BY <1>1, <1>5, <1>7
<1> QED
  BY <1>3, <1>9, <1>10, <1>11 DEF MovedOn

\* What the window of a row is after some of its tokens.
LEMMA StateAfterHoldsLast ==
  ASSUME NEW o, NEW r, NEW n \in Nat, NEW f, NEW x, NEW a, x = o.x, a = o.cu[r],
         Stretch(f, x, a, a + n), HoldsLast(o.state[r], f)
  PROVE  HoldsLast(StateAfter(o, r, n), Seen(f, x, a, a + n))
<1>1. PICK after : StateAfter(o, r, n) = after[n] /\ WindowsBy(after, o.state[r], o.x, o.cu[r], n)
  BY StateAfterUnfolds
<1>2. WindowsBy(after, o.state[r], x, a, n)
  BY <1>1
<1>3. HoldsLast(after[n], Seen(f, x, a, a + n))
  BY <1>2, WindowsHoldLast
<1> QED
  BY <1>1, <1>3

\* What the kernels make of a token.

LEMMA KeysAreNormalised == Normalised = NumKHeads..(2 * NumKHeads - 1)
<1>1. NumKHeads \in Nat \ {0}
  BY GdnAssumption
<1>2. NumKHeads..(NumKHeads + NumKHeads - 1) = NumKHeads..(2 * NumKHeads - 1)
  BY <1>1
<1>3. NumKHeads..(2 * NumKHeads - 1) # {}
  <2>1. NumKHeads \in NumKHeads..(2 * NumKHeads - 1)
    BY <1>1
  <2> QED
    BY <2>1
<1> QED
  BY <1>2, <1>3 DEF Normalised, L2NormRangeMetal, L2NormRange, L2NormLastDimMetal, L2NormLastDim

LEMMA KeyHeads ==
  ASSUME NEW h \in VHeads
  PROVE  (NumKHeads + (h \div Group) \in Normalised) = TRUE
<1>1. PICK k \in Nat \ {0} : k = NumKHeads
  BY GdnAssumption
<1>2. PICK v \in Nat \ {0} : v = NumVHeads /\ v % k = 0
  BY <1>1, GdnAssumption
<1>3. PICK g : g = v \div k
  OBVIOUS
<1>4. g \in Nat /\ v = k * g
  BY <1>1, <1>2, <1>3, ModFacts
<1>5. g # 0
  BY <1>2, <1>4
<1>6. h \in Nat /\ h < v
  BY <1>2 DEF VHeads
<1>7. PICK q : q = h \div g
  OBVIOUS
<1>8. q \in Nat /\ h % g \in Nat /\ h = g * q + (h % g)
  <2>1. PICK d \in Nat \ {0} : d = g
    BY <1>4, <1>5
  <2>2. PICK e \in Nat : e = h
    BY <1>6
  <2>3. e \div d \in Nat /\ e % d \in Nat /\ e = d * (e \div d) + (e % d)
    BY ModFacts
  <2> QED
    BY <1>7, <2>1, <2>2, <2>3
<1>9. q < k
  <2> SUFFICES ASSUME q >= k PROVE FALSE
    BY <1>8
  <2>1. PICK d \in Nat : q = k + d
    BY <1>8
  <2>2. g * q = g * k + g * d /\ g * d \in Nat
    BY <1>4, <2>1
  <2>3. g * k = k * g
    BY <1>4
  <2> QED
    BY <1>4, <1>6, <1>8, <2>2, <2>3
<1>10. k + q \in k..(2 * k - 1)
  BY <1>8, <1>9
<1>11. Normalised = k..(2 * k - 1)
  BY <1>1, KeysAreNormalised
<1>12. h \div Group = q
  BY <1>1, <1>2, <1>3, <1>7 DEF Group
<1> QED
  BY <1>1, <1>10, <1>11, <1>12

Forms == {"repeated", "shared", "strided"}

\* Whatever the form in which a kernel is given the heads.
LEMMA TakenIsExpected ==
  ASSUME NEW form \in Forms, NEW tok, NEW h \in VHeads
  PROVE  Taken(form, tok, h) = Expected(tok, h)
<1>1. PICK kh : kh = h \div Group
  OBVIOUS
<1>2. Key(tok, kh) = [tok |-> tok, head |-> kh, norm |-> TRUE]
  <2>1. (NumKHeads + kh \in Normalised) = TRUE
    BY <1>1, KeyHeads
  <2> QED
    BY <2>1 DEF Key
<1>3. Exp(Gate(tok, h)) = [tok |-> tok, head |-> h, exps |-> 1]
  <2>1. Gate(tok, h) = [tok |-> tok, head |-> h, exps |-> 0]
    BY DEF Gate, FusedGdnGating, FusedGdnGatingMetal
  <2> QED
    BY <2>1 DEF Exp
<1>4. Shared(tok, h) = [key |-> Key(tok, kh), value |-> <<tok, h>>, gate |-> Exp(Gate(tok, h))]
  BY <1>1 DEF Shared, SharedKeyHead, Value
<1>5. Shared(tok, h) = Expected(tok, h)
  BY <1>1, <1>2, <1>3, <1>4 DEF Expected
<1>6. Repeated(tok, h) = Shared(tok, h)
  BY DEF Repeated, Shared, SharedKeyHead
<1>7. Strided(tok, h) = Shared(tok, h)
  <2>1. StridedValue(tok, 2 * NumKHeads, h) = <<tok, h>>
    <3>1. NumKHeads \in Nat /\ h \in Nat
      BY GdnAssumption DEF VHeads
    <3>2. 2 * NumKHeads + h - 2 * NumKHeads = h
      BY <3>1
    <3> QED
      BY <3>2 DEF StridedValue
  <2> QED
    BY <1>4, <2>1 DEF Strided
<1>8. CASE form = "repeated"
  BY <1>5, <1>6, <1>8 DEF Taken
<1>9. CASE form = "shared"
  BY <1>5, <1>9 DEF Taken
<1>10. CASE form = "strided"
  BY <1>5, <1>7, <1>10 DEF Taken
<1> QED
  BY <1>8, <1>9, <1>10 DEF Forms

\* The updates of a head by a list of tokens, and by the next of a row.
Updates(seq, h) == [i \in DOMAIN seq |-> Expected(seq[i], h)]
NextUpdates(x, a, b, h) == [i \in 1..(b - a) |-> Expected(x[a + i], h)]

Untorn(torn, a, b) == \A i \in 1..(b - a) : a + i \notin torn

IsRow(r, x, a) == x = op.x /\ a = op.cu[r]

LEMMA RanIs ==
  ASSUME NEW r, NEW x, NEW a, NEW b, IsRow(r, x, a), NEW torn, Untorn(torn, a, b),
         NEW form \in Forms, NEW h \in VHeads
  PROVE  Ran(form, r, b, torn, h) = NextUpdates(x, a, b, h)
<1>1. Ran(form, r, b, torn, h) =
        [i \in 1..(b - a) |-> IF a + i \in torn THEN Torn(Taken(form, x[a + i], h)) ELSE Taken(form, x[a + i], h)]
  BY DEF Ran, IsRow
<1>2. ASSUME NEW i \in 1..(b - a) PROVE a + i \notin torn /\ Taken(form, x[a + i], h) = Expected(x[a + i], h)
  BY TakenIsExpected DEF Untorn
<1> QED
  BY <1>1, <1>2 DEF NextUpdates

LEMMA UpdatesOfMore ==
  ASSUME NEW f, NEW x, NEW a, NEW b, Stretch(f, x, a, b), NEW h
  PROVE  Updates(f, h) \o NextUpdates(x, a, b, h) = Updates(Seen(f, x, a, b), h)
<1>1. PICK m \in Nat : m = Len(f) /\ IsList(f, m) /\ DOMAIN f = 1..m
  BY ListIsSeq DEF Stretch, IsSeq
<1>2. PICK k \in Nat : b - a = k
  BY DEF Stretch
<1>3. PICK seq : seq = Seen(f, x, a, b)
  OBVIOUS
<1>4. /\ IsSeq(seq) /\ Len(seq) = m + k
      /\ \A j \in 1..m : seq[j] = f[j]
      /\ \A j \in 1..k : seq[m + j] = x[a + j]
  <2>1. /\ IsSeq(seq) /\ Len(seq) = Len(f) + (b - a)
        /\ \A j \in 1..Len(f) : seq[j] = f[j]
    BY <1>3, SeenIs
  <2>2. \A j \in 1..(b - a) : seq[Len(f) + j] = x[a + j]
    BY <1>3, SeenIs
  <2> QED
    BY <1>1, <1>2, <2>1, <2>2
<1>5. PICK n \in Nat : n = m + k
  OBVIOUS
<1>6. DOMAIN seq = 1..n
  BY <1>4, <1>5, ListIsSeq DEF IsSeq
<1>7. PICK u, v, w : /\ u = Updates(f, h) /\ v = NextUpdates(x, a, b, h)
                     /\ w = u \o v
  OBVIOUS
<1>15. v = [i \in 1..k |-> Expected(x[a + i], h)]
  BY <1>2, <1>7 DEF NextUpdates
<1>8. IsList(u, m) /\ IsList(v, k)
  BY <1>1, <1>7, <1>15 DEF IsList, Updates
<1>9. Joined(w, u, m, v, k)
  BY <1>7, <1>8 DEF Joined
<1>10. /\ IsList(w, m + k)
       /\ \A i \in 1..m : w[i] = u[i]
       /\ \A i \in 1..k : w[m + i] = v[i]
  BY <1>9, EndToEnd
<1>11. PICK l : l = Updates(seq, h) /\ l = [i \in 1..n |-> Expected(seq[i], h)]
  BY <1>6 DEF Updates
<1>12. ASSUME NEW i \in 1..n PROVE w[i] = l[i]
  <2>1. l[i] = Expected(seq[i], h)
    BY <1>11
  <2>2. CASE i \in 1..m
    <3>1. w[i] = Expected(f[i], h)
      BY <1>1, <1>7, <1>10, <2>2 DEF Updates
    <3> QED
      BY <1>4, <2>1, <2>2, <3>1
  <2>3. CASE i \notin 1..m
    <3>1. PICK j \in 1..k : i = m + j
      BY <1>5, <2>3
    <3>2. w[i] = Expected(x[a + j], h)
      BY <1>10, <1>15, <3>1
    <3> QED
      BY <1>4, <2>1, <3>1, <3>2
  <2> QED
    BY <2>2, <2>3
<1>13. IsList(w, n) /\ IsList(l, n)
  BY <1>5, <1>10, <1>11 DEF IsList
<1>14. w = l
  BY <1>12, <1>13, SameList
<1> QED
  BY <1>2, <1>3, <1>7, <1>11, <1>14

HoldsStates(st, f) == st = States(f)

\* A row's recurrence, up to a token, takes the tokens of its own sequence.
LEMMA ThroughIs ==
  ASSUME NEW r, NEW x, NEW a, NEW b, IsRow(r, x, a), NEW torn, Untorn(torn, a, b),
         NEW form \in Forms, NEW f, Stretch(f, x, a, b), HoldsStates(rec[op.slots[r]], f)
  PROVE  HoldsStates(Through(form, r, b, torn), Seen(f, x, a, b))
<1>1. PICK before : before = rec[op.slots[r]] /\ before = [h \in VHeads |-> Updates(f, h)]
  BY DEF HoldsStates, States, Updates
<1>2. Through(form, r, b, torn) = [h \in VHeads |-> before[h] \o Ran(form, r, b, torn, h)]
  BY <1>1 DEF Through
<1>3. ASSUME NEW h \in VHeads
      PROVE  before[h] \o Ran(form, r, b, torn, h) = Updates(Seen(f, x, a, b), h)
  <2>1. Ran(form, r, b, torn, h) = NextUpdates(x, a, b, h)
    BY RanIs
  <2>2. before[h] = Updates(f, h)
    BY <1>1
  <2>3. Updates(f, h) \o NextUpdates(x, a, b, h) = Updates(Seen(f, x, a, b), h)
    BY UpdatesOfMore
  <2> QED
    BY <2>1, <2>2, <2>3
<1>4. Through(form, r, b, torn) = [h \in VHeads |-> Updates(Seen(f, x, a, b), h)]
  BY <1>2, <1>3
<1> QED
  BY <1>4 DEF HoldsStates, States, Updates

-------------------------------------------------------------------------------
(* The layout of a batch of n rows.                                          *)

Bounds(cu, n) ==
  /\ n \in Nat \ {0} /\ cu[1] = 0
  /\ \A r \in 1..(n + 1) : cu[r] \in Nat
  /\ \A r \in 1..n : cu[r] <= cu[r + 1]

InRow(cu, n, r, t) == r \in 1..n /\ t \in Nat /\ cu[r] < t /\ t <= cu[r + 1]

LEMMA CuGrows ==
  ASSUME NEW cu, NEW n, Bounds(cu, n), NEW r \in 1..(n + 1), NEW q \in 1..(n + 1), r <= q
  PROVE  cu[r] <= cu[q]
<1> DEFINE Bad == {k \in Nat : r <= k /\ k <= n + 1 /\ ~(cu[r] <= cu[k])}
<1>1. n \in Nat
  BY DEF Bounds
<1>2. ASSUME Bad # {} PROVE FALSE
  <2>1. PICK k \in Bad : \A m \in Bad : k <= m
    BY <1>2, LeastNumber
  <2>2. k \in Nat /\ r <= k /\ k <= n + 1 /\ ~(cu[r] <= cu[k])
    BY <2>1
  <2>3. cu[r] \in Nat /\ cu[k] \in Nat
    BY <1>1, <2>2 DEF Bounds
  <2>4. k # r
    BY <2>2, <2>3
  <2>5. PICK j \in 1..n : k = j + 1 /\ r <= j
    BY <1>1, <2>2, <2>4
  <2>6. cu[r] <= cu[j]
    BY <1>1, <2>1, <2>5
  <2>7. cu[j] <= cu[k] /\ cu[j] \in Nat
    BY <1>1, <2>5 DEF Bounds
  <2> QED
    BY <2>2, <2>3, <2>6, <2>7
<1> QED
  BY <1>1, <1>2

LEMMA HolderIs ==
  ASSUME NEW cu, NEW n, Bounds(cu, n), NEW r, NEW t, InRow(cu, n, r, t)
  PROVE  Holder(cu, 1..n, t) = r
<1>1. n \in Nat /\ r \in 1..n /\ t \in Nat /\ cu[r] < t /\ t <= cu[r + 1]
  BY DEF InRow, Bounds
<1>2. PICK S : S = {q \in 1..n : cu[q] < t}
  OBVIOUS
<1>3. r \in S
  BY <1>1, <1>2
<1>4. ASSUME NEW q \in S PROVE r >= q
  <2> SUFFICES ASSUME r < q PROVE FALSE
    BY <1>1, <1>2
  <2>1. q \in 1..(n + 1) /\ r + 1 \in 1..(n + 1) /\ r + 1 <= q /\ cu[q] < t
    BY <1>1, <1>2
  <2>2. cu[r + 1] <= cu[q]
    BY <2>1, CuGrows
  <2>3. cu[q] \in Nat /\ cu[r + 1] \in Nat
    BY <2>1 DEF Bounds
  <2> QED
    BY <1>1, <2>1, <2>2, <2>3
<1>5. S \subseteq Nat
  BY <1>2
<1>6. \A q \in S : (\A p \in S : q >= p) => q = r
  BY <1>1, <1>3, <1>4, <1>5
<1>7. Max(S) = r
  BY <1>3, <1>4, <1>6 DEF Max
<1> QED
  BY <1>2, <1>7 DEF Holder

LEMMA EveryTokenHasARow ==
  ASSUME NEW cu, NEW n, Bounds(cu, n), NEW t \in 1..cu[n + 1]
  PROVE  \E r \in 1..n : InRow(cu, n, r, t)
<1>1. n \in Nat \ {0} /\ cu[n + 1] \in Nat
  BY DEF Bounds
<1>2. t \in Nat /\ t >= 1 /\ t <= cu[n + 1]
  BY <1>1
<1> DEFINE S == {q \in Nat : 1 <= q /\ q <= n + 1 /\ t <= cu[q]}
<1>3. n + 1 \in S
  BY <1>1, <1>2
<1>4. PICK q \in S : \A m \in S : q <= m
  BY <1>3, LeastNumber
<1>5. q # 1
  BY <1>2, <1>4 DEF Bounds
<1>6. PICK r \in 1..n : q = r + 1
  BY <1>1, <1>4, <1>5
<1>7. r \notin S /\ cu[r] \in Nat
  BY <1>1, <1>4, <1>6 DEF Bounds
<1>8. cu[r] < t
  BY <1>1, <1>2, <1>7
<1> QED
  BY <1>2, <1>4, <1>6, <1>8 DEF InRow

\* A row of a batch that has a slot has it alone.
Distinct(slots, n) ==
  /\ DOMAIN slots = 1..n
  /\ \A r \in 1..n : slots[r] \in Slots \cup {Pad}
  /\ \A r, q \in 1..n : r # q /\ slots[r] = slots[q] => slots[r] = Pad

LEMMA RowOfSlot ==
  ASSUME NEW slots, NEW n, Distinct(slots, n), NEW r \in 1..n, NEW s, slots[r] = s, s # Pad
  PROVE  /\ \E q \in DOMAIN slots : slots[q] = s
         /\ (CHOOSE q \in DOMAIN slots : slots[q] = s) = r
<1>1. \A q \in 1..n : slots[q] = s => q = r
  BY DEF Distinct
<1> QED
  BY <1>1 DEF Distinct

LaidOut(o, n) == Bounds(o.cu, n) /\ Distinct(o.slots, n) /\ IsList(o.x, o.cu[n + 1])

LEMMA Tokens ==
  ASSUME NEW o, NEW n, LaidOut(o, n)
  PROVE  /\ n \in Nat \ {0} /\ Batch(o) = 1..n
         /\ o.cu[n + 1] \in Nat /\ Flat(o) = 1..o.cu[n + 1]
<1>1. n \in Nat \ {0} /\ o.cu[n + 1] \in Nat
  BY DEF LaidOut, Bounds
<1>2. DOMAIN o.x = 1..o.cu[n + 1]
  BY <1>1, ListIsSeq DEF LaidOut
<1> QED
  BY <1>1, <1>2 DEF LaidOut, Distinct, Batch, Flat

LEMMA RowStretch ==
  ASSUME NEW o, NEW n, LaidOut(o, n), NEW r \in 1..n, NEW t \in Nat, o.cu[r] <= t, t <= o.cu[r + 1],
         NEW f, IsSeq(f)
  PROVE  Stretch(f, o.x, o.cu[r], t)
<1>1. PICK cu, x : cu = o.cu /\ x = o.x
  OBVIOUS
<1>2. Bounds(cu, n) /\ IsList(x, cu[n + 1]) /\ n \in Nat
  BY <1>1 DEF LaidOut, Bounds
<1>3. r \in 1..(n + 1) /\ r + 1 \in 1..(n + 1) /\ n + 1 \in 1..(n + 1) /\ r + 1 <= n + 1
  BY <1>2
<1>4. cu[r] \in Nat /\ cu[r + 1] \in Nat /\ cu[n + 1] \in Nat
  BY <1>2, <1>3 DEF Bounds
<1>5. cu[r + 1] <= cu[n + 1]
  BY <1>2, <1>3, CuGrows
<1>6. t <= cu[n + 1]
  BY <1>1, <1>4, <1>5
<1> QED
  BY <1>1, <1>2, <1>4, <1>6 DEF Stretch

\* The row a token is in, as the kernels look for it.
LEMMA RowOfToken ==
  ASSUME NEW o, NEW n, LaidOut(o, n), NEW t \in Flat(o)
  PROVE  \E r \in 1..n : /\ InRow(o.cu, n, r, t) /\ RowOf(o, t) = r
                         /\ Holder(o.cu, Batch(o), t) = r
<1>1. PICK cu : cu = o.cu
  OBVIOUS
<1>2. Bounds(cu, n) /\ Batch(o) = 1..n /\ n \in Nat /\ t \in 1..cu[n + 1]
  BY <1>1, Tokens DEF LaidOut
<1>3. PICK r \in 1..n : InRow(cu, n, r, t)
  BY <1>2, EveryTokenHasARow
<1>4. Holder(cu, 1..n, t) = r
  BY <1>2, <1>3, HolderIs
<1>5. {q \in 1..n : cu[q] <= t - 1} = {q \in 1..n : cu[q] < t}
  <2>1. ASSUME NEW q \in 1..n PROVE cu[q] \in Nat
    BY <1>2 DEF Bounds
  <2>2. t \in Nat
    BY <1>3 DEF InRow
  <2> QED
    BY <2>1, <2>2
<1>6. RowOf(o, t) = Holder(cu, 1..n, t)
  BY <1>1, <1>2, <1>5 DEF RowOf, Holder
<1> QED
  BY <1>1, <1>2, <1>3, <1>4, <1>6

LEMMA RowTokens ==
  ASSUME NEW o, NEW n, LaidOut(o, n), NEW r, NEW t, InRow(o.cu, n, r, t)
  PROVE  t \in Flat(o) /\ r \in Batch(o) /\ r \in 1..n /\ RowOf(o, t) = r /\ Holder(o.cu, Batch(o), t) = r
<1>1. PICK cu : cu = o.cu
  OBVIOUS
<1>2. Bounds(cu, n) /\ Batch(o) = 1..n /\ n \in Nat /\ Flat(o) = 1..cu[n + 1]
  BY <1>1, Tokens DEF LaidOut
<1>3. r \in 1..n /\ t \in Nat /\ cu[r] < t /\ t <= cu[r + 1]
  BY <1>1 DEF InRow
<1>4. r \in 1..(n + 1) /\ r + 1 \in 1..(n + 1) /\ n + 1 \in 1..(n + 1) /\ r + 1 <= n + 1
  BY <1>2, <1>3
<1>5. cu[r] \in Nat /\ cu[r + 1] \in Nat /\ cu[n + 1] \in Nat
  BY <1>2, <1>4 DEF Bounds
<1>6. cu[r + 1] <= cu[n + 1]
  BY <1>2, <1>4, CuGrows
<1>7. t \in Flat(o)
  BY <1>2, <1>3, <1>5, <1>6
<1>8. PICK q \in 1..n : /\ InRow(cu, n, q, t) /\ RowOf(o, t) = q
                        /\ Holder(cu, Batch(o), t) = q
  BY <1>1, <1>7, RowOfToken
<1>9. Holder(cu, 1..n, t) = r
  BY <1>1, <1>2, HolderIs
<1> QED
  BY <1>1, <1>2, <1>3, <1>7, <1>8, <1>9

\* The offsets are the loop they are written as.
OffsetsBy(cu, lens, n) == cu[1] = 0 /\ \A r \in 1..n : cu[r + 1] = cu[r] + lens[r]

LEMMA CuSeqlensUnfolds ==
  ASSUME NEW lens, NEW n \in Nat, Len(lens) = n
  PROVE  OffsetsBy(CuSeqlens(lens), lens, n)
<1> DEFINE Solves(g, k) == g = [r \in 1..(k + 1) |-> IF r = 1 THEN 0 ELSE g[r - 1] + lens[r - 1]]
           Bad == {k \in Nat : ~\E g : Solves(g, k)}
<1>1. ASSUME Bad # {} PROVE FALSE
  <2>1. PICK k \in Bad : \A m \in Bad : k <= m
    BY <1>1, LeastNumber
  <2>2. k \in Nat /\ ~\E g : Solves(g, k)
    BY <2>1
  <2>3. k # 0
    <3> DEFINE g == [r \in 1..(0 + 1) |-> 0]
    <3>1. Solves(g, 0)
      OBVIOUS
    <3> HIDE DEF g, Solves
    <3> QED
      BY <2>2, <3>1
  <2>4. PICK g : Solves(g, k - 1)
    <3> HIDE DEF Solves
    <3> QED
      BY <2>1, <2>2, <2>3
  <2> DEFINE h == [r \in 1..(k + 1) |-> IF r = k + 1 THEN g[k] + lens[k] ELSE g[r]]
  <2>5. Solves(h, k)
    <3>1. g = [r \in 1..k |-> IF r = 1 THEN 0 ELSE g[r - 1] + lens[r - 1]]
      <4>1. k - 1 + 1 = k
        BY <2>2
      <4> QED
        BY <2>4, <4>1
    <3>2. ASSUME NEW r \in 1..(k + 1)
          PROVE  h[r] = IF r = 1 THEN 0 ELSE h[r - 1] + lens[r - 1]
      <4>1. CASE r = 1
        BY <2>2, <2>3, <3>1, <4>1
      <4>2. CASE r # 1
        <5>1. r - 1 \in 1..k /\ r - 1 \in 1..(k + 1) /\ r - 1 # k + 1
          BY <2>2, <4>2
        <5>2. h[r - 1] = g[r - 1]
          BY <5>1
        <5>3. CASE r = k + 1
          <6>1. r - 1 = k
            BY <2>2, <5>3
          <6> QED
            BY <4>2, <5>2, <5>3, <6>1
        <5>4. CASE r # k + 1
          <6>1. r \in 1..k
            BY <2>2, <5>4
          <6> QED
            BY <3>1, <4>2, <5>2, <5>4, <6>1
        <5> QED
          BY <5>3, <5>4
      <4> QED
        BY <4>1, <4>2
    <3> QED
      BY <3>2
  <2> HIDE DEF Solves, h
  <2> QED
    BY <2>2, <2>5
<1>2. \E g : Solves(g, n)
  <2> HIDE DEF Solves
  <2> QED
    BY <1>1
<1> DEFINE cu == CHOOSE g : Solves(g, n)
<1>3. Solves(cu, n)
  BY <1>2
<1>4. CuSeqlens(lens) = cu
  BY DEF CuSeqlens
<1> HIDE DEF cu
<1>5. cu = [r \in 1..(n + 1) |-> IF r = 1 THEN 0 ELSE cu[r - 1] + lens[r - 1]]
  BY <1>3
<1>6. cu[1] = 0
  BY <1>5
<1>7. ASSUME NEW r \in 1..n PROVE cu[r + 1] = cu[r] + lens[r]
  <2>1. r + 1 \in 1..(n + 1) /\ r + 1 # 1 /\ r + 1 - 1 = r
    OBVIOUS
  <2> QED
    BY <1>5, <2>1
<1> QED
  BY <1>4, <1>6, <1>7 DEF OffsetsBy

LEMMA OffsetsAreBounds ==
  ASSUME NEW n \in Nat \ {0}, NEW lens \in [1..n -> Nat], NEW cu, OffsetsBy(cu, lens, n)
  PROVE  Bounds(cu, n)
<1> DEFINE Bad == {r \in Nat : r \in 1..(n + 1) /\ cu[r] \notin Nat}
<1>1. ASSUME Bad # {} PROVE FALSE
  <2>1. PICK r \in Bad : \A m \in Bad : r <= m
    BY <1>1, LeastNumber
  <2>2. r # 1
    BY <2>1 DEF OffsetsBy
  <2>3. PICK q \in 1..n : r = q + 1
    BY <2>1, <2>2
  <2>4. cu[q] \in Nat
    BY <2>1, <2>3
  <2> QED
    BY <2>1, <2>3, <2>4 DEF OffsetsBy
<1>2. \A r \in 1..(n + 1) : cu[r] \in Nat
  BY <1>1
<1>3. ASSUME NEW r \in 1..n PROVE cu[r] <= cu[r + 1]
  <2>1. cu[r] \in Nat /\ lens[r] \in Nat
    BY <1>2
  <2> QED
    BY <2>1 DEF OffsetsBy
<1> QED
  BY <1>2, <1>3 DEF Bounds, OffsetsBy

\* With a token in every row, row t is token t.
LEMMA OnesAreCounted ==
  ASSUME NEW n \in Nat \ {0}, NEW lens, \A r \in 1..n : lens[r] = 1, NEW cu, OffsetsBy(cu, lens, n)
  PROVE  \A r \in 1..(n + 1) : cu[r] = r - 1
<1> DEFINE Bad == {r \in Nat : r \in 1..(n + 1) /\ cu[r] # r - 1}
<1>1. ASSUME Bad # {} PROVE FALSE
  <2>1. PICK r \in Bad : \A m \in Bad : r <= m
    BY <1>1, LeastNumber
  <2>2. r # 1
    BY <2>1 DEF OffsetsBy
  <2>3. PICK q \in 1..n : r = q + 1
    BY <2>1, <2>2
  <2>4. cu[q] = q - 1
    BY <2>1, <2>3
  <2> QED
    BY <2>1, <2>3, <2>4 DEF OffsetsBy
<1> QED
  BY <1>1

-------------------------------------------------------------------------------
(* What is true of a call while it is served, for outputs, states and slots. *)

\* A call has these fields.
IsCall(o) ==
  o = [slots |-> o.slots, x |-> o.x, decode |-> o.decode, verify |-> o.verify, cu |-> o.cu,
       phase |-> o.phase, parallel |-> o.parallel, committed |-> o.committed,
       state |-> o.state, out |-> o.out, snaps |-> o.snaps, states |-> o.states]

\* A call of n rows, with an entry per token for everything it computes.
CallOf(o, n) ==
  /\ IsCall(o) /\ LaidOut(o, n)
  /\ DOMAIN o.out = Flat(o) /\ DOMAIN o.snaps = Flat(o) /\ DOMAIN o.states = Flat(o)

\* The tokens of a row's slot, from the first to one of the call.
SeenBy(o, f, r, t) == Seen(f[o.slots[r]], o.x, o.cu[r], t)

Own(o, n, r, t) == InRow(o.cu, n, r, t) /\ o.slots[r] # Pad

\* The output of a token, and its snapshot where one will be used.
Convolved(o, f, r, t) ==
  /\ o.out[t] = LastInputs(SeenBy(o, f, r, t), KernelSize)
  /\ o.verify => HoldsLast(o.snaps[t], SeenBy(o, f, r, t))

Sequences(f) == \A s \in Slots : IsSeq(f[s])

\* Between calls.
Following(c, rc, f) ==
  /\ Sequences(f)
  /\ \A s \in Slots : HoldsLast(c[s], f[s]) /\ HoldsStates(rc[s], f[s])

\* The window of a row, and the outputs so far: only a commit, for which in the
\* parallel form every token waits, moves the window a token is served from.
Convolving(o, n, c, rc, f) ==
  /\ o.phase = "conv" /\ Following(c, rc, f)
  /\ DOMAIN o.state = 1..n /\ \A r \in 1..n : o.slots[r] # Pad
  /\ \A r \in 1..n :
       HoldsLast(o.state[r], IF r \in o.committed THEN SeenBy(o, f, r, o.cu[r + 1]) ELSE f[o.slots[r]])
  /\ \A r, t : InRow(o.cu, n, r, t) =>
       Convolved(o, f, r, t) \/ (o.out[t] = Nothing /\ (o.parallel \/ r \notin o.committed))
  /\ o.parallel /\ o.committed # {} => \A t \in Flat(o) : o.out[t] # Nothing
  /\ \A t \in Flat(o) : o.states[t] = Nothing

\* The windows are in the slots, and every output is made.
Windows(o, n, c, f) ==
  /\ Sequences(f)
  /\ \A r \in 1..n : o.slots[r] # Pad => HoldsLast(c[o.slots[r]], SeenBy(o, f, r, o.cu[r + 1]))
  /\ \A s \in Slots : (\A r \in 1..n : o.slots[r] # s) => HoldsLast(c[s], f[s])
  /\ \A r, t : Own(o, n, r, t) => Convolved(o, f, r, t)

Recurring(o, n, c, rc, f) ==
  /\ o.phase = "recurrence" /\ Windows(o, n, c, f)
  /\ \A s \in Slots : HoldsStates(rc[s], f[s])
  /\ \A t \in Flat(o) : o.states[t] = Nothing

\* So are the states.
Answering(o, n, c, rc, f) ==
  /\ o.phase = "answer" /\ Windows(o, n, c, f)
  /\ \A r \in 1..n : o.slots[r] # Pad => HoldsStates(rc[o.slots[r]], SeenBy(o, f, r, o.cu[r + 1]))
  /\ \A s \in Slots : (\A r \in 1..n : o.slots[r] # s) => HoldsStates(rc[s], f[s])
  /\ \A r, t : Own(o, n, r, t) => HoldsStates(o.states[t], SeenBy(o, f, r, t))

Serving(o, c, rc, f) ==
  \E n : CallOf(o, n) /\ (Convolving(o, n, c, rc, f) \/ Recurring(o, n, c, rc, f) \/ Answering(o, n, c, rc, f))

\* The inductive invariant.
Consistent(o, c, rc, f) == (o = Idle /\ Following(c, rc, f)) \/ Serving(o, c, rc, f)

-------------------------------------------------------------------------------
(* The convolution of a prefill.                                             *)

\* The same rows.
Alike(p, o) ==
  p.slots = o.slots /\ p.x = o.x /\ p.cu = o.cu /\ p.verify = o.verify /\ p.parallel = o.parallel

LEMMA AlikeCalls ==
  ASSUME NEW o, NEW p, NEW n, LaidOut(o, n), Alike(p, o)
  PROVE  /\ LaidOut(p, n) /\ Flat(p) = Flat(o) /\ Batch(p) = Batch(o)
         /\ \A r, t : InRow(p.cu, n, r, t) = InRow(o.cu, n, r, t)
         /\ \A f, r, t : SeenBy(p, f, r, t) = SeenBy(o, f, r, t)
BY DEF LaidOut, Alike, Flat, Batch, SeenBy

LEMMA SlotOfRow ==
  ASSUME NEW o, NEW n, LaidOut(o, n), NEW r \in 1..n, o.slots[r] # Pad
  PROVE  o.slots[r] \in Slots
BY DEF LaidOut, Distinct

LEMMA RowsSequence ==
  ASSUME NEW o, NEW n, LaidOut(o, n), NEW f, Sequences(f), NEW r, NEW t, Own(o, n, r, t)
  PROVE  /\ Stretch(f[o.slots[r]], o.x, o.cu[r], t)
         /\ o.cu[r] < t /\ t \in Nat /\ t <= o.cu[r + 1]
<1>1. r \in 1..n /\ o.slots[r] # Pad /\ o.cu[r] < t /\ t \in Nat /\ t <= o.cu[r + 1]
  BY DEF Own, InRow
<1>2. IsSeq(f[o.slots[r]])
  BY <1>1, SlotOfRow DEF Sequences
<1>3. o.cu[r] \in Nat
  BY <1>1 DEF LaidOut, Bounds
<1> QED
  BY <1>1, <1>2, <1>3, RowStretch

LEMMA WholeRow ==
  ASSUME NEW o, NEW n, LaidOut(o, n), NEW f, Sequences(f), NEW r \in 1..n, o.slots[r] # Pad
  PROVE  /\ Stretch(f[o.slots[r]], o.x, o.cu[r], o.cu[r + 1])
         /\ o.cu[r] \in Nat /\ o.cu[r + 1] \in Nat /\ o.cu[r] <= o.cu[r + 1]
<1>1. n \in Nat
  BY DEF LaidOut, Bounds
<1>2. r \in 1..(n + 1) /\ r + 1 \in 1..(n + 1)
  BY <1>1
<1>3. o.cu[r] \in Nat /\ o.cu[r + 1] \in Nat /\ o.cu[r] <= o.cu[r + 1]
  BY <1>2 DEF LaidOut, Bounds
<1>4. IsSeq(f[o.slots[r]])
  BY SlotOfRow DEF Sequences
<1> QED
  BY <1>3, <1>4, RowStretch

\* What a block of the parallel form and a commit write.
ParallelOut(o, t) == [i \in 1..KernelSize |-> At(o, RowOf(o, t), t - 1 - o.cu[RowOf(o, t)] - Width + i - 1)]
ParallelSnap(o, t) == [i \in 1..Width |-> At(o, RowOf(o, t), t - 1 - o.cu[RowOf(o, t)] - (Width - 1) + i - 1)]

Starts(o, r, x, a, g) == x = o.x /\ a = o.cu[r] /\ HoldsLast(o.state[r], g)
WindowAt(o, r, a, t, k) == [i \in 1..k |-> At(o, r, t - 1 - a - (k - 1) + i - 1)]

LEMMA WindowIs ==
  ASSUME NEW o, NEW r, NEW x, NEW a, NEW t, NEW f, Starts(o, r, x, a, f),
         Stretch(f, x, a, t), NEW k, k = Width \/ (k = KernelSize /\ a < t)
  PROVE  WindowAt(o, r, a, t, k) = LastInputs(Seen(f, x, a, t), k)
<1>1. PICK st : x = o.x /\ st = o.state[r] /\ a = o.cu[r] /\ HoldsLast(st, f)
  BY DEF Starts
<1>2. a \in Nat /\ t \in Nat /\ k \in Nat
  BY Kernel DEF Stretch
<1>3. ASSUME NEW i \in 1..k PROVE At(o, r, t - 1 - a - (k - 1) + i - 1) = OfRow(x, st, a, (t - a) - k + i - 1)
  <2>1. t - 1 - a - (k - 1) + i - 1 = (t - a) - k + i - 1
    BY <1>2
  <2> QED
    BY <1>1, <2>1 DEF At, OfRow
<1>4. RowWindow(x, st, a, t, k) = LastInputs(Seen(f, x, a, t), k)
  BY <1>1, WindowOfRow
<1> QED
  BY <1>1, <1>3, <1>4 DEF RowWindow, WindowAt

LEMMA ParallelIs ==
  ASSUME NEW o, NEW n, LaidOut(o, n), NEW f, Sequences(f), NEW r, NEW t, Own(o, n, r, t),
         HoldsLast(o.state[r], f[o.slots[r]])
  PROVE  /\ ParallelOut(o, t) = LastInputs(SeenBy(o, f, r, t), KernelSize)
         /\ HoldsLast(ParallelSnap(o, t), SeenBy(o, f, r, t))
<1>1. RowOf(o, t) = r
  BY RowTokens DEF Own
<1>2. PICK a, g, x : Starts(o, r, x, a, g) /\ a = o.cu[r] /\ g = f[o.slots[r]] /\ x = o.x
  BY DEF Starts
<1>3. Stretch(g, x, a, t) /\ a < t /\ a \in Nat /\ t \in Nat
  BY <1>2, RowsSequence DEF Stretch
<1>4. KernelSize \in Nat /\ Width \in Nat /\ KernelSize - 1 = Width
  BY Kernel
<1>7. Starts(o, r, x, a, g) /\ Stretch(g, x, a, t)
  BY <1>2, <1>3
<1>5. ParallelOut(o, t) = LastInputs(Seen(g, x, a, t), KernelSize)
  <2>1. WindowAt(o, r, a, t, KernelSize) = LastInputs(Seen(g, x, a, t), KernelSize)
    BY <1>2, <1>3, <1>7, WindowIs
  <2> QED
    BY <1>1, <1>2, <1>4, <2>1 DEF ParallelOut, WindowAt
<1>6. ParallelSnap(o, t) = LastInputs(Seen(g, x, a, t), Width)
  <2>1. WindowAt(o, r, a, t, Width) = LastInputs(Seen(g, x, a, t), Width)
    BY <1>2, <1>3, <1>7, WindowIs
  <2> QED
    BY <1>1, <1>2, <2>1 DEF ParallelSnap, WindowAt
<1> QED
  BY <1>2, <1>5, <1>6 DEF SeenBy, HoldsLast

LEMMA CommittedIs ==
  ASSUME NEW o, NEW n, LaidOut(o, n), NEW f, Sequences(f), NEW r \in 1..n, o.slots[r] # Pad,
         HoldsLast(o.state[r], f[o.slots[r]])
  PROVE  HoldsLast(Committed(o, r), SeenBy(o, f, r, o.cu[r + 1]))
<1>1. PICK a, b, g, x : Starts(o, r, x, a, g) /\ a = o.cu[r] /\ b = o.cu[r + 1] /\ g = f[o.slots[r]] /\ x = o.x
  BY DEF Starts
<1>2. Stretch(g, x, a, b) /\ a \in Nat /\ b \in Nat
  BY <1>1, WholeRow
<1>7. Starts(o, r, x, a, g) /\ Stretch(g, x, a, b)
  BY <1>1, <1>2
<1>3. WindowAt(o, r, a, b, Width) = LastInputs(Seen(g, x, a, b), Width)
  BY <1>7, WindowIs
<1>4. ASSUME NEW i \in 1..Width
      PROVE  b - 1 - a - (Width - 1) + i - 1 = RowLen(o, r) - Width + i - 1
  BY <1>1, <1>2, Kernel DEF RowLen
<1>5. Committed(o, r) = LastInputs(Seen(g, x, a, b), Width)
  BY <1>3, <1>4 DEF Committed, WindowAt
<1> QED
  BY <1>1, <1>5 DEF SeenBy, HoldsLast

\* A block of the parallel form has written its token.
ServedToken(p, o, t) == p = [o EXCEPT !.out[t] = ParallelOut(o, t), !.snaps[t] = ParallelSnap(o, t)]

LEMMA ServedTokenIs ==
  ASSUME NEW o, IsCall(o), NEW p, NEW t, ServedToken(p, o, t)
  PROVE  /\ IsCall(p) /\ Alike(p, o) /\ p.phase = o.phase /\ p.committed = o.committed
         /\ p.state = o.state /\ p.states = o.states
         /\ p.out = [o.out EXCEPT ![t] = ParallelOut(o, t)]
         /\ p.snaps = [o.snaps EXCEPT ![t] = ParallelSnap(o, t)]
<1>1. PICK out, snap : out = ParallelOut(o, t) /\ snap = ParallelSnap(o, t)
  OBVIOUS
<1>2. p = [o EXCEPT !.out[t] = out, !.snaps[t] = snap]
  BY <1>1 DEF ServedToken
<1>3. p = [slots |-> o.slots, x |-> o.x, decode |-> o.decode, verify |-> o.verify, cu |-> o.cu,
           phase |-> o.phase, parallel |-> o.parallel, committed |-> o.committed, state |-> o.state,
           out |-> [o.out EXCEPT ![t] = out], snaps |-> [o.snaps EXCEPT ![t] = snap], states |-> o.states]
  BY <1>2 DEF IsCall
<1>4. /\ Alike(p, o) /\ p.phase = o.phase /\ p.committed = o.committed
      /\ p.state = o.state /\ p.states = o.states /\ p.decode = o.decode
      /\ p.out = [o.out EXCEPT ![t] = out] /\ p.snaps = [o.snaps EXCEPT ![t] = snap]
  BY <1>3 DEF Alike
<1>5. IsCall(p)
  BY <1>3, <1>4 DEF IsCall, Alike
<1> QED
  BY <1>1, <1>4, <1>5

LEMMA ParallelKeeps ==
  ASSUME NEW o, NEW n, CallOf(o, n), NEW c, NEW rc, NEW f, Convolving(o, n, c, rc, f),
         NEW t \in Flat(o), o.parallel, o.out[t] = Nothing, NEW p, ServedToken(p, o, t)
  PROVE  CallOf(p, n) /\ Convolving(p, n, c, rc, f)
<1>1. IsCall(o) /\ LaidOut(o, n) /\ DOMAIN o.out = Flat(o) /\ DOMAIN o.snaps = Flat(o) /\ DOMAIN o.states = Flat(o)
  BY DEF CallOf
<1>2. /\ IsCall(p) /\ Alike(p, o) /\ p.phase = o.phase /\ p.committed = o.committed
      /\ p.state = o.state /\ p.states = o.states
      /\ p.out = [o.out EXCEPT ![t] = ParallelOut(o, t)]
      /\ p.snaps = [o.snaps EXCEPT ![t] = ParallelSnap(o, t)]
  BY <1>1, ServedTokenIs
<1>3. /\ LaidOut(p, n) /\ Flat(p) = Flat(o)
      /\ \A r, k : InRow(p.cu, n, r, k) = InRow(o.cu, n, r, k)
      /\ \A r, k : SeenBy(p, f, r, k) = SeenBy(o, f, r, k)
  BY <1>1, <1>2, AlikeCalls
<1>4. CallOf(p, n)
  BY <1>1, <1>2, <1>3 DEF CallOf
<1>5. o.committed = {} /\ Sequences(f) /\ \A r \in 1..n : o.slots[r] # Pad
  BY DEF Convolving, Following
<1>6. ASSUME NEW r, NEW k, InRow(o.cu, n, r, k)
      PROVE  Convolved(p, f, r, k) \/ p.out[k] = Nothing
  <2>1. k \in Flat(o) /\ r \in 1..n
    BY <1>1, <1>6, RowTokens
  <2>2. CASE k = t
    <3>1. Own(o, n, r, t) /\ HoldsLast(o.state[r], f[o.slots[r]])
      BY <1>5, <1>6, <2>1, <2>2 DEF Own, Convolving
    <3>2. /\ ParallelOut(o, t) = LastInputs(SeenBy(o, f, r, t), KernelSize)
          /\ HoldsLast(ParallelSnap(o, t), SeenBy(o, f, r, t))
      BY <1>1, <1>5, <3>1, ParallelIs
    <3>3. p.out[t] = ParallelOut(o, t) /\ p.snaps[t] = ParallelSnap(o, t)
      BY <1>1, <1>2
    <3> QED
      BY <1>3, <2>2, <3>2, <3>3 DEF Convolved
  <2>3. CASE k # t
    <3>1. p.out[k] = o.out[k] /\ p.snaps[k] = o.snaps[k] /\ p.verify = o.verify
      BY <1>1, <1>2, <2>1, <2>3 DEF Alike
    <3>2. Convolved(o, f, r, k) \/ o.out[k] = Nothing
      BY <1>6 DEF Convolving
    <3> QED
      BY <1>3, <3>1, <3>2 DEF Convolved
  <2> QED
    BY <2>2, <2>3
<1>7. Convolving(p, n, c, rc, f)
  <2>1. p.phase = "conv" /\ Following(c, rc, f) /\ DOMAIN p.state = 1..n /\ \A r \in 1..n : p.slots[r] # Pad
    BY <1>2 DEF Convolving, Alike
  <2>2. \A r \in 1..n : HoldsLast(p.state[r], IF r \in p.committed THEN SeenBy(p, f, r, p.cu[r + 1])
                                                                  ELSE f[p.slots[r]])
    BY <1>2, <1>5 DEF Convolving, Alike
  <2>3. \A r, k : InRow(p.cu, n, r, k) =>
          Convolved(p, f, r, k) \/ (p.out[k] = Nothing /\ (p.parallel \/ r \notin p.committed))
    BY <1>2, <1>3, <1>5, <1>6
  <2>4. \A k \in Flat(p) : p.states[k] = Nothing
    BY <1>2, <1>3 DEF Convolving
  <2> QED
    BY <1>2, <1>5, <2>1, <2>2, <2>3, <2>4 DEF Convolving
<1> QED
  BY <1>4, <1>7

\* A row's window has been committed.
RowCommitted(p, o, r, w) == p = [o EXCEPT !.state[r] = w, !.committed = @ \cup {r}]

LEMMA RowCommittedIs ==
  ASSUME NEW o, IsCall(o), NEW p, NEW r, NEW w, RowCommitted(p, o, r, w)
  PROVE  /\ IsCall(p) /\ Alike(p, o) /\ p.phase = o.phase /\ p.committed = o.committed \cup {r}
         /\ p.state = [o.state EXCEPT ![r] = w]
         /\ p.out = o.out /\ p.snaps = o.snaps /\ p.states = o.states
<1>1. p = [slots |-> o.slots, x |-> o.x, decode |-> o.decode, verify |-> o.verify, cu |-> o.cu,
           phase |-> o.phase, parallel |-> o.parallel, committed |-> o.committed \cup {r},
           state |-> [o.state EXCEPT ![r] = w], out |-> o.out, snaps |-> o.snaps, states |-> o.states]
  BY DEF IsCall, RowCommitted
<1>2. /\ Alike(p, o) /\ p.phase = o.phase /\ p.committed = o.committed \cup {r}
      /\ p.state = [o.state EXCEPT ![r] = w] /\ p.decode = o.decode
      /\ p.out = o.out /\ p.snaps = o.snaps /\ p.states = o.states
  BY <1>1 DEF Alike
<1>3. IsCall(p)
  BY <1>1, <1>2 DEF IsCall, Alike
<1> QED
  BY <1>2, <1>3

LEMMA CommitKeeps ==
  ASSUME NEW o, NEW n, CallOf(o, n), NEW c, NEW rc, NEW f, Convolving(o, n, c, rc, f),
         NEW r \in 1..n, r \notin o.committed, o.parallel, \A t \in Flat(o) : o.out[t] # Nothing,
         NEW p, RowCommitted(p, o, r, Committed(o, r))
  PROVE  CallOf(p, n) /\ Convolving(p, n, c, rc, f)
<1>1. IsCall(o) /\ LaidOut(o, n) /\ DOMAIN o.out = Flat(o) /\ DOMAIN o.snaps = Flat(o) /\ DOMAIN o.states = Flat(o)
  BY DEF CallOf
<1>2. /\ IsCall(p) /\ Alike(p, o) /\ p.phase = o.phase /\ p.committed = o.committed \cup {r}
      /\ p.state = [o.state EXCEPT ![r] = Committed(o, r)]
      /\ p.out = o.out /\ p.snaps = o.snaps /\ p.states = o.states
  BY <1>1, RowCommittedIs
<1>3. /\ LaidOut(p, n) /\ Flat(p) = Flat(o)
      /\ \A q, k : InRow(p.cu, n, q, k) = InRow(o.cu, n, q, k)
      /\ \A q, k : SeenBy(p, f, q, k) = SeenBy(o, f, q, k)
  BY <1>1, <1>2, AlikeCalls
<1>4. CallOf(p, n)
  BY <1>1, <1>2, <1>3 DEF CallOf
<1>5. Sequences(f) /\ DOMAIN o.state = 1..n /\ \A q \in 1..n : o.slots[q] # Pad
  BY DEF Convolving, Following
<1>6. ASSUME NEW q \in 1..n
      PROVE  HoldsLast(p.state[q], IF q \in p.committed THEN SeenBy(p, f, q, p.cu[q + 1]) ELSE f[p.slots[q]])
  <2>1. HoldsLast(o.state[q], IF q \in o.committed THEN SeenBy(o, f, q, o.cu[q + 1]) ELSE f[o.slots[q]])
    BY DEF Convolving
  <2>2. p.cu = o.cu /\ p.slots = o.slots
    BY <1>2 DEF Alike
  <2>3. CASE q = r
    <3>1. HoldsLast(Committed(o, r), SeenBy(o, f, r, o.cu[r + 1]))
      BY <1>1, <1>5, <2>1, <2>3, CommittedIs
    <3>2. p.state[r] = Committed(o, r) /\ r \in p.committed
      BY <1>2, <1>5
    <3> QED
      BY <1>3, <2>2, <2>3, <3>1, <3>2
  <2>4. CASE q # r
    <3>1. p.state[q] = o.state[q] /\ (q \in p.committed <=> q \in o.committed)
      BY <1>2, <1>5, <2>4
    <3> QED
      BY <1>3, <2>1, <2>2, <3>1
  <2> QED
    BY <2>3, <2>4
<1>7. Convolving(p, n, c, rc, f)
  <2>1. p.phase = "conv" /\ Following(c, rc, f) /\ DOMAIN p.state = 1..n /\ \A q \in 1..n : p.slots[q] # Pad
    BY <1>2, <1>5 DEF Convolving, Alike
  <2>2. ASSUME NEW q, NEW k, InRow(o.cu, n, q, k) PROVE Convolved(p, f, q, k)
    <3>1. k \in Flat(o)
      BY <1>1, <2>2, RowTokens
    <3>2. Convolved(o, f, q, k)
      BY <2>2, <3>1 DEF Convolving
    <3> QED
      BY <1>2, <1>3, <3>2 DEF Convolved, Alike
  <2>3. \A k \in Flat(p) : p.states[k] = Nothing /\ p.out[k] # Nothing
    BY <1>2, <1>3 DEF Convolving
  <2> QED
    BY <1>3, <1>6, <2>1, <2>2, <2>3 DEF Convolving
<1> QED
  BY <1>4, <1>7

\* A row of the other form has been served from its first token to its last.
InTurn(p, o, r) ==
  LET mine == (o.cu[r] + 1)..o.cu[r + 1]
  IN p = [o EXCEPT
            !.out = [t \in Flat(o) |-> IF t \in mine THEN Append(StateAfter(o, r, t - 1 - o.cu[r]), o.x[t]) ELSE @[t]],
            !.snaps = [t \in Flat(o) |-> IF t \in mine THEN StateAfter(o, r, t - o.cu[r]) ELSE @[t]],
            !.state[r] = StateAfter(o, r, RowLen(o, r)),
            !.committed = @ \cup {r}]

Mine(o, r) == (o.cu[r] + 1)..o.cu[r + 1]

TurnTaken(p, o, r) ==
  /\ IsCall(p) /\ Alike(p, o) /\ p.phase = o.phase /\ p.committed = o.committed \cup {r}
  /\ p.state = [o.state EXCEPT ![r] = StateAfter(o, r, RowLen(o, r))] /\ p.states = o.states
  /\ DOMAIN p.out = Flat(o) /\ DOMAIN p.snaps = Flat(o)
  /\ \A t \in Mine(o, r) \cap Flat(o) :
       p.out[t] = Append(StateAfter(o, r, t - 1 - o.cu[r]), o.x[t]) /\ p.snaps[t] = StateAfter(o, r, t - o.cu[r])
  /\ \A t \in Flat(o) \ Mine(o, r) : p.out[t] = o.out[t] /\ p.snaps[t] = o.snaps[t]

LEMMA InTurnIs ==
  ASSUME NEW o, IsCall(o), NEW p, NEW r, InTurn(p, o, r)
  PROVE  TurnTaken(p, o, r)
<1> DEFINE mine == (o.cu[r] + 1)..o.cu[r + 1]
           Out == [t \in Flat(o) |-> IF t \in mine THEN Append(StateAfter(o, r, t - 1 - o.cu[r]), o.x[t]) ELSE o.out[t]]
           Snaps == [t \in Flat(o) |-> IF t \in mine THEN StateAfter(o, r, t - o.cu[r]) ELSE o.snaps[t]]
           State == [o.state EXCEPT ![r] = StateAfter(o, r, RowLen(o, r))]
<1>1. p = [o EXCEPT !.out = Out, !.snaps = Snaps, !.state = State, !.committed = o.committed \cup {r}]
  BY DEF IsCall, InTurn
<1> HIDE DEF Out, Snaps, State
<1>2. p = [slots |-> o.slots, x |-> o.x, decode |-> o.decode, verify |-> o.verify, cu |-> o.cu,
           phase |-> o.phase, parallel |-> o.parallel, committed |-> o.committed \cup {r},
           state |-> State, out |-> Out, snaps |-> Snaps, states |-> o.states]
  BY <1>1 DEF IsCall
<1>3. /\ Alike(p, o) /\ p.phase = o.phase /\ p.committed = o.committed \cup {r}
      /\ p.state = State /\ p.decode = o.decode
      /\ p.out = Out /\ p.snaps = Snaps /\ p.states = o.states
  BY <1>2 DEF Alike
<1>4. IsCall(p)
  BY <1>2, <1>3 DEF IsCall, Alike
<1> QED
  <2>1. DOMAIN p.out = Flat(o) /\ DOMAIN p.snaps = Flat(o)
    BY <1>3 DEF Out, Snaps
  <2>2. ASSUME NEW t \in Flat(o)
        PROVE  /\ p.out[t] = IF t \in mine THEN Append(StateAfter(o, r, t - 1 - o.cu[r]), o.x[t]) ELSE o.out[t]
               /\ p.snaps[t] = IF t \in mine THEN StateAfter(o, r, t - o.cu[r]) ELSE o.snaps[t]
    BY <1>3 DEF Out, Snaps
  <2>3. Mine(o, r) = mine
    BY DEF Mine
  <2> QED
    BY <1>3, <1>4, <2>1, <2>2, <2>3 DEF State, TurnTaken

LEMMA RowServed ==
  ASSUME NEW o, NEW n, LaidOut(o, n), NEW f, Sequences(f), NEW r, NEW t, Own(o, n, r, t),
         HoldsLast(o.state[r], f[o.slots[r]])
  PROVE  /\ Append(StateAfter(o, r, t - 1 - o.cu[r]), o.x[t]) = LastInputs(SeenBy(o, f, r, t), KernelSize)
         /\ HoldsLast(StateAfter(o, r, t - o.cu[r]), SeenBy(o, f, r, t))
<1>1. PICK x, a, g : x = o.x /\ a = o.cu[r] /\ g = f[o.slots[r]] /\ HoldsLast(o.state[r], g)
  OBVIOUS
<1>2. Stretch(g, x, a, t) /\ a < t /\ a \in Nat /\ t \in Nat
  BY <1>1, RowsSequence DEF Stretch
<1>3. PICK k \in Nat : k = t - 1 - a /\ a + k = t - 1 /\ t - a = k + 1 /\ a + (k + 1) = t
  BY <1>2
<1>4. PICK b \in Nat : b = a + k /\ b + 1 = t
  BY <1>2, <1>3
<1>5. Stretch(g, x, a, b) /\ Stretch(g, x, a, b + 1)
  <2>1. a <= b /\ b <= t
    BY <1>2, <1>3, <1>4
  <2> QED
    BY <1>2, <1>4, <2>1, ShorterStretch
<1>6. HoldsLast(StateAfter(o, r, k), Seen(g, x, a, b))
  <2>1. Stretch(g, x, a, a + k)
    BY <1>4, <1>5
  <2>2. HoldsLast(StateAfter(o, r, k), Seen(g, x, a, a + k))
    BY <1>1, <2>1, StateAfterHoldsLast
  <2> QED
    BY <1>4, <2>2
<1>7. Append(StateAfter(o, r, k), x[b + 1]) = LastInputs(Seen(g, x, a, b + 1), KernelSize)
  BY <1>5, <1>6, LastOfOneMore
<1>8. HoldsLast(StateAfter(o, r, k + 1), Seen(g, x, a, t))
  <2>1. Stretch(g, x, a, a + (k + 1)) /\ k + 1 \in Nat
    BY <1>2, <1>3
  <2>2. HoldsLast(StateAfter(o, r, k + 1), Seen(g, x, a, a + (k + 1)))
    BY <1>1, <2>1, StateAfterHoldsLast
  <2> QED
    BY <1>3, <2>2
<1> QED
  BY <1>1, <1>3, <1>4, <1>7, <1>8 DEF SeenBy

LEMMA RowEnd ==
  ASSUME NEW o, NEW n, LaidOut(o, n), NEW f, Sequences(f), NEW r \in 1..n, o.slots[r] # Pad,
         HoldsLast(o.state[r], f[o.slots[r]])
  PROVE  HoldsLast(StateAfter(o, r, RowLen(o, r)), SeenBy(o, f, r, o.cu[r + 1]))
<1>1. PICK x, a, b, g : x = o.x /\ a = o.cu[r] /\ b = o.cu[r + 1] /\ g = f[o.slots[r]] /\ HoldsLast(o.state[r], g)
  OBVIOUS
<1>2. Stretch(g, x, a, b) /\ a \in Nat /\ b \in Nat /\ a <= b
  BY <1>1, WholeRow
<1>3. PICK k \in Nat : k = b - a /\ a + k = b
  BY <1>2
<1>4. Stretch(g, x, a, a + k)
  BY <1>2, <1>3
<1>5. HoldsLast(StateAfter(o, r, k), Seen(g, x, a, a + k))
  BY <1>1, <1>4, StateAfterHoldsLast
<1> QED
  BY <1>1, <1>3, <1>5 DEF SeenBy, RowLen

LEMMA RowOfIs ==
  ASSUME NEW o, NEW n, LaidOut(o, n), NEW r, NEW t, InRow(o.cu, n, r, t)
  PROVE  RowOf(o, t) = r
BY RowTokens

LEMMA OneRow ==
  ASSUME NEW o, NEW n, LaidOut(o, n), NEW r, NEW q, NEW t, InRow(o.cu, n, r, t), InRow(o.cu, n, q, t)
  PROVE  r = q
BY RowOfIs, Zenon

InOneGo(o) == ~o.parallel

LEMMA InTurnKeeps ==
  ASSUME NEW o, NEW n, CallOf(o, n), NEW c, NEW rc, NEW f, Convolving(o, n, c, rc, f),
         NEW r \in 1..n, r \notin o.committed, InOneGo(o), NEW p, InTurn(p, o, r)
  PROVE  CallOf(p, n) /\ Convolving(p, n, c, rc, f)
<1>1. IsCall(o) /\ LaidOut(o, n) /\ DOMAIN o.out = Flat(o) /\ DOMAIN o.snaps = Flat(o) /\ DOMAIN o.states = Flat(o)
  BY DEF CallOf
<1>2. TurnTaken(p, o, r)
  BY <1>1, InTurnIs
<1>3. /\ IsCall(p) /\ Alike(p, o) /\ p.phase = o.phase /\ p.committed = o.committed \cup {r}
      /\ p.state = [o.state EXCEPT ![r] = StateAfter(o, r, RowLen(o, r))] /\ p.states = o.states
      /\ DOMAIN p.out = Flat(o) /\ DOMAIN p.snaps = Flat(o)
  BY <1>2 DEF TurnTaken
<1>4. /\ LaidOut(p, n) /\ Flat(p) = Flat(o)
      /\ \A q, k : InRow(p.cu, n, q, k) = InRow(o.cu, n, q, k)
      /\ \A q, k : SeenBy(p, f, q, k) = SeenBy(o, f, q, k)
  BY <1>1, <1>3, AlikeCalls
<1>5. CallOf(p, n)
  BY <1>1, <1>3, <1>4 DEF CallOf
<1>6. Sequences(f) /\ DOMAIN o.state = 1..n /\ \A q \in 1..n : o.slots[q] # Pad
  BY DEF Convolving, Following
<1>7. HoldsLast(o.state[r], f[o.slots[r]])
  BY DEF Convolving
<1>8. ASSUME NEW q \in 1..n
      PROVE  HoldsLast(p.state[q], IF q \in p.committed THEN SeenBy(p, f, q, p.cu[q + 1]) ELSE f[p.slots[q]])
  <2>1. HoldsLast(o.state[q], IF q \in o.committed THEN SeenBy(o, f, q, o.cu[q + 1]) ELSE f[o.slots[q]])
    BY DEF Convolving
  <2>2. p.cu = o.cu /\ p.slots = o.slots
    BY <1>3 DEF Alike
  <2>3. CASE q = r
    <3>1. HoldsLast(StateAfter(o, r, RowLen(o, r)), SeenBy(o, f, r, o.cu[r + 1]))
      BY <1>1, <1>6, <1>7, RowEnd
    <3>2. p.state[r] = StateAfter(o, r, RowLen(o, r)) /\ r \in p.committed
      BY <1>3, <1>6
    <3> QED
      BY <1>4, <2>2, <2>3, <3>1, <3>2
  <2>4. CASE q # r
    <3>1. p.state[q] = o.state[q] /\ (q \in p.committed <=> q \in o.committed)
      BY <1>3, <1>6, <2>4
    <3> QED
      BY <1>4, <2>1, <2>2, <3>1
  <2> QED
    BY <2>3, <2>4
<1>9. ASSUME NEW q, NEW t, InRow(o.cu, n, q, t)
      PROVE  Convolved(p, f, q, t) \/ (p.out[t] = Nothing /\ q \notin p.committed)
  <2>1. t \in Flat(o) /\ q \in 1..n
    <3>1. LaidOut(o, n) /\ InRow(o.cu, n, q, t)
      BY <1>1, <1>9
    <3>2. t \in Flat(o)
      BY <3>1, RowTokens
    <3>3. q \in 1..n
      BY <3>1, RowTokens
    <3> QED
      BY <3>2, <3>3
  <2>2. CASE q = r
    <3>1. Own(o, n, r, t)
      BY <1>6, <1>9, <2>2 DEF Own
    <3>2. t \in Mine(o, r)
      <4>1. o.cu[r] \in Nat /\ o.cu[r + 1] \in Nat
        BY <1>1, <1>6, WholeRow
      <4>2. t \in Nat /\ o.cu[r] < t /\ t <= o.cu[r + 1]
        BY <3>1 DEF Own, InRow
      <4> QED
        BY <4>1, <4>2 DEF Mine
    <3>3. /\ p.out[t] = Append(StateAfter(o, r, t - 1 - o.cu[r]), o.x[t])
          /\ p.snaps[t] = StateAfter(o, r, t - o.cu[r])
      BY <1>2, <2>1, <3>2 DEF TurnTaken
    <3>4. /\ Append(StateAfter(o, r, t - 1 - o.cu[r]), o.x[t]) = LastInputs(SeenBy(o, f, r, t), KernelSize)
          /\ HoldsLast(StateAfter(o, r, t - o.cu[r]), SeenBy(o, f, r, t))
      BY <1>1, <1>6, <1>7, <3>1, RowServed
    <3> QED
      BY <1>4, <2>2, <3>3, <3>4 DEF Convolved
  <2>3. CASE q # r
    <3>1. t \notin Mine(o, r)
      <4> SUFFICES ASSUME t \in Mine(o, r) PROVE FALSE
        OBVIOUS
      <4>1. o.cu[r] \in Nat /\ o.cu[r + 1] \in Nat
        BY <1>1, <1>6, WholeRow
      <4>2. InRow(o.cu, n, r, t)
        BY <4>1 DEF InRow, Mine
      <4> QED
        BY <1>1, <1>9, <2>3, <4>2, OneRow
    <3>2. p.out[t] = o.out[t] /\ p.snaps[t] = o.snaps[t] /\ p.verify = o.verify
      BY <1>2, <1>3, <2>1, <3>1 DEF Alike, TurnTaken
    <3>3. Convolved(o, f, q, t) \/ (o.out[t] = Nothing /\ q \notin o.committed)
      BY <1>9 DEF Convolving, InOneGo
    <3> QED
      BY <1>3, <1>4, <2>3, <3>2, <3>3 DEF Convolved
  <2> QED
    BY <2>2, <2>3
<1>10. Convolving(p, n, c, rc, f)
  <2>1. p.phase = "conv" /\ Following(c, rc, f) /\ DOMAIN p.state = 1..n /\ \A q \in 1..n : p.slots[q] # Pad
    BY <1>3, <1>6 DEF Convolving, Alike
  <2>2. \A k \in Flat(p) : p.states[k] = Nothing
    BY <1>3, <1>4 DEF Convolving
  <2>3. ~p.parallel
    BY <1>3 DEF Alike, InOneGo
  <2> QED
    BY <1>4, <1>8, <1>9, <2>1, <2>2, <2>3 DEF Convolving
<1> QED
  BY <1>5, <1>10

-------------------------------------------------------------------------------
(* Back to the slots.                                                        *)

\* Rows written to the slots they have.
Written(d, c, rows, slots, n) ==
  /\ \A r \in 1..n : slots[r] # Pad => d[slots[r]] = rows[r]
  /\ \A s \in Slots : (\A r \in 1..n : slots[r] # s) => d[s] = c[s]

LEMMA ScatteredIs ==
  ASSUME NEW slots, NEW n, Distinct(slots, n), NEW rows
  PROVE  Written(Scattered(rows, slots), conv, rows, slots, n)
<1>1. PICK d : d = Scattered(rows, slots)
  OBVIOUS
<1>2. d = [s \in Slots |-> IF \E r \in DOMAIN slots : slots[r] = s
                           THEN rows[CHOOSE r \in DOMAIN slots : slots[r] = s] ELSE conv[s]]
  BY <1>1 DEF Scattered
<1>3. ASSUME NEW r \in 1..n, slots[r] # Pad PROVE d[slots[r]] = rows[r]
  <2>1. PICK s \in Slots : s = slots[r]
    BY <1>3 DEF Distinct
  <2>2. /\ \E q \in DOMAIN slots : slots[q] = s
        /\ (CHOOSE q \in DOMAIN slots : slots[q] = s) = r
    BY <1>3, <2>1, RowOfSlot
  <2> QED
    BY <1>2, <2>1, <2>2
<1>4. ASSUME NEW s \in Slots, \A r \in 1..n : slots[r] # s PROVE d[s] = conv[s]
  BY <1>2, <1>4 DEF Distinct
<1> QED
  BY <1>1, <1>3, <1>4 DEF Written

AtPhase(p, o, phase, states) == p = [o EXCEPT !.phase = phase, !.states = states]

LEMMA AtPhaseIs ==
  ASSUME NEW o, IsCall(o), NEW p, NEW phase, NEW states, AtPhase(p, o, phase, states)
  PROVE  /\ IsCall(p) /\ Alike(p, o) /\ p.phase = phase /\ p.out = o.out /\ p.snaps = o.snaps
         /\ p.states = states
<1>1. p = [slots |-> o.slots, x |-> o.x, decode |-> o.decode, verify |-> o.verify, cu |-> o.cu,
           phase |-> phase, parallel |-> o.parallel, committed |-> o.committed,
           state |-> o.state, out |-> o.out, snaps |-> o.snaps, states |-> states]
  BY DEF IsCall, AtPhase
<1>2. /\ Alike(p, o) /\ p.phase = phase /\ p.committed = o.committed
      /\ p.state = o.state /\ p.decode = o.decode
      /\ p.out = o.out /\ p.snaps = o.snaps /\ p.states = states
  BY <1>1 DEF Alike
<1>3. IsCall(p)
  BY <1>1, <1>2 DEF IsCall, Alike
<1> QED
  BY <1>2, <1>3

LEMMA FinishKeeps ==
  ASSUME NEW o, NEW n, CallOf(o, n), NEW c, NEW rc, NEW f, Convolving(o, n, c, rc, f),
         o.committed = Batch(o), NEW d, Written(d, c, o.state, o.slots, n),
         NEW p, AtPhase(p, o, "recurrence", o.states)
  PROVE  CallOf(p, n) /\ Recurring(p, n, d, rc, f)
<1>1. IsCall(o) /\ LaidOut(o, n) /\ DOMAIN o.out = Flat(o) /\ DOMAIN o.snaps = Flat(o) /\ DOMAIN o.states = Flat(o)
  BY DEF CallOf
<1>2. /\ IsCall(p) /\ Alike(p, o) /\ p.phase = "recurrence" /\ p.out = o.out /\ p.snaps = o.snaps
      /\ p.states = o.states
  BY <1>1, AtPhaseIs
<1>3. /\ LaidOut(p, n) /\ Flat(p) = Flat(o)
      /\ \A q, k : InRow(p.cu, n, q, k) = InRow(o.cu, n, q, k)
      /\ \A q, k : SeenBy(p, f, q, k) = SeenBy(o, f, q, k)
  BY <1>1, <1>2, AlikeCalls
<1>4. CallOf(p, n)
  BY <1>1, <1>2, <1>3 DEF CallOf
<1>5. Sequences(f) /\ Batch(o) = 1..n /\ n \in Nat \ {0} /\ p.slots = o.slots /\ p.cu = o.cu /\ p.verify = o.verify
  BY <1>1, <1>2, Tokens DEF Convolving, Following, Alike
<1>6. \A r \in 1..n : p.slots[r] # Pad => HoldsLast(d[p.slots[r]], SeenBy(p, f, r, p.cu[r + 1]))
  BY <1>3, <1>5 DEF Convolving, Written
<1>7. \A s \in Slots : (\A r \in 1..n : p.slots[r] # s) => HoldsLast(d[s], f[s])
  BY <1>5 DEF Convolving, Following, Written
<1>8. ASSUME NEW r, NEW t, Own(p, n, r, t) PROVE Convolved(p, f, r, t)
  <2>1. InRow(o.cu, n, r, t)
    BY <1>3, <1>8 DEF Own
  <2>2. t \in Flat(o) /\ r \in 1..n
    BY <1>1, <2>1, RowTokens
  <2>3. Convolved(o, f, r, t) \/ (o.out[t] = Nothing /\ o.parallel)
    BY <1>5, <2>1, <2>2 DEF Convolving
  <2>4. o.parallel => o.out[t] # Nothing
    <3>1. o.committed # {}
      <4>1. 1 \in 1..n
        BY <1>5
      <4> QED
        BY <1>5, <4>1
    <3> QED
      BY <2>2, <3>1 DEF Convolving
  <2>5. Convolved(o, f, r, t)
    BY <2>3, <2>4
  <2> QED
    BY <1>2, <1>3, <1>5, <2>5 DEF Convolved
<1>9. \A s \in Slots : HoldsStates(rc[s], f[s])
  BY DEF Convolving, Following
<1>10. \A t \in Flat(p) : p.states[t] = Nothing
  BY <1>2, <1>3 DEF Convolving
<1> QED
  BY <1>2, <1>4, <1>5, <1>6, <1>7, <1>8, <1>9, <1>10 DEF Recurring, Windows

-------------------------------------------------------------------------------
(* The recurrence, by whichever kernel.                                      *)

LEMMA NothingTorn ==
  ASSUME LockStep, NEW n, LaidOut(op, n), NEW torn \in TornSomewhere
  PROVE  torn = {}
<1>1. torn \subseteq Flat(op) /\ Batch(op) = 1..n
  BY Tokens DEF TornSomewhere
<1>2. ASSUME NEW t \in torn PROVE FALSE
  <2>1. PICK r \in 1..n : InRow(op.cu, n, r, t)
    BY <1>1, RowOfToken
  <2>2. torn \cap ((op.cu[r] + 1)..op.cu[r + 1]) \in Overtaken(r)
    BY <1>1 DEF TornSomewhere
  <2>3. torn \cap ((op.cu[r] + 1)..op.cu[r + 1]) = {}
    BY <2>2 DEF Overtaken
  <2>4. t \in (op.cu[r] + 1)..op.cu[r + 1]
    <3>1. n \in Nat /\ t \in Nat /\ op.cu[r] < t /\ t <= op.cu[r + 1]
      BY <2>1 DEF InRow, LaidOut, Bounds
    <3>2. r \in 1..(n + 1) /\ r + 1 \in 1..(n + 1)
      BY <3>1
    <3>3. op.cu[r] \in Nat /\ op.cu[r + 1] \in Nat
      BY <3>2 DEF LaidOut, Bounds
    <3> QED
      BY <3>1, <3>3
  <2> QED
    BY <2>3, <2>4
<1> QED
  BY <1>2

LEMMA RecurrenceIs ==
  ASSUME LockStep, NEW n, LaidOut(op, n), Recurrence
  PROVE  \E form \in Forms : Recur(form, {})
<1>1. "repeated" \in Forms /\ "shared" \in Forms /\ "strided" \in Forms
  BY DEF Forms
<1>2. ASSUME NEW form \in Forms, NEW torn \in TornSomewhere, Recur(form, torn) PROVE Recur(form, {})
  BY <1>2, NothingTorn
<1>3. CASE GatedDeltaRuleRecurrenceVarlen
  BY <1>1, <1>3 DEF GatedDeltaRuleRecurrenceVarlen
<1>4. CASE GatedDeltaRuleRecurrenceVarlenMetal
  BY <1>1, <1>2, <1>4 DEF GatedDeltaRuleRecurrenceVarlenMetal
<1>5. CASE GatedDeltaRuleRecurrenceVarlenGqa
  BY <1>1, <1>5 DEF GatedDeltaRuleRecurrenceVarlenGqa
<1>6. CASE GatedDeltaRuleRecurrenceVarlenGqaMetal
  BY <1>1, <1>2, <1>6 DEF GatedDeltaRuleRecurrenceVarlenGqaMetal
<1>7. CASE GatedDeltaRulePrefillFlashInferGqa
  BY <1>1, <1>7 DEF GatedDeltaRulePrefillFlashInferGqa
<1>8. CASE GatedDeltaRuleRecurrence
  BY <1>1, <1>2, <1>8 DEF GatedDeltaRuleRecurrence
<1>9. CASE GatedDeltaRuleRecurrenceMetal
  BY <1>1, <1>2, <1>9 DEF GatedDeltaRuleRecurrenceMetal
<1>10. CASE GatedDeltaRuleDecodeSlots \/ GatedDeltaRuleDecodeSlotsMetal
  BY <1>1, <1>10 DEF GatedDeltaRuleDecodeSlots, GatedDeltaRuleDecodeSlotsMetal
<1>11. CASE GatedDeltaRuleDecodeSlotsGqa \/ GatedDeltaRuleDecodeSlotsGqaMetal
  BY <1>1, <1>11 DEF GatedDeltaRuleDecodeSlotsGqa, GatedDeltaRuleDecodeSlotsGqaMetal
<1>12. CASE GatedDeltaRuleDecodeSlotsGqaStridedV \/ GatedDeltaRuleDecodeSlotsGqaStridedVMetal
  BY <1>1, <1>12 DEF GatedDeltaRuleDecodeSlotsGqaStridedV, GatedDeltaRuleDecodeSlotsGqaStridedVMetal
<1> QED
  BY <1>3, <1>4, <1>5, <1>6, <1>7, <1>8, <1>9, <1>10, <1>11, <1>12 DEF Recurrence

\* A row's own updates, up to one of its tokens or to its end.
LEMMA RowThrough ==
  ASSUME NEW n, LaidOut(op, n), NEW f, Sequences(f), \A s \in Slots : HoldsStates(rec[s], f[s]),
         NEW r \in 1..n, op.slots[r] # Pad, NEW t, Stretch(f[op.slots[r]], op.x, op.cu[r], t),
         NEW form \in Forms
  PROVE  HoldsStates(Through(form, r, t, {}), SeenBy(op, f, r, t))
<1>1. PICK x, a, g : x = op.x /\ a = op.cu[r] /\ g = f[op.slots[r]] /\ IsRow(r, x, a)
  BY DEF IsRow
<1>2. HoldsStates(rec[op.slots[r]], g) /\ Stretch(g, x, a, t)
  BY <1>1, SlotOfRow
<1>5. Untorn({}, a, t)
  BY DEF Untorn
<1>3. PICK torn : torn = {} /\ Untorn(torn, a, t)
  BY <1>5
<1>4. HoldsStates(Through(form, r, t, torn), Seen(g, x, a, t))
  BY <1>1, <1>2, <1>3, ThroughIs
<1> QED
  BY <1>1, <1>3, <1>4 DEF SeenBy

\* Where the rows went.
Advanced(d, n, f) ==
  /\ \A r \in 1..n : op.slots[r] # Pad => HoldsStates(d[op.slots[r]], SeenBy(op, f, r, op.cu[r + 1]))
  /\ \A s \in Slots : (\A r \in 1..n : op.slots[r] # s) => d[s] = rec[s]

LEMMA RecurredIs ==
  ASSUME NEW n, LaidOut(op, n), NEW f, Sequences(f), \A s \in Slots : HoldsStates(rec[s], f[s]),
         NEW form \in Forms
  PROVE  Advanced(Recurred(form, {}), n, f)
<1>1. PICK d : d = Recurred(form, {})
  OBVIOUS
<1>2. d = [s \in Slots |-> IF \E r \in Batch(op) : op.slots[r] = s
                           THEN Through(form, CHOOSE q \in Batch(op) : op.slots[q] = s,
                                        op.cu[(CHOOSE q \in Batch(op) : op.slots[q] = s) + 1], {})
                           ELSE rec[s]]
  BY <1>1 DEF Recurred
<1>3. Batch(op) = DOMAIN op.slots /\ Batch(op) = 1..n /\ Distinct(op.slots, n)
  BY Tokens DEF LaidOut, Batch
<1>4. ASSUME NEW r \in 1..n, op.slots[r] # Pad
      PROVE  HoldsStates(d[op.slots[r]], SeenBy(op, f, r, op.cu[r + 1]))
  <2>1. PICK s \in Slots : s = op.slots[r]
    BY <1>4, SlotOfRow
  <2>2. /\ \E q \in Batch(op) : op.slots[q] = s
        /\ (CHOOSE q \in Batch(op) : op.slots[q] = s) = r
    BY <1>3, <1>4, <2>1, RowOfSlot
  <2>3. d[s] = Through(form, r, op.cu[r + 1], {})
    BY <1>2, <2>2
  <2>4. Stretch(f[op.slots[r]], op.x, op.cu[r], op.cu[r + 1])
    BY <1>4, WholeRow
  <2> QED
    BY <1>4, <2>1, <2>3, <2>4, RowThrough
<1>5. ASSUME NEW s \in Slots, \A r \in 1..n : op.slots[r] # s PROVE d[s] = rec[s]
  BY <1>2, <1>3, <1>5
<1> QED
  BY <1>1, <1>4, <1>5 DEF Advanced

LEMMA StatesAfterAre ==
  ASSUME NEW n, LaidOut(op, n), NEW f, Sequences(f), \A s \in Slots : HoldsStates(rec[s], f[s]),
         NEW form \in Forms, NEW r, NEW t, Own(op, n, r, t)
  PROVE  HoldsStates(StatesAfter(form, {})[t], SeenBy(op, f, r, t))
<1>1. r \in 1..n /\ InRow(op.cu, n, r, t) /\ op.slots[r] # Pad
  BY DEF Own, InRow
<1>2. t \in Flat(op)
  BY <1>1, RowTokens
<1>3. RowOf(op, t) = r
  BY <1>1, RowOfIs
<1>4. StatesAfter(form, {})[t] = Through(form, r, t, {})
  BY <1>1, <1>2, <1>3 DEF StatesAfter
<1>5. Stretch(f[op.slots[r]], op.x, op.cu[r], t)
  BY RowsSequence
<1> QED
  BY <1>1, <1>4, <1>5, RowThrough

LEMMA RecurKeeps ==
  ASSUME NEW n, CallOf(op, n), Recurring(op, n, conv, rec, fed), NEW form \in Forms, Recur(form, {})
  PROVE  CallOf(op', n) /\ Answering(op', n, conv', rec', fed')
<1>1. /\ IsCall(op) /\ LaidOut(op, n)
      /\ DOMAIN op.out = Flat(op) /\ DOMAIN op.snaps = Flat(op) /\ DOMAIN op.states = Flat(op)
  BY DEF CallOf
<1>2. PICK o, p, c, d, f : o = op /\ p = op' /\ c = conv /\ d = rec' /\ f = fed
  OBVIOUS
<1>3. PICK states : states = StatesAfter(form, {})
  OBVIOUS
<1>4. AtPhase(p, o, "answer", states) /\ d = Recurred(form, {}) /\ conv' = c /\ fed' = f
  BY <1>2, <1>3 DEF Recur, AtPhase
<1>5. /\ IsCall(p) /\ Alike(p, o) /\ p.phase = "answer" /\ p.out = o.out /\ p.snaps = o.snaps
      /\ p.states = states
  BY <1>1, <1>2, <1>4, AtPhaseIs
<1>6. /\ LaidOut(p, n) /\ Flat(p) = Flat(o)
      /\ \A q, k : InRow(p.cu, n, q, k) = InRow(o.cu, n, q, k)
      /\ \A q, k : SeenBy(p, f, q, k) = SeenBy(o, f, q, k)
  BY <1>1, <1>2, <1>5, AlikeCalls
<1>7. DOMAIN states = Flat(o)
  BY <1>2, <1>3 DEF StatesAfter
<1>8. CallOf(p, n)
  BY <1>1, <1>2, <1>5, <1>6, <1>7 DEF CallOf
<1>9. Sequences(f) /\ (\A s \in Slots : HoldsStates(rec[s], f[s])) /\ Windows(o, n, c, f)
  BY <1>2 DEF Recurring, Windows
<1>10. Advanced(d, n, f)
  BY <1>1, <1>4, <1>9, RecurredIs
<1>11. p.slots = o.slots /\ p.cu = o.cu /\ p.verify = o.verify
  BY <1>5 DEF Alike
<1>12. Windows(p, n, c, f)
  <2>1. \A r \in 1..n : p.slots[r] # Pad => HoldsLast(c[p.slots[r]], SeenBy(p, f, r, p.cu[r + 1]))
    BY <1>6, <1>9, <1>11 DEF Windows
  <2>2. \A s \in Slots : (\A r \in 1..n : p.slots[r] # s) => HoldsLast(c[s], f[s])
    BY <1>9, <1>11 DEF Windows
  <2>3. ASSUME NEW r, NEW t, Own(p, n, r, t) PROVE Convolved(p, f, r, t)
    <3>1. Own(o, n, r, t)
      BY <1>6, <1>11, <2>3 DEF Own
    <3>2. Convolved(o, f, r, t)
      BY <1>9, <3>1 DEF Windows
    <3> QED
      BY <1>5, <1>6, <1>11, <3>2 DEF Convolved
  <2> QED
    BY <1>9, <2>1, <2>2, <2>3 DEF Windows
<1>13. \A r \in 1..n : p.slots[r] # Pad => HoldsStates(d[p.slots[r]], SeenBy(p, f, r, p.cu[r + 1]))
  BY <1>2, <1>6, <1>10, <1>11 DEF Advanced
<1>14. \A s \in Slots : (\A r \in 1..n : p.slots[r] # s) => HoldsStates(d[s], f[s])
  BY <1>2, <1>9, <1>10, <1>11 DEF Advanced
<1>15. ASSUME NEW r, NEW t, Own(p, n, r, t) PROVE HoldsStates(p.states[t], SeenBy(p, f, r, t))
  <2>1. Own(op, n, r, t)
    BY <1>2, <1>6, <1>11, <1>15 DEF Own
  <2>2. HoldsStates(states[t], SeenBy(op, f, r, t))
    BY <1>1, <1>3, <1>9, <2>1, StatesAfterAre
  <2> QED
    BY <1>2, <1>5, <1>6, <2>2
<1>16. Answering(p, n, c, d, f)
  BY <1>5, <1>12, <1>13, <1>14, <1>15 DEF Answering
<1> QED
  BY <1>2, <1>4, <1>8, <1>16

-------------------------------------------------------------------------------
(* The tokens count.                                                         *)

LEMMA FirstOfPart ==
  ASSUME NEW n \in Nat, NEW u, IsList(u, n), NEW a \in Nat, NEW b \in Nat, a <= b, b <= n,
         NEW k \in Nat, a + k <= b
  PROVE  SubSeq(SubSeq(u, a + 1, b), 1, k) = SubSeq(u, a + 1, a + k)
<1>1. PICK part, first, whole : /\ IsPart(part, u, a, b) /\ first = SubSeq(part, 1, k)
                                /\ IsPart(whole, u, a, a + k)
  BY DEF IsPart
<1>2. PICK d \in Nat, e \in Nat : d = b - a /\ e = a + k
  OBVIOUS
<1>3. IsList(part, d) /\ \A i \in 1..d : part[i] = u[a + i]
  <2>1. IsList(part, b - a) /\ \A i \in 1..(b - a) : part[i] = u[a + i]
    BY <1>1, PartOf
  <2> QED
    BY <1>2, <2>1
<1>4. IsList(first, k) /\ \A i \in 1..k : first[i] = part[i]
  <2>1. PICK z \in Nat : z = 0
    OBVIOUS
  <2>2. IsPart(first, part, z, k) /\ z <= k /\ k <= d
    BY <1>1, <1>2, <2>1 DEF IsPart
  <2>3. IsList(first, k - z) /\ \A i \in 1..(k - z) : first[i] = part[z + i]
    BY <1>3, <2>2, PartOf
  <2> QED
    BY <2>1, <2>3
<1>5. IsList(whole, k) /\ \A i \in 1..k : whole[i] = u[a + i]
  <2>1. IsPart(whole, u, a, e) /\ a <= e /\ e <= n /\ e - a = k
    BY <1>1, <1>2
  <2>2. IsList(whole, e - a) /\ \A i \in 1..(e - a) : whole[i] = u[a + i]
    BY <2>1, PartOf
  <2> QED
    BY <2>1, <2>2
<1>6. \A i \in 1..k : first[i] = whole[i]
  BY <1>2, <1>3, <1>4, <1>5
<1>7. first = whole
  BY <1>4, <1>5, <1>6, SameList
<1>8. part = SubSeq(u, a + 1, b) /\ whole = SubSeq(u, a + 1, a + k)
  BY <1>1 DEF IsPart
<1> QED
  BY <1>1, <1>7, <1>8

LEMMA NothingMore ==
  ASSUME NEW f, IsSeq(f)
  PROVE  f \o <<>> = f
<1>1. PICK m \in Nat : m = Len(f) /\ IsList(f, m)
  BY DEF IsSeq
<1>2. PICK e, w : e = <<>> /\ w = f \o e
  OBVIOUS
<1>3. IsList(e, 0)
  BY <1>2 DEF IsList
<1>4. Joined(w, f, m, e, 0)
  BY <1>1, <1>2, <1>3 DEF Joined
<1>5. IsList(w, m + 0) /\ \A i \in 1..m : w[i] = f[i]
  BY <1>4, EndToEnd
<1>6. w = f
  BY <1>1, <1>5, SameList
<1> QED
  BY <1>2, <1>6

\* What a slot is served, and what of it counts.
LEMMA ServedIs ==
  ASSUME NEW n, LaidOut(op, n), NEW r \in 1..n, NEW s, op.slots[r] = s, s # Pad
  PROVE  /\ \E q \in Batch(op) : op.slots[q] = s
         /\ (CHOOSE q \in Batch(op) : op.slots[q] = s) = r
         /\ Served(s) = SubSeq(op.x, op.cu[r] + 1, op.cu[r + 1])
<1>1. /\ \E q \in Batch(op) : op.slots[q] = s
      /\ (CHOOSE q \in Batch(op) : op.slots[q] = s) = r
  BY RowOfSlot DEF LaidOut, Batch
<1> QED
  BY <1>1 DEF Served

LEMMA NotServed ==
  ASSUME NEW n, LaidOut(op, n), NEW s, \A r \in 1..n : op.slots[r] # s
  PROVE  ~(\E q \in Batch(op) : op.slots[q] = s) /\ Served(s) = <<>>
<1>1. ~(\E q \in Batch(op) : op.slots[q] = s)
  BY Tokens
<1> QED
  BY <1>1 DEF Served

LEMMA AnswerKeeps ==
  ASSUME NEW n, CallOf(op, n), Answering(op, n, conv, rec, fed), Answer
  PROVE  op' = Idle /\ Following(conv', rec', fed')
<1>1. LaidOut(op, n)
  BY DEF CallOf
<1>2. PICK c, d, f, g : c = conv /\ d = rec /\ f = fed /\ g = fed'
  OBVIOUS
<1>3. op' = Idle /\ conv' = c /\ rec' = d /\ g = [s \in Slots |-> f[s] \o Served(s)]
  BY <1>2 DEF Answer
<1>4. Sequences(f) /\ Windows(op, n, c, f) /\ Answering(op, n, c, d, f)
  BY <1>2 DEF Answering, Windows
<1>5. ASSUME NEW s \in Slots PROVE IsSeq(g[s]) /\ HoldsLast(c[s], g[s]) /\ HoldsStates(d[s], g[s])
  <2>1. s # Pad /\ g[s] = f[s] \o Served(s)
    BY <1>3, GdnAssumption
  <2>2. CASE \E r \in 1..n : op.slots[r] = s
    <3>1. PICK r \in 1..n : op.slots[r] = s
      BY <2>2
    <3>2. Served(s) = SubSeq(op.x, op.cu[r] + 1, op.cu[r + 1])
      BY <1>1, <2>1, <3>1, ServedIs
    <3>3. g[s] = SeenBy(op, f, r, op.cu[r + 1])
      BY <2>1, <3>1, <3>2 DEF SeenBy, Seen
    <3>4. Stretch(f[s], op.x, op.cu[r], op.cu[r + 1])
      BY <1>1, <1>4, <2>1, <3>1, WholeRow
    <3>5. IsSeq(Seen(f[s], op.x, op.cu[r], op.cu[r + 1]))
      BY <3>4, SeenIs
    <3>6. IsSeq(g[s])
      BY <3>1, <3>3, <3>5 DEF SeenBy
    <3>7. HoldsLast(c[s], SeenBy(op, f, r, op.cu[r + 1]))
      BY <1>4, <2>1, <3>1 DEF Windows
    <3>8. HoldsStates(d[s], SeenBy(op, f, r, op.cu[r + 1]))
      BY <1>4, <2>1, <3>1 DEF Answering
    <3> QED
      BY <3>3, <3>6, <3>7, <3>8
  <2>3. CASE ~\E r \in 1..n : op.slots[r] = s
    <3>1. Served(s) = <<>>
      BY <1>1, <2>3, NotServed
    <3>2. g[s] = f[s] /\ IsSeq(f[s])
      BY <1>4, <2>1, <3>1, NothingMore DEF Sequences
    <3>3. HoldsLast(c[s], f[s])
      BY <1>4, <2>3 DEF Windows
    <3>4. HoldsStates(d[s], f[s])
      BY <1>4, <2>3 DEF Answering
    <3> QED
      BY <3>2, <3>3, <3>4
  <2> QED
    BY <2>2, <2>3
<1> QED
  BY <1>2, <1>3, <1>5 DEF Following, Sequences

\* The first tokens of every row count, and the slots are set back to the last of them.
SetBack(acc) ==
  LET last == [r \in Batch(op) |-> op.cu[r] + acc[r]]
  IN /\ conv' = Scattered([r \in Batch(op) |-> op.snaps[last[r]]], op.slots)
     /\ rec' = [s \in Slots |-> IF \E r \in Batch(op) : op.slots[r] = s
                                THEN op.states[last[CHOOSE r \in Batch(op) : op.slots[r] = s]]
                                ELSE rec[s]]
     /\ fed' = [s \in Slots |-> IF \E r \in Batch(op) : op.slots[r] = s
                                THEN fed[s] \o SubSeq(Served(s), 1, acc[CHOOSE r \in Batch(op) : op.slots[r] = s])
                                ELSE fed[s]]

LEMMA SetBackRow ==
  ASSUME NEW n, CallOf(op, n), Answering(op, n, conv, rec, fed), op.verify,
         NEW acc, SetBack(acc), NEW r \in 1..n, NEW s \in Slots, op.slots[r] = s,
         acc[r] \in Nat \ {0}, op.cu[r] + acc[r] <= op.cu[r + 1]
  PROVE  IsSeq(fed'[s]) /\ HoldsLast(conv'[s], fed'[s]) /\ HoldsStates(rec'[s], fed'[s])
<1>1. LaidOut(op, n) /\ s # Pad /\ Batch(op) = 1..n /\ Sequences(fed)
  BY GdnAssumption, Tokens DEF CallOf, Answering, Windows
<1>2. /\ \E q \in Batch(op) : op.slots[q] = s
      /\ (CHOOSE q \in Batch(op) : op.slots[q] = s) = r
      /\ Served(s) = SubSeq(op.x, op.cu[r] + 1, op.cu[r + 1])
  BY <1>1, ServedIs
<1>3. /\ Stretch(fed[s], op.x, op.cu[r], op.cu[r + 1])
      /\ op.cu[r] \in Nat /\ op.cu[r + 1] \in Nat /\ op.cu[r] <= op.cu[r + 1]
  BY <1>1, WholeRow
<1>4. PICK a \in Nat, b \in Nat, k \in Nat \ {0} : a = op.cu[r] /\ b = op.cu[r + 1] /\ k = acc[r] /\ a + k <= b
  BY <1>3
<1>5. PICK t \in Nat : t = a + k /\ a < t /\ t <= b
  BY <1>4
<1>6. Own(op, n, r, t)
  BY <1>1, <1>4, <1>5 DEF Own, InRow
<1>7. HoldsLast(op.snaps[t], SeenBy(op, fed, r, t)) /\ HoldsStates(op.states[t], SeenBy(op, fed, r, t))
  BY <1>6, SMTT(30) DEF Answering, Windows, Convolved
<1>8. fed'[s] = fed[s] \o SubSeq(Served(s), 1, k)
  BY <1>2, <1>4 DEF SetBack
<1>9. SubSeq(Served(s), 1, k) = SubSeq(op.x, a + 1, t)
  <2>1. PICK e \in Nat : IsList(op.x, e) /\ op.cu[r + 1] <= e
    BY <1>3 DEF Stretch
  <2>3. a <= b /\ b <= e /\ a + k <= b /\ k \in Nat
    BY <1>4, <2>1
  <2>2. SubSeq(SubSeq(op.x, a + 1, b), 1, k) = SubSeq(op.x, a + 1, a + k)
    BY <2>1, <2>3, FirstOfPart
  <2> QED
    BY <1>2, <1>4, <1>5, <2>1, <2>2
<1>10. fed'[s] = SeenBy(op, fed, r, t)
  BY <1>4, <1>8, <1>9 DEF SeenBy, Seen
<1>11. IsSeq(fed'[s])
  <2>1. Stretch(fed[s], op.x, op.cu[r], t)
    BY <1>3, <1>4, <1>5, ShorterStretch
  <2>2. IsSeq(Seen(fed[s], op.x, op.cu[r], t))
    BY <2>1, SeenIs
  <2>3. fed'[s] = Seen(fed[s], op.x, op.cu[r], t)
    BY <1>4, <1>8, <1>9 DEF Seen
  <2> QED
    BY <2>2, <2>3
<1>12. rec'[s] = op.states[t]
  BY <1>1, <1>2, <1>4, <1>5 DEF SetBack
<1>13. conv'[s] = op.snaps[t]
  <2>1. PICK rows : rows = [q \in Batch(op) |-> op.snaps[op.cu[q] + acc[q]]] /\ conv' = Scattered(rows, op.slots)
    BY DEF SetBack
  <2>2. Written(conv', conv, rows, op.slots, n)
    BY <1>1, <2>1, ScatteredIs DEF LaidOut
  <2>3. conv'[s] = rows[r]
    BY <1>1, <2>2 DEF Written
  <2> QED
    BY <1>1, <1>4, <1>5, <2>1, <2>3
<1> QED
  BY <1>7, <1>10, <1>11, <1>12, <1>13

LEMMA SetBackOther ==
  ASSUME NEW n, CallOf(op, n), Answering(op, n, conv, rec, fed),
         NEW acc, SetBack(acc), NEW s \in Slots, \A r \in 1..n : op.slots[r] # s
  PROVE  IsSeq(fed'[s]) /\ HoldsLast(conv'[s], fed'[s]) /\ HoldsStates(rec'[s], fed'[s])
<1>1. LaidOut(op, n) /\ IsSeq(fed[s]) /\ HoldsLast(conv[s], fed[s]) /\ HoldsStates(rec[s], fed[s])
  BY DEF CallOf, Answering, Windows, Sequences
<1>2. ~\E q \in Batch(op) : op.slots[q] = s
  BY <1>1, NotServed
<1>3. fed'[s] = fed[s] /\ rec'[s] = rec[s]
  BY <1>2 DEF SetBack
<1>4. conv'[s] = conv[s]
  <2>1. PICK rows : conv' = Scattered(rows, op.slots)
    BY DEF SetBack
  <2>2. Written(conv', conv, rows, op.slots, n)
    BY <1>1, <2>1, ScatteredIs DEF LaidOut
  <2> QED
    BY <2>2 DEF Written
<1> QED
  BY <1>1, <1>3, <1>4

LEMMA AcceptKeeps ==
  ASSUME NEW n, CallOf(op, n), Answering(op, n, conv, rec, fed), Accept
  PROVE  op' = Idle /\ Following(conv', rec', fed')
<1>1. op' = Idle /\ op.verify
  BY Zenon DEF Accept
<1>2. PICK acc \in [Batch(op) -> 1..MaxChunk] : (\A r \in Batch(op) : acc[r] <= RowLen(op, r)) /\ SetBack(acc)
  BY DEF Accept, SetBack
<1>3. LaidOut(op, n) /\ Batch(op) = 1..n
  BY Tokens DEF CallOf
<1>4. ASSUME NEW s \in Slots
      PROVE  IsSeq(fed'[s]) /\ HoldsLast(conv'[s], fed'[s]) /\ HoldsStates(rec'[s], fed'[s])
  <2>1. CASE \E r \in 1..n : op.slots[r] = s
    <3>1. PICK r \in 1..n : op.slots[r] = s
      BY <2>1
    <3>2. acc[r] \in 1..MaxChunk /\ acc[r] <= op.cu[r + 1] - op.cu[r]
      BY <1>2, <1>3 DEF RowLen
    <3>3. n \in Nat
      BY <1>3 DEF LaidOut, Bounds
    <3>4. r \in 1..(n + 1) /\ r + 1 \in 1..(n + 1)
      BY <3>3
    <3>5. op.cu[r] \in Nat /\ op.cu[r + 1] \in Nat
      BY <1>3, <3>4 DEF LaidOut, Bounds
    <3>6. acc[r] \in Nat \ {0} /\ op.cu[r] + acc[r] <= op.cu[r + 1]
      BY <3>2, <3>5, GdnAssumption
    <3> QED
      BY <1>1, <1>2, <3>1, <3>6, SetBackRow
  <2>2. CASE ~\E r \in 1..n : op.slots[r] = s
    BY <1>2, <2>2, SetBackOther
  <2> QED
    BY <2>1, <2>2
<1> QED
  BY <1>1, <1>4 DEF Following, Sequences

-------------------------------------------------------------------------------
(* A call begins.                                                            *)

LEMMA BatchesAre ==
  ASSUME NEW S, S \subseteq Slots \cup {Pad}, NEW slots \in Batches(S)
  PROVE  \E n \in Nat \ {0} : IsList(slots, n) /\ Distinct(slots, n)
<1>1. PICK n \in 1..MaxRows : slots \in [1..n -> S]
  BY DEF Batches
<1>2. n \in Nat \ {0}
  BY GdnAssumption
<1>3. \A r, q \in 1..n : r # q /\ slots[r] = slots[q] => slots[r] = Pad
  BY <1>1 DEF Batches
<1>4. IsList(slots, n) /\ DOMAIN slots = 1..n /\ \A r \in 1..n : slots[r] \in Slots \cup {Pad}
  BY <1>1 DEF IsList
<1> QED
  BY <1>2, <1>3, <1>4 DEF Distinct

Begun(o, slots, lens, decode, verify, n) ==
  /\ CallOf(o, n) /\ OffsetsBy(o.cu, lens, n)
  /\ o.slots = slots /\ o.verify = verify /\ o.phase = "conv" /\ o.committed = {}
  /\ o.state = IF decode THEN <<>> ELSE Gathered(slots)
  /\ \A t \in Flat(o) : o.out[t] = Nothing /\ o.snaps[t] = Nothing /\ o.states[t] = Nothing

LEMMA CallIs ==
  ASSUME NEW n \in Nat \ {0}, NEW slots, IsList(slots, n), Distinct(slots, n),
         NEW lens \in [1..n -> Nat], NEW decode, NEW verify, NEW o, o = Call(slots, lens, decode, verify)
  PROVE  Begun(o, slots, lens, decode, verify, n)
<1> DEFINE cu == CuSeqlens(lens)
           tok(t) == NewToken(slots[Holder(cu, DOMAIN slots, t)], t - cu[Holder(cu, DOMAIN slots, t)])
           x == [t \in 1..cu[Len(slots) + 1] |-> tok(t)]
           unset == [t \in DOMAIN x |-> Nothing]
           first == IF decode THEN <<>> ELSE Gathered(slots)
<1>1. o = [slots |-> slots, x |-> x, decode |-> decode, verify |-> verify, cu |-> cu,
           phase |-> "conv", parallel |-> ParallelServes, committed |-> {},
           state |-> first, out |-> unset, snaps |-> unset, states |-> unset]
  BY DEF Call
<1>2. OffsetsBy(cu, lens, n)
  <2>1. Len(lens) = n
    OBVIOUS
  <2> QED
    BY <2>1, CuSeqlensUnfolds
<1> HIDE DEF cu
<1>3. Bounds(cu, n)
  BY <1>2, OffsetsAreBounds
<1>4. x = [t \in 1..cu[n + 1] |-> tok(t)] /\ DOMAIN x = 1..cu[n + 1]
  <2>1. Len(slots) = n
    BY ListIsSeq
  <2> QED
    BY <2>1
<1> HIDE DEF tok
<1>5. IsList(x, cu[n + 1])
  BY <1>4 DEF IsList
<1>6. DOMAIN unset = DOMAIN x /\ \A t \in DOMAIN x : unset[t] = Nothing
  OBVIOUS
<1> HIDE DEF x, unset, first
<1>7. /\ o.slots = slots /\ o.x = x /\ o.decode = decode /\ o.verify = verify /\ o.cu = cu
      /\ o.phase = "conv" /\ o.parallel = ParallelServes /\ o.committed = {}
      /\ o.state = first /\ o.out = unset /\ o.snaps = unset /\ o.states = unset
  BY <1>1
<1>8. IsCall(o)
  BY <1>1, <1>7 DEF IsCall
<1>9. LaidOut(o, n)
  BY <1>3, <1>5, <1>7 DEF LaidOut
<1>10. CallOf(o, n)
  BY <1>6, <1>7, <1>8, <1>9 DEF CallOf, Flat
<1>11. first = IF decode THEN <<>> ELSE Gathered(slots)
  BY DEF first
<1>12. \A t \in Flat(o) : o.out[t] = Nothing /\ o.snaps[t] = Nothing /\ o.states[t] = Nothing
  BY <1>6, <1>7 DEF Flat
<1> QED
  BY <1>2, <1>7, <1>10, <1>11, <1>12 DEF Begun

LEMMA PrefillKeeps ==
  ASSUME Following(conv, rec, fed), Prefill
  PROVE  Serving(op', conv', rec', fed')
<1>1. PICK slots \in Batches(Slots), verify \in BOOLEAN : \E lens \in [DOMAIN slots -> 0..MaxChunk] :
        /\ \A r \in DOMAIN lens : verify => lens[r] > 0
        /\ Issue(Call(slots, lens, FALSE, verify))
  BY DEF Prefill
<1>2. PICK lens \in [DOMAIN slots -> 0..MaxChunk] : Issue(Call(slots, lens, FALSE, verify))
  BY <1>1
<1>3. PICK n \in Nat \ {0} : IsList(slots, n) /\ Distinct(slots, n)
  BY BatchesAre
<1>4. lens \in [1..n -> Nat]
  BY <1>3, GdnAssumption DEF Distinct
<1>5. PICK o, c, d, f : o = op' /\ c = conv /\ d = rec /\ f = fed
  OBVIOUS
<1>6. o = Call(slots, lens, FALSE, verify) /\ conv' = c /\ rec' = d /\ fed' = f
  BY <1>2, <1>5 DEF Issue, Prefill
<1>7. Begun(o, slots, lens, FALSE, verify, n)
  BY <1>3, <1>4, <1>6, CallIs
<1>8. CallOf(o, n) /\ o.slots = slots /\ o.committed = {} /\ o.phase = "conv" /\ LaidOut(o, n)
  BY <1>7 DEF Begun, CallOf
<1>9. DOMAIN slots = 1..n /\ \A r \in 1..n : slots[r] \in Slots /\ slots[r] # Pad
  <2>1. \A r \in DOMAIN slots : slots[r] \in Slots
    BY DEF Batches
  <2> QED
    BY <1>3, <2>1, GdnAssumption DEF Distinct
<1>10. o.state = [r \in 1..n |-> c[slots[r]]]
  BY <1>5, <1>7, <1>9 DEF Begun, Gathered
<1>11. Following(c, d, f)
  BY <1>5
<1>12. \A r \in 1..n : HoldsLast(o.state[r], f[o.slots[r]])
  BY <1>8, <1>9, <1>10, <1>11 DEF Following
<1>13. ASSUME NEW r, NEW t, InRow(o.cu, n, r, t) PROVE o.out[t] = Nothing
  <2>1. t \in Flat(o)
    BY <1>8, <1>13, RowTokens
  <2> QED
    BY <1>7, <2>1 DEF Begun
<1>14. Convolving(o, n, c, d, f)
  <2>1. \A t \in Flat(o) : o.states[t] = Nothing
    BY <1>7 DEF Begun
  <2>2. DOMAIN o.state = 1..n
    BY <1>10
  <2> QED
    BY <1>8, <1>9, <1>11, <1>12, <1>13, <2>1, <2>2 DEF Convolving
<1> QED
  BY <1>5, <1>6, <1>8, <1>14 DEF Serving

\* Every row has its one token: row r is token r.
Singles(o, n) ==
  /\ LaidOut(o, n) /\ Flat(o) = 1..n
  /\ \A r \in 1..n : o.cu[r] = r - 1 /\ o.cu[r + 1] = r

LEMMA SinglesAre ==
  ASSUME NEW n, NEW o, NEW slots, NEW lens, Begun(o, slots, lens, TRUE, FALSE, n), \A r \in 1..n : lens[r] = 1
  PROVE  Singles(o, n)
<1>1. LaidOut(o, n) /\ OffsetsBy(o.cu, lens, n)
  BY DEF Begun, CallOf
<1>2. n \in Nat \ {0} /\ Flat(o) = 1..o.cu[n + 1]
  BY <1>1, Tokens
<1>3. \A r \in 1..(n + 1) : o.cu[r] = r - 1
  BY <1>1, <1>2, OnesAreCounted
<1>4. ASSUME NEW r \in 1..n PROVE o.cu[r] = r - 1 /\ o.cu[r + 1] = r
  <2>1. r \in 1..(n + 1) /\ r + 1 \in 1..(n + 1) /\ (r + 1) - 1 = r
    BY <1>2
  <2> QED
    BY <1>3, <2>1
<1>5. o.cu[n + 1] = n
  <2>1. n + 1 \in 1..(n + 1) /\ (n + 1) - 1 = n
    BY <1>2
  <2> QED
    BY <1>3, <2>1
<1> QED
  BY <1>1, <1>2, <1>4, <1>5 DEF Singles

\* What the kernels for one token per row write, on the slots or on gathered rows.
OneMore(o, n, out, d) ==
  /\ DOMAIN out = Flat(o)
  /\ \A r \in 1..n : o.slots[r] # Pad => /\ out[r] = Append(conv[o.slots[r]], o.x[r])
                                         /\ d[o.slots[r]] = Shifted(conv[o.slots[r]], o.x[r])
  /\ \A s \in Slots : (\A r \in 1..n : o.slots[r] # s) => d[s] = conv[s]

LEMMA UpdateSlotsIs ==
  ASSUME NEW o, NEW n, Singles(o, n)
  PROVE  OneMore(o, n, CausalConv1dUpdateSlots(o).out, CausalConv1dUpdateSlots(o).conv)
<1>1. PICK out, d : out = CausalConv1dUpdateSlots(o).out /\ d = CausalConv1dUpdateSlots(o).conv
  OBVIOUS
<1>2. /\ out = [t \in Flat(o) |-> IF o.slots[t] = Pad THEN Nothing ELSE Append(conv[o.slots[t]], o.x[t])]
      /\ d = [s \in Slots |-> IF \E t \in Flat(o) : o.slots[t] = s
                              THEN Shifted(conv[s], o.x[CHOOSE t \in Flat(o) : o.slots[t] = s]) ELSE conv[s]]
  BY <1>1 DEF CausalConv1dUpdateSlots
<1>3. Flat(o) = 1..n /\ Flat(o) = DOMAIN o.slots /\ LaidOut(o, n) /\ Distinct(o.slots, n)
  BY DEF Singles, LaidOut, Distinct
<1>4. ASSUME NEW r \in 1..n, o.slots[r] # Pad
      PROVE  out[r] = Append(conv[o.slots[r]], o.x[r]) /\ d[o.slots[r]] = Shifted(conv[o.slots[r]], o.x[r])
  <2>1. PICK s \in Slots : s = o.slots[r]
    BY <1>3, <1>4, SlotOfRow
  <2>2. /\ \E q \in Flat(o) : o.slots[q] = s
        /\ (CHOOSE q \in Flat(o) : o.slots[q] = s) = r
    BY <1>3, <1>4, <2>1, RowOfSlot
  <2>3. d[s] = Shifted(conv[s], o.x[r])
    BY <1>2, <2>2
  <2>4. out[r] = Append(conv[s], o.x[r])
    BY <1>2, <1>3, <1>4, <2>1
  <2> QED
    BY <2>1, <2>3, <2>4
<1>5. ASSUME NEW s \in Slots, \A r \in 1..n : o.slots[r] # s PROVE d[s] = conv[s]
  BY <1>2, <1>3, <1>5
<1>6. DOMAIN out = Flat(o)
  BY <1>2
<1> QED
  BY <1>1, <1>4, <1>5, <1>6 DEF OneMore

LEMMA UpdateIs ==
  ASSUME NEW o, NEW n, Singles(o, n)
  PROVE  OneMore(o, n, CausalConv1dUpdate(o).out, CausalConv1dUpdate(o).conv)
<1>1. PICK out, d, rows : /\ out = CausalConv1dUpdate(o).out /\ d = CausalConv1dUpdate(o).conv
                          /\ rows = Gathered(o.slots)
  OBVIOUS
<1>2. PICK shifted : shifted = [t \in Flat(o) |-> Shifted(rows[t], o.x[t])]
  OBVIOUS
<1>3. out = [t \in Flat(o) |-> Append(rows[t], o.x[t])] /\ d = Scattered(shifted, o.slots)
  BY <1>1, <1>2 DEF CausalConv1dUpdate
<1>4. Flat(o) = 1..n /\ DOMAIN o.slots = 1..n /\ Distinct(o.slots, n)
  BY DEF Singles, LaidOut, Distinct
<1>5. \A r \in 1..n : rows[r] = conv[o.slots[r]]
  BY <1>1, <1>4 DEF Gathered
<1>6. Written(d, conv, shifted, o.slots, n)
  BY <1>3, <1>4, ScatteredIs
<1>7. \A r \in 1..n : out[r] = Append(conv[o.slots[r]], o.x[r]) /\ shifted[r] = Shifted(conv[o.slots[r]], o.x[r])
  BY <1>2, <1>3, <1>4, <1>5
<1>8. DOMAIN out = Flat(o)
  BY <1>3
<1> QED
  BY <1>1, <1>6, <1>7, <1>8 DEF OneMore, Written

AtRecurrence(p, o, out) == p = [o EXCEPT !.phase = "recurrence", !.out = out]

LEMMA AtRecurrenceIs ==
  ASSUME NEW o, IsCall(o), NEW p, NEW out, AtRecurrence(p, o, out)
  PROVE  /\ IsCall(p) /\ Alike(p, o) /\ p.phase = "recurrence" /\ p.out = out /\ p.snaps = o.snaps
         /\ p.states = o.states
<1>1. p = [slots |-> o.slots, x |-> o.x, decode |-> o.decode, verify |-> o.verify, cu |-> o.cu,
           phase |-> "recurrence", parallel |-> o.parallel, committed |-> o.committed,
           state |-> o.state, out |-> out, snaps |-> o.snaps, states |-> o.states]
  BY DEF IsCall, AtRecurrence
<1>2. /\ Alike(p, o) /\ p.phase = "recurrence" /\ p.committed = o.committed
      /\ p.state = o.state /\ p.decode = o.decode
      /\ p.out = out /\ p.snaps = o.snaps /\ p.states = o.states
  BY <1>1 DEF Alike
<1>3. IsCall(p)
  BY <1>1, <1>2 DEF IsCall, Alike
<1> QED
  BY <1>2, <1>3

\* A token more in every slot of the batch.
LEMMA TokenMore ==
  ASSUME NEW o, NEW n, Singles(o, n), NEW f, Sequences(f), NEW r \in 1..n, NEW s, o.slots[r] = s, s # Pad,
         NEW w, HoldsLast(w, f[s])
  PROVE  /\ Append(w, o.x[r]) = LastInputs(SeenBy(o, f, r, r), KernelSize)
         /\ HoldsLast(Shifted(w, o.x[r]), SeenBy(o, f, r, r))
<1>1. LaidOut(o, n) /\ o.cu[r] = r - 1 /\ o.cu[r + 1] = r
  BY DEF Singles
<1>2. Stretch(f[s], o.x, o.cu[r], o.cu[r + 1]) /\ o.cu[r] \in Nat
  BY <1>1, WholeRow
<1>3. PICK a \in Nat : a = o.cu[r] /\ a + 1 = r
  BY <1>1, <1>2
<1>4. PICK x, g : x = o.x /\ g = f[s]
  OBVIOUS
<1>5. Stretch(g, x, a, a + 1)
  BY <1>1, <1>2, <1>3, <1>4
<1>6. Stretch(g, x, a, a)
  BY <1>3, <1>5, ShorterStretch
<1>7. HoldsLast(w, Seen(g, x, a, a))
  BY <1>4, <1>6, NothingSeen
<1>8. /\ Append(w, x[a + 1]) = LastInputs(Seen(g, x, a, a + 1), KernelSize)
      /\ HoldsLast(Shifted(w, x[a + 1]), Seen(g, x, a, a + 1))
  BY <1>5, <1>6, <1>7, LastOfOneMore
<1> QED
  BY <1>3, <1>4, <1>8 DEF SeenBy

LEMMA DecodeKeeps ==
  ASSUME NEW n, NEW o, NEW slots, NEW lens, Begun(o, slots, lens, TRUE, FALSE, n), \A r \in 1..n : lens[r] = 1,
         NEW f, Following(conv, rec, f), NEW out, NEW d, OneMore(o, n, out, d), NEW p, AtRecurrence(p, o, out)
  PROVE  Serving(p, d, rec, f)
<1>1. /\ IsCall(o) /\ LaidOut(o, n) /\ DOMAIN o.snaps = Flat(o) /\ DOMAIN o.states = Flat(o)
      /\ o.verify = FALSE /\ Singles(o, n) /\ n \in Nat
  BY SinglesAre DEF Begun, CallOf, LaidOut, Bounds
<1>2. /\ IsCall(p) /\ Alike(p, o) /\ p.phase = "recurrence" /\ p.out = out /\ p.states = o.states
      /\ p.snaps = o.snaps
  BY <1>1, AtRecurrenceIs
<1>3. /\ LaidOut(p, n) /\ Flat(p) = Flat(o)
      /\ \A q, k : InRow(p.cu, n, q, k) = InRow(o.cu, n, q, k)
      /\ \A q, k : SeenBy(p, f, q, k) = SeenBy(o, f, q, k)
  BY <1>1, <1>2, AlikeCalls
<1>4. CallOf(p, n)
  BY <1>1, <1>2, <1>3 DEF CallOf, OneMore
<1>5. Sequences(f) /\ p.slots = o.slots /\ p.cu = o.cu /\ p.verify = FALSE
  BY <1>1, <1>2 DEF Following, Alike
<1>6. ASSUME NEW r \in 1..n, o.slots[r] # Pad
      PROVE  /\ out[r] = LastInputs(SeenBy(o, f, r, r), KernelSize)
             /\ HoldsLast(d[o.slots[r]], SeenBy(o, f, r, r))
  <2>1. PICK s \in Slots : s = o.slots[r]
    BY <1>1, <1>6, SlotOfRow
  <2>2. HoldsLast(conv[s], f[s])
    BY DEF Following
  <2>3. out[r] = Append(conv[s], o.x[r]) /\ d[s] = Shifted(conv[s], o.x[r])
    BY <1>6, <2>1 DEF OneMore
  <2>4. /\ Append(conv[s], o.x[r]) = LastInputs(SeenBy(o, f, r, r), KernelSize)
        /\ HoldsLast(Shifted(conv[s], o.x[r]), SeenBy(o, f, r, r))
    BY <1>1, <1>5, <1>6, <2>1, <2>2, TokenMore
  <2> QED
    BY <2>1, <2>3, <2>4
<1>7. \A r \in 1..n : p.slots[r] # Pad => HoldsLast(d[p.slots[r]], SeenBy(p, f, r, p.cu[r + 1]))
  <2>1. \A r \in 1..n : o.cu[r + 1] = r
    BY <1>1 DEF Singles
  <2> QED
    BY <1>3, <1>5, <1>6, <2>1
<1>8. \A s \in Slots : (\A r \in 1..n : p.slots[r] # s) => HoldsLast(d[s], f[s])
  BY <1>5 DEF OneMore, Following
<1>9. ASSUME NEW r, NEW t, Own(p, n, r, t) PROVE Convolved(p, f, r, t)
  <2>1. r \in 1..n /\ t \in Nat /\ o.cu[r] < t /\ t <= o.cu[r + 1] /\ o.slots[r] # Pad
    BY <1>5, <1>9 DEF Own, InRow
  <2>2. t = r
    <3>1. o.cu[r] = r - 1 /\ o.cu[r + 1] = r
      BY <1>1, <2>1 DEF Singles
    <3> QED
      BY <1>1, <2>1, <3>1
  <2> QED
    BY <1>2, <1>3, <1>5, <1>6, <2>1, <2>2 DEF Convolved
<1>10. \A s \in Slots : HoldsStates(rec[s], f[s])
  BY DEF Following
<1>11. \A t \in Flat(p) : p.states[t] = Nothing
  BY <1>2, <1>3 DEF Begun
<1>12. Recurring(p, n, d, rec, f)
  BY <1>2, <1>5, <1>7, <1>8, <1>9, <1>10, <1>11 DEF Recurring, Windows
<1> QED
  BY <1>4, <1>12 DEF Serving

LEMMA DecodeStepKeeps ==
  ASSUME Following(conv, rec, fed), DecodeStep
  PROVE  Serving(op', conv', rec', fed')
<1>1. PICK slots \in Batches(Slots \cup {Pad}) :
        LET o == Call(slots, [r \in DOMAIN slots |-> 1], TRUE, FALSE)
            Updated(u) == Issue([o EXCEPT !.phase = "recurrence", !.out = u.out]) /\ conv' = u.conv
        IN \/ Updated(CausalConv1dUpdateSlots(o)) \/ Updated(CausalConv1dUpdate(o))
  BY DEF DecodeStep, CausalConv1dUpdateSlotsMetal, CausalConv1dUpdateMetal
<1>2. PICK lens, o : lens = [r \in DOMAIN slots |-> 1] /\ o = Call(slots, lens, TRUE, FALSE)
  OBVIOUS
<1>3. PICK n \in Nat \ {0} : IsList(slots, n) /\ Distinct(slots, n)
  BY BatchesAre
<1>4. lens \in [1..n -> Nat] /\ \A r \in 1..n : lens[r] = 1
  BY <1>2, <1>3 DEF Distinct
<1>5. Begun(o, slots, lens, TRUE, FALSE, n)
  BY <1>2, <1>3, <1>4, CallIs
<1>6. Singles(o, n)
  BY <1>4, <1>5, SinglesAre
<1>7. PICK out, d : /\ OneMore(o, n, out, d)
                    /\ Issue([o EXCEPT !.phase = "recurrence", !.out = out]) /\ conv' = d
  <2> DEFINE Updated(u) == Issue([o EXCEPT !.phase = "recurrence", !.out = u.out]) /\ conv' = u.conv
  <2>1. Updated(CausalConv1dUpdateSlots(o)) \/ Updated(CausalConv1dUpdate(o))
    BY <1>1, <1>2
  <2>2. CASE Updated(CausalConv1dUpdateSlots(o))
    BY <1>6, <2>2, UpdateSlotsIs
  <2>3. CASE Updated(CausalConv1dUpdate(o))
    BY <1>6, <2>3, UpdateIs
  <2> QED
    BY <2>1, <2>2, <2>3
<1>8. AtRecurrence(op', o, out) /\ rec' = rec /\ fed' = fed
  BY <1>7 DEF Issue, AtRecurrence
<1>9. Serving(op', d, rec, fed)
  BY <1>4, <1>5, <1>7, <1>8, DecodeKeeps
<1> QED
  BY <1>7, <1>8, <1>9

LEMMA ConvolveKeeps ==
  ASSUME NEW n, CallOf(op, n), Convolving(op, n, conv, rec, fed), Convolve
  PROVE  CallOf(op', n) /\ Convolving(op', n, conv', rec', fed')
<1>1. Batch(op) = 1..n /\ conv' = conv /\ rec' = rec /\ fed' = fed
  BY Tokens DEF CallOf, Convolve
<1>2. PICK o, p, c, d, f : o = op /\ p = op' /\ c = conv /\ d = rec /\ f = fed
  OBVIOUS
<1>3. CallOf(o, n) /\ Convolving(o, n, c, d, f)
  BY <1>2
<1>4. CASE \E t \in Flat(op) : CausalConv1dFwdParallel(t)
  <2>1. PICK t \in Flat(o) : CausalConv1dFwdParallel(t)
    BY <1>2, <1>4
  <2>2. o.parallel /\ o.out[t] = Nothing /\ ServedToken(p, o, t)
    BY <1>2, <2>1 DEF CausalConv1dFwdParallel, ServedToken, ParallelOut, ParallelSnap
  <2>3. CallOf(p, n) /\ Convolving(p, n, c, d, f)
    BY <1>3, <2>2, ParallelKeeps
  <2> QED
    BY <1>1, <1>2, <2>3
<1>5. CASE \E r \in Batch(op) : CausalConv1dStateCommit(r)
  <2>1. PICK r \in 1..n : CausalConv1dStateCommit(r)
    BY <1>1, <1>5
  <2>2. /\ o.parallel /\ r \notin o.committed /\ RowCommitted(p, o, r, Committed(o, r))
        /\ \A t \in Flat(o) : o.out[t] # Nothing
    BY <1>2, <2>1 DEF CausalConv1dStateCommit, RowCommitted, ConvolutionDone
  <2>3. CallOf(p, n) /\ Convolving(p, n, c, d, f)
    BY <1>3, <2>2, CommitKeeps
  <2> QED
    BY <1>1, <1>2, <2>3
<1>6. CASE \E r \in Batch(op) : InSequence(r)
  <2>1. PICK r \in 1..n : InSequence(r)
    BY <1>1, <1>6
  <2>2. InOneGo(o) /\ r \notin o.committed /\ InTurn(p, o, r)
    BY <1>2, <2>1 DEF InSequence, InTurn, InOneGo
  <2>3. CallOf(p, n) /\ Convolving(p, n, c, d, f)
    BY <1>3, <2>2, InTurnKeeps
  <2> QED
    BY <1>1, <1>2, <2>3
<1>7. \/ \E t \in Flat(op) : CausalConv1dFwdParallel(t)
      \/ \E r \in Batch(op) : CausalConv1dStateCommit(r)
      \/ \E r \in Batch(op) : InSequence(r)
  BY DEF Convolve, CausalConv1dFwd, CausalConv1dFwdMetal
<1> QED
  BY <1>4, <1>5, <1>6, <1>7

LEMMA FinishConvolutionKeeps ==
  ASSUME NEW n, CallOf(op, n), Convolving(op, n, conv, rec, fed), FinishConvolution
  PROVE  CallOf(op', n) /\ Recurring(op', n, conv', rec', fed')
<1>1. PICK o, p, c, d, r, f : o = op /\ p = op' /\ c = conv /\ d = conv' /\ r = rec /\ f = fed
  OBVIOUS
<1>2. /\ CallOf(o, n) /\ Convolving(o, n, c, r, f) /\ o.committed = Batch(o)
      /\ rec' = r /\ fed' = f /\ IsCall(o) /\ Distinct(o.slots, n)
  BY <1>1 DEF FinishConvolution, CallOf, LaidOut
<1>3. Written(d, c, o.state, o.slots, n)
  BY <1>1, <1>2, ScatteredIs DEF FinishConvolution
<1>4. AtPhase(p, o, "recurrence", o.states)
  <2>1. p = [o EXCEPT !.phase = "recurrence"]
    BY <1>1 DEF FinishConvolution
  <2> QED
    BY <1>2, <2>1 DEF IsCall, AtPhase
<1>5. CallOf(p, n) /\ Recurring(p, n, d, r, f)
  BY <1>2, <1>3, <1>4, FinishKeeps
<1> QED
  BY <1>1, <1>2, <1>5

-------------------------------------------------------------------------------
(* Every state.                                                              *)

SlotsConsistent == Consistent(op, conv, rec, fed)

LEMMA Phases ==
  ASSUME NEW o, NEW c, NEW rc, NEW f, Serving(o, c, rc, f)
  PROVE  /\ o # Idle
         /\ \E n : CallOf(o, n) /\ \/ o.phase = "conv" /\ Convolving(o, n, c, rc, f)
                                   \/ o.phase = "recurrence" /\ Recurring(o, n, c, rc, f)
                                   \/ o.phase = "answer" /\ Answering(o, n, c, rc, f)
<1>1. \E n : CallOf(o, n) /\ \/ o.phase = "conv" /\ Convolving(o, n, c, rc, f)
                             \/ o.phase = "recurrence" /\ Recurring(o, n, c, rc, f)
                             \/ o.phase = "answer" /\ Answering(o, n, c, rc, f)
  BY DEF Serving, Convolving, Recurring, Answering
<1>2. o.phase # "idle"
  BY <1>1
<1> QED
  BY <1>1, <1>2 DEF Idle

LEMMA SlotsConsistentInit == Init => SlotsConsistent
<1> SUFFICES ASSUME GdnInit PROVE SlotsConsistent
  BY DEF Init
<1>1. /\ conv = [s \in Slots |-> Zeros] /\ rec = [s \in Slots |-> [h \in VHeads |-> <<>>]]
      /\ fed = [s \in Slots |-> <<>>] /\ op = Idle
  BY DEF GdnInit
<1>2. PICK e : e = <<>>
  OBVIOUS
<1>3. IsList(e, 0) /\ IsSeq(e)
  BY <1>2 DEF IsList, IsSeq
<1>4. HoldsLast(Zeros, e)
  <2>1. PICK w \in Nat : w = Width /\ w <= KernelSize
    BY Kernel
  <2>2. PICK z \in Nat : z = 0 /\ IsList(e, z)
    BY <1>3
  <2>3. LastInputs(e, w) = [i \in 1..w |-> InputAt(e, z - w + i)]
    BY <2>1, <2>2, LastInputsAre
  <2>4. ASSUME NEW i \in 1..w PROVE InputAt(e, z - w + i) = Nothing
    <3>1. ~(z - w + i >= 1)
      BY <2>2
    <3> QED
      BY <3>1 DEF InputAt
  <2> QED
    BY <2>1, <2>3, <2>4 DEF HoldsLast, Zeros
<1>5. HoldsStates([h \in VHeads |-> e], e)
  <2>1. ASSUME NEW h \in VHeads PROVE [i \in DOMAIN e |-> Expected(e[i], h)] = e
    <3>1. PICK l : l = [i \in DOMAIN e |-> Expected(e[i], h)]
      OBVIOUS
    <3>2. DOMAIN e = 1..0
      BY <1>2
    <3>3. IsList(l, 0)
      BY <3>1, <3>2 DEF IsList
    <3>4. l = e
      BY <1>3, <3>3, SameList
    <3> QED
      BY <3>1, <3>4
  <2> QED
    BY <2>1 DEF HoldsStates, States
<1> QED
  BY <1>1, <1>2, <1>3, <1>4, <1>5 DEF SlotsConsistent, Consistent, Following, Sequences

LEMMA SlotsConsistentNext ==
  ASSUME LockStep, SlotsConsistent, GdnNext
  PROVE  SlotsConsistent'
<1>1. CASE op = Idle
  <2>1. Following(conv, rec, fed)
    BY <1>1, Phases DEF SlotsConsistent, Consistent
  <2>2. Prefill \/ DecodeStep
    BY <1>1 DEF GdnNext
  <2>3. Serving(op', conv', rec', fed')
    BY <2>1, <2>2, PrefillKeeps, DecodeStepKeeps
  <2> QED
    BY <2>3 DEF SlotsConsistent, Consistent
<1>2. CASE op # Idle
  <2>1. PICK n : CallOf(op, n) /\ \/ op.phase = "conv" /\ Convolving(op, n, conv, rec, fed)
                                  \/ op.phase = "recurrence" /\ Recurring(op, n, conv, rec, fed)
                                  \/ op.phase = "answer" /\ Answering(op, n, conv, rec, fed)
    BY <1>2, Phases DEF SlotsConsistent, Consistent
  <2>2. Convolve \/ FinishConvolution \/ Recurrence \/ Answer \/ Accept
    BY <1>2 DEF GdnNext, Prefill, DecodeStep
  <2>3. CASE Convolve
    <3>1. CallOf(op', n) /\ Convolving(op', n, conv', rec', fed')
      BY <2>1, <2>3, ConvolveKeeps DEF Convolve
    <3> QED
      BY <3>1 DEF SlotsConsistent, Consistent, Serving
  <2>4. CASE FinishConvolution
    <3>1. CallOf(op', n) /\ Recurring(op', n, conv', rec', fed')
      BY <2>1, <2>4, FinishConvolutionKeeps DEF FinishConvolution
    <3> QED
      BY <3>1 DEF SlotsConsistent, Consistent, Serving
  <2>5. CASE Recurrence
    <3>1. LaidOut(op, n)
      BY <2>1 DEF CallOf
    <3>2. PICK form \in Forms : Recur(form, {})
      BY <2>5, <3>1, RecurrenceIs
    <3>3. Recurring(op, n, conv, rec, fed)
      BY <2>1, <3>2 DEF Recur
    <3>4. CallOf(op', n) /\ Answering(op', n, conv', rec', fed')
      BY <2>1, <3>2, <3>3, RecurKeeps
    <3> QED
      BY <3>4 DEF SlotsConsistent, Consistent, Serving
  <2>6. CASE Answer \/ Accept
    <3>1. Answering(op, n, conv, rec, fed)
      BY <2>1, <2>6 DEF Answer, Accept
    <3>2. op' = Idle /\ Following(conv', rec', fed')
      BY <2>1, <2>6, <3>1, AnswerKeeps, AcceptKeeps
    <3> QED
      BY <3>2, Zenon DEF SlotsConsistent, Consistent
  <2> QED
    BY <2>2, <2>3, <2>4, <2>5, <2>6
<1> QED
  BY <1>1, <1>2

LEMMA SlotsConsistentStep ==
  ASSUME LockStep
  PROVE  SlotsConsistent /\ [Next]_allVars => SlotsConsistent'
<1> SUFFICES ASSUME SlotsConsistent, [Next]_allVars PROVE SlotsConsistent'
  OBVIOUS
<1>1. CASE GdnNext
  BY <1>1, SlotsConsistentNext
<1>2. CASE UNCHANGED gdnVars
  BY <1>2 DEF gdnVars, SlotsConsistent
<1> QED
  BY <1>1, <1>2 DEF Next, allVars

LEMMA SlotsAreConsistent ==
  ASSUME LockStep
  PROVE  Spec => []SlotsConsistent
BY SlotsConsistentInit, SlotsConsistentStep, PTL DEF Spec

\* Between calls every slot carries exactly its own sequence, the inputs of the
\* convolution and the updates of every head: for every number of slots, heads
\* and taps, every batch, every mix of prefills, decodes and accepted drafts, and
\* every order of the blocks of a launch, while the threads of a block run in step.
THEOREM StatesAlwaysFollow ==
  ASSUME LockStep
  PROVE  Spec => []StatesFollowTheirSequences
<1>1. SlotsConsistent => StatesFollowTheirSequences
  BY Phases DEF SlotsConsistent, Consistent, Following, HoldsLast, HoldsStates, StatesFollowTheirSequences
<1> QED
  BY <1>1, SlotsAreConsistent, PTL

\* Whatever a call has answered so far was made of its own sequence, up to its token.
THEOREM OutputsAlwaysSeeTheirs ==
  ASSUME LockStep
  PROVE  Spec => []OutputsSeeTheirSequence
<1>1. ASSUME SlotsConsistent PROVE OutputsSeeTheirSequence
  <2> SUFFICES ASSUME op # Idle, NEW t \in Flat(op)
               PROVE  LET r == Holder(op.cu, Batch(op), t)
                          s == op.slots[r]
                          seen == fed[s] \o SubSeq(op.x, op.cu[r] + 1, t)
                      IN s # Pad => /\ op.out[t] \in {Nothing, LastInputs(seen, KernelSize)}
                                    /\ op.states[t] \in {Nothing, States(seen)}
    BY DEF OutputsSeeTheirSequence
  <2>1. PICK n : CallOf(op, n) /\ \/ Convolving(op, n, conv, rec, fed)
                                  \/ Recurring(op, n, conv, rec, fed)
                                  \/ Answering(op, n, conv, rec, fed)
    BY <1>1 DEF SlotsConsistent, Consistent, Serving
  <2>2. PICK r \in 1..n : InRow(op.cu, n, r, t) /\ Holder(op.cu, Batch(op), t) = r
    BY <2>1, RowOfToken DEF CallOf
  <2> SUFFICES ASSUME op.slots[r] # Pad
               PROVE  /\ op.out[t] \in {Nothing, LastInputs(SeenBy(op, fed, r, t), KernelSize)}
                      /\ op.states[t] \in {Nothing, States(SeenBy(op, fed, r, t))}
    BY <2>2 DEF SeenBy, Seen
  <2>3. Own(op, n, r, t)
    BY <2>2 DEF Own
  <2>4. CASE Convolving(op, n, conv, rec, fed)
    BY <2>2, <2>4 DEF Convolving, Convolved
  <2>5. CASE Recurring(op, n, conv, rec, fed)
    BY <2>3, <2>5 DEF Recurring, Windows, Convolved
  <2>6. CASE Answering(op, n, conv, rec, fed)
    BY <2>3, <2>6 DEF Answering, Windows, Convolved, HoldsStates
  <2> QED
    BY <2>1, <2>4, <2>5, <2>6
<1> QED
  BY <1>1, SlotsAreConsistent, PTL
===============================================================================
