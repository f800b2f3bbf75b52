----------------------------- MODULE ScratchPools -----------------------------
(***************************************************************************)
(* The thread-local scratch pools of workspace.rs and fp8_linear.rs and    *)
(* the execution domain that selects among them, on one thread, together   *)
(* with the CUDA graphs that bake the addresses of pool buffers in.        *)
(*                                                                         *)
(* A pool kind has one cell per domain, or a single cell for all of them   *)
(* (the MoE activation pool).  A cell that is too small is replaced:       *)
(* "exact" kinds (CUTLASS, FlashInfer FP8, MLA decode) allocate the new    *)
(* buffer at the size of the request and then drop the old one; "growing"  *)
(* kinds (NVFP4, MoE, grouped GEMM) drop the old buffers and allocate the  *)
(* larger of the old and the new size of every part.                       *)
(***************************************************************************)
EXTENDS Naturals, Sequences, SequencesExt

CONSTANTS ExactKinds,    \* pool kinds replaced at the requested size
          GrowingKinds,  \* pool kinds that keep the maximum of each part
          SharedKinds,   \* the kinds that ignore the domain
          Devices,       \* device ordinals
          Parts,         \* the separately sized buffers of a growing pool
          MaxSize,       \* bound: sizes requested for a part
          MaxBuffers,    \* bound: buffers a cell allocates
          MaxScopes,     \* bound: nested guards
          Empty          \* the cell holds no buffer

Kinds == ExactKinds \cup GrowingKinds

ASSUME KindsAssumption ==
  ExactKinds \cap GrowingKinds = {} /\ SharedKinds \subseteq GrowingKinds
ASSUME BoundsAssumption == MaxSize \in Nat /\ MaxBuffers \in Nat /\ MaxScopes \in Nat

Domains == {"Eager", "DecodeGraph", "MtpGraph"}
GraphDomains == Domains \ {"Eager"}
Cells == Kinds \X Domains
Sizes == [Parts -> 0..MaxSize]

VARIABLES domain,    \* GRAPH_WORKSPACE_DOMAIN
          scopes,    \* the guards alive, innermost last: the domain set and the previous one
          cell,      \* cell -> Empty, or the sizes, device and number of its buffer
          made,      \* cell -> buffers allocated for it so far
          captured   \* buffers a captured graph uses: <<domain, cell, number>>

vars == <<domain, scopes, cell, made, captured>>

Buffer == [sizes : Sizes, device : Devices, number : 1..MaxBuffers]

TypeOK ==
  /\ domain \in Domains
  /\ scopes \in Seq([set : Domains, previous : Domains]) /\ Len(scopes) <= MaxScopes
  /\ cell \in [Cells -> Buffer \cup {Empty}]
  /\ made \in [Cells -> 0..MaxBuffers]
  /\ captured \subseteq GraphDomains \X Cells \X (1..MaxBuffers)

Init ==
  /\ domain = "Eager"
  /\ scopes = <<>>
  /\ cell = [c \in Cells |-> Empty]
  /\ made = [c \in Cells |-> 0]
  /\ captured = {}
-------------------------------------------------------------------------------
(* The domain switch.  Guards are values of nested scopes, so they are       *)
(* dropped innermost first.                                                  *)

SetGraphWorkspaceDomain(d) ==
  /\ Len(scopes) < MaxScopes
  /\ scopes' = Append(scopes, [set |-> d, previous |-> domain])
  /\ domain' = d
  /\ UNCHANGED <<cell, made, captured>>

\* Mutant of DropGuard: the domain falls back to Eager instead of the previous one.
DropGuardToEager ==
  /\ scopes # <<>>
  /\ domain' = "Eager"
  /\ scopes' = Front(scopes)
  /\ UNCHANGED <<cell, made, captured>>

DropGuard ==
  /\ scopes # <<>>
  /\ domain' = Last(scopes).previous
  /\ scopes' = Front(scopes)
  /\ UNCHANGED <<cell, made, captured>>
-------------------------------------------------------------------------------
(* A request for scratch of a kind, on a device, with a size for every part. *)

\* Mutants of CellOf: both graph domains use one cell; the domain is ignored.
CellOfAnyGraph(kind, d) ==
  <<kind, IF kind \in SharedKinds \/ d = "Eager" THEN "Eager" ELSE "DecodeGraph">>

CellOfKind(kind, d) == <<kind, "Eager">>

CellOf(kind, d) == <<kind, IF kind \in SharedKinds THEN "Eager" ELSE d>>

\* Mutant of Covers: a buffer of exactly the requested size counts as too small.
CoversStrictly(buffer, request) == \A p \in Parts : buffer.sizes[p] > request[p]

Covers(buffer, request) == \A p \in Parts : buffer.sizes[p] >= request[p]

NeedsRealloc(c, device, request) ==
  \/ cell[c] = Empty
  \/ cell[c] # Empty /\ (cell[c].device # device \/ ~Covers(cell[c], request))

Larger(m, n) == IF m < n THEN n ELSE m

\* Mutant of NewSizes: the request is added to the sizes the pool had.
NewSizesAdded(c, request) ==
  IF cell[c] = Empty THEN request ELSE [p \in Parts |-> request[p] + cell[c].sizes[p]]

NewSizes(c, request) ==
  IF c[1] \in ExactKinds \/ cell[c] = Empty
  THEN request
  ELSE [p \in Parts |-> Larger(request[p], cell[c].sizes[p])]

\* The buffer is there already.
Reuse(kind, device, request) ==
  /\ ~NeedsRealloc(CellOf(kind, domain), device, request)
  /\ UNCHANGED <<cell, made>>

Reallocate(kind, device, request) ==
  LET c == CellOf(kind, domain)
  IN /\ NeedsRealloc(c, device, request)
     /\ made[c] < MaxBuffers
     /\ made' = [made EXCEPT ![c] = @ + 1]
     /\ cell' = [cell EXCEPT ![c] = [sizes |-> NewSizes(c, request),
                                     device |-> device, number |-> made[c] + 1]]

Get(kind, device, request) ==
  /\ Reuse(kind, device, request) \/ Reallocate(kind, device, request)
  /\ UNCHANGED <<domain, scopes, captured>>

\* The allocation fails: an exact pool still has its old buffer, a growing one
\* has dropped it.
GetFails(kind, device, request) ==
  LET c == CellOf(kind, domain)
  IN /\ NeedsRealloc(c, device, request)
     /\ cell' = IF kind \in GrowingKinds THEN [cell EXCEPT ![c] = Empty] ELSE cell
     /\ UNCHANGED <<domain, scopes, made, captured>>

\* A request made while a graph is captured, after a warm-up run with the same
\* shapes has allocated the buffer: its address is baked into the graph.
Capture(kind, device, request) ==
  LET c == CellOf(kind, domain)
  IN /\ domain \in GraphDomains
     /\ Reuse(kind, device, request)
     /\ captured' = captured \cup {<<domain, c, cell[c].number>>}
     /\ UNCHANGED <<domain, scopes>>

Next ==
  \/ \E d \in Domains : SetGraphWorkspaceDomain(d)
  \/ DropGuard
  \/ \E kind \in Kinds, device \in Devices, request \in Sizes :
       \/ Get(kind, device, request)
       \/ GetFails(kind, device, request)
       \/ Capture(kind, device, request)

Spec == Init /\ [][Next]_vars
-------------------------------------------------------------------------------
(* Properties.                                                               *)

Holds(c, number) == cell[c] # Empty /\ cell[c].number = number

\* Requests go to the domain of the innermost guard alive, and to the eager
\* pools once every guard is dropped, however guards are nested.
InnermostScopeRoutes ==
  domain = IF scopes = <<>> THEN "Eager" ELSE Last(scopes).set

\* "decode-graph and MTP/DFlash-verify-graph captures never alias the same
\* device pointer": no buffer of a split kind is baked into graphs of two domains.
CapturesNeverAlias ==
  \A x, y \in captured : x[2][1] \notin SharedKinds /\ x[2] = y[2] => x[1] = y[1]

\* A buffer of a split kind that a graph uses is only ever dropped by a request
\* in the graph's own domain that it cannot serve: for more than it holds or for
\* another device.
DroppedOnlyForLargerOwnRequest ==
  [][\A x \in captured :
       x[2][1] \notin SharedKinds /\ Holds(x[2], x[3]) /\ ~Holds(x[2], x[3])' =>
         /\ domain = x[1]
         /\ \E device \in Devices, request \in Sizes :
              /\ device # cell[x[2]].device \/ ~Covers(cell[x[2]], request)
              /\ Get(x[2][1], device, request) \/ GetFails(x[2][1], device, request)]_vars

\* A pool that has been warmed up with the largest request is final on its
\* device: no request and no failure replaces it, so what graphs baked in stays.
WarmedUpIsFinal ==
  [][\A c \in Cells :
       /\ cell[c] # Empty
       /\ \A p \in Parts : cell[c].sizes[p] = MaxSize
       /\ cell[c]' # cell[c]
       => \E device \in Devices \ {cell[c].device}, request \in Sizes :
            Get(c[1], device, request) \/ GetFails(c[1], device, request)]_vars
===============================================================================
