---------------------------- MODULE CaesiumHeap ----------------------------
(***************************************************************************)
(* The heap of the Radium operational semantics                            *)
(* (theories/caesium/heap.v): byte cells that carry a data-race-detecting  *)
(* lock state, and a table of allocations that are never forgotten.        *)
(*                                                                         *)
(* The operators below are pure: h is a heap (hs_heap), al is a table of   *)
(* allocations (hs_allocs).  Both are finite maps (gmap) in the source and *)
(* functions with a partial domain here.                                   *)
(***************************************************************************)
EXTENDS Integers, Sequences

CONSTANTS
  AllocId,    \* allocation identifiers: a fresh one per allocation
  ProvNone,   \* the provenance of a pointer that belongs to no allocation
  MByte,      \* the initialised bytes (0 and 1 among them: val_of_bool)
  MPoison,    \* the uninitialised byte
  MaxUSize    \* max_int USize, the largest address

ASSUME HeapAssumption ==
  /\ ProvNone \notin AllocId
  /\ {0, 1} \subseteq MByte
  /\ MPoison \notin MByte
  /\ MaxUSize \in Nat

-----------------------------------------------------------------------------
(* Bytes, values and locations. *)

Byte == MByte \cup {MPoison}
Addr == 0 .. MaxUSize
Loc  == [loc_p : AllocId \cup {ProvNone}, loc_a : Addr]

\* The n addresses from a on.
Span(a, n) == a .. (a + n - 1)

(* Lock states: WSt while a non-atomic write is in progress, RSt(n) while  *)
(* n non-atomic reads are.                                                 *)
WSt       == -1
RSt(n)    == n
LockState == {WSt} \cup Nat
Unlocked  == [st \in LockState |-> RSt(0)]

Cell == [hc_alloc_id : AllocId, hc_lock_state : LockState, hc_value : Byte]

AllocKind  == {"HeapAlloc", "StackAlloc", "GlobalAlloc"}
Allocation == [al_start : Int, al_len : Nat, al_alive : BOOLEAN,
               al_kind : AllocKind]

\* Finite maps: heap = gmap addr heap_cell, allocs = gmap alloc_id allocation.
IsHeap(h)    == DOMAIN h \subseteq Addr /\ h \in [DOMAIN h -> Cell]
IsAllocs(al) == DOMAIN al \subseteq AllocId /\ al \in [DOMAIN al -> Allocation]

al_end(x)   == x.al_start + x.al_len
AddrsOf(x)  == Span(x.al_start, x.al_len)
killed(x)   == [x EXCEPT !.al_alive = FALSE]

min_alloc_start == 1
max_alloc_end   == MaxUSize - 1

allocation_in_range(x) ==
  /\ min_alloc_start <= x.al_start
  /\ al_end(x) <= max_alloc_end

alloc_id_alive(aid, al) == aid \in DOMAIN al /\ al[aid].al_alive

-----------------------------------------------------------------------------
(* Reading and updating cells. *)

\* Mutant: the provenance of the pointer is not compared.
mut_no_provenance(l, n, Plk, h) ==
  \A a \in Span(l.loc_a, n) : a \in DOMAIN h /\ h[a].hc_lock_state \in Plk

\* Every one of the n cells from l on belongs to l's allocation and has a
\* lock state in Plk.
heap_lookup_loc(l, n, Plk, h) ==
  \A a \in Span(l.loc_a, n) :
    /\ a \in DOMAIN h
    /\ h[a].hc_alloc_id = l.loc_p
    /\ h[a].hc_lock_state \in Plk

\* An access needs the provenance of an allocation, unless it is of size 0.
heap_at(l, n, Plk, h) ==
  /\ l.loc_p \in AllocId \/ (l.loc_p = ProvNone /\ n = 0)
  /\ heap_lookup_loc(l, n, Plk, h)

\* The value of the n cells from l on.
heap_value(l, n, h) == [i \in 1 .. n |-> h[l.loc_a + i - 1].hc_value]

\* Write v at l; the function flk gives each cell its new lock state.
heap_upd(l, v, flk, h) ==
  [a \in DOMAIN h |->
     IF a \in Span(l.loc_a, Len(v))
     THEN [hc_alloc_id   |-> h[a].hc_alloc_id,
           hc_lock_state |-> flk[h[a].hc_lock_state],
           hc_value      |-> v[a - l.loc_a + 1]]
     ELSE h[a]]

heap_range_free(h, a, n) == Span(a, n) \cap DOMAIN h = {}

-----------------------------------------------------------------------------
(* What a typed read makes of the bytes it finds: an integer with a poison *)
(* byte is poison throughout, an untyped copy keeps each byte.             *)

OpType == {"IntOp", "UntypedOp"}

\* val_to_Z_ot: no integer type has size 0, and no integer a poison byte.
IsInt(v) == v # <<>> /\ \A i \in DOMAIN v : v[i] \in MByte

mem_cast(v, ot) ==
  IF ot = "IntOp" /\ ~IsInt(v) THEN [i \in DOMAIN v |-> MPoison] ELSE v

val_of_bool(b) == << IF b THEN 1 ELSE 0 >>

-----------------------------------------------------------------------------
(* Allocating and freeing.  alloc_new_blocks and free_blocks fold a        *)
(* one-block step over a list; here ls maps the members of a set X to      *)
(* distinct blocks that all satisfy what the step asks for, which is what  *)
(* the fold amounts to whatever the order of the list.                     *)

Blocks(ls, vs) ==
  [x \in DOMAIN ls |-> Span(ls[x].loc_a, Len(vs[x]))]

\* Mutant: only the first address of a new block is checked to be free.
mut_first_byte_free(ls, vs, h, al) ==
  /\ \A x \in DOMAIN ls :
       /\ ls[x].loc_p \in AllocId \ DOMAIN al
       /\ min_alloc_start <= ls[x].loc_a
       /\ ls[x].loc_a + Len(vs[x]) <= max_alloc_end
       /\ ls[x].loc_a \notin DOMAIN h
  /\ \A x, y \in DOMAIN ls :
       x # y => /\ ls[x].loc_p # ls[y].loc_p
                /\ Blocks(ls, vs)[x] \cap Blocks(ls, vs)[y] = {}

can_alloc_blocks(ls, vs, h, al) ==
  /\ \A x \in DOMAIN ls :
       /\ ls[x].loc_p \in AllocId \ DOMAIN al
       /\ min_alloc_start <= ls[x].loc_a
       /\ ls[x].loc_a + Len(vs[x]) <= max_alloc_end
       /\ heap_range_free(h, ls[x].loc_a, Len(vs[x]))
  /\ \A x, y \in DOMAIN ls :
       x # y => /\ ls[x].loc_p # ls[y].loc_p
                /\ Blocks(ls, vs)[x] \cap Blocks(ls, vs)[y] = {}

\* The member of DOMAIN ls whose block holds address a, or has identifier aid.
BlockAt(ls, vs, a)  == CHOOSE x \in DOMAIN ls : a \in Blocks(ls, vs)[x]
BlockOf(ls, aid)    == CHOOSE x \in DOMAIN ls : ls[x].loc_p = aid

alloc_blocks_heap(ls, vs, h) ==
  [a \in DOMAIN h \cup UNION {Blocks(ls, vs)[x] : x \in DOMAIN ls} |->
     IF a \in DOMAIN h THEN h[a]
     ELSE LET x == BlockAt(ls, vs, a)
          IN  [hc_alloc_id |-> ls[x].loc_p, hc_lock_state |-> RSt(0),
               hc_value |-> vs[x][a - ls[x].loc_a + 1]]]

alloc_blocks_allocs(ls, vs, kind, al) ==
  [aid \in DOMAIN al \cup {ls[x].loc_p : x \in DOMAIN ls} |->
     IF aid \in DOMAIN al THEN al[aid]
     ELSE LET x == BlockOf(ls, aid)
          IN  [al_start |-> ls[x].loc_a, al_len |-> Len(vs[x]),
               al_alive |-> TRUE, al_kind |-> kind]]

\* lys : [X -> [l : Loc, ly : Nat]], the blocks to free and their sizes.
\* Mutant: a block is freed although some of its bytes are locked.
mut_free_locked(lys, kind, h, al) ==
  /\ \A x \in DOMAIN lys :
       /\ lys[x].l.loc_p \in DOMAIN al
       /\ al[lys[x].l.loc_p] = [al_start |-> lys[x].l.loc_a,
                                al_len |-> lys[x].ly,
                                al_alive |-> TRUE, al_kind |-> kind]
       /\ heap_lookup_loc(lys[x].l, lys[x].ly, LockState, h)
  /\ \A x, y \in DOMAIN lys : x # y => lys[x].l.loc_p # lys[y].l.loc_p

can_free_blocks(lys, kind, h, al) ==
  /\ \A x \in DOMAIN lys :
       /\ lys[x].l.loc_p \in DOMAIN al
       /\ al[lys[x].l.loc_p] = [al_start |-> lys[x].l.loc_a,
                                al_len |-> lys[x].ly,
                                al_alive |-> TRUE, al_kind |-> kind]
       /\ heap_lookup_loc(lys[x].l, lys[x].ly, {RSt(0)}, h)
  /\ \A x, y \in DOMAIN lys : x # y => lys[x].l.loc_p # lys[y].l.loc_p

free_blocks_heap(lys, h) ==
  [a \in DOMAIN h \ UNION {Span(lys[x].l.loc_a, lys[x].ly) :
                             x \in DOMAIN lys} |-> h[a]]

free_blocks_allocs(lys, al) ==
  [aid \in DOMAIN al |->
     IF \E x \in DOMAIN lys : lys[x].l.loc_p = aid
     THEN killed(al[aid]) ELSE al[aid]]

-----------------------------------------------------------------------------
(* The parts of heap_state_invariant. *)

heap_cell_in_range_alloc(h, al) ==
  \A a \in DOMAIN h :
    /\ h[a].hc_alloc_id \in DOMAIN al
    /\ a \in AddrsOf(al[h[a].hc_alloc_id])

heap_cell_alloc_alive(h, al) ==
  \A a \in DOMAIN h : alloc_id_alive(h[a].hc_alloc_id, al)

alloc_in_range(al) == \A aid \in DOMAIN al : allocation_in_range(al[aid])

alloc_disjoint(al) ==
  \A i, j \in DOMAIN al :
    i # j /\ al[i].al_alive /\ al[j].al_alive
      => AddrsOf(al[i]) \cap AddrsOf(al[j]) = {}

alloc_alive_in_heap(h, al) ==
  \A aid \in DOMAIN al :
    al[aid].al_alive => AddrsOf(al[aid]) \subseteq DOMAIN h

heap_state_invariant(h, al) ==
  /\ heap_cell_in_range_alloc(h, al)
  /\ heap_cell_alloc_alive(h, al)
  /\ alloc_in_range(al)
  /\ alloc_disjoint(al)
  /\ alloc_alive_in_heap(h, al)
=============================================================================
