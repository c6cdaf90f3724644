------------------------- MODULE CaesiumLang_proofs -------------------------
(* Theorems about CaesiumLang, for any number of threads, identifiers,       *)
(* addresses and functions, and accesses and blocks of any size: the heap,   *)
(* the locks and the stack blocks of the locals; last, that CaesiumLang      *)
(* implements BlockMemory, which is about CaesiumRefinement.                 *)
EXTENDS CaesiumRefinement, SequenceTheorems, FiniteSetTheorems, TLAPS

-----------------------------------------------------------------------------
(* Redexes. *)

\* What the redex of a half-way read or write is made of.
LEMMA RedexParts ==
  ASSUME NEW r \in Redex
  PROVE  /\ r.k = "deref2" => /\ r.l \in Loc /\ r.n \in AccessSizes
                              /\ r.ot \in OpTypes
         /\ r.k = "assign2" => /\ r.l \in Loc /\ r.v \in Seq(Byte)
                               /\ Len(r.v) \in AccessSizes
         /\ r = Body => r.k = "body"
<1>1. CASE r \in {InitialProg, Body, AllocFailed, Returned}
  BY <1>1 DEF InitialProg, Body, AllocFailed, Returned
<1>2. CASE r \in {Deref2(l, n, ot) :
                    l \in Loc, n \in AccessSizes, ot \in OpTypes}
  BY <1>2 DEF Deref2, Body
<1>3. CASE r \in UNION {{Assign2(l, v) : l \in Loc, v \in ValOf(n)} :
                          n \in AccessSizes}
  <2>1. PICK n \in AccessSizes, l \in Loc : \E v \in ValOf(n) : r = Assign2(l, v)
    BY <1>3
  <2>2. PICK v \in ValOf(n) : r = Assign2(l, v)
    BY <2>1
  <2>3. v \in Seq(Byte) /\ Len(v) = n
    BY LangAssumption DEF ValOf
  <2> QED
    BY <2>2, <2>3 DEF Assign2, Body
<1> QED
  BY <1>1, <1>2, <1>3 DEF Redex

-----------------------------------------------------------------------------
(* The heap operators. *)

\* heap_upd changes bytes and lock states only.
LEMMA UpdType ==
  ASSUME NEW h, IsHeap(h), NEW l \in Loc, NEW v \in Seq(Byte), NEW flk,
         \A a \in DOMAIN h \cap Span(l.loc_a, Len(v)) :
           flk[h[a].hc_lock_state] \in LockState
  PROVE  /\ IsHeap(heap_upd(l, v, flk, h))
         /\ DOMAIN heap_upd(l, v, flk, h) = DOMAIN h
         /\ \A a \in DOMAIN h : heap_upd(l, v, flk, h)[a].hc_alloc_id = h[a].hc_alloc_id
<1> DEFINE h2 == heap_upd(l, v, flk, h)
<1>1. \A a \in DOMAIN h : a \in Span(l.loc_a, Len(v)) =>
        v[a - l.loc_a + 1] \in Byte
  BY HeapAssumption, LenProperties DEF Span, Loc, Addr, IsHeap
<1>2. \A a \in DOMAIN h : h2[a] \in Cell
  BY <1>1 DEF Cell, IsHeap, heap_upd
<1>3. DOMAIN h2 = DOMAIN h /\ h2 = [a \in DOMAIN h |-> h2[a]]
  BY DEF heap_upd
<1>4. \A a \in DOMAIN h : h2[a].hc_alloc_id = h[a].hc_alloc_id
  BY DEF IsHeap, Cell, heap_upd
<1> HIDE DEF h2
<1>5. h2 \in [DOMAIN h2 -> Cell]
  BY <1>2, <1>3
<1>6. IsHeap(h2)
  BY <1>3, <1>5 DEF IsHeap
<1> QED
  BY <1>3, <1>4, <1>6 DEF h2

\* The lock states a heap holds, and what the steps make of them.
LEMMA LockStates ==
  ASSUME NEW h, IsHeap(h)
  PROVE  \A a \in DOMAIN h : h[a].hc_lock_state \in LockState
BY DEF IsHeap, Cell

LEMMA LockMoves ==
  ASSUME NEW st \in LockState, NEW o \in {"ScOrd", "Na1Ord", "Na2Ord"}
  PROVE  /\ DerefEnd(o)[st] = IF o = "Na1Ord" THEN st + 1
                              ELSE IF o = "Na2Ord" THEN st - 1 ELSE st
         /\ AssignEnd(o)[st] = IF o = "Na1Ord" THEN WSt ELSE 0
         /\ Unlocked[st] = 0
BY DEF DerefEnd, AssignEnd, Unlocked, RSt

LEMMA ValueType ==
  ASSUME NEW h, IsHeap(h), NEW l \in Loc, NEW n \in Nat,
         Span(l.loc_a, n) \subseteq DOMAIN h
  PROVE  heap_value(l, n, h) \in Seq(Byte) /\ Len(heap_value(l, n, h)) = n
<1>1. \A i \in 1 .. n : l.loc_a + i - 1 \in DOMAIN h
  BY HeapAssumption DEF Span, Loc, Addr
<1> QED
  BY <1>1 DEF heap_value, Cell, IsHeap

\* mem_cast keeps the length of a value and makes no byte but poison.
LEMMA CastType ==
  ASSUME NEW v \in Seq(Byte), NEW ot
  PROVE  mem_cast(v, ot) \in Seq(Byte)
BY LenProperties DEF mem_cast, Byte

\* alloc_new_block(s): the blocks get cells and an entry in the table, and
\* nothing else changes.
LEMMA AllocBlocksType ==
  ASSUME NEW h, IsHeap(h), NEW al, IsAllocs(al), NEW kind \in AllocKind,
         NEW ls, ls \in [DOMAIN ls -> Loc],
         NEW vs, vs \in [DOMAIN ls -> Seq(Byte)],
         can_alloc_blocks(ls, vs, h, al)
  PROVE  /\ IsHeap(alloc_blocks_heap(ls, vs, h))
         /\ IsAllocs(alloc_blocks_allocs(ls, vs, kind, al))
<1> DEFINE H == alloc_blocks_heap(ls, vs, h)
           A == alloc_blocks_allocs(ls, vs, kind, al)
           new == UNION {Blocks(ls, vs)[x] : x \in DOMAIN ls}
<1>1. \A x \in DOMAIN ls : Len(vs[x]) \in Nat /\ ls[x].loc_a \in Nat
                           /\ ls[x].loc_p \in AllocId
  BY HeapAssumption, LenProperties DEF Loc, Addr, can_alloc_blocks
<1>2. ASSUME NEW a \in new
      PROVE  BlockAt(ls, vs, a) \in DOMAIN ls /\ a \in Blocks(ls, vs)[BlockAt(ls, vs, a)]
  <2>1. \E x \in DOMAIN ls : a \in Blocks(ls, vs)[x]
    OBVIOUS
  <2> QED
    BY <2>1 DEF BlockAt
<1>3. ASSUME NEW x \in DOMAIN ls, NEW a \in Blocks(ls, vs)[x]
      PROVE  a \in Addr /\ vs[x][a - ls[x].loc_a + 1] \in Byte
  <2>1. a \in ls[x].loc_a .. (ls[x].loc_a + Len(vs[x]) - 1)
    BY DEF Blocks, Span
  <2>2. vs[x] \in Seq(Byte)
    OBVIOUS
  <2>3. ls[x].loc_a + Len(vs[x]) <= MaxUSize - 1
    BY DEF can_alloc_blocks, max_alloc_end
  <2> QED
    BY <1>1, <2>1, <2>2, <2>3, HeapAssumption, ElementOfSeq DEF Addr
<1>4. DOMAIN H \subseteq Addr
  BY <1>2, <1>3 DEF alloc_blocks_heap, IsHeap
<1>5. ASSUME NEW a \in DOMAIN H
      PROVE  H[a] \in Cell
  <2>1. CASE a \in DOMAIN h
    BY <2>1 DEF alloc_blocks_heap, IsHeap
  <2>2. CASE a \notin DOMAIN h
    <3>1. a \in new
      BY <2>2 DEF alloc_blocks_heap
    <3>2. H[a] = [hc_alloc_id |-> ls[BlockAt(ls, vs, a)].loc_p,
                  hc_lock_state |-> RSt(0),
                  hc_value |-> vs[BlockAt(ls, vs, a)]
                                 [a - ls[BlockAt(ls, vs, a)].loc_a + 1]]
      BY <2>2 DEF alloc_blocks_heap
    <3> QED
      BY <3>1, <3>2, <1>1, <1>2, <1>3 DEF Cell, LockState, RSt
  <2> QED
    BY <2>1, <2>2
<1>6. H = [a \in DOMAIN H |-> H[a]]
  BY DEF alloc_blocks_heap
<1>7. ASSUME NEW aid \in DOMAIN A
      PROVE  A[aid] \in Allocation /\ aid \in AllocId
  <2>1. CASE aid \in DOMAIN al
    BY <2>1 DEF alloc_blocks_allocs, IsAllocs
  <2>2. CASE aid \notin DOMAIN al
    <3> DEFINE x == BlockOf(ls, aid)
    <3>1. \E y \in DOMAIN ls : ls[y].loc_p = aid
      BY <2>2 DEF alloc_blocks_allocs
    <3>2. x \in DOMAIN ls /\ ls[x].loc_p = aid
      BY <3>1 DEF BlockOf
    <3>3. A[aid] = [al_start |-> ls[x].loc_a, al_len |-> Len(vs[x]),
                    al_alive |-> TRUE, al_kind |-> kind]
      BY <2>2 DEF alloc_blocks_allocs
    <3> QED
      BY <3>2, <3>3, <1>1 DEF Allocation
  <2> QED
    BY <2>1, <2>2
<1>8. A = [aid \in DOMAIN A |-> A[aid]]
  BY DEF alloc_blocks_allocs
<1> HIDE DEF H, A
<1>9. H \in [DOMAIN H -> Cell] /\ A \in [DOMAIN A -> Allocation]
  BY <1>5, <1>6, <1>7, <1>8
<1> QED
  BY <1>4, <1>7, <1>9 DEF IsHeap, IsAllocs, H, A

\* free_block(s): the cells of the blocks go, and their entries are killed.
LEMMA FreeBlocksType ==
  ASSUME NEW h, IsHeap(h), NEW al, IsAllocs(al), NEW lys
  PROVE  /\ IsHeap(free_blocks_heap(lys, h))
         /\ IsAllocs(free_blocks_allocs(lys, al))
<1>1. IsHeap(free_blocks_heap(lys, h))
  BY DEF free_blocks_heap, IsHeap
<1>2. \A aid \in DOMAIN al : killed(al[aid]) \in Allocation
  BY DEF killed, Allocation, IsAllocs
<1>3. IsAllocs(free_blocks_allocs(lys, al))
  BY <1>2 DEF free_blocks_allocs, IsAllocs
<1> QED
  BY <1>1, <1>3

-----------------------------------------------------------------------------
(* Type correctness.  That a body has a frame is needed for Return and for  *)
(* the locals, which look at the innermost one.                             *)

TypeInv == TypeOK /\ FrameWhileRunning

\* The frames after LocalLive, LocalDead, Call and Return are frames.
LEMMA FramesType ==
  ASSUME NEW fs \in Seq(CallFrame), NEW cf \in CallFrame
  PROVE  /\ push_frame(fs, cf) \in Seq(CallFrame) /\ push_frame(fs, cf) # <<>>
         /\ fs # <<>> => /\ Head(fs) \in CallFrame
                         /\ pop_frame(fs) \in Seq(CallFrame)
                         /\ update_frame(fs, cf) \in Seq(CallFrame)
                         /\ update_frame(fs, cf) # <<>>
                         /\ pop_frame(fs) = <<>> <=> Len(fs) = 1
<1>1. ASSUME NEW gs \in Seq(CallFrame)
      PROVE  <<cf>> \o gs \in Seq(CallFrame) /\ <<cf>> \o gs # <<>>
  <2>1. <<cf>> \in Seq(CallFrame) /\ Len(<<cf>>) = 1
    OBVIOUS
  <2>2. Len(<<cf>> \o gs) = 1 + Len(gs)
    BY <2>1
  <2> QED
    BY <2>1, <2>2, EmptySeq, LenProperties
<1>2. fs # <<>> => /\ Head(fs) \in CallFrame /\ Tail(fs) \in Seq(CallFrame)
                   /\ Len(Tail(fs)) = Len(fs) - 1
  BY HeadTailProperties
<1>3. ASSUME fs # <<>>
      PROVE  Tail(fs) = <<>> <=> Len(fs) = 1
  <2>1. Tail(fs) \in Seq(CallFrame) /\ Len(Tail(fs)) = Len(fs) - 1 /\ Len(fs) \in Nat
    BY <1>2, <1>3, LenProperties
  <2>2. Tail(fs) = <<>> <=> Len(Tail(fs)) = 0
    BY <2>1, EmptySeq, Zenon
  <2> QED
    BY <2>1, <2>2
<1> QED
  BY <1>1, <1>2, <1>3 DEF push_frame, update_frame, pop_frame

LEMMA InitType == Init => TypeInv
BY EmptySeq DEF Init, TypeInv, TypeOK, FrameWhileRunning, IsHeap, IsAllocs, Redex,
   InitialProg, Body, AllocFailed, Returned, Nothing, HasFrame

\* The redexes a step moves to.
LEMMA RedexType ==
  /\ Body \in Redex /\ AllocFailed \in Redex /\ Returned \in Redex
  /\ \A l \in Loc, n \in AccessSizes, ot \in OpTypes : Deref2(l, n, ot) \in Redex
  /\ \A l \in Loc, v \in Seq(Byte) :
       Len(v) \in AccessSizes => Assign2(l, v) \in Redex
  /\ \A l, n, ot, v : /\ Deref2(l, n, ot) \notin {InitialProg, Returned, AllocFailed}
                      /\ Assign2(l, v) \notin {InitialProg, Returned, AllocFailed}
  /\ Body \notin {InitialProg, Returned, AllocFailed}
  /\ AllocFailed \notin {InitialProg, Returned}
<1>1. \A v \in Seq(Byte) : v \in ValOf(Len(v))
  BY LenProperties DEF ValOf
<1>2. \A l \in Loc, v \in Seq(Byte) :
        Len(v) \in AccessSizes => Assign2(l, v) \in Redex
  BY <1>1 DEF Redex
<1>3. \A l, n, ot, v : /\ Deref2(l, n, ot) \notin {InitialProg, Returned, AllocFailed}
                       /\ Assign2(l, v) \notin {InitialProg, Returned, AllocFailed}
  BY DEF Deref2, Assign2, InitialProg, Returned, AllocFailed
<1> QED
  BY <1>2, <1>3 DEF Redex, Body, InitialProg, Returned, AllocFailed

\* The two steps of a read, and an atomic read.
LEMMA DerefType ==
  ASSUME TypeInv, NEW t \in Thread, HasFrame(t),
         NEW o \in {"ScOrd", "Na1Ord", "Na2Ord"},
         NEW l \in Loc, NEW n \in AccessSizes, NEW ot \in OpTypes,
         DerefS(t, o, l, n, ot)
  PROVE  /\ TypeInv'
         /\ DOMAIN heap' = DOMAIN heap
         /\ \A a \in DOMAIN heap : heap'[a].hc_alloc_id = heap[a].hc_alloc_id
<1> DEFINE v  == heap_value(l, n, heap)
<1>1. n \in Nat /\ IsHeap(heap)
  BY LangAssumption DEF TypeInv, TypeOK
<1>2. \A a \in Span(l.loc_a, n) : /\ a \in DOMAIN heap
                                  /\ heap[a].hc_lock_state \in DerefStart(o)
  BY DEF DerefS, heap_at, heap_lookup_loc
<1>3. v \in Seq(Byte) /\ Len(v) = n
  BY <1>1, <1>2, ValueType
<1>4. \A a \in DOMAIN heap \cap Span(l.loc_a, Len(v)) :
        DerefEnd(o)[heap[a].hc_lock_state] \in LockState
  BY <1>2, <1>3 DEF DerefStart, DerefEnd, LockState, WSt
<1>5. heap' = heap_upd(l, v, DerefEnd(o), heap)
  BY DEF DerefS
<1>6. /\ IsHeap(heap') /\ DOMAIN heap' = DOMAIN heap
      /\ \A a \in DOMAIN heap : heap'[a].hc_alloc_id = heap[a].hc_alloc_id
  <2> HIDE DEF v
  <2> QED
    BY <1>1, <1>3, <1>4, <1>5, UpdType
<1>7. mem_cast(v, ot) \in Seq(Byte) /\ Nothing \in Seq(Byte)
  BY <1>3, CastType DEF Nothing
<1>8. ctl' \in [Thread -> Redex] /\ out' \in Seq(Byte)
  <2>1. ctl \in [Thread -> Redex]
    BY DEF TypeInv, TypeOK
  <2>2. /\ ctl' = [ctl EXCEPT ![t] = Deref2(l, n, ot)] \/ ctl' = [ctl EXCEPT ![t] = Body]
        /\ out' = Nothing \/ out' = mem_cast(v, ot)
    BY DEF DerefS
  <2>3. Body \in Redex /\ Deref2(l, n, ot) \in Redex
    BY RedexType
  <2> HIDE DEF v
  <2> QED
    BY <1>7, <2>1, <2>2, <2>3
<1>9. \A s \in Thread : ctl'[s] = ctl[s] \/ (s = t /\ ctl'[s] \in {Body, Deref2(l, n, ot)})
  <2>1. ctl \in [Thread -> Redex]
    BY DEF TypeInv, TypeOK
  <2>2. \/ ctl' = [ctl EXCEPT ![t] = Deref2(l, n, ot)]
        \/ ctl' = [ctl EXCEPT ![t] = Body]
    BY DEF DerefS
  <2> QED
    BY <2>1, <2>2
<1>10. FrameWhileRunning'
  BY <1>9, RedexType DEF DerefS, FrameWhileRunning, TypeInv, HasFrame
<1> QED
  BY <1>6, <1>8, <1>10 DEF TypeInv, TypeOK, DerefS

\* The two steps of a write, and an atomic write.
LEMMA AssignType ==
  ASSUME TypeInv, NEW t \in Thread, HasFrame(t),
         NEW o \in {"ScOrd", "Na1Ord", "Na2Ord"},
         NEW l \in Loc, NEW v \in Seq(Byte), Len(v) \in AccessSizes,
         AssignS(t, o, l, v)
  PROVE  /\ TypeInv'
         /\ DOMAIN heap' = DOMAIN heap
         /\ \A a \in DOMAIN heap : heap'[a].hc_alloc_id = heap[a].hc_alloc_id
<1> DEFINE old  == heap_value(l, Len(v), heap)
           left == IF o = "Na1Ord" THEN old ELSE v
<1>1. Len(v) \in Nat /\ IsHeap(heap)
  BY LangAssumption DEF TypeInv, TypeOK
<1>2. Span(l.loc_a, Len(v)) \subseteq DOMAIN heap
  BY DEF AssignS, heap_at, heap_lookup_loc
<1>3. left \in Seq(Byte) /\ Len(left) = Len(v)
  BY <1>1, <1>2, ValueType
<1>4. \A a \in DOMAIN heap \cap Span(l.loc_a, Len(left)) :
        AssignEnd(o)[heap[a].hc_lock_state] \in LockState
  BY <1>1, LockStates, LockMoves DEF LockState
<1>5. heap' = heap_upd(l, left, AssignEnd(o), heap)
  BY DEF AssignS
<1>6. /\ IsHeap(heap') /\ DOMAIN heap' = DOMAIN heap
      /\ \A a \in DOMAIN heap : heap'[a].hc_alloc_id = heap[a].hc_alloc_id
  <2> HIDE DEF left
  <2> QED
    BY <1>1, <1>3, <1>4, <1>5, UpdType
<1>7. ctl' \in [Thread -> Redex] /\ out' \in Seq(Byte)
  BY RedexType, EmptySeq DEF AssignS, TypeInv, TypeOK, Nothing
<1>8. \A s \in Thread : ctl'[s] = ctl[s] \/ (s = t /\ ctl'[s] \in {Body, Assign2(l, v)})
  BY DEF AssignS, TypeInv, TypeOK
<1>9. FrameWhileRunning'
  BY <1>8, RedexType DEF AssignS, FrameWhileRunning, TypeInv, HasFrame
<1> QED
  BY <1>6, <1>7, <1>9 DEF TypeInv, TypeOK, AssignS

\* CAS stores a value at one of its two locations and unlocks it.
LEMMA CasType ==
  ASSUME TypeInv, NEW t \in Thread, NEW l1 \in Loc, NEW l2 \in Loc,
         NEW n \in AccessSizes, NEW v3 \in ValOf(n),
         CasFailS(t, l1, l2, n) \/ CasSucS(t, l1, l2, n, v3)
  PROVE  /\ TypeInv'
         /\ DOMAIN heap' = DOMAIN heap
         /\ \A a \in DOMAIN heap : heap'[a].hc_alloc_id = heap[a].hc_alloc_id
<1>1. n \in Nat /\ IsHeap(heap)
  BY LangAssumption DEF TypeInv, TypeOK
<1>2. PICK l \in Loc, v \in Seq(Byte) : heap' = heap_upd(l, v, Unlocked, heap)
  <2>1. CASE CasFailS(t, l1, l2, n)
    <3>1. Span(l1.loc_a, n) \subseteq DOMAIN heap
      BY <2>1 DEF CasFailS, heap_at, heap_lookup_loc
    <3>2. heap_value(l1, n, heap) \in Seq(Byte)
      BY <3>1, <1>1, ValueType
    <3>3. heap' = heap_upd(l2, heap_value(l1, n, heap), Unlocked, heap)
      BY <2>1 DEF CasFailS
    <3> QED
      BY <3>2, <3>3
  <2>2. CASE CasSucS(t, l1, l2, n, v3)
    <3>1. v3 \in Seq(Byte)
      BY <1>1 DEF ValOf
    <3>2. heap' = heap_upd(l1, v3, Unlocked, heap)
      BY <2>2 DEF CasSucS
    <3> QED
      BY <3>1, <3>2
  <2> QED
    BY <2>1, <2>2
<1>3. /\ IsHeap(heap') /\ DOMAIN heap' = DOMAIN heap
      /\ \A a \in DOMAIN heap : heap'[a].hc_alloc_id = heap[a].hc_alloc_id
  <2>1. \A a \in DOMAIN heap \cap Span(l.loc_a, Len(v)) :
          Unlocked[heap[a].hc_lock_state] \in LockState
    BY <1>1, LockStates, LockMoves DEF LockState
  <2> QED
    BY <1>1, <1>2, <2>1, UpdType
<1>4. out' \in Seq(Byte)
  <2>1. val_of_bool(TRUE) = <<1>> /\ val_of_bool(FALSE) = <<0>>
    BY DEF val_of_bool
  <2>2. 0 \in Byte /\ 1 \in Byte
    BY HeapAssumption DEF Byte
  <2>3. <<0>> \in Seq(Byte) /\ <<1>> \in Seq(Byte)
    BY <2>2
  <2> QED
    BY <2>1, <2>3 DEF CasFailS, CasSucS
<1>5. UNCHANGED <<allocs, frames, ctl>>
  BY DEF CasFailS, CasSucS
<1>6. FrameWhileRunning'
  BY <1>5 DEF TypeInv, FrameWhileRunning, HasFrame
<1> QED
  BY <1>3, <1>4, <1>5, <1>6 DEF TypeInv, TypeOK

\* Allocating and freeing keep the types of the heap and of the table.
LEMMA AllocType ==
  ASSUME TypeInv, NEW kind \in AllocKind,
         NEW ls, ls \in [DOMAIN ls -> Loc],
         NEW vs, vs \in [DOMAIN ls -> Seq(Byte)],
         AllocBlocks(ls, vs, kind)
  PROVE  IsHeap(heap') /\ IsAllocs(allocs')
BY AllocBlocksType DEF AllocBlocks, TypeInv, TypeOK

LEMMA FreeType ==
  ASSUME TypeInv, NEW kind, NEW lys, FreeBlocks(lys, kind)
  PROVE  IsHeap(heap') /\ IsAllocs(allocs')
BY FreeBlocksType DEF FreeBlocks, TypeInv, TypeOK

LEMMA OneBlockType ==
  ASSUME NEW l \in Loc, NEW n \in Nat
  PROVE  /\ One(l) \in [DOMAIN One(l) -> Loc]
         /\ One(Poison(n)) \in [DOMAIN One(l) -> Seq(Byte)]
<1>1. Poison(n) \in Seq(Byte)
  BY DEF Poison, Byte
<1> QED
  BY <1>1 DEF One

\* A step of t that gives t new frames, and leaves the other threads alone.
LEMMA FramesStep ==
  ASSUME TypeInv, NEW t \in Thread,
         IsHeap(heap'), IsAllocs(allocs'), out' = Nothing,
         NEW fs \in Seq(CallFrame), frames' = [frames EXCEPT ![t] = fs],
         NEW r \in Redex, ctl' = [ctl EXCEPT ![t] = r],
         \/ fs # <<>> /\ r \notin {InitialProg, Returned}
         \/ fs = <<>> /\ r \in {Returned, AllocFailed}
  PROVE  TypeInv'
<1>1. TypeOK'
  BY EmptySeq DEF TypeInv, TypeOK, Nothing
<1>2. FrameWhileRunning'
  BY RedexType DEF TypeInv, TypeOK, FrameWhileRunning, HasFrame
<1> QED
  BY <1>1, <1>2 DEF TypeInv

\* A thread in a body has a frame.
LEMMA BodyHasFrame ==
  ASSUME TypeInv, NEW t \in Thread,
         ctl[t] = Body \/ ctl[t].k = "deref2" \/ ctl[t].k = "assign2"
  PROVE  HasFrame(t) /\ frames[t] \in Seq(CallFrame)
BY DEF TypeInv, TypeOK, FrameWhileRunning, Body, InitialProg, AllocFailed, Returned

LEMMA LocalType ==
  ASSUME TypeInv, NEW t \in Thread, InBody(t)
  PROVE  /\ \A x \in Var, l \in Loc, n \in BlockSizes :
              LocalLiveS(t, x, l, n) => TypeInv'
         /\ \A x \in Var : LocalDeadDeallocS(t, x) => TypeInv'
<1>1. HasFrame(t) /\ frames[t] \in Seq(CallFrame) /\ ctl[t] = Body
  BY BodyHasFrame DEF InBody
<1>2. Frame(t) \in CallFrame
  BY <1>1, FramesType DEF HasFrame, Frame
<1>3. ctl = [ctl EXCEPT ![t] = Body] /\ Body \notin {InitialProg, Returned}
  BY <1>1, RedexType DEF TypeInv, TypeOK
<1>4. ASSUME NEW x \in Var, NEW l \in Loc, NEW n \in BlockSizes,
             LocalLiveS(t, x, l, n)
      PROVE  TypeInv'
  <2> DEFINE cf == [Frame(t) EXCEPT ![x] = [l |-> l, ly |-> n]]
             fs == update_frame(frames[t], cf)
  <2>1. cf \in CallFrame /\ n \in Nat
    BY <1>2, LangAssumption DEF CallFrame, Local
  <2>2. fs \in Seq(CallFrame) /\ fs # <<>>
    BY <1>1, <2>1, FramesType DEF HasFrame
  <2>3. IsHeap(heap') /\ IsAllocs(allocs')
    BY <1>4, <2>1, OneBlockType, AllocType DEF LocalLiveS, AllocKind
  <2>4. frames' = [frames EXCEPT ![t] = fs] /\ ctl' = ctl /\ out' = Nothing
    BY <1>4 DEF LocalLiveS
  <2> QED
    BY <1>3, <2>2, <2>3, <2>4, FramesStep, RedexType
<1>5. ASSUME NEW x \in Var, LocalDeadDeallocS(t, x)
      PROVE  TypeInv'
  <2> DEFINE cf == [Frame(t) EXCEPT ![x] = None]
             fs == update_frame(frames[t], cf)
  <2>1. cf \in CallFrame
    BY <1>2 DEF CallFrame
  <2>2. fs \in Seq(CallFrame) /\ fs # <<>>
    BY <1>1, <2>1, FramesType DEF HasFrame
  <2>3. IsHeap(heap') /\ IsAllocs(allocs')
    BY <1>5, FreeType DEF LocalDeadDeallocS
  <2>4. frames' = [frames EXCEPT ![t] = fs] /\ ctl' = ctl /\ out' = Nothing
    BY <1>5 DEF LocalDeadDeallocS
  <2> QED
    BY <1>3, <2>2, <2>3, <2>4, FramesStep, RedexType
<1> QED
  BY <1>4, <1>5

\* The arguments of a call are blocks at locations, with values.
LEMMA CallParts ==
  ASSUME NEW t \in Thread, Call(t)
  PROVE  \E f \in Functions : \E ls \in [DOMAIN f -> Loc] :
           \E vs \in [DOMAIN f -> Seq(Byte)] : CallS(t, f, ls, vs)
<1>1. PICK f \in Functions :
        \E ls \in [DOMAIN f -> Loc] :
          \E vs \in [DOMAIN f -> UNION {ValOf(f[x]) : x \in DOMAIN f}] :
            CallS(t, f, ls, vs)
  BY LangAssumption DEF Call
<1>2. \A n \in Nat : ValOf(n) \subseteq Seq(Byte)
  BY DEF ValOf
<1>3. UNION {ValOf(f[x]) : x \in DOMAIN f} \subseteq Seq(Byte)
  BY <1>2, LangAssumption
<1> QED
  BY <1>1, <1>3

LEMMA CallType ==
  ASSUME TypeInv, NEW t \in Thread, Call(t)
  PROVE  TypeInv'
<1>1. PICK f \in Functions : \E ls \in [DOMAIN f -> Loc] :
        \E vs \in [DOMAIN f -> Seq(Byte)] : CallS(t, f, ls, vs)
  BY CallParts
<1>2. PICK ls \in [DOMAIN f -> Loc], vs \in [DOMAIN f -> Seq(Byte)] :
        CallS(t, f, ls, vs)
  BY <1>1
<1>3. f \in [DOMAIN f -> Nat] /\ DOMAIN f \subseteq Var
  BY LangAssumption
<1> DEFINE cf == [x \in Var |-> IF x \in DOMAIN f
                                THEN [l |-> ls[x], ly |-> f[x]] ELSE None]
           fs == push_frame(frames[t], cf)
<1>5. cf \in CallFrame
  BY <1>3 DEF CallFrame, Local
<1>6. fs \in Seq(CallFrame) /\ fs # <<>>
  BY <1>5, FramesType DEF TypeInv, TypeOK
<1>7. IsHeap(heap') /\ IsAllocs(allocs')
  BY <1>2, AllocType DEF CallS, AllocKind
<1>8. /\ frames' = [frames EXCEPT ![t] = fs] /\ out' = Nothing
      /\ ctl' = [ctl EXCEPT ![t] = Body]
  BY <1>2 DEF CallS
<1> QED
  BY <1>6, <1>7, <1>8, FramesStep, RedexType

LEMMA ReturnType ==
  ASSUME TypeInv, NEW t \in Thread, Return(t)
  PROVE  TypeInv'
<1> DEFINE fs == pop_frame(frames[t])
           r  == IF Len(frames[t]) = 1 THEN Returned ELSE Body
<1>1. HasFrame(t) /\ frames[t] \in Seq(CallFrame)
  BY BodyHasFrame DEF Return, InBody
<1>2. None = None /\ [x \in Var |-> None] \in CallFrame
  BY DEF CallFrame
<1>3. fs \in Seq(CallFrame) /\ (fs = <<>> <=> Len(frames[t]) = 1)
  BY <1>1, <1>2, FramesType DEF HasFrame
<1>4. IsHeap(heap') /\ IsAllocs(allocs')
  BY FreeType DEF Return, ReturnS
<1>5. /\ frames' = [frames EXCEPT ![t] = fs] /\ out' = Nothing
      /\ ctl' = [ctl EXCEPT ![t] = r]
  BY DEF Return, ReturnS
<1>6. r \in Redex
  BY RedexType
<1>7. \/ fs # <<>> /\ r \notin {InitialProg, Returned}
      \/ fs = <<>> /\ r \in {Returned, AllocFailed}
  BY <1>3, RedexType
<1> QED
  BY <1>3, <1>4, <1>5, <1>6, <1>7, FramesStep

LEMMA FailType ==
  ASSUME TypeInv, NEW t \in Thread, FailAlloc(t)
  PROVE  TypeInv'
<1>1. AllocFailed \in Redex /\ AllocFailed \notin {InitialProg, Returned}
  BY RedexType
<1>2. frames[t] \in Seq(CallFrame) /\ frames = [frames EXCEPT ![t] = frames[t]]
  BY DEF TypeInv, TypeOK
<1> QED
  BY <1>1, <1>2, FramesStep DEF FailAlloc, TypeInv, TypeOK

LEMMA NextType == TypeInv /\ [Next]_vars => TypeInv'
<1> SUFFICES ASSUME TypeInv, [Next]_vars
             PROVE  TypeInv'
  OBVIOUS
<1>1. CASE UNCHANGED vars
  BY <1>1 DEF vars, TypeInv, TypeOK, FrameWhileRunning, HasFrame
<1>2. ASSUME NEW t \in Thread, ThreadStep(t)
      PROVE  TypeInv'
  <2>1. ctl[t] \in Redex
    BY DEF TypeInv, TypeOK
  <2>2. CASE Deref(t)
    BY <2>2, DerefType, BodyHasFrame DEF Deref, InBody
  <2>3. CASE FinishDeref(t)
    BY <2>1, <2>3, DerefType, BodyHasFrame, RedexParts DEF FinishDeref
  <2>4. CASE Assign(t)
    <3>1. PICK o \in {"ScOrd", "Na1Ord"}, l \in Loc, n \in AccessSizes :
            \E v \in ValOf(n) : AssignS(t, o, l, v)
      BY <2>4 DEF Assign
    <3>2. PICK v \in ValOf(n) : AssignS(t, o, l, v)
      BY <3>1
    <3>3. v \in Seq(Byte) /\ Len(v) = n
      BY LangAssumption DEF ValOf
    <3> QED
      BY <2>4, <3>2, <3>3, AssignType, BodyHasFrame DEF Assign, InBody
  <2>5. CASE FinishAssign(t)
    BY <2>1, <2>5, AssignType, BodyHasFrame, RedexParts DEF FinishAssign
  <2>6. CASE CAS(t)
    <3>1. PICK l1 \in Loc, l2 \in Loc, n \in AccessSizes :
            \/ CasFailS(t, l1, l2, n)
            \/ \E v3 \in ValOf(n) : CasSucS(t, l1, l2, n, v3)
      BY <2>6 DEF CAS
    <3>2. Poison(n) \in ValOf(n)
      BY DEF Poison, ValOf, Byte
    <3> QED
      BY <3>1, <3>2, CasType
  <2>7. CASE Alloc(t) \/ Free(t)
    <3>1. IsHeap(heap') /\ IsAllocs(allocs')
      BY <2>7, LangAssumption, OneBlockType, AllocType, FreeType
         DEF Alloc, Free, AllocS, FreeS, AllocKind
    <3>2. UNCHANGED <<frames, ctl>> /\ out' = Nothing
      BY <2>7 DEF Alloc, Free, AllocS, FreeS
    <3> QED
      BY <3>1, <3>2, EmptySeq
      DEF TypeInv, TypeOK, FrameWhileRunning, HasFrame, Nothing
  <2>8. CASE AllocFail(t) \/ CallFail(t)
    BY <2>8, FailType DEF AllocFail, CallFail
  <2>9. CASE LocalLive(t)
    BY <2>9, LocalType DEF LocalLive
  <2>10. CASE LocalDead(t)
    <3>1. PICK x \in Var : LocalDeadDeallocS(t, x) \/ LocalDeadNopS(t, x)
      BY <2>10 DEF LocalDead
    <3>2. CASE LocalDeadNopS(t, x)
      BY <3>2, EmptySeq DEF LocalDeadNopS, TypeInv, TypeOK, FrameWhileRunning,
         HasFrame, Nothing
    <3> QED
      BY <2>10, <3>1, <3>2, LocalType DEF LocalDead
  <2>11. CASE Call(t)
    BY <2>11, CallType
  <2>12. CASE Return(t)
    BY <2>12, ReturnType
  <2> QED
    BY <1>2, <2>2, <2>3, <2>4, <2>5, <2>6, <2>7, <2>8, <2>9, <2>10, <2>11, <2>12
       DEF ThreadStep
<1> QED
  BY <1>1, <1>2 DEF Next

\* The variables keep their shape.
THEOREM TypeCorrect == Spec => []TypeOK
<1>1. Spec => []TypeInv
  BY InitType, NextType, PTL DEF Spec
<1>2. TypeInv => TypeOK
  BY DEF TypeInv
<1> QED
  BY <1>1, <1>2, PTL

\* A thread runs a body exactly while it has a frame.
THEOREM FramesCorrect == Spec => []FrameWhileRunning
<1>1. Spec => []TypeInv
  BY InitType, NextType, PTL DEF Spec
<1>2. TypeInv => FrameWhileRunning
  BY DEF TypeInv
<1> QED
  BY <1>1, <1>2, PTL

-----------------------------------------------------------------------------
(* heap_state_invariant. *)

\* New blocks lie outside the blocks that are alive, whose cells are all
\* in the heap, and their identifiers are fresh.
LEMMA AllocBlocksInvariant ==
  ASSUME NEW h, NEW al, IsAllocs(al), heap_state_invariant(h, al), NEW kind,
         NEW ls, ls \in [DOMAIN ls -> Loc],
         NEW vs, vs \in [DOMAIN ls -> Seq(Byte)],
         can_alloc_blocks(ls, vs, h, al)
  PROVE  heap_state_invariant(alloc_blocks_heap(ls, vs, h),
                              alloc_blocks_allocs(ls, vs, kind, al))
<1> DEFINE H == alloc_blocks_heap(ls, vs, h)
           A == alloc_blocks_allocs(ls, vs, kind, al)
           B == Blocks(ls, vs)
           new == UNION {B[x] : x \in DOMAIN ls}
           ids == {ls[x].loc_p : x \in DOMAIN ls}
<1>1. \A a \in DOMAIN h : a \in DOMAIN H /\ H[a] = h[a]
  BY DEF alloc_blocks_heap
<1>2. \A aid \in DOMAIN al : aid \in DOMAIN A /\ A[aid] = al[aid]
  BY DEF alloc_blocks_allocs
<1>3. ASSUME NEW x \in DOMAIN ls
      PROVE  /\ ls[x].loc_p \in DOMAIN A
             /\ A[ls[x].loc_p].al_start = ls[x].loc_a
             /\ A[ls[x].loc_p].al_len = Len(vs[x])
             /\ A[ls[x].loc_p].al_alive
             /\ AddrsOf(A[ls[x].loc_p]) = B[x]
             /\ B[x] \subseteq DOMAIN H
             /\ B[x] \cap DOMAIN h = {}
  <2>1. ls[x].loc_p \in DOMAIN A /\ ls[x].loc_p \notin DOMAIN al
    BY DEF alloc_blocks_allocs, can_alloc_blocks
  <2>2. BlockOf(ls, ls[x].loc_p) = x
    <3>1. \A y \in DOMAIN ls : ls[y].loc_p = ls[x].loc_p => y = x
      BY DEF can_alloc_blocks
    <3> QED
      BY <3>1 DEF BlockOf
  <2>3. A[ls[x].loc_p] = [al_start |-> ls[x].loc_a, al_len |-> Len(vs[x]),
                          al_alive |-> TRUE, al_kind |-> kind]
    BY <2>1, <2>2 DEF alloc_blocks_allocs
  <2>4. B[x] \cap DOMAIN h = {}
    BY DEF can_alloc_blocks, heap_range_free, Blocks
  <2> QED
    BY <2>1, <2>3, <2>4 DEF AddrsOf, Blocks, alloc_blocks_heap
<1>4. ASSUME NEW a \in DOMAIN H, a \notin DOMAIN h
      PROVE  \E x \in DOMAIN ls : a \in B[x] /\ H[a].hc_alloc_id = ls[x].loc_p
  <2>1. \E x \in DOMAIN ls : a \in B[x]
    BY <1>4 DEF alloc_blocks_heap
  <2>2. BlockAt(ls, vs, a) \in DOMAIN ls /\ a \in B[BlockAt(ls, vs, a)]
    BY <2>1 DEF BlockAt
  <2>3. H[a].hc_alloc_id = ls[BlockAt(ls, vs, a)].loc_p
    BY <1>4 DEF alloc_blocks_heap
  <2> QED
    BY <2>2, <2>3
<1>5. \A aid \in DOMAIN A \ DOMAIN al : \E x \in DOMAIN ls : ls[x].loc_p = aid
  BY DEF alloc_blocks_allocs
<1>6. DOMAIN h \subseteq DOMAIN H /\ DOMAIN al \subseteq DOMAIN A
  BY <1>1, <1>2
<1> HIDE DEF H, A, B
<1>7. heap_cell_in_range_alloc(H, A) /\ heap_cell_alloc_alive(H, A)
  <2>1. \A a \in DOMAIN h : /\ H[a].hc_alloc_id \in DOMAIN A
                            /\ a \in AddrsOf(A[H[a].hc_alloc_id])
                            /\ A[H[a].hc_alloc_id].al_alive
    BY <1>1, <1>2 DEF heap_state_invariant, heap_cell_in_range_alloc,
       heap_cell_alloc_alive, alloc_id_alive
  <2>2. \A a \in DOMAIN H \ DOMAIN h : /\ H[a].hc_alloc_id \in DOMAIN A
                                       /\ a \in AddrsOf(A[H[a].hc_alloc_id])
                                       /\ A[H[a].hc_alloc_id].al_alive
    BY <1>3, <1>4
  <2> QED
    BY <2>1, <2>2 DEF heap_cell_in_range_alloc, heap_cell_alloc_alive, alloc_id_alive
<1>8. alloc_in_range(A)
  <2>1. \A aid \in DOMAIN al : allocation_in_range(A[aid])
    BY <1>2 DEF heap_state_invariant, alloc_in_range
  <2>2. \A x \in DOMAIN ls : allocation_in_range(A[ls[x].loc_p])
    BY <1>3 DEF can_alloc_blocks, allocation_in_range, al_end
  <2> QED
    BY <1>5, <2>1, <2>2 DEF alloc_in_range
<1>9. alloc_alive_in_heap(H, A)
  <2>1. \A aid \in DOMAIN al : A[aid].al_alive => AddrsOf(A[aid]) \subseteq DOMAIN H
    BY <1>2, <1>6 DEF heap_state_invariant, alloc_alive_in_heap
  <2> QED
    BY <2>1, <1>3, <1>5 DEF alloc_alive_in_heap
<1>10. alloc_disjoint(A)
  <2>1. \A i, j \in DOMAIN al : i # j /\ A[i].al_alive /\ A[j].al_alive
          => AddrsOf(A[i]) \cap AddrsOf(A[j]) = {}
    BY <1>2 DEF heap_state_invariant, alloc_disjoint
  <2>2. \A i \in DOMAIN al, x \in DOMAIN ls :
          A[i].al_alive => AddrsOf(A[i]) \cap AddrsOf(A[ls[x].loc_p]) = {}
    BY <1>2, <1>3 DEF heap_state_invariant, alloc_alive_in_heap
  <2>3. \A x, y \in DOMAIN ls : ls[x].loc_p # ls[y].loc_p =>
          AddrsOf(A[ls[x].loc_p]) \cap AddrsOf(A[ls[y].loc_p]) = {}
    BY <1>3 DEF can_alloc_blocks, B
  <2>4. ASSUME NEW i \in DOMAIN A, NEW j \in DOMAIN A, i # j,
               A[i].al_alive, A[j].al_alive
        PROVE  AddrsOf(A[i]) \cap AddrsOf(A[j]) = {}
    <3>1. CASE i \in DOMAIN al /\ j \in DOMAIN al
      BY <2>1, <2>4, <3>1
    <3>2. CASE i \in DOMAIN al /\ j \notin DOMAIN al
      BY <1>5, <2>2, <2>4, <3>2
    <3>3. CASE i \notin DOMAIN al /\ j \in DOMAIN al
      BY <1>5, <2>2, <2>4, <3>3
    <3>4. CASE i \notin DOMAIN al /\ j \notin DOMAIN al
      BY <1>5, <2>3, <2>4, <3>4
    <3> QED
      BY <3>1, <3>2, <3>3, <3>4
  <2> QED
    BY <2>4 DEF alloc_disjoint
<1> QED
  BY <1>7, <1>8, <1>9, <1>10 DEF heap_state_invariant, H, A

\* A block that is freed was alive, so its cells are those of no other block.
LEMMA FreeBlocksInvariant ==
  ASSUME NEW h, NEW al, IsAllocs(al), heap_state_invariant(h, al), NEW kind,
         NEW lys, can_free_blocks(lys, kind, h, al)
  PROVE  heap_state_invariant(free_blocks_heap(lys, h),
                              free_blocks_allocs(lys, al))
<1> DEFINE H == free_blocks_heap(lys, h)
           A == free_blocks_allocs(lys, al)
           Freed(aid) == \E x \in DOMAIN lys : lys[x].l.loc_p = aid
<1>1. DOMAIN A = DOMAIN al
  BY DEF free_blocks_allocs
<1>2. \A aid \in DOMAIN al :
        /\ AddrsOf(A[aid]) = AddrsOf(al[aid])
        /\ A[aid].al_start = al[aid].al_start /\ A[aid].al_len = al[aid].al_len
        /\ Freed(aid) => ~A[aid].al_alive
        /\ ~Freed(aid) => A[aid] = al[aid]
  BY DEF free_blocks_allocs, killed, AddrsOf, IsAllocs, Allocation
<1>3. ASSUME NEW x \in DOMAIN lys
      PROVE  /\ lys[x].l.loc_p \in DOMAIN al
             /\ al[lys[x].l.loc_p].al_alive
             /\ AddrsOf(al[lys[x].l.loc_p]) = Span(lys[x].l.loc_a, lys[x].ly)
  <2>1. /\ lys[x].l.loc_p \in DOMAIN al
        /\ al[lys[x].l.loc_p] = [al_start |-> lys[x].l.loc_a, al_len |-> lys[x].ly,
                                 al_alive |-> TRUE, al_kind |-> kind]
    BY DEF can_free_blocks
  <2> QED
    BY <2>1 DEF AddrsOf
<1>4. \A a \in DOMAIN H :
        /\ a \in DOMAIN h /\ H[a] = h[a]
        /\ \A x \in DOMAIN lys : a \notin Span(lys[x].l.loc_a, lys[x].ly)
  BY DEF free_blocks_heap
<1>5. \A a \in DOMAIN h : \/ a \in DOMAIN H
                          \/ \E x \in DOMAIN lys : a \in Span(lys[x].l.loc_a, lys[x].ly)
  BY DEF free_blocks_heap
<1> HIDE DEF H, A
<1>6. heap_cell_in_range_alloc(H, A)
  BY <1>1, <1>2, <1>4 DEF heap_state_invariant, heap_cell_in_range_alloc
<1>7. heap_cell_alloc_alive(H, A)
  <2>1. ASSUME NEW a \in DOMAIN H
        PROVE  alloc_id_alive(H[a].hc_alloc_id, A)
    <3>1. /\ h[a].hc_alloc_id \in DOMAIN al /\ al[h[a].hc_alloc_id].al_alive
          /\ a \in AddrsOf(al[h[a].hc_alloc_id])
      BY <1>4 DEF heap_state_invariant, heap_cell_in_range_alloc,
         heap_cell_alloc_alive, alloc_id_alive
    <3>2. ~Freed(h[a].hc_alloc_id)
      BY <1>3, <1>4, <3>1
    <3> QED
      BY <1>1, <1>2, <1>4, <3>1, <3>2 DEF alloc_id_alive
  <2> QED
    BY <2>1 DEF heap_cell_alloc_alive
<1>8. alloc_in_range(A)
  BY <1>1, <1>2 DEF heap_state_invariant, alloc_in_range, allocation_in_range, al_end
<1>9. alloc_disjoint(A)
  BY <1>1, <1>2 DEF heap_state_invariant, alloc_disjoint
<1>10. alloc_alive_in_heap(H, A)
  <2>1. ASSUME NEW aid \in DOMAIN A, A[aid].al_alive, NEW a \in AddrsOf(A[aid])
        PROVE  a \in DOMAIN H
    <3>1. aid \in DOMAIN al /\ ~Freed(aid) /\ al[aid].al_alive /\ a \in AddrsOf(al[aid])
      BY <1>1, <1>2, <2>1
    <3>2. a \in DOMAIN h
      BY <3>1 DEF heap_state_invariant, alloc_alive_in_heap
    <3>3. \A x \in DOMAIN lys : a \notin Span(lys[x].l.loc_a, lys[x].ly)
      BY <1>3, <3>1 DEF heap_state_invariant, alloc_disjoint
    <3> QED
      BY <1>5, <3>2, <3>3
  <2> QED
    BY <2>1 DEF alloc_alive_in_heap
<1> QED
  BY <1>6, <1>7, <1>8, <1>9, <1>10 DEF heap_state_invariant, H, A

HeapInv == TypeInv /\ HeapInvariant

\* Accesses keep the domain of the heap and the owner of every cell.
LEMMA AccessInvariant ==
  ASSUME HeapInvariant, allocs' = allocs, DOMAIN heap' = DOMAIN heap,
         \A a \in DOMAIN heap : heap'[a].hc_alloc_id = heap[a].hc_alloc_id
  PROVE  HeapInvariant'
<1> DEFINE H == heap'
           A == allocs
<1>1. /\ heap_cell_in_range_alloc(H, A) /\ heap_cell_alloc_alive(H, A)
      /\ alloc_in_range(A) /\ alloc_disjoint(A) /\ alloc_alive_in_heap(H, A)
  BY DEF HeapInvariant, heap_state_invariant, heap_cell_in_range_alloc,
     heap_cell_alloc_alive, alloc_alive_in_heap
<1>2. heap_state_invariant(heap', allocs')
  BY <1>1 DEF heap_state_invariant
<1> QED
  BY <1>2 DEF HeapInvariant

LEMMA AllocInvariant ==
  ASSUME HeapInv, NEW kind,
         NEW ls, ls \in [DOMAIN ls -> Loc],
         NEW vs, vs \in [DOMAIN ls -> Seq(Byte)],
         AllocBlocks(ls, vs, kind)
  PROVE  HeapInvariant'
BY AllocBlocksInvariant DEF AllocBlocks, HeapInv, HeapInvariant, TypeInv, TypeOK

LEMMA FreeInvariant ==
  ASSUME HeapInv, NEW kind, NEW lys, FreeBlocks(lys, kind)
  PROVE  HeapInvariant'
BY FreeBlocksInvariant DEF FreeBlocks, HeapInv, HeapInvariant, TypeInv, TypeOK

LEMMA HeapInit == Init => HeapInvariant
BY DEF Init, HeapInvariant, heap_state_invariant, heap_cell_in_range_alloc,
   heap_cell_alloc_alive, alloc_in_range, alloc_disjoint, alloc_alive_in_heap

LEMMA HeapNext == HeapInv /\ [Next]_vars => HeapInvariant'
<1> SUFFICES ASSUME HeapInv, [Next]_vars
             PROVE  HeapInvariant'
  OBVIOUS
<1>1. CASE UNCHANGED vars
  BY <1>1 DEF vars, HeapInv, HeapInvariant
<1>2. ASSUME NEW t \in Thread, ThreadStep(t)
      PROVE  HeapInvariant'
  <2>1. ctl[t] \in Redex /\ TypeInv
    BY DEF HeapInv, TypeInv, TypeOK
  <2>2. ASSUME NEW o \in {"ScOrd", "Na1Ord", "Na2Ord"}, NEW l \in Loc,
               NEW n \in AccessSizes, NEW ot \in OpTypes,
               HasFrame(t), DerefS(t, o, l, n, ot)
        PROVE  HeapInvariant'
    <3>1. /\ DOMAIN heap' = DOMAIN heap
          /\ \A a \in DOMAIN heap : heap'[a].hc_alloc_id = heap[a].hc_alloc_id
      BY <2>1, <2>2, DerefType
    <3>2. allocs' = allocs
      BY <2>2 DEF DerefS
    <3> QED
      BY <3>1, <3>2, AccessInvariant DEF HeapInv
  <2>3. ASSUME NEW o \in {"ScOrd", "Na1Ord", "Na2Ord"}, NEW l \in Loc,
               NEW v \in Seq(Byte), Len(v) \in AccessSizes,
               HasFrame(t), AssignS(t, o, l, v)
        PROVE  HeapInvariant'
    BY <2>1, <2>3, AssignType, AccessInvariant DEF HeapInv, AssignS
  <2>4. CASE Deref(t) \/ FinishDeref(t)
    BY <2>1, <2>2, <2>4, BodyHasFrame, RedexParts DEF Deref, FinishDeref, InBody
  <2>5. CASE Assign(t)
    <3>1. PICK o \in {"ScOrd", "Na1Ord"}, l \in Loc, n \in AccessSizes :
            \E v \in ValOf(n) : AssignS(t, o, l, v)
      BY <2>5 DEF Assign
    <3>2. PICK v \in ValOf(n) : AssignS(t, o, l, v)
      BY <3>1
    <3>3. v \in Seq(Byte) /\ Len(v) = n
      BY LangAssumption DEF ValOf
    <3> QED
      BY <2>1, <2>3, <2>5, <3>2, <3>3, BodyHasFrame DEF Assign, InBody
  <2>6. CASE FinishAssign(t)
    BY <2>1, <2>3, <2>6, BodyHasFrame, RedexParts DEF FinishAssign
  <2>7. CASE CAS(t)
    <3>1. PICK l1 \in Loc, l2 \in Loc, n \in AccessSizes :
            \/ CasFailS(t, l1, l2, n)
            \/ \E v3 \in ValOf(n) : CasSucS(t, l1, l2, n, v3)
      BY <2>7 DEF CAS
    <3>2. Poison(n) \in ValOf(n)
      BY DEF Poison, ValOf, Byte
    <3>3. PICK v3 \in ValOf(n) : CasFailS(t, l1, l2, n) \/ CasSucS(t, l1, l2, n, v3)
      BY <3>1, <3>2
    <3>4. allocs' = allocs
      BY <3>3 DEF CasFailS, CasSucS
    <3> QED
      BY <2>1, <3>3, <3>4, CasType, AccessInvariant DEF HeapInv
  <2>8. CASE Alloc(t) \/ LocalLive(t)
    <3>1. PICK l \in Loc, n \in BlockSizes, kind \in AllocKind :
            AllocBlocks(One(l), One(Poison(n)), kind)
      BY <2>8 DEF Alloc, AllocS, LocalLive, LocalLiveS, AllocKind
    <3> QED
      BY <3>1, LangAssumption, OneBlockType, AllocInvariant
  <2>9. CASE Free(t) \/ LocalDead(t) \/ Return(t)
    <3>1. \/ \E lys, kind : FreeBlocks(lys, kind)
          \/ UNCHANGED <<heap, allocs>>
      BY <2>9 DEF Free, FreeS, LocalDead, LocalDeadDeallocS, LocalDeadNopS,
         Return, ReturnS
    <3> QED
      BY <3>1, FreeInvariant DEF HeapInv, HeapInvariant
  <2>10. CASE Call(t)
    <3>1. PICK f \in Functions : \E ls \in [DOMAIN f -> Loc] :
            \E vs \in [DOMAIN f -> Seq(Byte)] : CallS(t, f, ls, vs)
      BY <2>10, CallParts
    <3>2. PICK ls \in [DOMAIN f -> Loc], vs \in [DOMAIN f -> Seq(Byte)] :
            AllocBlocks(ls, vs, "StackAlloc")
      BY <3>1 DEF CallS
    <3> QED
      BY <3>2, AllocInvariant
  <2>11. CASE AllocFail(t) \/ CallFail(t)
    BY <2>11 DEF AllocFail, CallFail, FailAlloc, HeapInv, HeapInvariant
  <2> QED
    BY <1>2, <2>4, <2>5, <2>6, <2>7, <2>8, <2>9, <2>10, <2>11 DEF ThreadStep
<1> QED
  BY <1>1, <1>2 DEF Next

\* The heap and the allocation table agree, and blocks that are alive do not
\* overlap, however threads interleave.
THEOREM HeapCorrect == Spec => []HeapInvariant
<1>1. Init => HeapInv
  BY InitType, HeapInit DEF HeapInv
<1>2. HeapInv /\ [Next]_vars => HeapInv'
  BY NextType, HeapNext DEF HeapInv
<1>3. HeapInv => HeapInvariant
  BY DEF HeapInv
<1> QED
  BY <1>1, <1>2, <1>3, PTL DEF Spec

-----------------------------------------------------------------------------
(* Lock accounting.  The invariant that carries it says in addition that    *)
(* the cells of an access in progress stay in the heap, in the block of the *)
(* pointer: a cell that is locked is never freed, and a cell that is new    *)
(* has no access in progress.                                               *)

Locked(lk, R, W) ==
  \/ lk = WSt /\ Cardinality(W) = 1 /\ R = {}
  \/ lk = Cardinality(R) /\ W = {}

AccessOwned ==
  \A t \in Thread :
    /\ \A a \in ReadSpan(t) \cup WriteSpan(t) :
         a \in DOMAIN heap /\ heap[a].hc_alloc_id = ctl[t].l.loc_p
    /\ ctl[t].k = "deref2" => ctl[t].l.loc_p \in AllocId \/ ctl[t].n = 0
    /\ ctl[t].k = "assign2" => ctl[t].l.loc_p \in AllocId \/ Len(ctl[t].v) = 0

LockInv == HeapInv /\ LockAccounting /\ AccessOwned

\* One cell: what the first and the second step of a read and of a write do
\* to its lock state and to the sets of its readers and writers.
LEMMA StartRead ==
  ASSUME NEW lk \in Nat, NEW R, IsFiniteSet(R), NEW W, Locked(lk, R, W),
         NEW t, t \notin R
  PROVE  Locked(lk + 1, R \cup {t}, W)
BY FS_AddElement DEF Locked, WSt

LEMMA FinishRead ==
  ASSUME NEW lk, NEW R, IsFiniteSet(R), NEW W, Locked(lk, R, W),
         NEW t \in R
  PROVE  lk \in Nat \ {0} /\ Locked(lk - 1, R \ {t}, W)
<1>1. lk = Cardinality(R) /\ W = {}
  BY DEF Locked
<1>2. Cardinality(R) \in Nat /\ Cardinality(R) # 0
  BY FS_CardinalityType, FS_EmptySet
<1>3. Cardinality(R \ {t}) = Cardinality(R) - 1
  BY FS_RemoveElement
<1> QED
  BY <1>1, <1>2, <1>3 DEF Locked

LEMMA StartWrite ==
  ASSUME NEW R, IsFiniteSet(R), NEW W, Locked(0, R, W), NEW t
  PROVE  R = {} /\ W = {} /\ Locked(WSt, {}, {t})
<1>1. R = {} /\ W = {}
  BY FS_EmptySet DEF Locked, WSt
<1>2. Cardinality({t}) = 1
  BY FS_Singleton
<1> QED
  BY <1>1, <1>2 DEF Locked

LEMMA FinishWrite ==
  ASSUME NEW lk, NEW R, NEW W, IsFiniteSet(W), Locked(lk, R, W), NEW t \in W
  PROVE  lk = WSt /\ R = {} /\ W = {t} /\ Locked(0, {}, {})
<1>1. lk = WSt /\ Cardinality(W) = 1 /\ R = {}
  BY DEF Locked
<1>2. \E s : W = {s}
  BY <1>1, FS_Singleton
<1>3. Cardinality({}) = 0
  BY FS_EmptySet
<1> QED
  BY <1>1, <1>2, <1>3 DEF Locked

LEMMA NotLocked ==
  /\ Locked(0, {}, {})
  /\ \A R, W : IsFiniteSet(R) /\ Locked(0, R, W) => R = {} /\ W = {}
BY FS_EmptySet DEF Locked, WSt

LEMMA FiniteAccesses ==
  \A a : IsFiniteSet(Readers(a)) /\ IsFiniteSet(Writers(a))
<1>1. \A a : Readers(a) \subseteq Thread /\ Writers(a) \subseteq Thread
  BY DEF Readers, Writers
<1> QED
  BY <1>1, FS_Subset, LangAssumption

\* A step of t changes the accesses in progress of t only.
LEMMA ReadersStep ==
  ASSUME TypeInv, NEW t \in Thread, NEW r, ctl' = [ctl EXCEPT ![t] = r], NEW a
  PROVE  /\ a \in read_span(r)    => Readers(a)' = Readers(a) \cup {t}
         /\ a \notin read_span(r) => Readers(a)' = Readers(a) \ {t}
         /\ a \in write_span(r)    => Writers(a)' = Writers(a) \cup {t}
         /\ a \notin write_span(r) => Writers(a)' = Writers(a) \ {t}
BY DEF TypeInv, TypeOK, Readers, Writers, ReadSpan, WriteSpan

LEMMA NoSpans ==
  ASSUME NEW r \in {InitialProg, Body, AllocFailed, Returned}
  PROVE  read_span(r) = {} /\ write_span(r) = {}
BY DEF InitialProg, Body, AllocFailed, Returned, read_span, write_span

LEMMA LockedCells ==
  /\ LockAccounting <=>
       \A a \in DOMAIN heap : Locked(heap[a].hc_lock_state, Readers(a), Writers(a))
  /\ LockAccounting' <=>
       \A a \in DOMAIN heap' :
         Locked(heap'[a].hc_lock_state, Readers(a)', Writers(a)')
BY DEF LockAccounting, Locked, RSt

\* An access keeps the invariant if it leaves every cell locked as it should
\* be, and its new redex covers cells of its pointer's block.
LEMMA AccessStep ==
  ASSUME LockInv, NEW t \in Thread, NEW r, ctl' = [ctl EXCEPT ![t] = r],
         DOMAIN heap' = DOMAIN heap,
         \A a \in DOMAIN heap : heap'[a].hc_alloc_id = heap[a].hc_alloc_id,
         \A a \in DOMAIN heap :
           Locked(heap'[a].hc_lock_state, Readers(a)', Writers(a)'),
         \A a \in read_span(r) \cup write_span(r) :
           a \in DOMAIN heap /\ heap[a].hc_alloc_id = r.l.loc_p,
         r.k = "deref2" => r.l.loc_p \in AllocId \/ r.n = 0,
         r.k = "assign2" => r.l.loc_p \in AllocId \/ Len(r.v) = 0
  PROVE  LockAccounting' /\ AccessOwned'
<1>1. LockAccounting'
  BY LockedCells
<1>2. ASSUME NEW s \in Thread
      PROVE  /\ \A a \in ReadSpan(s)' \cup WriteSpan(s)' :
                  a \in DOMAIN heap' /\ heap'[a].hc_alloc_id = ctl'[s].l.loc_p
             /\ ctl'[s].k = "deref2" => ctl'[s].l.loc_p \in AllocId \/ ctl'[s].n = 0
             /\ ctl'[s].k = "assign2" => ctl'[s].l.loc_p \in AllocId
                                         \/ Len(ctl'[s].v) = 0
  <2>1. CASE s = t
    <3>1. ctl'[s] = r
      BY <2>1 DEF LockInv, HeapInv, TypeInv, TypeOK
    <3> QED
      BY <3>1 DEF ReadSpan, WriteSpan
  <2>2. CASE s # t
    <3>1. ctl'[s] = ctl[s]
      BY <2>2 DEF LockInv, HeapInv, TypeInv, TypeOK
    <3> QED
      BY <3>1 DEF ReadSpan, WriteSpan, LockInv, AccessOwned
  <2> QED
    BY <2>1, <2>2
<1> QED
  BY <1>1, <1>2 DEF AccessOwned

LEMMA DerefLocks ==
  ASSUME LockInv, NEW t \in Thread, HasFrame(t),
         NEW o \in {"ScOrd", "Na1Ord", "Na2Ord"},
         NEW l \in Loc, NEW n \in AccessSizes, NEW ot \in OpTypes,
         o # "Na2Ord" => ctl[t] = Body,
         o = "Na2Ord" => ctl[t] = Deref2(l, n, ot),
         DerefS(t, o, l, n, ot)
  PROVE  LockAccounting' /\ AccessOwned'
<1> DEFINE r == IF o = "Na1Ord" THEN Deref2(l, n, ot) ELSE Body
           lk(a) == heap[a].hc_lock_state
<1>1. TypeInv /\ LockAccounting /\ AccessOwned
  BY DEF LockInv, HeapInv
<1>2. ctl' = [ctl EXCEPT ![t] = r]
  BY DEF DerefS
<1>3. /\ DOMAIN heap' = DOMAIN heap
      /\ \A a \in DOMAIN heap : heap'[a].hc_alloc_id = heap[a].hc_alloc_id
  BY <1>1, DerefType
<1>4. /\ read_span(Deref2(l, n, ot)) = Span(l.loc_a, n)
      /\ write_span(Deref2(l, n, ot)) = {}
      /\ read_span(Body) = {} /\ write_span(Body) = {}
  BY NoSpans DEF Deref2, read_span, write_span
<1>5. \A a \in Span(l.loc_a, n) : /\ a \in DOMAIN heap
                                  /\ heap[a].hc_alloc_id = l.loc_p
                                  /\ lk(a) \in DerefStart(o)
  BY DEF DerefS, heap_at, heap_lookup_loc
<1>6. \A a \in DOMAIN heap : heap'[a].hc_lock_state =
        IF a \in Span(l.loc_a, n) THEN DerefEnd(o)[lk(a)] ELSE lk(a)
  <2>1. n \in Nat /\ IsHeap(heap)
    BY <1>1, LangAssumption DEF TypeInv, TypeOK
  <2>2. Len(heap_value(l, n, heap)) = n
    BY <1>5, <2>1, ValueType
  <2> QED
    BY <2>2 DEF DerefS, heap_upd
<1>7. ASSUME NEW a \in DOMAIN heap
      PROVE  Locked(heap'[a].hc_lock_state, Readers(a)', Writers(a)')
  <2>1. Locked(lk(a), Readers(a), Writers(a)) /\ IsFiniteSet(Readers(a))
    BY <1>1, LockedCells, FiniteAccesses
  <2>2. lk(a) \in LockState
    BY <1>1, LockStates DEF TypeInv, TypeOK
  <2>3. t \notin Writers(a)
    BY <1>4 DEF Writers, WriteSpan
  <2>4. Writers(a)' = Writers(a)
    <3>1. Writers(a)' = Writers(a) \ {t}
      BY <1>1, <1>2, <1>4, ReadersStep
    <3> QED
      BY <2>3, <3>1
  <2>5. CASE o = "ScOrd"
    <3>1. Readers(a)' = Readers(a)
      <4>1. t \notin Readers(a)
        BY <1>4, <2>5 DEF Readers, ReadSpan
      <4>2. Readers(a)' = Readers(a) \ {t}
        BY <1>1, <1>2, <1>4, <2>5, ReadersStep
      <4> QED
        BY <4>1, <4>2
    <3>2. heap'[a].hc_lock_state = lk(a)
      BY <1>6, <2>2, <2>5, LockMoves
    <3> QED
      BY <2>1, <2>4, <3>1, <3>2
  <2>6. CASE o = "Na1Ord"
    <3>1. t \notin Readers(a)
      BY <1>4, <2>6 DEF Readers, ReadSpan
    <3>4. PICK d : /\ ctl' = [ctl EXCEPT ![t] = d]
                   /\ read_span(d) = Span(l.loc_a, n)
      BY <1>2, <1>4, <2>6
    <3>2. CASE a \in Span(l.loc_a, n)
      <4>1. Readers(a)' = Readers(a) \cup {t}
        <5>1. a \in read_span(d)
          BY <3>2, <3>4
        <5> QED
          BY <1>1, <3>4, <5>1, ReadersStep, ZenonT(30)
      <4>2. lk(a) \in Nat /\ heap'[a].hc_lock_state = lk(a) + 1
        BY <1>5, <1>6, <2>2, <2>6, <3>2, LockMoves DEF DerefStart
      <4>3. Locked(lk(a) + 1, Readers(a) \cup {t}, Writers(a))
        BY <2>1, <3>1, <4>2, StartRead
      <4> QED
        BY <2>4, <4>1, <4>2, <4>3
    <3>3. CASE a \notin Span(l.loc_a, n)
      <4>1. Readers(a)' = Readers(a) \ {t}
        <5>1. a \notin read_span(d)
          BY <3>3, <3>4
        <5> QED
          BY <1>1, <3>4, <5>1, ReadersStep, ZenonT(30)
      <4> QED
        BY <1>6, <2>1, <2>4, <3>1, <3>3, <4>1
    <3> QED
      BY <3>2, <3>3
  <2>7. CASE o = "Na2Ord"
    <3>1. t \in Readers(a) <=> a \in Span(l.loc_a, n)
      BY <1>4, <2>7 DEF Readers, ReadSpan
    <3>2. Readers(a)' = Readers(a) \ {t}
      BY <1>1, <1>2, <1>4, <2>7, ReadersStep
    <3>3. CASE a \in Span(l.loc_a, n)
      <4>1. heap'[a].hc_lock_state = lk(a) - 1
        BY <1>6, <2>2, <2>7, <3>3, LockMoves
      <4>2. Locked(lk(a) - 1, Readers(a) \ {t}, Writers(a))
        BY <2>1, <3>1, <3>3, FinishRead
      <4> QED
        BY <2>4, <3>2, <4>1, <4>2
    <3>4. CASE a \notin Span(l.loc_a, n)
      <4>1. Readers(a)' = Readers(a)
        BY <3>1, <3>2, <3>4
      <4> QED
        BY <1>6, <2>1, <2>4, <3>4, <4>1
    <3> QED
      BY <3>3, <3>4
  <2> QED
    BY <2>5, <2>6, <2>7
<1>8. \A a \in read_span(r) \cup write_span(r) :
        a \in DOMAIN heap /\ heap[a].hc_alloc_id = r.l.loc_p
  BY <1>4, <1>5 DEF Deref2
<1>9. /\ r.k = "deref2" => r.l.loc_p \in AllocId \/ r.n = 0
      /\ r.k # "assign2"
  BY DEF DerefS, heap_at, Deref2, Body
<1> QED
  <2> HIDE DEF r
  <2> QED
    BY <1>2, <1>3, <1>7, <1>8, <1>9, AccessStep

LEMMA AssignLocks ==
  ASSUME LockInv, NEW t \in Thread, HasFrame(t),
         NEW o \in {"ScOrd", "Na1Ord", "Na2Ord"},
         NEW l \in Loc, NEW v \in Seq(Byte), Len(v) \in AccessSizes,
         o # "Na2Ord" => ctl[t] = Body,
         o = "Na2Ord" => ctl[t] = Assign2(l, v),
         AssignS(t, o, l, v)
  PROVE  LockAccounting' /\ AccessOwned'
<1> DEFINE r == IF o = "Na1Ord" THEN Assign2(l, v) ELSE Body
           lk(a) == heap[a].hc_lock_state
           S == Span(l.loc_a, Len(v))
<1>1. TypeInv /\ LockAccounting /\ AccessOwned
  BY DEF LockInv, HeapInv
<1>2. ctl' = [ctl EXCEPT ![t] = r]
  BY DEF AssignS
<1>3. /\ DOMAIN heap' = DOMAIN heap
      /\ \A a \in DOMAIN heap : heap'[a].hc_alloc_id = heap[a].hc_alloc_id
  BY <1>1, AssignType
<1>4. /\ write_span(Assign2(l, v)) = S /\ read_span(Assign2(l, v)) = {}
      /\ read_span(Body) = {} /\ write_span(Body) = {}
  BY NoSpans DEF Assign2, read_span, write_span
<1>5. \A a \in S : /\ a \in DOMAIN heap
                   /\ heap[a].hc_alloc_id = l.loc_p
                   /\ lk(a) \in AssignStart(o)
  BY DEF AssignS, heap_at, heap_lookup_loc
<1>6. \A a \in DOMAIN heap : heap'[a].hc_lock_state =
        IF a \in S THEN AssignEnd(o)[lk(a)] ELSE lk(a)
  <2>1. Len(v) \in Nat /\ IsHeap(heap)
    BY <1>1, LangAssumption DEF TypeInv, TypeOK
  <2>2. Len(heap_value(l, Len(v), heap)) = Len(v)
    BY <1>5, <2>1, ValueType
  <2> QED
    BY <2>2 DEF AssignS, heap_upd
<1>7. ASSUME NEW a \in DOMAIN heap
      PROVE  Locked(heap'[a].hc_lock_state, Readers(a)', Writers(a)')
  <2>1. /\ Locked(lk(a), Readers(a), Writers(a))
        /\ IsFiniteSet(Readers(a)) /\ IsFiniteSet(Writers(a))
    BY <1>1, LockedCells, FiniteAccesses
  <2>2. Readers(a)' = Readers(a)
    <3>1. t \notin Readers(a)
      BY <1>4 DEF Readers, ReadSpan
    <3>2. PICK d : ctl' = [ctl EXCEPT ![t] = d] /\ a \notin read_span(d)
      BY <1>2, <1>4
    <3>3. Readers(a)' = Readers(a) \ {t}
      BY <1>1, <3>2, ReadersStep, ZenonT(30)
    <3> QED
      BY <3>1, <3>3
  <2>3. PICK d : ctl' = [ctl EXCEPT ![t] = d] /\ d = r
    BY <1>2
  <2>7. lk(a) \in LockState
    BY <1>1, LockStates DEF TypeInv, TypeOK
  <2>4. CASE o = "ScOrd"
    <3>1. t \notin Writers(a) /\ a \notin write_span(d)
      BY <1>4, <2>3, <2>4 DEF Writers, WriteSpan
    <3>2. Writers(a)' = Writers(a) \ {t}
      BY <1>1, <2>3, <3>1, ReadersStep, ZenonT(30)
    <3>3. heap'[a].hc_lock_state = lk(a)
      BY <1>5, <1>6, <2>4, <2>7, LockMoves DEF AssignStart, RSt
    <3>4. Writers(a)' = Writers(a)
      BY <3>1, <3>2
    <3> QED
      BY <2>1, <2>2, <3>3, <3>4
  <2>5. CASE o = "Na1Ord"
    <3>1. t \notin Writers(a)
      BY <1>4, <2>5 DEF Writers, WriteSpan
    <3>2. CASE a \in S
      <4>1. lk(a) = 0 /\ heap'[a].hc_lock_state = WSt
        BY <1>5, <1>6, <2>5, <2>7, <3>2, LockMoves DEF AssignStart, RSt
      <4>2. Readers(a) = {} /\ Writers(a) = {} /\ Locked(WSt, {}, {t})
        BY <2>1, <4>1, StartWrite
      <4>3. a \in write_span(d)
        BY <1>4, <2>3, <2>5, <3>2
      <4>4. Writers(a)' = Writers(a) \cup {t}
        BY <1>1, <2>3, <4>3, ReadersStep, ZenonT(30)
      <4>5. Writers(a)' = {t} /\ Readers(a)' = {}
        BY <2>2, <4>2, <4>4
      <4> QED
        BY <4>1, <4>2, <4>5
    <3>3. CASE a \notin S
      <4>1. a \notin write_span(d)
        BY <1>4, <2>3, <2>5, <3>3
      <4>2. Writers(a)' = Writers(a) \ {t}
        BY <1>1, <2>3, <4>1, ReadersStep, ZenonT(30)
      <4>3. Writers(a)' = Writers(a) /\ heap'[a].hc_lock_state = lk(a)
        BY <1>6, <3>1, <3>3, <4>2
      <4> QED
        BY <2>1, <2>2, <4>3
    <3> QED
      BY <3>2, <3>3
  <2>6. CASE o = "Na2Ord"
    <3>1. a \notin write_span(d) /\ (t \in Writers(a) <=> a \in S)
      BY <1>4, <2>3, <2>6 DEF Writers, WriteSpan
    <3>2. Writers(a)' = Writers(a) \ {t}
      BY <1>1, <2>3, <3>1, ReadersStep, ZenonT(30)
    <3>3. CASE a \in S
      <4>1. heap'[a].hc_lock_state = 0
        BY <1>6, <2>6, <2>7, <3>3, LockMoves
      <4>2. Readers(a) = {} /\ Writers(a) = {t} /\ Locked(0, {}, {})
        BY <2>1, <3>1, <3>3, FinishWrite
      <4>3. Readers(a)' = {} /\ Writers(a)' = {}
        BY <2>2, <3>2, <4>2
      <4> QED
        BY <4>1, <4>2, <4>3
    <3>4. CASE a \notin S
      <4>1. Writers(a)' = Writers(a) /\ heap'[a].hc_lock_state = lk(a)
        BY <1>6, <3>1, <3>2, <3>4
      <4> QED
        BY <2>1, <2>2, <4>1
    <3> QED
      BY <3>3, <3>4
  <2> QED
    BY <2>4, <2>5, <2>6
<1>8. \A a \in read_span(r) \cup write_span(r) :
        a \in DOMAIN heap /\ heap[a].hc_alloc_id = r.l.loc_p
  BY <1>4, <1>5 DEF Assign2
<1>9. /\ r.k = "assign2" => r.l.loc_p \in AllocId \/ Len(r.v) = 0
      /\ r.k # "deref2"
  BY DEF AssignS, heap_at, Assign2, Body
<1> QED
  <2> HIDE DEF r
  <2> QED
    BY <1>2, <1>3, <1>7, <1>8, <1>9, AccessStep

\* CAS writes cells no access is in progress on.
LEMMA CasLocks ==
  ASSUME LockInv, NEW t \in Thread, ctl[t] = Body, NEW l1 \in Loc, NEW l2 \in Loc,
         NEW n \in AccessSizes, NEW v3 \in ValOf(n),
         CasFailS(t, l1, l2, n) \/ CasSucS(t, l1, l2, n, v3)
  PROVE  LockAccounting' /\ AccessOwned'
<1>1. TypeInv /\ LockAccounting /\ AccessOwned
  BY DEF LockInv, HeapInv
<1>2. /\ DOMAIN heap' = DOMAIN heap
      /\ \A a \in DOMAIN heap : heap'[a].hc_alloc_id = heap[a].hc_alloc_id
  BY <1>1, CasType
<1>3. n \in Nat /\ IsHeap(heap)
  BY <1>1, LangAssumption DEF TypeInv, TypeOK
<1>4. \A a \in DOMAIN heap : heap'[a].hc_lock_state = heap[a].hc_lock_state
  <2>1. CASE CasFailS(t, l1, l2, n)
    <3>1. Span(l1.loc_a, n) \subseteq DOMAIN heap
      BY <2>1 DEF CasFailS, heap_at, heap_lookup_loc
    <3>2. Len(heap_value(l1, n, heap)) = n
      BY <1>3, <3>1, ValueType
    <3>3. \A a \in Span(l2.loc_a, n) : heap[a].hc_lock_state = 0
      BY <2>1 DEF CasFailS, heap_at, heap_lookup_loc, RSt
    <3> QED
      BY <1>3, <2>1, <3>2, <3>3, LockStates, LockMoves DEF CasFailS, heap_upd
  <2>2. CASE CasSucS(t, l1, l2, n, v3)
    <3>1. Len(v3) = n
      BY <1>3 DEF ValOf
    <3>2. \A a \in Span(l1.loc_a, n) : heap[a].hc_lock_state = 0
      BY <2>2 DEF CasSucS, heap_at, heap_lookup_loc, RSt
    <3> QED
      BY <1>3, <2>2, <3>1, <3>2, LockStates, LockMoves DEF CasSucS, heap_upd
  <2> QED
    BY <2>1, <2>2
<1>5. ctl' = ctl
  BY DEF CasFailS, CasSucS
<1>6. \A a : Readers(a)' = Readers(a) /\ Writers(a)' = Writers(a)
  BY <1>5 DEF Readers, Writers, ReadSpan, WriteSpan
<1>7. LockAccounting'
  BY <1>1, <1>2, <1>4, <1>6, LockedCells
<1>8. AccessOwned'
  BY <1>1, <1>2, <1>5 DEF AccessOwned, ReadSpan, WriteSpan
<1> QED
  BY <1>7, <1>8

\* Blocks come without locks, and go only without locks.
LEMMA BlockStep ==
  ASSUME LockInv, NEW t \in Thread, ctl[t] \in {InitialProg, Body},
         NEW r \in {Body, AllocFailed, Returned}, ctl' = [ctl EXCEPT ![t] = r],
         \A a \in DOMAIN heap \cap DOMAIN heap' : heap'[a] = heap[a],
         \A a \in DOMAIN heap' \ DOMAIN heap : heap'[a].hc_lock_state = 0,
         \A a \in DOMAIN heap \ DOMAIN heap' : heap[a].hc_lock_state = 0
  PROVE  LockAccounting' /\ AccessOwned'
<1>1. TypeInv /\ LockAccounting /\ AccessOwned
  BY DEF LockInv, HeapInv
<1>2. \A s \in Thread : ctl'[s] = IF s = t THEN r ELSE ctl[s]
  BY <1>1 DEF TypeInv, TypeOK
<1>3. \A s \in Thread : ReadSpan(s)' = ReadSpan(s) /\ WriteSpan(s)' = WriteSpan(s)
  BY <1>2, NoSpans DEF ReadSpan, WriteSpan
<1>4. \A a : Readers(a)' = Readers(a) /\ Writers(a)' = Writers(a)
  BY <1>3 DEF Readers, Writers
<1>5. \A a : Readers(a) # {} \/ Writers(a) # {} => a \in DOMAIN heap \cap DOMAIN heap'
  <2>1. \A a : Readers(a) # {} \/ Writers(a) # {} => a \in DOMAIN heap
    BY <1>1 DEF AccessOwned, Readers, Writers
  <2>2. ASSUME NEW a \in DOMAIN heap, a \notin DOMAIN heap'
        PROVE  Readers(a) = {} /\ Writers(a) = {}
    <3>1. Locked(0, Readers(a), Writers(a)) /\ IsFiniteSet(Readers(a))
      BY <1>1, <2>2, LockedCells, FiniteAccesses
    <3> QED
      BY <3>1, NotLocked
  <2> QED
    BY <2>1, <2>2
<1>6. LockAccounting'
  <2>1. ASSUME NEW a \in DOMAIN heap'
        PROVE  Locked(heap'[a].hc_lock_state, Readers(a)', Writers(a)')
    <3>1. CASE a \in DOMAIN heap
      BY <1>1, <1>4, <3>1, LockedCells
    <3>2. CASE a \notin DOMAIN heap
      <4>1. Readers(a)' = {} /\ Writers(a)' = {}
        BY <1>4, <1>5, <3>2
      <4> QED
        BY <3>2, <4>1, NotLocked
    <3> QED
      BY <3>1, <3>2
  <2> QED
    BY <2>1, LockedCells
<1>7. AccessOwned'
  <2>1. ASSUME NEW s \in Thread, NEW a \in ReadSpan(s) \cup WriteSpan(s)
        PROVE  a \in DOMAIN heap' /\ heap'[a].hc_alloc_id = ctl'[s].l.loc_p
    <3>1. a \in DOMAIN heap /\ heap[a].hc_alloc_id = ctl[s].l.loc_p
      BY <1>1, <2>1 DEF AccessOwned
    <3>2. a \in DOMAIN heap' /\ heap'[a] = heap[a]
      BY <1>5, <2>1, <3>1 DEF Readers, Writers
    <3>3. s # t
      BY <1>2, <2>1, NoSpans DEF ReadSpan, WriteSpan
    <3> QED
      BY <1>2, <3>1, <3>2, <3>3
  <2>2. r.k # "deref2" /\ r.k # "assign2"
    BY DEF Body, AllocFailed, Returned
  <2> QED
    BY <1>1, <1>2, <1>3, <2>1, <2>2 DEF AccessOwned
<1> QED
  BY <1>6, <1>7

LEMMA AllocLocks ==
  ASSUME NEW kind, NEW ls, NEW vs, AllocBlocks(ls, vs, kind)
  PROVE  /\ \A a \in DOMAIN heap \cap DOMAIN heap' : heap'[a] = heap[a]
         /\ \A a \in DOMAIN heap' \ DOMAIN heap : heap'[a].hc_lock_state = 0
         /\ \A a \in DOMAIN heap \ DOMAIN heap' : heap[a].hc_lock_state = 0
BY DEF AllocBlocks, alloc_blocks_heap, RSt

LEMMA FreeLocks ==
  ASSUME NEW kind, NEW lys, FreeBlocks(lys, kind)
  PROVE  /\ \A a \in DOMAIN heap \cap DOMAIN heap' : heap'[a] = heap[a]
         /\ \A a \in DOMAIN heap' \ DOMAIN heap : heap'[a].hc_lock_state = 0
         /\ \A a \in DOMAIN heap \ DOMAIN heap' : heap[a].hc_lock_state = 0
<1>1. \A x \in DOMAIN lys : \A a \in Span(lys[x].l.loc_a, lys[x].ly) :
        heap[a].hc_lock_state = 0
  BY DEF FreeBlocks, can_free_blocks, heap_lookup_loc, RSt
<1> QED
  BY <1>1 DEF FreeBlocks, free_blocks_heap

LEMMA LockInit == Init => LockAccounting /\ AccessOwned
<1> SUFFICES ASSUME Init
             PROVE  LockAccounting /\ AccessOwned
  OBVIOUS
<1>1. \A t \in Thread : ctl[t] = InitialProg
  BY DEF Init
<1>2. \A t \in Thread : ReadSpan(t) = {} /\ WriteSpan(t) = {}
  BY <1>1, NoSpans DEF ReadSpan, WriteSpan
<1> QED
  BY <1>1, <1>2 DEF Init, LockAccounting, AccessOwned, InitialProg

LEMMA LockNext == LockInv /\ [Next]_vars => LockAccounting' /\ AccessOwned'
<1> SUFFICES ASSUME LockInv, [Next]_vars
             PROVE  LockAccounting' /\ AccessOwned'
  OBVIOUS
<1>1. CASE UNCHANGED vars
  BY <1>1 DEF vars, LockInv, LockAccounting, AccessOwned, Readers, Writers,
     ReadSpan, WriteSpan
<1>2. ASSUME NEW t \in Thread, ThreadStep(t)
      PROVE  LockAccounting' /\ AccessOwned'
  <2>1. TypeInv /\ ctl[t] \in Redex
    BY DEF LockInv, HeapInv, TypeInv, TypeOK
  <2>2. CASE Deref(t)
    BY <2>1, <2>2, DerefLocks, BodyHasFrame DEF Deref, InBody
  <2>3. CASE FinishDeref(t)
    <3>1. PICK l \in Loc, n \in AccessSizes, ot \in OpTypes : ctl[t] = Deref2(l, n, ot)
      BY <2>1, <2>3 DEF FinishDeref, Redex, InitialProg, Body, AllocFailed,
         Returned, Assign2
    <3>2. DerefS(t, "Na2Ord", l, n, ot) /\ HasFrame(t)
      BY <2>1, <2>3, <3>1, BodyHasFrame DEF FinishDeref, Deref2
    <3> QED
      BY <3>1, <3>2, DerefLocks
  <2>4. CASE Assign(t)
    <3>1. PICK o \in {"ScOrd", "Na1Ord"}, l \in Loc, n \in AccessSizes :
            \E v \in ValOf(n) : AssignS(t, o, l, v)
      BY <2>4 DEF Assign
    <3>2. PICK v \in ValOf(n) : AssignS(t, o, l, v)
      BY <3>1
    <3>3. v \in Seq(Byte) /\ Len(v) = n
      BY LangAssumption DEF ValOf
    <3> QED
      BY <2>1, <2>4, <3>2, <3>3, AssignLocks, BodyHasFrame DEF Assign, InBody
  <2>5. CASE FinishAssign(t)
    <3>1. /\ ctl[t].l \in Loc /\ ctl[t].v \in Seq(Byte)
          /\ Len(ctl[t].v) \in AccessSizes
      BY <2>1, <2>5, RedexParts DEF FinishAssign
    <3>2. ctl[t] = Assign2(ctl[t].l, ctl[t].v)
      BY <2>1, <2>5 DEF FinishAssign, Redex, InitialProg, Body, AllocFailed,
         Returned, Assign2, Deref2
    <3>3. AssignS(t, "Na2Ord", ctl[t].l, ctl[t].v) /\ HasFrame(t)
      BY <2>1, <2>5, BodyHasFrame DEF FinishAssign
    <3> QED
      BY <3>1, <3>2, <3>3, AssignLocks
  <2>6. CASE CAS(t)
    <3>1. PICK l1 \in Loc, l2 \in Loc, n \in AccessSizes :
            \/ CasFailS(t, l1, l2, n)
            \/ \E v3 \in ValOf(n) : CasSucS(t, l1, l2, n, v3)
      BY <2>6 DEF CAS
    <3>2. Poison(n) \in ValOf(n)
      BY DEF Poison, ValOf, Byte
    <3>3. PICK v3 \in ValOf(n) : CasFailS(t, l1, l2, n) \/ CasSucS(t, l1, l2, n, v3)
      BY <3>1, <3>2
    <3> QED
      BY <2>6, <3>3, CasLocks DEF CAS, InBody
  <2>7. CASE \/ Alloc(t) \/ LocalLive(t) \/ Call(t) \/ Free(t) \/ LocalDead(t)
             \/ Return(t) \/ AllocFail(t) \/ CallFail(t)
    <3>1. ctl[t] \in {InitialProg, Body}
      BY <2>7 DEF Alloc, LocalLive, Call, Free, LocalDead, Return, AllocFail,
         CallFail, InBody
    <3>2. ctl = [ctl EXCEPT ![t] = ctl[t]]
      BY <2>1 DEF TypeInv, TypeOK
    <3>3. \E r \in {Body, AllocFailed, Returned} : ctl' = [ctl EXCEPT ![t] = r]
      BY <2>7, <3>1, <3>2 DEF Alloc, AllocS, LocalLive, LocalLiveS, Call, CallS,
         Free, FreeS, LocalDead, LocalDeadDeallocS, LocalDeadNopS, Return,
         ReturnS, AllocFail, CallFail, FailAlloc, InBody
    <3>4. \/ \E ls, vs, kind : AllocBlocks(ls, vs, kind)
          \/ \E lys, kind : FreeBlocks(lys, kind)
          \/ heap' = heap
      BY <2>7 DEF Alloc, AllocS, LocalLive, LocalLiveS, Call, CallS,
         Free, FreeS, LocalDead, LocalDeadDeallocS, LocalDeadNopS, Return,
         ReturnS, AllocFail, CallFail, FailAlloc
    <3>5. /\ \A a \in DOMAIN heap \cap DOMAIN heap' : heap'[a] = heap[a]
          /\ \A a \in DOMAIN heap' \ DOMAIN heap : heap'[a].hc_lock_state = 0
          /\ \A a \in DOMAIN heap \ DOMAIN heap' : heap[a].hc_lock_state = 0
      BY <3>4, AllocLocks, FreeLocks
    <3> QED
      BY <3>1, <3>3, <3>5, BlockStep
  <2> QED
    BY <1>2, <2>2, <2>3, <2>4, <2>5, <2>6, <2>7 DEF ThreadStep
<1> QED
  BY <1>1, <1>2 DEF Next

LEMMA LockAlways == Spec => []LockInv
<1>1. Init => LockInv
  BY InitType, HeapInit, LockInit DEF LockInv, HeapInv
<1>2. LockInv /\ [Next]_vars => LockInv'
  BY NextType, HeapNext, LockNext DEF LockInv, HeapInv
<1> QED
  BY <1>1, <1>2, PTL DEF Spec

\* The lock state of every cell is the number of threads half-way through
\* reading it, or says that exactly one is half-way through writing it.
THEOREM LocksCorrect == Spec => []LockAccounting
<1>1. LockInv => LockAccounting
  BY DEF LockInv
<1> QED
  BY <1>1, LockAlways, PTL

-----------------------------------------------------------------------------
(* What follows from the accounting.                                        *)

\* A second step never gets stuck: the cells it needs are still there, and
\* locked by its own thread.
THEOREM SecondSteps == Spec => []SecondStepNeverStuck
<1>1. Spec => []LockInv
  BY LockAlways
<1>2. LockInv => SecondStepNeverStuck
  <2> SUFFICES ASSUME LockInv, NEW t \in Thread
               PROVE  /\ ctl[t].k = "deref2" =>
                           heap_at(ctl[t].l, ctl[t].n, DerefStart("Na2Ord"), heap)
                      /\ ctl[t].k = "assign2" =>
                           heap_at(ctl[t].l, Len(ctl[t].v), AssignStart("Na2Ord"), heap)
    BY DEF SecondStepNeverStuck
  <2>1. TypeInv /\ LockAccounting /\ AccessOwned /\ ctl[t] \in Redex
    BY DEF LockInv, HeapInv, TypeInv, TypeOK
  <2>2. \A a \in DOMAIN heap :
          /\ Locked(heap[a].hc_lock_state, Readers(a), Writers(a))
          /\ IsFiniteSet(Readers(a)) /\ IsFiniteSet(Writers(a))
    BY <2>1, LockedCells, FiniteAccesses
  <2>3. ASSUME ctl[t].k = "deref2"
        PROVE  heap_at(ctl[t].l, ctl[t].n, DerefStart("Na2Ord"), heap)
    <3>1. ctl[t].l.loc_p \in AllocId \/ (ctl[t].l.loc_p = ProvNone /\ ctl[t].n = 0)
      BY <2>1, <2>3, RedexParts DEF AccessOwned, Loc
    <3>2. ASSUME NEW a \in Span(ctl[t].l.loc_a, ctl[t].n)
          PROVE  /\ a \in DOMAIN heap /\ heap[a].hc_alloc_id = ctl[t].l.loc_p
                 /\ heap[a].hc_lock_state \in Nat \ {0}
      <4>1. a \in ReadSpan(t) /\ t \in Readers(a)
        BY <2>3, <3>2 DEF ReadSpan, read_span, Readers
      <4>2. a \in DOMAIN heap /\ heap[a].hc_alloc_id = ctl[t].l.loc_p
        BY <2>1, <4>1 DEF AccessOwned
      <4> QED
        BY <2>2, <4>1, <4>2, FinishRead
    <3> QED
      BY <3>1, <3>2 DEF heap_at, heap_lookup_loc, DerefStart
  <2>4. ASSUME ctl[t].k = "assign2"
        PROVE  heap_at(ctl[t].l, Len(ctl[t].v), AssignStart("Na2Ord"), heap)
    <3>1. ctl[t].l.loc_p \in AllocId \/ (ctl[t].l.loc_p = ProvNone /\ Len(ctl[t].v) = 0)
      BY <2>1, <2>4, RedexParts DEF AccessOwned, Loc
    <3>2. ASSUME NEW a \in Span(ctl[t].l.loc_a, Len(ctl[t].v))
          PROVE  /\ a \in DOMAIN heap /\ heap[a].hc_alloc_id = ctl[t].l.loc_p
                 /\ heap[a].hc_lock_state = WSt
      <4>1. a \in WriteSpan(t) /\ t \in Writers(a)
        BY <2>4, <3>2 DEF WriteSpan, write_span, Writers
      <4>2. a \in DOMAIN heap /\ heap[a].hc_alloc_id = ctl[t].l.loc_p
        BY <2>1, <4>1 DEF AccessOwned
      <4> QED
        BY <2>2, <4>1, <4>2, FinishWrite
    <3> QED
      BY <3>1, <3>2 DEF heap_at, heap_lookup_loc, AssignStart
  <2> QED
    BY <2>3, <2>4
<1> QED
  BY <1>1, <1>2, PTL

\* An access in progress is in a block that is alive, its pointer's own.
THEOREM NoDangling == Spec => []NoUseAfterFree
<1>1. LockInv => NoUseAfterFree
  BY DEF LockInv, AccessOwned, HeapInv, HeapInvariant, heap_state_invariant,
     heap_cell_in_range_alloc, heap_cell_alloc_alive, NoUseAfterFree
<1> QED
  BY <1>1, LockAlways, PTL

\* The ways a step can change the heap.
LEMMA StepCases ==
  ASSUME TypeInv, NEW t \in Thread, ThreadStep(t)
  PROVE  \/ \E o \in {"ScOrd", "Na1Ord", "Na2Ord"}, l \in Loc, n \in AccessSizes,
               ot \in OpTypes : DerefS(t, o, l, n, ot) /\ HasFrame(t)
         \/ \E o \in {"ScOrd", "Na1Ord", "Na2Ord"}, l \in Loc, v \in Seq(Byte) :
              /\ AssignS(t, o, l, v) /\ HasFrame(t) /\ Len(v) \in AccessSizes
              /\ o = "Na2Ord" => ctl[t] = Assign2(l, v)
         \/ \E l1 \in Loc, l2 \in Loc, n \in AccessSizes :
              \E v3 \in ValOf(n) :
                CasFailS(t, l1, l2, n) \/ CasSucS(t, l1, l2, n, v3)
         \/ \E ls, vs, kind : AllocBlocks(ls, vs, kind)
         \/ \E lys, kind : FreeBlocks(lys, kind)
         \/ UNCHANGED <<heap, allocs>>
<1>1. ctl[t] \in Redex
  BY DEF TypeInv, TypeOK
<1>2. CASE Deref(t) \/ FinishDeref(t)
  BY <1>1, <1>2, BodyHasFrame, RedexParts DEF Deref, FinishDeref, InBody
<1>3. CASE Assign(t)
  <2>1. PICK o \in {"ScOrd", "Na1Ord"}, l \in Loc, n \in AccessSizes :
          \E v \in ValOf(n) : AssignS(t, o, l, v)
    BY <1>3 DEF Assign
  <2>2. PICK v \in ValOf(n) : AssignS(t, o, l, v)
    BY <2>1
  <2>3. v \in Seq(Byte) /\ Len(v) = n
    BY <2>2, LangAssumption DEF ValOf
  <2>4. HasFrame(t)
    BY <1>3, BodyHasFrame DEF Assign, InBody
  <2> QED
    BY <2>2, <2>3, <2>4
<1>4. CASE FinishAssign(t)
  <2>1. /\ ctl[t].l \in Loc /\ ctl[t].v \in Seq(Byte)
        /\ Len(ctl[t].v) \in AccessSizes
    BY <1>1, <1>4, RedexParts DEF FinishAssign
  <2>2. ctl[t] = Assign2(ctl[t].l, ctl[t].v)
    BY <1>1, <1>4 DEF FinishAssign, Redex, InitialProg, Body, AllocFailed,
       Returned, Assign2, Deref2
  <2>3. AssignS(t, "Na2Ord", ctl[t].l, ctl[t].v) /\ HasFrame(t)
    BY <1>1, <1>4, BodyHasFrame DEF FinishAssign
  <2> QED
    BY <2>1, <2>2, <2>3
<1>5. CASE CAS(t)
  <2>1. PICK l1 \in Loc, l2 \in Loc, n \in AccessSizes :
          \/ CasFailS(t, l1, l2, n)
          \/ \E v3 \in ValOf(n) : CasSucS(t, l1, l2, n, v3)
    BY <1>5 DEF CAS
  <2>2. Poison(n) \in ValOf(n)
    BY DEF Poison, ValOf, Byte
  <2> QED
    BY <2>1, <2>2
<1>6. CASE \/ Alloc(t) \/ LocalLive(t) \/ Call(t) \/ Free(t) \/ LocalDead(t)
           \/ Return(t) \/ AllocFail(t) \/ CallFail(t)
  BY <1>6 DEF Alloc, AllocS, LocalLive, LocalLiveS, Call, CallS, Free, FreeS,
     LocalDead, LocalDeadDeallocS, LocalDeadNopS, Return, ReturnS, AllocFail,
     CallFail, FailAlloc
<1> QED
  BY <1>2, <1>3, <1>4, <1>5, <1>6 DEF ThreadStep

\* An identifier is used once: a step adds blocks, or kills some.
THEOREM Identifiers == Spec => IdentifiersUsedOnce
<1>1. ASSUME TypeInv, NEW t \in Thread, ThreadStep(t), NEW aid \in DOMAIN allocs
      PROVE  aid \in DOMAIN allocs' /\ allocs'[aid] \in {allocs[aid], killed(allocs[aid])}
  <2>1. \/ \E ls, vs, kind : AllocBlocks(ls, vs, kind)
        \/ \E lys, kind : FreeBlocks(lys, kind)
        \/ allocs' = allocs
    BY <1>1, StepCases DEF DerefS, AssignS, CasFailS, CasSucS
  <2> QED
    BY <2>1 DEF AllocBlocks, FreeBlocks, alloc_blocks_allocs, free_blocks_allocs
<1>2. TypeInv /\ [Next]_vars =>
        [\A aid \in DOMAIN allocs :
           /\ aid \in DOMAIN allocs'
           /\ allocs'[aid] \in {allocs[aid], killed(allocs[aid])}]_vars
  BY <1>1 DEF Next
<1>3. Spec => []TypeInv
  BY InitType, NextType, PTL DEF Spec
<1> QED
  BY <1>2, <1>3, PTL DEF Spec, IdentifiersUsedOnce

\* The cells of the heap a step may change the bytes of are the ones it
\* writes, which nobody else is accessing.
LEMMA DerefQuiet ==
  ASSUME TypeInv, NEW t, NEW o, NEW l \in Loc, NEW n \in AccessSizes, NEW ot,
         DerefS(t, o, l, n, ot)
  PROVE  \A a \in DOMAIN heap : heap'[a].hc_value = heap[a].hc_value
<1>1. n \in Nat /\ IsHeap(heap)
  BY LangAssumption DEF TypeInv, TypeOK
<1>2. Span(l.loc_a, n) \subseteq DOMAIN heap
  BY DEF DerefS, heap_at, heap_lookup_loc
<1>3. Len(heap_value(l, n, heap)) = n
  BY <1>1, <1>2, ValueType
<1>4. \A a \in Span(l.loc_a, n) :
        heap_value(l, n, heap)[a - l.loc_a + 1] = heap[a].hc_value
  BY <1>1, HeapAssumption DEF heap_value, Span, Loc, Addr
<1>5. heap' = heap_upd(l, heap_value(l, n, heap), DerefEnd(o), heap)
  BY DEF DerefS
<1> QED
  BY <1>3, <1>4, <1>5 DEF heap_upd

LEMMA AssignQuiet ==
  ASSUME LockInv, NEW t \in Thread, NEW o \in {"ScOrd", "Na1Ord", "Na2Ord"},
         NEW l \in Loc, NEW v \in Seq(Byte),
         Len(v) \in AccessSizes, o = "Na2Ord" => ctl[t] = Assign2(l, v),
         AssignS(t, o, l, v),
         NEW s \in Thread, NEW a \in ReadSpan(s) \cup WriteSpan(s),
         heap'[a].hc_value # heap[a].hc_value
  PROVE  a \in WriteSpan(s) /\ ctl'[s] # ctl[s]
<1> DEFINE S == Span(l.loc_a, Len(v))
<1>1. TypeInv /\ LockAccounting /\ AccessOwned /\ Len(v) \in Nat /\ IsHeap(heap)
  BY LangAssumption DEF LockInv, HeapInv, TypeInv, TypeOK
<1>2. a \in DOMAIN heap
  BY <1>1 DEF AccessOwned
<1>3. \A b \in S : b \in DOMAIN heap /\ heap[b].hc_lock_state \in AssignStart(o)
  BY DEF AssignS, heap_at, heap_lookup_loc
<1>4. a \in S /\ o # "Na1Ord"
  <2>1. Len(heap_value(l, Len(v), heap)) = Len(v)
    BY <1>1, <1>3, ValueType
  <2>2. \A b \in S : heap_value(l, Len(v), heap)[b - l.loc_a + 1] = heap[b].hc_value
    BY <1>1, HeapAssumption DEF heap_value, Span, Loc, Addr
  <2>3. CASE o = "Na1Ord"
    <3>1. heap' = heap_upd(l, heap_value(l, Len(v), heap),
                           AssignEnd(o), heap)
      BY <2>3 DEF AssignS
    <3> QED
      BY <1>2, <2>1, <2>2, <3>1 DEF heap_upd
  <2>4. CASE o # "Na1Ord"
    BY <1>2, <2>4 DEF AssignS, heap_upd
  <2> QED
    BY <2>3, <2>4
<1>5. /\ Locked(heap[a].hc_lock_state, Readers(a), Writers(a))
      /\ IsFiniteSet(Readers(a)) /\ IsFiniteSet(Writers(a))
  BY <1>1, <1>2, LockedCells, FiniteAccesses
<1>6. s \in Readers(a) \cup Writers(a)
  BY DEF Readers, Writers
<1>7. o = "Na2Ord"
  <2>1. CASE o = "ScOrd"
    <3>1. heap[a].hc_lock_state = 0
      BY <1>3, <1>4, <2>1 DEF AssignStart, RSt
    <3> QED
      BY <1>5, <1>6, <3>1, NotLocked
  <2> QED
    BY <1>4, <2>1
<1>8. t \in Writers(a)
  BY <1>4, <1>7 DEF Writers, WriteSpan, write_span, Assign2
<1>9. Readers(a) = {} /\ Writers(a) = {t}
  BY <1>5, <1>8, FinishWrite
<1>10. ctl'[t] = Body /\ ctl[t] # Body
  BY <1>1, <1>7 DEF AssignS, TypeInv, TypeOK, Assign2, Body
<1> QED
  BY <1>6, <1>9, <1>10 DEF Writers

LEMMA CasQuiet ==
  ASSUME LockInv, NEW t \in Thread, NEW l1 \in Loc, NEW l2 \in Loc,
         NEW n \in AccessSizes, NEW v3 \in ValOf(n),
         CasFailS(t, l1, l2, n) \/ CasSucS(t, l1, l2, n, v3),
         NEW s \in Thread, NEW a \in ReadSpan(s) \cup WriteSpan(s)
  PROVE  heap'[a].hc_value = heap[a].hc_value
<1>1. TypeInv /\ LockAccounting /\ AccessOwned /\ n \in Nat /\ IsHeap(heap)
  BY LangAssumption DEF LockInv, HeapInv, TypeInv, TypeOK
<1>2. a \in DOMAIN heap
  BY <1>1 DEF AccessOwned
<1>3. heap[a].hc_lock_state # 0
  <2>1. /\ Locked(heap[a].hc_lock_state, Readers(a), Writers(a))
        /\ IsFiniteSet(Readers(a))
    BY <1>1, <1>2, LockedCells, FiniteAccesses
  <2>2. s \in Readers(a) \cup Writers(a)
    BY DEF Readers, Writers
  <2> QED
    BY <2>1, <2>2, NotLocked
<1>4. CASE CasFailS(t, l1, l2, n)
  <2>1. Span(l1.loc_a, n) \subseteq DOMAIN heap
    BY <1>4 DEF CasFailS, heap_at, heap_lookup_loc
  <2>2. Len(heap_value(l1, n, heap)) = n
    BY <1>1, <2>1, ValueType
  <2>3. \A b \in Span(l2.loc_a, n) : heap[b].hc_lock_state = 0
    BY <1>4 DEF CasFailS, heap_at, heap_lookup_loc, RSt
  <2> QED
    BY <1>2, <1>3, <1>4, <2>2, <2>3 DEF CasFailS, heap_upd
<1>5. CASE CasSucS(t, l1, l2, n, v3)
  <2>1. Len(v3) = n
    BY <1>1 DEF ValOf
  <2>2. \A b \in Span(l1.loc_a, n) : heap[b].hc_lock_state = 0
    BY <1>5 DEF CasSucS, heap_at, heap_lookup_loc, RSt
  <2> QED
    BY <1>2, <1>3, <1>5, <2>1, <2>2 DEF CasSucS, heap_upd
<1> QED
  BY <1>4, <1>5

\* No step disturbs an access in progress.
THEOREM Undisturbed == Spec => AccessUndisturbed
<1>1. ASSUME LockInv, NEW t \in Thread, ThreadStep(t),
             NEW s \in Thread, NEW a \in ReadSpan(s) \cup WriteSpan(s)
      PROVE  /\ a \in DOMAIN heap
             /\ a \in DOMAIN heap' /\ heap'[a].hc_alloc_id = heap[a].hc_alloc_id
             /\ heap'[a].hc_value # heap[a].hc_value =>
                  a \in WriteSpan(s) /\ ctl'[s] # ctl[s]
  <2>1. TypeInv /\ LockAccounting /\ AccessOwned /\ a \in DOMAIN heap
    BY <1>1 DEF LockInv, HeapInv, AccessOwned
  <2>2. ASSUME NEW o \in {"ScOrd", "Na1Ord", "Na2Ord"}, NEW l \in Loc,
               NEW n \in AccessSizes, NEW ot \in OpTypes,
               DerefS(t, o, l, n, ot), HasFrame(t)
        PROVE  /\ DOMAIN heap' = DOMAIN heap
               /\ heap'[a].hc_alloc_id = heap[a].hc_alloc_id
               /\ heap'[a].hc_value = heap[a].hc_value
    BY <2>1, <2>2, DerefType, DerefQuiet
  <2>3. ASSUME NEW o \in {"ScOrd", "Na1Ord", "Na2Ord"}, NEW l \in Loc,
               NEW v \in Seq(Byte), AssignS(t, o, l, v), HasFrame(t),
               Len(v) \in AccessSizes, o = "Na2Ord" => ctl[t] = Assign2(l, v)
        PROVE  /\ DOMAIN heap' = DOMAIN heap
               /\ heap'[a].hc_alloc_id = heap[a].hc_alloc_id
               /\ heap'[a].hc_value # heap[a].hc_value =>
                    a \in WriteSpan(s) /\ ctl'[s] # ctl[s]
    BY <1>1, <2>1, <2>3, AssignType, AssignQuiet
  <2>4. ASSUME NEW l1 \in Loc, NEW l2 \in Loc, NEW n \in AccessSizes,
               NEW v3 \in ValOf(n),
               CasFailS(t, l1, l2, n) \/ CasSucS(t, l1, l2, n, v3)
        PROVE  /\ DOMAIN heap' = DOMAIN heap
               /\ heap'[a].hc_alloc_id = heap[a].hc_alloc_id
               /\ heap'[a].hc_value = heap[a].hc_value
    BY <1>1, <2>1, <2>4, CasType, CasQuiet
  <2>5. CASE \/ \E ls, vs, kind : AllocBlocks(ls, vs, kind)
             \/ \E lys, kind : FreeBlocks(lys, kind)
             \/ UNCHANGED <<heap, allocs>>
    <3>1. /\ \A b \in DOMAIN heap \cap DOMAIN heap' : heap'[b] = heap[b]
          /\ \A b \in DOMAIN heap \ DOMAIN heap' : heap[b].hc_lock_state = 0
      BY <2>5, AllocLocks, FreeLocks
    <3>2. /\ Locked(heap[a].hc_lock_state, Readers(a), Writers(a))
          /\ IsFiniteSet(Readers(a))
      BY <2>1, LockedCells, FiniteAccesses
    <3>3. s \in Readers(a) \cup Writers(a)
      BY <1>1 DEF Readers, Writers
    <3>4. a \in DOMAIN heap'
      BY <2>1, <3>1, <3>2, <3>3, NotLocked
    <3> QED
      BY <2>1, <3>1, <3>4
  <2> QED
    BY <1>1, <2>1, <2>2, <2>3, <2>4, <2>5, StepCases
<1>2. LockInv /\ [Next]_vars =>
        [\A t \in Thread : \A a \in ReadSpan(t) \cup WriteSpan(t) :
           /\ a \in DOMAIN heap
           /\ a \in DOMAIN heap' /\ heap'[a].hc_alloc_id = heap[a].hc_alloc_id
           /\ heap'[a].hc_value # heap[a].hc_value =>
                a \in WriteSpan(t) /\ ctl'[t] # ctl[t]]_vars
  BY <1>1 DEF Next
<1> QED
  BY <1>2, LockAlways, PTL DEF Spec, AccessUndisturbed

-----------------------------------------------------------------------------
(* Steps that add locals with blocks of their own, and steps that drop some *)
(* with theirs.  M takes the place of a local after the step to its place   *)
(* before it, as a call and a return shift the frames of a thread.          *)

IdOf(c) == BlockOfLocal(c).l.loc_p

\* The allocation that a local's block is.
StackBlock(b) ==
  [al_start |-> b.l.loc_a, al_len |-> b.ly, al_alive |-> TRUE, al_kind |-> "StackAlloc"]

LEMMA AddLocals ==
  ASSUME StackDiscipline,
         NEW New, New \subseteq Locals', NEW M,
         \A c \in Locals' \ New :
           M[c] \in Locals /\ BlockOfLocal(c)' = BlockOfLocal(M[c]),
         \A c, d \in Locals' \ New : c # d => M[c] # M[d],
         \A d \in Locals : \E c \in Locals' \ New : M[c] = d,
         \A aid \in DOMAIN allocs : aid \in DOMAIN allocs' /\ allocs'[aid] = allocs[aid],
         \A c \in New : /\ IdOf(c)' \in DOMAIN allocs' \ DOMAIN allocs
                        /\ allocs'[IdOf(c)'] = StackBlock(BlockOfLocal(c)'),
         \A c, d \in New : c # d => IdOf(c)' # IdOf(d)',
         \A aid \in DOMAIN allocs' \ DOMAIN allocs :
           allocs'[aid].al_kind = "StackAlloc" => \E c \in New : IdOf(c)' = aid
  PROVE  StackDiscipline'
<1>1. ASSUME NEW c \in Locals'
      PROVE  /\ IdOf(c)' \in DOMAIN allocs'
             /\ allocs'[IdOf(c)'] = StackBlock(BlockOfLocal(c)')
  <2>1. CASE c \in New
    BY <2>1
  <2>2. CASE c \notin New
    <3>1. M[c] \in Locals /\ BlockOfLocal(c)' = BlockOfLocal(M[c])
      BY <2>2
    <3>2. /\ BlockOfLocal(M[c]).l.loc_p \in DOMAIN allocs
          /\ allocs[BlockOfLocal(M[c]).l.loc_p] = StackBlock(BlockOfLocal(M[c]))
      BY <3>1 DEF StackDiscipline, StackBlock
    <3> QED
      BY <3>1, <3>2 DEF IdOf
  <2> QED
    BY <2>1, <2>2
<1>2. ASSUME NEW c \in Locals', c \notin New
      PROVE  IdOf(c)' \in DOMAIN allocs /\ IdOf(c)' = IdOf(M[c])
  <2>1. M[c] \in Locals /\ BlockOfLocal(c)' = BlockOfLocal(M[c])
    BY <1>2
  <2>2. BlockOfLocal(M[c]).l.loc_p \in DOMAIN allocs
    BY <2>1 DEF StackDiscipline
  <2> QED
    BY <2>1, <2>2 DEF IdOf
<1>3. ASSUME NEW c \in Locals', NEW d \in Locals', c # d
      PROVE  IdOf(c)' # IdOf(d)'
  <2>1. CASE c \in New /\ d \in New
    BY <1>3, <2>1
  <2>2. CASE c \notin New /\ d \notin New
    <3>1. M[c] \in Locals /\ M[d] \in Locals /\ M[c] # M[d]
      BY <1>3, <2>2
    <3>2. IdOf(M[c]) # IdOf(M[d])
      BY <3>1 DEF StackDiscipline, IdOf
    <3> QED
      BY <1>2, <2>2, <3>2
  <2>3. CASE (c \in New) # (d \in New)
    BY <1>2, <2>3
  <2> QED
    BY <2>1, <2>2, <2>3
<1>4. ASSUME NEW aid \in DOMAIN allocs', allocs'[aid].al_alive,
             allocs'[aid].al_kind = "StackAlloc"
      PROVE  \E c \in Locals' : IdOf(c)' = aid
  <2>1. CASE aid \notin DOMAIN allocs
    BY <1>4, <2>1
  <2>2. CASE aid \in DOMAIN allocs
    <3>1. PICK d \in Locals : IdOf(d) = aid
      BY <1>4, <2>2 DEF StackDiscipline, IdOf
    <3>2. PICK c \in Locals' \ New : M[c] = d
      OBVIOUS
    <3> QED
      BY <1>2, <3>1, <3>2
  <2> QED
    BY <2>1, <2>2
<1> QED
  BY <1>1, <1>3, <1>4 DEF StackDiscipline, IdOf, StackBlock

LEMMA DropLocals ==
  ASSUME StackDiscipline, IsAllocs(allocs),
         NEW Old, Old \subseteq Locals, NEW M,
         \A c \in Locals' :
           M[c] \in Locals \ Old /\ BlockOfLocal(c)' = BlockOfLocal(M[c]),
         \A c, d \in Locals' : c # d => M[c] # M[d],
         \A d \in Locals \ Old : \E c \in Locals' : M[c] = d,
         DOMAIN allocs' = DOMAIN allocs,
         \A c \in Old : allocs'[IdOf(c)] = killed(allocs[IdOf(c)]),
         \A aid \in DOMAIN allocs :
           \/ allocs'[aid] = allocs[aid]
           \/ /\ allocs'[aid] = killed(allocs[aid])
              /\ allocs[aid].al_kind = "StackAlloc" => \E c \in Old : IdOf(c) = aid
  PROVE  StackDiscipline'
<1>1. \A aid \in DOMAIN allocs : ~killed(allocs[aid]).al_alive
  BY DEF killed, IsAllocs, Allocation
<1>2. ASSUME NEW d \in Locals \ Old
      PROVE  /\ IdOf(d) \in DOMAIN allocs
             /\ allocs[IdOf(d)] = StackBlock(BlockOfLocal(d))
             /\ allocs'[IdOf(d)] = StackBlock(BlockOfLocal(d))
  <2>1. IdOf(d) \in DOMAIN allocs /\ allocs[IdOf(d)] = StackBlock(BlockOfLocal(d))
    BY DEF StackDiscipline, IdOf, StackBlock
  <2>2. ~ \E c \in Old : IdOf(c) = IdOf(d)
    BY DEF StackDiscipline, IdOf
  <2> QED
    BY <2>1, <2>2 DEF StackBlock
<1>3. ASSUME NEW c \in Locals'
      PROVE  /\ IdOf(c)' = IdOf(M[c])
             /\ IdOf(c)' \in DOMAIN allocs'
             /\ allocs'[IdOf(c)'] = StackBlock(BlockOfLocal(c)')
  <2>1. M[c] \in Locals \ Old /\ BlockOfLocal(c)' = BlockOfLocal(M[c])
    OBVIOUS
  <2> QED
    BY <1>2, <2>1 DEF IdOf
<1>4. ASSUME NEW c \in Locals', NEW d \in Locals', c # d
      PROVE  IdOf(c)' # IdOf(d)'
  <2>1. M[c] \in Locals /\ M[d] \in Locals /\ M[c] # M[d]
    BY <1>4
  <2>2. IdOf(M[c]) # IdOf(M[d])
    BY <2>1 DEF StackDiscipline, IdOf
  <2> QED
    BY <1>3, <2>2
<1>5. ASSUME NEW aid \in DOMAIN allocs', allocs'[aid].al_alive,
             allocs'[aid].al_kind = "StackAlloc"
      PROVE  \E c \in Locals' : IdOf(c)' = aid
  <2>1. aid \in DOMAIN allocs /\ allocs'[aid] = allocs[aid]
    BY <1>1, <1>5
  <2>2. PICK d \in Locals : IdOf(d) = aid
    BY <1>5, <2>1 DEF StackDiscipline, IdOf
  <2>3. d \notin Old
    BY <1>1, <1>5, <2>1, <2>2
  <2>4. PICK c \in Locals' : M[c] = d
    BY <2>3
  <2> QED
    BY <1>3, <2>2, <2>4
<1> QED
  BY <1>3, <1>4, <1>5 DEF StackDiscipline, IdOf, StackBlock

-----------------------------------------------------------------------------
(* Where frames are after a call, a return and a change of the innermost.   *)

LEMMA FrameIndices ==
  ASSUME NEW fs \in Seq(CallFrame), NEW cf \in CallFrame
  PROVE  /\ Len(push_frame(fs, cf)) = Len(fs) + 1
         /\ push_frame(fs, cf)[1] = cf
         /\ \A i \in 1 .. Len(fs) : push_frame(fs, cf)[i + 1] = fs[i]
         /\ fs # <<>> =>
              /\ Head(fs) = fs[1]
              /\ Len(pop_frame(fs)) = Len(fs) - 1
              /\ \A i \in 1 .. Len(fs) - 1 : pop_frame(fs)[i] = fs[i + 1]
              /\ Len(update_frame(fs, cf)) = Len(fs)
              /\ update_frame(fs, cf)[1] = cf
              /\ \A i \in 2 .. Len(fs) : update_frame(fs, cf)[i] = fs[i]
<1>1. ASSUME NEW gs \in Seq(CallFrame)
      PROVE  /\ Len(<<cf>> \o gs) = Len(gs) + 1
             /\ (<<cf>> \o gs)[1] = cf
             /\ \A i \in 1 .. Len(gs) : (<<cf>> \o gs)[i + 1] = gs[i]
  OBVIOUS
<1>2. ASSUME fs # <<>>
      PROVE  /\ Head(fs) = fs[1] /\ Tail(fs) \in Seq(CallFrame)
             /\ Len(fs) \in Nat \ {0} /\ Len(Tail(fs)) = Len(fs) - 1
             /\ \A i \in 1 .. Len(fs) - 1 : Tail(fs)[i] = fs[i + 1]
  BY <1>2, HeadTailProperties, EmptySeq, LenProperties
<1>3. ASSUME fs # <<>>, NEW i \in 2 .. Len(fs)
      PROVE  (<<cf>> \o Tail(fs))[i] = fs[i]
  <2>1. i - 1 \in 1 .. Len(Tail(fs)) /\ i - 1 \in 1 .. Len(fs) - 1
    BY <1>2, <1>3
  <2>2. (<<cf>> \o Tail(fs))[(i - 1) + 1] = Tail(fs)[i - 1]
    BY <1>1, <1>2, <1>3, <2>1
  <2>3. Tail(fs)[i - 1] = fs[(i - 1) + 1]
    BY <1>2, <1>3, <2>1
  <2> QED
    BY <2>2, <2>3
<1>4. fs # <<>> => /\ Len(<<cf>> \o Tail(fs)) = Len(fs)
                   /\ (<<cf>> \o Tail(fs))[1] = cf
  BY <1>1, <1>2
<1> QED
  BY <1>1, <1>2, <1>3, <1>4 DEF push_frame, pop_frame, update_frame

-----------------------------------------------------------------------------
(* The invariant: as the set of locals is the one of MaxFrames frames, no   *)
(* thread has more.                                                         *)
Bounded  == \A t \in Thread : Len(frames[t]) <= MaxFrames
StackInv == HeapInv /\ StackDiscipline /\ Bounded

\* The locals of all threads, without the bound on frames.
LEMMA LocalsAre ==
  TypeInv /\ Bounded =>
    \A u \in Thread, i \in Nat, x \in Var :
      <<u, i, x>> \in Locals <=>
        i \in 1 .. Len(frames[u]) /\ frames[u][i][x] # None
<1> SUFFICES ASSUME TypeInv, Bounded
             PROVE  \A u \in Thread, i \in Nat, x \in Var :
                      <<u, i, x>> \in Locals <=>
                        i \in 1 .. Len(frames[u]) /\ frames[u][i][x] # None
  OBVIOUS
<1>1. ASSUME NEW u \in Thread
      PROVE  /\ frames[u] \in Seq(CallFrame) /\ Len(frames[u]) \in Nat
             /\ DOMAIN frames[u] = 1 .. Len(frames[u])
             /\ Len(frames[u]) <= MaxFrames
  BY LenProperties DEF TypeInv, TypeOK, Bounded
<1> QED
  BY <1>1, LangAssumption DEF Locals, live

LEMMA LocalsAfter ==
  (TypeInv /\ Bounded)' =>
    \A u \in Thread, i \in Nat, x \in Var :
      <<u, i, x>> \in Locals' <=>
        i \in 1 .. Len(frames'[u]) /\ frames'[u][i][x] # None
<1>1. (TypeInv /\ Bounded =>
        \A u \in Thread, i \in Nat, x \in Var :
          <<u, i, x>> \in Locals <=>
            i \in 1 .. Len(frames[u]) /\ frames[u][i][x] # None)'
  BY LocalsAre, PTL
<1> QED
  BY <1>1

\* A step that gives thread t the frames fs.
LEMMA FrameChange ==
  ASSUME TypeInv, Bounded, TypeInv', NEW t \in Thread,
         NEW fs \in Seq(CallFrame), Len(fs) <= MaxFrames,
         frames' = [frames EXCEPT ![t] = fs]
  PROVE  /\ Bounded'
         /\ \A u \in Thread, i \in Nat, x \in Var :
              /\ <<u, i, x>> \in Locals' <=>
                   IF u = t THEN i \in 1 .. Len(fs) /\ fs[i][x] # None
                   ELSE <<u, i, x>> \in Locals
              /\ BlockOfLocal(<<u, i, x>>)' =
                   IF u = t THEN fs[i][x] ELSE BlockOfLocal(<<u, i, x>>)
<1>1. \A u \in Thread : frames'[u] = IF u = t THEN fs ELSE frames[u]
  BY DEF TypeInv, TypeOK
<1>2. Bounded'
  BY <1>1 DEF Bounded
<1>3. \A u \in Thread, i \in Nat, x \in Var :
        <<u, i, x>> \in Locals' <=>
          IF u = t THEN i \in 1 .. Len(fs) /\ fs[i][x] # None
          ELSE <<u, i, x>> \in Locals
  <2> SUFFICES ASSUME NEW u \in Thread, NEW i \in Nat, NEW x \in Var
               PROVE  <<u, i, x>> \in Locals' <=>
                        IF u = t THEN i \in 1 .. Len(fs) /\ fs[i][x] # None
                        ELSE <<u, i, x>> \in Locals
    OBVIOUS
  <2>1. <<u, i, x>> \in Locals' <=>
          i \in 1 .. Len(frames'[u]) /\ frames'[u][i][x] # None
    BY <1>2, LocalsAfter
  <2>2. <<u, i, x>> \in Locals <=>
          i \in 1 .. Len(frames[u]) /\ frames[u][i][x] # None
    BY LocalsAre
  <2> QED
    BY <1>1, <2>1, <2>2
<1>4. \A u \in Thread, i \in Nat, x \in Var :
        BlockOfLocal(<<u, i, x>>)' =
          IF u = t THEN fs[i][x] ELSE BlockOfLocal(<<u, i, x>>)
  BY <1>1 DEF BlockOfLocal
<1> QED
  BY <1>2, <1>3, <1>4

LEMMA LocalsShape ==
  \A c \in Locals : \E u \in Thread, i \in 1 .. MaxFrames, x \in Var : c = <<u, i, x>>
BY DEF Locals

LEMMA LocalsShapeAfter ==
  \A c \in Locals' : \E u \in Thread, i \in 1 .. MaxFrames, x \in Var : c = <<u, i, x>>
BY DEF Locals

-----------------------------------------------------------------------------
(* What allocating and freeing blocks does to the allocation table.         *)

LEMMA AllocParts ==
  ASSUME NEW ls, NEW vs, NEW kind, AllocBlocks(ls, vs, kind)
  PROVE  /\ \A aid \in DOMAIN allocs :
              aid \in DOMAIN allocs' /\ allocs'[aid] = allocs[aid]
         /\ \A x \in DOMAIN ls :
              /\ ls[x].loc_p \in DOMAIN allocs' \ DOMAIN allocs
              /\ ls[x].loc_p \in AllocId
              /\ allocs'[ls[x].loc_p] =
                   [al_start |-> ls[x].loc_a, al_len |-> Len(vs[x]),
                    al_alive |-> TRUE, al_kind |-> kind]
         /\ \A aid \in DOMAIN allocs' \ DOMAIN allocs :
              \E x \in DOMAIN ls : ls[x].loc_p = aid
         /\ \A x, y \in DOMAIN ls : x # y => ls[x].loc_p # ls[y].loc_p
<1>1. can_alloc_blocks(ls, vs, heap, allocs)
  BY DEF AllocBlocks
<1>2. allocs' = alloc_blocks_allocs(ls, vs, kind, allocs)
  BY DEF AllocBlocks
<1>3. \A x \in DOMAIN ls : ls[x].loc_p \in AllocId \ DOMAIN allocs
  BY <1>1 DEF can_alloc_blocks
<1>4. \A x, y \in DOMAIN ls : x # y => ls[x].loc_p # ls[y].loc_p
  BY <1>1 DEF can_alloc_blocks
<1>5. DOMAIN allocs' = DOMAIN allocs \cup {ls[x].loc_p : x \in DOMAIN ls}
  BY <1>2 DEF alloc_blocks_allocs
<1>6. \A aid \in DOMAIN allocs : allocs'[aid] = allocs[aid]
  BY <1>2 DEF alloc_blocks_allocs
<1>7. ASSUME NEW x \in DOMAIN ls
      PROVE  allocs'[ls[x].loc_p] =
               [al_start |-> ls[x].loc_a, al_len |-> Len(vs[x]),
                al_alive |-> TRUE, al_kind |-> kind]
  <2> DEFINE aid == ls[x].loc_p
  <2>1. BlockOf(ls, aid) = x
    BY <1>4 DEF BlockOf
  <2>2. aid \in DOMAIN allocs' /\ aid \notin DOMAIN allocs
    BY <1>3, <1>5
  <2>3. allocs'[aid] =
          LET y == BlockOf(ls, aid)
          IN  [al_start |-> ls[y].loc_a, al_len |-> Len(vs[y]),
               al_alive |-> TRUE, al_kind |-> kind]
    BY <1>2, <1>5, <2>2 DEF alloc_blocks_allocs
  <2> QED
    BY <2>1, <2>3
<1> QED
  BY <1>3, <1>4, <1>5, <1>6, <1>7

LEMMA FreeParts ==
  ASSUME NEW lys, NEW kind, FreeBlocks(lys, kind)
  PROVE  /\ DOMAIN allocs' = DOMAIN allocs
         /\ \A x \in DOMAIN lys :
              /\ lys[x].l.loc_p \in DOMAIN allocs
              /\ allocs[lys[x].l.loc_p] =
                   [al_start |-> lys[x].l.loc_a, al_len |-> lys[x].ly,
                    al_alive |-> TRUE, al_kind |-> kind]
         /\ \A x \in DOMAIN lys :
              allocs'[lys[x].l.loc_p] = killed(allocs[lys[x].l.loc_p])
         /\ \A aid \in DOMAIN allocs :
              \/ allocs'[aid] = allocs[aid]
              \/ /\ allocs'[aid] = killed(allocs[aid])
                 /\ allocs[aid].al_kind = kind
                 /\ \E x \in DOMAIN lys : lys[x].l.loc_p = aid
<1>1. can_free_blocks(lys, kind, heap, allocs)
  BY DEF FreeBlocks
<1>2. allocs' = free_blocks_allocs(lys, allocs)
  BY DEF FreeBlocks
<1>3. \A x \in DOMAIN lys :
        /\ lys[x].l.loc_p \in DOMAIN allocs
        /\ allocs[lys[x].l.loc_p] =
             [al_start |-> lys[x].l.loc_a, al_len |-> lys[x].ly,
              al_alive |-> TRUE, al_kind |-> kind]
  BY <1>1 DEF can_free_blocks
<1>4. \A aid \in DOMAIN allocs :
        allocs'[aid] = IF \E x \in DOMAIN lys : lys[x].l.loc_p = aid
                       THEN killed(allocs[aid]) ELSE allocs[aid]
  BY <1>2 DEF free_blocks_allocs
<1>5. DOMAIN allocs' = DOMAIN allocs
  BY <1>2 DEF free_blocks_allocs
<1>6. ASSUME NEW aid \in DOMAIN allocs, allocs'[aid] # allocs[aid]
      PROVE  /\ allocs'[aid] = killed(allocs[aid])
             /\ allocs[aid].al_kind = kind
             /\ \E x \in DOMAIN lys : lys[x].l.loc_p = aid
  <2>1. \E x \in DOMAIN lys : lys[x].l.loc_p = aid
    BY <1>4, <1>6
  <2>2. PICK x \in DOMAIN lys : lys[x].l.loc_p = aid
    BY <2>1
  <2>3. allocs[aid] = [al_start |-> lys[x].l.loc_a, al_len |-> lys[x].ly,
                       al_alive |-> TRUE, al_kind |-> kind]
    BY <1>3, <2>2
  <2>4. allocs[aid].al_kind = kind
    BY <2>3
  <2>5. allocs'[aid] = killed(allocs[aid])
    BY <1>4, <2>1
  <2> QED
    BY <2>1, <2>4, <2>5
<1> QED
  BY <1>3, <1>4, <1>5, <1>6

-----------------------------------------------------------------------------
(* The steps that change the locals. *)

LEMMA LocalLiveStack ==
  ASSUME StackInv, TypeInv', NEW t \in Thread, InBody(t),
         NEW x \in Var, NEW l \in Loc, NEW n \in BlockSizes,
         LocalLiveS(t, x, l, n)
  PROVE  StackDiscipline' /\ Bounded'
<1> DEFINE b  == [l |-> l, ly |-> n]
           cf == [Frame(t) EXCEPT ![x] = b]
           c0 == <<t, 1, x>>
<1>1. TypeInv /\ Bounded /\ StackDiscipline /\ frames[t] \in Seq(CallFrame) /\ frames[t] # <<>>
  BY BodyHasFrame DEF StackInv, HeapInv, InBody, HasFrame
<1>2. Frame(t) \in CallFrame /\ n \in Nat /\ b \in Local /\ b # None
  BY <1>1, FramesType, LangAssumption DEF Frame, Local
<1>3. cf \in CallFrame
  BY <1>2 DEF CallFrame
<1> DEFINE fs == update_frame(frames[t], cf)
<1>4. frames' = [frames EXCEPT ![t] = fs]
  BY DEF LocalLiveS
<1>5. /\ Len(fs) = Len(frames[t]) /\ fs[1] = cf /\ Frame(t) = frames[t][1]
      /\ \A i \in 2 .. Len(frames[t]) : fs[i] = frames[t][i]
      /\ Len(frames[t]) \in Nat \ {0} /\ fs \in Seq(CallFrame)
  <2>1. fs \in Seq(CallFrame)
    BY <1>1, <1>3, FramesType
  <2>2. Len(frames[t]) \in Nat \ {0}
    BY <1>1, EmptySeq, LenProperties
  <2> HIDE DEF cf
  <2> QED
    BY <1>1, <1>3, <2>1, <2>2, FrameIndices DEF Frame
<1>6. Len(frames[t]) <= MaxFrames
  BY <1>1 DEF Bounded
<1>7. \A y \in Var : cf[y] = IF y = x THEN b ELSE frames[t][1][y]
  BY <1>2, <1>5 DEF CallFrame
<1> HIDE DEF cf, fs, b
<1>8. /\ Bounded'
      /\ \A u \in Thread, i \in Nat, y \in Var :
           /\ <<u, i, y>> \in Locals' <=>
                IF u = t THEN i \in 1 .. Len(fs) /\ fs[i][y] # None
                ELSE <<u, i, y>> \in Locals
           /\ BlockOfLocal(<<u, i, y>>)' =
                IF u = t THEN fs[i][y] ELSE BlockOfLocal(<<u, i, y>>)
  BY <1>1, <1>4, <1>5, <1>6, FrameChange
<1>9. \A u \in Thread, i \in Nat, y \in Var :
        /\ <<u, i, y>> \in Locals' <=>
             <<u, i, y>> \in Locals \/ (u = t /\ i = 1 /\ y = x)
        /\ <<u, i, y>> \in Locals =>
             /\ BlockOfLocal(<<u, i, y>>)' = BlockOfLocal(<<u, i, y>>)
             /\ ~(u = t /\ i = 1 /\ y = x)
  <2> SUFFICES ASSUME NEW u \in Thread, NEW i \in Nat, NEW y \in Var
               PROVE  /\ <<u, i, y>> \in Locals' <=>
                           <<u, i, y>> \in Locals \/ (u = t /\ i = 1 /\ y = x)
                      /\ <<u, i, y>> \in Locals =>
                           /\ BlockOfLocal(<<u, i, y>>)' = BlockOfLocal(<<u, i, y>>)
                           /\ ~(u = t /\ i = 1 /\ y = x)
    OBVIOUS
  <2>1. CASE u # t
    BY <1>8, <2>1
  <2>2. CASE u = t
    <3>1. <<u, i, y>> \in Locals <=> i \in 1 .. Len(frames[t]) /\ frames[t][i][y] # None
      BY <1>1, <2>2, LocalsAre
    <3>2. <<u, i, y>> \in Locals' <=> i \in 1 .. Len(fs) /\ fs[i][y] # None
      BY <1>8, <2>2
    <3>3. BlockOfLocal(<<u, i, y>>)' = fs[i][y] /\ BlockOfLocal(<<u, i, y>>) = frames[t][i][y]
      BY <1>8, <2>2 DEF BlockOfLocal
    <3>4. frames[t][1][x] = None
      BY <1>5 DEF LocalLiveS
    <3>5. CASE i = 1
      BY <1>2, <1>5, <1>7, <2>2, <3>1, <3>2, <3>3, <3>4, <3>5
    <3>6. CASE i # 1
      BY <1>5, <2>2, <3>1, <3>2, <3>3, <3>6
    <3> QED
      BY <3>5, <3>6
  <2> QED
    BY <2>1, <2>2
<1> DEFINE New == {c0}
           M   == [c \in Locals' |-> c]
<1>10. c0 \in Locals' /\ c0 \notin Locals /\ BlockOfLocal(c0)' = b
  BY <1>2, <1>5, <1>7, <1>8, <1>9
<1>11. Locals' = Locals \cup New
  BY <1>9, <1>10, LocalsShape, LocalsShapeAfter, LangAssumption
<1>12. /\ \A c \in Locals' \ New : M[c] \in Locals /\ BlockOfLocal(c)' = BlockOfLocal(M[c])
       /\ \A c, d \in Locals' \ New : c # d => M[c] # M[d]
       /\ \A d \in Locals : \E c \in Locals' \ New : M[c] = d
  <2>1. Locals' \ New = Locals
    BY <1>10, <1>11
  <2>2. \A c \in Locals : M[c] = c
    BY <1>11
  <2>3. \A c \in Locals : BlockOfLocal(c)' = BlockOfLocal(c)
    BY <1>9, LocalsShape, LangAssumption
  <2> HIDE DEF M, New
  <2> QED BY <2>1, <2>2, <2>3
<1>13. /\ \A aid \in DOMAIN allocs : aid \in DOMAIN allocs' /\ allocs'[aid] = allocs[aid]
       /\ l.loc_p \in DOMAIN allocs' \ DOMAIN allocs
       /\ allocs'[l.loc_p] = StackBlock(b)
       /\ \A aid \in DOMAIN allocs' \ DOMAIN allocs : aid = l.loc_p
  <2>1. AllocBlocks(One(l), One(Poison(n)), "StackAlloc")
    BY DEF LocalLiveS
  <2>2. Len(Poison(n)) = n
    BY <1>2 DEF Poison
  <2> QED
    BY <2>1, <2>2, AllocParts DEF One, StackBlock, b
<1>14. IdOf(c0)' = l.loc_p
  BY <1>10 DEF IdOf, b
<1>15. /\ New \subseteq Locals'
       /\ \A c \in New : /\ IdOf(c)' \in DOMAIN allocs' \ DOMAIN allocs
                         /\ allocs'[IdOf(c)'] = StackBlock(BlockOfLocal(c)')
       /\ \A c, d \in New : c # d => IdOf(c)' # IdOf(d)'
       /\ \A aid \in DOMAIN allocs' \ DOMAIN allocs :
            allocs'[aid].al_kind = "StackAlloc" => \E c \in New : IdOf(c)' = aid
  BY <1>10, <1>13, <1>14
<1> HIDE DEF New, M
<1>16. StackDiscipline'
  BY <1>1, <1>12, <1>13, <1>15, AddLocals
<1> QED
  BY <1>8, <1>16

LEMMA LocalDeadStack ==
  ASSUME StackInv, TypeInv', NEW t \in Thread, InBody(t),
         NEW x \in Var, LocalDeadDeallocS(t, x)
  PROVE  StackDiscipline' /\ Bounded'
<1> DEFINE cf == [Frame(t) EXCEPT ![x] = None]
           fs == update_frame(frames[t], cf)
           c0 == <<t, 1, x>>
           Old == {c0}
           M   == [c \in Locals' |-> c]
<1>1. /\ TypeInv /\ Bounded /\ StackDiscipline /\ IsAllocs(allocs)
      /\ frames[t] \in Seq(CallFrame) /\ frames[t] # <<>>
  BY BodyHasFrame DEF StackInv, HeapInv, InBody, HasFrame, TypeInv, TypeOK
<1>2. Frame(t) \in CallFrame
  BY <1>1, FramesType DEF Frame
<1>3. cf \in CallFrame
  BY <1>2 DEF CallFrame
<1>4. frames' = [frames EXCEPT ![t] = fs]
  BY DEF LocalDeadDeallocS
<1>5. /\ Len(fs) = Len(frames[t]) /\ fs[1] = cf /\ Frame(t) = frames[t][1]
      /\ \A i \in 2 .. Len(frames[t]) : fs[i] = frames[t][i]
      /\ Len(frames[t]) \in Nat \ {0} /\ fs \in Seq(CallFrame)
  <2>1. fs \in Seq(CallFrame)
    BY <1>1, <1>3, FramesType
  <2>2. Len(frames[t]) \in Nat \ {0}
    BY <1>1, EmptySeq, LenProperties
  <2> HIDE DEF cf
  <2> QED
    BY <1>1, <1>3, <2>1, <2>2, FrameIndices DEF Frame
<1>6. Len(frames[t]) <= MaxFrames
  BY <1>1 DEF Bounded
<1>7. \A y \in Var : cf[y] = IF y = x THEN None ELSE frames[t][1][y]
  BY <1>2, <1>5 DEF CallFrame
<1>8. frames[t][1][x] # None
  BY <1>5 DEF LocalDeadDeallocS
<1> HIDE DEF cf, fs
<1>9. /\ Bounded'
      /\ \A u \in Thread, i \in Nat, y \in Var :
           /\ <<u, i, y>> \in Locals' <=>
                IF u = t THEN i \in 1 .. Len(fs) /\ fs[i][y] # None
                ELSE <<u, i, y>> \in Locals
           /\ BlockOfLocal(<<u, i, y>>)' =
                IF u = t THEN fs[i][y] ELSE BlockOfLocal(<<u, i, y>>)
  BY <1>1, <1>4, <1>5, <1>6, FrameChange
<1>10. \A u \in Thread, i \in Nat, y \in Var :
         /\ <<u, i, y>> \in Locals' <=>
              <<u, i, y>> \in Locals /\ ~(u = t /\ i = 1 /\ y = x)
         /\ <<u, i, y>> \in Locals' =>
              BlockOfLocal(<<u, i, y>>)' = BlockOfLocal(<<u, i, y>>)
  <2> SUFFICES ASSUME NEW u \in Thread, NEW i \in Nat, NEW y \in Var
               PROVE  /\ <<u, i, y>> \in Locals' <=>
                           <<u, i, y>> \in Locals /\ ~(u = t /\ i = 1 /\ y = x)
                      /\ <<u, i, y>> \in Locals' =>
                           BlockOfLocal(<<u, i, y>>)' = BlockOfLocal(<<u, i, y>>)
    OBVIOUS
  <2>1. CASE u # t
    BY <1>9, <2>1
  <2>2. CASE u = t
    <3>1. <<u, i, y>> \in Locals <=> i \in 1 .. Len(frames[t]) /\ frames[t][i][y] # None
      BY <1>1, <2>2, LocalsAre
    <3>2. <<u, i, y>> \in Locals' <=> i \in 1 .. Len(fs) /\ fs[i][y] # None
      BY <1>9, <2>2
    <3>3. BlockOfLocal(<<u, i, y>>)' = fs[i][y] /\ BlockOfLocal(<<u, i, y>>) = frames[t][i][y]
      BY <1>9, <2>2 DEF BlockOfLocal
    <3>4. CASE i = 1
      BY <1>5, <1>7, <2>2, <3>1, <3>2, <3>3, <3>4
    <3>5. CASE i # 1
      BY <1>5, <2>2, <3>1, <3>2, <3>3, <3>5
    <3> QED
      BY <3>4, <3>5
  <2> QED
    BY <2>1, <2>2
<1>11. c0 \in Locals /\ BlockOfLocal(c0) = Frame(t)[x]
  BY <1>1, <1>5, <1>8, LocalsAre DEF BlockOfLocal
<1>12. /\ \A c \in Locals' : M[c] \in Locals \ Old /\ BlockOfLocal(c)' = BlockOfLocal(M[c])
       /\ \A c, d \in Locals' : c # d => M[c] # M[d]
       /\ \A d \in Locals \ Old : \E c \in Locals' : M[c] = d
  BY <1>10, LocalsShape, LocalsShapeAfter, LangAssumption
<1>13. /\ Old \subseteq Locals
       /\ DOMAIN allocs' = DOMAIN allocs
       /\ \A c \in Old : allocs'[IdOf(c)] = killed(allocs[IdOf(c)])
       /\ \A aid \in DOMAIN allocs :
            \/ allocs'[aid] = allocs[aid]
            \/ /\ allocs'[aid] = killed(allocs[aid])
               /\ allocs[aid].al_kind = "StackAlloc" => \E c \in Old : IdOf(c) = aid
  <2>1. FreeBlocks(One(Frame(t)[x]), "StackAlloc")
    BY DEF LocalDeadDeallocS
  <2>3. PICK lys : lys = One(Frame(t)[x])
    OBVIOUS
  <2>2. DOMAIN lys = {"block"} /\ lys["block"] = BlockOfLocal(c0)
    BY <1>11, <2>3 DEF One
  <2>4. FreeBlocks(lys, "StackAlloc")
    BY <2>1, <2>3
  <2>7. DOMAIN allocs' = DOMAIN allocs
    BY <2>4, FreeParts
  <2>8. \A y \in DOMAIN lys :
             allocs'[lys[y].l.loc_p] = killed(allocs[lys[y].l.loc_p])
    BY <2>4, FreeParts
  <2>9. \A aid \in DOMAIN allocs :
             \/ allocs'[aid] = allocs[aid]
             \/ /\ allocs'[aid] = killed(allocs[aid])
                /\ allocs[aid].al_kind = "StackAlloc"
                /\ \E y \in DOMAIN lys : lys[y].l.loc_p = aid
    BY <2>4, FreeParts
  <2>5. /\ DOMAIN allocs' = DOMAIN allocs
        /\ \A y \in DOMAIN lys :
             allocs'[lys[y].l.loc_p] = killed(allocs[lys[y].l.loc_p])
        /\ \A aid \in DOMAIN allocs :
             \/ allocs'[aid] = allocs[aid]
             \/ /\ allocs'[aid] = killed(allocs[aid])
                /\ \E y \in DOMAIN lys : lys[y].l.loc_p = aid
    BY <2>7, <2>8, <2>9
  <2>6. /\ DOMAIN allocs' = DOMAIN allocs
        /\ allocs'[lys["block"].l.loc_p] = killed(allocs[lys["block"].l.loc_p])
        /\ \A aid \in DOMAIN allocs :
             \/ allocs'[aid] = allocs[aid]
             \/ /\ allocs'[aid] = killed(allocs[aid])
                /\ lys["block"].l.loc_p = aid
    BY <2>2, <2>5
  <2> QED
    BY <1>11, <2>2, <2>6 DEF IdOf
<1> HIDE DEF Old, M
<1>14. StackDiscipline'
  BY <1>1, <1>12, <1>13, DropLocals
<1> QED
  BY <1>9, <1>14

\* A call: the frames of the thread move up by one.
LEMMA CallStack ==
  ASSUME StackInv, TypeInv', NEW t \in Thread, Call(t)
  PROVE  StackDiscipline' /\ Bounded'
<1>1. PICK f \in Functions : \E ls \in [DOMAIN f -> Loc] :
        \E vs \in [DOMAIN f -> Seq(Byte)] : CallS(t, f, ls, vs)
  BY CallParts
<1>2. PICK ls \in [DOMAIN f -> Loc], vs \in [DOMAIN f -> Seq(Byte)] :
        CallS(t, f, ls, vs)
  BY <1>1
<1>3. f \in [DOMAIN f -> Nat] /\ DOMAIN f \subseteq Var
  BY LangAssumption
<1> DEFINE cf == [x \in Var |-> IF x \in DOMAIN f
                                THEN [l |-> ls[x], ly |-> f[x]] ELSE None]
           fs == push_frame(frames[t], cf)
           New == {<<t, 1, x>> : x \in DOMAIN f}
           M   == [c \in Locals' |-> IF c[1] = t THEN <<t, c[2] - 1, c[3]>> ELSE c]
<1>4. /\ TypeInv /\ Bounded /\ StackDiscipline
      /\ frames[t] \in Seq(CallFrame) /\ Len(frames[t]) \in Nat /\ Len(frames[t]) < MaxFrames
  BY LenProperties DEF StackInv, HeapInv, TypeInv, TypeOK, Call
<1>5. cf \in CallFrame
  BY <1>3 DEF CallFrame, Local
<1>8. \A x \in Var : /\ cf[x] # None <=> x \in DOMAIN f
                     /\ x \in DOMAIN f => cf[x] = [l |-> ls[x], ly |-> f[x]]
  BY <1>3, LangAssumption
<1>7. frames' = [frames EXCEPT ![t] = fs]
  BY <1>2 DEF CallS
<1> HIDE DEF cf
<1>6. /\ Len(fs) = Len(frames[t]) + 1 /\ fs[1] = cf /\ fs \in Seq(CallFrame)
      /\ \A i \in 1 .. Len(frames[t]) : fs[i + 1] = frames[t][i]
  <2>1. fs \in Seq(CallFrame)
    BY <1>4, <1>5, FramesType
  <2> QED
    BY <1>4, <1>5, <2>1, FrameIndices
<1> HIDE DEF fs
<1>9. Len(fs) <= MaxFrames
  BY <1>4, <1>6, LangAssumption
<1>10. /\ Bounded'
       /\ \A u \in Thread, i \in Nat, y \in Var :
            /\ <<u, i, y>> \in Locals' <=>
                 IF u = t THEN i \in 1 .. Len(fs) /\ fs[i][y] # None
                 ELSE <<u, i, y>> \in Locals
            /\ BlockOfLocal(<<u, i, y>>)' =
                 IF u = t THEN fs[i][y] ELSE BlockOfLocal(<<u, i, y>>)
  BY <1>4, <1>6, <1>7, <1>9, FrameChange
<1>11. ASSUME NEW i \in Nat, NEW y \in Var
       PROVE  /\ <<t, i, y>> \in Locals' <=>
                   \/ i = 1 /\ y \in DOMAIN f
                   \/ i > 1 /\ <<t, i - 1, y>> \in Locals
              /\ i = 1 /\ y \in DOMAIN f =>
                   BlockOfLocal(<<t, i, y>>)' = [l |-> ls[y], ly |-> f[y]]
              /\ i > 1 /\ <<t, i - 1, y>> \in Locals =>
                   BlockOfLocal(<<t, i, y>>)' = BlockOfLocal(<<t, i - 1, y>>)
  <2>1. /\ <<t, i, y>> \in Locals' <=> i \in 1 .. Len(fs) /\ fs[i][y] # None
        /\ BlockOfLocal(<<t, i, y>>)' = fs[i][y]
    BY <1>10
  <2>2. CASE i <= 1
    BY <1>4, <1>6, <1>8, <2>1, <2>2
  <2>3. CASE i > 1
    <3>1. i - 1 \in Nat
      BY <2>3
    <3>2. <<t, i - 1, y>> \in Locals <=>
            i - 1 \in 1 .. Len(frames[t]) /\ frames[t][i - 1][y] # None
      BY <1>4, <3>1, LocalsAre
    <3>3. BlockOfLocal(<<t, i - 1, y>>) = frames[t][i - 1][y]
      BY DEF BlockOfLocal
    <3>4. i \in 1 .. Len(fs) <=> i - 1 \in 1 .. Len(frames[t])
      BY <1>4, <1>6, <2>3
    <3>5. i - 1 \in 1 .. Len(frames[t]) => fs[(i - 1) + 1] = frames[t][i - 1]
      BY <1>6
    <3> QED
      BY <2>1, <2>3, <3>2, <3>3, <3>4, <3>5
  <2> QED
    BY <2>2, <2>3
<1>12. /\ New \subseteq Locals'
       /\ \A x \in DOMAIN f : /\ IdOf(<<t, 1, x>>)' = ls[x].loc_p
                              /\ BlockOfLocal(<<t, 1, x>>)' = [l |-> ls[x], ly |-> f[x]]
  <2>1. ASSUME NEW x \in DOMAIN f
        PROVE  /\ <<t, 1, x>> \in Locals'
               /\ BlockOfLocal(<<t, 1, x>>)' = [l |-> ls[x], ly |-> f[x]]
    BY <1>3, <1>11
  <2>2. ASSUME NEW x \in DOMAIN f
        PROVE  IdOf(<<t, 1, x>>)' = ls[x].loc_p
    <3>1. BlockOfLocal(<<t, 1, x>>)' = [l |-> ls[x], ly |-> f[x]]
      BY <2>1
    <3>2. [l |-> ls[x], ly |-> f[x]].l = ls[x]
      OBVIOUS
    <3> QED
      BY <3>1, <3>2 DEF IdOf
  <2> QED
    BY <2>1, <2>2
<1>13. ASSUME NEW c \in Locals' \ New
       PROVE  M[c] \in Locals /\ BlockOfLocal(c)' = BlockOfLocal(M[c])
  <2>1. PICK u \in Thread, i \in 1 .. MaxFrames, y \in Var : c = <<u, i, y>>
    BY LocalsShapeAfter
  <2>2. i \in Nat
    BY <2>1, LangAssumption
  <2>3. CASE u # t
    BY <1>10, <2>1, <2>2, <2>3
  <2>4. CASE u = t
    <3>1. ~(i = 1 /\ y \in DOMAIN f)
      BY <1>13, <2>1, <2>4
    <3>2. M[c] = <<t, i - 1, y>>
      BY <1>13, <2>1, <2>4
    <3> QED
      BY <1>11, <1>13, <2>1, <2>2, <2>4, <3>1, <3>2
  <2> QED
    BY <2>3, <2>4
<1>14. ASSUME NEW c \in Locals' \ New, NEW d \in Locals' \ New, c # d
       PROVE  M[c] # M[d]
  <2>1. PICK u \in Thread, i \in 1 .. MaxFrames, y \in Var : c = <<u, i, y>>
    BY LocalsShapeAfter
  <2>2. PICK v \in Thread, j \in 1 .. MaxFrames, z \in Var : d = <<v, j, z>>
    BY LocalsShapeAfter
  <2>3. /\ M[c] = IF u = t THEN <<t, i - 1, y>> ELSE <<u, i, y>>
        /\ M[d] = IF v = t THEN <<t, j - 1, z>> ELSE <<v, j, z>>
    BY <2>1, <2>2
  <2>4. u # v \/ i # j \/ y # z
    BY <1>14, <2>1, <2>2
  <2>5. u # v \/ i - 1 # j - 1 \/ y # z
    BY <2>4, LangAssumption
  <2> QED
    BY <2>3, <2>4, <2>5
<1>15. ASSUME NEW d \in Locals
       PROVE  \E c \in Locals' \ New : M[c] = d
  <2>1. PICK u \in Thread, i \in 1 .. MaxFrames, y \in Var : d = <<u, i, y>>
    BY LocalsShape
  <2>2. i \in Nat /\ i >= 1
    BY <2>1, LangAssumption
  <2>3. CASE u # t
    <3>1. d \in Locals' /\ d \notin New
      BY <1>10, <2>1, <2>2, <2>3
    <3> QED
      BY <2>1, <2>3, <3>1
  <2>4. CASE u = t
    <3> DEFINE c == <<t, i + 1, y>>
    <3>1. (i + 1) - 1 = i /\ i + 1 \in Nat /\ i + 1 > 1
      BY <2>2
    <3>2. c \in Locals'
      BY <1>11, <2>1, <2>4, <3>1
    <3>3. c \notin New
      BY <3>1
    <3>4. M[c] = d
      BY <2>1, <2>4, <3>1, <3>2
    <3> QED
      BY <3>2, <3>3, <3>4
  <2> QED
    BY <2>3, <2>4
<1>16. /\ \A aid \in DOMAIN allocs : aid \in DOMAIN allocs' /\ allocs'[aid] = allocs[aid]
       /\ \A c \in New : /\ IdOf(c)' \in DOMAIN allocs' \ DOMAIN allocs
                         /\ allocs'[IdOf(c)'] = StackBlock(BlockOfLocal(c)')
       /\ \A c, d \in New : c # d => IdOf(c)' # IdOf(d)'
       /\ \A aid \in DOMAIN allocs' \ DOMAIN allocs :
            allocs'[aid].al_kind = "StackAlloc" => \E c \in New : IdOf(c)' = aid
  <2>1. AllocBlocks(ls, vs, "StackAlloc") /\ \A x \in DOMAIN f : Len(vs[x]) = f[x]
    BY <1>2 DEF CallS
  <2>2. DOMAIN ls = DOMAIN f
    OBVIOUS
  <2>3. /\ \A aid \in DOMAIN allocs : aid \in DOMAIN allocs' /\ allocs'[aid] = allocs[aid]
        /\ \A x \in DOMAIN f :
             /\ ls[x].loc_p \in DOMAIN allocs' \ DOMAIN allocs
             /\ allocs'[ls[x].loc_p] =
                  [al_start |-> ls[x].loc_a, al_len |-> f[x],
                   al_alive |-> TRUE, al_kind |-> "StackAlloc"]
        /\ \A aid \in DOMAIN allocs' \ DOMAIN allocs :
             \E x \in DOMAIN f : ls[x].loc_p = aid
        /\ \A x, y \in DOMAIN f : x # y => ls[x].loc_p # ls[y].loc_p
    BY <2>1, <2>2, AllocParts
  <2>4. ASSUME NEW c \in New
        PROVE  /\ IdOf(c)' \in DOMAIN allocs' \ DOMAIN allocs
               /\ allocs'[IdOf(c)'] = StackBlock(BlockOfLocal(c)')
    <3>1. PICK x \in DOMAIN f : c = <<t, 1, x>>
      OBVIOUS
    <3>2. IdOf(c)' = ls[x].loc_p /\ BlockOfLocal(c)' = [l |-> ls[x], ly |-> f[x]]
      BY <1>12, <3>1
    <3> QED
      BY <2>3, <3>2 DEF StackBlock
  <2>5. ASSUME NEW c \in New, NEW d \in New, c # d
        PROVE  IdOf(c)' # IdOf(d)'
    <3>1. PICK x \in DOMAIN f : c = <<t, 1, x>>
      OBVIOUS
    <3>2. PICK y \in DOMAIN f : d = <<t, 1, y>>
      OBVIOUS
    <3>3. x # y
      BY <2>5, <3>1, <3>2
    <3>4. ls[x].loc_p # ls[y].loc_p
      BY <2>3, <3>3
    <3>5. IdOf(c)' = ls[x].loc_p /\ IdOf(d)' = ls[y].loc_p
      BY <1>12, <3>1, <3>2
    <3> QED
      BY <3>4, <3>5
  <2>6. ASSUME NEW aid \in DOMAIN allocs' \ DOMAIN allocs
        PROVE  \E c \in New : IdOf(c)' = aid
    <3>1. PICK x \in DOMAIN f : ls[x].loc_p = aid
      BY <2>3
    <3> QED
      BY <1>12, <3>1
  <2> QED
    BY <2>3, <2>4, <2>5, <2>6
<1> HIDE DEF New, M
<1>17. /\ New \subseteq Locals'
       /\ \A c \in Locals' \ New :
            M[c] \in Locals /\ BlockOfLocal(c)' = BlockOfLocal(M[c])
       /\ \A c, d \in Locals' \ New : c # d => M[c] # M[d]
       /\ \A d \in Locals : \E c \in Locals' \ New : M[c] = d
  BY <1>12, <1>13, <1>14, <1>15
<1>18. StackDiscipline'
  BY <1>4, <1>16, <1>17, AddLocals
<1> QED
  BY <1>10, <1>18

\* A return: they move down by one, and the innermost frame is gone.
LEMMA ReturnStack ==
  ASSUME StackInv, TypeInv', NEW t \in Thread, Return(t)
  PROVE  StackDiscipline' /\ Bounded'
<1> DEFINE fs  == pop_frame(frames[t])
           Old == {<<t, 1, x>> : x \in live(Frame(t))}
           M   == [c \in Locals' |-> IF c[1] = t THEN <<t, c[2] + 1, c[3]>> ELSE c]
<1>1. /\ TypeInv /\ Bounded /\ StackDiscipline /\ IsAllocs(allocs)
      /\ frames[t] \in Seq(CallFrame) /\ frames[t] # <<>>
  BY BodyHasFrame DEF StackInv, HeapInv, Return, InBody, HasFrame, TypeInv, TypeOK
<1>2. Frame(t) \in CallFrame /\ Frame(t) = frames[t][1]
  BY <1>1, FramesType, FrameIndices DEF Frame
<1>3. /\ Len(fs) = Len(frames[t]) - 1 /\ fs \in Seq(CallFrame)
      /\ Len(frames[t]) \in Nat \ {0} /\ Len(frames[t]) <= MaxFrames
      /\ \A i \in 1 .. Len(frames[t]) - 1 : fs[i] = frames[t][i + 1]
  BY <1>1, <1>2, FrameIndices, FramesType, EmptySeq, LenProperties DEF Bounded
<1>4. frames' = [frames EXCEPT ![t] = fs]
  BY DEF Return, ReturnS
<1> HIDE DEF fs
<1>5. Len(fs) <= MaxFrames
  BY <1>3, LangAssumption
<1>6. /\ Bounded'
      /\ \A u \in Thread, i \in Nat, y \in Var :
           /\ <<u, i, y>> \in Locals' <=>
                IF u = t THEN i \in 1 .. Len(fs) /\ fs[i][y] # None
                ELSE <<u, i, y>> \in Locals
           /\ BlockOfLocal(<<u, i, y>>)' =
                IF u = t THEN fs[i][y] ELSE BlockOfLocal(<<u, i, y>>)
  BY <1>1, <1>3, <1>4, <1>5, FrameChange
<1>7. ASSUME NEW i \in Nat, NEW y \in Var
      PROVE  /\ <<t, i, y>> \in Locals' <=> i >= 1 /\ <<t, i + 1, y>> \in Locals
             /\ <<t, i, y>> \in Locals' =>
                  BlockOfLocal(<<t, i, y>>)' = BlockOfLocal(<<t, i + 1, y>>)
  <2>1. /\ <<t, i, y>> \in Locals' <=> i \in 1 .. Len(fs) /\ fs[i][y] # None
        /\ BlockOfLocal(<<t, i, y>>)' = fs[i][y]
    BY <1>6
  <2>2. <<t, i + 1, y>> \in Locals <=>
          i + 1 \in 1 .. Len(frames[t]) /\ frames[t][i + 1][y] # None
    BY <1>1, LocalsAre
  <2>3. BlockOfLocal(<<t, i + 1, y>>) = frames[t][i + 1][y]
    BY DEF BlockOfLocal
  <2> QED
    BY <1>3, <2>1, <2>2, <2>3
<1>8. \A x \in Var : /\ <<t, 1, x>> \in Locals <=> x \in live(Frame(t))
                     /\ BlockOfLocal(<<t, 1, x>>) = Frame(t)[x]
  <2>1. ASSUME NEW x \in Var
        PROVE  /\ <<t, 1, x>> \in Locals <=> Frame(t)[x] # None
               /\ BlockOfLocal(<<t, 1, x>>) = Frame(t)[x]
    <3>1. <<t, 1, x>> \in Locals <=> 1 \in 1 .. Len(frames[t]) /\ frames[t][1][x] # None
      BY <1>1, LocalsAre
    <3> QED
      BY <1>2, <1>3, <3>1 DEF BlockOfLocal
  <2> QED
    BY <2>1 DEF live
<1>9. ASSUME NEW c \in Locals'
      PROVE  M[c] \in Locals \ Old /\ BlockOfLocal(c)' = BlockOfLocal(M[c])
  <2>1. PICK u \in Thread, i \in 1 .. MaxFrames, y \in Var : c = <<u, i, y>>
    BY LocalsShapeAfter
  <2>2. i \in Nat /\ i + 1 # 1
    BY <2>1, LangAssumption
  <2>3. CASE u # t
    BY <1>6, <2>1, <2>2, <2>3
  <2>4. CASE u = t
    <3>1. M[c] = <<t, i + 1, y>>
      BY <2>1, <2>4
    <3>2. M[c] \notin Old
      BY <2>2, <3>1
    <3> QED
      BY <1>7, <2>1, <2>2, <2>4, <3>1, <3>2
  <2> QED
    BY <2>3, <2>4
<1>10. ASSUME NEW c \in Locals', NEW d \in Locals', c # d
       PROVE  M[c] # M[d]
  <2>1. PICK u \in Thread, i \in 1 .. MaxFrames, y \in Var : c = <<u, i, y>>
    BY LocalsShapeAfter
  <2>2. PICK v \in Thread, j \in 1 .. MaxFrames, z \in Var : d = <<v, j, z>>
    BY LocalsShapeAfter
  <2>3. /\ M[c] = IF u = t THEN <<t, i + 1, y>> ELSE <<u, i, y>>
        /\ M[d] = IF v = t THEN <<t, j + 1, z>> ELSE <<v, j, z>>
    BY <2>1, <2>2
  <2>4. u # v \/ i # j \/ y # z
    BY <1>10, <2>1, <2>2
  <2>5. u # v \/ i + 1 # j + 1 \/ y # z
    BY <2>4, LangAssumption
  <2> QED
    BY <2>3, <2>4, <2>5
<1>11. ASSUME NEW d \in Locals \ Old
       PROVE  \E c \in Locals' : M[c] = d
  <2>1. PICK u \in Thread, i \in 1 .. MaxFrames, y \in Var : d = <<u, i, y>>
    BY LocalsShape
  <2>2. i \in Nat /\ i >= 1
    BY <2>1, LangAssumption
  <2>3. CASE u # t
    <3>1. d \in Locals'
      BY <1>6, <1>11, <2>1, <2>2, <2>3
    <3> QED
      BY <2>1, <2>3, <3>1
  <2>4. CASE u = t
    <3> DEFINE c == <<t, i - 1, y>>
    <3>1. i # 1
      BY <1>8, <1>11, <2>1, <2>4
    <3>2. (i - 1) + 1 = i /\ i - 1 \in Nat /\ i - 1 >= 1
      BY <2>2, <3>1
    <3>3. c \in Locals'
      BY <1>7, <1>11, <2>1, <2>4, <3>2
    <3>4. M[c] = d
      BY <2>1, <2>4, <3>2, <3>3
    <3> QED
      BY <3>3, <3>4
  <2> QED
    BY <2>3, <2>4
<1>12. /\ Old \subseteq Locals
       /\ DOMAIN allocs' = DOMAIN allocs
       /\ \A c \in Old : allocs'[IdOf(c)] = killed(allocs[IdOf(c)])
       /\ \A aid \in DOMAIN allocs :
            \/ allocs'[aid] = allocs[aid]
            \/ /\ allocs'[aid] = killed(allocs[aid])
               /\ allocs[aid].al_kind = "StackAlloc" => \E c \in Old : IdOf(c) = aid
  <2>1. FreeBlocks(locals(Frame(t)), "StackAlloc")
    BY DEF Return, ReturnS
  <2>2. PICK lys : lys = locals(Frame(t))
    OBVIOUS
  <2>3. FreeBlocks(lys, "StackAlloc")
    BY <2>1, <2>2
  <2>4. /\ DOMAIN lys = live(Frame(t)) /\ live(Frame(t)) \subseteq Var
        /\ \A x \in live(Frame(t)) : lys[x] = Frame(t)[x]
    BY <2>2 DEF locals, live
  <2>5. DOMAIN allocs' = DOMAIN allocs
    BY <2>3, FreeParts
  <2>6. \A x \in DOMAIN lys : allocs'[lys[x].l.loc_p] = killed(allocs[lys[x].l.loc_p])
    BY <2>3, FreeParts
  <2>7. \A aid \in DOMAIN allocs :
             \/ allocs'[aid] = allocs[aid]
             \/ /\ allocs'[aid] = killed(allocs[aid])
                /\ \E x \in DOMAIN lys : lys[x].l.loc_p = aid
    BY <2>3, FreeParts
  <2>8. \A x \in DOMAIN lys : <<t, 1, x>> \in Old /\ IdOf(<<t, 1, x>>) = lys[x].l.loc_p
    BY <1>8, <2>4 DEF IdOf
  <2>9. Old \subseteq Locals
    BY <1>8, <2>4
  <2>10. \A c \in Old : \E x \in DOMAIN lys : c = <<t, 1, x>>
    BY <2>4
  <2>11. \A c \in Old : allocs'[IdOf(c)] = killed(allocs[IdOf(c)])
    BY <2>6, <2>8, <2>10
  <2>12. ASSUME NEW x \in DOMAIN lys
         PROVE  \E c \in Old : IdOf(c) = lys[x].l.loc_p
    BY <2>8
  <2> HIDE DEF Old
  <2> QED
    BY <2>5, <2>7, <2>9, <2>11, <2>12
<1> HIDE DEF Old, M
<1>13. /\ \A c \in Locals' :
            M[c] \in Locals \ Old /\ BlockOfLocal(c)' = BlockOfLocal(M[c])
       /\ \A c, d \in Locals' : c # d => M[c] # M[d]
       /\ \A d \in Locals \ Old : \E c \in Locals' : M[c] = d
  BY <1>9, <1>10, <1>11
<1>14. StackDiscipline'
  BY <1>1, <1>12, <1>13, DropLocals
<1> QED
  BY <1>6, <1>14

-----------------------------------------------------------------------------
(* The other steps leave the frames alone: they change no block at all, or  *)
(* one that is no local's.                                                  *)

LEMMA SameFrames ==
  ASSUME frames' = frames
  PROVE  /\ Locals' = Locals
         /\ \A c : BlockOfLocal(c)' = BlockOfLocal(c) /\ IdOf(c)' = IdOf(c)
         /\ Bounded => Bounded'
BY DEF Locals, BlockOfLocal, IdOf, Bounded

LEMMA AllocStack ==
  ASSUME StackInv, NEW t \in Thread, Alloc(t)
  PROVE  StackDiscipline' /\ Bounded'
<1>1. PICK l \in Loc, n \in BlockSizes : AllocS(t, l, n)
  BY DEF Alloc
<1>2. frames' = frames /\ AllocBlocks(One(l), One(Poison(n)), "HeapAlloc")
  BY <1>1 DEF AllocS
<1>3. /\ \A aid \in DOMAIN allocs : aid \in DOMAIN allocs' /\ allocs'[aid] = allocs[aid]
      /\ \A aid \in DOMAIN allocs' \ DOMAIN allocs : allocs'[aid].al_kind = "HeapAlloc"
  <2>1. PICK ls : ls = One(l)
    OBVIOUS
  <2>2. PICK vs : vs = One(Poison(n))
    OBVIOUS
  <2>3. AllocBlocks(ls, vs, "HeapAlloc")
    BY <1>2, <2>1, <2>2
  <2>4. \A aid \in DOMAIN allocs : aid \in DOMAIN allocs' /\ allocs'[aid] = allocs[aid]
    BY <2>3, AllocParts
  <2>5. \A x \in DOMAIN ls :
          allocs'[ls[x].loc_p] =
            [al_start |-> ls[x].loc_a, al_len |-> Len(vs[x]),
             al_alive |-> TRUE, al_kind |-> "HeapAlloc"]
    BY <2>3, AllocParts
  <2>6. \A aid \in DOMAIN allocs' \ DOMAIN allocs : \E x \in DOMAIN ls : ls[x].loc_p = aid
    BY <2>3, AllocParts
  <2>7. ASSUME NEW aid \in DOMAIN allocs' \ DOMAIN allocs
        PROVE  allocs'[aid].al_kind = "HeapAlloc"
    <3>1. PICK x \in DOMAIN ls : ls[x].loc_p = aid
      BY <2>6
    <3> DEFINE r == [al_start |-> ls[x].loc_a, al_len |-> Len(vs[x]),
                     al_alive |-> TRUE, al_kind |-> "HeapAlloc"]
    <3>2. r.al_kind = "HeapAlloc"
      OBVIOUS
    <3>3. allocs'[aid] = r
      BY <2>5, <3>1
    <3> QED
      BY <3>2, <3>3
  <2> QED
    BY <2>4, <2>7
<1>4. StackDiscipline /\ Bounded
  BY DEF StackInv
<1>5. /\ Locals' = Locals
      /\ \A c \in Locals : BlockOfLocal(c)' = BlockOfLocal(c) /\ IdOf(c)' = IdOf(c)
  BY <1>2, SameFrames
<1>6. \A c \in Locals' :
        /\ IdOf(c)' \in DOMAIN allocs'
        /\ allocs'[IdOf(c)'] = StackBlock(BlockOfLocal(c)')
  <2>1. \A c \in Locals :
          IdOf(c) \in DOMAIN allocs /\ allocs[IdOf(c)] = StackBlock(BlockOfLocal(c))
    BY <1>4 DEF StackDiscipline, IdOf, StackBlock
  <2> QED
    BY <1>3, <1>5, <2>1
<1>7. \A c, d \in Locals' : c # d => IdOf(c)' # IdOf(d)'
  BY <1>4, <1>5 DEF StackDiscipline, IdOf
<1>8. ASSUME NEW aid \in DOMAIN allocs', allocs'[aid].al_alive,
             allocs'[aid].al_kind = "StackAlloc"
      PROVE  \E c \in Locals' : IdOf(c)' = aid
  <2>1. aid \in DOMAIN allocs /\ allocs'[aid] = allocs[aid]
    BY <1>3, <1>8
  <2>2. PICK c \in Locals : IdOf(c) = aid
    BY <1>4, <1>8, <2>1 DEF StackDiscipline, IdOf
  <2> QED
    BY <1>5, <2>2
<1>9. StackDiscipline'
  BY <1>6, <1>7, <1>8 DEF StackDiscipline, IdOf, StackBlock
<1> QED
  BY <1>2, <1>4, <1>9, SameFrames

LEMMA FreeStack ==
  ASSUME StackInv, NEW t \in Thread, Free(t)
  PROVE  StackDiscipline' /\ Bounded'
<1>1. PICK l \in Loc, n \in BlockSizes : FreeS(t, l, n)
  BY DEF Free
<1>2. frames' = frames /\ FreeBlocks(One([l |-> l, ly |-> n]), "HeapAlloc")
  BY <1>1 DEF FreeS
<1>3. StackDiscipline /\ Bounded /\ IsAllocs(allocs)
  BY DEF StackInv, HeapInv, TypeInv, TypeOK
<1>4. DOMAIN allocs' = DOMAIN allocs
  BY <1>2, FreeParts
<1>5. \A aid \in DOMAIN allocs :
        \/ allocs'[aid] = allocs[aid]
        \/ allocs'[aid] = killed(allocs[aid]) /\ allocs[aid].al_kind = "HeapAlloc"
  BY <1>2, FreeParts
<1>6. \A aid \in DOMAIN allocs : ~killed(allocs[aid]).al_alive
  BY <1>3 DEF killed, IsAllocs, Allocation
<1>7. \A c \in Locals :
        /\ IdOf(c) \in DOMAIN allocs /\ allocs[IdOf(c)] = StackBlock(BlockOfLocal(c))
        /\ allocs[IdOf(c)].al_kind = "StackAlloc"
  BY <1>3 DEF StackDiscipline, IdOf, StackBlock
<1>8. \A c \in Locals : allocs'[IdOf(c)] = StackBlock(BlockOfLocal(c))
  BY <1>5, <1>7
<1>9. /\ Locals' = Locals
      /\ \A c \in Locals : BlockOfLocal(c)' = BlockOfLocal(c) /\ IdOf(c)' = IdOf(c)
  BY <1>2, SameFrames
<1>10. \A c \in Locals' :
         /\ IdOf(c)' \in DOMAIN allocs'
         /\ allocs'[IdOf(c)'] = StackBlock(BlockOfLocal(c)')
  BY <1>4, <1>7, <1>8, <1>9
<1>11. \A c, d \in Locals' : c # d => IdOf(c)' # IdOf(d)'
  BY <1>3, <1>9 DEF StackDiscipline, IdOf
<1>12. ASSUME NEW aid \in DOMAIN allocs', allocs'[aid].al_alive,
              allocs'[aid].al_kind = "StackAlloc"
       PROVE  \E c \in Locals' : IdOf(c)' = aid
  <2>1. aid \in DOMAIN allocs /\ allocs'[aid] = allocs[aid]
    BY <1>4, <1>5, <1>6, <1>12
  <2>2. PICK c \in Locals : IdOf(c) = aid
    BY <1>3, <1>12, <2>1 DEF StackDiscipline, IdOf
  <2> QED
    BY <1>9, <2>2
<1>13. StackDiscipline'
  BY <1>10, <1>11, <1>12 DEF StackDiscipline, IdOf, StackBlock
<1> QED
  BY <1>2, <1>3, <1>13, SameFrames

LEMMA StackNext == StackInv /\ [Next]_vars => StackDiscipline' /\ Bounded'
<1> SUFFICES ASSUME StackInv, [Next]_vars
             PROVE  StackDiscipline' /\ Bounded'
  OBVIOUS
<1>1. TypeInv'
  BY NextType DEF StackInv, HeapInv
<1>2. CASE UNCHANGED <<allocs, frames>>
  BY <1>2, SameFrames DEF StackInv, StackDiscipline, IdOf
<1>3. ASSUME NEW t \in Thread, ThreadStep(t)
      PROVE  StackDiscipline' /\ Bounded'
  <2>1. CASE Deref(t) \/ FinishDeref(t) \/ Assign(t) \/ FinishAssign(t) \/ CAS(t)
    BY <1>2, <2>1 DEF Deref, FinishDeref, Assign, FinishAssign, CAS,
       DerefS, AssignS, CasFailS, CasSucS
  <2>2. CASE AllocFail(t) \/ CallFail(t)
    BY <1>2, <2>2 DEF AllocFail, CallFail, FailAlloc
  <2>3. CASE LocalDead(t)
    <3>1. PICK x \in Var : LocalDeadDeallocS(t, x) \/ LocalDeadNopS(t, x)
      BY <2>3 DEF LocalDead
    <3>2. CASE LocalDeadNopS(t, x)
      BY <1>2, <3>2 DEF LocalDeadNopS
    <3> QED
      BY <1>1, <2>3, <3>1, <3>2, LocalDeadStack DEF LocalDead
  <2>4. CASE LocalLive(t)
    BY <1>1, <2>4, LocalLiveStack DEF LocalLive
  <2> QED
    BY <1>1, <1>3, <2>1, <2>2, <2>3, <2>4, AllocStack, FreeStack, CallStack, ReturnStack
    DEF ThreadStep
<1> QED
  BY <1>2, <1>3 DEF Next, vars

LEMMA StackInit == Init => StackDiscipline /\ Bounded
<1> SUFFICES ASSUME Init
             PROVE  StackDiscipline /\ Bounded
  OBVIOUS
<1>1. \A t \in Thread : frames[t] = <<>> /\ Len(frames[t]) = 0 /\ DOMAIN frames[t] = {}
  BY DEF Init
<1>2. Locals = {} /\ DOMAIN allocs = {}
  BY <1>1 DEF Locals, Init
<1> QED
  BY <1>1, <1>2, LangAssumption DEF StackDiscipline, Bounded

LEMMA StackAlways == Spec => []StackInv
<1>1. Init => StackInv
  BY InitType, HeapInit, StackInit DEF StackInv, HeapInv
<1>2. StackInv /\ [Next]_vars => StackInv'
  BY NextType, HeapNext, StackNext DEF StackInv, HeapInv
<1> QED
  BY <1>1, <1>2, PTL DEF Spec

\* Every local of every frame of every thread has a stack block to itself,
\* alive and as large as its layout, and every stack block that is alive is
\* that of a local: StorageLive, StorageDead, calls and returns neither leak
\* blocks nor free those of another frame or thread.
THEOREM LocalsOwnBlocks == Spec => []StackDiscipline
<1>1. StackInv => StackDiscipline
  BY DEF StackInv
<1> QED
  BY <1>1, StackAlways, PTL

-----------------------------------------------------------------------------
(* What the objects are. *)

LEMMA Shape ==
  ASSUME HeapInv
  PROVE  /\ IsHeap(heap) /\ IsAllocs(allocs)
         /\ \A aid \in DOMAIN allocs :
              /\ allocs[aid].al_start \in Int /\ allocs[aid].al_len \in Nat
              /\ allocs[aid].al_alive \in BOOLEAN
         /\ \A a \in DOMAIN heap :
              /\ a \in Int /\ heap[a].hc_value \in Byte
              /\ heap[a].hc_alloc_id \in DOMAIN allocs
              /\ allocs[heap[a].hc_alloc_id].al_alive
              /\ a \in AddrsOf(allocs[heap[a].hc_alloc_id])
         /\ \A aid \in DOMAIN allocs :
              allocs[aid].al_alive => AddrsOf(allocs[aid]) \subseteq DOMAIN heap
         /\ \A i, j \in DOMAIN allocs :
              i # j /\ allocs[i].al_alive /\ allocs[j].al_alive
                => AddrsOf(allocs[i]) \cap AddrsOf(allocs[j]) = {}
<1>1. IsHeap(heap) /\ IsAllocs(allocs) /\ heap_state_invariant(heap, allocs)
  BY DEF HeapInv, HeapInvariant, TypeInv, TypeOK
<1>2. \A aid \in DOMAIN allocs :
              /\ allocs[aid].al_start \in Int /\ allocs[aid].al_len \in Nat
              /\ allocs[aid].al_alive \in BOOLEAN
  BY <1>1 DEF IsAllocs, Allocation
<1>3. \A a \in DOMAIN heap : a \in Int /\ heap[a].hc_value \in Byte
  BY <1>1, HeapAssumption DEF IsHeap, Cell, Addr
<1> QED
  BY <1>1, <1>2, <1>3 DEF heap_state_invariant, heap_cell_in_range_alloc,
     heap_cell_alloc_alive, alloc_id_alive, alloc_disjoint, alloc_alive_in_heap

\* The bytes of an object are the values of the cells of its block.
LEMMA BytesAre ==
  ASSUME HeapInv, NEW aid \in DOMAIN allocs
  PROVE  /\ aid \in DOMAIN objects
         /\ objects[aid].alive = allocs[aid].al_alive
         /\ allocs[aid].al_alive =>
              /\ objects[aid].bytes \in Seq(Byte)
              /\ Len(objects[aid].bytes) = allocs[aid].al_len
              /\ \A i \in 1 .. allocs[aid].al_len :
                   objects[aid].bytes[i] = heap[allocs[aid].al_start + i - 1].hc_value
<1>1. objects[aid] = ObjectOf(aid) /\ aid \in DOMAIN objects
  BY DEF objects
<1>2. objects[aid].alive = allocs[aid].al_alive
  BY <1>1 DEF ObjectOf
<1>3. ASSUME allocs[aid].al_alive
      PROVE  /\ objects[aid].bytes \in Seq(Byte)
             /\ Len(objects[aid].bytes) = allocs[aid].al_len
             /\ \A i \in 1 .. allocs[aid].al_len :
                  objects[aid].bytes[i] = heap[allocs[aid].al_start + i - 1].hc_value
  <2> DEFINE st == allocs[aid].al_start
             n  == allocs[aid].al_len
             s  == [i \in 1 .. n |-> heap[st + i - 1].hc_value]
  <2>1. objects[aid].bytes = s
    BY <1>1, <1>3 DEF ObjectOf
  <2>2. st \in Int /\ n \in Nat
    BY Shape
  <2>3. \A i \in 1 .. n : st + i - 1 \in DOMAIN heap
    BY <1>3, <2>2, Shape DEF AddrsOf, Span
  <2>4. \A i \in 1 .. n : heap[st + i - 1].hc_value \in Byte
    BY <2>3, Shape
  <2>5. s \in Seq(Byte) /\ Len(s) = n
    BY <2>2, <2>4
  <2> QED
    BY <2>1, <2>5
<1> QED
  BY <1>1, <1>2, <1>3

\* Where the cells of an access are in the object of the pointer.
Offset(l) == l.loc_a - allocs[l.loc_p].al_start

LEMMA AccessIn ==
  ASSUME HeapInv, NEW l \in Loc, NEW n \in Nat, n > 0, NEW Plk, heap_at(l, n, Plk, heap)
  PROVE  /\ l.loc_p \in DOMAIN allocs /\ allocs[l.loc_p].al_alive
         /\ l.loc_a \in Nat
         /\ Offset(l) \in Nat /\ Offset(l) + n <= allocs[l.loc_p].al_len
         /\ Span(l.loc_a, n) \subseteq AddrsOf(allocs[l.loc_p])
         /\ Span(l.loc_a, n) \subseteq DOMAIN heap
<1>1. l.loc_a \in Nat
  BY HeapAssumption DEF Loc, Addr
<1>2. \A a \in Span(l.loc_a, n) : a \in DOMAIN heap /\ heap[a].hc_alloc_id = l.loc_p
  BY DEF heap_at, heap_lookup_loc
<1>3. /\ l.loc_a \in Span(l.loc_a, n) /\ l.loc_a + n - 1 \in Span(l.loc_a, n)
  BY <1>1 DEF Span
<1>4. \A a \in Span(l.loc_a, n) : a \in AddrsOf(allocs[l.loc_p])
  BY <1>2, Shape
<1>5. l.loc_p \in DOMAIN allocs /\ allocs[l.loc_p].al_alive
  BY <1>2, <1>3, Shape
<1>6. allocs[l.loc_p].al_start \in Int /\ allocs[l.loc_p].al_len \in Nat
  BY <1>5, Shape
<1>7. /\ l.loc_a \in Span(allocs[l.loc_p].al_start, allocs[l.loc_p].al_len)
      /\ l.loc_a + n - 1 \in Span(allocs[l.loc_p].al_start, allocs[l.loc_p].al_len)
  BY <1>3, <1>4 DEF AddrsOf
<1>8. Offset(l) \in Nat /\ Offset(l) + n <= allocs[l.loc_p].al_len
  BY <1>1, <1>6, <1>7 DEF Span, Offset
<1> QED
  BY <1>1, <1>2, <1>4, <1>5, <1>8

\* What a read finds is a part of the object.
LEMMA PartIs ==
  ASSUME HeapInv, NEW l \in Loc, NEW n \in Nat, n > 0, NEW Plk, heap_at(l, n, Plk, heap)
  PROVE  /\ l.loc_p \in DOMAIN objects
         /\ Offset(l) \in Objects!Offsets(l.loc_p)
         /\ Objects!InObject(l.loc_p, Offset(l), n)
         /\ Objects!Part(l.loc_p, Offset(l), n) = heap_value(l, n, heap)
<1> DEFINE b  == l.loc_p
           o  == Offset(l)
           st == allocs[b].al_start
           s  == objects[b].bytes
<1>1. /\ b \in DOMAIN allocs /\ allocs[b].al_alive /\ l.loc_a \in Nat
      /\ o \in Nat /\ o + n <= allocs[b].al_len
  BY AccessIn
<1>2. st \in Int /\ allocs[b].al_len \in Nat
  BY <1>1, Shape
<1>3. /\ b \in DOMAIN objects /\ objects[b].alive
      /\ s \in Seq(Byte) /\ Len(s) = allocs[b].al_len
      /\ \A i \in 1 .. allocs[b].al_len : s[i] = heap[st + i - 1].hc_value
  BY <1>1, BytesAre
<1>4. o \in 0 .. Len(s) /\ o + n <= Len(s)
  BY <1>1, <1>2, <1>3
<1>5. SubSeq(s, o + 1, o + n) = heap_value(l, n, heap)
  <2> HIDE DEF s, o
  <2>1. /\ SubSeq(s, o + 1, o + n) \in Seq(Byte)
        /\ Len(SubSeq(s, o + 1, o + n)) = n
        /\ \A i \in 1 .. n : SubSeq(s, o + 1, o + n)[i] = s[o + i]
    <3>1. o + 1 \in 1 .. Len(s) + 1 /\ o + n \in o .. Len(s)
      BY <1>1, <1>3, <1>4
    <3>2. (o + n) - (o + 1) + 1 = n /\ \A i \in 1 .. n : (o + 1) + i - 1 = o + i
      BY <1>1
    <3> QED
      BY <1>1, <1>3, <3>1, <3>2
  <2>2. heap_value(l, n, heap) = [i \in 1 .. n |-> heap[l.loc_a + i - 1].hc_value]
    BY DEF heap_value
  <2>3. \A i \in 1 .. n : s[o + i] = heap[l.loc_a + i - 1].hc_value
    <3>1. \A i \in 1 .. n : o + i \in 1 .. allocs[b].al_len /\ st + (o + i) - 1 = l.loc_a + i - 1
      BY <1>1, <1>2 DEF o, Offset
    <3> QED
      BY <1>3, <3>1
  <2>4. SubSeq(s, o + 1, o + n) = [i \in 1 .. n |-> SubSeq(s, o + 1, o + n)[i]]
    BY <2>1, LenProperties
  <2> QED
    BY <2>1, <2>2, <2>3, <2>4
<1> QED
  BY <1>3, <1>4, <1>5 DEF Objects!Offsets, Objects!InObject, Objects!Part

-----------------------------------------------------------------------------
(* What a step does to the objects. *)

\* An object keeps its bytes when its allocation stays as it is and its cells
\* keep their values.
LEMMA ObjectKept ==
  ASSUME HeapInv, NEW aid \in DOMAIN allocs, allocs'[aid] = allocs[aid],
         allocs[aid].al_alive =>
           \A a \in AddrsOf(allocs[aid]) : heap'[a].hc_value = heap[a].hc_value
  PROVE  ObjectOf(aid)' = ObjectOf(aid)
<1>1. CASE ~allocs[aid].al_alive
  BY <1>1 DEF ObjectOf
<1>2. CASE allocs[aid].al_alive
  <2> DEFINE st == allocs[aid].al_start
             n  == allocs[aid].al_len
  <2>1. st \in Int /\ n \in Nat
    BY Shape
  <2>2. \A i \in 1 .. n : st + i - 1 \in AddrsOf(allocs[aid])
    BY <2>1 DEF AddrsOf, Span
  <2>3. \A i \in 1 .. n : heap'[st + i - 1].hc_value = heap[st + i - 1].hc_value
    BY <1>2, <2>2
  <2>4. [i \in 1 .. n |-> heap'[st + i - 1].hc_value]
          = [i \in 1 .. n |-> heap[st + i - 1].hc_value]
    BY <2>3
  <2> QED
    BY <1>2, <2>4 DEF ObjectOf
<1> QED
  BY <1>1, <1>2

LEMMA ObjectsSame ==
  ASSUME HeapInv, allocs' = allocs,
         \A a \in DOMAIN heap : heap'[a].hc_value = heap[a].hc_value
  PROVE  objects' = objects
<1>1. \A aid \in DOMAIN allocs : ObjectOf(aid)' = ObjectOf(aid)
  <2> SUFFICES ASSUME NEW aid \in DOMAIN allocs
               PROVE  ObjectOf(aid)' = ObjectOf(aid)
    OBVIOUS
  <2>1. allocs[aid].al_alive =>
          \A a \in AddrsOf(allocs[aid]) : heap'[a].hc_value = heap[a].hc_value
    BY Shape
  <2> QED
    BY <2>1, ObjectKept
<1> QED
  BY <1>1 DEF objects

\* A write changes the bytes it covers, in the object of its pointer.
LEMMA WriteIs ==
  ASSUME HeapInv, NEW l \in Loc, NEW v \in Seq(Byte), Len(v) > 0,
         NEW Plk, heap_at(l, Len(v), Plk, heap),
         NEW flk, heap' = heap_upd(l, v, flk, heap), allocs' = allocs
  PROVE  objects' = Objects!Overwritten(l.loc_p, Offset(l), v)
<1> DEFINE b  == l.loc_p
           o  == Offset(l)
           n  == Len(v)
           st == allocs[b].al_start
           s  == objects[b].bytes
           w  == [i \in DOMAIN s |-> IF i \in (o + 1) .. (o + n) THEN v[i - o] ELSE s[i]]
<1>1. n \in Nat /\ n > 0
  OBVIOUS
<1>2. /\ b \in DOMAIN allocs /\ allocs[b].al_alive /\ l.loc_a \in Nat
      /\ o \in Nat /\ o + n <= allocs[b].al_len
      /\ Span(l.loc_a, n) \subseteq AddrsOf(allocs[b])
      /\ Span(l.loc_a, n) \subseteq DOMAIN heap
  BY <1>1, AccessIn
<1>3. st \in Int /\ allocs[b].al_len \in Nat
  BY <1>2, Shape
<1>4. /\ b \in DOMAIN objects /\ s \in Seq(Byte) /\ Len(s) = allocs[b].al_len
      /\ \A i \in 1 .. allocs[b].al_len : s[i] = heap[st + i - 1].hc_value
  BY <1>2, BytesAre
<1>5. \A a \in DOMAIN heap :
        heap'[a].hc_value = IF a \in Span(l.loc_a, n) THEN v[a - l.loc_a + 1]
                            ELSE heap[a].hc_value
  BY DEF heap_upd
<1>6. \A aid \in DOMAIN allocs : aid # b => ObjectOf(aid)' = ObjectOf(aid)
  <2> SUFFICES ASSUME NEW aid \in DOMAIN allocs, aid # b
               PROVE  ObjectOf(aid)' = ObjectOf(aid)
    OBVIOUS
  <2>1. allocs[aid].al_alive =>
          \A a \in AddrsOf(allocs[aid]) : a \in DOMAIN heap /\ a \notin Span(l.loc_a, n)
    BY <1>2, Shape
  <2>2. allocs[aid].al_alive =>
          \A a \in AddrsOf(allocs[aid]) : heap'[a].hc_value = heap[a].hc_value
    BY <2>1, <1>5
  <2> QED
    BY <2>2, ObjectKept
<1>7. \A i \in 1 .. allocs[b].al_len : heap'[st + i - 1].hc_value = w[i]
  <2> SUFFICES ASSUME NEW i \in 1 .. allocs[b].al_len
               PROVE  heap'[st + i - 1].hc_value = w[i]
    OBVIOUS
  <2>1. st + i - 1 \in AddrsOf(allocs[b])
    BY <1>3 DEF AddrsOf, Span
  <2>2. st + i - 1 \in DOMAIN heap
    BY <1>2, <2>1, Shape
  <2>3. st + i - 1 \in Span(l.loc_a, n) <=> i \in (o + 1) .. (o + n)
    <3>1. l.loc_a = st + o
      BY <1>2, <1>3 DEF Offset
    <3>2. st \in Int /\ o \in Nat /\ n \in Nat /\ i \in Nat
      BY <1>1, <1>2, <1>3
    <3> HIDE DEF st, o, n
    <3> QED
      BY <3>1, <3>2 DEF Span
  <2>4. (st + i - 1) - l.loc_a + 1 = i - o
    BY <1>2, <1>3 DEF Offset
  <2>5. i \in DOMAIN s
    BY <1>4
  <2>6. w[i] = IF i \in (o + 1) .. (o + n) THEN v[i - o] ELSE heap[st + i - 1].hc_value
    BY <1>4, <2>5
  <2> QED
    BY <1>5, <2>2, <2>3, <2>4, <2>6
<1>8. ObjectOf(b)' = Objects!Object(objects[b].on_stack, w)
  <2>1. DOMAIN s = 1 .. allocs[b].al_len
    BY <1>4
  <2>2. w = [i \in 1 .. allocs[b].al_len |-> heap'[st + i - 1].hc_value]
    <3> HIDE DEF w
    <3>1. w = [i \in 1 .. allocs[b].al_len |-> w[i]]
      BY <2>1 DEF w
    <3> QED
      BY <3>1, <1>7
  <2>3. ObjectOf(b)' = [alive |-> TRUE, on_stack |-> allocs[b].al_kind = "StackAlloc",
                        bytes |-> w]
    BY <1>2, <2>2 DEF ObjectOf
  <2>4. objects[b].on_stack = (allocs[b].al_kind = "StackAlloc")
    <3>1. objects[b] = ObjectOf(b)
      BY <1>2 DEF objects
    <3> QED
      BY <3>1 DEF ObjectOf
  <2> HIDE DEF w
  <2> QED
    BY <2>3, <2>4 DEF Objects!Object
<1>9. objects' = [objects EXCEPT ![b] = Objects!Object(objects[b].on_stack, w)]
  <2> HIDE DEF w
  <2>1. DOMAIN objects = DOMAIN allocs /\ \A aid \in DOMAIN allocs : objects[aid] = ObjectOf(aid)
    BY DEF objects
  <2>2. objects' = [aid \in DOMAIN allocs |-> ObjectOf(aid)']
    BY DEF objects
  <2> QED
    BY <2>1, <2>2, <1>6, <1>8
<1> QED
  BY <1>9 DEF Objects!Overwritten

\* Well-typed new blocks; the objects they are, by name; the names of blocks.
Given(ls, vs) == ls \in [DOMAIN ls -> Loc] /\ vs \in [DOMAIN ls -> Seq(Byte)]
Named(new, ls, vs) ==
  /\ \A b : b \in DOMAIN new <=> \E x \in DOMAIN ls : ls[x].loc_p = b
  /\ \A x \in DOMAIN ls : new[ls[x].loc_p] = vs[x]
Names(old, lys) == \A b : b \in old <=> \E x \in DOMAIN lys : lys[x].l.loc_p = b

\* New blocks are new objects, with the bytes they were given.
LEMMA CreateObjects ==
  ASSUME HeapInv, NEW ls, NEW vs, Given(ls, vs), NEW kind, AllocBlocks(ls, vs, kind),
         NEW new, Named(new, ls, vs), NEW s \in BOOLEAN, s <=> kind = "StackAlloc"
  PROVE  Objects!Create(new, s)
<1>0. /\ ls \in [DOMAIN ls -> Loc] /\ vs \in [DOMAIN ls -> Seq(Byte)]
      /\ \A b : b \in DOMAIN new <=> \E x \in DOMAIN ls : ls[x].loc_p = b
      /\ \A x \in DOMAIN ls : new[ls[x].loc_p] = vs[x]
  BY DEF Given, Named
<1>1. /\ can_alloc_blocks(ls, vs, heap, allocs)
      /\ heap' = alloc_blocks_heap(ls, vs, heap)
  BY DEF AllocBlocks
<1>2. /\ DOMAIN new \cap DOMAIN allocs = {}
      /\ DOMAIN allocs' = DOMAIN allocs \cup DOMAIN new
  <2>1. \A aid \in DOMAIN allocs : aid \in DOMAIN allocs'
    BY AllocParts
  <2>2. \A x \in DOMAIN ls : ls[x].loc_p \in DOMAIN allocs' \ DOMAIN allocs
    BY AllocParts
  <2>3. \A aid \in DOMAIN allocs' \ DOMAIN allocs : \E x \in DOMAIN ls : ls[x].loc_p = aid
    BY AllocParts
  <2>4. \A b : b \in DOMAIN new <=> \E x \in DOMAIN ls : ls[x].loc_p = b
    BY <1>0
  <2>5. \A b : b \in DOMAIN new => b \in DOMAIN allocs' /\ b \notin DOMAIN allocs
    BY <2>2, <2>4
  <2>6. \A b : b \in DOMAIN allocs' /\ b \notin DOMAIN allocs => b \in DOMAIN new
    BY <2>3, <2>4
  <2> QED
    BY <2>1, <2>5, <2>6
<1>3. \A aid \in DOMAIN allocs : ObjectOf(aid)' = ObjectOf(aid)
  <2> SUFFICES ASSUME NEW aid \in DOMAIN allocs
               PROVE  ObjectOf(aid)' = ObjectOf(aid)
    OBVIOUS
  <2>1. \A a \in DOMAIN heap : heap'[a] = heap[a]
    BY <1>1 DEF alloc_blocks_heap
  <2>2. allocs[aid].al_alive =>
          \A a \in AddrsOf(allocs[aid]) : heap'[a].hc_value = heap[a].hc_value
    BY <2>1, Shape
  <2>3. allocs'[aid] = allocs[aid]
    BY AllocParts
  <2> QED
    BY <2>2, <2>3, ObjectKept
<1>4. \A x \in DOMAIN ls : ObjectOf(ls[x].loc_p)' = Objects!Object(s, vs[x])
  <2> SUFFICES ASSUME NEW x \in DOMAIN ls
               PROVE  ObjectOf(ls[x].loc_p)' = Objects!Object(s, vs[x])
    OBVIOUS
  <2> DEFINE b == ls[x].loc_p
             st == ls[x].loc_a
             n  == Len(vs[x])
             rec == allocs'[b]
  <2>1. rec = [al_start |-> st, al_len |-> n, al_alive |-> TRUE, al_kind |-> kind]
    BY AllocParts
  <2>2. rec.al_start = st /\ rec.al_len = n /\ rec.al_alive /\ rec.al_kind = kind
    BY <2>1
  <2>3. st \in Nat /\ vs[x] \in Seq(Byte) /\ n \in Nat
    BY <1>0, HeapAssumption DEF Loc, Addr
  <2>4. \A i \in 1 .. n : heap'[st + i - 1].hc_value = vs[x][i]
    <3> SUFFICES ASSUME NEW i \in 1 .. n
                 PROVE  heap'[st + i - 1].hc_value = vs[x][i]
      OBVIOUS
    <3> DEFINE a == st + i - 1
               y == BlockAt(ls, vs, a)
    <3>1. a \in Blocks(ls, vs)[x]
      BY <2>3 DEF Blocks, Span
    <3>2. a \notin DOMAIN heap
      BY <3>1, <1>1 DEF can_alloc_blocks, heap_range_free, Blocks
    <3>3. y = x
      <4>1. y \in DOMAIN ls /\ a \in Blocks(ls, vs)[y]
        BY <3>1 DEF BlockAt
      <4> HIDE DEF y, a
      <4> QED
        BY <3>1, <4>1, <1>1 DEF can_alloc_blocks
    <3>4. a \in DOMAIN heap \cup UNION {Blocks(ls, vs)[z] : z \in DOMAIN ls}
      BY <3>1
    <3>5. heap'[a] = [hc_alloc_id |-> ls[y].loc_p, hc_lock_state |-> RSt(0),
                      hc_value |-> vs[y][a - ls[y].loc_a + 1]]
      BY <3>2, <3>4, <1>1 DEF alloc_blocks_heap
    <3>6. heap'[a].hc_value = vs[y][a - ls[y].loc_a + 1]
      BY <3>5
    <3>7. a - st + 1 = i
      BY <2>3
    <3> QED
      BY <3>3, <3>6, <3>7
  <2>5. [i \in 1 .. n |-> heap'[st + i - 1].hc_value] = vs[x]
    <3>1. vs[x] = [i \in 1 .. n |-> vs[x][i]]
      BY <2>3
    <3> QED
      BY <3>1, <2>4
  <2>6. ObjectOf(b)' = [alive    |-> rec.al_alive,
                        on_stack |-> rec.al_kind = "StackAlloc",
                        bytes    |-> IF rec.al_alive
                                     THEN [i \in 1 .. rec.al_len |->
                                             heap'[rec.al_start + i - 1].hc_value]
                                     ELSE <<>>]
    BY DEF ObjectOf
  <2>7. (rec.al_kind = "StackAlloc") = s /\ rec.al_alive = TRUE
    BY <2>1
  <2> HIDE DEF rec, st, n
  <2>8. ObjectOf(b)' = [alive |-> TRUE, on_stack |-> s, bytes |-> vs[x]]
    BY <2>2, <2>5, <2>6, <2>7
  <2> QED
    BY <2>8 DEF Objects!Object
<1>5. DOMAIN objects = DOMAIN allocs /\ \A aid \in DOMAIN allocs : objects[aid] = ObjectOf(aid)
  BY DEF objects
<1>6. objects' = [aid \in DOMAIN allocs' |-> ObjectOf(aid)']
  BY DEF objects
<1>7. objects' = [b \in DOMAIN objects \cup DOMAIN new |->
                    IF b \in DOMAIN new THEN Objects!Object(s, new[b]) ELSE objects[b]]
  BY <1>0, <1>2, <1>3, <1>4, <1>5, <1>6
<1> QED
  BY <1>2, <1>5, <1>7 DEF Objects!Create

\* Freed blocks are dead objects, and the other objects stay as they are.
LEMMA DestroyObjects ==
  ASSUME HeapInv, NEW lys, NEW kind, FreeBlocks(lys, kind),
         NEW old, Names(old, lys)
  PROVE  /\ Objects!Destroy(old)
         /\ \A b \in old : b \in DOMAIN objects /\ objects[b].on_stack = (kind = "StackAlloc")
<1>0. \A b : b \in old <=> \E x \in DOMAIN lys : lys[x].l.loc_p = b
  BY DEF Names
<1>1. /\ can_free_blocks(lys, kind, heap, allocs)
      /\ heap' = free_blocks_heap(lys, heap)
      /\ allocs' = free_blocks_allocs(lys, allocs)
  BY DEF FreeBlocks
<1>2. \A b \in old : b \in DOMAIN allocs /\ allocs[b].al_alive = TRUE /\ allocs[b].al_kind = kind
  <2> SUFFICES ASSUME NEW b \in old
               PROVE  b \in DOMAIN allocs /\ allocs[b].al_alive = TRUE /\ allocs[b].al_kind = kind
    OBVIOUS
  <2>0. PICK x \in DOMAIN lys : lys[x].l.loc_p = b
    BY <1>0
  <2> DEFINE rec == [al_start |-> lys[x].l.loc_a, al_len |-> lys[x].ly,
                     al_alive |-> TRUE, al_kind |-> kind]
  <2>1. lys[x].l.loc_p \in DOMAIN allocs /\ allocs[lys[x].l.loc_p] = rec
    BY <1>1 DEF can_free_blocks
  <2>2. rec.al_alive = TRUE /\ rec.al_kind = kind
    OBVIOUS
  <2> HIDE DEF rec
  <2> QED
    BY <2>0, <2>1, <2>2
<1>3. DOMAIN objects = DOMAIN allocs /\ \A aid \in DOMAIN allocs : objects[aid] = ObjectOf(aid)
  BY DEF objects
<1>4. \A b \in old : objects[b].alive
  BY <1>2, <1>3 DEF ObjectOf
<1>5. \A b \in old : objects[b].on_stack = (kind = "StackAlloc")
  BY <1>2, <1>3 DEF ObjectOf
<1>6. \A b \in DOMAIN allocs \ old : ObjectOf(b)' = ObjectOf(b)
  <2> SUFFICES ASSUME NEW b \in DOMAIN allocs, b \notin old
               PROVE  ObjectOf(b)' = ObjectOf(b)
    OBVIOUS
  <2>1. allocs'[b] = allocs[b]
    BY <1>0, <1>1 DEF free_blocks_allocs
  <2>2. ASSUME allocs[b].al_alive, NEW a \in AddrsOf(allocs[b])
        PROVE  heap'[a].hc_value = heap[a].hc_value
    <3>1. a \in DOMAIN heap
      BY <2>2, Shape
    <3>2. ASSUME NEW x \in DOMAIN lys
          PROVE  a \notin Span(lys[x].l.loc_a, lys[x].ly)
      <4>1. /\ lys[x].l.loc_p \in DOMAIN allocs /\ lys[x].l.loc_p # b
            /\ allocs[lys[x].l.loc_p].al_start = lys[x].l.loc_a
            /\ allocs[lys[x].l.loc_p].al_len = lys[x].ly
            /\ allocs[lys[x].l.loc_p].al_alive
        <5> DEFINE rec == [al_start |-> lys[x].l.loc_a, al_len |-> lys[x].ly,
                           al_alive |-> TRUE, al_kind |-> kind]
        <5>1. lys[x].l.loc_p \in DOMAIN allocs /\ allocs[lys[x].l.loc_p] = rec
          BY <1>1 DEF can_free_blocks
        <5>2. rec.al_alive /\ rec.al_start = lys[x].l.loc_a /\ rec.al_len = lys[x].ly
          OBVIOUS
        <5>3. lys[x].l.loc_p # b
          BY <1>0
        <5> HIDE DEF rec
        <5> QED
          BY <5>1, <5>2, <5>3
      <4>2. AddrsOf(allocs[lys[x].l.loc_p]) \cap AddrsOf(allocs[b]) = {}
        BY <2>2, <4>1, Shape
      <4> QED
        BY <4>1, <4>2, <2>2 DEF AddrsOf
    <3> QED
      BY <1>1, <3>1, <3>2 DEF free_blocks_heap
  <2> QED
    BY <2>1, <2>2, ObjectKept
<1>7. \A b \in old : ObjectOf(b)' = Objects!Dead(objects[b])
  <2> SUFFICES ASSUME NEW b \in old
               PROVE  ObjectOf(b)' = Objects!Dead(objects[b])
    OBVIOUS
  <2> DEFINE rec == allocs'[b]
  <2>1. rec = killed(allocs[b])
    BY <1>0, <1>1, <1>2 DEF free_blocks_allocs
  <2>2. rec.al_alive = FALSE /\ rec.al_kind = kind
    <3>1. allocs[b] \in Allocation
      BY <1>2, Shape DEF IsAllocs
    <3> QED
      BY <2>1, <3>1, <1>2 DEF killed, Allocation
  <2>3. ObjectOf(b)' = [alive    |-> rec.al_alive,
                        on_stack |-> rec.al_kind = "StackAlloc",
                        bytes    |-> IF rec.al_alive
                                     THEN [i \in 1 .. rec.al_len |->
                                             heap'[rec.al_start + i - 1].hc_value]
                                     ELSE <<>>]
    BY DEF ObjectOf
  <2> HIDE DEF rec
  <2>4. ObjectOf(b)' = [alive |-> FALSE, on_stack |-> kind = "StackAlloc", bytes |-> <<>>]
    BY <2>2, <2>3
  <2> QED
    BY <1>5, <2>4 DEF Objects!Dead
<1>8. DOMAIN allocs' = DOMAIN allocs
  BY FreeParts
<1>9. objects' = [b \in DOMAIN objects |->
                    IF b \in old THEN Objects!Dead(objects[b]) ELSE objects[b]]
  <2>1. objects' = [aid \in DOMAIN allocs |-> ObjectOf(aid)']
    BY <1>8 DEF objects
  <2> QED
    BY <2>1, <1>3, <1>6, <1>7
<1> QED
  BY <1>2, <1>3, <1>4, <1>5, <1>9 DEF Objects!Destroy

-----------------------------------------------------------------------------
(* What a step does to the frames of objects. *)

FrameObjects(fs) == [i \in DOMAIN fs |-> ObjectsOfFrame(fs[i])]
IdSets == SUBSET (AllocId \cup {ProvNone})

LEMMA FrameIds ==
  ASSUME NEW cf \in CallFrame
  PROVE  ObjectsOfFrame(cf) \in IdSets
<1> SUFFICES ASSUME NEW x \in live(cf) PROVE cf[x].l.loc_p \in AllocId \cup {ProvNone}
  BY DEF ObjectsOfFrame, IdSets
<1>1. cf[x] \in Local
  BY DEF live, CallFrame
<1> QED
  BY <1>1 DEF Local, Loc

LEMMA FrameObjectsType ==
  ASSUME NEW fs \in Seq(CallFrame)
  PROVE  /\ FrameObjects(fs) \in Seq(IdSets)
         /\ Len(FrameObjects(fs)) = Len(fs)
         /\ \A i \in 1 .. Len(fs) : FrameObjects(fs)[i] = ObjectsOfFrame(fs[i])
<1>1. DOMAIN fs = 1 .. Len(fs) /\ Len(fs) \in Nat /\ \A i \in 1 .. Len(fs) : fs[i] \in CallFrame
  OBVIOUS
<1>2. \A i \in 1 .. Len(fs) : ObjectsOfFrame(fs[i]) \in IdSets
  BY <1>1, FrameIds
<1>3. FrameObjects(fs) = [i \in 1 .. Len(fs) |-> ObjectsOfFrame(fs[i])]
  BY <1>1 DEF FrameObjects
<1> QED
  BY <1>1, <1>2, <1>3

LEMMA FrameObjectsOf ==
  ASSUME NEW fs \in Seq(CallFrame), NEW cf \in CallFrame
  PROVE  /\ FrameObjects(push_frame(fs, cf)) = <<ObjectsOfFrame(cf)>> \o FrameObjects(fs)
         /\ fs # <<>> =>
              /\ FrameObjects(fs) # <<>>
              /\ Head(FrameObjects(fs)) = ObjectsOfFrame(Head(fs))
              /\ FrameObjects(pop_frame(fs)) = Tail(FrameObjects(fs))
              /\ FrameObjects(update_frame(fs, cf))
                   = <<ObjectsOfFrame(cf)>> \o Tail(FrameObjects(fs))
<1> DEFINE F == FrameObjects(fs)
           C == ObjectsOfFrame(cf)
<1>1. F \in Seq(IdSets) /\ Len(F) = Len(fs) /\ C \in IdSets
      /\ \A i \in 1 .. Len(fs) : F[i] = ObjectsOfFrame(fs[i])
  BY FrameObjectsType, FrameIds
<1>2. FrameObjects(push_frame(fs, cf)) = <<C>> \o F
  <2> DEFINE ps == push_frame(fs, cf)
             G  == FrameObjects(ps)
  <2>1. ps \in Seq(CallFrame)
    BY FramesType
  <2>2. Len(ps) = Len(fs) + 1 /\ ps[1] = cf /\ \A i \in 1 .. Len(fs) : ps[i + 1] = fs[i]
    BY FrameIndices
  <2> HIDE DEF ps
  <2>3. G \in Seq(IdSets) /\ Len(G) = Len(ps)
        /\ \A i \in 1 .. Len(ps) : G[i] = ObjectsOfFrame(ps[i])
    BY <2>1, FrameObjectsType
  <2>4. \A i \in 1 .. Len(fs) + 1 : G[i] = IF i = 1 THEN C ELSE F[i - 1]
    <3> SUFFICES ASSUME NEW i \in 1 .. Len(fs) + 1
                 PROVE  G[i] = IF i = 1 THEN C ELSE F[i - 1]
      OBVIOUS
    <3>1. CASE i = 1
      BY <3>1, <2>2, <2>3
    <3>2. CASE i # 1
      <4> DEFINE j == i - 1
      <4>1. j \in 1 .. Len(fs) /\ j + 1 = i
        BY <3>2
      <4>2. ps[j + 1] = fs[j]
        BY <4>1, <2>2
      <4> QED
        BY <3>2, <4>1, <4>2, <2>2, <2>3, <1>1
    <3> QED
      BY <3>1, <3>2
  <2> HIDE DEF G, F, C
  <2>5. /\ <<C>> \o F \in Seq(IdSets) /\ Len(<<C>> \o F) = Len(fs) + 1
        /\ \A i \in 1 .. Len(fs) + 1 : (<<C>> \o F)[i] = IF i = 1 THEN C ELSE F[i - 1]
    BY <1>1
  <2>6. \A i \in 1 .. Len(G) : G[i] = (<<C>> \o F)[i]
    BY <2>2, <2>3, <2>4, <2>5
  <2>7. G = <<C>> \o F
    BY <2>2, <2>3, <2>5, <2>6, SeqEqual
  <2> QED
    BY <2>7 DEF G, ps
<1>3. ASSUME fs # <<>>
      PROVE  /\ F # <<>> /\ Head(F) = ObjectsOfFrame(Head(fs))
             /\ FrameObjects(pop_frame(fs)) = Tail(F)
             /\ FrameObjects(update_frame(fs, cf)) = <<C>> \o Tail(F)
  <2>1. Len(fs) \in Nat /\ Len(fs) >= 1
    BY <1>3
  <2>2. F # <<>> /\ Head(F) = ObjectsOfFrame(Head(fs))
    BY <1>1, <2>1
  <2>3. FrameObjects(pop_frame(fs)) = Tail(F)
    <3> DEFINE ps == pop_frame(fs)
               G  == FrameObjects(ps)
    <3>1. ps \in Seq(CallFrame)
      BY <1>3, FramesType
    <3>2. Len(ps) = Len(fs) - 1 /\ \A i \in 1 .. Len(fs) - 1 : ps[i] = fs[i + 1]
      BY <1>3, FrameIndices
    <3> HIDE DEF ps
    <3>3. G \in Seq(IdSets) /\ Len(G) = Len(ps)
          /\ \A i \in 1 .. Len(ps) : G[i] = ObjectsOfFrame(ps[i])
      BY <3>1, FrameObjectsType
    <3>4. \A i \in 1 .. Len(fs) - 1 : G[i] = F[i + 1]
      <4> SUFFICES ASSUME NEW i \in 1 .. Len(fs) - 1
                   PROVE  G[i] = F[i + 1]
        OBVIOUS
      <4>1. i + 1 \in 1 .. Len(fs) /\ i \in 1 .. Len(ps)
        BY <3>2, <2>1
      <4> QED
        BY <4>1, <3>2, <3>3, <1>1
    <3> HIDE DEF G, F
    <3>5. /\ Tail(F) \in Seq(IdSets) /\ Len(Tail(F)) = Len(fs) - 1
          /\ \A i \in 1 .. Len(fs) - 1 : Tail(F)[i] = F[i + 1]
      BY <1>1, <2>1, <2>2
    <3>6. G = Tail(F)
      BY <3>2, <3>3, <3>4, <3>5, SeqEqual
    <3> QED
      BY <3>6 DEF G, ps
  <2>4. FrameObjects(update_frame(fs, cf)) = <<C>> \o Tail(F)
    <3> DEFINE ps == update_frame(fs, cf)
               G  == FrameObjects(ps)
    <3>1. ps \in Seq(CallFrame)
      BY <1>3, FramesType
    <3>2. Len(ps) = Len(fs) /\ ps[1] = cf /\ \A i \in 2 .. Len(fs) : ps[i] = fs[i]
      BY <1>3, FrameIndices
    <3> HIDE DEF ps
    <3>3. G \in Seq(IdSets) /\ Len(G) = Len(ps)
          /\ \A i \in 1 .. Len(ps) : G[i] = ObjectsOfFrame(ps[i])
      BY <3>1, FrameObjectsType
    <3>4. \A i \in 1 .. Len(fs) : G[i] = IF i = 1 THEN C ELSE F[i]
      <4> SUFFICES ASSUME NEW i \in 1 .. Len(fs)
                   PROVE  G[i] = IF i = 1 THEN C ELSE F[i]
        OBVIOUS
      <4>1. i # 1 => i \in 2 .. Len(fs)
        BY <2>1
      <4> QED
        BY <4>1, <3>2, <3>3, <1>1
    <3> HIDE DEF G, F, C
    <3>5. /\ Tail(F) \in Seq(IdSets) /\ Len(Tail(F)) = Len(fs) - 1
          /\ \A i \in 1 .. Len(fs) - 1 : Tail(F)[i] = F[i + 1]
      BY <1>1, <2>1, <2>2
    <3> DEFINE T == Tail(F)
    <3> HIDE DEF T
    <3>6. /\ <<C>> \o T \in Seq(IdSets) /\ Len(<<C>> \o T) = Len(fs)
          /\ \A i \in 1 .. Len(fs) : (<<C>> \o T)[i] = IF i = 1 THEN C ELSE T[i - 1]
      BY <1>1, <2>1, <3>5 DEF T
    <3>7. \A i \in 1 .. Len(fs) : i # 1 => T[i - 1] = F[i]
      <4> SUFFICES ASSUME NEW i \in 1 .. Len(fs), i # 1
                   PROVE  T[i - 1] = F[i]
        OBVIOUS
      <4>1. i - 1 \in 1 .. Len(fs) - 1 /\ (i - 1) + 1 = i
        BY <2>1
      <4> QED
        BY <4>1, <3>5 DEF T
    <3>8. \A i \in 1 .. Len(fs) : G[i] = (<<C>> \o T)[i]
      BY <3>4, <3>6, <3>7
    <3>9. G = <<C>> \o T
      BY <3>2, <3>3, <3>6, <3>8, SeqEqual
    <3> QED
      BY <3>9 DEF G, T, ps
  <2> QED
    BY <2>2, <2>3, <2>4
<1> QED
  BY <1>2, <1>3

LEMMA StacksStep ==
  ASSUME TypeInv, NEW t \in Thread, NEW fs, frames' = [frames EXCEPT ![t] = fs]
  PROVE  /\ stacks[t] = FrameObjects(frames[t])
         /\ stacks' = [stacks EXCEPT ![t] = FrameObjects(fs)]
<1>1. frames \in [Thread -> Seq(CallFrame)]
  BY DEF TypeInv, TypeOK
<1>2. stacks = [u \in Thread |-> FrameObjects(frames[u])]
  BY DEF stacks, FrameObjects
<1>3. stacks' = [u \in Thread |-> FrameObjects(frames'[u])]
  BY DEF stacks, FrameObjects
<1>4. frames'[t] = fs /\ \A u \in Thread : u # t => frames'[u] = frames[u]
  BY <1>1
<1> QED
  BY <1>2, <1>3, <1>4

LEMMA StacksSame ==
  ASSUME frames' = frames
  PROVE  stacks' = stacks
BY DEF stacks

-----------------------------------------------------------------------------
(* Each step of the semantics is one of the object memory. *)

LEMMA QuietStep ==
  ASSUME out' = Nothing, objects' = objects, stacks' = stacks
  PROVE  Objects!BMNext
BY DEF Objects!BMNext, Objects!Quiet, Nothing

LEMMA SizesAre ==
  /\ AccessSizes \subseteq ObjectSizes /\ BlockSizes \subseteq ObjectSizes
  /\ 0 \in ObjectSizes
  /\ \A f \in Functions : \A x \in DOMAIN f : f[x] \in ObjectSizes
  /\ AccessSizes \subseteq Nat /\ BlockSizes \subseteq Nat
BY LangAssumption DEF ObjectSizes

LEMMA DerefObjects ==
  ASSUME HeapInv, NEW t, NEW o \in {"ScOrd", "Na1Ord", "Na2Ord"}, NEW l \in Loc,
         NEW n \in AccessSizes, NEW ot \in OpTypes, DerefS(t, o, l, n, ot)
  PROVE  Objects!BMNext
<1>1. TypeInv /\ n \in Nat /\ n \in ObjectSizes
  BY SizesAre DEF HeapInv
<1>2. allocs' = allocs /\ frames' = frames /\ heap_at(l, n, DerefStart(o), heap)
  BY DEF DerefS
<1>3. objects' = objects /\ stacks' = stacks
  BY <1>1, <1>2, DerefQuiet, ObjectsSame, StacksSame
<1> DEFINE v == heap_value(l, n, heap)
<1>4. CASE o = "Na1Ord"
  <2>1. out' = Nothing
    BY <1>4 DEF DerefS
  <2> QED
    BY <1>3, <2>1, QuietStep
<1>5. CASE o # "Na1Ord"
  <2>1. out' = mem_cast(v, ot)
    BY <1>5 DEF DerefS
  <2>2. CASE n = 0
    <3>1. v = <<>>
      BY <2>2 DEF heap_value
    <3>2. mem_cast(<<>>, ot) = <<>>
      BY DEF mem_cast
    <3> QED
      BY <1>3, <2>1, <3>1, <3>2, QuietStep DEF Nothing
  <2>3. CASE n # 0
    <3>1. n > 0
      BY <1>1, <2>3
    <3>2. /\ l.loc_p \in DOMAIN objects
          /\ Offset(l) \in Objects!Offsets(l.loc_p)
          /\ Objects!InObject(l.loc_p, Offset(l), n)
          /\ Objects!Part(l.loc_p, Offset(l), n) = v
      BY <1>1, <1>2, <3>1, PartIs
    <3>3. out' \in CastValues(Objects!Part(l.loc_p, Offset(l), n))
      BY <2>1, <3>2 DEF CastValues
    <3> QED
      BY <1>1, <1>3, <3>2, <3>3 DEF Objects!BMNext, Objects!Load
  <2> QED
    BY <2>2, <2>3
<1> QED
  BY <1>4, <1>5

LEMMA AssignObjects ==
  ASSUME HeapInv, NEW t, NEW o \in {"ScOrd", "Na1Ord", "Na2Ord"}, NEW l \in Loc,
         NEW v \in Seq(Byte), Len(v) \in AccessSizes, AssignS(t, o, l, v)
  PROVE  Objects!BMNext
<1> DEFINE n    == Len(v)
           left == IF o = "Na1Ord" THEN heap_value(l, n, heap) ELSE v
<1>1. TypeInv /\ n \in Nat /\ n \in ObjectSizes
  BY SizesAre DEF HeapInv
<1>2. /\ allocs' = allocs /\ frames' = frames /\ out' = Nothing
      /\ heap_at(l, n, AssignStart(o), heap)
      /\ heap' = heap_upd(l, left, AssignEnd(o), heap)
  BY DEF AssignS
<1>3. stacks' = stacks
  BY <1>2, StacksSame
<1>4. CASE o = "Na1Ord"
  <2>1. left = heap_value(l, n, heap)
    BY <1>4
  <2>2. l.loc_a \in Nat
    BY HeapAssumption DEF Loc, Addr
  <2> HIDE DEF n, left
  <2>3. Len(left) = n
    BY <1>1, <2>1 DEF heap_value
  <2>4. ASSUME NEW a \in DOMAIN heap
        PROVE  heap'[a].hc_value = heap[a].hc_value
    <3>1. CASE a \in Span(l.loc_a, n)
      <4>1. a - l.loc_a + 1 \in 1 .. n /\ l.loc_a + (a - l.loc_a + 1) - 1 = a
        BY <1>1, <2>2, <3>1 DEF Span
      <4>2. left[a - l.loc_a + 1] = heap[a].hc_value
        BY <2>1, <4>1 DEF heap_value
      <4> QED
        BY <1>2, <2>3, <3>1, <4>2 DEF heap_upd
    <3>2. CASE a \notin Span(l.loc_a, n)
      BY <1>2, <2>3, <3>2 DEF heap_upd
    <3> QED
      BY <3>1, <3>2
  <2>5. objects' = objects
    BY <1>2, <2>4, ObjectsSame
  <2> QED
    BY <1>2, <1>3, <2>5, QuietStep
<1>5. CASE o # "Na1Ord" /\ n = 0
  <2>1. heap' = heap_upd(l, v, AssignEnd(o), heap) /\ Len(v) = 0
    BY <1>2, <1>5
  <2>2. l.loc_a \in Nat
    BY HeapAssumption DEF Loc, Addr
  <2>3. \A a \in DOMAIN heap : heap'[a].hc_value = heap[a].hc_value
    BY <2>1, <2>2 DEF heap_upd, Span
  <2>4. objects' = objects
    BY <1>2, <2>3, ObjectsSame
  <2> QED
    BY <1>2, <1>3, <2>4, QuietStep
<1>6. CASE o # "Na1Ord" /\ n # 0
  <2>1. heap' = heap_upd(l, v, AssignEnd(o), heap) /\ Len(v) > 0
    BY <1>1, <1>2, <1>6
  <2>2. objects' = Objects!Overwritten(l.loc_p, Offset(l), v)
    BY <1>2, <2>1, WriteIs
  <2>3. /\ l.loc_p \in DOMAIN objects
        /\ Offset(l) \in Objects!Offsets(l.loc_p)
        /\ Objects!InObject(l.loc_p, Offset(l), n)
    BY <1>1, <1>2, <2>1, PartIs
  <2>4. v \in [1 .. n -> Byte]
    OBVIOUS
  <2> HIDE DEF n
  <2>5. Objects!Store
    BY <1>1, <1>2, <1>3, <2>2, <2>3, <2>4 DEF Objects!Store, Nothing
  <2> QED
    BY <2>5 DEF Objects!BMNext
<1> QED
  BY <1>4, <1>5, <1>6

LEMMA CasObjects ==
  ASSUME HeapInv, NEW t \in Thread, NEW l1 \in Loc, NEW l2 \in Loc, NEW n \in AccessSizes,
         NEW v3 \in ValOf(n), CasFailS(t, l1, l2, n) \/ CasSucS(t, l1, l2, n, v3)
  PROVE  Objects!BMNext
<1> DEFINE vo == heap_value(l1, n, heap)
           ve == heap_value(l2, n, heap)
<1>1. TypeInv /\ IsHeap(heap) /\ n \in Nat /\ n \in ObjectSizes
  BY SizesAre, Shape DEF HeapInv
<1>2. /\ allocs' = allocs /\ frames' = frames
      /\ heap_at(l1, n, Nat, heap) /\ heap_at(l2, n, Nat, heap)
      /\ IsInt(vo) /\ IsInt(ve)
  <2>1. allocs' = allocs /\ frames' = frames /\ IsInt(vo) /\ IsInt(ve)
    BY DEF CasFailS, CasSucS
  <2>2. \A l : heap_at(l, n, {RSt(0)}, heap) => heap_at(l, n, Nat, heap)
    BY DEF heap_at, heap_lookup_loc, RSt
  <2>3. heap_at(l1, n, Nat, heap) /\ heap_at(l2, n, Nat, heap)
    BY <2>2 DEF CasFailS, CasSucS
  <2> QED
    BY <2>1, <2>3
<1>3. stacks' = stacks
  BY <1>2, StacksSame
<1>4. n > 0
  <2>1. n = 0 => vo = <<>>
    BY DEF heap_value
  <2> QED
    BY <1>1, <1>2, <2>1 DEF IsInt
<1>5. /\ l1.loc_p \in DOMAIN objects
      /\ Offset(l1) \in Objects!Offsets(l1.loc_p)
      /\ Objects!InObject(l1.loc_p, Offset(l1), n)
      /\ Objects!Part(l1.loc_p, Offset(l1), n) = vo
  BY <1>1, <1>2, <1>4, PartIs
<1>6. /\ l2.loc_p \in DOMAIN objects
      /\ Offset(l2) \in Objects!Offsets(l2.loc_p)
      /\ Objects!InObject(l2.loc_p, Offset(l2), n)
      /\ Objects!Part(l2.loc_p, Offset(l2), n) = ve
  BY <1>1, <1>2, <1>4, PartIs
<1>7. CASE CasFailS(t, l1, l2, n)
  <2>1. /\ vo # ve /\ heap' = heap_upd(l2, vo, Unlocked, heap)
        /\ out' = val_of_bool(FALSE)
    BY <1>7 DEF CasFailS
  <2>2. Span(l1.loc_a, n) \subseteq DOMAIN heap
    BY <1>2 DEF heap_at, heap_lookup_loc
  <2>3. vo \in Seq(Byte) /\ Len(vo) = n
    BY <1>1, <2>2, ValueType
  <2> HIDE DEF vo, ve
  <2>4. objects' = Objects!Overwritten(l2.loc_p, Offset(l2), vo)
    BY <1>2, <1>4, <2>1, <2>3, WriteIs
  <2>5. IntsDiffer(vo, ve)
    BY <1>2, <2>1 DEF IntsDiffer
  <2>6. Objects!CompareExchange
    BY <1>1, <1>3, <1>5, <1>6, <2>1, <2>4, <2>5 DEF Objects!CompareExchange
  <2> QED
    BY <2>6 DEF Objects!BMNext
<1>8. CASE CasSucS(t, l1, l2, n, v3)
  <2>1. /\ vo = ve /\ heap' = heap_upd(l1, v3, Unlocked, heap)
        /\ out' = val_of_bool(TRUE)
    BY <1>8 DEF CasSucS
  <2>2. v3 \in Seq(Byte) /\ Len(v3) = n /\ v3 \in [1 .. n -> Byte]
    BY <1>1 DEF ValOf
  <2> HIDE DEF vo, ve
  <2>4. objects' = Objects!Overwritten(l1.loc_p, Offset(l1), v3)
    BY <1>2, <1>4, <2>1, <2>2, WriteIs
  <2>5. IntsAgree(vo, ve)
    BY <1>2, <2>1 DEF IntsAgree
  <2>6. Objects!CompareExchange
    BY <1>1, <1>3, <1>5, <1>6, <2>1, <2>2, <2>4, <2>5 DEF Objects!CompareExchange
  <2> QED
    BY <2>6 DEF Objects!BMNext
<1> QED
  BY <1>7, <1>8

\* The same for a single block.
LEMMA CreateOne ==
  ASSUME HeapInv, NEW l \in Loc, NEW n \in Nat, NEW kind,
         AllocBlocks(One(l), One(Poison(n)), kind),
         NEW s \in BOOLEAN, s <=> kind = "StackAlloc"
  PROVE  /\ l.loc_p \in AllocId
         /\ Objects!Create(Objects!Single(l.loc_p, Objects!Fresh(n)), s)
<1>1. PICK ls : ls = One(l)
  OBVIOUS
<1>2. PICK vs : vs = One(Poison(n))
  OBVIOUS
<1>3. Given(ls, vs) /\ AllocBlocks(ls, vs, kind)
  BY <1>1, <1>2, OneBlockType DEF Given
<1>4. DOMAIN ls = {"block"} /\ ls["block"] = l /\ vs["block"] = Poison(n)
  BY <1>1, <1>2 DEF One
<1>5. PICK new : new = Objects!Single(l.loc_p, Objects!Fresh(n))
  OBVIOUS
<1>6. DOMAIN new = {l.loc_p} /\ new[l.loc_p] = Poison(n)
  BY <1>5 DEF Objects!Single, Objects!Fresh, Poison
<1>7. \A b : b \in DOMAIN new <=> \E x \in DOMAIN ls : ls[x].loc_p = b
  BY <1>4, <1>6
<1>8. \A x \in DOMAIN ls : new[ls[x].loc_p] = vs[x]
  BY <1>4, <1>6
<1>9. \A x \in DOMAIN ls : ls[x].loc_p \in AllocId
  BY <1>3, AllocParts
<1>10. Objects!Create(new, s)
  <2>1. Named(new, ls, vs)
    BY <1>7, <1>8 DEF Named
  <2> QED
    BY <1>3, <2>1, CreateObjects
<1> QED
  BY <1>4, <1>5, <1>9, <1>10

LEMMA DestroyOne ==
  ASSUME HeapInv, NEW b, NEW kind, FreeBlocks(One(b), kind)
  PROVE  /\ Objects!Destroy({b.l.loc_p})
         /\ b.l.loc_p \in DOMAIN objects
         /\ objects[b.l.loc_p].on_stack = (kind = "StackAlloc")
<1>1. PICK lys : lys = One(b)
  OBVIOUS
<1>2. PICK old : old = {b.l.loc_p}
  OBVIOUS
<1>3. Names(old, lys)
  BY <1>1, <1>2 DEF One, Names
<1>4. FreeBlocks(lys, kind)
  BY <1>1
<1>5. /\ Objects!Destroy(old)
      /\ \A c \in old : c \in DOMAIN objects /\ objects[c].on_stack = (kind = "StackAlloc")
  BY <1>3, <1>4, DestroyObjects
<1> QED
  BY <1>2, <1>5

LEMMA AllocObjects ==
  ASSUME HeapInv, NEW t \in Thread, Alloc(t)
  PROVE  Objects!BMNext
<1>1. PICK l \in Loc, n \in BlockSizes : AllocS(t, l, n)
  BY DEF Alloc
<1>2. /\ n > 0 /\ AllocBlocks(One(l), One(Poison(n)), "HeapAlloc")
      /\ out' = Nothing /\ frames' = frames
  BY <1>1 DEF AllocS
<1>3. n \in Nat /\ n \in ObjectSizes \ {0}
  BY <1>2, SizesAre
<1>4. PICK s \in BOOLEAN : s = FALSE
  OBVIOUS
<1>5. s <=> "HeapAlloc" = "StackAlloc"
  BY <1>4
<1>6. /\ l.loc_p \in AllocId
      /\ Objects!Create(Objects!Single(l.loc_p, Objects!Fresh(n)), s)
  BY <1>2, <1>3, <1>5, CreateOne
<1>7. Objects!New
  BY <1>2, <1>3, <1>4, <1>6, StacksSame DEF Objects!New, Nothing
<1> QED
  BY <1>7 DEF Objects!BMNext

LEMMA FreeObjects ==
  ASSUME HeapInv, NEW t \in Thread, Free(t)
  PROVE  Objects!BMNext
<1>1. PICK l \in Loc, n \in BlockSizes : FreeS(t, l, n)
  BY DEF Free
<1>2. /\ FreeBlocks(One([l |-> l, ly |-> n]), "HeapAlloc")
      /\ out' = Nothing /\ frames' = frames
  BY <1>1 DEF FreeS
<1>3. PICK b : b = [l |-> l, ly |-> n]
  OBVIOUS
<1>4. b.l = l /\ FreeBlocks(One(b), "HeapAlloc")
  BY <1>2, <1>3
<1>6. /\ Objects!Destroy({b.l.loc_p})
      /\ b.l.loc_p \in DOMAIN objects
      /\ objects[b.l.loc_p].on_stack = ("HeapAlloc" = "StackAlloc")
  BY <1>4, DestroyOne
<1>7. ~objects[l.loc_p].on_stack
  BY <1>4, <1>6
<1>8. Objects!Delete
  BY <1>2, <1>4, <1>6, <1>7, StacksSame DEF Objects!Delete, Nothing
<1> QED
  BY <1>8 DEF Objects!BMNext

LEMMA LocalLiveObjects ==
  ASSUME HeapInv, NEW t \in Thread, InBody(t),
         NEW x \in Var, NEW l \in Loc, NEW n \in BlockSizes, LocalLiveS(t, x, l, n)
  PROVE  Objects!BMNext
<1> DEFINE b  == [l |-> l, ly |-> n]
           cf == [Frame(t) EXCEPT ![x] = b]
           fs == update_frame(frames[t], cf)
<1>1. /\ Frame(t)[x] = None /\ AllocBlocks(One(l), One(Poison(n)), "StackAlloc")
      /\ out' = Nothing /\ frames' = [frames EXCEPT ![t] = fs]
  <2>1. TypeInv /\ frames \in [Thread -> Seq(CallFrame)]
    BY DEF HeapInv, TypeInv, TypeOK
  <2> QED
    BY <2>1 DEF LocalLiveS
<1>2. TypeInv /\ HasFrame(t) /\ frames[t] \in Seq(CallFrame)
  BY BodyHasFrame DEF HeapInv, InBody
<1>3. n \in Nat /\ n \in ObjectSizes
  BY SizesAre
<1>4. Frame(t) \in CallFrame
  BY <1>2, FramesType DEF HasFrame, Frame
<1>5. b \in Local /\ b # None /\ b.l = l
  BY <1>3, LangAssumption DEF Local
<1>6. cf \in CallFrame /\ cf[x] = b /\ \A y \in Var : y # x => cf[y] = Frame(t)[y]
  BY <1>4, <1>5 DEF CallFrame
<1>7. PICK s \in BOOLEAN : s = TRUE
  OBVIOUS
<1>8. s <=> "StackAlloc" = "StackAlloc"
  BY <1>7
<1>9. /\ l.loc_p \in AllocId
      /\ Objects!Create(Objects!Single(l.loc_p, Objects!Fresh(n)), s)
  BY <1>1, <1>3, <1>8, CreateOne
<1> HIDE DEF b, cf
<1>10. ObjectsOfFrame(cf) = ObjectsOfFrame(Frame(t)) \cup {l.loc_p}
  <2>1. \A y : y \in live(cf) <=> y = x \/ y \in live(Frame(t))
    BY <1>5, <1>6 DEF live
  <2>2. x \notin live(Frame(t))
    BY <1>1 DEF live
  <2>3. \A y \in live(Frame(t)) : cf[y] = Frame(t)[y]
    BY <1>6, <2>2 DEF live
  <2>4. cf[x].l.loc_p = l.loc_p
    BY <1>5, <1>6
  <2> QED
    BY <2>1, <2>3, <2>4 DEF ObjectsOfFrame
<1>11. /\ stacks[t] = FrameObjects(frames[t])
       /\ stacks' = [stacks EXCEPT ![t] = FrameObjects(fs)]
  BY <1>1, <1>2, StacksStep
<1>12. /\ stacks[t] # <<>> /\ Head(stacks[t]) = ObjectsOfFrame(Frame(t))
       /\ FrameObjects(fs) = <<ObjectsOfFrame(cf)>> \o Tail(stacks[t])
  BY <1>2, <1>6, <1>11, FrameObjectsOf DEF HasFrame, Frame
<1>13. FrameObjects(fs) = <<Head(stacks[t]) \cup {l.loc_p}>> \o Tail(stacks[t])
  BY <1>10, <1>12
<1>14. Objects!Enter(t)
  <2> HIDE DEF fs
  <2>1. stacks' = [stacks EXCEPT ![t] = <<Head(stacks[t]) \cup {l.loc_p}>> \o Tail(stacks[t])]
    BY <1>11, <1>13
  <2> QED
    BY <1>1, <1>3, <1>7, <1>9, <1>12, <2>1 DEF Objects!Enter, Nothing
<1> QED
  BY <1>14 DEF Objects!BMNext

\* No other local of the frame shares the block of a local that goes out of
\* scope: this is where the ownership of blocks is needed.
LEMMA LocalDeadObjects ==
  ASSUME StackInv, NEW t \in Thread, InBody(t), NEW x \in Var, LocalDeadDeallocS(t, x)
  PROVE  Objects!BMNext
<1> DEFINE b  == Frame(t)[x]
           cf == [Frame(t) EXCEPT ![x] = None]
           fs == update_frame(frames[t], cf)
<1>0. HeapInv /\ TypeInv /\ frames \in [Thread -> Seq(CallFrame)]
  BY DEF StackInv, HeapInv, TypeInv, TypeOK
<1>1. /\ b # None /\ FreeBlocks(One(b), "StackAlloc")
      /\ out' = Nothing /\ frames' = [frames EXCEPT ![t] = fs]
  BY <1>0 DEF LocalDeadDeallocS
<1>2. HasFrame(t) /\ frames[t] \in Seq(CallFrame)
  BY <1>0, BodyHasFrame DEF InBody
<1>3. Frame(t) \in CallFrame /\ Frame(t) = frames[t][1] /\ 1 \in 1 .. Len(frames[t])
  BY <1>2, FramesType DEF HasFrame, Frame
<1>4. cf \in CallFrame /\ cf[x] = None /\ \A y \in Var : y # x => cf[y] = Frame(t)[y]
  BY <1>3 DEF CallFrame
<1>5. \A y \in live(Frame(t)) : y # x => Frame(t)[y].l.loc_p # b.l.loc_p
  <2> SUFFICES ASSUME NEW y \in live(Frame(t)), y # x
               PROVE  Frame(t)[y].l.loc_p # b.l.loc_p
    OBVIOUS
  <2>1. y \in Var /\ frames[t][1][y] # None /\ frames[t][1][x] # None
    BY <1>1, <1>3 DEF live
  <2>2. <<t, 1, y>> \in Locals /\ <<t, 1, x>> \in Locals
    BY <1>0, <1>3, <2>1, LocalsAre DEF StackInv
  <2>3. <<t, 1, y>> # <<t, 1, x>>
    OBVIOUS
  <2>4. BlockOfLocal(<<t, 1, y>>).l.loc_p # BlockOfLocal(<<t, 1, x>>).l.loc_p
    BY <2>2, <2>3 DEF StackInv, StackDiscipline
  <2> QED
    BY <1>3, <2>4 DEF BlockOfLocal
<1> HIDE DEF cf
<1>6. ObjectsOfFrame(cf) = ObjectsOfFrame(Frame(t)) \ {b.l.loc_p}
  <2>1. \A y : y \in live(cf) <=> y # x /\ y \in live(Frame(t))
    BY <1>4 DEF live
  <2>2. \A y \in live(cf) : cf[y] = Frame(t)[y]
    BY <1>4, <2>1 DEF live
  <2> QED
    BY <2>1, <2>2, <1>5 DEF ObjectsOfFrame
<1>7. b.l.loc_p \in ObjectsOfFrame(Frame(t))
  BY <1>1 DEF ObjectsOfFrame, live
<1>8. Objects!Destroy({b.l.loc_p})
  BY <1>0, <1>1, DestroyOne
<1>9. /\ stacks[t] = FrameObjects(frames[t])
      /\ stacks' = [stacks EXCEPT ![t] = FrameObjects(fs)]
  BY <1>0, <1>1, StacksStep
<1>10. /\ stacks[t] # <<>> /\ Head(stacks[t]) = ObjectsOfFrame(Frame(t))
       /\ FrameObjects(fs) = <<ObjectsOfFrame(cf)>> \o Tail(stacks[t])
  BY <1>2, <1>4, <1>9, FrameObjectsOf DEF HasFrame, Frame
<1>11. Objects!Leave(t)
  <2> DEFINE bid == b.l.loc_p
  <2> HIDE DEF fs, bid
  <2>1. stacks' = [stacks EXCEPT ![t] = <<Head(stacks[t]) \ {bid}>> \o Tail(stacks[t])]
    BY <1>6, <1>9, <1>10 DEF bid
  <2>2. bid \in Head(stacks[t]) /\ Objects!Destroy({bid})
    BY <1>7, <1>8, <1>10 DEF bid
  <2> QED
    BY <1>1, <1>10, <2>1, <2>2 DEF Objects!Leave, Nothing
<1> QED
  BY <1>11 DEF Objects!BMNext

LEMMA CallObjects ==
  ASSUME HeapInv, NEW t \in Thread, Call(t)
  PROVE  Objects!BMNext
<1>f. PICK f \in Functions : \E ls \in [DOMAIN f -> Loc] :
        \E vs \in [DOMAIN f -> Seq(Byte)] : CallS(t, f, ls, vs)
  BY CallParts
<1>ls. PICK ls \in [DOMAIN f -> Loc] : \E vs \in [DOMAIN f -> Seq(Byte)] : CallS(t, f, ls, vs)
  BY <1>f
<1>1. PICK vs \in [DOMAIN f -> Seq(Byte)] : CallS(t, f, ls, vs)
  BY <1>ls
<1> DEFINE cf  == [x \in Var |-> IF x \in DOMAIN f THEN [l |-> ls[x], ly |-> f[x]] ELSE None]
           fs  == push_frame(frames[t], cf)
           B   == {ls[x].loc_p : x \in DOMAIN f}
           new == [b \in B |-> vs[BlockOf(ls, b)]]
<1>2. TypeInv /\ frames \in [Thread -> Seq(CallFrame)] /\ frames[t] \in Seq(CallFrame)
  BY DEF HeapInv, TypeInv, TypeOK
<1>3. /\ \A x \in DOMAIN f : Len(vs[x]) = f[x]
      /\ AllocBlocks(ls, vs, "StackAlloc")
      /\ out' = Nothing /\ frames' = [frames EXCEPT ![t] = fs]
  BY <1>1, <1>2 DEF CallS
<1>4. /\ DOMAIN ls = DOMAIN f /\ DOMAIN f \subseteq Var
      /\ \A x \in DOMAIN f : f[x] \in Nat /\ [l |-> ls[x], ly |-> f[x]] \in Local
  BY LangAssumption DEF Local
<1>5. \A x \in DOMAIN f : [l |-> ls[x], ly |-> f[x]] # None
  BY <1>4, LangAssumption DEF Local
<1>6. cf \in CallFrame
  BY <1>4 DEF CallFrame
<1>7. ObjectsOfFrame(cf) = B
  <2>1. \A x : x \in live(cf) <=> x \in DOMAIN f
    BY <1>4, <1>5 DEF live
  <2>2. \A x \in DOMAIN f : cf[x].l.loc_p = ls[x].loc_p
    <3> SUFFICES ASSUME NEW x \in DOMAIN f PROVE cf[x].l.loc_p = ls[x].loc_p
      OBVIOUS
    <3>1. cf[x] = [l |-> ls[x], ly |-> f[x]]
      BY <1>4
    <3>2. [l |-> ls[x], ly |-> f[x]].l = ls[x]
      OBVIOUS
    <3> HIDE DEF cf
    <3> QED
      BY <3>1, <3>2
  <2> HIDE DEF cf
  <2> QED
    BY <2>1, <2>2 DEF ObjectsOfFrame
<1>8. \A x \in DOMAIN f : BlockOf(ls, ls[x].loc_p) = x
  <2> SUFFICES ASSUME NEW x \in DOMAIN f PROVE BlockOf(ls, ls[x].loc_p) = x
    OBVIOUS
  <2> DEFINE y == BlockOf(ls, ls[x].loc_p)
  <2>1. y \in DOMAIN ls /\ ls[y].loc_p = ls[x].loc_p
    BY <1>4 DEF BlockOf
  <2>2. \A z, w \in DOMAIN ls : z # w => ls[z].loc_p # ls[w].loc_p
    BY <1>3, AllocParts
  <2> HIDE DEF y
  <2>3. y = x
    BY <1>4, <2>1, <2>2
  <2> QED
    BY <2>3 DEF y
<1>9. DOMAIN new = B /\ \A x \in DOMAIN f : new[ls[x].loc_p] = vs[x]
  BY <1>8
<1> HIDE DEF new, cf, fs
<1>10. Given(ls, vs) /\ Named(new, ls, vs)
  BY <1>4, <1>9 DEF Given, Named
<1>11. PICK s \in BOOLEAN : s = TRUE
  OBVIOUS
<1>12. s <=> "StackAlloc" = "StackAlloc"
  BY <1>11
<1>13. Objects!Create(new, s)
  BY <1>3, <1>10, <1>12, CreateObjects
<1>14. B \in SUBSET (AllocId \ DOMAIN objects)
  <2>1. DOMAIN objects = DOMAIN allocs
    BY DEF objects
  <2>2. \A x \in DOMAIN ls : ls[x].loc_p \in AllocId /\ ls[x].loc_p \notin DOMAIN allocs
    BY <1>3, AllocParts
  <2> QED
    BY <1>4, <2>1, <2>2
<1>15. new \in [B -> UNION {[1 .. n -> Byte] : n \in ObjectSizes}]
  <2>1. \A x \in DOMAIN f : vs[x] \in UNION {[1 .. n -> Byte] : n \in ObjectSizes}
    <3> SUFFICES ASSUME NEW x \in DOMAIN f
                 PROVE  vs[x] \in UNION {[1 .. n -> Byte] : n \in ObjectSizes}
      OBVIOUS
    <3>1. vs[x] \in Seq(Byte) /\ Len(vs[x]) = f[x]
      BY <1>3
    <3>2. vs[x] \in [1 .. f[x] -> Byte]
      BY <3>1
    <3>3. f[x] \in ObjectSizes
      BY SizesAre
    <3> QED
      BY <3>2, <3>3
  <2>2. \A b \in B : new[b] \in UNION {[1 .. n -> Byte] : n \in ObjectSizes}
    <3> SUFFICES ASSUME NEW x \in DOMAIN f
                 PROVE  new[ls[x].loc_p] \in UNION {[1 .. n -> Byte] : n \in ObjectSizes}
      OBVIOUS
    <3> QED
      BY <1>9, <2>1
  <2>3. new = [b \in B |-> new[b]]
    BY DEF new
  <2> QED
    BY <2>2, <2>3
<1>16. stacks' = [stacks EXCEPT ![t] = <<B>> \o stacks[t]]
  <2>1. /\ stacks[t] = FrameObjects(frames[t])
        /\ stacks' = [stacks EXCEPT ![t] = FrameObjects(fs)]
    BY <1>2, <1>3, StacksStep
  <2>2. FrameObjects(fs) = <<ObjectsOfFrame(cf)>> \o stacks[t]
    BY <1>2, <1>6, <2>1, FrameObjectsOf DEF fs
  <2> QED
    BY <1>7, <2>1, <2>2
<1>17. PICK C : C = B
  OBVIOUS
<1>18. Objects!Push(t)
  <2>1. /\ C \in SUBSET (AllocId \ DOMAIN objects)
        /\ new \in [C -> UNION {[1 .. n -> Byte] : n \in ObjectSizes}]
        /\ stacks' = [stacks EXCEPT ![t] = <<C>> \o stacks[t]]
    BY <1>14, <1>15, <1>16, <1>17
  <2>2. Objects!Create(new, TRUE)
    BY <1>11, <1>13
  <2> HIDE DEF B
  <2> QED
    BY <1>3, <2>1, <2>2 DEF Objects!Push, Nothing
<1> QED
  BY <1>18 DEF Objects!BMNext

LEMMA ReturnObjects ==
  ASSUME HeapInv, NEW t \in Thread, Return(t)
  PROVE  Objects!BMNext
<1> DEFINE cf == Frame(t)
           fs == pop_frame(frames[t])
<1>1. InBody(t) /\ ReturnS(t)
  BY DEF Return
<1>2. /\ TypeInv /\ frames \in [Thread -> Seq(CallFrame)]
      /\ HasFrame(t) /\ frames[t] \in Seq(CallFrame)
  <2>1. TypeInv /\ frames \in [Thread -> Seq(CallFrame)]
    BY DEF HeapInv, TypeInv, TypeOK
  <2> QED
    BY <1>1, <2>1, BodyHasFrame DEF InBody
<1>3. /\ FreeBlocks(locals(cf), "StackAlloc")
      /\ out' = Nothing /\ frames' = [frames EXCEPT ![t] = fs]
  BY <1>1, <1>2 DEF ReturnS
<1>4. PICK lys : lys = locals(cf)
  OBVIOUS
<1>5. Names(ObjectsOfFrame(cf), lys)
  <2>1. DOMAIN lys = live(cf) /\ \A x \in live(cf) : lys[x] = cf[x]
    BY <1>4 DEF locals
  <2> HIDE DEF cf
  <2> QED
    BY <2>1 DEF Names, ObjectsOfFrame
<1>6. Objects!Destroy(ObjectsOfFrame(cf))
  <2>1. FreeBlocks(lys, "StackAlloc")
    BY <1>3, <1>4
  <2> QED
    BY <1>5, <2>1, DestroyObjects
<1>7. /\ stacks[t] = FrameObjects(frames[t])
      /\ stacks' = [stacks EXCEPT ![t] = FrameObjects(fs)]
  BY <1>2, <1>3, StacksStep
<1>8. Frame(t) \in CallFrame
  BY <1>2, FramesType DEF HasFrame, Frame
<1>9. /\ stacks[t] # <<>> /\ Head(stacks[t]) = ObjectsOfFrame(cf)
      /\ FrameObjects(fs) = Tail(stacks[t])
  BY <1>2, <1>7, <1>8, FrameObjectsOf DEF HasFrame, Frame
<1>10. Objects!Pop(t)
  <2> HIDE DEF cf, fs
  <2>1. stacks' = [stacks EXCEPT ![t] = Tail(stacks[t])]
    BY <1>7, <1>9
  <2>2. Objects!Destroy(Head(stacks[t]))
    BY <1>6, <1>9
  <2> QED
    BY <1>3, <1>9, <2>1, <2>2 DEF Objects!Pop, Nothing
<1> QED
  BY <1>10 DEF Objects!BMNext

LEMMA ObjectsNext ==
  StackInv /\ [Next]_vars => [Objects!BMNext]_(Objects!bmvars)
<1> SUFFICES ASSUME StackInv, [Next]_vars
             PROVE  [Objects!BMNext]_(Objects!bmvars)
  OBVIOUS
<1>0. HeapInv /\ TypeInv
  BY DEF StackInv, HeapInv
<1>1. CASE UNCHANGED vars
  <2>1. objects' = objects /\ stacks' = stacks /\ out' = out
    BY <1>1 DEF vars, objects, ObjectOf, stacks
  <2> QED
    BY <2>1 DEF Objects!bmvars
<1>2. ASSUME NEW t \in Thread, ThreadStep(t)
      PROVE  Objects!BMNext
  <2>1. CASE Deref(t)
    <3>1. PICK o \in {"ScOrd", "Na1Ord"}, l \in Loc, n \in AccessSizes, ot \in OpTypes :
            DerefS(t, o, l, n, ot)
      BY <2>1 DEF Deref
    <3> QED
      BY <1>0, <3>1, DerefObjects
  <2>2. CASE FinishDeref(t)
    <3>1. ctl[t] \in Redex /\ ctl[t].k = "deref2"
      BY <1>0, <2>2 DEF FinishDeref, TypeInv, TypeOK
    <3>2. ctl[t].l \in Loc /\ ctl[t].n \in AccessSizes /\ ctl[t].ot \in OpTypes
      BY <3>1, RedexParts
    <3>3. DerefS(t, "Na2Ord", ctl[t].l, ctl[t].n, ctl[t].ot)
      BY <2>2 DEF FinishDeref
    <3> QED
      BY <1>0, <3>2, <3>3, DerefObjects
  <2>3. CASE Assign(t)
    <3>1. PICK o \in {"ScOrd", "Na1Ord"}, l \in Loc, n \in AccessSizes :
            \E v \in ValOf(n) : AssignS(t, o, l, v)
      BY <2>3 DEF Assign
    <3>2. PICK v \in ValOf(n) : AssignS(t, o, l, v)
      BY <3>1
    <3>3. v \in Seq(Byte) /\ Len(v) = n
      BY SizesAre DEF ValOf
    <3> QED
      BY <1>0, <3>2, <3>3, AssignObjects
  <2>4. CASE FinishAssign(t)
    <3>1. ctl[t] \in Redex /\ ctl[t].k = "assign2"
      BY <1>0, <2>4 DEF FinishAssign, TypeInv, TypeOK
    <3>2. ctl[t].l \in Loc /\ ctl[t].v \in Seq(Byte) /\ Len(ctl[t].v) \in AccessSizes
      BY <3>1, RedexParts
    <3>3. AssignS(t, "Na2Ord", ctl[t].l, ctl[t].v)
      BY <2>4 DEF FinishAssign
    <3> QED
      BY <1>0, <3>2, <3>3, AssignObjects
  <2>5. CASE CAS(t)
    <3>1. PICK l1 \in Loc, l2 \in Loc, n \in AccessSizes :
            \/ CasFailS(t, l1, l2, n)
            \/ \E v3 \in ValOf(n) : CasSucS(t, l1, l2, n, v3)
      BY <2>5 DEF CAS
    <3>2. CASE CasFailS(t, l1, l2, n)
      <4>1. [i \in 1 .. n |-> MPoison] \in ValOf(n)
        BY DEF ValOf, Byte
      <4> QED
        BY <1>0, <3>2, <4>1, CasObjects
    <3>3. CASE \E v3 \in ValOf(n) : CasSucS(t, l1, l2, n, v3)
      <4>1. PICK v3 \in ValOf(n) : CasSucS(t, l1, l2, n, v3)
        BY <3>3
      <4> QED
        BY <1>0, <4>1, CasObjects
    <3> QED
      BY <3>1, <3>2, <3>3
  <2>6. CASE Alloc(t)
    BY <1>0, <2>6, AllocObjects
  <2>7. CASE Free(t)
    BY <1>0, <2>7, FreeObjects
  <2>8. CASE LocalLive(t)
    <3>1. InBody(t) /\ \E x \in Var, l \in Loc, n \in BlockSizes : LocalLiveS(t, x, l, n)
      BY <2>8 DEF LocalLive
    <3>2. PICK x \in Var, l \in Loc, n \in BlockSizes : LocalLiveS(t, x, l, n)
      BY <3>1
    <3> QED
      BY <1>0, <3>1, <3>2, LocalLiveObjects
  <2>9. CASE LocalDead(t)
    <3>1. InBody(t) /\ \E x \in Var : LocalDeadDeallocS(t, x) \/ LocalDeadNopS(t, x)
      BY <2>9 DEF LocalDead
    <3>2. PICK x \in Var : LocalDeadDeallocS(t, x) \/ LocalDeadNopS(t, x)
      BY <3>1
    <3>3. CASE LocalDeadDeallocS(t, x)
      BY <3>1, <3>3, LocalDeadObjects
    <3>4. CASE LocalDeadNopS(t, x)
      <4>1. out' = Nothing /\ heap' = heap /\ allocs' = allocs /\ frames' = frames
        BY <3>4 DEF LocalDeadNopS
      <4> QED
        BY <1>0, <4>1, ObjectsSame, StacksSame, QuietStep
    <3> QED
      BY <3>2, <3>3, <3>4
  <2>10. CASE Call(t)
    BY <1>0, <2>10, CallObjects
  <2>11. CASE AllocFail(t) \/ CallFail(t)
    <3>1. out' = Nothing /\ heap' = heap /\ allocs' = allocs /\ frames' = frames
      BY <2>11 DEF AllocFail, CallFail, FailAlloc
    <3> QED
      BY <1>0, <3>1, ObjectsSame, StacksSame, QuietStep
  <2>12. CASE Return(t)
    BY <1>0, <2>12, ReturnObjects
  <2> QED
    BY <1>2, <2>1, <2>2, <2>3, <2>4, <2>5, <2>6, <2>7, <2>8, <2>9, <2>10, <2>11, <2>12
       DEF ThreadStep
<1> QED
  BY <1>1, <1>2 DEF Next

LEMMA ObjectsInit == Init => Objects!BMInit
<1> SUFFICES ASSUME Init PROVE Objects!BMInit
  OBVIOUS
<1>1. objects = [b \in {} |-> 0]
  BY DEF Init, objects
<1>2. stacks = [t \in Thread |-> <<>>]
  BY DEF Init, stacks
<1> QED
  BY <1>1, <1>2 DEF Objects!BMInit, Init, Nothing

-----------------------------------------------------------------------------

\* Every behaviour of the operational semantics is a behaviour of separate
\* objects: a read delivers bytes of one object that is alive, a write
\* changes bytes of one such object, both at one instant although the code
\* takes two steps under a lock (DerefS, AssignS), and the calls and returns
\* of a thread create and destroy exactly the objects of its own frames.
THEOREM Implements == Spec => ImplementsObjects
BY ObjectsInit, ObjectsNext, StackAlways, PTL DEF Spec, ImplementsObjects, Objects!BMSpec
=============================================================================
