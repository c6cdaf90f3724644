---------------------------- MODULE CaesiumLang ----------------------------
(***************************************************************************)
(* The steps of the Radium operational semantics that touch the state      *)
(* (theories/caesium/lang.v, expr_step and stmt_step): threads that share  *)
(* a heap, each with a stack of call frames.                               *)
(*                                                                         *)
(* A non-atomic access takes two steps.  The first (Na1Ord) moves the lock *)
(* state of every byte it covers and leaves the same redex with order      *)
(* Na2Ord behind; the second undoes the lock and delivers the effect.  A   *)
(* redex no rule applies to is stuck, and stuck means undefined behaviour; *)
(* in particular, a data race is stuck.                                    *)
(*                                                                         *)
(* The program is arbitrary: a thread in a function body may evaluate any  *)
(* redex next.  A redex no rule applies to leaves its thread where it is,  *)
(* so it is not a step here.                                               *)
(***************************************************************************)
EXTENDS CaesiumHeap, FiniteSets

CONSTANTS
  Thread,        \* thread_id: the domain of st_thread, which never changes
  Var,           \* names of local variables
  None,          \* cf_locals !! x = None: x is not allocated
  Functions,     \* st_fntbl: each function is given by the layout of its
                 \* arguments, a function from variables to sizes
  OpTypes,       \* bound: the types of the reads a program makes
  AccessSizes,   \* bound: the sizes of the accesses a program makes
  BlockSizes,    \* bound: the sizes of the blocks a program allocates
  MaxFrames      \* bound: how deep calls nest

NoArgs == [x \in {} |-> 0]

ASSUME LangAssumption ==
  /\ IsFiniteSet(Thread)
  /\ \A f \in Functions : f \in [DOMAIN f -> Nat] /\ DOMAIN f \subseteq Var
  /\ None \notin [l : Loc, ly : Nat]
  /\ NoArgs \in Functions          \* main takes no arguments
  /\ OpTypes \subseteq OpType
  /\ AccessSizes \subseteq Nat
  /\ BlockSizes \subseteq Nat
  /\ MaxFrames \in Nat

VARIABLES
  heap,     \* hs_heap
  allocs,   \* hs_allocs
  frames,   \* frames[t]: ts_frames of t, the innermost frame first
  ctl,      \* ctl[t]: the redex t is at
  out       \* the bytes the last step evaluated its redex to, for its
            \* thread to go on with (none after any but a read or a CAS)

vars == <<heap, allocs, frames, ctl, out>>

-----------------------------------------------------------------------------
(* Redexes.  Body: inside a function body, about to evaluate any redex.    *)
(* The other states force the next step.                                   *)

InitialProg       == [k |-> "initial_prog"]     \* Call main []
Body              == [k |-> "body"]
AllocFailed       == [k |-> "alloc_failed"]     \* loops for ever
Returned          == [k |-> "returned"]         \* main has returned
Deref2(l, n, ot)  == [k |-> "deref2", l |-> l, n |-> n, ot |-> ot]
Assign2(l, v)     == [k |-> "assign2", l |-> l, v |-> v]

ValOf(n) == [1 .. n -> Byte]
Nothing  == <<>>
Redex ==
  {InitialProg, Body, AllocFailed, Returned}
  \cup {Deref2(l, n, ot) : l \in Loc, n \in AccessSizes, ot \in OpTypes}
  \cup UNION {{Assign2(l, v) : l \in Loc, v \in ValOf(n)} : n \in AccessSizes}

Local == [l : Loc, ly : Nat]

\* A call_frame is cf_locals, a finite map from variables to blocks.
CallFrame   == [Var -> Local \cup {None}]
live(cf)    == {x \in Var : cf[x] # None}
locals(cf)  == [x \in live(cf) |-> cf[x]]

\* thread_get_frame, pop_frame, thread_push_frame, thread_update_frame.
HasFrame(t)            == frames[t] # <<>>
Frame(t)               == Head(frames[t])
pop_frame(fs)          == Tail(fs)
push_frame(fs, cf)     == <<cf>> \o fs
update_frame(fs, cf)   == <<cf>> \o Tail(fs)

Init ==
  /\ heap   = [a \in {} |-> 0]
  /\ allocs = [aid \in {} |-> 0]
  /\ frames = [t \in Thread |-> <<>>]
  /\ ctl    = [t \in Thread |-> InitialProg]
  /\ out    = Nothing

-----------------------------------------------------------------------------
(* Memory accesses. *)

\* DerefS: what each order asks of the lock state and does to it.
DerefStart(o) == IF o = "Na2Ord" THEN Nat \ {0} ELSE Nat

DerefEnd(o) ==
  [st \in LockState |-> CASE o = "Na1Ord" -> st + 1
                         [] o = "Na2Ord" -> st - 1
                         [] OTHER        -> st]

DerefS(t, o, l, n, ot) ==
  /\ heap_at(l, n, DerefStart(o), heap)
  /\ LET v == heap_value(l, n, heap)
     IN  /\ heap' = heap_upd(l, v, DerefEnd(o), heap)
         /\ IF o = "Na1Ord"
            THEN /\ ctl' = [ctl EXCEPT ![t] = Deref2(l, n, ot)]
                 /\ out' = Nothing
            ELSE /\ ctl' = [ctl EXCEPT ![t] = Body]
                 /\ out' = mem_cast(v, ot)
  /\ UNCHANGED <<allocs, frames>>

\* Mutants: a write may start while reads are in progress; the second step
\* of a write releases its lock as the second step of a read does.
mut_write_during_reads(o) == IF o = "Na2Ord" THEN {WSt} ELSE Nat
mut_release_as_reader(o) ==
  [st \in LockState |-> IF o = "Na1Ord" THEN WSt ELSE st - 1]

\* AssignS: lock before and after, and the value left in memory.
AssignStart(o) == {IF o = "Na2Ord" THEN WSt ELSE RSt(0)}
AssignEnd(o)   ==
  [st \in LockState |-> IF o = "Na1Ord" THEN WSt ELSE RSt(0)]

AssignS(t, o, l, v) ==
  /\ heap_at(l, Len(v), AssignStart(o), heap)
  /\ LET left == IF o = "Na1Ord" THEN heap_value(l, Len(v), heap) ELSE v
     IN  heap' = heap_upd(l, left, AssignEnd(o), heap)
  /\ ctl' = [ctl EXCEPT ![t] = IF o = "Na1Ord" THEN Assign2(l, v) ELSE Body]
  /\ out' = Nothing
  /\ UNCHANGED <<allocs, frames>>

\* CasFailS: the two integers differ; the one read at l1 is stored at l2.
CasFailS(t, l1, l2, n) ==
  LET vo == heap_value(l1, n, heap)
      ve == heap_value(l2, n, heap)
  IN  /\ heap_at(l1, n, Nat, heap)
      /\ heap_at(l2, n, {RSt(0)}, heap)
      /\ IsInt(vo) /\ IsInt(ve) /\ vo # ve
      /\ heap' = heap_upd(l2, vo, Unlocked, heap)
      /\ out' = val_of_bool(FALSE)
      /\ UNCHANGED <<allocs, frames, ctl>>

\* Mutant: the write of a CAS does not wait for readers.
mut_cas_during_reads(t, l1, l2, n, v3) ==
  LET vo == heap_value(l1, n, heap)
      ve == heap_value(l2, n, heap)
  IN  /\ heap_at(l1, n, Nat, heap)
      /\ heap_at(l2, n, Nat, heap)
      /\ IsInt(vo) /\ IsInt(ve) /\ vo = ve
      /\ heap' = heap_upd(l1, v3, Unlocked, heap)
      /\ out' = val_of_bool(TRUE)
      /\ UNCHANGED <<allocs, frames, ctl>>

\* CasSucS: they agree; v3 is stored at l1.
CasSucS(t, l1, l2, n, v3) ==
  LET vo == heap_value(l1, n, heap)
      ve == heap_value(l2, n, heap)
  IN  /\ heap_at(l1, n, {RSt(0)}, heap)
      /\ heap_at(l2, n, Nat, heap)
      /\ IsInt(vo) /\ IsInt(ve) /\ vo = ve
      /\ heap' = heap_upd(l1, v3, Unlocked, heap)
      /\ out' = val_of_bool(TRUE)
      /\ UNCHANGED <<allocs, frames, ctl>>

-----------------------------------------------------------------------------
(* Allocation. *)

AllocBlocks(ls, vs, kind) ==
  /\ can_alloc_blocks(ls, vs, heap, allocs)
  /\ heap' = alloc_blocks_heap(ls, vs, heap)
  /\ allocs' = alloc_blocks_allocs(ls, vs, kind, allocs)

FreeBlocks(lys, kind) ==
  /\ can_free_blocks(lys, kind, heap, allocs)
  /\ heap' = free_blocks_heap(lys, heap)
  /\ allocs' = free_blocks_allocs(lys, allocs)

Poison(n) == [i \in 1 .. n |-> MPoison]
One(e)    == [x \in {"block"} |-> e]

\* AllocS: a fresh heap block.  A size of zero is undefined behaviour.
AllocS(t, l, n) ==
  /\ n > 0
  /\ AllocBlocks(One(l), One(Poison(n)), "HeapAlloc")
  /\ out' = Nothing
  /\ UNCHANGED <<frames, ctl>>

FreeS(t, l, n) ==
  /\ n > 0
  /\ FreeBlocks(One([l |-> l, ly |-> n]), "HeapAlloc")
  /\ out' = Nothing
  /\ UNCHANGED <<frames, ctl>>

\* Mutant: a second StorageLive of a local forgets its first block.
mut_live_twice(t, x, l, n) ==
  /\ AllocBlocks(One(l), One(Poison(n)), "StackAlloc")
  /\ LET cf == [Frame(t) EXCEPT ![x] = [l |-> l, ly |-> n]]
     IN  frames' = [frames EXCEPT ![t] = update_frame(@, cf)]
  /\ out' = Nothing
  /\ UNCHANGED ctl

\* LocalLiveS, LocalDeadDeallocS and LocalDeadNopS: StorageLive and
\* StorageDead of a local of the innermost frame.
LocalLiveS(t, x, l, n) ==
  /\ Frame(t)[x] = None
  /\ AllocBlocks(One(l), One(Poison(n)), "StackAlloc")
  /\ LET cf == [Frame(t) EXCEPT ![x] = [l |-> l, ly |-> n]]
     IN  frames' = [frames EXCEPT ![t] = update_frame(@, cf)]
  /\ out' = Nothing
  /\ UNCHANGED ctl

LocalDeadDeallocS(t, x) ==
  /\ Frame(t)[x] # None
  /\ FreeBlocks(One(Frame(t)[x]), "StackAlloc")
  /\ LET cf == [Frame(t) EXCEPT ![x] = None]
     IN  frames' = [frames EXCEPT ![t] = update_frame(@, cf)]
  /\ out' = Nothing
  /\ UNCHANGED ctl

LocalDeadNopS(t, x) ==
  /\ Frame(t)[x] = None
  /\ out' = Nothing
  /\ UNCHANGED <<heap, allocs, frames, ctl>>

\* CallS: stack blocks for the arguments, filled with their values, in a
\* new frame.
CallS(t, f, ls, vs) ==
  /\ \A x \in DOMAIN f : Len(vs[x]) = f[x]
  /\ AllocBlocks(ls, vs, "StackAlloc")
  /\ LET cf == [x \in Var |-> IF x \in DOMAIN f
                             THEN [l |-> ls[x], ly |-> f[x]] ELSE None]
     IN  frames' = [frames EXCEPT ![t] = push_frame(@, cf)]
  /\ ctl' = [ctl EXCEPT ![t] = Body]
  /\ out' = Nothing

\* ReturnS: every local of the innermost frame is freed.  When main
\* returns, its thread is a value.
ReturnS(t) ==
  /\ FreeBlocks(locals(Frame(t)), "StackAlloc")
  /\ frames' = [frames EXCEPT ![t] = pop_frame(@)]
  /\ ctl' = [ctl EXCEPT ![t] = IF Len(frames[t]) = 1 THEN Returned ELSE Body]
  /\ out' = Nothing

\* AllocFailS, LocalLiveFailS and CallFailS: running out of memory is not
\* undefined behaviour, the thread loops for ever (AllocFailedStep).
FailAlloc(t) ==
  /\ ctl' = [ctl EXCEPT ![t] = AllocFailed]
  /\ out' = Nothing
  /\ UNCHANGED <<heap, allocs, frames>>

-----------------------------------------------------------------------------
(* The steps of a thread. *)

InBody(t) == ctl[t] = Body

Deref(t) ==
  /\ InBody(t)
  /\ \E o \in {"ScOrd", "Na1Ord"}, l \in Loc, n \in AccessSizes, ot \in OpTypes :
       DerefS(t, o, l, n, ot)

FinishDeref(t) ==
  /\ ctl[t].k = "deref2"
  /\ DerefS(t, "Na2Ord", ctl[t].l, ctl[t].n, ctl[t].ot)

Assign(t) ==
  /\ InBody(t)
  /\ \E o \in {"ScOrd", "Na1Ord"}, l \in Loc, n \in AccessSizes :
       \E v \in ValOf(n) : AssignS(t, o, l, v)

FinishAssign(t) ==
  /\ ctl[t].k = "assign2"
  /\ AssignS(t, "Na2Ord", ctl[t].l, ctl[t].v)

CAS(t) ==
  /\ InBody(t)
  /\ \E l1, l2 \in Loc, n \in AccessSizes :
       \/ CasFailS(t, l1, l2, n)
       \/ \E v3 \in ValOf(n) : CasSucS(t, l1, l2, n, v3)

Alloc(t) ==
  /\ InBody(t)
  /\ \E l \in Loc, n \in BlockSizes : AllocS(t, l, n)

AllocFail(t) == InBody(t) /\ FailAlloc(t)

Free(t) ==
  /\ InBody(t)
  /\ \E l \in Loc, n \in BlockSizes : FreeS(t, l, n)

LocalLive(t) ==
  /\ InBody(t)
  /\ \E x \in Var, l \in Loc, n \in BlockSizes : LocalLiveS(t, x, l, n)

LocalDead(t) ==
  /\ InBody(t)
  /\ \E x \in Var : LocalDeadDeallocS(t, x) \/ LocalDeadNopS(t, x)

Call(t) ==
  /\ \/ InBody(t)
     \/ ctl[t] = InitialProg
  /\ Len(frames[t]) < MaxFrames
  /\ \E f \in IF InBody(t) THEN Functions ELSE {NoArgs} :
       \E ls \in [DOMAIN f -> Loc] :
         \E vs \in [DOMAIN f -> UNION {ValOf(f[x]) : x \in DOMAIN f}] :
           CallS(t, f, ls, vs)

CallFail(t) ==
  /\ \/ InBody(t)
     \/ ctl[t] = InitialProg
  /\ FailAlloc(t)

Return(t) == InBody(t) /\ ReturnS(t)

ThreadStep(t) ==
  \/ Deref(t) \/ FinishDeref(t)
  \/ Assign(t) \/ FinishAssign(t)
  \/ CAS(t)
  \/ Alloc(t) \/ AllocFail(t) \/ Free(t)
  \/ LocalLive(t) \/ LocalDead(t)
  \/ Call(t) \/ CallFail(t) \/ Return(t)

Next == \E t \in Thread : ThreadStep(t)

Spec == Init /\ [][Next]_vars

-----------------------------------------------------------------------------
(* Properties. *)

\* Every variable keeps its shape: the heap and the allocation table are
\* finite maps over cells and allocations, the frames of a thread map
\* variables to blocks, and a thread is at one of the redexes above.
TypeOK ==
  /\ IsHeap(heap)
  /\ IsAllocs(allocs)
  /\ frames \in [Thread -> Seq(CallFrame)]
  /\ ctl \in [Thread -> Redex]
  /\ out \in Seq(Byte)

\* heap_state_invariant (heap.v): the cells of the heap are the addresses of
\* the blocks that are alive, which are disjoint and in range.
HeapInvariant == heap_state_invariant(heap, allocs)

\* The addresses that a redex is half-way through reading, or writing,
\* non-atomically, and the threads that are at such a redex.
read_span(r)  == IF r.k = "deref2" THEN Span(r.l.loc_a, r.n) ELSE {}
write_span(r) == IF r.k = "assign2" THEN Span(r.l.loc_a, Len(r.v)) ELSE {}
ReadSpan(t)   == read_span(ctl[t])
WriteSpan(t)  == write_span(ctl[t])
Readers(a)    == {t \in Thread : a \in ReadSpan(t)}
Writers(a)    == {t \in Thread : a \in WriteSpan(t)}

\* What DerefS and AssignS leave between their two steps: a cell is locked
\* for writing exactly while one thread is half-way through writing it, and
\* otherwise counts the threads that are half-way through reading it.  The
\* atomic accesses, CAS and the deallocations, which set lock states without
\* looking at the threads, never lose or invent a lock.
LockAccounting ==
  \A a \in DOMAIN heap :
    \/ /\ heap[a].hc_lock_state = WSt
       /\ Cardinality(Writers(a)) = 1 /\ Readers(a) = {}
    \/ /\ heap[a].hc_lock_state = RSt(Cardinality(Readers(a)))
       /\ Writers(a) = {}

\* Once the first step of a non-atomic access is taken, the second can never
\* get stuck: what it asks of the cells still holds, whatever the other
\* threads have done since.  A data race is only ever detected at the first.
SecondStepNeverStuck ==
  \A t \in Thread :
    /\ ctl[t].k = "deref2" =>
         heap_at(ctl[t].l, ctl[t].n, DerefStart("Na2Ord"), heap)
    /\ ctl[t].k = "assign2" =>
         heap_at(ctl[t].l, Len(ctl[t].v), AssignStart("Na2Ord"), heap)

\* The blocks a frame owns: LocalLive and Call give a local a stack block of
\* its own, and LocalDead and Return take it back.  No two locals, of one
\* frame or of any two, share a block, and no stack block outlives its local.
Locals == {c \in Thread \X (1 .. MaxFrames) \X Var :
             c[2] \in DOMAIN frames[c[1]] /\ c[3] \in live(frames[c[1]][c[2]])}
BlockOfLocal(c) == frames[c[1]][c[2]][c[3]]
StackDiscipline ==
  /\ \A c \in Locals :
       LET b == BlockOfLocal(c)
       IN  /\ b.l.loc_p \in DOMAIN allocs
           /\ allocs[b.l.loc_p] =
                [al_start |-> b.l.loc_a, al_len |-> b.ly,
                 al_alive |-> TRUE, al_kind |-> "StackAlloc"]
  /\ \A c, d \in Locals :
       c # d => BlockOfLocal(c).l.loc_p # BlockOfLocal(d).l.loc_p
  /\ \A aid \in DOMAIN allocs :
       allocs[aid].al_alive /\ allocs[aid].al_kind = "StackAlloc" =>
         \E c \in Locals : BlockOfLocal(c).l.loc_p = aid

\* A thread runs a body exactly while it has a frame, so that Return and
\* LocalLive always find one.
FrameWhileRunning ==
  \A t \in Thread :
    /\ ctl[t] \in {InitialProg, Returned} => frames[t] = <<>>
    /\ ctl[t] \notin {InitialProg, Returned, AllocFailed} => HasFrame(t)

\* No step changes, frees or makes available the bytes another thread is
\* half-way through reading or writing; and the bytes a thread reads between
\* its two steps do not change even by its own doing, so that it returns the
\* value it saw first.
AccessUndisturbed ==
  [][\A t \in Thread : \A a \in ReadSpan(t) \cup WriteSpan(t) :
       /\ a \in DOMAIN heap
       /\ a \in DOMAIN heap' /\ heap'[a].hc_alloc_id = heap[a].hc_alloc_id
       /\ heap'[a].hc_value # heap[a].hc_value =>
            a \in WriteSpan(t) /\ ctl'[t] # ctl[t]]_vars

\* An allocation identifier is used once: a block is never moved, resized or
\* forgotten, and never comes back to life.
IdentifiersUsedOnce ==
  [][\A aid \in DOMAIN allocs :
       /\ aid \in DOMAIN allocs'
       /\ allocs'[aid] \in {allocs[aid], killed(allocs[aid])}]_vars

\* Dangling pointers: a thread that reads or writes a cell non-atomically
\* does so in a block that is alive, of its pointer's own provenance, for the
\* whole of the access.
NoUseAfterFree ==
  \A t \in Thread :
    \A a \in ReadSpan(t) \cup WriteSpan(t) :
      /\ alloc_id_alive(ctl[t].l.loc_p, allocs)
      /\ a \in AddrsOf(allocs[ctl[t].l.loc_p])
=============================================================================
