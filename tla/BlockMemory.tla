---------------------------- MODULE BlockMemory ----------------------------
(***************************************************************************)
(* What the memory of CaesiumLang promises to a program without undefined  *)
(* behaviour, as a reader of Rust thinks of it: separate objects instead   *)
(* of one flat address space, reads and writes that happen at one instant  *)
(* instead of in two steps, and no lock states at all.                     *)
(***************************************************************************)
EXTENDS Integers, Sequences

CONSTANTS
  BlockId,     \* names of objects
  Owner,       \* threads
  Bytes,       \* what a byte of an object can be
  Init0,       \* the byte of an object nothing was written to
  Sizes,       \* the sizes of reads and writes, and of objects
  Cast(_),     \* the values a typed read may deliver for given bytes
  Differ(_,_), \* two values are integers that differ
  Agree(_,_),  \* two values are integers that agree
  Bool(_)      \* the value of a boolean

VARIABLES
  blocks,   \* every object there has ever been: alive, on_stack, bytes
  stack,    \* stack[t]: the objects of each frame of t, the innermost first
  out       \* what the last step delivered

bmvars == <<blocks, stack, out>>

Dead(b)  == [alive |-> FALSE, on_stack |-> b.on_stack, bytes |-> <<>>]
Object(s, v) == [alive |-> TRUE, on_stack |-> s, bytes |-> v]

\* The n bytes from offset o on are in object b, which is alive.
InObject(b, o, n) == blocks[b].alive /\ o + n <= Len(blocks[b].bytes)
Part(b, o, n)     == SubSeq(blocks[b].bytes, o + 1, o + n)
Offsets(b)        == 0 .. Len(blocks[b].bytes)

Overwritten(b, o, v) ==
  LET old == blocks[b].bytes
  IN  [blocks EXCEPT ![b] =
         Object(@.on_stack,
                [i \in DOMAIN old |->
                   IF i \in (o + 1) .. (o + Len(v)) THEN v[i - o] ELSE old[i]])]

Quiet == out' = <<>> /\ UNCHANGED <<blocks, stack>>

Load ==
  /\ \E b \in DOMAIN blocks, n \in Sizes : \E o \in Offsets(b) :
       InObject(b, o, n) /\ out' \in Cast(Part(b, o, n))
  /\ UNCHANGED <<blocks, stack>>

Store ==
  /\ \E b \in DOMAIN blocks, n \in Sizes : \E o \in Offsets(b) :
       /\ InObject(b, o, n)
       /\ \E v \in [1 .. n -> Bytes] : blocks' = Overwritten(b, o, v)
  /\ out' = <<>>
  /\ UNCHANGED stack

\* Compare the values at two places: if they differ the first is stored in
\* the second, and if they agree a new value is stored in the first.
CompareExchange ==
  /\ \E b, c \in DOMAIN blocks, n \in Sizes :
       \E o \in Offsets(b), p \in Offsets(c) :
         /\ InObject(b, o, n) /\ InObject(c, p, n)
         /\ LET vb == Part(b, o, n)
                vc == Part(c, p, n)
            IN  \/ /\ Differ(vb, vc)
                   /\ blocks' = Overwritten(c, p, vb)
                   /\ out' = Bool(FALSE)
                \/ /\ Agree(vb, vc)
                   /\ \E v \in [1 .. n -> Bytes] :
                        blocks' = Overwritten(b, o, v)
                   /\ out' = Bool(TRUE)
  /\ UNCHANGED stack

\* New objects, one for each name in new, with the bytes new gives it.
Create(new, on_stack) ==
  /\ DOMAIN new \cap DOMAIN blocks = {}
  /\ blocks' = [b \in DOMAIN blocks \cup DOMAIN new |->
                  IF b \in DOMAIN new THEN Object(on_stack, new[b])
                  ELSE blocks[b]]

Destroy(old) ==
  /\ \A b \in old : blocks[b].alive
  /\ blocks' = [b \in DOMAIN blocks |->
                  IF b \in old THEN Dead(blocks[b]) ELSE blocks[b]]

Fresh(n) == [i \in 1 .. n |-> Init0]
Single(b, v) == [c \in {b} |-> v]

New ==
  /\ \E b \in BlockId, n \in Sizes \ {0} : Create(Single(b, Fresh(n)), FALSE)
  /\ out' = <<>>
  /\ UNCHANGED stack

Delete ==
  /\ \E b \in DOMAIN blocks : ~blocks[b].on_stack /\ Destroy({b})
  /\ out' = <<>>
  /\ UNCHANGED stack

\* A local comes into scope or goes out of it.
Enter(t) ==
  /\ stack[t] # <<>>
  /\ \E b \in BlockId, n \in Sizes :
       /\ Create(Single(b, Fresh(n)), TRUE)
       /\ stack' = [stack EXCEPT ![t] = <<Head(@) \cup {b}>> \o Tail(@)]
  /\ out' = <<>>

Leave(t) ==
  /\ stack[t] # <<>>
  /\ \E b \in Head(stack[t]) :
       /\ Destroy({b})
       /\ stack' = [stack EXCEPT ![t] = <<Head(@) \ {b}>> \o Tail(@)]
  /\ out' = <<>>

\* A call makes a frame of objects, a return destroys exactly those.
Push(t) ==
  /\ \E B \in SUBSET (BlockId \ DOMAIN blocks) :
       /\ \E new \in [B -> UNION {[1 .. n -> Bytes] : n \in Sizes}] :
            Create(new, TRUE)
       /\ stack' = [stack EXCEPT ![t] = <<B>> \o @]
  /\ out' = <<>>

Pop(t) ==
  /\ stack[t] # <<>>
  /\ Destroy(Head(stack[t]))
  /\ stack' = [stack EXCEPT ![t] = Tail(@)]
  /\ out' = <<>>

BMInit ==
  /\ blocks = [b \in {} |-> 0]
  /\ stack  = [t \in Owner |-> <<>>]
  /\ out    = <<>>

BMNext ==
  \/ Quiet \/ Load \/ Store \/ CompareExchange \/ New \/ Delete
  \/ \E t \in Owner : Enter(t) \/ Leave(t) \/ Push(t) \/ Pop(t)

BMSpec == BMInit /\ [][BMNext]_bmvars
=============================================================================
