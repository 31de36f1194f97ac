--------------------------- MODULE AlignedBuffer ----------------------------
(***************************************************************************)
(* AlignedBuffer (column.hpp, column.cpp), the memory under every chunk: a *)
(* pointer that owns its block and a size kept next to it.  Copying is     *)
(* written by hand, moving is the compiler's: it takes the pointer along   *)
(* and leaves the size of the source where it was.                         *)
(***************************************************************************)
EXTENDS Integers, Sequences

CONSTANTS
  Buffer,      \* the AlignedBuffer objects
  Block,       \* the blocks alloc_aligned may return
  Byte,        \* what a client stores
  Garbage,     \* the contents of a block nobody has stored to
  Null,        \* nullptr
  Free,        \* a block that is not allocated
  Alignment,   \* 64
  MaxBytes     \* bound on the argument of resize

ASSUME BufferAssumption ==
  /\ Alignment \in Nat \ {0} /\ MaxBytes \in Nat
  /\ Null \notin Block
  /\ Free \notin Seq(Byte \cup {Garbage})

VARIABLES
  ptr,         \* ptr_
  size,        \* size_
  heap,        \* the contents of the allocated blocks
  hollow       \* observer: the buffers whose memory was moved away or could
               \* not be allocated, and that were not filled again

vars == <<ptr, size, heap, hollow>>

Contents == Seq(Byte \cup {Garbage})

TypeOK ==
  /\ ptr \in [Buffer -> Block \cup {Null}]
  /\ size \in [Buffer -> Nat]
  /\ heap \in [Block -> Contents \cup {Free}]
  /\ hollow \in SUBSET Buffer

Rounded(bytes) == ((bytes + Alignment - 1) \div Alignment) * Alignment

Fresh(n) == [k \in 1 .. n |-> Garbage]

Init ==
  /\ ptr = [b \in Buffer |-> Null] /\ size = [b \in Buffer |-> 0]
  /\ heap = [m \in Block |-> Free]
  /\ hollow = {}

-----------------------------------------------------------------------------

\* Mutant: the deleter that came with a null pointer is kept.
HeapLeaking(m, contents, old) ==
  [n \in Block |-> IF n = m THEN contents ELSE heap[n]]

\* The heap once a block of these contents has been allocated at m, or none
\* if m is Null, and the block at old has been freed, if there is one.
Heap(m, contents, old) ==
  [n \in Block |-> IF n = m THEN contents ELSE IF n = old THEN Free ELSE heap[n]]

\* Mutant: the size alone is compared.
KeepsSizeOnly(b, bytes) == Rounded(bytes) = size[b]

Keeps(b, bytes) == Rounded(bytes) = size[b] /\ ptr[b] # Null

ResizeKeeps(b, bytes) == Keeps(b, bytes) /\ UNCHANGED vars

\* The new block is allocated before the old one is freed.
ResizeAllocates(b, bytes) ==
  /\ ~Keeps(b, bytes)
  /\ \E m \in Block :
       /\ heap[m] = Free
       /\ ptr' = [ptr EXCEPT ![b] = m]
       /\ heap' = Heap(m, Fresh(Rounded(bytes)), ptr[b])
  /\ size' = [size EXCEPT ![b] = Rounded(bytes)]
  /\ hollow' = hollow \ {b}

\* alloc_aligned returns nullptr, for no bytes or for want of memory; nobody
\* asks, and the size is set all the same.
ResizeFails(b, bytes) ==
  /\ ~Keeps(b, bytes)
  /\ ptr' = [ptr EXCEPT ![b] = Null]
  /\ heap' = Heap(Null, Free, ptr[b])
  /\ size' = [size EXCEPT ![b] = Rounded(bytes)]
  /\ hollow' = hollow \cup {b}

Reset(b) ==
  /\ ptr' = [ptr EXCEPT ![b] = Null]
  /\ heap' = Heap(Null, Free, ptr[b])
  /\ size' = [size EXCEPT ![b] = 0]
  /\ hollow' = hollow \ {b}

HasMemory(b) == size[b] # 0 /\ ptr[b] # Null

\* Mutant: the pointer is copied.
CopyIntoShallow(to, from) ==
  /\ to # from /\ HasMemory(from)
  /\ ptr' = [ptr EXCEPT ![to] = ptr[from]]
  /\ heap' = Heap(Null, Free, ptr[to])
  /\ size' = [size EXCEPT ![to] = size[from]]
  /\ hollow' = hollow \ {to}

\* copy_from where it has memory to copy: into the target's block if that has
\* the size, into a new one otherwise.
CopyInto(to, from) ==
  /\ to # from /\ HasMemory(from)
  /\ \/ /\ Keeps(to, size[from])
        /\ heap' = Heap(ptr[to], heap[ptr[from]], Null)
        /\ UNCHANGED ptr
     \/ /\ ~Keeps(to, size[from])
        /\ \E m \in Block :
             /\ heap[m] = Free
             /\ ptr' = [ptr EXCEPT ![to] = m]
             /\ heap' = Heap(m, heap[ptr[from]], ptr[to])
  /\ size' = [size EXCEPT ![to] = Rounded(size[from])]
  /\ hollow' = hollow \ {to}

CopyNothing(to, from) == to # from /\ ~HasMemory(from) /\ Reset(to)

\* A buffer that takes over from a hollow one is as hollow.
Move(to, from) ==
  /\ to # from
  /\ ptr' = [ptr EXCEPT ![to] = ptr[from], ![from] = Null]
  /\ heap' = Heap(Null, Free, ptr[to])
  /\ size' = [size EXCEPT ![to] = size[from]]
  /\ hollow' = (IF from \in hollow THEN hollow \cup {to} ELSE hollow \ {to}) \cup {from}

\* A client writes through data(), within size().
Store(b, k, v) ==
  /\ ptr[b] # Null /\ k \in 1 .. size[b]
  /\ heap' = [heap EXCEPT ![ptr[b]][k] = v]
  /\ UNCHANGED <<ptr, size, hollow>>

Next ==
  \/ \E b \in Buffer, bytes \in 0 .. MaxBytes :
       ResizeKeeps(b, bytes) \/ ResizeAllocates(b, bytes) \/ ResizeFails(b, bytes)
  \/ \E b \in Buffer : Reset(b)
  \/ \E to, from \in Buffer : CopyInto(to, from) \/ CopyNothing(to, from) \/ Move(to, from)
  \/ \E b \in Buffer : \E k \in 1 .. size[b], v \in Byte : Store(b, k, v)

Spec == Init /\ [][Next]_vars

-----------------------------------------------------------------------------

\* No two buffers own the same block, every buffer's block is allocated, and
\* every allocated block has its owner: no copy shares memory with its source,
\* nothing is freed twice or used after it was freed, nothing leaks.
OneOwner ==
  /\ \A b \in Buffer : ptr[b] # Null => heap[ptr[b]] # Free
  /\ \A b, c \in Buffer : ptr[b] = ptr[c] /\ ptr[b] # Null => b = c
  /\ \A m \in Block : heap[m] # Free => \E b \in Buffer : ptr[b] = m

\* size() is the length of the memory behind data() and a multiple of the
\* alignment, for every buffer but those whose memory was moved away or never
\* came: these may claim bytes they do not have.
SizeHonest ==
  \A b \in Buffer :
    /\ size[b] % Alignment = 0
    /\ ptr[b] # Null => Len(heap[ptr[b]]) = size[b]
    /\ b \notin hollow /\ ptr[b] = Null => size[b] = 0

Value == [b \in Buffer |-> IF ptr[b] = Null THEN << >> ELSE heap[ptr[b]]]

AbstractBuffers == INSTANCE Buffers WITH value <- Value

\* The blocks, the reuse of blocks and the stale sizes together behave like
\* values: a refinement of Buffers.
ImplementsBuffers == AbstractBuffers!Spec
=============================================================================
