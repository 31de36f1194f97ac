------------------------ MODULE AlignedBuffer_proofs ------------------------
(***************************************************************************)
(* The ownership of blocks, and that AlignedBuffer implements the values   *)
(* of Buffers, for any sets of buffers, blocks and bytes and any alignment.*)
(***************************************************************************)
EXTENDS AlignedBuffer, TLAPS

\* What an action may rely on: the types, the ownership and the sizes.
BufferInvariant == TypeOK /\ OneOwner /\ SizeHonest

-----------------------------------------------------------------------------
(* The arithmetic of the alignment.                                        *)

LEMMA MultipleDivided ==
  ASSUME NEW n \in Nat, NEW d \in Nat \ {0}
  PROVE  (n * d) % d = 0 /\ (n * d + d - 1) \div d = n
<1>1. (n * d) % d = 0
  BY SMTT(20)
<1>2. (n * d + d - 1) \div d = n
  BY SMTT(20)
<1> QED BY <1>1, <1>2

\* Rounding yields a multiple of the alignment and keeps one.
LEMMA RoundedMultiple ==
  ASSUME NEW bytes \in Nat
  PROVE  /\ Rounded(bytes) \in Nat
         /\ Rounded(bytes) % Alignment = 0
         /\ bytes % Alignment = 0 => Rounded(bytes) = bytes
<1> DEFINE q == (bytes + Alignment - 1) \div Alignment
<1>1. Alignment \in Nat \ {0}
  BY BufferAssumption
<1>2. q \in Nat
  BY <1>1, SMTT(20)
<1>3. Rounded(bytes) = q * Alignment
  BY DEF Rounded
<1>4. q * Alignment \in Nat
  <2> HIDE DEF q
  <2> QED BY <1>1, <1>2, SMTT(20)
<1>5. (q * Alignment) % Alignment = 0
  <2> HIDE DEF q
  <2> QED BY <1>1, <1>2, MultipleDivided
<1>6. ASSUME bytes % Alignment = 0 PROVE q * Alignment = bytes
  <2> DEFINE n == bytes \div Alignment
  <2>1. n \in Nat /\ bytes = n * Alignment
    BY <1>1, <1>6, SMTT(20)
  <2>2. q = n
    <3> HIDE DEF n
    <3> QED BY <1>1, <2>1, MultipleDivided
  <2> QED BY <2>1, <2>2
<1> HIDE DEF q
<1> QED BY <1>3, <1>4, <1>5, <1>6

LEMMA FreshContents ==
  ASSUME NEW n \in Nat
  PROVE  Fresh(n) \in Contents /\ Len(Fresh(n)) = n
  BY DEF Fresh, Contents

-----------------------------------------------------------------------------
(* The invariant.                                                          *)

\* A buffer that gets a free block and gives its old one back keeps the
\* invariant: resize and copy_from where they allocate.
LEMMA ReplacedKeeps ==
  ASSUME BufferInvariant,
         NEW b \in Buffer, NEW m \in Block, heap[m] = Free,
         NEW contents \in Contents, Len(contents) % Alignment = 0,
         ptr' = [ptr EXCEPT ![b] = m],
         heap' = Heap(m, contents, ptr[b]),
         size' = [size EXCEPT ![b] = Len(contents)],
         hollow' = hollow \ {b}
  PROVE  BufferInvariant'
<1> USE BufferAssumption DEF BufferInvariant
<1>1. Len(contents) \in Nat /\ contents # Free
  BY DEF Contents
<1>2. TypeOK'
  BY <1>1 DEF TypeOK, Heap
<1>3. \A c \in Buffer : ptr[c] # m
  BY DEF TypeOK, OneOwner
<1>4. heap'[m] = contents /\ ptr'[b] = m
  BY DEF TypeOK, Heap
<1>5. \A c \in Buffer \ {b} : ptr'[c] = ptr[c] /\ (ptr[c] # Null => heap'[ptr[c]] = heap[ptr[c]])
  BY <1>3 DEF TypeOK, OneOwner, Heap
<1>6. OneOwner'
  <2>1. \A c \in Buffer : ptr'[c] # Null => heap'[ptr'[c]] # Free
    BY <1>1, <1>4, <1>5 DEF TypeOK, OneOwner
  <2>2. \A c, d \in Buffer : ptr'[c] = ptr'[d] /\ ptr'[c] # Null => c = d
    BY <1>3, <1>4, <1>5 DEF TypeOK, OneOwner
  <2>3. \A n \in Block : heap'[n] # Free => \E c \in Buffer : ptr'[c] = n
    BY <1>4, <1>5 DEF TypeOK, OneOwner, Heap
  <2> QED BY <2>1, <2>2, <2>3 DEF OneOwner
<1>7. SizeHonest'
  BY <1>1, <1>4, <1>5 DEF TypeOK, SizeHonest
<1> QED BY <1>2, <1>6, <1>7

\* A buffer that gives its block back and gets none keeps the invariant, if
\* it claims no bytes or is known to be hollow.
LEMMA DroppedKeeps ==
  ASSUME BufferInvariant,
         NEW b \in Buffer, NEW n \in Nat, n % Alignment = 0,
         ptr' = [ptr EXCEPT ![b] = Null],
         heap' = Heap(Null, Free, ptr[b]),
         size' = [size EXCEPT ![b] = n],
         hollow' = hollow \cup {b} \/ (n = 0 /\ hollow' = hollow \ {b})
  PROVE  BufferInvariant'
<1> USE BufferAssumption DEF BufferInvariant
<1>1. TypeOK'
  BY DEF TypeOK, Heap
<1>2. \A c \in Buffer \ {b} : ptr'[c] = ptr[c] /\ (ptr[c] # Null => heap'[ptr[c]] = heap[ptr[c]])
  BY DEF TypeOK, OneOwner, Heap
<1>3. ptr'[b] = Null
  BY DEF TypeOK
<1>4. OneOwner'
  BY <1>2, <1>3 DEF TypeOK, OneOwner, Heap
<1>5. SizeHonest'
  BY <1>2, <1>3 DEF TypeOK, SizeHonest
<1> QED BY <1>1, <1>4, <1>5

LEMMA ResizeKeepsInvariant ==
  ASSUME BufferInvariant, NEW b \in Buffer, NEW bytes \in 0 .. MaxBytes,
         ResizeKeeps(b, bytes) \/ ResizeAllocates(b, bytes) \/ ResizeFails(b, bytes)
  PROVE  BufferInvariant'
<1>1. /\ Rounded(bytes) \in Nat
      /\ Rounded(bytes) % Alignment = 0
      /\ Fresh(Rounded(bytes)) \in Contents
      /\ Len(Fresh(Rounded(bytes))) = Rounded(bytes)
  <2>1. bytes \in Nat
    BY BufferAssumption
  <2> QED BY <2>1, RoundedMultiple, FreshContents
<1>2. CASE ResizeKeeps(b, bytes)
  BY <1>2 DEF ResizeKeeps, vars, BufferInvariant, TypeOK, OneOwner, SizeHonest
<1>3. CASE ResizeAllocates(b, bytes)
  <2>1. PICK m \in Block : /\ heap[m] = Free
                           /\ ptr' = [ptr EXCEPT ![b] = m]
                           /\ heap' = Heap(m, Fresh(Rounded(bytes)), ptr[b])
    BY <1>3 DEF ResizeAllocates
  <2>2. size' = [size EXCEPT ![b] = Len(Fresh(Rounded(bytes)))] /\ hollow' = hollow \ {b}
    BY <1>1, <1>3 DEF ResizeAllocates
  <2> QED BY <1>1, <2>1, <2>2, ReplacedKeeps
<1>4. CASE ResizeFails(b, bytes)
  BY <1>1, <1>4, DroppedKeeps DEF ResizeFails
<1> QED BY <1>2, <1>3, <1>4

LEMMA ResetKeepsInvariant ==
  ASSUME BufferInvariant, NEW b \in Buffer, Reset(b)
  PROVE  BufferInvariant'
<1>1. 0 % Alignment = 0
  BY BufferAssumption
<1> QED BY <1>1, DroppedKeeps DEF Reset

LEMMA CopyKeepsInvariant ==
  ASSUME BufferInvariant, NEW to \in Buffer, NEW from \in Buffer, CopyInto(to, from)
  PROVE  BufferInvariant'
<1> USE BufferAssumption DEF BufferInvariant
<1> DEFINE contents == heap[ptr[from]]
<1>1. ptr[from] \in Block /\ contents \in Contents /\ Len(contents) = size[from]
  BY DEF CopyInto, HasMemory, TypeOK, OneOwner, SizeHonest
<1>2. size[from] \in Nat /\ size[from] % Alignment = 0 /\ Rounded(size[from]) = size[from]
  BY RoundedMultiple DEF TypeOK, SizeHonest
<1>3. size' = [size EXCEPT ![to] = Len(contents)] /\ hollow' = hollow \ {to}
  BY <1>1, <1>2 DEF CopyInto
<1>4. CASE ~Keeps(to, size[from])
  <2>1. PICK m \in Block : /\ heap[m] = Free
                           /\ ptr' = [ptr EXCEPT ![to] = m]
                           /\ heap' = Heap(m, contents, ptr[to])
    BY <1>4 DEF CopyInto
  <2> HIDE DEF contents
  <2> QED BY <1>1, <1>2, <1>3, <2>1, ReplacedKeeps
<1>5. CASE Keeps(to, size[from])
  <2>1. ptr[to] \in Block /\ size[to] = size[from] /\ ptr' = ptr
    BY <1>2, <1>5 DEF CopyInto, Keeps, TypeOK
  <2>2. heap' = Heap(ptr[to], contents, Null)
    BY <1>5 DEF CopyInto
  <2>3. heap'[ptr[to]] = contents
        /\ \A n \in Block : n # ptr[to] => heap'[n] = heap[n]
    BY <2>1, <2>2 DEF Heap
  <2>4. contents # Free
    BY <1>1 DEF Contents
  <2>5. size' = size
    BY <1>1, <1>3, <2>1 DEF TypeOK
  <2> HIDE DEF contents
  <2>6. TypeOK'
    BY <1>1, <1>3, <2>1, <2>2, <2>5 DEF TypeOK, Heap
  <2>7. OneOwner'
    BY <2>1, <2>3, <2>4 DEF TypeOK, OneOwner
  <2>8. SizeHonest'
    BY <1>1, <1>3, <2>1, <2>3, <2>5 DEF TypeOK, SizeHonest
  <2> QED BY <2>6, <2>7, <2>8
<1> QED BY <1>4, <1>5

LEMMA MoveKeepsInvariant ==
  ASSUME BufferInvariant, NEW to \in Buffer, NEW from \in Buffer, Move(to, from)
  PROVE  BufferInvariant'
<1> USE BufferAssumption DEF BufferInvariant
<1>1. TypeOK'
  BY DEF Move, TypeOK, Heap
<1>2. /\ ptr'[to] = ptr[from] /\ ptr'[from] = Null
      /\ \A c \in Buffer \ {to, from} : ptr'[c] = ptr[c]
  BY DEF Move, TypeOK
<1>3. /\ ptr[from] # Null => heap'[ptr[from]] = heap[ptr[from]]
      /\ \A c \in Buffer \ {to, from} : ptr[c] # Null => heap'[ptr[c]] = heap[ptr[c]]
  BY DEF Move, TypeOK, OneOwner, Heap
<1>4. OneOwner'
  <2>1. \A c \in Buffer : ptr'[c] # Null => heap'[ptr'[c]] # Free
    BY <1>2, <1>3 DEF OneOwner
  <2>2. \A c, d \in Buffer : ptr'[c] = ptr'[d] /\ ptr'[c] # Null => c = d
    BY <1>2 DEF OneOwner
  <2>3. \A n \in Block : heap'[n] # Free => \E c \in Buffer : ptr'[c] = n
    BY <1>2 DEF Move, TypeOK, OneOwner, Heap
  <2> QED BY <2>1, <2>2, <2>3 DEF OneOwner
<1>5. SizeHonest'
  BY <1>2, <1>3 DEF Move, TypeOK, SizeHonest
<1> QED BY <1>1, <1>4, <1>5

LEMMA StoreKeepsInvariant ==
  ASSUME BufferInvariant, NEW b \in Buffer, NEW k \in 1 .. size[b], NEW v \in Byte,
         Store(b, k, v)
  PROVE  BufferInvariant'
<1> USE BufferAssumption DEF BufferInvariant
<1> DEFINE contents == heap[ptr[b]]
<1>1. ptr[b] \in Block /\ contents \in Contents /\ Len(contents) = size[b]
  BY DEF Store, TypeOK, OneOwner, SizeHonest
<1>2. heap' = [heap EXCEPT ![ptr[b]] = [contents EXCEPT ![k] = v]]
  BY <1>1 DEF Store, TypeOK
<1>3. [contents EXCEPT ![k] = v] \in Contents /\ Len([contents EXCEPT ![k] = v]) = Len(contents)
  BY <1>1 DEF Contents, Store
<1>4. [contents EXCEPT ![k] = v] # Free
  BY <1>3 DEF Contents
<1>5. ptr' = ptr /\ size' = size /\ hollow' = hollow
  BY DEF Store
<1> HIDE DEF contents
<1>6. TypeOK'
  BY <1>1, <1>2, <1>3, <1>5 DEF TypeOK
<1>7. OneOwner'
  BY <1>1, <1>2, <1>4, <1>5 DEF TypeOK, OneOwner
<1>8. SizeHonest'
  BY <1>1, <1>2, <1>3, <1>5 DEF TypeOK, OneOwner, SizeHonest, contents
<1> QED BY <1>6, <1>7, <1>8

LEMMA InitInvariant == Init => BufferInvariant
<1>1. 0 % Alignment = 0
  BY BufferAssumption
<1> QED BY <1>1, BufferAssumption DEF Init, BufferInvariant, TypeOK, OneOwner, SizeHonest

LEMMA StepInvariant == BufferInvariant /\ [Next]_vars => BufferInvariant'
<1> SUFFICES ASSUME BufferInvariant, [Next]_vars PROVE BufferInvariant'
  OBVIOUS
<1>1. CASE UNCHANGED vars
  BY <1>1 DEF vars, BufferInvariant, TypeOK, OneOwner, SizeHonest
<1>2. ASSUME NEW b \in Buffer, NEW bytes \in 0 .. MaxBytes,
             ResizeKeeps(b, bytes) \/ ResizeAllocates(b, bytes) \/ ResizeFails(b, bytes)
      PROVE  BufferInvariant'
  BY <1>2, ResizeKeepsInvariant
<1>3. ASSUME NEW b \in Buffer, Reset(b) PROVE BufferInvariant'
  BY <1>3, ResetKeepsInvariant
<1>4. ASSUME NEW to \in Buffer, NEW from \in Buffer,
             CopyInto(to, from) \/ CopyNothing(to, from) \/ Move(to, from)
      PROVE  BufferInvariant'
  BY <1>4, CopyKeepsInvariant, ResetKeepsInvariant, MoveKeepsInvariant DEF CopyNothing
<1>5. ASSUME NEW b \in Buffer, NEW k \in 1 .. size[b], NEW v \in Byte, Store(b, k, v)
      PROVE  BufferInvariant'
  BY <1>5, StoreKeepsInvariant
<1> QED BY <1>1, <1>2, <1>3, <1>4, <1>5 DEF Next

\* Every block has one owner and every buffer at most one block, whatever is
\* resized, copied, moved and destroyed in whatever order.
THEOREM OneOwnerAlways == Spec => []OneOwner
<1>1. BufferInvariant => OneOwner
  BY DEF BufferInvariant
<1> QED BY <1>1, InitInvariant, StepInvariant, PTL DEF Spec

\* The size is the length of the memory for every buffer that is not hollow.
THEOREM SizeHonestAlways == Spec => []SizeHonest
<1>1. BufferInvariant => SizeHonest
  BY DEF BufferInvariant
<1> QED BY <1>1, InitInvariant, StepInvariant, PTL DEF Spec
-----------------------------------------------------------------------------
(* The refinement.                                                         *)

\* A buffer that changes its block changes no other buffer's contents.
LEMMA OthersKept ==
  ASSUME BufferInvariant, NEW b \in Buffer, NEW m \in Block \cup {Null},
         m # Null => heap[m] = Free,
         NEW contents, ptr' = [ptr EXCEPT ![b] = m], heap' = Heap(m, contents, ptr[b])
  PROVE  Value' = [Value EXCEPT ![b] = IF m = Null THEN << >> ELSE contents]
<1> USE BufferAssumption DEF BufferInvariant
<1>1. \A c \in Buffer \ {b} : ptr'[c] = ptr[c] /\ (ptr[c] # Null => heap'[ptr[c]] = heap[ptr[c]])
  BY DEF TypeOK, OneOwner, Heap
<1>2. ptr'[b] = m /\ (m # Null => heap'[m] = contents)
  BY DEF TypeOK, Heap
<1> QED BY <1>1, <1>2 DEF Value

LEMMA ResizeImplements ==
  ASSUME BufferInvariant, NEW b \in Buffer, NEW bytes \in 0 .. MaxBytes,
         ResizeAllocates(b, bytes) \/ ResizeFails(b, bytes)
  PROVE  AbstractBuffers!Resize(b, bytes)
<1> DEFINE n == AbstractBuffers!Rounded(bytes)
           fresh == AbstractBuffers!Fresh(n)
<1>1. Rounded(bytes) = n /\ Fresh(Rounded(bytes)) = fresh
  BY DEF Rounded, Fresh, AbstractBuffers!Rounded, AbstractBuffers!Fresh
<1>2. n \in Nat
  <2>1. bytes \in Nat
    BY BufferAssumption
  <2> QED BY <1>1, <2>1, RoundedMultiple
<1>3. Len(fresh) = n /\ Len(<< >>) = 0
  BY <1>1, <1>2, FreshContents
<1>4. \E contents \in {fresh, << >>, Value[b]} :
        Len(contents) \in {0, n} /\ Value' = [Value EXCEPT ![b] = contents]
  <2>1. CASE ResizeAllocates(b, bytes)
    <3>1. PICK m \in Block : /\ heap[m] = Free
                             /\ ptr' = [ptr EXCEPT ![b] = m]
                             /\ heap' = Heap(m, fresh, ptr[b])
      BY <1>1, <2>1 DEF ResizeAllocates
    <3> HIDE DEF fresh, n
    <3>2. Value' = [Value EXCEPT ![b] = fresh]
      BY <3>1, OthersKept, BufferAssumption
    <3> QED BY <1>3, <3>2
  <2>2. CASE ResizeFails(b, bytes)
    <3>1. Value' = [Value EXCEPT ![b] = << >>]
      BY <2>2, OthersKept DEF ResizeFails
    <3> QED BY <1>3, <3>1
  <2> QED BY <2>1, <2>2
<1> QED BY <1>4 DEF AbstractBuffers!Resize

LEMMA ResetImplements ==
  ASSUME BufferInvariant, NEW b \in Buffer, Reset(b)
  PROVE  Value' = [Value EXCEPT ![b] = << >>]
  BY OthersKept DEF Reset

LEMMA CopyImplements ==
  ASSUME BufferInvariant, NEW to \in Buffer, NEW from \in Buffer,
         CopyInto(to, from) \/ CopyNothing(to, from)
  PROVE  AbstractBuffers!Copy(to, from)
<1> USE BufferAssumption DEF BufferInvariant
<1>1. SUFFICES Value' = [Value EXCEPT ![to] = Value[from]]
  BY DEF AbstractBuffers!Copy
<1>2. CASE CopyNothing(to, from)
  <2>1. Value[from] = << >>
    <3>1. CASE ptr[from] = Null
      BY <3>1 DEF Value
    <3>2. CASE ptr[from] # Null
      <4>1. heap[ptr[from]] \in Contents /\ Len(heap[ptr[from]]) = 0
        BY <1>2, <3>2 DEF CopyNothing, HasMemory, TypeOK, OneOwner, SizeHonest
      <4> QED BY <3>2, <4>1 DEF Value, Contents
    <3> QED BY <3>1, <3>2
  <2> QED BY <1>2, <2>1, ResetImplements DEF CopyNothing
<1>3. CASE CopyInto(to, from)
  <2>1. Value[from] = heap[ptr[from]]
    BY <1>3 DEF CopyInto, HasMemory, Value
  <2>2. CASE ~Keeps(to, size[from])
    <3>1. PICK m \in Block : /\ heap[m] = Free
                             /\ ptr' = [ptr EXCEPT ![to] = m]
                             /\ heap' = Heap(m, heap[ptr[from]], ptr[to])
      BY <1>3, <2>2 DEF CopyInto
    <3> QED BY <2>1, <3>1, OthersKept
  <2>3. CASE Keeps(to, size[from])
    <3>1. ptr[to] \in Block /\ ptr' = ptr /\ heap' = Heap(ptr[to], heap[ptr[from]], Null)
      BY <1>3, <2>3 DEF CopyInto, Keeps, TypeOK
    <3>2. heap'[ptr[to]] = heap[ptr[from]]
          /\ \A n \in Block : n # ptr[to] => heap'[n] = heap[n]
      BY <3>1 DEF Heap
    <3>3. ptr[to] # Null /\ Value'[to] = Value[from]
      BY <2>1, <3>1, <3>2 DEF Value
    <3>4. \A c \in Buffer \ {to} : Value'[c] = Value[c]
      BY <3>1, <3>2 DEF TypeOK, OneOwner, Value
    <3> QED BY <3>3, <3>4 DEF Value
  <2> QED BY <2>2, <2>3
<1> QED BY <1>2, <1>3

LEMMA MoveImplements ==
  ASSUME BufferInvariant, NEW to \in Buffer, NEW from \in Buffer, Move(to, from)
  PROVE  AbstractBuffers!Move(to, from)
<1> USE BufferAssumption DEF BufferInvariant
<1>1. to # from
  BY DEF Move
<1>2. /\ ptr'[to] = ptr[from] /\ ptr'[from] = Null
      /\ \A c \in Buffer \ {to, from} : ptr'[c] = ptr[c]
  BY DEF Move, TypeOK
<1>3. /\ ptr[from] # Null => heap'[ptr[from]] = heap[ptr[from]]
      /\ \A c \in Buffer \ {to, from} : ptr[c] # Null => heap'[ptr[c]] = heap[ptr[c]]
  BY DEF Move, TypeOK, OneOwner, Heap
<1>4. Value' = [Value EXCEPT ![to] = Value[from], ![from] = << >>]
  BY <1>1, <1>2, <1>3 DEF Value
<1> QED BY <1>1, <1>4 DEF AbstractBuffers!Move

LEMMA StoreImplements ==
  ASSUME BufferInvariant, NEW b \in Buffer, NEW k \in 1 .. size[b], NEW v \in Byte,
         Store(b, k, v)
  PROVE  AbstractBuffers!Store(b)
<1> USE BufferAssumption DEF BufferInvariant
<1>1. /\ ptr[b] \in Block /\ ptr' = ptr
      /\ heap[ptr[b]] \in Contents /\ Len(heap[ptr[b]]) = size[b]
      /\ heap' = [heap EXCEPT ![ptr[b]] = [heap[ptr[b]] EXCEPT ![k] = v]]
  BY DEF Store, TypeOK, OneOwner, SizeHonest
<1>2. Value[b] = heap[ptr[b]] /\ k \in DOMAIN Value[b]
  BY <1>1 DEF Value, Contents
<1>3. Value' = [Value EXCEPT ![b] = [Value[b] EXCEPT ![k] = v]]
  BY <1>1, <1>2 DEF TypeOK, OneOwner, Value
<1>4. Value' = [Value EXCEPT ![b][k] = v]
  BY <1>3
<1> QED BY <1>2, <1>4 DEF AbstractBuffers!Store

\* Every step on the memory is a step on values, or changes none.
LEMMA StepImplements ==
  BufferInvariant /\ [Next]_vars => [AbstractBuffers!Next]_Value
<1> SUFFICES ASSUME BufferInvariant, [Next]_vars
             PROVE  AbstractBuffers!Next \/ Value' = Value
  OBVIOUS
<1>1. CASE UNCHANGED vars
  BY <1>1 DEF vars, Value
<1>2. ASSUME NEW b \in Buffer, NEW bytes \in 0 .. MaxBytes,
             ResizeKeeps(b, bytes) \/ ResizeAllocates(b, bytes) \/ ResizeFails(b, bytes)
      PROVE  AbstractBuffers!Next \/ Value' = Value
  BY <1>2, ResizeImplements DEF ResizeKeeps, vars, Value, AbstractBuffers!Next
<1>3. ASSUME NEW b \in Buffer, Reset(b) PROVE AbstractBuffers!Next
  BY <1>3, ResetImplements DEF AbstractBuffers!Next, AbstractBuffers!Destroy
<1>4. ASSUME NEW to \in Buffer, NEW from \in Buffer,
             CopyInto(to, from) \/ CopyNothing(to, from) \/ Move(to, from)
      PROVE  AbstractBuffers!Next
  BY <1>4, CopyImplements, MoveImplements DEF AbstractBuffers!Next
<1>5. ASSUME NEW b \in Buffer, NEW k \in 1 .. size[b], NEW v \in Byte, Store(b, k, v)
      PROVE  AbstractBuffers!Next
  BY <1>5, StoreImplements DEF AbstractBuffers!Next
<1> QED BY <1>1, <1>2, <1>3, <1>4, <1>5 DEF Next

\* AlignedBuffer implements Buffers: with its blocks, its hand-written copy
\* and its defaulted move a buffer is a value.
THEOREM ImplementsBuffersAlways == Spec => ImplementsBuffers
<1>1. Init => AbstractBuffers!Init
  BY DEF Init, Value, AbstractBuffers!Init
<1> QED BY <1>1, InitInvariant, StepInvariant, StepImplements, PTL
        DEF Spec, ImplementsBuffers, AbstractBuffers!Spec
=============================================================================
