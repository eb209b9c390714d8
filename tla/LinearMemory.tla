---------------------------- MODULE LinearMemory ----------------------------
(***************************************************************************)
(* The linear memory of a generated module: memory.grow in its three forms *)
(* (an atomic store for a shared memory, a reslice into spare capacity, a  *)
(* reallocation), the guest's checked accesses, the host's accessMemory    *)
(* and the slices the WASI host cuts for a guest pointer                   *)
(* (src/internal/codegen/helpers/helpers.go, wasip1_native.go).            *)
(*                                                                         *)
(* The unit is a wasm page, and a page holds one value.  memoryGrow is     *)
(* split where it copies: accessMemory must not come between the copy and  *)
(* the new slice header.  A guest whose memory is not shared runs on one   *)
(* goroutine; a shared memory has agents.                                  *)
(***************************************************************************)
EXTENDS Integers, Sequences

CONSTANTS
  Agents,      \* goroutines that run the guest; Main runs alone
  Main,        \* when the memory is not shared
  Hosts,       \* goroutines outside the module that call accessMemory
  None,        \* no holder of memMu
  NoOp, Trap,  \* no operation; what an out-of-bounds access ends in
  Values,      \* what a page can hold
  Ops,         \* the operations the callers perform
  InitPages,   \* the declared minimum
  InitCap,     \* the capacity New reserves for a memory that is not shared
  Ceiling,     \* the length New gives a shared memory
  MaxMem,      \* m.maxMem in pages, 0 for none
  HardCap,     \* wasmMemHardCap in pages
  TailPointers \* TRUE: the guest hands WASI pointers into the reserved tail

Callers == Agents \cup Hosts
Pages == 0..HardCap

OpRecords ==
  [kind : {"store", "load", "grow", "wasi"}, page : Pages, arg : Int]

ASSUME LinearMemoryAssumption ==
  /\ Main \in Agents
  /\ Agents \cap Hosts = {}
  /\ None \notin Callers
  /\ {InitPages, InitCap, Ceiling, MaxMem, HardCap} \subseteq Nat
  /\ InitPages <= InitCap /\ InitCap <= HardCap
  /\ InitPages <= Ceiling /\ Ceiling <= HardCap
  /\ MaxMem # 0 => InitPages <= MaxMem
  /\ 0 \in Values
  /\ Ops \subseteq OpRecords
  /\ \A o \in Ops : o.kind \in {"store", "wasi"} => o.arg \in Values
  /\ NoOp \notin OpRecords
  /\ TailPointers \in BOOLEAN

VARIABLES
  memShared, \* m.memShared, fixed by New
  memMu,     \* the holder of m.memMu
  memSize,   \* m.memSize, in pages
  heap,      \* every backing array allocated so far
  base,      \* the array m.memory points into
  len, cap,  \* the slice header of m.memory
  M,         \* the cached base pointer m.M, as an array
  pc,        \* where each caller is
  op,        \* the operation each caller is performing
  result     \* what its last operation returned

vars == <<memShared, memMu, memSize, heap, base, len, cap, M, pc, op, result>>

slice == <<base, len, cap>>

Blank == [p \in Pages |-> 0]

Init ==
  /\ memShared \in BOOLEAN
  /\ memMu = None
  /\ memSize = InitPages
  /\ heap = <<Blank>>
  /\ base = 1
  /\ len = IF memShared THEN Ceiling ELSE InitPages
  /\ cap = IF memShared THEN Ceiling ELSE InitCap
  /\ M = 1
  /\ pc = [c \in Callers |-> "idle"]
  /\ op = [c \in Callers |-> NoOp]
  /\ result = [c \in Callers |-> 0]

-----------------------------------------------------------------------------
Goto(c, label) == pc' = [pc EXCEPT ![c] = label]

Return(c, answer) ==
  /\ Goto(c, "idle")
  /\ op' = [op EXCEPT ![c] = NoOp]
  /\ result' = [result EXCEPT ![c] = answer]

\* What the access does to the array it reaches, and its result.
Access(c, array) ==
  /\ heap' = IF op[c].kind = "load" THEN heap
             ELSE [heap EXCEPT ![array][op[c].page] = op[c].arg]
  /\ Return(c, IF op[c].kind = "load" THEN heap[array][op[c].page] ELSE 0)

\* Where an operation starts: accessMemory and memoryGrow take the lock first.
Entry(c, o) ==
  CASE c \in Hosts          -> "lock"
    [] o.kind = "grow"      -> "lock"
    [] o.kind = "wasi"      -> "memSlice"
    [] OTHER                -> "check"

\* A host goroutine only reads and writes, inside the guest's size: it keeps to
\* the words the guest gave it.  The tail is what a shared memory reserves
\* above its size.
Call(c) ==
  /\ pc[c] = "idle"
  /\ c \in Agents => memShared \/ c = Main
  /\ \E o \in Ops :
       /\ c \in Hosts => o.kind \in {"store", "load"} /\ o.page < memSize
       /\ o.kind = "wasi" => TailPointers \/ o.page < memSize \/ o.page >= len
       /\ op' = [op EXCEPT ![c] = o]
       /\ Goto(c, Entry(c, o))
  /\ result' = [result EXCEPT ![c] = 0]
  /\ UNCHANGED <<memShared, memMu, memSize, heap, slice, M>>

-----------------------------------------------------------------------------
(* A checked guest access: atomicEA, memoryFill, memoryCopy, memoryInit     *)

CheckFails(c) ==
  /\ pc[c] = "check"
  /\ op[c].page >= memSize
  /\ Return(c, Trap)
  /\ UNCHANGED <<memShared, memMu, memSize, heap, slice, M>>

\* Mutants: the check lets the first page above the size through; or it
\* consults the length of the slice.
CheckPassesByOne(c) ==
  /\ pc[c] = "check"
  /\ op[c].page <= memSize
  /\ Goto(c, "deref")
  /\ UNCHANGED <<memShared, memMu, memSize, heap, slice, M, op, result>>

CheckPassesByLen(c) ==
  /\ pc[c] = "check"
  /\ op[c].page < len
  /\ Goto(c, "deref")
  /\ UNCHANGED <<memShared, memMu, memSize, heap, slice, M, op, result>>

CheckPasses(c) ==
  /\ pc[c] = "check"
  /\ op[c].page < memSize
  /\ Goto(c, "deref")
  /\ UNCHANGED <<memShared, memMu, memSize, heap, slice, M, op, result>>

\* The access itself, off the cached base pointer.
Deref(c) ==
  /\ pc[c] = "deref"
  /\ Access(c, M)
  /\ UNCHANGED <<memShared, memMu, memSize, slice, M>>

-----------------------------------------------------------------------------
(* memSlice: the WASI host checks a guest pointer against the slice, and    *)
(* reads or writes it later.                                                *)

MemSliceFaults(c) ==
  /\ pc[c] = "memSlice"
  /\ op[c].page >= len
  /\ Return(c, Trap)
  /\ UNCHANGED <<memShared, memMu, memSize, heap, slice, M>>

MemSlice(c) ==
  /\ pc[c] = "memSlice"
  /\ op[c].page < len
  /\ Goto(c, "wasi")
  /\ UNCHANGED <<memShared, memMu, memSize, heap, slice, M, op, result>>

WasiWrites(c) ==
  /\ pc[c] = "wasi"
  /\ Access(c, base)
  /\ UNCHANGED <<memShared, memMu, memSize, slice, M>>

-----------------------------------------------------------------------------
(* accessMemory                                                             *)

\* Mutant: accessMemory does not take the lock.
LockGrowersOnly(c) ==
  /\ pc[c] = "lock"
  /\ c \in Hosts \/ memMu = None
  /\ memMu' = IF c \in Hosts THEN memMu ELSE c
  /\ Goto(c, IF c \in Hosts THEN "access" ELSE "grow")
  /\ UNCHANGED <<memShared, memSize, heap, slice, M, op, result>>

Lock(c) ==
  /\ pc[c] = "lock"
  /\ memMu = None
  /\ memMu' = c
  /\ Goto(c, IF c \in Hosts THEN "access" ELSE "grow")
  /\ UNCHANGED <<memShared, memSize, heap, slice, M, op, result>>

HostAccess(c) ==
  /\ pc[c] = "access"
  /\ Access(c, base)
  /\ memMu' = None
  /\ UNCHANGED <<memShared, memSize, slice, M>>

-----------------------------------------------------------------------------
(* memoryGrow                                                               *)

Want(c) == memSize + op[c].arg

TooLarge(c) ==
  \/ op[c].arg < 0
  \/ MaxMem # 0 /\ Want(c) > MaxMem
  \/ Want(c) > HardCap
  \/ memShared /\ Want(c) > len

\* Mutant: an early return forgets to unlock.
GrowRefusedLocked(c) ==
  /\ pc[c] = "grow"
  /\ op[c].arg # 0
  /\ TooLarge(c)
  /\ Return(c, -1)
  /\ UNCHANGED <<memShared, memMu, memSize, heap, slice, M>>

GrowRefused(c) ==
  /\ pc[c] = "grow"
  /\ op[c].arg # 0
  /\ TooLarge(c)
  /\ memMu' = None
  /\ Return(c, -1)
  /\ UNCHANGED <<memShared, memSize, heap, slice, M>>

\* memory.grow(0) reports the size.
GrowZero(c) ==
  /\ pc[c] = "grow"
  /\ op[c].arg = 0
  /\ memMu' = None
  /\ Return(c, memSize)
  /\ UNCHANGED <<memShared, memSize, heap, slice, M>>

MayGrow(c) == pc[c] = "grow" /\ op[c].arg # 0 /\ ~TooLarge(c)

GrowShared(c) ==
  /\ MayGrow(c)
  /\ memShared
  /\ memSize' = Want(c)
  /\ memMu' = None
  /\ Return(c, memSize)
  /\ UNCHANGED <<memShared, heap, slice, M>>

GrowReslice(c) ==
  /\ MayGrow(c)
  /\ ~memShared
  /\ Want(c) <= cap
  /\ len' = Want(c)
  /\ memSize' = Want(c)
  /\ memMu' = None
  /\ Return(c, memSize)
  /\ UNCHANGED <<memShared, heap, base, cap, M>>

Least(a, b) == IF a <= b THEN a ELSE b
Most(a, b) == IF a <= b THEN b ELSE a

\* Mutant: the doubled capacity is not capped.
NewCapUncapped(c) == Most(2 * cap, Want(c))

\* At least double, within the caps.
NewCap(c) ==
  LET doubled == Most(2 * cap, Want(c))
      bounded == IF MaxMem = 0 THEN doubled ELSE Least(doubled, MaxMem)
  IN  Least(bounded, HardCap)

\* grown := make(...); copy(grown, m.memory)
GrowCopy(c) ==
  /\ MayGrow(c)
  /\ ~memShared
  /\ Want(c) > cap
  /\ heap' = Append(heap,
               [p \in Pages |-> IF p < len THEN heap[base][p] ELSE 0])
  /\ Goto(c, "publish")
  /\ UNCHANGED <<memShared, memMu, memSize, slice, M, op, result>>

\* Mutant: the cached base pointer is not refreshed.
GrowPublishStale(c) ==
  /\ pc[c] = "publish"
  /\ base' = Len(heap)
  /\ len' = Want(c)
  /\ cap' = NewCap(c)
  /\ memSize' = Want(c)
  /\ memMu' = None
  /\ Return(c, memSize)
  /\ UNCHANGED <<memShared, heap, M>>

GrowPublish(c) ==
  /\ pc[c] = "publish"
  /\ base' = Len(heap)
  /\ len' = Want(c)
  /\ cap' = NewCap(c)
  /\ memSize' = Want(c)
  /\ M' = Len(heap)
  /\ memMu' = None
  /\ Return(c, memSize)
  /\ UNCHANGED <<memShared, heap>>

-----------------------------------------------------------------------------
\* A caller inside an operation goes on.
Work(c) ==
  \/ CheckFails(c) \/ CheckPasses(c) \/ Deref(c)
  \/ MemSliceFaults(c) \/ MemSlice(c) \/ WasiWrites(c)
  \/ HostAccess(c)
  \/ GrowRefused(c) \/ GrowZero(c) \/ GrowShared(c) \/ GrowReslice(c)
  \/ GrowCopy(c) \/ GrowPublish(c)

Next == \E c \in Callers : Call(c) \/ Lock(c) \/ Work(c)

\* The Go scheduler runs a runnable goroutine, and sync.Mutex hands the lock to
\* a starving waiter.  Nothing makes a caller call.
Fairness == \A c \in Callers : WF_vars(Work(c)) /\ SF_vars(Lock(c))

Spec == Init /\ [][Next]_vars

FairSpec == Spec /\ Fairness

-----------------------------------------------------------------------------
Labels == {"idle", "lock", "memSlice", "check", "deref", "wasi", "access",
           "grow", "publish"}

\* Every variable has its type.
TypeOK ==
  /\ memShared \in BOOLEAN
  /\ memMu \in Callers \cup {None}
  /\ memSize \in Pages
  /\ heap \in Seq([Pages -> Values])
  /\ base \in 1..Len(heap) /\ M \in 1..Len(heap)
  /\ len \in Pages /\ cap \in Pages
  /\ pc \in [Callers -> Labels]
  /\ op \in [Callers -> Ops \cup {NoOp}]
  /\ result \in [Callers -> Values \cup Pages \cup {Trap, -1}]

\* The guest's memory stays under its maximum and inside the slice, the slice
\* inside its capacity; m.M is its base; and a memory that is not shared has
\* exactly its size (the comment on memoryGrow: "len(m.memory) must always
\* equal the exact wasm memory size").
SliceCoversMemory ==
  /\ memSize <= len /\ len <= cap
  /\ MaxMem # 0 => memSize <= MaxMem
  /\ M = base
  /\ ~memShared => len = memSize

\* A bounds check stays good until the access it guards, whatever grows in
\* between: no checked access leaves the slice (atomicEA, memSlice).
CheckedStaysInside ==
  \A c \in Callers :
    pc[c] \in {"deref", "wasi", "access"} => op[c].page < len

\* The pages between the size and the end of the backing array are zero, so a
\* grow exposes zero pages (the comment in memoryGrow: the bytes up to want
\* are "unreachable until now").
TailIsZero == \A p \in Pages : p >= memSize => heap[base][p] = 0

\* memory.grow returns, even while hosts keep calling accessMemory.
GrowReturns ==
  \A c \in Agents : (op[c] # NoOp /\ op[c].kind = "grow") ~> op[c] = NoOp

\* Loads, stores, WASI writes, host accesses and grows are linearizable: none
\* reaches a stale array, none is lost in a reallocation, and two grows never
\* hand out the same pages.
AbstractOp(o) ==
  IF o = NoOp THEN NoOp ELSE IF o.kind = "wasi" THEN [o EXCEPT !.kind = "store"]
  ELSE o
Abstract ==
  INSTANCE WasmMemory WITH
    Ops     <- {AbstractOp(o) : o \in Ops},
    size    <- memSize,
    content <- [p \in Pages |-> IF p < memSize THEN heap[base][p] ELSE 0],
    pending <- [c \in Callers |-> AbstractOp(op[c])]

ImplementsWasmMemory == Abstract!Spec
=============================================================================
