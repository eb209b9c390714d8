-------------------------- MODULE LinearMemoryProofs --------------------------
(***************************************************************************)
(* Linear memory, for any number of agents and hosts, any operations, page *)
(* values and sizes: a checked access stays inside the slice, and, while   *)
(* the guest hands out no pointer into the reserved tail, the tail is zero *)
(* and the memory is the atomic one of WasmMemory.                         *)
(***************************************************************************)
EXTENDS LinearMemory, SequenceTheorems, TLAPS

Arrays == [Pages -> Values]
Holding == {"access", "grow", "publish"}

MemoryTyped ==
  /\ memShared \in BOOLEAN
  /\ memSize \in Pages
  /\ heap \in Seq(Arrays)
  /\ base \in 1..Len(heap) /\ M \in 1..Len(heap)
  /\ len \in Pages /\ cap \in Pages

CallsTyped ==
  /\ memMu \in Callers \cup {None}
  /\ pc \in [Callers -> Labels]
  /\ op \in [Callers -> Ops \cup {NoOp}]
  /\ result \in [Callers -> Values \cup Pages \cup {Trap, -1}]

\* What a caller is doing fits where it is, and a call has no result yet.
Role(c) ==
  /\ pc[c] = "idle" <=> op[c] = NoOp
  /\ pc[c] # "idle" => result[c] = 0
  /\ pc[c] # "idle" /\ c \in Hosts =>
       /\ pc[c] \in {"lock", "access"}
       /\ op[c].kind \in {"store", "load"}
       /\ op[c].page < memSize
  /\ c \in Agents =>
       /\ pc[c] # "access"
       /\ pc[c] \in {"lock", "grow", "publish"} => op[c].kind = "grow"
       /\ pc[c] \in {"memSlice", "wasi"} => op[c].kind = "wasi"
       /\ pc[c] \in {"check", "deref"} => op[c].kind \in {"store", "load"}

\* A check made earlier still holds.
Checked(c) ==
  /\ pc[c] = "deref" => op[c].page < memSize
  /\ pc[c] = "wasi" => op[c].page < len
  /\ ~TailPointers =>
       /\ pc[c] = "memSlice" => op[c].page < memSize \/ op[c].page >= len
       /\ pc[c] = "wasi" => op[c].page < memSize

\* Who works alone: the holder of the lock, and the guest of a memory that is
\* not shared.
Alone(c) ==
  /\ pc[c] \in Holding <=> memMu = c
  /\ ~memShared /\ c \in Agents /\ pc[c] # "idle" => c = Main

\* A grow about to publish has a faithful copy of the slice.
Copied(c) ==
  pc[c] = "publish" =>
    /\ ~memShared
    /\ op[c].arg # 0 /\ ~TooLarge(c) /\ Want(c) > cap
    /\ heap[Len(heap)] = [p \in Pages |-> IF p < len THEN heap[base][p] ELSE 0]

IInv ==
  /\ MemoryTyped
  /\ CallsTyped
  /\ SliceCoversMemory
  /\ \A c \in Callers : Role(c) /\ Checked(c) /\ Alone(c) /\ Copied(c)
  /\ ~TailPointers => TailIsZero


-----------------------------------------------------------------------------
LEMMA Facts ==
  /\ None \notin Callers /\ Main \in Agents /\ Agents \cap Hosts = {}
  /\ Callers = Agents \cup Hosts
  /\ InitPages \in Nat /\ InitCap \in Nat /\ Ceiling \in Nat /\ MaxMem \in Nat
  /\ HardCap \in Nat /\ InitPages <= InitCap /\ InitCap <= HardCap
  /\ InitPages <= Ceiling /\ Ceiling <= HardCap
  /\ MaxMem # 0 => InitPages <= MaxMem
  /\ 0 \in Values /\ Pages = 0..HardCap /\ Pages \subseteq Nat
  /\ NoOp \notin Ops /\ Ops \subseteq OpRecords
  /\ \A o \in Ops : /\ o.kind \in {"store", "load", "grow", "wasi"}
                    /\ o.page \in Pages /\ o.arg \in Int
                    /\ o.kind \in {"store", "wasi"} => o.arg \in Values
BY LinearMemoryAssumption DEF Callers, Pages, OpRecords

\* What a caller that is not idle is performing.
LEMMA Busy ==
  ASSUME IInv, NEW c \in Callers, pc[c] # "idle"
  PROVE  /\ op[c] \in Ops /\ op[c] # NoOp
         /\ op[c].kind \in {"store", "load", "grow", "wasi"}
         /\ op[c].page \in Pages /\ op[c].arg \in Int
         /\ op[c].kind \in {"store", "wasi"} => op[c].arg \in Values
<1>1. op[c] \in Ops
  BY DEF IInv, CallsTyped, Role
<1> QED BY <1>1, Facts

LEMMA Returned ==
  ASSUME IInv, NEW c \in Callers, NEW answer, Return(c, answer)
  PROVE  /\ pc'[c] = "idle" /\ op'[c] = NoOp /\ result'[c] = answer
         /\ \A d \in Callers : d # c =>
              pc'[d] = pc[d] /\ op'[d] = op[d] /\ result'[d] = result[d]
         /\ pc' \in [Callers -> Labels] /\ op' \in [Callers -> Ops \cup {NoOp}]
BY DEF IInv, CallsTyped, Return, Goto, Labels

LEMMA InitCorrect == Init => IInv
<1> SUFFICES ASSUME Init PROVE IInv
  OBVIOUS
<1>1. Blank \in Arrays
  BY Facts DEF Blank, Arrays
<1>2. heap \in Seq(Arrays) /\ Len(heap) = 1 /\ heap[1] = Blank
  BY <1>1 DEF Init
<1>3. MemoryTyped
  BY <1>2, Facts DEF Init, MemoryTyped
<1>4. CallsTyped
  BY Facts DEF Init, CallsTyped, Labels
<1>5. SliceCoversMemory
  BY Facts DEF Init, SliceCoversMemory
<1>6. \A c \in Callers : Role(c) /\ Checked(c) /\ Alone(c) /\ Copied(c)
  <2> SUFFICES ASSUME NEW c \in Callers
               PROVE  Role(c) /\ Checked(c) /\ Alone(c) /\ Copied(c)
    OBVIOUS
  <2>1. pc[c] = "idle" /\ op[c] = NoOp /\ memMu # c
    BY Facts DEF Init
  <2> QED BY <2>1 DEF Role, Checked, Alone, Copied, Holding
<1>7. TailIsZero
  BY <1>2 DEF Init, TailIsZero, Blank
<1> QED BY <1>3, <1>4, <1>5, <1>6, <1>7 DEF IInv

\* A step that leaves the memory alone and moves one caller.
LEMMA MemoryKept ==
  ASSUME IInv, NEW c \in Callers,
         UNCHANGED <<memShared, memSize, heap, slice, M>>,
         CallsTyped',
         \A d \in Callers : d # c => pc'[d] = pc[d] /\ op'[d] = op[d]
                                     /\ result'[d] = result[d],
         \A d \in Callers : d # c => (memMu' = d <=> memMu = d),
         Role(c)', Checked(c)', Alone(c)', Copied(c)'
  PROVE  IInv'
<1>1. MemoryTyped' /\ SliceCoversMemory'
  BY DEF IInv, MemoryTyped, SliceCoversMemory, slice
<1>2. ASSUME NEW d \in Callers, d # c
      PROVE  Role(d)' /\ Checked(d)' /\ Alone(d)' /\ Copied(d)'
  <2>1. Role(d)' /\ Checked(d)' /\ Alone(d)'
    BY <1>2 DEF IInv, Role, Checked, Alone, slice
  <2>2. Copied(d)'
    BY <1>2 DEF IInv, Copied, TooLarge, Want, slice
  <2> QED BY <2>1, <2>2
<1>3. ~TailPointers => TailIsZero'
  BY DEF IInv, TailIsZero, slice
<1> QED BY <1>1, <1>2, <1>3 DEF IInv

LEMMA CallStep ==
  ASSUME IInv, NEW c \in Callers, Call(c)
  PROVE  IInv'
<1>1. PICK o \in Ops :
        /\ c \in Hosts => o.kind \in {"store", "load"} /\ o.page < memSize
        /\ o.kind = "wasi" => TailPointers \/ o.page < memSize \/ o.page >= len
        /\ op' = [op EXCEPT ![c] = o]
        /\ Goto(c, Entry(c, o))
  BY DEF Call
<1>2. /\ pc[c] = "idle" /\ memMu' = memMu
      /\ result' = [result EXCEPT ![c] = 0]
      /\ c \in Agents => memShared \/ c = Main
      /\ UNCHANGED <<memShared, memSize, heap, slice, M>>
  BY DEF Call
<1>3. /\ Entry(c, o) \in {"lock", "memSlice", "check"}
      /\ c \in Hosts => Entry(c, o) = "lock"
      /\ c \notin Hosts =>
           /\ Entry(c, o) = "lock" <=> o.kind = "grow"
           /\ Entry(c, o) = "memSlice" <=> o.kind = "wasi"
      /\ c \in Agents => c \notin Hosts
  <2>1. CASE c \in Hosts
    BY <1>1, <2>1, Facts DEF Entry
  <2>2. CASE c \notin Hosts /\ o.kind = "grow"
    BY <2>2 DEF Entry
  <2>3. CASE c \notin Hosts /\ o.kind = "wasi"
    BY <2>3 DEF Entry
  <2>4. CASE c \notin Hosts /\ o.kind # "grow" /\ o.kind # "wasi"
    BY <2>4 DEF Entry
  <2> QED BY <2>1, <2>2, <2>3, <2>4
<1>4. CallsTyped'
  BY <1>1, <1>2, <1>3, Facts DEF IInv, CallsTyped, Goto, Labels
<1>5. /\ pc'[c] = Entry(c, o) /\ op'[c] = o /\ result'[c] = 0 /\ o # NoOp
      /\ \A d \in Callers : d # c => pc'[d] = pc[d] /\ op'[d] = op[d]
                                     /\ result'[d] = result[d]
  BY <1>1, <1>2, Facts DEF IInv, CallsTyped, Goto
<1>6. Role(c)'
  <2>1. o.kind \in {"store", "load", "grow", "wasi"}
    BY Facts
  <2> QED BY <1>1, <1>2, <1>3, <1>5, <2>1 DEF Role
<1>7. Checked(c)'
  BY <1>1, <1>2, <1>3, <1>5 DEF Checked, slice
<1>8. Alone(c)'
  BY <1>2, <1>3, <1>5, Facts DEF IInv, Alone, Holding
<1>9. Copied(c)'
  BY <1>3, <1>5 DEF Copied
<1> QED BY <1>2, <1>4, <1>5, <1>6, <1>7, <1>8, <1>9, MemoryKept

\* A caller that has returned is nobody's concern.
LEMMA ReturnedIdle ==
  ASSUME NEW c \in Callers, pc'[c] = "idle", op'[c] = NoOp, memMu' # c
  PROVE  Role(c)' /\ Checked(c)' /\ Alone(c)' /\ Copied(c)'
BY DEF Role, Checked, Alone, Copied, Holding

\* A refused or empty operation returns without touching the memory.
LEMMA RefusedStep ==
  ASSUME IInv, NEW c \in Callers, NEW answer \in Values \cup Pages \cup {Trap, -1},
         Return(c, answer),
         UNCHANGED <<memShared, memSize, heap, slice, M>>,
         \/ pc[c] \notin Holding /\ memMu' = memMu
         \/ pc[c] \in Holding /\ memMu' = None
  PROVE  IInv'
<1>1. /\ pc'[c] = "idle" /\ op'[c] = NoOp
      /\ \A d \in Callers : d # c =>
           pc'[d] = pc[d] /\ op'[d] = op[d] /\ result'[d] = result[d]
      /\ pc' \in [Callers -> Labels] /\ op' \in [Callers -> Ops \cup {NoOp}]
  BY Returned
<1>2. result' \in [Callers -> Values \cup Pages \cup {Trap, -1}]
  BY DEF IInv, CallsTyped, Return
<1>3. memMu' # c /\ memMu' \in Callers \cup {None}
  BY Facts DEF IInv, Alone, CallsTyped
<1>4. \A d \in Callers : d # c => (memMu' = d <=> memMu = d)
  BY Facts DEF IInv, Alone
<1>5. CallsTyped'
  BY <1>1, <1>2, <1>3 DEF CallsTyped
<1>6. Role(c)' /\ Checked(c)' /\ Alone(c)' /\ Copied(c)'
  BY <1>1, <1>3, ReturnedIdle
<1> QED BY <1>1, <1>4, <1>5, <1>6, MemoryKept


\* A step to another point of an operation.
LEMMA Moved ==
  ASSUME IInv, NEW c \in Callers, NEW label \in Labels, Goto(c, label),
         UNCHANGED <<op, result>>, memMu' \in {memMu, c},
         memMu' = c => memMu \in {c, None}
  PROVE  /\ CallsTyped'
         /\ pc'[c] = label
         /\ \A d \in Callers : d # c => pc'[d] = pc[d] /\ op'[d] = op[d]
                                        /\ result'[d] = result[d]
         /\ \A d \in Callers : d # c => (memMu' = d <=> memMu = d)
BY Facts DEF IInv, CallsTyped, Goto

LEMMA CheckPassesStep ==
  ASSUME IInv, NEW c \in Callers, CheckPasses(c)
  PROVE  IInv'
<1>1. /\ pc[c] = "check" /\ op[c].page < memSize /\ Goto(c, "deref")
      /\ UNCHANGED <<memShared, memSize, heap, slice, M>>
      /\ UNCHANGED <<op, result>> /\ memMu' = memMu
  BY DEF CheckPasses
<1>2. "deref" \in Labels
  BY DEF Labels
<1>3. /\ CallsTyped' /\ pc'[c] = "deref"
      /\ \A d \in Callers : d # c => pc'[d] = pc[d] /\ op'[d] = op[d]
                                     /\ result'[d] = result[d]
  BY <1>1, <1>2, Moved DEF IInv, Alone, Holding
<1>4. Role(c)' /\ Checked(c)' /\ Alone(c)' /\ Copied(c)'
  BY <1>1, <1>3 DEF IInv, Role, Checked, Alone, Copied, Holding
<1> QED BY <1>1, <1>3, <1>4, MemoryKept

LEMMA MemSliceStep ==
  ASSUME IInv, NEW c \in Callers, MemSlice(c)
  PROVE  IInv'
<1>1. /\ pc[c] = "memSlice" /\ op[c].page < len /\ Goto(c, "wasi")
      /\ UNCHANGED <<memShared, memSize, heap, slice, M>>
      /\ UNCHANGED <<op, result>> /\ memMu' = memMu
  BY DEF MemSlice
<1>2. "wasi" \in Labels
  BY DEF Labels
<1>3. /\ CallsTyped' /\ pc'[c] = "wasi"
      /\ \A d \in Callers : d # c => pc'[d] = pc[d] /\ op'[d] = op[d]
                                     /\ result'[d] = result[d]
  BY <1>1, <1>2, Moved DEF IInv, Alone, Holding
<1>4. op[c].page \in Nat /\ len \in Nat
  BY <1>1, Busy, Facts DEF IInv, MemoryTyped
<1>5. Checked(c)'
  BY <1>1, <1>3, <1>4 DEF IInv, Checked, slice
<1>6. Role(c)' /\ Alone(c)' /\ Copied(c)'
  BY <1>1, <1>3 DEF IInv, Role, Alone, Copied, Holding
<1> QED BY <1>1, <1>3, <1>5, <1>6, MemoryKept

LEMMA LockStep ==
  ASSUME IInv, NEW c \in Callers, Lock(c)
  PROVE  IInv'
<1> DEFINE label == IF c \in Hosts THEN "access" ELSE "grow"
<1>1. /\ pc[c] = "lock" /\ memMu = None /\ memMu' = c /\ Goto(c, label)
      /\ UNCHANGED <<memShared, memSize, heap, slice, M>>
      /\ UNCHANGED <<op, result>>
  BY DEF Lock
<1>2. /\ label \in Labels /\ label \in {"access", "grow"}
      /\ c \in Hosts <=> label = "access"
      /\ c \in Agents <=> c \notin Hosts
  BY Facts DEF Labels
<1> HIDE DEF label
<1>3. /\ CallsTyped' /\ pc'[c] = label
      /\ \A d \in Callers : d # c => pc'[d] = pc[d] /\ op'[d] = op[d]
                                     /\ result'[d] = result[d]
      /\ \A d \in Callers : d # c => (memMu' = d <=> memMu = d)
  BY <1>1, <1>2, Moved
<1>4. Role(c)'
  BY <1>1, <1>2, <1>3 DEF IInv, Role
<1>5. Checked(c)' /\ Alone(c)' /\ Copied(c)'
  BY <1>1, <1>2, <1>3 DEF IInv, Checked, Alone, Copied, Holding
<1> QED BY <1>1, <1>3, <1>4, <1>5, MemoryKept

-----------------------------------------------------------------------------
(* Accesses                                                                 *)

\* An access inside the size reads or writes the array the slice names.
LEMMA AccessStep ==
  ASSUME IInv, NEW c \in Callers, pc[c] \in {"deref", "wasi", "access"},
         Access(c, base), UNCHANGED <<memShared, memSize, slice, M>>,
         memMu' = IF pc[c] = "access" THEN None ELSE memMu
  PROVE  IInv'
<1> DEFINE p == op[c].page
           v == op[c].arg
<1>0. /\ heap \in Seq(Arrays) /\ base \in 1..Len(heap) /\ Len(heap) \in Nat
      /\ heap[base] \in Arrays /\ p \in Pages /\ op[c] # NoOp
      /\ op[c].kind \in {"store", "load", "wasi"}
      /\ op[c].kind # "load" => v \in Values
  <2>1. heap \in Seq(Arrays) /\ base \in 1..Len(heap)
    BY DEF IInv, MemoryTyped
  <2>2. Len(heap) \in Nat /\ heap[base] \in Arrays
    BY <2>1, LenProperties, ElementOfSeq
  <2>3. op[c].kind \in {"store", "load", "wasi"}
    BY Facts DEF IInv, Role
  <2> QED BY <2>1, <2>2, <2>3, Busy
<1>1. /\ heap' \in Seq(Arrays) /\ Len(heap') = Len(heap)
      /\ \A i \in 1..Len(heap) : i # base => heap'[i] = heap[i]
      /\ heap'[base] = IF op[c].kind = "load" THEN heap[base]
                       ELSE [heap[base] EXCEPT ![p] = v]
  <2>1. CASE op[c].kind = "load"
    BY <1>0, <2>1 DEF Access
  <2>2. CASE op[c].kind # "load"
    <3>1. [heap[base] EXCEPT ![p] = v] \in Arrays
      BY <1>0, <2>2 DEF Arrays
    <3>2. heap' = [heap EXCEPT ![base] = [heap[base] EXCEPT ![p] = v]]
      BY <2>2 DEF Access
    <3> QED BY <1>0, <2>2, <3>1, <3>2, ExceptSeq
  <2> QED BY <2>1, <2>2
<1>2. /\ pc'[c] = "idle" /\ op'[c] = NoOp
      /\ \A d \in Callers : d # c =>
           pc'[d] = pc[d] /\ op'[d] = op[d] /\ result'[d] = result[d]
      /\ pc' \in [Callers -> Labels] /\ op' \in [Callers -> Ops \cup {NoOp}]
  BY Returned DEF Access
<1>3. result' \in [Callers -> Values \cup Pages \cup {Trap, -1}]
  <2>1. M \in 1..Len(heap) /\ heap[base][p] \in Values /\ 0 \in Values
    BY <1>0, Facts DEF IInv, MemoryTyped, Arrays
  <2> QED BY <2>1 DEF IInv, CallsTyped, Access, Return
<1>4. memMu' # c /\ memMu' \in Callers \cup {None}
  BY Facts DEF IInv, Alone, CallsTyped, Holding
<1>5. MemoryTyped' /\ CallsTyped' /\ SliceCoversMemory'
  BY <1>1, <1>2, <1>3, <1>4 DEF IInv, MemoryTyped, CallsTyped, SliceCoversMemory, slice
<1>6. ASSUME NEW d \in Callers
      PROVE  Role(d)' /\ Checked(d)' /\ Alone(d)' /\ Copied(d)'
  <2>1. CASE d = c
    BY <1>2, <1>4, <2>1, ReturnedIdle
  <2>2. CASE d # c
    <3>1. memMu' = d <=> memMu = d
      BY <2>2, Facts DEF IInv, Alone, Holding
    <3>2. Role(d)' /\ Checked(d)' /\ Alone(d)'
      BY <1>2, <2>2, <3>1 DEF IInv, Role, Checked, Alone, slice
    <3>3. pc[d] # "publish"
      <4> SUFFICES ASSUME pc[d] = "publish" PROVE FALSE
        OBVIOUS
      <4>1. ~memShared /\ memMu = d
        BY DEF IInv, Copied, Alone, Holding
      <4>2. c \notin Hosts
        BY <2>2, <4>1, Facts DEF IInv, Role, Alone, Holding
      <4>3. c = Main /\ d \notin Hosts
        BY <4>1, <4>2, Facts DEF IInv, Alone, Role
      <4>4. d = Main
        BY <4>1, <4>3, Facts DEF IInv, Alone
      <4> QED BY <2>2, <4>3, <4>4
    <3>4. Copied(d)'
      BY <1>2, <2>2, <3>3 DEF Copied
    <3> QED BY <3>2, <3>4
  <2> QED BY <2>1, <2>2
<1>7. ASSUME ~TailPointers PROVE TailIsZero'
  <2>1. p < memSize
    <3>1. c \in Hosts \/ c \in Agents
      BY Facts
    <3> QED BY <1>7, <3>1, Facts DEF IInv, Role, Checked
  <2>2. memSize' = memSize /\ base' = base /\ memSize \in Nat /\ p \in Nat
    BY <1>0, Facts DEF slice, IInv, MemoryTyped
  <2>3. \A q \in Pages : q >= memSize => heap'[base][q] = heap[base][q]
    BY <1>0, <1>1, <2>1, <2>2, Facts DEF Arrays
  <2> QED BY <1>7, <2>2, <2>3 DEF IInv, TailIsZero
<1> QED BY <1>5, <1>6, <1>7 DEF IInv


LEMMA DerefStep ==
  ASSUME IInv, NEW c \in Callers, Deref(c)
  PROVE  IInv'
BY AccessStep DEF Deref, IInv, SliceCoversMemory

LEMMA WasiWritesStep ==
  ASSUME IInv, NEW c \in Callers, WasiWrites(c)
  PROVE  IInv'
BY AccessStep DEF WasiWrites

LEMMA HostAccessStep ==
  ASSUME IInv, NEW c \in Callers, HostAccess(c)
  PROVE  IInv'
BY AccessStep DEF HostAccess

-----------------------------------------------------------------------------
(* Growing                                                                  *)

\* The sizes of a grow that goes ahead.
LEMMA Grown ==
  ASSUME IInv, NEW c \in Callers, pc[c] \in Holding, op[c].arg # 0, ~TooLarge(c)
  PROVE  /\ memSize \in Nat /\ len \in Nat /\ cap \in Nat
         /\ Want(c) \in Pages /\ memSize < Want(c)
         /\ MaxMem # 0 => Want(c) <= MaxMem
         /\ memShared => Want(c) <= len
         /\ NewCap(c) \in Pages /\ Want(c) <= NewCap(c)
<1>1. pc[c] # "idle"
  BY DEF Holding
<1>2. /\ op[c].arg \in Int /\ memSize \in Nat /\ len \in Nat /\ cap \in Nat
      /\ HardCap \in Nat /\ MaxMem \in Nat
  BY <1>1, Busy, Facts DEF IInv, MemoryTyped
<1>3. /\ op[c].arg > 0 /\ Want(c) = memSize + op[c].arg
      /\ Want(c) <= HardCap
      /\ MaxMem # 0 => Want(c) <= MaxMem
      /\ memShared => Want(c) <= len
  BY <1>2 DEF TooLarge, Want
<1>4. Want(c) \in Nat /\ memSize < Want(c)
  BY <1>2, <1>3
<1> DEFINE w == Want(c)
           doubled == Most(2 * cap, w)
           bounded == IF MaxMem = 0 THEN doubled ELSE Least(doubled, MaxMem)
<1>5. /\ w \in Nat /\ w <= HardCap /\ (MaxMem # 0 => w <= MaxMem)
  BY <1>3, <1>4
<1>6. NewCap(c) = Least(bounded, HardCap)
  BY DEF NewCap
<1> HIDE DEF w
<1>7. doubled \in Nat /\ w <= doubled
  BY <1>2, <1>5 DEF Most
<1> HIDE DEF doubled
<1>8. bounded \in Nat /\ w <= bounded
  BY <1>2, <1>5, <1>7 DEF Least
<1> HIDE DEF bounded
<1>9. Least(bounded, HardCap) \in 0..HardCap /\ w <= Least(bounded, HardCap)
  BY <1>2, <1>5, <1>8 DEF Least
<1> QED BY <1>2, <1>3, <1>4, <1>6, <1>9, Facts DEF w

\* While a caller holds the lock of a memory that is not shared, no other
\* caller is between a check and its access.
LEMMA GrowerAlone ==
  ASSUME IInv, NEW c \in Callers, pc[c] = "grow" \/ pc[c] = "publish", ~memShared
  PROVE  /\ c \in Agents
         /\ \A d \in Callers : d # c => pc[d] \in {"idle", "lock"}
<1>1. c \in Agents
  BY Facts DEF IInv, Role
<1>2. c = Main /\ memMu = c
  BY <1>1 DEF IInv, Alone, Holding
<1>3. ASSUME NEW d \in Callers, d # c PROVE pc[d] \in {"idle", "lock"}
  <2>1. CASE d \in Agents
    BY <1>2, <1>3, <2>1 DEF IInv, Alone
  <2>2. CASE d \in Hosts
    BY <1>2, <1>3, <2>2 DEF IInv, Alone, Holding, Role
  <2> QED BY <2>1, <2>2, Facts
<1> QED BY <1>1, <1>3

\* A finished grow: the slice is longer, the new pages are zero, and nobody's
\* check is undone.
LEMMA Finished ==
  ASSUME IInv, NEW c \in Callers, pc[c] = "grow" \/ pc[c] = "publish",
         NEW size \in Pages, memSize <= size, memSize' = size,
         Return(c, memSize), memMu' = None, memShared' = memShared,
         MemoryTyped', SliceCoversMemory',
         memShared => len' = len,
         ~TailPointers => TailIsZero'
  PROVE  IInv'
<1>1. /\ pc'[c] = "idle" /\ op'[c] = NoOp
      /\ \A d \in Callers : d # c =>
           pc'[d] = pc[d] /\ op'[d] = op[d] /\ result'[d] = result[d]
      /\ pc' \in [Callers -> Labels] /\ op' \in [Callers -> Ops \cup {NoOp}]
  BY Returned
<1>2. result' \in [Callers -> Values \cup Pages \cup {Trap, -1}]
  BY DEF IInv, MemoryTyped, CallsTyped, Return
<1>3. CallsTyped'
  BY <1>1, <1>2 DEF CallsTyped
<1>4. memMu = c /\ memSize \in Nat /\ size \in Nat
  BY Facts DEF IInv, Alone, Holding, MemoryTyped
<1>5. ASSUME NEW d \in Callers
      PROVE  Role(d)' /\ Checked(d)' /\ Alone(d)' /\ Copied(d)'
  <2>1. CASE d = c
    BY <1>1, <1>4, <2>1, Facts, ReturnedIdle
  <2>2. CASE d # c
    <3>1. pc[d] \notin Holding /\ memMu' # d
      BY <1>4, <2>2, Facts DEF IInv, Alone
    <3>2. pc[d] # "idle" => op[d].page \in Nat
      BY Busy, Facts
    <3>3. Role(d)'
      BY <1>1, <1>4, <2>2, <3>1, <3>2 DEF IInv, Role
    <3>4. Checked(d)'
      <4>1. CASE memShared
        BY <1>1, <1>4, <2>2, <3>2, <4>1 DEF IInv, Checked
      <4>2. CASE ~memShared
        <5>1. pc[d] \in {"idle", "lock"}
          BY <2>2, <4>2, GrowerAlone
        <5> QED BY <1>1, <2>2, <5>1 DEF Checked
      <4> QED BY <4>1, <4>2
    <3>5. Alone(d)' /\ Copied(d)'
      BY <1>1, <2>2, <3>1 DEF IInv, Alone, Copied, Holding
    <3> QED BY <3>3, <3>4, <3>5
  <2> QED BY <2>1, <2>2
<1> QED BY <1>3, <1>5 DEF IInv

LEMMA GrowSharedStep ==
  ASSUME IInv, NEW c \in Callers, GrowShared(c)
  PROVE  IInv'
<1>1. /\ pc[c] = "grow" /\ op[c].arg # 0 /\ ~TooLarge(c) /\ memShared
      /\ memSize' = Want(c) /\ memMu' = None /\ Return(c, memSize)
      /\ memShared' = memShared /\ heap' = heap /\ M' = M /\ base' = base
      /\ len' = len /\ cap' = cap
  BY DEF GrowShared, MayGrow, slice
<1>2. /\ memSize \in Nat /\ Want(c) \in Pages /\ memSize < Want(c)
      /\ MaxMem # 0 => Want(c) <= MaxMem
      /\ Want(c) <= len /\ Want(c) \in Nat
  BY <1>1, Grown, Facts DEF Holding
<1>3. MemoryTyped' /\ SliceCoversMemory'
  BY <1>1, <1>2 DEF IInv, MemoryTyped, SliceCoversMemory
<1>4. ~TailPointers => TailIsZero'
  BY <1>1, <1>2, Facts DEF IInv, TailIsZero
<1> QED BY <1>1, <1>2, <1>3, <1>4, Finished

LEMMA GrowResliceStep ==
  ASSUME IInv, NEW c \in Callers, GrowReslice(c)
  PROVE  IInv'
<1>1. /\ pc[c] = "grow" /\ op[c].arg # 0 /\ ~TooLarge(c) /\ ~memShared
      /\ memSize' = Want(c) /\ memMu' = None /\ Return(c, memSize)
      /\ memShared' = memShared /\ heap' = heap /\ M' = M /\ base' = base
      /\ Want(c) <= cap /\ len' = Want(c) /\ cap' = cap
  BY DEF GrowReslice, MayGrow
<1>2. /\ memSize \in Nat /\ Want(c) \in Pages /\ memSize < Want(c)
      /\ MaxMem # 0 => Want(c) <= MaxMem
      /\ Want(c) \in Nat
  BY <1>1, Grown, Facts DEF Holding
<1>3. MemoryTyped' /\ SliceCoversMemory'
  BY <1>1, <1>2 DEF IInv, MemoryTyped, SliceCoversMemory
<1>4. ~TailPointers => TailIsZero'
  BY <1>1, <1>2, Facts DEF IInv, TailIsZero
<1> QED BY <1>1, <1>2, <1>3, <1>4, Finished

LEMMA GrowCopyStep ==
  ASSUME IInv, NEW c \in Callers, GrowCopy(c)
  PROVE  IInv'
<1> DEFINE copy == [p \in Pages |-> IF p < len THEN heap[base][p] ELSE 0]
<1>1. /\ pc[c] = "grow" /\ op[c].arg # 0 /\ ~TooLarge(c) /\ ~memShared
      /\ Want(c) > cap /\ heap' = Append(heap, copy) /\ Goto(c, "publish")
      /\ UNCHANGED <<memShared, memMu, memSize, slice, M, op, result>>
  BY DEF GrowCopy, MayGrow
<1>2. heap \in Seq(Arrays) /\ base \in 1..Len(heap) /\ M \in 1..Len(heap)
      /\ Len(heap) \in Nat
  BY LenProperties DEF IInv, MemoryTyped
<1>3. copy \in Arrays
  <2>1. heap[base] \in Arrays
    BY <1>2, ElementOfSeq
  <2> QED BY <2>1, Facts DEF Arrays
<1> HIDE DEF copy
<1>4. /\ heap' \in Seq(Arrays) /\ Len(heap') = Len(heap) + 1
      /\ heap'[Len(heap')] = copy
      /\ \A i \in 1..Len(heap) : heap'[i] = heap[i]
  BY <1>1, <1>2, <1>3, AppendProperties
<1>5. MemoryTyped' /\ SliceCoversMemory' /\ heap'[base] = heap[base]
  BY <1>1, <1>2, <1>4 DEF IInv, MemoryTyped, SliceCoversMemory, slice
<1>6. /\ CallsTyped' /\ pc'[c] = "publish"
      /\ \A d \in Callers : d # c => pc'[d] = pc[d] /\ op'[d] = op[d]
                                     /\ result'[d] = result[d]
  <2>1. "publish" \in Labels
    BY DEF Labels
  <2>2. memMu = c
    BY <1>1 DEF IInv, Alone, Holding
  <2> QED BY <1>1, <2>1, <2>2, Moved
<1>7. ASSUME NEW d \in Callers
      PROVE  Role(d)' /\ Checked(d)' /\ Alone(d)' /\ Copied(d)'
  <2>1. CASE d = c
    <3>1. Role(c)' /\ Checked(c)' /\ Alone(c)'
      BY <1>1, <1>6 DEF IInv, Role, Checked, Alone, Holding
    <3>2. Copied(c)'
      BY <1>1, <1>4, <1>5 DEF Copied, TooLarge, Want, slice, copy
    <3> QED BY <2>1, <3>1, <3>2
  <2>2. CASE d # c
    <3>1. pc[d] \in {"idle", "lock"}
      BY <1>1, <2>2, GrowerAlone
    <3> QED BY <1>1, <1>6, <2>2, <3>1 DEF IInv, Role, Checked, Alone, Copied, Holding
  <2> QED BY <2>1, <2>2
<1>8. ~TailPointers => TailIsZero'
  BY <1>1, <1>5 DEF IInv, TailIsZero, slice
<1> QED BY <1>5, <1>6, <1>7, <1>8 DEF IInv

LEMMA GrowPublishStep ==
  ASSUME IInv, NEW c \in Callers, GrowPublish(c)
  PROVE  IInv'
<1>1. /\ pc[c] = "publish" /\ memSize' = Want(c) /\ memMu' = None
      /\ Return(c, memSize) /\ memShared' = memShared /\ heap' = heap
      /\ M' = Len(heap) /\ base' = Len(heap) /\ len' = Want(c)
      /\ cap' = NewCap(c)
  BY DEF GrowPublish
<1>2. /\ ~memShared /\ op[c].arg # 0 /\ ~TooLarge(c) /\ Want(c) > cap
      /\ heap[Len(heap)] = [p \in Pages |-> IF p < len THEN heap[base][p] ELSE 0]
  BY <1>1 DEF IInv, Copied
<1>3. /\ memSize \in Nat /\ Want(c) \in Pages /\ memSize < Want(c)
      /\ MaxMem # 0 => Want(c) <= MaxMem
      /\ Want(c) \in Nat /\ NewCap(c) \in Pages /\ Want(c) <= NewCap(c)
  BY <1>1, <1>2, Grown, Facts DEF Holding
<1>4. Len(heap) \in 1..Len(heap)
  BY LenProperties DEF IInv, MemoryTyped
<1>5. MemoryTyped' /\ SliceCoversMemory'
  BY <1>1, <1>2, <1>3, <1>4 DEF IInv, MemoryTyped, SliceCoversMemory
<1>6. TailIsZero'
  <2>1. len = memSize
    BY <1>2 DEF IInv, SliceCoversMemory
  <2> QED BY <1>1, <1>2, <1>3, <2>1, Facts DEF TailIsZero
<1> QED BY <1>1, <1>2, <1>3, <1>5, <1>6, Finished

LEMMA StepCorrect == IInv /\ [Next]_vars => IInv'
<1> SUFFICES ASSUME IInv, [Next]_vars PROVE IInv'
  OBVIOUS
<1>1. CASE UNCHANGED vars
  BY <1>1 DEF IInv, vars, MemoryTyped, CallsTyped, SliceCoversMemory, TailIsZero,
              Role, Checked, Alone, Copied, TooLarge, Want
<1>2. CASE \E c \in Callers : Call(c) \/ Lock(c)
  BY <1>2, CallStep, LockStep
<1>3. ASSUME NEW c \in Callers, Work(c) PROVE IInv'
  <2>1. /\ Trap \in Values \cup Pages \cup {Trap, -1}
        /\ -1 \in Values \cup Pages \cup {Trap, -1}
        /\ memSize \in Values \cup Pages \cup {Trap, -1}
    BY DEF IInv, MemoryTyped
  <2>2. CASE CheckFails(c)
    BY <2>1, <2>2, RefusedStep DEF CheckFails, Holding
  <2>3. CASE MemSliceFaults(c)
    BY <2>1, <2>3, RefusedStep DEF MemSliceFaults, Holding
  <2>4. CASE GrowRefused(c)
    BY <2>1, <2>4, RefusedStep DEF GrowRefused, Holding
  <2>5. CASE GrowZero(c)
    BY <2>1, <2>5, RefusedStep DEF GrowZero, Holding
  <2> QED
    BY <1>3, <2>2, <2>3, <2>4, <2>5, CheckPassesStep, DerefStep, MemSliceStep,
       WasiWritesStep, HostAccessStep, GrowSharedStep, GrowResliceStep,
       GrowCopyStep, GrowPublishStep DEF Work
<1> QED BY <1>1, <1>2, <1>3 DEF Next


-----------------------------------------------------------------------------
\* Every variable has its type, through reallocations too: the caps leave the
\* new capacity at least what the grow asked for.
THEOREM MemoryTypeCorrect == Spec => []TypeOK
<1>1. IInv => TypeOK
  BY DEF IInv, MemoryTyped, CallsTyped, TypeOK, Arrays
<1> QED BY <1>1, InitCorrect, StepCorrect, PTL DEF Spec

\* The size stays under its maximum and inside the slice, the cached base
\* pointer is the slice's, and a memory that is not shared has exactly its size.
THEOREM SliceIsExact == Spec => []SliceCoversMemory
<1>1. IInv => SliceCoversMemory
  BY DEF IInv
<1> QED BY <1>1, InitCorrect, StepCorrect, PTL DEF Spec

\* No checked access leaves the slice, whatever grows between the check and
\* the access.
THEOREM ChecksHold == Spec => []CheckedStaysInside
<1>1. IInv => CheckedStaysInside
  <2> SUFFICES ASSUME IInv, NEW c \in Callers, pc[c] \in {"deref", "wasi", "access"}
               PROVE  op[c].page < len
    BY DEF CheckedStaysInside
  <2>1. /\ op[c].page \in Nat /\ memSize \in Nat /\ len \in Nat /\ memSize <= len
    BY Busy, Facts DEF IInv, MemoryTyped, SliceCoversMemory
  <2>2. CASE pc[c] = "wasi"
    BY <2>2 DEF IInv, Checked
  <2>3. CASE pc[c] \in {"deref", "access"}
    <3>1. op[c].page < memSize
      BY <2>3, Facts DEF IInv, Checked, Role
    <3> QED BY <2>1, <3>1
  <2> QED BY <2>2, <2>3
<1> QED BY <1>1, InitCorrect, StepCorrect, PTL DEF Spec

\* A grow exposes zero pages, as long as the guest hands the WASI host no
\* pointer into the reserved tail of a shared memory.
THEOREM TailStaysZero == ~TailPointers => (Spec => []TailIsZero)
<1> SUFFICES ASSUME ~TailPointers PROVE Spec => []TailIsZero
  OBVIOUS
<1>1. IInv => TailIsZero
  BY DEF IInv
<1> QED BY <1>1, InitCorrect, StepCorrect, PTL DEF Spec

-----------------------------------------------------------------------------
(* The refinement                                                           *)

Content(p) == IF p < memSize THEN heap[base][p] ELSE 0
content == [p \in Pages |-> Content(p)]
pending == [c \in Callers |-> AbstractOp(op[c])]

LEMMA Pending ==
  ASSUME NEW o \in Ops
  PROVE  /\ AbstractOp(o) \in {AbstractOp(x) : x \in Ops}
         /\ AbstractOp(o) # NoOp
         /\ AbstractOp(o).kind = IF o.kind = "wasi" THEN "store" ELSE o.kind
         /\ AbstractOp(o).page = o.page /\ AbstractOp(o).arg = o.arg
<1>1. o \in OpRecords /\ o # NoOp
  BY LinearMemoryAssumption
<1>2. [o EXCEPT !.kind = "store"] \in OpRecords
  BY <1>1 DEF OpRecords
<1>3. [o EXCEPT !.kind = "store"] # NoOp
  BY <1>2, LinearMemoryAssumption
<1> QED BY <1>1, <1>3 DEF AbstractOp, OpRecords

\* A caller returns in both, or a step leaves what the abstract memory sees.
LEMMA Answered ==
  ASSUME IInv, NEW c \in Callers, pc[c] # "idle", NEW answer, Return(c, answer)
  PROVE  /\ Abstract!Return(c, answer)
         /\ pending[c] = AbstractOp(op[c]) /\ pending[c] # NoOp
         /\ op[c] \in Ops
<1>1. op[c] \in Ops
  BY Busy
<1>2. op' = [op EXCEPT ![c] = NoOp] /\ op \in [Callers -> Ops \cup {NoOp}]
  BY DEF Return, IInv, CallsTyped
<1>3. AbstractOp(NoOp) = NoOp
  BY DEF AbstractOp
<1>4. [d \in Callers |-> AbstractOp(op'[d])] = [pending EXCEPT ![c] = NoOp]
  BY <1>2, <1>3 DEF pending
<1>5. result' = [result EXCEPT ![c] = answer]
  BY DEF Return
<1> QED BY <1>1, <1>4, <1>5, Pending DEF Abstract!Return, pending

LEMMA InitRefines == Init => Abstract!Init
<1> SUFFICES ASSUME Init PROVE Abstract!Init
  OBVIOUS
<1>1. memSize \in Pages
  BY Facts DEF Init
<1>2. content = [p \in Pages |-> 0]
  BY DEF Init, content, Content, Blank
<1>3. pending = [c \in Callers |-> NoOp]
  BY DEF Init, pending, AbstractOp
<1>4. result = [c \in Callers |-> 0]
  BY DEF Init
<1> QED BY <1>1, <1>2, <1>3, <1>4 DEF Abstract!Init, content, Content, pending


\* An access inside the size is a store or a load of the abstract memory.
LEMMA AccessRefines ==
  ASSUME IInv, NEW c \in Callers, pc[c] \in {"deref", "wasi", "access"},
         op[c].page < memSize,
         Access(c, base), UNCHANGED <<memShared, memSize, slice, M>>
  PROVE  Abstract!Store(c) \/ Abstract!Load(c)
<1> DEFINE p == op[c].page
           v == op[c].arg
<1>0. /\ heap \in Seq(Arrays) /\ base \in 1..Len(heap) /\ heap[base] \in Arrays
      /\ p \in Pages /\ op[c] \in Ops /\ pc[c] # "idle"
      /\ op[c].kind \in {"store", "load", "wasi"}
      /\ memSize' = memSize /\ base' = base
  <2>1. heap \in Seq(Arrays) /\ base \in 1..Len(heap)
    BY DEF IInv, MemoryTyped
  <2>2. op[c].kind \in {"store", "load", "wasi"}
    BY Facts DEF IInv, Role
  <2> QED BY <2>1, <2>2, Busy, ElementOfSeq DEF slice
<1>1. content[p] = heap[base][p]
  BY <1>0 DEF content, Content
<1>2. /\ pending[c] = AbstractOp(op[c]) /\ AbstractOp(op[c]).page = p
      /\ AbstractOp(op[c]).arg = v
      /\ AbstractOp(op[c]).kind = IF op[c].kind = "wasi" THEN "store" ELSE op[c].kind
  BY <1>0, Pending DEF pending
<1>3. CASE op[c].kind = "load"
  <2>1. heap' = heap /\ Return(c, heap[base][p])
    BY <1>3 DEF Access
  <2>2. Abstract!Return(c, content[p])
    BY <1>0, <1>1, <2>1, Answered
  <2>3. content' = content
    BY <1>0, <2>1 DEF content, Content
  <2> QED BY <1>0, <1>2, <1>3, <2>2, <2>3 DEF Abstract!Load, pending, content, Content
<1>4. CASE op[c].kind # "load"
  <2>1. heap' = [heap EXCEPT ![base] = [heap[base] EXCEPT ![p] = v]] /\ Return(c, 0)
    BY <1>4 DEF Access
  <2>2. heap'[base] = [heap[base] EXCEPT ![p] = v]
    BY <1>0, <2>1
  <2>3. content' = [content EXCEPT ![p] = v]
    BY <1>0, <2>2 DEF content, Content, Arrays
  <2>4. Abstract!Return(c, 0)
    BY <1>0, <2>1, Answered
  <2> QED BY <1>0, <1>2, <1>4, <2>3, <2>4 DEF Abstract!Store, pending, content, Content
<1> QED BY <1>3, <1>4

\* A finished grow appends zero pages.
LEMMA GrowRefines ==
  ASSUME IInv, NEW c \in Callers, pc[c] = "grow" \/ pc[c] = "publish",
         op[c].arg >= 0, memSize' = Want(c), Return(c, memSize),
         \A p \in Pages : Content(p)' = Content(p)
  PROVE  Abstract!Grow(c)
<1>1. /\ pc[c] # "idle" /\ c \in Agents /\ op[c].kind = "grow"
  BY Facts DEF IInv, Role
<1>2. op[c] \in Ops
  BY <1>1, Busy
<1>3. /\ pending[c] = AbstractOp(op[c]) /\ AbstractOp(op[c]).kind = "grow"
      /\ AbstractOp(op[c]).arg = op[c].arg
  BY <1>1, <1>2, Pending DEF pending
<1>4. content' = content
  BY DEF content
<1>5. Abstract!Return(c, memSize)
  BY <1>1, Answered
<1> QED BY <1>3, <1>4, <1>5 DEF Abstract!Grow, Want, pending, content, Content

LEMMA StepRefines ==
  ASSUME ~TailPointers, IInv, [Next]_vars
  PROVE  [Abstract!Next]_(Abstract!vars)
<1> DEFINE Stutter == UNCHANGED <<memSize, content, pending, result>>
<1>1. ASSUME Stutter PROVE [Abstract!Next]_(Abstract!vars)
  BY <1>1 DEF Abstract!vars, content, Content, pending
<1>2. ASSUME NEW c \in Callers, pending[c] # NoOp,
             \/ Abstract!Store(c) \/ Abstract!Load(c) \/ Abstract!OutOfBounds(c)
             \/ Abstract!Grow(c) \/ Abstract!GrowRefused(c)
      PROVE  [Abstract!Next]_(Abstract!vars)
  BY <1>2 DEF Abstract!Next, pending
<1>3. ASSUME NEW c \in Callers, pc[c] # "idle"
      PROVE  /\ op[c] \in Ops /\ pending[c] # NoOp /\ pending[c] = AbstractOp(op[c])
             /\ pending[c].kind = IF op[c].kind = "wasi" THEN "store" ELSE op[c].kind
             /\ pending[c].page = op[c].page /\ pending[c].arg = op[c].arg
             /\ op[c].page \in Nat
  BY <1>3, Busy, Pending, Facts DEF pending
<1>a. /\ memSize \in Nat /\ len \in Nat /\ memSize <= len
      /\ M = base /\ TailIsZero
  BY Facts DEF IInv, MemoryTyped, SliceCoversMemory
<1>4. CASE UNCHANGED vars
  BY <1>1, <1>4 DEF vars, slice, content, Content, pending
<1>5. ASSUME NEW c \in Callers, Call(c) PROVE [Abstract!Next]_(Abstract!vars)
  <2>1. PICK o \in Ops : op' = [op EXCEPT ![c] = o]
    BY <1>5 DEF Call
  <2>2. op[c] = NoOp /\ op \in [Callers -> Ops \cup {NoOp}]
    BY <1>5 DEF Call, IInv, Role, CallsTyped
  <2>3. pending[c] = NoOp /\ pending' = [pending EXCEPT ![c] = AbstractOp(o)]
    BY <2>1, <2>2 DEF pending, AbstractOp
  <2>4. /\ AbstractOp(o) \in {AbstractOp(x) : x \in Ops}
        /\ result' = [result EXCEPT ![c] = 0]
        /\ memSize' = memSize /\ content' = content
    BY <1>5, Pending DEF Call, slice, content, Content
  <2>5. Abstract!Call(c)
    BY <2>3, <2>4 DEF Abstract!Call, pending, content, Content
  <2> QED BY <2>5 DEF Abstract!Next
<1>6. ASSUME NEW c \in Callers, Lock(c) \/ CheckPasses(c) \/ MemSlice(c)
      PROVE  [Abstract!Next]_(Abstract!vars)
  <2>1. Stutter
    BY <1>6 DEF Lock, CheckPasses, MemSlice, slice, content, Content, pending
  <2> QED BY <1>1, <2>1
<1>7. ASSUME NEW c \in Callers, GrowCopy(c) PROVE [Abstract!Next]_(Abstract!vars)
  <2>1. heap \in Seq(Arrays) /\ base \in 1..Len(heap)
    BY DEF IInv, MemoryTyped
  <2>2. heap[base] \in Arrays
    BY <2>1, ElementOfSeq
  <2> DEFINE copy == [p \in Pages |-> IF p < len THEN heap[base][p] ELSE 0]
  <2>3. copy \in Arrays
    BY <2>2, Facts DEF Arrays
  <2>4. heap' = Append(heap, copy)
    BY <1>7 DEF GrowCopy
  <2> HIDE DEF copy
  <2>5. heap'[base] = heap[base]
    BY <2>1, <2>3, <2>4, AppendProperties
  <2>6. memSize' = memSize /\ base' = base /\ op' = op /\ result' = result
    BY <1>7 DEF GrowCopy, slice
  <2>7. Stutter
    BY <2>5, <2>6 DEF content, Content, pending
  <2> QED BY <1>1, <2>7
<1>8. ASSUME NEW c \in Callers, CheckFails(c) \/ MemSliceFaults(c)
      PROVE  [Abstract!Next]_(Abstract!vars)
  <2>1. /\ pc[c] \in {"check", "memSlice"} /\ pc[c] # "idle"
        /\ op[c].page >= memSize /\ Return(c, Trap)
        /\ memSize' = memSize /\ content' = content
    <3>1. CASE CheckFails(c)
      BY <3>1 DEF CheckFails, slice, content, Content
    <3>2. CASE MemSliceFaults(c)
      <4>1. pc[c] # "idle" /\ op[c].page >= len
        BY <3>2 DEF MemSliceFaults
      <4>2. op[c].page >= memSize
        BY <1>3, <1>a, <4>1
      <4> QED BY <3>2, <4>2 DEF MemSliceFaults, slice, content, Content
    <3> QED BY <1>8, <3>1, <3>2
  <2>2. pending[c].kind \in {"store", "load"}
    <3>1. c \notin Hosts
      BY <2>1 DEF IInv, Role
    <3>2. op[c].kind \in {"store", "load", "wasi"}
      BY <2>1, <3>1, Facts DEF IInv, Role
    <3> QED BY <1>3, <2>1, <3>2
  <2>3. Abstract!OutOfBounds(c)
    BY <1>3, <2>1, <2>2, Answered
       DEF Abstract!OutOfBounds, pending, content, Content
  <2> QED BY <1>2, <1>3, <2>1, <2>3
<1>9. ASSUME NEW c \in Callers, Deref(c) \/ WasiWrites(c) \/ HostAccess(c)
      PROVE  [Abstract!Next]_(Abstract!vars)
  <2>1. /\ pc[c] \in {"deref", "wasi", "access"} /\ pc[c] # "idle"
        /\ Access(c, base) /\ UNCHANGED <<memShared, memSize, slice, M>>
    BY <1>9, <1>a DEF Deref, WasiWrites, HostAccess
  <2>2. op[c].page < memSize
    BY <2>1, Facts DEF IInv, Role, Checked
  <2> QED BY <1>2, <1>3, <2>1, <2>2, AccessRefines
<1>10. ASSUME NEW c \in Callers, GrowRefused(c)
       PROVE  [Abstract!Next]_(Abstract!vars)
  <2>1. /\ pc[c] = "grow" /\ pc[c] # "idle" /\ op[c].arg # 0 /\ Return(c, -1)
        /\ memSize' = memSize /\ content' = content
    BY <1>10 DEF GrowRefused, slice, content, Content
  <2>2. op[c].kind = "grow"
    BY <2>1, Facts DEF IInv, Role
  <2>3. Abstract!GrowRefused(c)
    BY <1>3, <2>1, <2>2, Answered
       DEF Abstract!GrowRefused, Abstract!Refused, pending, content, Content
  <2> QED BY <1>2, <1>3, <2>1, <2>3
<1>11. ASSUME NEW c \in Callers, pc[c] = "grow" \/ pc[c] = "publish", Abstract!Grow(c)
       PROVE  [Abstract!Next]_(Abstract!vars)
  BY <1>2, <1>3, <1>11
<1>12. ASSUME NEW c \in Callers, GrowZero(c)
       PROVE  [Abstract!Next]_(Abstract!vars)
  <2>1. /\ pc[c] = "grow" /\ op[c].arg = 0 /\ Return(c, memSize)
        /\ memSize' = memSize /\ heap' = heap /\ base' = base
    BY <1>12 DEF GrowZero, slice
  <2>2. memSize' = Want(c) /\ op[c].arg >= 0
    BY <1>a, <2>1 DEF Want
  <2>3. \A p \in Pages : Content(p)' = Content(p)
    BY <2>1 DEF Content
  <2>4. Abstract!Grow(c)
    BY <2>1, <2>2, <2>3, GrowRefines
  <2> QED BY <1>11, <2>1, <2>4
<1>13. ASSUME NEW c \in Callers, GrowShared(c) \/ GrowReslice(c)
       PROVE  [Abstract!Next]_(Abstract!vars)
  <2>1. /\ pc[c] = "grow" /\ op[c].arg # 0 /\ ~TooLarge(c) /\ Return(c, memSize)
        /\ memSize' = Want(c) /\ heap' = heap /\ base' = base
    BY <1>13 DEF GrowShared, GrowReslice, MayGrow, slice
  <2>2. memSize < Want(c) /\ Want(c) \in Nat /\ op[c].arg >= 0
    BY <1>3, <2>1, Grown, Facts, Busy DEF Holding, TooLarge
  <2>3. \A p \in Pages : Content(p)' = Content(p)
    BY <1>a, <2>1, <2>2, Facts DEF Content, TailIsZero
  <2>4. Abstract!Grow(c)
    BY <2>1, <2>2, <2>3, GrowRefines
  <2> QED BY <1>11, <2>1, <2>4
<1>14. ASSUME NEW c \in Callers, GrowPublish(c)
       PROVE  [Abstract!Next]_(Abstract!vars)
  <2>1. /\ pc[c] = "publish" /\ Return(c, memSize)
        /\ memSize' = Want(c) /\ heap' = heap /\ base' = Len(heap)
    BY <1>14 DEF GrowPublish
  <2>2. /\ ~memShared /\ op[c].arg # 0 /\ ~TooLarge(c)
        /\ heap[Len(heap)] = [p \in Pages |-> IF p < len THEN heap[base][p] ELSE 0]
    BY <2>1 DEF IInv, Copied
  <2>3. len = memSize
    BY <2>2 DEF IInv, SliceCoversMemory
  <2>4. memSize < Want(c) /\ Want(c) \in Nat /\ op[c].arg >= 0
    BY <1>3, <2>1, <2>2, Grown, Facts, Busy DEF Holding, TooLarge
  <2>5. \A p \in Pages : Content(p)' = Content(p)
    BY <1>a, <2>1, <2>2, <2>3, <2>4, Facts DEF Content
  <2>6. Abstract!Grow(c)
    BY <2>1, <2>4, <2>5, GrowRefines
  <2> QED BY <1>11, <2>1, <2>6
<1> QED
  BY <1>4, <1>5, <1>6, <1>7, <1>8, <1>9, <1>10, <1>12, <1>13, <1>14
     DEF Next, Work

\* The memory is linearizable: while the guest hands out no pointer into the
\* reserved tail, every load, store and grow of it takes effect at one instant.
THEOREM MemoryRefinement == ~TailPointers => (Spec => ImplementsWasmMemory)
<1> SUFFICES ASSUME ~TailPointers PROVE Spec => ImplementsWasmMemory
  OBVIOUS
<1>1. IInv /\ [Next]_vars => [Abstract!Next]_(Abstract!vars)
  BY StepRefines
<1> QED
  BY <1>1, InitCorrect, StepCorrect, InitRefines, PTL
     DEF Spec, ImplementsWasmMemory, Abstract!Spec
=============================================================================
