----------------------------- MODULE WasmInstance -----------------------------
(***************************************************************************)
(* What WebAssembly says the memory instructions do: the abstract          *)
(* specification Helpers implements.  An instance is a memory of Len       *)
(* bytes, the passive data segments that have not been dropped, and what   *)
(* the last instruction delivered.  Addresses are natural numbers: an      *)
(* access traps when it does not fit in the memory, an empty one too.      *)
(***************************************************************************)
EXTENDS WasmNumbers, Bitwise

CONSTANTS GivenMemory, GivenSegments

VARIABLES mem, segs, call, out

vars == <<mem, segs, call, out>>

Fits(at, n, seq) == at + n <= Len(seq)

Init ==
  /\ mem = GivenMemory
  /\ segs = GivenSegments
  /\ call = [name |-> "none"]
  /\ out = <<>>

\* The little-endian number in n bytes of the memory, byte 0 at mem[1].
Number(at, n) == SumOf(n, LAMBDA j : mem[at + j + 1] * Mod(j))

Put(at, bytes) ==
  [k \in DOMAIN mem |-> IF k - 1 \in at..at + Len(bytes) - 1 THEN bytes[k - at] ELSE mem[k]]

BytesOf(v, from, n) == [k \in 1..n |-> ByteOf(v, from + k - 1)]

\* The lanes a loading instruction makes of the memory.
LoadedLane(c, w, at, i) ==
  CASE c.name = "load"  -> Number(at + i * w, w)
    [] c.name = "widen" -> Wrap(w, IntOf(c.w, c.sign, Number(at + i * c.w, c.w)))
    [] c.name = "splat" -> Number(at, w)
    [] c.name = "zero"  -> IF i = 0 THEN Number(at, w) ELSE 0
    [] c.name = "load_lane" -> IF i = c.lane THEN Number(at, w) ELSE LaneOf(w, c.v, i)

LaneWidth(c) == IF c.name = "widen" THEN 2 * c.w ELSE c.w

AccessBytes(c) ==
  CASE c.name \in {"load", "store"} -> VectorBytes
    [] c.name = "widen" -> VectorBytes \div 2
    [] OTHER -> c.w

Load(c) ==
  LET at == c.addr + c.offset IN
  /\ c.name \in {"load", "widen", "splat", "zero", "load_lane"}
  /\ IF Fits(at, AccessBytes(c), mem)
     THEN \A i \in 0..LaneCount(LaneWidth(c)) - 1 :
            LaneOf(LaneWidth(c), out', i) = LoadedLane(c, LaneWidth(c), at, i)
     ELSE out' = OutOfBounds
  /\ UNCHANGED <<mem, segs>>

Store(c) ==
  LET at == c.addr + c.offset
      bytes == IF c.name = "store" THEN BytesOf(c.v, 0, VectorBytes)
               ELSE BytesOf(c.v, c.lane * c.w, c.w)
  IN
  /\ c.name \in {"store", "store_lane"}
  /\ IF Fits(at, AccessBytes(c), mem)
     THEN mem' = Put(at, bytes) /\ out' = <<>>
     ELSE out' = OutOfBounds /\ UNCHANGED mem
  /\ UNCHANGED segs

Fill(c) ==
  /\ c.name = "fill"
  /\ IF Fits(c.dst, c.n, mem)
     THEN mem' = Put(c.dst, [k \in 1..c.n |-> c.val % Mod(1)]) /\ out' = <<>>
     ELSE out' = OutOfBounds /\ UNCHANGED mem
  /\ UNCHANGED segs

Copy(c) ==
  /\ c.name = "copy"
  /\ IF Fits(c.dst, c.n, mem) /\ Fits(c.src, c.n, mem)
     THEN mem' = Put(c.dst, SubSeq(mem, c.src + 1, c.src + c.n)) /\ out' = <<>>
     ELSE out' = OutOfBounds /\ UNCHANGED mem
  /\ UNCHANGED segs

\* A dropped segment is an empty one.
InitMemory(c) ==
  /\ c.name = "init"
  /\ IF Fits(c.dst, c.n, mem) /\ Fits(c.src, c.n, segs[c.seg])
     THEN mem' = Put(c.dst, SubSeq(segs[c.seg], c.src + 1, c.src + c.n)) /\ out' = <<>>
     ELSE out' = OutOfBounds /\ UNCHANGED mem
  /\ UNCHANGED segs

Drop(c) ==
  /\ c.name = "drop"
  /\ segs' = [segs EXCEPT ![c.seg] = <<>>]
  /\ out' = <<>>
  /\ UNCHANGED mem

\* The integer n in words, as many as an instruction of type t delivers.
WordsOf(t, n) ==
  LET both == <<Wrap(WordBytes, n), Wrap(WordBytes, n \div Mod(WordBytes))>>
  IN  IF t = "i32" THEN <<both[1]>> ELSE both

LoadInteger(c) ==
  LET at == c.addr + c.offset IN
  /\ c.name = "iload"
  /\ out' = IF ~Fits(at, c.w, mem) THEN OutOfBounds
            ELSE IF c.w > WordBytes THEN <<Number(at, WordBytes), Number(at + WordBytes, WordBytes)>>
            ELSE WordsOf(c.t, IntOf(c.w, c.sign, Number(at, c.w)))
  /\ UNCHANGED <<mem, segs>>

StoreInteger(c) ==
  LET at == c.addr + c.offset IN
  /\ c.name = "istore"
  /\ IF Fits(at, c.w, mem)
     THEN mem' = Put(at, BytesOf(c.v, 0, c.w)) /\ out' = <<>>
     ELSE out' = OutOfBounds /\ UNCHANGED mem
  /\ UNCHANGED segs

\* An atomic instruction on c.w bytes, its operands cut to that; it traps when
\* they are not aligned.  What it finds is extended with zeros.
Modified(c, old) ==
  CASE c.op = "load" -> old
    [] c.op \in {"store", "xchg"} -> c.v
    [] c.op = "add" -> old + c.v
    [] c.op = "sub" -> old - c.v
    [] c.op = "and" -> old & c.v
    [] c.op = "or"  -> old | c.v
    [] c.op = "xor" -> old ^^ c.v
    [] c.op = "cmpxchg" -> IF old = Wrap(c.w, c.expected) THEN c.v ELSE old

Atomic(c) ==
  LET at   == c.addr + c.offset
      old  == Number(at, c.w)
      new  == Wrap(c.w, Modified(c, old))
  IN
  /\ c.name = "atomic"
  /\ IF Fits(at, c.w, mem) /\ at % c.w = 0
     THEN /\ mem' = Put(at, [k \in 1..c.w |-> (new \div Mod(k - 1)) % Mod(1)])
          /\ out' = IF c.op = "store" THEN <<>> ELSE WordsOf(IF c.long THEN "i64" ELSE "i32", old)
     ELSE Len(out') = 1 /\ out'[1] < 0 /\ UNCHANGED mem
  /\ UNCHANGED segs

\* A numeric instruction leaves the instance alone; WasmNumbers says what it
\* delivers.  So does the code of an instruction, on a machine of its own.
Numeric(c) == c.name \in {"numeric", "code"} /\ UNCHANGED <<mem, segs>>

Next ==
  LET c == call'
  IN  \/ Load(c) \/ Store(c) \/ LoadInteger(c) \/ StoreInteger(c) \/ Atomic(c)
      \/ Fill(c) \/ Copy(c) \/ InitMemory(c) \/ Drop(c) \/ Numeric(c)

Spec == Init /\ [][Next]_vars
================================================================================
