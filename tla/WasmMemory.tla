----------------------------- MODULE WasmMemory -----------------------------
(***************************************************************************)
(* What WebAssembly promises of one linear memory shared by several        *)
(* callers: every load, store and memory.grow takes effect at one instant; *)
(* grow appends zero pages and answers the size it found, or refuses;      *)
(* nothing above the size can be reached.  The unit is a page.             *)
(***************************************************************************)
EXTENDS Integers

CONSTANTS Callers, Pages, Values, Ops, NoOp, Trap

VARIABLES size,     \* memory.size, in pages
          content,  \* what each page holds; zero above the size
          pending,  \* the operation each caller has called and not finished
          result    \* what each caller's last operation returned, 0 while one is pending

vars == <<size, content, pending, result>>

Refused == -1

Init ==
  /\ size \in Pages
  /\ content = [p \in Pages |-> 0]
  /\ pending = [c \in Callers |-> NoOp]
  /\ result = [c \in Callers |-> 0]

Call(c) ==
  /\ pending[c] = NoOp
  /\ \E o \in Ops : pending' = [pending EXCEPT ![c] = o]
  /\ result' = [result EXCEPT ![c] = 0]
  /\ UNCHANGED <<size, content>>

Return(c, answer) ==
  /\ pending' = [pending EXCEPT ![c] = NoOp]
  /\ result' = [result EXCEPT ![c] = answer]

Store(c) ==
  /\ pending[c].kind = "store"
  /\ pending[c].page < size
  /\ content' = [content EXCEPT ![pending[c].page] = pending[c].arg]
  /\ Return(c, 0)
  /\ UNCHANGED size

Load(c) ==
  /\ pending[c].kind = "load"
  /\ pending[c].page < size
  /\ Return(c, content[pending[c].page])
  /\ UNCHANGED <<size, content>>

OutOfBounds(c) ==
  /\ pending[c].kind \in {"store", "load"}
  /\ pending[c].page >= size
  /\ Return(c, Trap)
  /\ UNCHANGED <<size, content>>

Grow(c) ==
  /\ pending[c].kind = "grow"
  /\ pending[c].arg >= 0
  /\ size' = size + pending[c].arg
  /\ Return(c, size)
  /\ UNCHANGED content

GrowRefused(c) ==
  /\ pending[c].kind = "grow"
  /\ pending[c].arg # 0
  /\ Return(c, Refused)
  /\ UNCHANGED <<size, content>>

Next ==
  \E c \in Callers :
    \/ Call(c)
    \/ /\ pending[c] # NoOp
       /\ Store(c) \/ Load(c) \/ OutOfBounds(c) \/ Grow(c) \/ GrowRefused(c)

Spec == Init /\ [][Next]_vars
=============================================================================
