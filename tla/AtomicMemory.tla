----------------------------- MODULE AtomicMemory -----------------------------
(***************************************************************************)
(* What the wasm threads proposal promises of one cell of shared memory:   *)
(* every read-modify-write takes effect at one instant, on the value it    *)
(* returns.                                                                *)
(***************************************************************************)
EXTENDS AtomicOps

CONSTANTS Threads, Ops, NoOp

VARIABLES word,     \* the cell
          pending,  \* the operation each thread has called and not finished
          result    \* what each thread's last operation returned

vars == <<word, pending, result>>

Init ==
  /\ word = 0
  /\ pending = [t \in Threads |-> NoOp]
  /\ result = [t \in Threads |-> 0]

Call(t) ==
  /\ pending[t] = NoOp
  /\ \E o \in Ops : pending' = [pending EXCEPT ![t] = o]
  /\ UNCHANGED <<word, result>>

TakeEffect(t) ==
  /\ pending[t] # NoOp
  /\ word' = After(pending[t], word)
  /\ result' = [result EXCEPT ![t] = Old(pending[t], word)]
  /\ pending' = [pending EXCEPT ![t] = NoOp]

Next == \E t \in Threads : Call(t) \/ TakeEffect(t)

Spec == Init /\ [][Next]_vars
=============================================================================
