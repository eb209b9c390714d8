------------------------------- MODULE AtomicRmw -------------------------------
(***************************************************************************)
(* The atomic read-modify-write helpers of the generated runtime           *)
(* (src/internal/codegen/helpers/helpers.go) on one aligned word: an       *)
(* ordinary load and store while no agent was ever spawned, and otherwise  *)
(* a locked instruction or a compare-and-swap loop on the whole word, even *)
(* for an operation on one lane.  They implement AtomicMemory.             *)
(***************************************************************************)
EXTENDS AtomicOps

CONSTANTS
  Threads,  \* Main and the agents
  Main,     \* the goroutine that runs the module's exports
  Ops,      \* the operations the guest performs
  NoOp      \* no operation

ASSUME AtomicRmwAssumption ==
  /\ Main \in Threads
  /\ Ops \subseteq OpRecords
  /\ NoOp \notin OpRecords

VARIABLES
  pc,       \* where each thread is
  op,       \* the operation each thread is performing
  cur,      \* the helpers' local cur (or old)
  nextTID,  \* threadPool.nextTID
  word,     \* the word of linear memory
  result    \* what the last operation of each thread returned

vars == <<pc, op, cur, nextTID, word, result>>

Labels == {"unborn", "guest", "contended", "plainLoad", "plainStore", "locked",
           "load", "cas", "launch"}

Init ==
  /\ pc = [t \in Threads |-> IF t = Main THEN "guest" ELSE "unborn"]
  /\ op = [t \in Threads |-> NoOp]
  /\ cur = [t \in Threads |-> 0]
  /\ nextTID = 0
  /\ word = 0
  /\ result = [t \in Threads |-> 0]

At(t, label) == pc[t] = label

Goto(t, label) == pc' = [pc EXCEPT ![t] = label]

\* The helper returns old; its locals are gone.
Return(t, old) ==
  /\ Goto(t, "guest")
  /\ result' = [result EXCEPT ![t] = Old(op[t], old)]
  /\ op' = [op EXCEPT ![t] = NoOp]
  /\ cur' = [cur EXCEPT ![t] = 0]

\* Where a helper goes once it knows it must not use the fast path.
SharedPath(o) == IF IsLocked(o) THEN "locked" ELSE "load"

\* The guest performs an atomic operation; full-width loads, the rmw32_u forms
\* and the compare-exchange of a lane never ask whether they are contended.
Call(t) ==
  /\ At(t, "guest")
  /\ \E o \in Ops :
       /\ op' = [op EXCEPT ![t] = o]
       /\ Goto(t, IF o.fast THEN "contended" ELSE SharedPath(o))
  /\ UNCHANGED <<cur, nextTID, word, result>>

\* Mutant: one agent does not count as contention.
AskContendedLate(t) ==
  /\ At(t, "contended")
  /\ Goto(t, IF nextTID > 1 THEN SharedPath(op[t]) ELSE "plainLoad")
  /\ UNCHANGED <<op, cur, nextTID, word, result>>

\* atomicsContended
AskContended(t) ==
  /\ At(t, "contended")
  /\ Goto(t, IF nextTID # 0 THEN SharedPath(op[t]) ELSE "plainLoad")
  /\ UNCHANGED <<op, cur, nextTID, word, result>>

\* The fast path: cur := *word, then *word = op(cur).
PlainLoad(t) ==
  /\ At(t, "plainLoad")
  /\ cur' = [cur EXCEPT ![t] = word]
  /\ Goto(t, "plainStore")
  /\ UNCHANGED <<op, nextTID, word, result>>

PlainStore(t) ==
  /\ At(t, "plainStore")
  /\ word' = After(op[t], cur[t])
  /\ Return(t, cur[t])
  /\ UNCHANGED nextTID

\* atomic.AddUint32, atomic.SwapUint32
Locked(t) ==
  /\ At(t, "locked")
  /\ word' = After(op[t], word)
  /\ Return(t, word)
  /\ UNCHANGED nextTID

\* cur := atomic.LoadUint32(word): a load, and a compare-exchange that misses,
\* are done.
LoadMiss(t) ==
  /\ At(t, "load")
  /\ OnlyReads(op[t], word)
  /\ Return(t, word)
  /\ UNCHANGED <<nextTID, word>>

Load(t) ==
  /\ At(t, "load")
  /\ ~OnlyReads(op[t], word)
  /\ cur' = [cur EXCEPT ![t] = word]
  /\ Goto(t, "cas")
  /\ UNCHANGED <<op, nextTID, word, result>>

\* Mutant: only the operation's own lane is compared.
UnchangedLane(t) == Old(op[t], word) = Old(op[t], cur[t])

\* What the compare-and-swap compares: the whole word, for a lane too.
Unchanged(t) == word = cur[t]

CasSucceeds(t) ==
  /\ At(t, "cas")
  /\ Unchanged(t)
  /\ word' = After(op[t], cur[t])
  /\ Return(t, cur[t])
  /\ UNCHANGED nextTID

CasFails(t) ==
  /\ At(t, "cas")
  /\ ~Unchanged(t)
  /\ Goto(t, "load")
  /\ cur' = [cur EXCEPT ![t] = 0]
  /\ UNCHANGED <<op, nextTID, word, result>>

\* threadLaunch: the TID is taken before the go statement.
LaunchTID(t) ==
  /\ At(t, "guest")
  /\ \E u \in Threads : pc[u] = "unborn"
  /\ nextTID' = nextTID + 1
  /\ Goto(t, "launch")
  /\ UNCHANGED <<op, cur, word, result>>

LaunchGo(t) ==
  /\ At(t, "launch")
  /\ \E u \in Threads :
       /\ pc[u] = "unborn"
       /\ pc' = [pc EXCEPT ![t] = "guest", ![u] = "guest"]
  /\ UNCHANGED <<op, cur, nextTID, word, result>>

Next ==
  \E t \in Threads :
    \/ Call(t) \/ AskContended(t) \/ PlainLoad(t) \/ PlainStore(t)
    \/ Locked(t) \/ LoadMiss(t) \/ Load(t) \/ CasSucceeds(t) \/ CasFails(t)
    \/ LaunchTID(t) \/ LaunchGo(t)

Spec == Init /\ [][Next]_vars

-----------------------------------------------------------------------------
(* Properties *)

\* Every variable has its type.
TypeOK ==
  /\ pc \in [Threads -> Labels]
  /\ op \in [Threads -> Ops \cup {NoOp}]
  /\ cur \in [Threads -> Words]
  /\ nextTID \in Nat
  /\ word \in Words
  /\ result \in [Threads -> Int]

\* The comment on atomicsContended: "the fast path is race-free".  A thread
\* between its plain load and its plain store is the only thread there is, and
\* the word still holds what it loaded.
FastPathAlone ==
  \A t \in Threads :
     /\ pc[t] \in {"plainLoad", "plainStore"} =>
          \A u \in Threads \ {t} : pc[u] = "unborn"
     /\ pc[t] = "plainStore" => cur[t] = word

\* Whatever path it takes, an operation takes effect at one instant on the value
\* it returns: no update of the word, or of a neighbouring lane, is lost.
Abstract == INSTANCE AtomicMemory WITH pending <- op

ImplementsAtomicMemory == Abstract!Spec
=============================================================================
