---------------------------- MODULE AtomicRmwProofs ----------------------------
(***************************************************************************)
(* AtomicRmw implements AtomicMemory, for any number of threads, any lane  *)
(* width and any set of operations.                                        *)
(***************************************************************************)
EXTENDS AtomicRmw, TLAPS

\* An operation leaves a word.
LEMMA AfterIsWord ==
  ASSUME NEW o \in OpRecords, NEW w \in Words
  PROVE  After(o, w) \in Words
<1>1. WordMod \in Nat \ {0}
  BY AtomicOpsAssumption DEF WordMod
<1>2. CASE o.lane = Whole
  <2>1. Apply(o, w, WordMod) \in Int
    <3>1. w \in Int /\ o.arg \in Int /\ o.kind \in OpKinds
      BY <1>1 DEF OpRecords, Words
    <3> QED BY <1>1, <3>1 DEF Apply, OpKinds
  <2>2. Apply(o, w, WordMod) % WordMod \in 0..WordMod - 1
    BY <1>1, <2>1
  <2> QED BY <1>2, <2>2 DEF After, Words
<1>3. CASE o.lane # Whole
  <2>1. /\ o.lane \in Lanes /\ Base^o.lane \in Nat \ {0} /\ w \in Int /\ o.arg \in Int
        /\ Base \in Nat \ {0} /\ o.kind \in OpKinds
    BY <1>1, <1>3, AtomicOpsAssumption DEF OpRecords, Words, Lanes
  <2>2. Lane(w, o.lane) \in Int
    <3> DEFINE p == Base^o.lane
    <3>1. p \in Nat \ {0}
      BY <2>1
    <3> HIDE DEF p
    <3>2. w \div p \in Int
      BY <2>1, <3>1
    <3>3. (w \div p) % Base \in Int
      BY <2>1, <3>2
    <3> QED BY <3>3 DEF Lane, p
  <2>3. Apply(o, Lane(w, o.lane), Base) \in Int
    BY <2>1, <2>2 DEF Apply, OpKinds
  <2>4. ASSUME NEW v \in Int PROVE SetLane(w, o.lane, v) \in Words
    <3> DEFINE p == Base^o.lane
               x == Lane(w, o.lane)
    <3>1. p \in Int /\ x \in Int /\ v % Base \in Int
      BY <2>1, <2>2
    <3> HIDE DEF p, x
    <3>2. w - x * p + (v % Base) * p \in Int
      BY <2>1, <3>1
    <3>3. (w - x * p + (v % Base) * p) % WordMod \in 0..WordMod - 1
      BY <1>1, <3>2
    <3> QED BY <3>3 DEF SetLane, Words, p, x
  <2> QED BY <1>3, <2>3, <2>4 DEF After
<1> QED BY <1>2, <1>3

\* An operation that only reads would have written what is there.
LEMMA MissLeavesWord ==
  ASSUME NEW o \in OpRecords, NEW w \in Words, OnlyReads(o, w)
  PROVE  After(o, w) = w
<1>1. WordMod \in Nat \ {0} /\ w \in 0..WordMod - 1
  BY AtomicOpsAssumption DEF WordMod, Words
<1>2. w % WordMod = w
  BY <1>1
<1>3. CASE o.lane = Whole
  <2>1. Apply(o, w, WordMod) = w
    BY <1>3 DEF OnlyReads, Apply, Old
  <2> QED BY <1>2, <1>3, <2>1 DEF After
<1>4. CASE o.lane # Whole
  <2> DEFINE p == Base^o.lane
             x == Lane(w, o.lane)
  <2>1. p \in Nat \ {0} /\ Base \in Nat \ {0}
    BY <1>4, AtomicOpsAssumption DEF OpRecords, Lanes
  <2>2. Apply(o, x, Base) = x
    BY <1>4 DEF OnlyReads, Apply, Old
  <2>3. x \in 0..Base - 1
    <3> HIDE DEF p
    <3>1. w \div p \in Int
      BY <1>1, <2>1
    <3>2. (w \div p) % Base \in 0..Base - 1
      BY <2>1, <3>1
    <3> QED BY <3>2 DEF Lane, p
  <2>4. SetLane(w, o.lane, x) = (w - x * p + (x % Base) * p) % WordMod
    BY DEF SetLane
  <2>5. w - x * p + (x % Base) * p = w
    <3> HIDE DEF p, x
    <3>1. x % Base = x
      BY <2>1, <2>3
    <3>2. x * p \in Int
      BY <2>1, <2>3
    <3> QED BY <1>1, <3>1, <3>2
  <2> QED BY <1>2, <1>4, <2>2, <2>4, <2>5 DEF After
<1> QED BY <1>3, <1>4

-----------------------------------------------------------------------------
(* The invariant *)

Busy == {"contended", "plainLoad", "plainStore", "locked", "load", "cas"}

\* A thread is inside a helper exactly while it has an operation.
BusyHasOp == \A t \in Threads : pc[t] \in Busy <=> op[t] # NoOp

\* Until the first TID is taken Main is alone, and only then is the fast path.
Alone ==
  /\ nextTID = 0 => /\ \A u \in Threads \ {Main} : pc[u] = "unborn"
                    /\ pc[Main] # "launch"
  /\ \A t \in Threads : pc[t] \in {"plainLoad", "plainStore"} => nextTID = 0

LoadedIsCurrent == \A t \in Threads : pc[t] = "plainStore" => cur[t] = word

IInv == TypeOK /\ BusyHasOp /\ Alone /\ LoadedIsCurrent

LEMMA LabelFacts ==
  Labels = {"unborn", "guest", "launch"} \cup Busy
BY DEF Labels, Busy

LEMMA OldIsInt ==
  ASSUME NEW o \in OpRecords, NEW w \in Words
  PROVE  Old(o, w) \in Int
<1>1. WordMod \in Nat \ {0} /\ w \in Int
  BY AtomicOpsAssumption DEF WordMod, Words
<1>2. CASE o.lane # Whole
  <2> DEFINE p == Base^o.lane
  <2>1. p \in Nat \ {0} /\ Base \in Nat \ {0}
    BY <1>2, AtomicOpsAssumption DEF OpRecords, Lanes
  <2> HIDE DEF p
  <2>2. w \div p \in Int
    BY <1>1, <2>1
  <2>3. (w \div p) % Base \in Int
    BY <2>1, <2>2
  <2> QED BY <1>2, <2>3 DEF Old, Lane, p
<1> QED BY <1>1, <1>2 DEF Old

\* The step an operation takes effect in is AtomicMemory's TakeEffect.
LEMMA EffectStep ==
  ASSUME IInv, NEW t \in Threads,
         PlainStore(t) \/ Locked(t) \/ LoadMiss(t) \/ CasSucceeds(t)
  PROVE  /\ op[t] # NoOp /\ op[t] \in OpRecords
         /\ word' = After(op[t], word)
         /\ result' = [result EXCEPT ![t] = Old(op[t], word)]
         /\ op' = [op EXCEPT ![t] = NoOp]
         /\ pc' = [pc EXCEPT ![t] = "guest"]
         /\ cur' = [cur EXCEPT ![t] = 0]
         /\ UNCHANGED nextTID
<1> USE DEF IInv
<1>1. pc[t] \in Busy
  BY DEF PlainStore, Locked, LoadMiss, CasSucceeds, At, Busy
<1>2. op[t] # NoOp /\ op[t] \in OpRecords
  BY <1>1, AtomicRmwAssumption DEF BusyHasOp, TypeOK
<1>3. PlainStore(t) \/ CasSucceeds(t) => cur[t] = word
  BY DEF PlainStore, CasSucceeds, Unchanged, LoadedIsCurrent, At
<1>4. LoadMiss(t) => word' = After(op[t], word)
  BY <1>2, MissLeavesWord DEF LoadMiss, TypeOK
<1> QED BY <1>2, <1>3, <1>4 DEF PlainStore, Locked, LoadMiss, CasSucceeds, Return, Goto

\* Every step keeps the invariant.
LEMMA IInvStep ==
  ASSUME IInv, [Next]_vars
  PROVE  IInv'
<1> USE DEF IInv
<1>0. Main \in Threads /\ Ops \subseteq OpRecords /\ NoOp \notin Ops
  BY AtomicRmwAssumption
<1>1. CASE UNCHANGED vars
  BY <1>1 DEF TypeOK, BusyHasOp, Alone, LoadedIsCurrent, vars
<1>2. ASSUME NEW t \in Threads,
             PlainStore(t) \/ Locked(t) \/ LoadMiss(t) \/ CasSucceeds(t)
      PROVE  IInv'
  <2>1. /\ op[t] \in OpRecords /\ word' = After(op[t], word)
        /\ result' = [result EXCEPT ![t] = Old(op[t], word)]
        /\ op' = [op EXCEPT ![t] = NoOp] /\ pc' = [pc EXCEPT ![t] = "guest"]
        /\ cur' = [cur EXCEPT ![t] = 0] /\ UNCHANGED nextTID
    BY <1>2, EffectStep
  <2>2. pc[t] \in Busy
    BY <1>2 DEF PlainStore, Locked, LoadMiss, CasSucceeds, At, Busy
  <2>3. TypeOK'
    <3>1. word' \in Words /\ Old(op[t], word) \in Int
      BY <2>1, AfterIsWord, OldIsInt DEF TypeOK
    <3>2. 0 \in Words
      BY AtomicOpsAssumption DEF Words, WordMod
    <3> QED BY <2>1, <3>1, <3>2, LabelFacts DEF TypeOK
  <2>4. BusyHasOp'
    BY <2>1 DEF TypeOK, BusyHasOp, Busy
  <2>5. \A u \in Threads : u # t => pc'[u] = pc[u]
    BY <2>1 DEF TypeOK
  <2>6. Alone'
    BY <2>1, <2>2, <2>5 DEF TypeOK, Alone, Busy
  <2>7. LoadedIsCurrent'
    <3> SUFFICES ASSUME NEW u \in Threads, pc'[u] = "plainStore" PROVE FALSE
      BY DEF LoadedIsCurrent
    <3>1. u # t /\ pc[u] = "plainStore"
      BY <2>1, <2>5 DEF TypeOK
    <3>2. nextTID = 0 /\ pc[t] # "unborn" /\ pc[u] # "unborn"
      BY <2>2, <3>1 DEF Alone, Busy
    <3> QED BY <3>1, <3>2 DEF Alone
  <2> QED BY <2>3, <2>4, <2>6, <2>7
<1>3. ASSUME NEW t \in Threads, Call(t) PROVE IInv'
  <2>1. PICK o \in Ops, l \in {"contended", "locked", "load"} :
           op' = [op EXCEPT ![t] = o] /\ pc' = [pc EXCEPT ![t] = l]
    BY <1>3 DEF Call, Goto, SharedPath
  <2>2. pc[t] = "guest" /\ UNCHANGED <<cur, nextTID, word, result>>
    BY <1>3 DEF Call, At
  <2>3. TypeOK'
    BY <2>1, <2>2, LabelFacts DEF TypeOK, Busy
  <2>4. BusyHasOp'
    BY <1>0, <2>1 DEF TypeOK, BusyHasOp, Busy
  <2>5. Alone' /\ LoadedIsCurrent'
    BY <2>1, <2>2 DEF TypeOK, Alone, LoadedIsCurrent
  <2> QED BY <2>3, <2>4, <2>5
<1>4. ASSUME NEW t \in Threads, AskContended(t) PROVE IInv'
  <2>1. PICK l \in {"plainLoad", "locked", "load"} :
           pc' = [pc EXCEPT ![t] = l] /\ (l = "plainLoad" => nextTID = 0)
    BY <1>4 DEF AskContended, Goto, SharedPath
  <2>2. pc[t] = "contended" /\ UNCHANGED <<op, cur, nextTID, word, result>>
    BY <1>4 DEF AskContended, At
  <2>3. TypeOK'
    BY <2>1, <2>2, LabelFacts DEF TypeOK, Busy
  <2>4. BusyHasOp'
    BY <2>1, <2>2 DEF TypeOK, BusyHasOp, Busy
  <2>5. Alone' /\ LoadedIsCurrent'
    BY <2>1, <2>2 DEF TypeOK, Alone, LoadedIsCurrent
  <2> QED BY <2>3, <2>4, <2>5
<1>5. ASSUME NEW t \in Threads, PlainLoad(t) \/ Load(t) PROVE IInv'
  <2>1. PICK l \in {"plainStore", "cas"} :
           /\ pc' = [pc EXCEPT ![t] = l] /\ (l = "plainStore" => nextTID = 0)
           /\ cur' = [cur EXCEPT ![t] = word]
    BY <1>5 DEF PlainLoad, Load, Goto, At, Alone
  <2>2. pc[t] \in {"plainLoad", "load"} /\ UNCHANGED <<op, nextTID, word, result>>
    BY <1>5 DEF PlainLoad, Load, At
  <2>3. TypeOK'
    BY <2>1, <2>2, LabelFacts DEF TypeOK, Busy
  <2>4. BusyHasOp'
    BY <2>1, <2>2 DEF TypeOK, BusyHasOp, Busy
  <2>5. Alone' /\ LoadedIsCurrent'
    BY <2>1, <2>2 DEF TypeOK, Alone, LoadedIsCurrent
  <2> QED BY <2>3, <2>4, <2>5
<1>6. ASSUME NEW t \in Threads, CasFails(t) PROVE IInv'
  <2>1. /\ pc[t] = "cas" /\ pc' = [pc EXCEPT ![t] = "load"]
        /\ cur' = [cur EXCEPT ![t] = 0] /\ UNCHANGED <<op, nextTID, word, result>>
    BY <1>6 DEF CasFails, At, Goto
  <2>2. 0 \in Words
    BY AtomicOpsAssumption DEF Words, WordMod
  <2>3. TypeOK'
    BY <2>1, <2>2, LabelFacts DEF TypeOK, Busy
  <2>4. BusyHasOp'
    BY <2>1 DEF TypeOK, BusyHasOp, Busy
  <2>5. Alone' /\ LoadedIsCurrent'
    BY <2>1 DEF TypeOK, Alone, LoadedIsCurrent
  <2> QED BY <2>3, <2>4, <2>5
<1>7. ASSUME NEW t \in Threads, LaunchTID(t) PROVE IInv'
  <2>1. /\ pc[t] = "guest" /\ pc' = [pc EXCEPT ![t] = "launch"]
        /\ nextTID' = nextTID + 1 /\ UNCHANGED <<op, cur, word, result>>
    BY <1>7 DEF LaunchTID, At, Goto
  <2>2. TypeOK'
    BY <2>1, LabelFacts DEF TypeOK
  <2>3. BusyHasOp' /\ LoadedIsCurrent'
    BY <2>1 DEF TypeOK, BusyHasOp, LoadedIsCurrent, Busy
  <2>4. Alone'
    <3>1. nextTID' # 0
      BY <2>1 DEF TypeOK
    <3> SUFFICES ASSUME NEW u \in Threads, pc'[u] \in {"plainLoad", "plainStore"} PROVE FALSE
      BY <3>1 DEF Alone
    <3>2. u # t /\ nextTID = 0 /\ pc[u] # "unborn"
      BY <2>1 DEF TypeOK, Alone
    <3> QED BY <2>1, <3>2 DEF Alone
  <2> QED BY <2>2, <2>3, <2>4
<1>8. ASSUME NEW t \in Threads, LaunchGo(t) PROVE IInv'
  <2>1. PICK u \in Threads : /\ pc[u] = "unborn"
                             /\ pc' = [pc EXCEPT ![t] = "guest", ![u] = "guest"]
    BY <1>8 DEF LaunchGo
  <2>2. pc[t] = "launch" /\ UNCHANGED <<op, cur, nextTID, word, result>>
    BY <1>8 DEF LaunchGo, At
  <2>3. \A w \in Threads : pc'[w] = IF w \in {t, u} THEN "guest" ELSE pc[w]
    BY <2>1 DEF TypeOK
  <2>4. TypeOK'
    BY <2>1, <2>2, LabelFacts DEF TypeOK
  <2>5. BusyHasOp'
    <3> SUFFICES ASSUME NEW w \in Threads PROVE pc'[w] \in Busy <=> op'[w] # NoOp
      BY DEF BusyHasOp
    <3>1. pc[w] \in Busy <=> op[w] # NoOp
      BY DEF BusyHasOp
    <3>2. CASE w \in {t, u}
      <4>1. pc[w] \in {"unborn", "launch"} /\ pc'[w] = "guest"
        BY <2>1, <2>2, <2>3, <3>2
      <4>2. pc[w] \notin Busy /\ pc'[w] \notin Busy
        BY <4>1 DEF Busy
      <4> QED BY <2>2, <3>1, <4>2
    <3>3. CASE w \notin {t, u}
      BY <2>2, <2>3, <3>1, <3>3
    <3> QED BY <3>2, <3>3
  <2>6. Alone' /\ LoadedIsCurrent'
    <3>1. nextTID # 0
      BY <1>0, <2>2 DEF Alone
    <3> QED BY <2>2, <2>3, <3>1 DEF Alone, LoadedIsCurrent
  <2> QED BY <2>4, <2>5, <2>6
<1> QED BY <1>1, <1>2, <1>3, <1>4, <1>5, <1>6, <1>7, <1>8 DEF Next

LEMMA IInvInit == Init => IInv
<1> SUFFICES ASSUME Init PROVE IInv
  OBVIOUS
<1>1. Main \in Threads /\ NoOp \notin Ops /\ 0 \in Words
  BY AtomicRmwAssumption, AtomicOpsAssumption DEF Words, WordMod
<1>2. TypeOK
  BY <1>1, LabelFacts DEF Init, TypeOK
<1>3. BusyHasOp /\ Alone /\ LoadedIsCurrent
  BY <1>1 DEF Init, BusyHasOp, Alone, LoadedIsCurrent, Busy
<1> QED BY <1>2, <1>3 DEF IInv

LEMMA Invariance == Spec => []IInv
BY IInvInit, IInvStep, PTL DEF Spec

\* Every variable keeps its type: an operation leaves a word, whatever its lane,
\* its kind and its operand.
THEOREM AtomicTypeCorrect == Spec => []TypeOK
<1>1. IInv => TypeOK
  BY DEF IInv
<1> QED BY <1>1, Invariance, PTL

\* The fast path is race-free: the thread on it is alone, and the word it is
\* about to overwrite holds what it loaded.
THEOREM FastPathIsRaceFree == Spec => []FastPathAlone
<1>1. IInv => FastPathAlone
  BY DEF IInv, Alone, LoadedIsCurrent, FastPathAlone
<1> QED BY <1>1, Invariance, PTL

\* The abstract memory computes with the operators of this module.
LEMMA SameOps ==
  ASSUME NEW o, NEW w
  PROVE  Abstract!After(o, w) = After(o, w) /\ Abstract!Old(o, w) = Old(o, w)
<1>1. \A l : Abstract!Lane(w, l) = Lane(w, l)
  BY DEF Abstract!Lane, Lane
<1>2. \A l, v : Abstract!SetLane(w, l, v) = SetLane(w, l, v)
  BY <1>1 DEF Abstract!SetLane, SetLane, Abstract!WordMod, WordMod
<1>3. \A old, mod : Abstract!Apply(o, old, mod) = Apply(o, old, mod)
  BY DEF Abstract!Apply, Apply
<1>4. Abstract!WordMod = WordMod
  BY DEF Abstract!WordMod, WordMod
<1> QED BY <1>1, <1>2, <1>3, <1>4 DEF Abstract!After, After, Abstract!Old, Old

\* Every atomic operation takes effect at one instant, on the value it returns.
THEOREM Refinement == Spec => ImplementsAtomicMemory
<1>1. Init => Abstract!Init
  BY DEF Init, Abstract!Init
<1>2. IInv /\ [Next]_vars => [Abstract!Next]_(Abstract!vars)
  <2> SUFFICES ASSUME IInv, [Next]_vars
               PROVE  [Abstract!Next]_(Abstract!vars)
    OBVIOUS
  <2>1. CASE UNCHANGED vars
    BY <2>1 DEF vars, Abstract!vars
  <2>2. ASSUME NEW t \in Threads,
               PlainStore(t) \/ Locked(t) \/ LoadMiss(t) \/ CasSucceeds(t)
        PROVE  Abstract!Next
    <3>1. Abstract!TakeEffect(t)
      BY <2>2, EffectStep, SameOps DEF Abstract!TakeEffect
    <3> QED BY <3>1 DEF Abstract!Next
  <2>3. ASSUME NEW t \in Threads, Call(t)
        PROVE  Abstract!Next
    <3>1. op[t] = NoOp
      BY <2>3 DEF Call, At, IInv, BusyHasOp, Busy
    <3>2. Abstract!Call(t)
      BY <2>3, <3>1 DEF Call, Abstract!Call
    <3> QED BY <3>2 DEF Abstract!Next
  <2>4. ASSUME NEW t \in Threads,
               \/ AskContended(t) \/ PlainLoad(t) \/ Load(t) \/ CasFails(t)
               \/ LaunchTID(t) \/ LaunchGo(t)
        PROVE  UNCHANGED Abstract!vars
    BY <2>4 DEF AskContended, PlainLoad, Load, CasFails, LaunchTID, LaunchGo, Abstract!vars
  <2> QED BY <2>1, <2>2, <2>3, <2>4 DEF Next
<1> QED BY <1>1, <1>2, Invariance, PTL DEF Spec, ImplementsAtomicMemory, Abstract!Spec
=============================================================================
