--------------------------- MODULE ThreadPoolProofs ---------------------------
(***************************************************************************)
(* Proofs about ThreadPool, for any number of agents, cells and values.    *)
(***************************************************************************)
EXTENDS ThreadPool, SequenceTheorems, FiniteSetTheorems, TLAPS

NoRepeats(s) == \A i, j \in 1..Len(s) : s[i] = s[j] => i = j

\* Removing an element of a queue without repetitions removes it altogether,
\* keeps every other element, and creates no repetition.
LEMMA RemoveFirstProperties ==
  ASSUME NEW S, NEW s \in Seq(S), NEW e, NoRepeats(s)
  PROVE  LET r == RemoveFirst(s, e)
         IN  /\ r \in Seq(S)
             /\ NoRepeats(r)
             /\ \A i \in 1..Len(r) : r[i] # e /\ \E j \in 1..Len(s) : r[i] = s[j]
             /\ \A j \in 1..Len(s) : s[j] # e => \E i \in 1..Len(r) : r[i] = s[j]
<1> DEFINE r == RemoveFirst(s, e)
<1>1. CASE ~ \E i \in 1..Len(s) : s[i] = e
  BY <1>1 DEF RemoveFirst, NoRepeats
<1>2. CASE \E i \in 1..Len(s) : s[i] = e
  <2>1. PICK k \in 1..Len(s) : s[k] = e
    BY <1>2
  <2>2. {i \in 1..Len(s) : s[i] = e} = {k}
    BY <2>1 DEF NoRepeats
  <2>3. SelectInSeq(s, LAMBDA v : v = e) = k
    BY <2>1, <2>2 DEF SelectInSeq, Min
  <2>4. r = SubSeq(s, 1, k-1) \o SubSeq(s, k+1, Len(s))
    BY <1>2, <2>3 DEF RemoveFirst, RemoveAt
  <2>5. /\ r \in Seq(S)
        /\ Len(r) = Len(s) - 1
        /\ \A i \in 1..Len(r) : r[i] = IF i < k THEN s[i] ELSE s[i+1]
    <3> DEFINE left == SubSeq(s, 1, k-1)
               right == SubSeq(s, k+1, Len(s))
    <3>1. left \in Seq(S) /\ Len(left) = k-1 /\ \A i \in 1..k-1 : left[i] = s[i]
      BY <2>1
    <3>2. /\ right \in Seq(S) /\ Len(right) = Len(s) - k
          /\ \A i \in 1..Len(s)-k : right[i] = s[k+i]
      BY <2>1
    <3>3. /\ left \o right \in Seq(S) /\ Len(left \o right) = Len(s) - 1
          /\ \A i \in 1..Len(s)-1 : (left \o right)[i] =
                IF i <= Len(left) THEN left[i] ELSE right[i - Len(left)]
      <4> HIDE DEF left, right
      <4>1. Len(left) + Len(right) = Len(s) - 1
        BY <2>1, <3>1, <3>2
      <4>2. /\ left \o right \in Seq(S) /\ Len(left \o right) = Len(left) + Len(right)
            /\ \A i \in 1..Len(left) + Len(right) : (left \o right)[i] =
                  IF i <= Len(left) THEN left[i] ELSE right[i - Len(left)]
        BY <3>1, <3>2, ConcatProperties
      <4> QED BY <4>1, <4>2
    <3>4. r = left \o right
      BY <2>4
    <3> HIDE DEF left, right, r
    <3>5. ASSUME NEW i \in 1..Len(r)
          PROVE  r[i] = IF i < k THEN s[i] ELSE s[i+1]
      <4>1. CASE i < k
        BY <2>1, <3>1, <3>3, <3>4, <4>1
      <4>2. CASE i >= k
        <5>1. i - (k-1) \in 1..Len(s)-k /\ ~(i <= Len(left)) /\ ~(i < k)
          BY <2>1, <3>1, <3>3, <3>4, <4>2
        <5>2. r[i] = right[i - (k-1)]
          BY <2>1, <3>1, <3>3, <3>4, <5>1
        <5>3. right[i - (k-1)] = s[k + (i - (k-1))]
          BY <3>2, <5>1
        <5>4. k + (i - (k-1)) = i + 1
          OBVIOUS
        <5> QED BY <5>1, <5>2, <5>3, <5>4
      <4> QED BY <2>1, <4>1, <4>2
    <3> QED BY <3>3, <3>4, <3>5
  <2> HIDE DEF r
  <2>6. NoRepeats(r)
    <3> DEFINE at(i) == IF i < k THEN i ELSE i + 1
    <3>1. \A i \in 1..Len(r) : at(i) \in 1..Len(s) /\ r[i] = s[at(i)]
      BY <2>1, <2>5
    <3>2. \A i, j \in 1..Len(r) : at(i) = at(j) => i = j
      BY <2>1, <2>5
    <3> HIDE DEF at
    <3> QED BY <3>1, <3>2 DEF NoRepeats
  <2>7. \A i \in 1..Len(r) : r[i] # e /\ \E j \in 1..Len(s) : r[i] = s[j]
    BY <2>1, <2>5 DEF NoRepeats
  <2>8. ASSUME NEW j \in 1..Len(s), s[j] # e
        PROVE  \E i \in 1..Len(r) : r[i] = s[j]
    <3>1. CASE j < k
      BY <2>1, <2>5, <3>1
    <3>2. CASE j > k
      <4>1. j - 1 \in 1..Len(r) /\ r[j-1] = s[j]
        BY <2>1, <2>5, <3>2
      <4> QED BY <4>1
    <3> QED BY <2>1, <2>8, <3>1, <3>2
  <2> QED BY <2>5, <2>6, <2>7, <2>8 DEF r
<1> QED BY <1>1, <1>2

-----------------------------------------------------------------------------
(* Types *)

\* The main thread and the agents are threads, and no thread is none.
LEMMA ThreadFacts == /\ Main \in Threads /\ Agents \subseteq Threads
                     /\ None \notin Threads
BY ThreadPoolAssumption DEF Threads

\* The frames a thread starts with, and comes back to.
LEMMA FrameFacts == /\ EmptyFrame \in WaitFrames
                    /\ \A ea \in Addrs, count \in Int : NotifyFrame(ea, count) \in WaitFrames
                    /\ \A f \in WaitFrames : f.ea \in Addrs /\ f.expected \in Values
BY ThreadPoolAssumption DEF EmptyFrame, NotifyFrame, WaitFrames

\* Every label is a label: the leaves below need no more of Labels than this.
LEMMA LabelFacts ==
  {"unborn", "launching", "join", "joined", "crash", "done", "guest", "lock", "compare",
   "park", "checkAlone", "receive", "select", "unpark", "unparkTrap", "notify", "wgAdd",
   "launchAdd", "launchStore", "go", "exitAdd", "exitStore", "wgDone"} = Labels
BY DEF Labels, InBody, InWait, Exiting

\* Going on in a call leaves every place a label.
LEMMA GotoType ==
  ASSUME TypeOK, NEW t \in Threads, NEW l \in Labels, Goto(t, l)
  PROVE  pc' \in [Threads -> Labels]
BY DEF TypeOK, Goto

\* So does returning from one.
LEMMA ReturnType ==
  ASSUME TypeOK, NEW t \in Threads, ReturnToGuest(t)
  PROVE  pc' \in [Threads -> Labels] /\ frame' \in [Threads -> WaitFrames]
BY FrameFacts, LabelFacts, GotoType DEF TypeOK, ReturnToGuest

\* wake releases none, some or all of the waiters.
LEMMA ReleasedBound ==
  ASSUME NEW n \in Nat, NEW s \in Seq(Threads), NEW count \in Int
  PROVE  Released(s, count) \in 0..Len(s)
BY DEF Released

\* Taking a waiter out of its queue leaves the others, each once.
LEMMA UnparkedProperties ==
  ASSUME TypeOK, ParkedOnce, NEW t \in Threads
  PROVE  LET old == parked[frame[t].ea]
             new == Unparked(t)
         IN  /\ frame[t].ea \in Addrs
             /\ new \in Seq(Threads)
             /\ NoRepeats(new)
             /\ \A i \in 1..Len(new) : new[i] # t /\ \E j \in 1..Len(old) : new[i] = old[j]
             /\ \A j \in 1..Len(old) : old[j] # t => \E i \in 1..Len(new) : new[i] = old[j]
<1>1. frame[t].ea \in Addrs
  BY FrameFacts DEF TypeOK
<1>2. parked[frame[t].ea] \in Seq(Threads) /\ NoRepeats(parked[frame[t].ea])
  BY <1>1 DEF TypeOK, ParkedOnce, NoRepeats
<1> QED BY <1>1, <1>2, RemoveFirstProperties DEF Unparked

\* What wake does to the queue of its address.
LEMMA WokenProperties ==
  ASSUME TypeOK, ParkedOnce, NEW t \in Threads
  PROVE  LET old == parked[frame[t].ea]
             n   == Released(old, frame[t].count)
             new == SubSeq(old, n + 1, Len(old))
         IN  /\ frame[t].ea \in Addrs
             /\ n \in 0..Len(old)
             /\ old \in Seq(Threads)
             /\ new \in Seq(Threads)
             /\ Len(new) = Len(old) - n
             /\ \A i \in 1..Len(new) : new[i] = old[n + i]
             /\ NoRepeats(new)
<1> DEFINE old == parked[frame[t].ea]
           n   == Released(old, frame[t].count)
           new == SubSeq(old, n + 1, Len(old))
<1>1. frame[t].ea \in Addrs /\ frame[t].count \in Int
  BY FrameFacts DEF TypeOK, WaitFrames
<1>2. old \in Seq(Threads) /\ NoRepeats(old)
  BY <1>1 DEF TypeOK, ParkedOnce, NoRepeats
<1>3. n \in 0..Len(old)
  BY <1>1, <1>2, ReleasedBound
<1> HIDE DEF old, n
<1>4. /\ new \in Seq(Threads) /\ Len(new) = Len(old) - n
      /\ \A i \in 1..Len(new) : new[i] = old[n + i]
  BY <1>2, <1>3
<1> HIDE DEF new
<1>5. NoRepeats(new)
  BY <1>2, <1>3, <1>4 DEF NoRepeats
<1> QED BY <1>1, <1>2, <1>3, <1>4, <1>5 DEF old, n, new

\* Every step keeps the types.
LEMMA TypeStep ==
  ASSUME TypeOK, ParkedOnce, [Next]_vars
  PROVE  TypeOK'
<1>1. CASE UNCHANGED vars
  BY <1>1 DEF TypeOK, vars, poolVars, parkVars, spinVars, exitVars
<1>2. ASSUME NEW t \in Threads, WaitCall(t) PROVE TypeOK'
  <2>1. pc' \in [Threads -> Labels]
    BY <1>2, LabelFacts, GotoType DEF WaitCall
  <2>2. frame' \in [Threads -> WaitFrames]
    BY <1>2 DEF TypeOK, WaitCall, WaitFrames
  <2> QED BY <1>2, <2>1, <2>2 DEF TypeOK, WaitCall, poolVars, parkVars, spinVars, exitVars
<1>3. ASSUME NEW t \in Threads, LockPark(t) \/ CompareEqual(t) PROVE TypeOK'
  <2>1. pc' \in [Threads -> Labels]
    BY <1>3, LabelFacts, GotoType DEF LockPark, CompareEqual
  <2> QED BY <1>3, <2>1 DEF TypeOK, LockPark, CompareEqual, poolVars, parkVars, spinVars, exitVars
<1>4. ASSUME NEW t \in Threads, CompareDiffers(t) \/ Receive(t) PROVE TypeOK'
  <2>1. pc' \in [Threads -> Labels] /\ frame' \in [Threads -> WaitFrames]
    BY <1>4, ReturnType DEF CompareDiffers, Receive
  <2> QED BY <1>4, <2>1 DEF TypeOK, CompareDiffers, Receive, poolVars, parkVars, spinVars, exitVars
<1>5. ASSUME NEW t \in Threads, Park(t) PROVE TypeOK'
  <2>1. parked' \in [Addrs -> Seq(Threads)]
    <3>1. /\ frame[t].ea \in Addrs
          /\ parked' = [parked EXCEPT ![frame[t].ea] = Append(parked[frame[t].ea], t)]
      BY <1>5, FrameFacts DEF TypeOK, Park
    <3> QED BY <3>1 DEF TypeOK
  <2>2. pc' \in [Threads -> Labels]
    BY <1>5, LabelFacts, GotoType DEF Park
  <2> QED BY <1>5, <2>1, <2>2 DEF TypeOK, Park, poolVars, parkVars, spinVars, exitVars
<1>6. ASSUME NEW t \in Threads, CheckAlone(t) \/ SelectTimeout(t) PROVE TypeOK'
  <2>1. pc' \in [Threads -> Labels]
    BY <1>6, LabelFacts, GotoType DEF CheckAlone, SelectTimeout
  <2> QED BY <1>6, <2>1 DEF TypeOK, CheckAlone, SelectTimeout, poolVars, parkVars, spinVars, exitVars
<1>7. ASSUME NEW t \in Threads, Unpark(t) PROVE TypeOK'
  <2>1. parked' \in [Addrs -> Seq(Threads)]
    <3>1. parked' = [parked EXCEPT ![frame[t].ea] = Unparked(t)] /\ Unparked(t) \in Seq(Threads)
      BY <1>7, UnparkedProperties DEF Unpark
    <3> QED BY <3>1 DEF TypeOK
  <2>2. pc' \in [Threads -> Labels] /\ frame' \in [Threads -> WaitFrames]
    BY <1>7, ReturnType DEF Unpark
  <2> QED BY <1>7, <2>1, <2>2 DEF TypeOK, Unpark, poolVars, parkVars, spinVars, exitVars
<1>8. ASSUME NEW t \in Threads, UnparkTrap(t) PROVE TypeOK'
  <2>1. parked' \in [Addrs -> Seq(Threads)]
    <3>1. parked' = [parked EXCEPT ![frame[t].ea] = Unparked(t)] /\ Unparked(t) \in Seq(Threads)
      BY <1>8, UnparkedProperties DEF UnparkTrap
    <3> QED BY <3>1 DEF TypeOK
  <2>2. pc' \in [Threads -> Labels]
    BY <1>8, LabelFacts, GotoType DEF UnparkTrap
  <2>3. frame' \in [Threads -> WaitFrames]
    BY <1>8, FrameFacts DEF TypeOK, UnparkTrap
  <2> QED BY <1>8, <2>1, <2>2, <2>3 DEF TypeOK, UnparkTrap, poolVars, parkVars, spinVars, exitVars
<1>9. ASSUME NEW t \in Threads, StoreThenNotify(t) \/ NotifyCall(t) PROVE TypeOK'
  <2>1. frame' \in [Threads -> WaitFrames]
    <3>1. PICK ea \in Addrs, count \in Int :
            frame' = [frame EXCEPT ![t] = NotifyFrame(ea, count)]
      BY <1>9, ThreadPoolAssumption DEF StoreThenNotify, NotifyCall, WakeAll
    <3> QED BY <3>1, FrameFacts DEF TypeOK
  <2>2. pc' \in [Threads -> Labels]
    BY <1>9, LabelFacts, GotoType DEF StoreThenNotify, NotifyCall
  <2>3. mem' \in [Addrs -> Values]
    BY <1>9 DEF TypeOK, StoreThenNotify, NotifyCall
  <2> QED BY <1>9, <2>1, <2>2, <2>3 DEF TypeOK, StoreThenNotify, NotifyCall, poolVars, parkVars, spinVars, exitVars
<1>10. ASSUME NEW t \in Threads, Wake(t) PROVE TypeOK'
  <2> DEFINE old == parked[frame[t].ea]
             n == Released(old, frame[t].count)
  <2>1. parked' \in [Addrs -> Seq(Threads)]
    BY <1>10, WokenProperties DEF TypeOK, Wake
  <2>2. closed' \subseteq Threads
    <3>1. n \in 0..Len(old) /\ old \in Seq(Threads)
      BY WokenProperties
    <3>2. closed' = closed \cup {old[i] : i \in 1..n}
      BY <1>10 DEF Wake
    <3> HIDE DEF old, n
    <3> QED BY <3>1, <3>2 DEF TypeOK
  <2>3. pc' \in [Threads -> Labels] /\ frame' \in [Threads -> WaitFrames]
    BY <1>10, ReturnType DEF Wake
  <2> QED BY <1>10, <2>1, <2>2, <2>3 DEF TypeOK, Wake, poolVars, parkVars, spinVars, exitVars
<1>11. ASSUME NEW t \in Threads, LaunchTID(t) PROVE TypeOK'
  <2>1. pc' \in [Threads -> Labels] /\ child' \in [Threads -> Agents \cup {None}]
    <3>1. PICK c \in Agents : /\ child' = [child EXCEPT ![t] = c]
                              /\ pc' = [pc EXCEPT ![t] = "wgAdd", ![c] = "launching"]
      BY <1>11 DEF LaunchTID
    <3> QED BY <3>1, LabelFacts DEF TypeOK
  <2> QED BY <1>11, <2>1 DEF TypeOK, LaunchTID, poolVars, parkVars, spinVars, exitVars
<1>12. ASSUME NEW t \in Threads, LaunchWgAdd(t) \/ WgDone(t) PROVE TypeOK'
  <2>1. pc' \in [Threads -> Labels]
    BY <1>12, LabelFacts, GotoType DEF LaunchWgAdd, WgDone
  <2> QED BY <1>12, <2>1 DEF TypeOK, LaunchWgAdd, WgDone, poolVars, parkVars, spinVars, exitVars
<1>13. ASSUME NEW t \in Threads, NEW from, NEW d \in Int, NEW to \in Labels,
              SpinAdd(t, from, d, to) \/ SpinStore(t, from, to)
       PROVE TypeOK'
  <2>1. pc' \in [Threads -> Labels]
    BY <1>13, GotoType DEF SpinAdd, SpinStore
  <2>2. CASE SpinAdd(t, from, d, to)
    BY <2>1, <2>2 DEF TypeOK, SpinAdd, poolVars, parkVars, exitVars
  <2>3. CASE SpinStore(t, from, to)
    BY <2>1, <2>3 DEF TypeOK, SpinStore, poolVars, parkVars, exitVars
  <2> QED BY <1>13, <2>2, <2>3
<1>14. ASSUME NEW t \in Threads, LaunchGo(t) PROVE TypeOK'
  <2>1. pc' \in [Threads -> Labels]
    BY <1>14, LabelFacts DEF TypeOK, LaunchGo
  <2> QED BY <1>14, <2>1 DEF TypeOK, LaunchGo, poolVars, parkVars, spinVars, exitVars
<1>15. ASSUME NEW t \in Threads,
              BodyReturns(t) \/ BodyTraps(t) \/ HostJoins(t) \/ ThreadsWait(t) \/ Crash(t)
       PROVE TypeOK'
  <2>1. pc' \in [Threads -> Labels]
    BY <1>15, LabelFacts, GotoType
    DEF TypeOK, BodyReturns, BodyTraps, HostJoins, ThreadsWait, Crash
  <2> QED BY <1>15, <2>1
       DEF TypeOK, BodyReturns, BodyTraps, HostJoins, ThreadsWait, Crash, poolVars, parkVars, spinVars, exitVars
<1> QED BY LabelFacts, <1>1, <1>2, <1>3, <1>4, <1>5, <1>6, <1>7, <1>8, <1>9, <1>10, <1>11,
       <1>12, <1>13, <1>14, <1>15
    DEF Next, GuestStep, LockStep, RuntimeStep

-----------------------------------------------------------------------------
(* The parking lot *)

Launching == {"wgAdd", "launchAdd", "launchStore", "go"}

\* A thread inside threadLaunch owns the agent it launches, which has no step
\* of its own before the go statement.
LaunchOwned ==
  \A t \in Threads : pc[t] \in Launching =>
     /\ child[t] \in Agents
     /\ pc[child[t]] = "launching"
     /\ \A u \in Threads : pc[u] \in Launching /\ child[u] = child[t] => u = t

\* parkMu is held, between two steps, exactly by the thread that is comparing
\* or about to park (atomicWait takes it first, and unlocks on both paths).
ParkMuHeld ==
  \A t \in Threads : pc[t] \in {"compare", "park"} <=> parkMu = t

ParkInv == ParkMuHeld /\ ParkedExactly /\ NoLostWakeup

\* The inductive invariant: the parking lot is only as good as the frames and
\* labels of the threads in it, and a launch must not move a parked thread.
IInv == TypeOK /\ ParkInv /\ LaunchOwned

\* A step that moves no thread into or out of a wait, a critical section or a
\* pending notify leaves the parking lot as it was.
LEMMA QuietStep ==
  ASSUME TypeOK, ParkInv, UNCHANGED <<frame, mem, parkMu, parked, closed>>,
         \A u \in Threads :
            \/ pc'[u] = pc[u]
            \/ /\ pc[u] \notin {"compare", "park", "notify"}
               /\ pc'[u] \notin {"compare", "park"}
               /\ pc[u] \in InWait <=> pc'[u] \in InWait
  PROVE  ParkInv'
<1> USE DEF ParkInv, ParkedExactly
<1>1. ParkMuHeld'
  BY DEF ParkMuHeld
<1>2. ParkedOnce'
  BY DEF ParkedOnce
<1>3. ParkedAreWaiting'
  <2> SUFFICES ASSUME NEW a \in Addrs, NEW i \in 1..Len(parked[a])
               PROVE  /\ pc'[parked[a][i]] \in InWait
                      /\ frame[parked[a][i]].ea = a /\ parked[a][i] \notin closed
    BY DEF ParkedAreWaiting
  <2>1. parked[a][i] \in Threads
    BY DEF TypeOK
  <2>2. pc[parked[a][i]] \in InWait /\ frame[parked[a][i]].ea = a /\ parked[a][i] \notin closed
    BY DEF ParkedAreWaiting
  <2> QED BY <2>1, <2>2
<1>4. WaitingAreParked'
  BY DEF WaitingAreParked
<1>5. NoLostWakeup'
  <2> SUFFICES ASSUME NEW t \in Threads,
                      pc'[t] = "park" \/ (pc'[t] \in InWait /\ t \notin closed),
                      mem[frame[t].ea] # frame[t].expected
               PROVE  \E u \in Threads : /\ pc'[u] = "notify"
                                         /\ frame[u].ea = frame[t].ea
                                         /\ frame[u].count = WakeAll
    BY DEF NoLostWakeup
  <2>1. pc[t] = "park" \/ (pc[t] \in InWait /\ t \notin closed)
    OBVIOUS
  <2>2. PICK u \in Threads : /\ pc[u] = "notify" /\ frame[u].ea = frame[t].ea
                             /\ frame[u].count = WakeAll
    BY <2>1 DEF NoLostWakeup
  <2>3. pc'[u] = "notify"
    BY <2>2
  <2> QED BY <2>2, <2>3
<1> QED BY <1>1, <1>2, <1>3, <1>4, <1>5

\* A step outside threadLaunch keeps the ownership of launched agents.
LEMMA NoLaunchStep ==
  ASSUME TypeOK, LaunchOwned, UNCHANGED child,
         \A u \in Threads : /\ pc[u] \in Launching <=> pc'[u] \in Launching
                            /\ pc[u] = "launching" => pc'[u] = "launching"
  PROVE  LaunchOwned'
BY ThreadFacts DEF LaunchOwned

\* A thread that is in no wait and no pending notify changes its operands.
LEMMA OperandStep ==
  ASSUME TypeOK, ParkInv, NEW t \in Threads, NEW f, UNCHANGED <<mem, parkMu, parked, closed>>,
         pc[t] = "guest", frame' = [frame EXCEPT ![t] = f],
         \E l \in {"lock", "notify"} : pc' = [pc EXCEPT ![t] = l]
  PROVE  ParkInv'
<1> USE DEF ParkInv, ParkedExactly
<1>0. /\ \A u \in Threads : u # t => pc'[u] = pc[u] /\ frame'[u] = frame[u]
      /\ pc'[t] \in {"lock", "notify"}
  BY DEF TypeOK
<1>1. ParkMuHeld'
  BY <1>0 DEF ParkMuHeld
<1>2. ParkedOnce'
  BY DEF ParkedOnce
<1>3. ParkedAreWaiting'
  <2> SUFFICES ASSUME NEW a \in Addrs, NEW i \in 1..Len(parked[a])
               PROVE  /\ pc'[parked[a][i]] \in InWait
                      /\ frame'[parked[a][i]].ea = a /\ parked[a][i] \notin closed
    BY DEF ParkedAreWaiting
  <2>1. pc[parked[a][i]] \in InWait /\ frame[parked[a][i]].ea = a /\ parked[a][i] \notin closed
    BY DEF ParkedAreWaiting
  <2>2. parked[a][i] \in Threads /\ parked[a][i] # t
    BY <2>1 DEF TypeOK, InWait
  <2> QED BY <1>0, <2>1, <2>2
<1>4. WaitingAreParked'
  BY <1>0 DEF WaitingAreParked, InWait
<1>5. NoLostWakeup'
  <2> SUFFICES ASSUME NEW w \in Threads,
                      pc'[w] = "park" \/ (pc'[w] \in InWait /\ w \notin closed),
                      mem[frame'[w].ea] # frame'[w].expected
               PROVE  \E u \in Threads : /\ pc'[u] = "notify"
                                         /\ frame'[u].ea = frame'[w].ea
                                         /\ frame'[u].count = WakeAll
    BY DEF NoLostWakeup
  <2>1. w # t
    BY <1>0 DEF InWait
  <2>2. PICK u \in Threads : /\ pc[u] = "notify" /\ frame[u].ea = frame[w].ea
                             /\ frame[u].count = WakeAll
    BY <1>0, <2>1 DEF NoLostWakeup
  <2> QED BY <1>0, <2>1, <2>2
<1> QED BY <1>1, <1>2, <1>3, <1>4, <1>5

\* parkMu changes hands while nobody's wait or notify does.
LEMMA MutexStep ==
  ASSUME TypeOK, ParkInv, NEW t \in Threads, LockPark(t) \/ CompareDiffers(t) \/ CompareEqual(t)
  PROVE  ParkInv'
<1> USE DEF ParkInv, ParkedExactly
<1>0. /\ \A u \in Threads : u # t => pc'[u] = pc[u] /\ frame'[u] = frame[u]
      /\ pc[t] \in {"lock", "compare"} /\ pc'[t] \in {"compare", "park", "guest"}
      /\ UNCHANGED <<mem, parked, closed>>
      /\ pc'[t] = "park" => mem[frame'[t].ea] = frame'[t].expected
  BY DEF TypeOK, LockPark, CompareDiffers, CompareEqual, ReturnToGuest, At, Goto, parkVars
<1>1. ParkMuHeld'
  <2>1. CASE LockPark(t)
    BY <2>1, ThreadFacts DEF TypeOK, ParkMuHeld, LockPark, At, Goto
  <2>2. CASE CompareDiffers(t)
    BY <2>2, ThreadFacts DEF TypeOK, ParkMuHeld, CompareDiffers, ReturnToGuest, At, Goto
  <2>3. CASE CompareEqual(t)
    BY <2>3, ThreadFacts DEF TypeOK, ParkMuHeld, CompareEqual, At, Goto, parkVars
  <2> QED BY <2>1, <2>2, <2>3
<1>2. ParkedOnce'
  BY <1>0 DEF ParkedOnce
<1>3. ParkedAreWaiting'
  <2> SUFFICES ASSUME NEW a \in Addrs, NEW i \in 1..Len(parked[a])
               PROVE  /\ pc'[parked[a][i]] \in InWait
                      /\ frame'[parked[a][i]].ea = a /\ parked[a][i] \notin closed
    BY <1>0 DEF ParkedAreWaiting
  <2>1. pc[parked[a][i]] \in InWait /\ frame[parked[a][i]].ea = a /\ parked[a][i] \notin closed
    BY DEF ParkedAreWaiting
  <2>2. parked[a][i] \in Threads /\ parked[a][i] # t
    BY <1>0, <2>1 DEF TypeOK, InWait
  <2> QED BY <1>0, <2>1, <2>2
<1>4. WaitingAreParked'
  BY <1>0 DEF WaitingAreParked, InWait
<1>5. NoLostWakeup'
  <2> SUFFICES ASSUME NEW w \in Threads,
                      pc'[w] = "park" \/ (pc'[w] \in InWait /\ w \notin closed),
                      mem[frame'[w].ea] # frame'[w].expected
               PROVE  \E u \in Threads : /\ pc'[u] = "notify"
                                         /\ frame'[u].ea = frame'[w].ea
                                         /\ frame'[u].count = WakeAll
    BY <1>0 DEF NoLostWakeup
  <2>1. w # t
    BY <1>0 DEF InWait
  <2>2. PICK u \in Threads : /\ pc[u] = "notify" /\ frame[u].ea = frame[w].ea
                             /\ frame[u].count = WakeAll
    BY <1>0, <2>1 DEF NoLostWakeup
  <2>3. u # t
    BY <1>0, <2>2
  <2> QED BY <1>0, <2>1, <2>2, <2>3
<1> QED BY <1>1, <1>2, <1>3, <1>4, <1>5

\* Parking: the thread is appended to the queue of the address it compared.
LEMMA ParkStep ==
  ASSUME TypeOK, ParkInv, NEW t \in Threads, Park(t)
  PROVE  ParkInv'
<1> USE DEF ParkInv, ParkedExactly
<1> DEFINE ea == frame[t].ea
           old == parked[ea]
<1>0. /\ pc[t] = "park" /\ pc'[t] \in InWait
      /\ \A u \in Threads : u # t => pc'[u] = pc[u]
      /\ UNCHANGED <<frame, mem>> /\ closed' = closed \ {t} /\ parkMu' = None
      /\ ea \in Addrs /\ old \in Seq(Threads)
      /\ parked' = [parked EXCEPT ![ea] = Append(old, t)]
  BY FrameFacts DEF TypeOK, Park, At, Goto, InWait
<1>1. /\ parked'[ea] = Append(old, t)
      /\ Len(parked'[ea]) = Len(old) + 1
      /\ \A i \in 1..Len(old) : parked'[ea][i] = old[i]
      /\ parked'[ea][Len(old) + 1] = t
      /\ \A a \in Addrs : a # ea => parked'[a] = parked[a]
  <2>1. parked'[ea] = Append(old, t) /\ \A a \in Addrs : a # ea => parked'[a] = parked[a]
    BY <1>0 DEF TypeOK
  <2> HIDE DEF old
  <2> QED BY <1>0, <2>1
<1>2. \A a \in Addrs : \A i \in 1..Len(parked[a]) : parked[a][i] \in Threads /\ parked[a][i] # t
  <2>1. ASSUME NEW a \in Addrs, NEW i \in 1..Len(parked[a])
        PROVE  parked[a][i] \in Threads /\ pc[parked[a][i]] \in InWait
    BY DEF TypeOK, ParkedAreWaiting
  <2>2. pc[t] \notin InWait
    BY <1>0 DEF InWait
  <2> QED BY <2>1, <2>2
<1> HIDE DEF ea, old
<1>3. ParkMuHeld'
  BY <1>0, ThreadFacts DEF ParkMuHeld, InWait
<1>4. ParkedOnce'
  <2> SUFFICES ASSUME NEW a \in Addrs, NEW i \in 1..Len(parked'[a]), NEW j \in 1..Len(parked'[a]),
                      parked'[a][i] = parked'[a][j]
               PROVE  i = j
    BY DEF ParkedOnce
  <2>1. CASE a # ea
    BY <1>1, <2>1 DEF ParkedOnce
  <2>2. CASE a = ea
    <3>1. Len(old) \in Nat /\ old = parked[a]
      BY <1>0, <2>2 DEF old
    <3>2. (i \in 1..Len(old) \/ i = Len(old) + 1) /\ (j \in 1..Len(old) \/ j = Len(old) + 1)
      BY <1>1, <2>2, <3>1
    <3> QED BY <1>0, <1>1, <1>2, <2>2, <3>1, <3>2 DEF ParkedOnce
  <2> QED BY <2>1, <2>2
<1>5. ParkedAreWaiting'
  <2> SUFFICES ASSUME NEW a \in Addrs, NEW i \in 1..Len(parked'[a])
               PROVE  /\ pc'[parked'[a][i]] \in InWait
                      /\ frame'[parked'[a][i]].ea = a /\ parked'[a][i] \notin closed'
    BY DEF ParkedAreWaiting
  <2>1. CASE a # ea \/ i # Len(old) + 1
    <3>1. Len(old) \in Nat /\ old = parked[ea]
      BY <1>0 DEF old
    <3>2. i \in 1..Len(parked[a]) /\ parked'[a][i] = parked[a][i]
      BY <1>1, <2>1, <3>1
    <3> QED BY <1>0, <1>2, <3>2 DEF ParkedAreWaiting
  <2>2. CASE a = ea /\ i = Len(old) + 1
    BY <1>0, <1>1, <2>2 DEF ea
  <2> QED BY <2>1, <2>2
<1>6. WaitingAreParked'
  <2> SUFFICES ASSUME NEW w \in Threads, pc'[w] \in InWait, w \notin closed'
               PROVE  \E i \in 1..Len(parked'[frame'[w].ea]) : parked'[frame'[w].ea][i] = w
    BY DEF WaitingAreParked
  <2>0. Len(old) \in Nat /\ old = parked[ea]
    BY <1>0 DEF old
  <2>1. CASE w = t
    <3>1. frame'[w].ea = ea /\ Len(old) + 1 \in 1..Len(parked'[ea])
      BY <1>0, <1>1, <2>0, <2>1 DEF ea
    <3> QED BY <1>1, <2>1, <3>1
  <2>2. CASE w # t
    <3>1. PICK i \in 1..Len(parked[frame[w].ea]) : parked[frame[w].ea][i] = w
      BY <1>0, <2>2 DEF WaitingAreParked
    <3>2. frame[w].ea \in Addrs /\ frame'[w].ea = frame[w].ea
      BY <1>0, FrameFacts DEF TypeOK
    <3>3. CASE frame[w].ea = ea
      <4>1. i \in 1..Len(old) /\ i \in 1..Len(parked'[ea])
        BY <1>1, <2>0, <3>1, <3>3
      <4> QED BY <1>1, <2>0, <3>1, <3>2, <3>3, <4>1
    <3>4. CASE frame[w].ea # ea
      BY <1>1, <3>1, <3>2, <3>4
    <3> QED BY <3>3, <3>4
  <2> QED BY <2>1, <2>2
<1>7. NoLostWakeup'
  <2> SUFFICES ASSUME NEW w \in Threads,
                      pc'[w] = "park" \/ (pc'[w] \in InWait /\ w \notin closed'),
                      mem'[frame'[w].ea] # frame'[w].expected
               PROVE  \E u \in Threads : /\ pc'[u] = "notify"
                                         /\ frame'[u].ea = frame'[w].ea
                                         /\ frame'[u].count = WakeAll
    BY DEF NoLostWakeup
  <2>1. pc[w] = "park" \/ (pc[w] \in InWait /\ w \notin closed)
    BY <1>0
  <2>2. PICK u \in Threads : /\ pc[u] = "notify" /\ frame[u].ea = frame[w].ea
                             /\ frame[u].count = WakeAll
    BY <1>0, <2>1 DEF NoLostWakeup
  <2> QED BY <1>0, <2>2
<1> QED BY <1>3, <1>4, <1>5, <1>6, <1>7

\* Leaving a wait: the thread is gone from its queue, and no other moves in it.
LEMMA LeaveStep ==
  ASSUME TypeOK, ParkInv, NEW t \in Threads, Receive(t) \/ Unpark(t) \/ UnparkTrap(t)
  PROVE  ParkInv'
<1> USE DEF ParkInv, ParkedExactly
<1> DEFINE ea == frame[t].ea
           old == parked[ea]
           new == parked'[ea]
<1>0. /\ pc[t] \in InWait /\ pc'[t] \in {"guest", "join", "exitAdd"}
      /\ \A u \in Threads : u # t => pc'[u] = pc[u] /\ frame'[u] = frame[u]
      /\ UNCHANGED <<mem, parkMu>> /\ closed' = closed \ {t}
  BY DEF TypeOK, Receive, Unpark, UnparkTrap, ReturnToGuest, At, Goto, InWait
<1>1. /\ ea \in Addrs /\ new \in Seq(Threads) /\ NoRepeats(new)
      /\ \A i \in 1..Len(new) : new[i] # t /\ \E j \in 1..Len(old) : new[i] = old[j]
      /\ \A j \in 1..Len(old) : old[j] # t => \E i \in 1..Len(new) : new[i] = old[j]
      /\ \A a \in Addrs : a # ea => parked'[a] = parked[a]
  <2>1. CASE Receive(t)
    <3>1. parked' = parked /\ t \in closed
      BY <2>1 DEF Receive
    <3>2. ea \in Addrs /\ old \in Seq(Threads)
      BY FrameFacts DEF TypeOK
    <3>3. NoRepeats(old) /\ \A i \in 1..Len(old) : old[i] # t
      BY <3>1, <3>2 DEF ParkedOnce, ParkedAreWaiting, NoRepeats
    <3> QED BY <3>1, <3>2, <3>3
  <2>2. CASE Unpark(t) \/ UnparkTrap(t)
    <3>1. ea \in Addrs /\ parked' = [parked EXCEPT ![ea] = Unparked(t)]
      BY <2>2, FrameFacts DEF TypeOK, Unpark, UnparkTrap
    <3>2. new = Unparked(t) /\ \A a \in Addrs : a # ea => parked'[a] = parked[a]
      BY <3>1 DEF TypeOK
    <3> DEFINE left == Unparked(t)
    <3>3. /\ left \in Seq(Threads) /\ NoRepeats(left)
          /\ \A i \in 1..Len(left) : left[i] # t /\ \E j \in 1..Len(old) : left[i] = old[j]
          /\ \A j \in 1..Len(old) : old[j] # t => \E i \in 1..Len(left) : left[i] = old[j]
      BY UnparkedProperties
    <3>4. new = left
      BY <3>2
    <3> HIDE DEF left, new, old
    <3> QED BY <3>1, <3>2, <3>3, <3>4
  <2> QED BY <2>1, <2>2
<1>2. \A a \in Addrs : a # ea => \A i \in 1..Len(parked[a]) : parked[a][i] # t
  BY DEF ParkedAreWaiting
<1>3. ParkMuHeld'
  BY <1>0 DEF ParkMuHeld, InWait
<1>4. ParkedOnce'
  BY <1>1 DEF ParkedOnce, NoRepeats
<1>5. ParkedAreWaiting'
  <2> SUFFICES ASSUME NEW a \in Addrs, NEW i \in 1..Len(parked'[a])
               PROVE  /\ pc'[parked'[a][i]] \in InWait
                      /\ frame'[parked'[a][i]].ea = a /\ parked'[a][i] \notin closed'
    BY DEF ParkedAreWaiting
  <2>1. PICK j \in 1..Len(parked[a]) : parked'[a][i] = parked[a][j] /\ parked[a][j] # t
    <3>1. CASE a = ea
      BY <1>1, <3>1
    <3>2. CASE a # ea
      BY <1>1, <1>2, <3>2
    <3> QED BY <3>1, <3>2
  <2>2. /\ pc[parked[a][j]] \in InWait /\ frame[parked[a][j]].ea = a
        /\ parked[a][j] \notin closed /\ parked[a][j] \in Threads
    BY DEF TypeOK, ParkedAreWaiting
  <2> QED BY <1>0, <2>1, <2>2
<1>6. WaitingAreParked'
  <2> SUFFICES ASSUME NEW w \in Threads, pc'[w] \in InWait, w \notin closed'
               PROVE  \E i \in 1..Len(parked'[frame'[w].ea]) : parked'[frame'[w].ea][i] = w
    BY DEF WaitingAreParked
  <2>1. w # t /\ pc[w] \in InWait /\ w \notin closed /\ frame'[w].ea = frame[w].ea
    BY <1>0 DEF InWait
  <2>2. PICK j \in 1..Len(parked[frame[w].ea]) : parked[frame[w].ea][j] = w
    BY <2>1 DEF WaitingAreParked
  <2>3. frame[w].ea \in Addrs
    BY FrameFacts DEF TypeOK
  <2>4. CASE frame[w].ea = ea
    <3>1. j \in 1..Len(old) /\ old[j] = w
      BY <2>2, <2>4
    <3>2. \E i \in 1..Len(new) : new[i] = w
      BY <1>1, <2>1, <3>1
    <3>3. parked'[frame'[w].ea] = new
      BY <2>1, <2>4
    <3> QED BY <3>2, <3>3
  <2>5. CASE frame[w].ea # ea
    BY <1>1, <2>1, <2>2, <2>3, <2>5
  <2> QED BY <2>4, <2>5
<1>7. NoLostWakeup'
  <2> SUFFICES ASSUME NEW w \in Threads,
                      pc'[w] = "park" \/ (pc'[w] \in InWait /\ w \notin closed'),
                      mem'[frame'[w].ea] # frame'[w].expected
               PROVE  \E u \in Threads : /\ pc'[u] = "notify"
                                         /\ frame'[u].ea = frame'[w].ea
                                         /\ frame'[u].count = WakeAll
    BY DEF NoLostWakeup
  <2>1. w # t /\ (pc[w] = "park" \/ (pc[w] \in InWait /\ w \notin closed))
    BY <1>0 DEF InWait
  <2>2. PICK u \in Threads : /\ pc[u] = "notify" /\ frame[u].ea = frame[w].ea
                             /\ frame[u].count = WakeAll
    BY <1>0, <2>1 DEF NoLostWakeup
  <2> QED BY <1>0, <2>1, <2>2 DEF InWait
<1> QED BY <1>3, <1>4, <1>5, <1>6, <1>7

\* Changing a cell: every waiter on it now has a notify coming.
LEMMA StoreStep ==
  ASSUME TypeOK, ParkInv, NEW t \in Threads, StoreThenNotify(t)
  PROVE  ParkInv'
<1> USE DEF ParkInv, ParkedExactly
<1>1. PICK ea \in Addrs, v \in Values :
         /\ mem' = [mem EXCEPT ![ea] = v]
         /\ frame' = [frame EXCEPT ![t] = NotifyFrame(ea, WakeAll)]
  BY DEF StoreThenNotify
<1>2. /\ pc[t] = "guest" /\ pc'[t] = "notify"
      /\ frame'[t].ea = ea /\ frame'[t].count = WakeAll
      /\ \A u \in Threads : u # t => pc'[u] = pc[u] /\ frame'[u] = frame[u]
      /\ \A a \in Addrs : a # ea => mem'[a] = mem[a]
      /\ UNCHANGED <<parkMu, parked, closed>>
  BY <1>1 DEF TypeOK, StoreThenNotify, At, Goto, NotifyFrame, parkVars
<1>3. ParkMuHeld'
  BY <1>2 DEF ParkMuHeld
<1>4. ParkedOnce'
  BY <1>2 DEF ParkedOnce
<1>5. ParkedAreWaiting'
  <2> SUFFICES ASSUME NEW a \in Addrs, NEW i \in 1..Len(parked[a])
               PROVE  /\ pc'[parked[a][i]] \in InWait
                      /\ frame'[parked[a][i]].ea = a /\ parked[a][i] \notin closed
    BY <1>2 DEF ParkedAreWaiting
  <2>1. pc[parked[a][i]] \in InWait /\ frame[parked[a][i]].ea = a /\ parked[a][i] \notin closed
    BY DEF ParkedAreWaiting
  <2>2. parked[a][i] \in Threads /\ parked[a][i] # t
    BY <1>2, <2>1 DEF TypeOK, InWait
  <2> QED BY <1>2, <2>1, <2>2
<1>6. WaitingAreParked'
  BY <1>2 DEF WaitingAreParked, InWait
<1>7. NoLostWakeup'
  <2> SUFFICES ASSUME NEW w \in Threads,
                      pc'[w] = "park" \/ (pc'[w] \in InWait /\ w \notin closed'),
                      mem'[frame'[w].ea] # frame'[w].expected
               PROVE  \E u \in Threads : /\ pc'[u] = "notify"
                                         /\ frame'[u].ea = frame'[w].ea
                                         /\ frame'[u].count = WakeAll
    BY DEF NoLostWakeup
  <2>1. w # t /\ (pc[w] = "park" \/ (pc[w] \in InWait /\ w \notin closed))
    BY <1>2 DEF InWait
  <2>2. frame'[w] = frame[w] /\ frame[w].ea \in Addrs
    BY <1>2, <2>1, FrameFacts DEF TypeOK
  <2>3. CASE frame[w].ea = ea
    BY <1>2, <2>2, <2>3
  <2>4. CASE frame[w].ea # ea
    <3>1. PICK u \in Threads : /\ pc[u] = "notify" /\ frame[u].ea = frame[w].ea
                               /\ frame[u].count = WakeAll
      BY <1>2, <2>1, <2>2, <2>4 DEF NoLostWakeup
    <3> QED BY <1>2, <2>2, <3>1
  <2> QED BY <2>3, <2>4
<1> QED BY <1>3, <1>4, <1>5, <1>6, <1>7

\* Waking: the released waiters leave the head of the queue with their channels
\* closed, and a notify of all leaves nobody on a cell that has changed.
LEMMA WakeStep ==
  ASSUME TypeOK, ParkInv, NEW t \in Threads, Wake(t)
  PROVE  ParkInv'
<1> USE DEF ParkInv, ParkedExactly
<1> DEFINE ea  == frame[t].ea
           old == parked[ea]
           n   == Released(old, frame[t].count)
           new == SubSeq(old, n + 1, Len(old))
<1>1. /\ pc[t] = "notify" /\ pc'[t] = "guest" /\ parkMu = None
      /\ \A u \in Threads : u # t => pc'[u] = pc[u] /\ frame'[u] = frame[u]
      /\ UNCHANGED <<mem, parkMu>>
      /\ closed' = closed \cup {old[i] : i \in 1..n}
      /\ parked' = [parked EXCEPT ![ea] = new]
  BY DEF TypeOK, Wake, ReturnToGuest, At, Goto
<1>2. /\ ea \in Addrs /\ n \in 0..Len(old) /\ old \in Seq(Threads)
      /\ Len(new) = Len(old) - n /\ NoRepeats(new)
      /\ \A i \in 1..Len(new) : new[i] = old[n + i]
  BY WokenProperties
<1>3. parked'[ea] = new /\ \A a \in Addrs : a # ea => parked'[a] = parked[a]
  BY <1>1, <1>2 DEF TypeOK
<1>4. frame[t].count = WakeAll => n = Len(old)
  BY <1>2 DEF Released, WakeAll
<1>5. Len(old) \in Nat /\ old = parked[ea]
  BY <1>2
<1> HIDE DEF old, n, new, ea
<1>6. ParkMuHeld'
  BY <1>1 DEF ParkMuHeld
<1>7. ParkedOnce'
  <2> SUFFICES ASSUME NEW a \in Addrs PROVE NoRepeats(parked'[a])
    BY DEF ParkedOnce, NoRepeats
  <2>1. CASE a = ea
    BY <1>2, <1>3, <2>1
  <2>2. CASE a # ea
    BY <1>3, <2>2 DEF ParkedOnce, NoRepeats
  <2> QED BY <2>1, <2>2
<1>8. ParkedAreWaiting'
  <2> SUFFICES ASSUME NEW a \in Addrs, NEW i \in 1..Len(parked'[a])
               PROVE  /\ pc'[parked'[a][i]] \in InWait
                      /\ frame'[parked'[a][i]].ea = a /\ parked'[a][i] \notin closed'
    BY DEF ParkedAreWaiting
  <2>1. PICK j \in 1..Len(parked[a]) : /\ parked'[a][i] = parked[a][j]
                                       /\ a = ea => j \in n+1..Len(old)
    <3>1. CASE a = ea
      <4>1. n + i \in n+1..Len(old) /\ n + i \in 1..Len(parked[a])
        BY <1>2, <1>3, <1>5, <3>1
      <4>2. parked'[a][i] = parked[a][n + i]
        BY <1>2, <1>3, <1>5, <3>1
      <4> QED BY <4>1, <4>2
    <3>2. CASE a # ea
      BY <1>3, <3>2
    <3> QED BY <3>1, <3>2
  <2>2. /\ pc[parked[a][j]] \in InWait /\ frame[parked[a][j]].ea = a
        /\ parked[a][j] \notin closed /\ parked[a][j] \in Threads
    BY DEF TypeOK, ParkedAreWaiting
  <2>3. parked[a][j] # t
    BY <1>1, <2>2 DEF InWait
  <2>4. \A k \in 1..n : old[k] # parked[a][j]
    <3>1. CASE a = ea
      BY <1>2, <1>5, <2>1, <3>1 DEF ParkedOnce
    <3>2. CASE a # ea
      <4>1. ASSUME NEW k \in 1..n PROVE frame[old[k]].ea = ea
        <5>1. k \in 1..Len(parked[ea])
          BY <1>2, <1>5
        <5> QED BY <1>2, <1>5, <5>1 DEF ParkedAreWaiting
      <4> QED BY <2>2, <3>2, <4>1
    <3> QED BY <3>1, <3>2
  <2> QED BY <1>1, <2>1, <2>2, <2>3, <2>4
<1>9. WaitingAreParked'
  <2> SUFFICES ASSUME NEW w \in Threads, pc'[w] \in InWait, w \notin closed'
               PROVE  \E i \in 1..Len(parked'[frame'[w].ea]) : parked'[frame'[w].ea][i] = w
    BY DEF WaitingAreParked
  <2>1. w # t /\ pc[w] \in InWait /\ w \notin closed /\ frame'[w].ea = frame[w].ea
    BY <1>1 DEF InWait
  <2>2. PICK j \in 1..Len(parked[frame[w].ea]) : parked[frame[w].ea][j] = w
    BY <2>1 DEF WaitingAreParked
  <2>3. frame[w].ea \in Addrs
    BY FrameFacts DEF TypeOK
  <2>4. CASE frame[w].ea = ea
    <3>1. j \in 1..Len(old) /\ old[j] = w
      BY <1>5, <2>2, <2>4
    <3>2. ~(j \in 1..n)
      BY <1>1, <3>1
    <3>3. j - n \in 1..Len(new) /\ n + (j - n) = j
      BY <1>2, <1>5, <3>1, <3>2
    <3>4. new[j - n] = w
      BY <1>2, <3>1, <3>3
    <3> QED BY <1>3, <2>1, <2>4, <3>3, <3>4
  <2>5. CASE frame[w].ea # ea
    BY <1>3, <2>1, <2>2, <2>3, <2>5
  <2> QED BY <2>4, <2>5
<1>10. NoLostWakeup'
  <2> SUFFICES ASSUME NEW w \in Threads,
                      pc'[w] = "park" \/ (pc'[w] \in InWait /\ w \notin closed'),
                      mem'[frame'[w].ea] # frame'[w].expected
               PROVE  \E u \in Threads : /\ pc'[u] = "notify"
                                         /\ frame'[u].ea = frame'[w].ea
                                         /\ frame'[u].count = WakeAll
    BY DEF NoLostWakeup
  <2>1. /\ w # t /\ frame'[w] = frame[w]
        /\ pc[w] = "park" \/ (pc[w] \in InWait /\ w \notin closed)
    BY <1>1 DEF InWait
  <2>2. PICK u \in Threads : /\ pc[u] = "notify" /\ frame[u].ea = frame[w].ea
                             /\ frame[u].count = WakeAll
    BY <1>1, <2>1 DEF NoLostWakeup
  <2>3. CASE u # t
    BY <1>1, <2>1, <2>2, <2>3
  <2>4. CASE u = t
    <3>1. pc[w] # "park"
      BY <1>1, ThreadFacts DEF ParkMuHeld
    <3>2. pc[w] \in InWait /\ w \notin closed /\ frame[w].ea = ea
      BY <2>1, <2>2, <2>4, <3>1 DEF ea
    <3>3. PICK j \in 1..Len(old) : old[j] = w
      BY <1>5, <3>2 DEF WaitingAreParked
    <3>4. w \in closed'
      BY <1>1, <1>4, <2>2, <2>4, <3>3
    <3> QED BY <1>1, <2>1, <3>1, <3>4
  <2> QED BY <2>3, <2>4
<1> QED BY <1>6, <1>7, <1>8, <1>9, <1>10

\* Allocating a TID makes the launcher the one owner of an unborn agent.
LEMMA LaunchTIDStep ==
  ASSUME TypeOK, ParkInv, LaunchOwned, NEW t \in Threads, LaunchTID(t)
  PROVE  ParkInv' /\ LaunchOwned'
<1>1. PICK c \in Agents : /\ pc[c] = "unborn" /\ child' = [child EXCEPT ![t] = c]
                          /\ pc' = [pc EXCEPT ![t] = "wgAdd", ![c] = "launching"]
  BY DEF LaunchTID
<1>2. /\ pc[t] = "guest" /\ c # t /\ c \in Threads
      /\ pc'[t] = "wgAdd" /\ pc'[c] = "launching" /\ child'[t] = c
      /\ \A u \in Threads \ {t, c} : pc'[u] = pc[u]
      /\ \A u \in Threads \ {t} : child'[u] = child[u]
      /\ UNCHANGED <<frame, mem, parkMu, parked, closed>>
  BY <1>1, ThreadFacts DEF TypeOK, LaunchTID, At, parkVars
<1>3. ParkInv'
  BY <1>1, <1>2, QuietStep DEF InWait
<1>4. LaunchOwned'
  <2> SUFFICES ASSUME NEW u \in Threads, pc'[u] \in Launching
               PROVE  /\ child'[u] \in Agents /\ pc'[child'[u]] = "launching"
                      /\ \A w \in Threads : pc'[w] \in Launching /\ child'[w] = child'[u] => w = u
    BY DEF LaunchOwned
  <2>1. \A w \in Threads : pc'[w] \in Launching => w # c /\ (w # t => pc[w] \in Launching)
    BY <1>2 DEF Launching
  <2>2. \A w \in Threads : w # t /\ pc'[w] \in Launching => child[w] # c
    BY <1>1, <2>1 DEF LaunchOwned
  <2>3. CASE u = t
    BY <1>2, <2>2, <2>3
  <2>4. CASE u # t
    <3>1. /\ child[u] \in Agents /\ pc[child[u]] = "launching"
          /\ \A w \in Threads : pc[w] \in Launching /\ child[w] = child[u] => w = u
      BY <2>1, <2>4 DEF LaunchOwned
    <3>2. child[u] # t /\ child[u] # c /\ child'[u] = child[u] /\ child[u] \in Threads
      BY <1>1, <1>2, <2>2, <2>4, <3>1, ThreadFacts
    <3> QED BY <1>2, <2>1, <2>2, <2>4, <3>1, <3>2
  <2> QED BY <2>3, <2>4
<1> QED BY <1>3, <1>4

\* The go statement starts the agent the launcher owns, which was in no wait.
LEMMA LaunchGoStep ==
  ASSUME TypeOK, ParkInv, LaunchOwned, NEW t \in Threads, LaunchGo(t)
  PROVE  ParkInv' /\ LaunchOwned'
<1> DEFINE c == child[t]
<1>1. /\ c \in Agents /\ c \in Threads /\ pc[c] = "launching" /\ pc[t] = "go" /\ c # t
      /\ \A u \in Threads : pc[u] \in Launching /\ child[u] = c => u = t
  BY ThreadFacts DEF LaunchOwned, Launching, LaunchGo, At
<1>2. /\ pc' = [pc EXCEPT ![t] = "guest", ![c] = "guest"]
      /\ child' = [child EXCEPT ![t] = None]
      /\ UNCHANGED <<frame, mem, parkMu, parked, closed>>
  BY DEF LaunchGo, parkVars
<1> HIDE DEF c
<1>3. /\ pc'[t] = "guest" /\ pc'[c] = "guest"
      /\ \A u \in Threads \ {t, c} : pc'[u] = pc[u]
      /\ \A u \in Threads \ {t} : child'[u] = child[u]
  BY <1>1, <1>2 DEF TypeOK
<1>4. ParkInv'
  BY <1>1, <1>2, <1>3, QuietStep DEF InWait
<1>5. LaunchOwned'
  <2> SUFFICES ASSUME NEW u \in Threads, pc'[u] \in Launching
               PROVE  /\ child'[u] \in Agents /\ pc'[child'[u]] = "launching"
                      /\ \A w \in Threads : pc'[w] \in Launching /\ child'[w] = child'[u] => w = u
    BY DEF LaunchOwned
  <2>1. \A w \in Threads : pc'[w] \in Launching =>
             w # t /\ w # c /\ pc[w] \in Launching /\ child'[w] = child[w]
    BY <1>3 DEF Launching
  <2>2. /\ child[u] \in Agents /\ pc[child[u]] = "launching"
        /\ \A w \in Threads : pc[w] \in Launching /\ child[w] = child[u] => w = u
    BY <2>1 DEF LaunchOwned
  <2>3. child[u] # c /\ child[u] # t /\ child[u] \in Threads
    BY <1>1, <2>1, <2>2, ThreadFacts
  <2> QED BY <1>3, <2>1, <2>2, <2>3
<1> QED BY <1>4, <1>5

\* Every step keeps the inductive invariant.
LEMMA IInvStep == IInv /\ [Next]_vars => IInv'
<1> SUFFICES ASSUME IInv, [Next]_vars PROVE IInv'
  OBVIOUS
<1> USE DEF IInv
<1>1. TypeOK'
  BY TypeStep DEF ParkInv, ParkedExactly
<1>2. CASE UNCHANGED vars
  <2>1. ParkInv'
    BY <1>2, QuietStep DEF vars
  <2>2. LaunchOwned'
    BY <1>2, NoLaunchStep DEF vars
  <2> QED BY <1>1, <2>1, <2>2
<1>3. ASSUME NEW t \in Threads, WaitCall(t) \/ NotifyCall(t)
      PROVE  ParkInv' /\ LaunchOwned'
  <2>1. /\ pc[t] = "guest" /\ \E l \in {"lock", "notify"} : pc' = [pc EXCEPT ![t] = l]
        /\ \E f : frame' = [frame EXCEPT ![t] = f]
        /\ UNCHANGED <<mem, parkMu, parked, closed, child>>
    BY <1>3 DEF WaitCall, NotifyCall, At, Goto, parkVars, poolVars
  <2>2. ParkInv'
    BY <2>1, OperandStep
  <2>3. LaunchOwned'
    BY <2>1, NoLaunchStep DEF TypeOK, Launching
  <2> QED BY <2>2, <2>3
<1>4. ASSUME NEW t \in Threads,
             \/ LockPark(t) \/ CompareDiffers(t) \/ CompareEqual(t) \/ Park(t) \/ Receive(t)
             \/ Unpark(t) \/ UnparkTrap(t) \/ StoreThenNotify(t) \/ Wake(t)
      PROVE  ParkInv' /\ LaunchOwned'
  <2>1. ParkInv'
    BY <1>4, MutexStep, ParkStep, LeaveStep, StoreStep, WakeStep
  <2>2. /\ UNCHANGED child
        /\ pc[t] \in {"guest", "lock", "compare", "park", "notify"} \cup InWait
        /\ \E l \in {"guest", "compare", "park", "notify", "select", "checkAlone", "join",
                     "exitAdd"} : pc' = [pc EXCEPT ![t] = l]
    BY <1>4 DEF LockPark, CompareDiffers, CompareEqual, Park, Receive, Unpark, UnparkTrap,
       StoreThenNotify, Wake, ReturnToGuest, At, Goto, poolVars, InWait
  <2>3. LaunchOwned'
    BY <2>2, NoLaunchStep DEF TypeOK, Launching, InWait
  <2> QED BY <2>1, <2>3
<1>5. ASSUME NEW t \in Threads, LaunchTID(t) \/ LaunchGo(t)
      PROVE  ParkInv' /\ LaunchOwned'
  BY <1>5, LaunchTIDStep, LaunchGoStep
<1>6. ASSUME NEW t \in Threads, CheckAlone(t) \/ SelectTimeout(t)
      PROVE  ParkInv' /\ LaunchOwned'
  <2>1. /\ UNCHANGED <<frame, mem, parkMu, parked, closed, child>>
        /\ pc[t] \in {"checkAlone", "select"}
        /\ \E l \in {"unparkTrap", "receive", "unpark"} : pc' = [pc EXCEPT ![t] = l]
    BY <1>6 DEF CheckAlone, SelectTimeout, At, Goto, parkVars, poolVars
  <2>2. ParkInv'
    BY <2>1, QuietStep DEF TypeOK, InWait
  <2>3. LaunchOwned'
    BY <2>1, NoLaunchStep DEF TypeOK, Launching
  <2> QED BY <2>2, <2>3
<1>7. ASSUME NEW t \in Threads,
             \/ LaunchWgAdd(t)
             \/ SpinAdd(t, "launchAdd", 1, "launchStore")
             \/ SpinStore(t, "launchStore", "go")
      PROVE  ParkInv' /\ LaunchOwned'
  <2>1. /\ UNCHANGED <<frame, mem, parkMu, parked, closed, child>>
        /\ pc[t] \in {"wgAdd", "launchAdd", "launchStore"}
        /\ \E l \in {"launchAdd", "launchStore", "go"} : pc' = [pc EXCEPT ![t] = l]
    BY <1>7 DEF LaunchWgAdd, SpinAdd, SpinStore, At, Goto, parkVars, poolVars
  <2>2. ParkInv'
    BY <2>1, QuietStep DEF TypeOK, InWait
  <2>3. LaunchOwned'
    BY <2>1, NoLaunchStep DEF TypeOK, Launching
  <2> QED BY <2>2, <2>3
<1>8. ASSUME NEW t \in Threads,
             \/ SpinAdd(t, "exitAdd", -1, "exitStore") \/ SpinStore(t, "exitStore", "wgDone")
             \/ BodyReturns(t) \/ BodyTraps(t) \/ WgDone(t) \/ HostJoins(t) \/ ThreadsWait(t)
      PROVE  ParkInv' /\ LaunchOwned'
  <2>1. /\ UNCHANGED <<frame, mem, parkMu, parked, closed, child>>
        /\ pc[t] \in {"guest", "exitAdd", "exitStore", "wgDone", "join"}
        /\ \E l \in {"exitAdd", "exitStore", "wgDone", "crash", "done", "join", "joined"} :
              pc' = [pc EXCEPT ![t] = l]
    BY <1>8 DEF SpinAdd, SpinStore, BodyReturns, BodyTraps, WgDone, HostJoins, ThreadsWait, At,
       Goto, parkVars, poolVars
  <2>2. ParkInv'
    BY <2>1, QuietStep DEF TypeOK, InWait
  <2>3. LaunchOwned'
    BY <2>1, NoLaunchStep DEF TypeOK, Launching
  <2> QED BY <2>2, <2>3
<1>9. ASSUME NEW t \in Threads, Crash(t)
      PROVE  ParkInv' /\ LaunchOwned'
  <2>1. UNCHANGED <<pc, frame, mem, parkMu, parked, closed, child>>
    BY <1>9 DEF Crash, parkVars, poolVars
  <2> QED BY <2>1, QuietStep, NoLaunchStep
<1> QED BY <1>1, <1>2, <1>3, <1>4, <1>5, <1>6, <1>7, <1>8, <1>9
    DEF Next, GuestStep, LockStep, RuntimeStep

\* It holds at the start.
LEMMA IInvInit == Init => IInv
<1> SUFFICES ASSUME Init PROVE IInv
  OBVIOUS
<1>1. TypeOK
  <2>1. pc \in [Threads -> Labels]
    BY LabelFacts DEF Init
  <2>2. frame \in [Threads -> WaitFrames] /\ mem \in [Addrs -> Values]
    BY FrameFacts, ThreadPoolAssumption DEF Init
  <2>3. parked \in [Addrs -> Seq(Threads)] /\ agents \in [Threads -> Int]
    BY DEF Init
  <2>4. child \in [Threads -> Agents \cup {None}]
    BY DEF Init
  <2>5. /\ nextTID \in Nat /\ wg \in Int /\ spinAgents \in Int
        /\ parkMu \in Threads \cup {None} /\ closed \subseteq Threads
        /\ panicking \subseteq Threads
    BY DEF Init
  <2>6. spinOversubscribed \in {0, 1} /\ crashed \in BOOLEAN
    BY DEF Init
  <2> QED BY <2>1, <2>2, <2>3, <2>4, <2>5, <2>6 DEF TypeOK
<1>2. \A t \in Threads : pc[t] \in {"guest", "unborn"}
  BY DEF Init
<1>3. ParkMuHeld
  BY <1>2, ThreadFacts DEF Init, ParkMuHeld
<1>4. ParkedExactly
  BY <1>2 DEF Init, ParkedExactly, ParkedOnce, ParkedAreWaiting, WaitingAreParked, InWait
<1>5. NoLostWakeup
  BY <1>2 DEF NoLostWakeup, InWait
<1>6. LaunchOwned
  BY <1>2 DEF LaunchOwned, Launching
<1> QED BY <1>1, <1>3, <1>4, <1>5, <1>6 DEF IInv, ParkInv

\* The inductive invariant holds of every behaviour.
LEMMA Invariance == Spec => []IInv
BY IInvInit, IInvStep, PTL DEF Spec

\* The state has its types, whatever the number of agents, cells and values.
THEOREM TypeCorrect == Spec => []TypeOK
<1>1. IInv => TypeOK
  BY DEF IInv
<1> QED BY <1>1, Invariance, PTL

\* parkMu is held exactly by the thread that compares or is about to park.
THEOREM MutexCorrect == Spec => []ParkMuHeld
<1>1. IInv => ParkMuHeld
  BY DEF IInv, ParkInv
<1> QED BY <1>1, Invariance, PTL

\* The queues of the parking lot hold exactly the unwoken waiters, once each:
\* no channel is ever closed twice, none is closed after its waiter has gone.
THEOREM QueuesCorrect == Spec => []ParkedExactly
<1>1. IInv => ParkedExactly
  BY DEF IInv, ParkInv
<1> QED BY <1>1, Invariance, PTL

\* A notify that follows a change of the cell cannot be missed by a waiter.
THEOREM NoWakeupIsLost == Spec => []NoLostWakeup
<1>1. IInv => NoLostWakeup
  BY DEF IInv, ParkInv
<1> QED BY <1>1, Invariance, PTL

-----------------------------------------------------------------------------
(* Order and traps *)

\* Every step wakes waiters in the order they came.
LEMMA NoOvertakingStep ==
  ASSUME IInv, [Next]_vars, NEW a \in Addrs, NEW j \in 1..Len(parked[a]),
         parked[a][j] \in closed', NEW i \in 1..j
  PROVE  parked[a][i] \in closed'
<1> USE DEF IInv, ParkInv, ParkedExactly
<1>1. parked[a][j] \notin closed /\ frame[parked[a][j]].ea = a
  BY DEF ParkedAreWaiting
<1>2. PICK t \in Threads : Wake(t)
  BY <1>1 DEF Next, GuestStep, LockStep, RuntimeStep, WaitCall, LockPark, CompareDiffers,
     CompareEqual, Park, CheckAlone, Receive, SelectTimeout, Unpark, UnparkTrap,
     StoreThenNotify, NotifyCall, LaunchTID, LaunchWgAdd, SpinAdd, SpinStore, LaunchGo,
     BodyReturns, BodyTraps, WgDone, Crash, HostJoins, ThreadsWait, parkVars, vars
<1> DEFINE ea  == frame[t].ea
           old == parked[ea]
           n   == Released(old, frame[t].count)
<1>3. closed' = closed \cup {old[k] : k \in 1..n} /\ n \in 0..Len(old) /\ ea \in Addrs
  BY <1>2, WokenProperties DEF Wake
<1>4. Len(old) \in Nat /\ old = parked[ea]
  BY <1>3 DEF TypeOK
<1> HIDE DEF ea, old, n
<1>5. PICK k \in 1..n : old[k] = parked[a][j]
  BY <1>1, <1>3
<1>6. k \in 1..Len(parked[ea])
  BY <1>3, <1>4
<1>7. a = ea
  BY <1>1, <1>3, <1>4, <1>5, <1>6 DEF ParkedAreWaiting
<1>8. k = j
  BY <1>4, <1>5, <1>6, <1>7 DEF ParkedOnce
<1>9. i \in 1..n
  BY <1>3, <1>8
<1> QED BY <1>3, <1>4, <1>7, <1>9

\* A notify wakes the waiters of an address in the order they queued.
THEOREM WakesInOrder == Spec => NoOvertaking
<1>1. IInv /\ [Next]_vars =>
        \A a \in Addrs : \A j \in 1..Len(parked[a]) :
           parked[a][j] \in closed' => \A i \in 1..j : parked[a][i] \in closed'
  BY NoOvertakingStep
<1>2. IInv /\ [Next]_vars =>
        [\A a \in Addrs : \A j \in 1..Len(parked[a]) :
            parked[a][j] \in closed' => \A i \in 1..j : parked[a][i] \in closed']_vars
  BY <1>1
<1> QED BY <1>2, Invariance, PTL DEF Spec, NoOvertaking

\* A thread about to trap is the main thread, with no agent ever launched.
LoneTrap ==
  \A t \in Threads :
     pc[t] = "unparkTrap" => t = Main /\ \A c \in Agents : pc[c] = "unborn"

\* As long as no TID was handed out, no agent exists; and a thread about to trap
\* took its decision in such a state, which only it could leave.
AloneInv ==
  /\ nextTID = 0 => \A c \in Agents : pc[c] = "unborn"
  /\ LoneTrap

\* Every step keeps what shows that a trap is lone.
LEMMA AloneStep ==
  ASSUME IInv, AloneInv, [Next]_vars
  PROVE  AloneInv'
<1> USE ThreadFacts DEF IInv
<1>1. CASE UNCHANGED vars
  BY <1>1 DEF AloneInv, LoneTrap, vars
<1>2. ASSUME NEW t \in Threads, LaunchTID(t)
      PROVE  AloneInv'
  <2>1. nextTID' # 0 /\ pc[t] = "guest"
    BY <1>2 DEF LaunchTID, At, TypeOK
  <2>2. PICK c \in Agents : pc' = [pc EXCEPT ![t] = "wgAdd", ![c] = "launching"]
    BY <1>2 DEF LaunchTID
  <2>3. ASSUME NEW u \in Threads, pc'[u] = "unparkTrap" PROVE FALSE
    <3>1. u # t /\ pc[u] = "unparkTrap"
      BY <2>2, <2>3 DEF TypeOK
    <3>2. u = Main /\ t \in Agents /\ pc[t] = "unborn"
      BY <3>1 DEF AloneInv, LoneTrap, Threads
    <3> QED BY <2>1, <3>2
  <2> QED BY <2>1, <2>3 DEF AloneInv, LoneTrap
<1>3. ASSUME NEW t \in Threads, CheckAlone(t)
      PROVE  AloneInv'
  <2>1. /\ pc[t] = "checkAlone" /\ nextTID' = nextTID
        /\ pc' = [pc EXCEPT ![t] = IF nextTID = 0 THEN "unparkTrap" ELSE "receive"]
    BY <1>3 DEF CheckAlone, At, Goto, poolVars
  <2>2. CASE nextTID = 0
    <3>1. t = Main /\ \A c \in Agents : pc[c] = "unborn"
      BY <2>1, <2>2 DEF AloneInv, Threads
    <3>2. \A c \in Agents : pc'[c] = "unborn"
      BY <2>1, <3>1, ThreadPoolAssumption DEF TypeOK
    <3>3. \A u \in Threads : pc'[u] = "unparkTrap" => u = Main
      BY <3>2 DEF Threads
    <3> QED BY <3>2, <3>3 DEF AloneInv, LoneTrap
  <2>3. CASE nextTID # 0
    <3>1. pc' = [pc EXCEPT ![t] = "receive"]
      BY <2>1, <2>3
    <3>2. ASSUME NEW u \in Threads, pc'[u] = "unparkTrap"
          PROVE  u = Main /\ \A c \in Agents : pc'[c] = "unborn"
      <4>1. u # t /\ pc[u] = "unparkTrap"
        BY <3>1, <3>2 DEF TypeOK
      <4>2. u = Main /\ t \in Agents /\ pc[t] = "unborn"
        BY <4>1 DEF AloneInv, LoneTrap, Threads
      <4> QED BY <2>1, <4>2
    <3> QED BY <2>1, <2>3, <3>2 DEF AloneInv, LoneTrap
  <2> QED BY <2>2, <2>3
<1>4. ASSUME NEW t \in Threads, LaunchGo(t)
      PROVE  AloneInv'
  <2>1. pc[t] = "go" /\ child[t] \in Agents /\ pc[child[t]] = "launching" /\ nextTID' = nextTID
    BY <1>4 DEF LaunchGo, At, LaunchOwned, Launching
  <2>2. nextTID # 0 /\ \A u \in Threads : pc[u] # "unparkTrap"
    BY <2>1 DEF AloneInv, LoneTrap
  <2>3. \A u \in Threads : pc'[u] # "unparkTrap"
    BY <1>4, <2>1, <2>2 DEF LaunchGo, TypeOK
  <2> QED BY <2>1, <2>2, <2>3 DEF AloneInv, LoneTrap
<1>5. ASSUME NEW t \in Threads, nextTID' = nextTID, pc[t] # "unborn",
             pc' = pc \/ \E l \in Labels \ {"unparkTrap"} : pc' = [pc EXCEPT ![t] = l]
      PROVE  AloneInv'
  <2>1. CASE pc' = pc
    BY <1>5, <2>1 DEF AloneInv, LoneTrap
  <2>2. CASE pc' # pc
    <3>1. PICK l \in Labels \ {"unparkTrap"} : pc' = [pc EXCEPT ![t] = l]
      BY <1>5, <2>2
    <3>2. \A u \in Threads : pc'[u] = "unparkTrap" => u # t /\ pc[u] = "unparkTrap"
      BY <3>1 DEF TypeOK
    <3>3. (\A c \in Agents : pc[c] = "unborn") => t = Main /\ \A c \in Agents : pc'[c] = "unborn"
      BY <1>5, <3>1, ThreadPoolAssumption DEF TypeOK, Threads
    <3> QED BY <1>5, <3>2, <3>3 DEF AloneInv, LoneTrap
  <2> QED BY <2>1, <2>2
<1>6. ASSUME NEW t \in Threads,
             \/ WaitCall(t) \/ LockPark(t) \/ CompareDiffers(t) \/ CompareEqual(t) \/ Park(t)
             \/ Receive(t) \/ SelectTimeout(t) \/ Unpark(t) \/ UnparkTrap(t)
             \/ StoreThenNotify(t) \/ NotifyCall(t) \/ Wake(t)
      PROVE  AloneInv'
  <2>1. CASE Park(t)
    <3>1. /\ nextTID' = nextTID /\ pc[t] # "unborn"
          /\ \E l \in {"select", "checkAlone"} : pc' = [pc EXCEPT ![t] = l]
      BY <2>1 DEF Park, At, Goto, poolVars
    <3> QED BY <3>1, <1>5, LabelFacts
  <2>2. CASE UnparkTrap(t)
    <3>1. /\ nextTID' = nextTID /\ pc[t] # "unborn"
          /\ \E l \in {"join", "exitAdd"} : pc' = [pc EXCEPT ![t] = l]
      BY <2>2 DEF UnparkTrap, At, Goto, poolVars
    <3> QED BY <3>1, <1>5, LabelFacts
  <2>3. CASE ~Park(t) /\ ~UnparkTrap(t)
    <3>1. /\ nextTID' = nextTID /\ pc[t] # "unborn"
          /\ \E l \in {"guest", "lock", "compare", "park", "unpark", "notify"} :
                pc' = [pc EXCEPT ![t] = l]
      BY <1>6, <2>3 DEF WaitCall, LockPark, CompareDiffers, CompareEqual, Receive,
         SelectTimeout, Unpark, StoreThenNotify, NotifyCall, Wake, ReturnToGuest, At, Goto,
         poolVars
    <3> QED BY <3>1, <1>5, LabelFacts
  <2> QED BY <2>1, <2>2, <2>3
<1>7. ASSUME NEW t \in Threads,
             \/ LaunchWgAdd(t) \/ SpinAdd(t, "launchAdd", 1, "launchStore")
             \/ SpinStore(t, "launchStore", "go") \/ SpinAdd(t, "exitAdd", -1, "exitStore")
             \/ SpinStore(t, "exitStore", "wgDone") \/ BodyReturns(t) \/ BodyTraps(t)
             \/ WgDone(t) \/ Crash(t) \/ HostJoins(t) \/ ThreadsWait(t)
      PROVE  AloneInv'
  <2>1. /\ nextTID' = nextTID /\ pc[t] # "unborn"
        /\ \/ pc' = pc
           \/ \E l \in {"launchAdd", "launchStore", "go", "exitAdd", "exitStore", "wgDone",
                       "crash", "done", "join", "joined"} : pc' = [pc EXCEPT ![t] = l]
    BY <1>7 DEF LaunchWgAdd, SpinAdd, SpinStore, BodyReturns, BodyTraps, WgDone, Crash,
       HostJoins, ThreadsWait, At, Goto, poolVars
  <2> QED BY <2>1, <1>5, LabelFacts
<1> QED BY <1>1, <1>2, <1>3, <1>4, <1>6, <1>7 DEF Next, GuestStep, LockStep, RuntimeStep

\* The trap of an infinite wait is never taken from under a thread that could
\* still have notified.
THEOREM TrapsAreDeadlocks == Spec => []TrapsOnlyInDeadlock
<1>1. Init => AloneInv
  BY ThreadPoolAssumption DEF Init, AloneInv, LoneTrap, Threads
<1>2. IInv /\ AloneInv /\ [Next]_vars => AloneInv'
  BY AloneStep
<1>3. AloneInv => TrapsOnlyInDeadlock
  <2> SUFFICES ASSUME LoneTrap, NEW t \in Threads, pc[t] = "unparkTrap",
                      NEW u \in AbleToNotify
               PROVE  FALSE
    BY DEF AloneInv, TrapsOnlyInDeadlock
  <2>1. \A v \in Threads : pc[v] \in {"unparkTrap", "unborn"}
    BY DEF LoneTrap, Threads
  <2> QED BY <2>1 DEF AbleToNotify, InBody, InWait
<1> QED BY <1>1, <1>2, <1>3, Invariance, PTL DEF Spec

-----------------------------------------------------------------------------
(***************************************************************************)
(* The counters, for any number of agents: the WaitGroup of ThreadsWait    *)
(* and the gauge of live agents are exact at every step, so a ThreadsWait  *)
(* that has returned leaves nobody behind.                                 *)
(***************************************************************************)
\* Who can be where: only Main joins, only an agent exits, and an agent that is
\* being launched has a launcher.
RolesInv ==
  /\ pc[Main] \notin {"unborn", "launching", "done", "crash"} \cup Exiting
  /\ \A c \in Agents : pc[c] \notin {"join", "joined"}
  /\ \A c \in Agents : pc[c] = "launching" =>
       \E t \in Threads : pc[t] \in Launching /\ child[t] = c

CountInv == RolesInv /\ AgentsCounted /\ JoinedIsQuiescent

Counted == {"launchAdd", "launchStore", "go"}
Gauged  == {"launchStore", "go"}

\* A set of agents loses or gains one.
LEMMA CountMoves ==
  ASSUME NEW S \in SUBSET Agents, NEW c
  PROVE  /\ Cardinality(S) \in Nat
         /\ c \notin S => Cardinality(S \cup {c}) = Cardinality(S) + 1
         /\ c \in S => Cardinality(S \ {c}) = Cardinality(S) - 1
<1>1. IsFiniteSet(S)
  BY ThreadPoolAssumption, FS_Subset
<1> QED BY <1>1, FS_CardinalityType, FS_AddElement, FS_RemoveElement

\* A thread moves inside its body, or inside its exit, launching nobody.
LEMMA CountersKept ==
  ASSUME IInv, CountInv, NEW t \in Threads, NEW l \in Labels,
         pc' = [pc EXCEPT ![t] = l], UNCHANGED <<child, wg, spinAgents>>,
         pc[t] \in Counted <=> l \in Counted,
         pc[t] \in Gauged <=> l \in Gauged,
         \/ pc[t] \in InBody /\ l \in InBody \cup {"exitAdd"} /\ (l = "exitAdd" => t # Main)
         \/ pc[t] \in Exiting /\ l \in Exiting /\ (pc[t] = "exitAdd" <=> l = "exitAdd")
         \/ t = Main /\ l \in {"join", "joined"},
         l = "joined" => wg = 0,
         pc[t] \in Launching => l \in Launching
  PROVE  CountInv'
<1> USE ThreadFacts DEF IInv
<1>1. /\ pc'[t] = l /\ \A u \in Threads : u # t => pc'[u] = pc[u]
      /\ child' = child
  BY DEF TypeOK
<1>2. RolesInv'
  <2>1. pc'[Main] \notin {"unborn", "launching", "done", "crash"} \cup Exiting
    BY <1>1 DEF CountInv, RolesInv, InBody, InWait, Exiting
  <2>2. \A c \in Agents : pc'[c] \notin {"join", "joined"}
    BY <1>1, ThreadPoolAssumption DEF CountInv, RolesInv, InBody, InWait, Exiting
  <2>3. ASSUME NEW c \in Agents, pc'[c] = "launching"
        PROVE  \E u \in Threads : pc'[u] \in Launching /\ child'[u] = c
    <3>1. c # t /\ pc[c] = "launching"
      BY <1>1, <2>3 DEF InBody, InWait, Exiting
    <3>2. PICK u \in Threads : pc[u] \in Launching /\ child[u] = c
      BY <3>1 DEF CountInv, RolesInv
    <3> QED BY <1>1, <3>2
  <2> QED BY <2>1, <2>2, <2>3 DEF RolesInv
<1>3. WgCounted' = WgCounted
  <2>1. \A c \in Agents : pc'[c] \in InBody \cup Exiting <=> pc[c] \in InBody \cup Exiting
    BY <1>1, ThreadPoolAssumption DEF Exiting
  <2>2. \A u \in Threads : pc'[u] \in Counted <=> pc[u] \in Counted
    BY <1>1
  <2> QED BY <1>1, <2>1, <2>2 DEF WgCounted, Counted
<1>4. GaugeCounted' = GaugeCounted
  <2>1. \A c \in Agents : pc'[c] \in InBody \cup {"exitAdd"} <=> pc[c] \in InBody \cup {"exitAdd"}
    BY <1>1, ThreadPoolAssumption DEF Exiting, InBody, InWait
  <2>2. \A u \in Threads : pc'[u] \in Gauged <=> pc[u] \in Gauged
    BY <1>1
  <2> QED BY <1>1, <2>1, <2>2 DEF GaugeCounted, Gauged
<1>5. AgentsCounted'
  BY <1>3, <1>4 DEF CountInv, AgentsCounted
<1>6. JoinedIsQuiescent'
  <2> SUFFICES ASSUME pc'[Main] = "joined", NEW c \in Agents
               PROVE  pc'[c] \in {"unborn", "done", "crash"}
    BY DEF JoinedIsQuiescent
  <2>1. CASE pc[Main] = "joined"
    <3>1. t # c
      BY <2>1 DEF CountInv, JoinedIsQuiescent, InBody, InWait, Exiting
    <3> QED BY <1>1, <2>1, <3>1 DEF CountInv, JoinedIsQuiescent
  <2>2. CASE pc[Main] # "joined"
    <3>1. t = Main /\ wg = 0
      BY <1>1, <2>2
    <3>2. WgCounted = {}
      <4>1. IsFiniteSet(WgCounted)
        BY ThreadPoolAssumption, FS_Subset DEF WgCounted
      <4>2. Cardinality(WgCounted) = 0
        BY <3>1 DEF CountInv, AgentsCounted
      <4> QED BY <4>1, <4>2, FS_EmptySet
    <3>3. \A d \in Agents : pc[d] \notin InBody \cup Exiting
      BY <3>2 DEF WgCounted
    <3>4. pc[Main] \notin Launching
      BY <1>1, <3>1 DEF Launching
    <3>5. \A u \in Threads : pc[u] \notin Launching
      BY <3>3, <3>4 DEF Launching, InBody, Threads
    <3>6. pc[c] # "launching"
      BY <3>5 DEF CountInv, RolesInv
    <3>7. pc[c] \in Labels /\ pc[c] \notin {"join", "joined"}
      BY DEF TypeOK, CountInv, RolesInv
    <3>8. pc'[c] = pc[c]
      BY <1>1, <3>1, ThreadPoolAssumption
    <3> QED BY <3>3, <3>6, <3>7, <3>8 DEF Labels
  <2> QED BY <2>1, <2>2
<1> QED BY <1>2, <1>5, <1>6 DEF CountInv

\* threadLaunch takes an agent nobody has launched.
LEMMA CountLaunchTID ==
  ASSUME IInv, CountInv, NEW t \in Threads, LaunchTID(t)
  PROVE  CountInv'
<1> USE ThreadFacts DEF IInv
<1>1. PICK c \in Agents : /\ pc[c] = "unborn" /\ child' = [child EXCEPT ![t] = c]
                          /\ pc' = [pc EXCEPT ![t] = "wgAdd", ![c] = "launching"]
  BY DEF LaunchTID
<1>2. /\ pc[t] = "guest" /\ c # t /\ pc'[t] = "wgAdd" /\ pc'[c] = "launching"
      /\ child'[t] = c
      /\ \A u \in Threads \ {t, c} : pc'[u] = pc[u]
      /\ \A u \in Threads \ {t} : child'[u] = child[u]
      /\ wg' = wg /\ spinAgents' = spinAgents
  BY <1>1 DEF TypeOK, LaunchTID, At, spinVars
<1>3. RolesInv'
  <2>1. pc'[Main] \notin {"unborn", "launching", "done", "crash"} \cup Exiting
    BY <1>1, <1>2, ThreadPoolAssumption DEF CountInv, RolesInv, Exiting
  <2>2. \A d \in Agents : pc'[d] \notin {"join", "joined"}
    BY <1>2 DEF CountInv, RolesInv
  <2>3. ASSUME NEW d \in Agents, pc'[d] = "launching"
        PROVE  \E u \in Threads : pc'[u] \in Launching /\ child'[u] = d
    <3>1. CASE d = c
      BY <1>2, <3>1 DEF Launching
    <3>2. CASE d # c
      <4>1. pc[d] = "launching"
        BY <1>2, <2>3, <3>2
      <4>2. PICK u \in Threads : pc[u] \in Launching /\ child[u] = d
        BY <4>1 DEF CountInv, RolesInv
      <4>3. u # t /\ u # c
        BY <1>1, <1>2, <4>2 DEF Launching
      <4> QED BY <1>2, <4>2, <4>3
    <3> QED BY <3>1, <3>2
  <2> QED BY <2>1, <2>2, <2>3 DEF RolesInv
<1>4. \A d \in Agents : pc'[d] \in InBody \cup Exiting <=> pc[d] \in InBody \cup Exiting
  BY <1>1, <1>2 DEF InBody, InWait, Exiting
<1>5. \A u \in Threads : pc'[u] \in Counted => u # t /\ u # c
  BY <1>2 DEF Counted
<1>6. \A u \in Threads : pc[u] \in Counted => u # t /\ u # c
  BY <1>1, <1>2 DEF Counted
<1>7. WgCounted' = WgCounted
  BY <1>2, <1>4, <1>5, <1>6 DEF WgCounted, Counted
<1>8. GaugeCounted' = GaugeCounted
  <2>1. \A d \in Agents : pc'[d] \in InBody \cup {"exitAdd"} <=> pc[d] \in InBody \cup {"exitAdd"}
    BY <1>1, <1>2 DEF InBody, InWait
  <2> QED BY <1>2, <1>5, <1>6, <2>1 DEF GaugeCounted, Counted
<1>9. JoinedIsQuiescent'
  BY <1>1, <1>2 DEF CountInv, JoinedIsQuiescent, Threads
<1> QED BY <1>2, <1>3, <1>7, <1>8, <1>9 DEF CountInv, AgentsCounted

\* wg.Add counts the agent its launcher owns.
LEMMA CountWgAdd ==
  ASSUME IInv, CountInv, NEW t \in Threads, LaunchWgAdd(t)
  PROVE  CountInv'
<1> USE ThreadFacts DEF IInv
<1> DEFINE c == child[t]
<1>1. /\ pc[t] = "wgAdd" /\ pc' = [pc EXCEPT ![t] = "launchAdd"] /\ child' = child
      /\ wg' = wg + 1 /\ spinAgents' = spinAgents
  BY DEF LaunchWgAdd, At, Goto, spinVars
<1>2. /\ pc'[t] = "launchAdd" /\ \A u \in Threads : u # t => pc'[u] = pc[u]
  BY <1>1 DEF TypeOK
<1>3. /\ c \in Agents /\ pc[c] = "launching" /\ c # t
      /\ \A u \in Threads : pc[u] \in Launching /\ child[u] = c => u = t
  BY <1>1 DEF LaunchOwned, Launching
<1> HIDE DEF c
<1>4. RolesInv'
  <2>1. \A u \in Threads : pc[u] \in Launching => pc'[u] \in Launching
    BY <1>2 DEF Launching
  <2>2. \A d \in Agents : pc'[d] = "launching" => pc[d] = "launching"
    BY <1>2
  <2> QED BY <1>1, <1>2, <2>1, <2>2 DEF CountInv, RolesInv, Exiting
<1>5. c \notin WgCounted
  <2>1. pc[c] \notin InBody \cup Exiting
    BY <1>3 DEF InBody, InWait, Exiting
  <2>2. \A u \in Threads : ~(child[u] = c /\ pc[u] \in Counted)
    BY <1>1, <1>3 DEF Counted, Launching
  <2> QED BY <2>1, <2>2 DEF WgCounted, Counted
<1>6. WgCounted' = WgCounted \cup {c}
  <2>1. \A d \in Agents : pc'[d] \in InBody \cup Exiting <=> pc[d] \in InBody \cup Exiting
    BY <1>1, <1>2 DEF InBody
  <2>2. \A u \in Threads : pc'[u] \in Counted <=> pc[u] \in Counted \/ u = t
    BY <1>2 DEF Counted
  <2>3. child[t] = c
    BY DEF c
  <2> QED BY <1>1, <1>3, <2>1, <2>2, <2>3 DEF WgCounted, Counted
<1>7. Cardinality(WgCounted \cup {c}) = Cardinality(WgCounted) + 1
  BY <1>5, CountMoves DEF WgCounted
<1>8. GaugeCounted' = GaugeCounted
  <2>1. \A d \in Agents : pc'[d] \in InBody \cup {"exitAdd"} <=> pc[d] \in InBody \cup {"exitAdd"}
    BY <1>1, <1>2 DEF InBody
  <2>2. \A u \in Threads : pc'[u] \in Gauged <=> pc[u] \in Gauged
    BY <1>1, <1>2 DEF Gauged
  <2> QED BY <1>1, <2>1, <2>2 DEF GaugeCounted, Gauged
<1>9. JoinedIsQuiescent'
  BY <1>1, <1>2 DEF CountInv, JoinedIsQuiescent, Threads
<1> QED BY <1>1, <1>4, <1>6, <1>7, <1>8, <1>9 DEF CountInv, AgentsCounted

\* spinAgentsAdd(1) raises the gauge by the agent its launcher owns.
LEMMA CountSpinAdd ==
  ASSUME IInv, CountInv, NEW t \in Threads, SpinAdd(t, "launchAdd", 1, "launchStore")
  PROVE  CountInv'
<1> USE ThreadFacts DEF IInv
<1> DEFINE c == child[t]
<1>1. /\ pc[t] = "launchAdd" /\ pc' = [pc EXCEPT ![t] = "launchStore"] /\ child' = child
      /\ wg' = wg /\ spinAgents' = spinAgents + 1
  BY DEF SpinAdd, At, Goto, poolVars
<1>2. /\ pc'[t] = "launchStore" /\ \A u \in Threads : u # t => pc'[u] = pc[u]
  BY <1>1 DEF TypeOK
<1>3. /\ c \in Agents /\ pc[c] = "launching" /\ c # t
      /\ \A u \in Threads : pc[u] \in Launching /\ child[u] = c => u = t
  BY <1>1 DEF LaunchOwned, Launching
<1> HIDE DEF c
<1>4. RolesInv'
  <2>1. \A u \in Threads : pc[u] \in Launching => pc'[u] \in Launching
    BY <1>2 DEF Launching
  <2>2. \A d \in Agents : pc'[d] = "launching" => pc[d] = "launching"
    BY <1>2
  <2> QED BY <1>1, <1>2, <2>1, <2>2 DEF CountInv, RolesInv, Exiting
<1>5. c \notin GaugeCounted
  <2>1. pc[c] \notin InBody \cup {"exitAdd"}
    BY <1>3 DEF InBody, InWait
  <2>2. \A u \in Threads : ~(child[u] = c /\ pc[u] \in Gauged)
    BY <1>1, <1>3 DEF Gauged, Launching
  <2> QED BY <2>1, <2>2 DEF GaugeCounted, Gauged
<1>6. GaugeCounted' = GaugeCounted \cup {c}
  <2>1. \A d \in Agents : pc'[d] \in InBody \cup {"exitAdd"} <=> pc[d] \in InBody \cup {"exitAdd"}
    BY <1>1, <1>2 DEF InBody
  <2>2. \A u \in Threads : pc'[u] \in Gauged <=> pc[u] \in Gauged \/ u = t
    BY <1>2 DEF Gauged
  <2>3. child[t] = c
    BY DEF c
  <2> QED BY <1>1, <1>3, <2>1, <2>2, <2>3 DEF GaugeCounted, Gauged
<1>7. Cardinality(GaugeCounted \cup {c}) = Cardinality(GaugeCounted) + 1
  BY <1>5, CountMoves DEF GaugeCounted
<1>8. WgCounted' = WgCounted
  <2>1. \A d \in Agents : pc'[d] \in InBody \cup Exiting <=> pc[d] \in InBody \cup Exiting
    BY <1>1, <1>2 DEF InBody
  <2>2. \A u \in Threads : pc'[u] \in Counted <=> pc[u] \in Counted
    BY <1>1, <1>2 DEF Counted
  <2> QED BY <1>1, <2>1, <2>2 DEF WgCounted, Counted
<1>9. JoinedIsQuiescent'
  BY <1>1, <1>2 DEF CountInv, JoinedIsQuiescent, Threads
<1> QED BY <1>1, <1>4, <1>6, <1>7, <1>8, <1>9 DEF CountInv, AgentsCounted

\* The go statement hands the agent from its launcher to itself.
LEMMA CountGo ==
  ASSUME IInv, CountInv, NEW t \in Threads, LaunchGo(t)
  PROVE  CountInv'
<1> USE ThreadFacts DEF IInv
<1> DEFINE c == child[t]
<1>1. /\ pc[t] = "go" /\ pc' = [pc EXCEPT ![t] = "guest", ![c] = "guest"]
      /\ child' = [child EXCEPT ![t] = None] /\ wg' = wg /\ spinAgents' = spinAgents
  BY DEF LaunchGo, At, spinVars
<1>2. /\ c \in Agents /\ pc[c] = "launching" /\ c # t /\ child[t] = c
      /\ \A u \in Threads : pc[u] \in Launching /\ child[u] = c => u = t
  BY <1>1 DEF LaunchOwned, Launching
<1> HIDE DEF c
<1>3. /\ pc'[t] = "guest" /\ pc'[c] = "guest"
      /\ \A u \in Threads \ {t, c} : pc'[u] = pc[u]
      /\ \A u \in Threads \ {t} : child'[u] = child[u]
  BY <1>1, <1>2 DEF TypeOK
<1>4. RolesInv'
  <2>1. pc'[Main] \notin {"unborn", "launching", "done", "crash"} \cup Exiting
    BY <1>2, <1>3 DEF CountInv, RolesInv, Exiting
  <2>2. \A d \in Agents : pc'[d] \notin {"join", "joined"}
    BY <1>3 DEF CountInv, RolesInv
  <2>3. ASSUME NEW d \in Agents, pc'[d] = "launching"
        PROVE  \E u \in Threads : pc'[u] \in Launching /\ child'[u] = d
    <3>1. d # c /\ d # t /\ pc[d] = "launching"
      BY <1>3, <2>3
    <3>2. PICK u \in Threads : pc[u] \in Launching /\ child[u] = d
      BY <3>1 DEF CountInv, RolesInv
    <3>3. u # t /\ u # c
      BY <1>2, <3>1, <3>2 DEF Launching
    <3> QED BY <1>3, <3>2, <3>3
  <2> QED BY <2>1, <2>2, <2>3 DEF RolesInv
<1>5. ASSUME NEW d \in Agents, d # c
      PROVE  /\ pc'[d] \in InBody \cup Exiting <=> pc[d] \in InBody \cup Exiting
             /\ pc'[d] \in InBody \cup {"exitAdd"} <=> pc[d] \in InBody \cup {"exitAdd"}
  BY <1>1, <1>3, <1>5 DEF InBody
<1>6. \A u \in Threads : pc'[u] \in Counted => u # t /\ u # c
  BY <1>3 DEF Counted
<1>7. \A u \in Threads : pc[u] \in Counted /\ child[u] # c => u # t /\ u # c
  BY <1>1, <1>2 DEF Counted
<1>8. WgCounted' = WgCounted
  <2>1. c \in WgCounted' /\ c \in WgCounted
    BY <1>1, <1>2, <1>3 DEF WgCounted, InBody
  <2>2. ASSUME NEW d \in Agents, d # c PROVE d \in WgCounted' <=> d \in WgCounted
    BY <1>3, <1>5, <1>6, <1>7, <2>2 DEF WgCounted, Counted
  <2>3. WgCounted \subseteq Agents /\ WgCounted' \subseteq Agents
    BY DEF WgCounted
  <2> QED BY <2>1, <2>2, <2>3
<1>9. GaugeCounted' = GaugeCounted
  <2>1. c \in GaugeCounted' /\ c \in GaugeCounted
    BY <1>1, <1>2, <1>3 DEF GaugeCounted, InBody
  <2>2. ASSUME NEW d \in Agents, d # c PROVE d \in GaugeCounted' <=> d \in GaugeCounted
    BY <1>3, <1>5, <1>6, <1>7, <2>2 DEF GaugeCounted, Counted
  <2>3. GaugeCounted \subseteq Agents /\ GaugeCounted' \subseteq Agents
    BY DEF GaugeCounted
  <2> QED BY <2>1, <2>2, <2>3
<1>10. JoinedIsQuiescent'
  <2>1. pc'[Main] = "joined" => pc[Main] = "joined"
    BY <1>2, <1>3
  <2> QED BY <1>2, <2>1 DEF CountInv, JoinedIsQuiescent
<1> QED BY <1>1, <1>4, <1>8, <1>9, <1>10 DEF CountInv, AgentsCounted

\* An agent leaves the gauge, and later the WaitGroup.
LEMMA CountExit ==
  ASSUME IInv, CountInv, NEW t \in Threads,
         SpinAdd(t, "exitAdd", -1, "exitStore") \/ WgDone(t)
  PROVE  CountInv'
<1> USE ThreadFacts DEF IInv
<1>1. /\ pc[t] \in Exiting /\ child' = child
      /\ \E l \in {"exitStore", "crash", "done"} : pc' = [pc EXCEPT ![t] = l]
  BY DEF SpinAdd, WgDone, At, Goto, poolVars, Exiting
<1>2. t \in Agents
  BY <1>1 DEF CountInv, RolesInv, Threads
<1>3. PICK l \in {"exitStore", "crash", "done"} : pc' = [pc EXCEPT ![t] = l]
  BY <1>1
<1>4. /\ pc'[t] = l /\ \A u \in Threads : u # t => pc'[u] = pc[u]
  BY <1>3 DEF TypeOK
<1>5. \A u \in Threads : pc[u] \in Launching => u # t /\ child[u] # t
  BY <1>1 DEF LaunchOwned, Launching, Exiting
<1>6. \A u \in Threads : pc'[u] \in Launching <=> pc[u] \in Launching
  BY <1>4, <1>5 DEF Launching
<1>7. RolesInv'
  <2>1. \A d \in Agents : pc'[d] = "launching" => pc[d] = "launching"
    BY <1>4
  <2> QED BY <1>1, <1>2, <1>4, <1>6, <2>1, ThreadPoolAssumption DEF CountInv, RolesInv
<1>8. JoinedIsQuiescent'
  BY <1>1, <1>2, <1>4, ThreadPoolAssumption DEF CountInv, JoinedIsQuiescent, Exiting
<1>9. ASSUME NEW d \in Agents, d # t
      PROVE  /\ d \in WgCounted' <=> d \in WgCounted
             /\ d \in GaugeCounted' <=> d \in GaugeCounted
  <2>1. /\ pc'[d] = pc[d]
        /\ \A u \in Threads : pc'[u] \in Counted <=> pc[u] \in Counted
        /\ \A u \in Threads : pc'[u] \in Gauged <=> pc[u] \in Gauged
    BY <1>1, <1>4, <1>9 DEF Counted, Gauged, Exiting
  <2> QED BY <1>1, <2>1 DEF WgCounted, GaugeCounted, Counted, Gauged
<1>10. /\ WgCounted \subseteq Agents /\ WgCounted' \subseteq Agents
       /\ GaugeCounted \subseteq Agents /\ GaugeCounted' \subseteq Agents
  BY DEF WgCounted, GaugeCounted
<1>11. \A u \in Threads : child[u] = t => pc'[u] \notin Launching
  BY <1>5, <1>6
<1>12. CASE SpinAdd(t, "exitAdd", -1, "exitStore")
  <2>1. /\ pc[t] = "exitAdd" /\ pc'[t] = "exitStore" /\ wg' = wg
        /\ spinAgents' = spinAgents + (-1)
    BY <1>12 DEF SpinAdd, At, Goto, poolVars, TypeOK
  <2>2. t \in WgCounted /\ t \in WgCounted' /\ t \in GaugeCounted
    BY <1>2, <2>1 DEF WgCounted, GaugeCounted, Exiting
  <2>3. t \notin GaugeCounted'
    <3>1. pc'[t] \notin InBody \cup {"exitAdd"}
      BY <2>1 DEF InBody, InWait
    <3> QED BY <1>1, <1>11, <3>1 DEF GaugeCounted, Launching
  <2>4. WgCounted' = WgCounted /\ GaugeCounted' = GaugeCounted \ {t}
    BY <1>9, <1>10, <2>2, <2>3
  <2>5. Cardinality(GaugeCounted \ {t}) = Cardinality(GaugeCounted) - 1
    BY <1>10, <2>2, CountMoves
  <2>6. Cardinality(GaugeCounted) \in Nat
    BY <1>10, CountMoves
  <2>7. AgentsCounted'
    BY <2>1, <2>4, <2>5, <2>6 DEF CountInv, AgentsCounted
  <2> QED BY <1>7, <1>8, <2>7 DEF CountInv
<1>13. CASE WgDone(t)
  <2>1. /\ pc[t] = "wgDone" /\ pc'[t] \in {"crash", "done"} /\ wg' = wg - 1
        /\ spinAgents' = spinAgents
    BY <1>13 DEF WgDone, At, Goto, spinVars, TypeOK
  <2>2. t \in WgCounted
    BY <1>2, <2>1 DEF WgCounted, Exiting
  <2>3. t \notin WgCounted'
    <3>1. pc'[t] \notin InBody \cup Exiting
      BY <2>1 DEF InBody, InWait, Exiting
    <3> QED BY <1>1, <1>11, <3>1 DEF WgCounted, Launching
  <2>4. t \notin GaugeCounted /\ t \notin GaugeCounted'
    <3>1. pc[t] \notin InBody \cup {"exitAdd"} /\ pc'[t] \notin InBody \cup {"exitAdd"}
      BY <2>1 DEF InBody, InWait
    <3>2. \A u \in Threads : child[u] = t => pc[u] \notin Launching
      BY <1>5
    <3> QED BY <1>1, <1>11, <3>1, <3>2 DEF GaugeCounted, Launching
  <2>5. WgCounted' = WgCounted \ {t} /\ GaugeCounted' = GaugeCounted
    BY <1>9, <1>10, <2>2, <2>3, <2>4
  <2>6. Cardinality(WgCounted \ {t}) = Cardinality(WgCounted) - 1
    BY <1>10, <2>2, CountMoves
  <2>7. AgentsCounted'
    BY <2>1, <2>5, <2>6 DEF CountInv, AgentsCounted
  <2> QED BY <1>7, <1>8, <2>7 DEF CountInv
<1> QED BY <1>12, <1>13

\* Every step keeps what the counters count.
LEMMA CountStep ==
  ASSUME IInv, CountInv, [Next]_vars
  PROVE  CountInv'
<1> USE ThreadFacts DEF IInv
<1>1. CASE UNCHANGED vars
  BY <1>1 DEF CountInv, RolesInv, AgentsCounted, WgCounted, GaugeCounted,
              JoinedIsQuiescent, vars
<1>2. ASSUME NEW t \in Threads,
             \/ WaitCall(t) \/ LockPark(t) \/ CompareDiffers(t) \/ CompareEqual(t)
             \/ CheckAlone(t) \/ Park(t) \/ Receive(t) \/ SelectTimeout(t) \/ Unpark(t)
             \/ StoreThenNotify(t) \/ NotifyCall(t) \/ Wake(t)
      PROVE  CountInv'
  <2>1. /\ UNCHANGED <<child, wg, spinAgents>>
        /\ pc[t] \in {"guest", "lock", "compare", "park", "notify"} \cup InWait
    BY <1>2 DEF WaitCall, LockPark, CompareDiffers, CompareEqual, CheckAlone, Park, Receive,
       SelectTimeout, Unpark, StoreThenNotify, NotifyCall, Wake, At, poolVars, spinVars, InWait
  <2>2. CASE CheckAlone(t)
    <3>1. \E l \in {"receive", "unparkTrap"} : pc' = [pc EXCEPT ![t] = l]
      BY <2>2 DEF CheckAlone, Goto
    <3> QED BY <2>1, <3>1, CountersKept DEF Labels, InBody, InWait, Counted, Gauged, Launching
  <2>3. CASE Park(t)
    <3>1. \E l \in {"select", "checkAlone"} : pc' = [pc EXCEPT ![t] = l]
      BY <2>3 DEF Park, Goto
    <3> QED BY <2>1, <3>1, CountersKept DEF Labels, InBody, InWait, Counted, Gauged, Launching
  <2>4. CASE ~CheckAlone(t) /\ ~Park(t)
    <3>1. \E l \in {"guest", "lock", "compare", "park", "unpark", "notify"} :
            pc' = [pc EXCEPT ![t] = l]
      BY <1>2, <2>4 DEF WaitCall, LockPark, CompareDiffers, CompareEqual, Receive,
         SelectTimeout, Unpark, StoreThenNotify, NotifyCall, Wake, ReturnToGuest, Goto
    <3> QED BY <2>1, <3>1, CountersKept DEF Labels, InBody, InWait, Counted, Gauged, Launching
  <2> QED BY <2>2, <2>3, <2>4
<1>3. ASSUME NEW t \in Threads, UnparkTrap(t) PROVE CountInv'
  <2>1. /\ UNCHANGED <<child, wg, spinAgents>> /\ pc[t] = "unparkTrap"
        /\ pc' = [pc EXCEPT ![t] = IF t = Main THEN "join" ELSE "exitAdd"]
    BY <1>3 DEF UnparkTrap, At, Goto, poolVars, spinVars
  <2>2. CASE t = Main
    <3>1. pc' = [pc EXCEPT ![t] = "join"]
      BY <2>1, <2>2
    <3> QED BY <2>1, <2>2, <3>1, CountersKept
            DEF Labels, InBody, InWait, Counted, Gauged, Launching
  <2>3. CASE t # Main
    <3>1. pc' = [pc EXCEPT ![t] = "exitAdd"]
      BY <2>1, <2>3
    <3> QED BY <2>1, <2>3, <3>1, CountersKept
            DEF Labels, InBody, InWait, Counted, Gauged, Launching, Exiting
  <2> QED BY <2>2, <2>3
<1>4. ASSUME NEW t \in Threads, BodyReturns(t) \/ BodyTraps(t) PROVE CountInv'
  <2>1. /\ UNCHANGED <<child, wg, spinAgents>> /\ pc[t] = "guest" /\ t # Main
        /\ pc' = [pc EXCEPT ![t] = "exitAdd"]
    BY <1>4 DEF BodyReturns, BodyTraps, At, Goto, poolVars, spinVars
  <2> QED BY <2>1, CountersKept DEF Labels, InBody, InWait, Counted, Gauged, Launching, Exiting
<1>5. ASSUME NEW t \in Threads, SpinStore(t, "launchStore", "go") PROVE CountInv'
  <2>1. /\ UNCHANGED <<child, wg, spinAgents>> /\ pc[t] = "launchStore"
        /\ pc' = [pc EXCEPT ![t] = "go"]
    BY <1>5 DEF SpinStore, At, Goto, poolVars
  <2> QED BY <2>1, CountersKept DEF Labels, InBody, InWait, Counted, Gauged, Launching, Exiting
<1>6. ASSUME NEW t \in Threads, SpinStore(t, "exitStore", "wgDone") PROVE CountInv'
  <2>1. /\ UNCHANGED <<child, wg, spinAgents>> /\ pc[t] = "exitStore"
        /\ pc' = [pc EXCEPT ![t] = "wgDone"]
    BY <1>6 DEF SpinStore, At, Goto, poolVars
  <2> QED BY <2>1, CountersKept DEF Labels, InBody, InWait, Counted, Gauged, Launching, Exiting
<1>7. ASSUME NEW t \in Threads, HostJoins(t) PROVE CountInv'
  <2>1. /\ UNCHANGED <<child, wg, spinAgents>> /\ pc[t] = "guest" /\ t = Main
        /\ pc' = [pc EXCEPT ![t] = "join"]
    BY <1>7 DEF HostJoins, At, Goto, poolVars, spinVars
  <2> QED BY <2>1, CountersKept DEF Labels, InBody, InWait, Counted, Gauged, Launching, Exiting
<1>8. ASSUME NEW t \in Threads, ThreadsWait(t) PROVE CountInv'
  <2>1. /\ UNCHANGED <<child, wg, spinAgents>> /\ pc[t] = "join" /\ wg = 0
        /\ pc' = [pc EXCEPT ![t] = "joined"]
    BY <1>8 DEF ThreadsWait, At, Goto, poolVars, spinVars
  <2>2. t = Main
    BY <2>1 DEF CountInv, RolesInv, Threads
  <2> QED BY <2>1, <2>2, CountersKept
          DEF Labels, InBody, InWait, Counted, Gauged, Launching, Exiting
<1>9. ASSUME NEW t \in Threads, Crash(t) PROVE CountInv'
  BY <1>9 DEF Crash, poolVars, spinVars, CountInv, RolesInv, AgentsCounted, WgCounted,
     GaugeCounted, JoinedIsQuiescent
<1> QED
  BY <1>1, <1>2, <1>3, <1>4, <1>5, <1>6, <1>7, <1>8, <1>9, CountLaunchTID, CountWgAdd,
     CountSpinAdd, CountGo, CountExit DEF Next, GuestStep, LockStep, RuntimeStep

\* They count nobody at the start.
LEMMA CountInit == Init => CountInv
<1> SUFFICES ASSUME Init PROVE CountInv
  OBVIOUS
<1>1. \A t \in Threads : pc[t] = IF t = Main THEN "guest" ELSE "unborn"
  BY DEF Init
<1>2. \A c \in Agents : pc[c] = "unborn"
  BY <1>1, ThreadPoolAssumption DEF Threads
<1>3. \A t \in Threads : child[t] = None
  BY DEF Init
<1>4. WgCounted = {} /\ GaugeCounted = {}
  BY <1>2, <1>3, ThreadFacts DEF WgCounted, GaugeCounted, InBody, InWait, Exiting
<1>5. RolesInv
  BY <1>1, <1>2, ThreadFacts DEF RolesInv, Exiting
<1>6. JoinedIsQuiescent
  BY <1>2 DEF JoinedIsQuiescent
<1>7. AgentsCounted
  BY <1>4, FS_EmptySet DEF Init, AgentsCounted
<1> QED BY <1>5, <1>6, <1>7 DEF CountInv

\* So they always count exactly.
LEMMA CountInvariance == Spec => []CountInv
<1>1. IInv /\ CountInv /\ [Next]_vars => CountInv'
  BY CountStep
<1> QED BY <1>1, CountInit, Invariance, PTL DEF Spec

\* The WaitGroup and the gauge count exactly the live agents, panics included.
THEOREM CountersAreExact == Spec => []AgentsCounted
<1>1. CountInv => AgentsCounted
  BY DEF CountInv
<1> QED BY <1>1, CountInvariance, PTL

\* Once ThreadsWait has returned, no agent runs or can still be launched.
THEOREM JoinLeavesNobody == Spec => []JoinedIsQuiescent
<1>1. CountInv => JoinedIsQuiescent
  BY DEF CountInv
<1> QED BY <1>1, CountInvariance, PTL
=============================================================================
