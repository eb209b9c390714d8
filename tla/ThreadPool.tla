------------------------------ MODULE ThreadPool ------------------------------
(***************************************************************************)
(* The wasi-threads runtime that is linked into every generated package:   *)
(* memory.atomic.wait / memory.atomic.notify over the parking lot of       *)
(* threadPool, thread launch and exit, and ThreadsWait                     *)
(* (src/internal/codegen/helpers/helpers.go).                              *)
(*                                                                         *)
(* Every goroutine has a program counter.  One action is one step other    *)
(* goroutines can observe: an atomic operation, a channel operation, or a  *)
(* critical section of parkMu that reads nothing the mutex does not        *)
(* protect.  The compare of atomicWait reads linear memory, which parkMu   *)
(* does not protect, so that critical section is split.                    *)
(*                                                                         *)
(* A waiter makes one channel per wait and only that waiter ever receives  *)
(* from it, so a channel is named by the thread that made it.              *)
(***************************************************************************)
EXTENDS Integers, Sequences, SequencesExt, FiniteSets

CONSTANTS
  Agents,        \* the goroutines threadLaunch can start, in any order
  Main,          \* the goroutine that runs the module's exports
  None,          \* no thread
  Addrs,         \* effective addresses of aligned cells of the shared memory
  Values,        \* what a cell can hold
  NotifyCounts,  \* the counts a guest passes to memory.atomic.notify
  Procs          \* runtime.GOMAXPROCS(0)

Threads == Agents \cup {Main}

ASSUME ThreadPoolAssumption ==
  /\ Main \notin Agents
  /\ None \notin Threads
  /\ IsFiniteSet(Agents)
  /\ Addrs \subseteq Nat /\ 0 \in Addrs
  /\ Values \subseteq Nat /\ 0 \in Values
  /\ NotifyCounts \subseteq Int
  /\ Procs \in Nat \ {0}

VARIABLES
  pc,                 \* where each goroutine is
  frame,              \* the operands of the helper each goroutine is in
  mem,                \* the cells of the shared linear memory
  nextTID,            \* threadPool.nextTID
  wg,                 \* the counter of threadPool.wg
  parkMu,             \* the holder of threadPool.parkMu between two steps
  parked,             \* threadPool.parked: the FIFO of channels per address
  closed,             \* the threads whose current channel has been closed
  spinAgents,         \* the gauge of live spawned agents
  spinOversubscribed, \* the flag derived from the gauge, 0 or 1
  agents,             \* spinAgentsAdd's local: the sum its AddInt32 returned
  child,              \* threadLaunch's local: the agent being launched
  panicking,          \* the goroutines unwinding from a trap
  crashed             \* an agent's panic has taken the process down

vars == <<pc, frame, mem, nextTID, wg, parkMu, parked, closed, spinAgents,
          spinOversubscribed, agents, child, panicking, crashed>>

spinVars == <<spinAgents, spinOversubscribed, agents>>
parkVars == <<parkMu, parked, closed>>
poolVars == <<nextTID, wg, child>>
exitVars == <<panicking, crashed>>

WaitFrames == [ea : Addrs, expected : Values, timed : BOOLEAN, count : Int]

NotifyFrame(ea, count) ==
  [ea |-> ea, expected |-> 0, timed |-> FALSE, count |-> count]

EmptyFrame == NotifyFrame(0, 0)

\* The labels of a thread between its append to parked and its return.
InWait == {"checkAlone", "receive", "select", "unpark", "unparkTrap"}

\* The labels of a launched agent that has not run its deferred wg.Done.
InBody == {"guest", "lock", "compare", "park"} \cup InWait \cup
          {"notify", "wgAdd", "launchAdd", "launchStore", "go"}

Exiting == {"exitAdd", "exitStore", "wgDone"}

Labels == {"unborn", "launching", "join", "joined", "crash", "done"}
          \cup InBody \cup Exiting

-----------------------------------------------------------------------------

Init ==
  /\ pc = [t \in Threads |-> IF t = Main THEN "guest" ELSE "unborn"]
  /\ frame = [t \in Threads |-> EmptyFrame]
  /\ mem = [a \in Addrs |-> 0]
  /\ nextTID = 0
  /\ wg = 0
  /\ parkMu = None
  /\ parked = [a \in Addrs |-> <<>>]
  /\ closed = {}
  /\ spinAgents = 0
  /\ spinOversubscribed = 0
  /\ agents = [t \in Threads |-> 0]
  /\ child = [t \in Threads |-> None]
  /\ panicking = {}
  /\ crashed = FALSE

At(t, label) == ~crashed /\ pc[t] = label

Goto(t, label) == pc' = [pc EXCEPT ![t] = label]

\* A helper returns to the guest: its frame is gone.
ReturnToGuest(t) ==
  /\ Goto(t, "guest")
  /\ frame' = [frame EXCEPT ![t] = EmptyFrame]

-----------------------------------------------------------------------------
(* memory.atomic.wait *)

\* The guest calls memory.atomic.wait; a negative timeout waits forever.
WaitCall(t) ==
  /\ At(t, "guest")
  /\ \E ea \in Addrs, expected \in Values, timed \in BOOLEAN :
       frame' = [frame EXCEPT ![t] = [ea |-> ea, expected |-> expected,
                                      timed |-> timed, count |-> 0]]
  /\ Goto(t, "lock")
  /\ UNCHANGED <<mem, poolVars, parkVars, spinVars, exitVars>>

\* Mutant: the compare runs before parkMu is taken.
LockParkLate(t) ==
  /\ At(t, "lock")
  /\ Goto(t, "compare")
  /\ UNCHANGED <<frame, mem, poolVars, parkVars, spinVars, exitVars>>

\* parkMu.Lock() before the compare.
LockPark(t) ==
  /\ At(t, "lock")
  /\ parkMu = None
  /\ parkMu' = t
  /\ Goto(t, "compare")
  /\ UNCHANGED <<frame, mem, poolVars, parked, closed, spinVars, exitVars>>

\* stillEqual() fails: unlock, return 1.
CompareDiffers(t) ==
  /\ At(t, "compare")
  /\ mem[frame[t].ea] # frame[t].expected
  /\ parkMu' = None
  /\ ReturnToGuest(t)
  /\ UNCHANGED <<mem, poolVars, parked, closed, spinVars, exitVars>>

\* stillEqual() holds: go on to park, still under parkMu.
CompareEqual(t) ==
  /\ At(t, "compare")
  /\ mem[frame[t].ea] = frame[t].expected
  /\ Goto(t, "park")
  /\ UNCHANGED <<frame, mem, poolVars, parkVars, spinVars, exitVars>>

\* Make a channel, append it to the address's waiters, unlock.
Park(t) ==
  /\ At(t, "park")
  /\ parked' = [parked EXCEPT ![frame[t].ea] = Append(@, t)]
  /\ closed' = closed \ {t}
  /\ parkMu' = None
  /\ Goto(t, IF frame[t].timed THEN "select" ELSE "checkAlone")
  /\ UNCHANGED <<frame, mem, poolVars, spinVars, exitVars>>

\* Mutant: it asks the gauge whether one agent is left and forgets that the
\* gauge does not count the main thread.
CheckAloneByGauge(t) ==
  /\ At(t, "checkAlone")
  /\ Goto(t, IF spinAgents <= 1 THEN "unparkTrap" ELSE "receive")
  /\ UNCHANGED <<frame, mem, poolVars, parkVars, spinVars, exitVars>>

\* An infinite wait asks whether anybody was ever spawned.
CheckAlone(t) ==
  /\ At(t, "checkAlone")
  /\ Goto(t, IF nextTID = 0 THEN "unparkTrap" ELSE "receive")
  /\ UNCHANGED <<frame, mem, poolVars, parkVars, spinVars, exitVars>>

\* <-ch, alone or in the select: return 0.
Receive(t) ==
  /\ At(t, "receive") \/ At(t, "select")
  /\ t \in closed
  /\ closed' = closed \ {t}
  /\ ReturnToGuest(t)
  /\ UNCHANGED <<mem, poolVars, parkMu, parked, spinVars, exitVars>>

\* The timer fires and the select takes it; a closed channel may be ready too.
SelectTimeout(t) ==
  /\ At(t, "select")
  /\ Goto(t, "unpark")
  /\ UNCHANGED <<frame, mem, poolVars, parkVars, spinVars, exitVars>>

\* Mutant: a timeout leaves its channel in the queue.
UnparkedNothing(t) == parked[frame[t].ea]

\* Take one's own channel out of the waiters, where it may no longer be.
Unparked(t) == RemoveFirst(parked[frame[t].ea], t)

\* Mutant: the deferred unlock is missing.
UnparkLocked(t) ==
  /\ At(t, "unpark")
  /\ parkMu = None
  /\ parkMu' = t
  /\ parked' = [parked EXCEPT ![frame[t].ea] = Unparked(t)]
  /\ closed' = closed \ {t}
  /\ ReturnToGuest(t)
  /\ UNCHANGED <<mem, poolVars, spinVars, exitVars>>

\* unpark() after a timeout: return 2.
Unpark(t) ==
  /\ At(t, "unpark")
  /\ parkMu = None
  /\ parked' = [parked EXCEPT ![frame[t].ea] = Unparked(t)]
  /\ closed' = closed \ {t}
  /\ ReturnToGuest(t)
  /\ UNCHANGED <<mem, poolVars, parkMu, spinVars, exitVars>>

\* unpark() and trap: the panic unwinds to whoever runs the goroutine.
UnparkTrap(t) ==
  /\ At(t, "unparkTrap")
  /\ parkMu = None
  /\ parked' = [parked EXCEPT ![frame[t].ea] = Unparked(t)]
  /\ closed' = closed \ {t}
  /\ frame' = [frame EXCEPT ![t] = EmptyFrame]
  /\ panicking' = panicking \cup {t}
  /\ Goto(t, IF t = Main THEN "join" ELSE "exitAdd")
  /\ UNCHANGED <<mem, poolVars, parkMu, spinVars, crashed>>

-----------------------------------------------------------------------------
(* memory.atomic.notify and the stores that precede it *)

WakeAll == -1

\* A guest changes a cell and will notify every waiter on it: the futex
\* protocol, in the order the guest's code performs it.
StoreThenNotify(t) ==
  /\ At(t, "guest")
  /\ \E ea \in Addrs, v \in Values :
       /\ mem' = [mem EXCEPT ![ea] = v]
       /\ frame' = [frame EXCEPT ![t] = NotifyFrame(ea, WakeAll)]
  /\ Goto(t, "notify")
  /\ UNCHANGED <<poolVars, parkVars, spinVars, exitVars>>

\* A guest notifies without having stored.
NotifyCall(t) ==
  /\ At(t, "guest")
  /\ \E ea \in Addrs, count \in NotifyCounts :
       frame' = [frame EXCEPT ![t] = NotifyFrame(ea, count)]
  /\ Goto(t, "notify")
  /\ UNCHANGED <<mem, poolVars, parkVars, spinVars, exitVars>>

\* Mutant: a negative count wakes one waiter, not all of them.
ReleasedOne(waiters, count) ==
  CASE count < 0 /\ waiters # <<>>       -> 1
    [] count >= 0 /\ count < Len(waiters) -> count
    [] OTHER                              -> Len(waiters)

\* How many of a list of waiters a notify with this count releases.
Released(waiters, count) ==
  IF count >= 0 /\ count < Len(waiters) THEN count ELSE Len(waiters)

\* Mutant: the newest waiters are released.
WakeNewest(t) ==
  LET ea      == frame[t].ea
      waiters == parked[ea]
      left    == Len(waiters) - Released(waiters, frame[t].count)
  IN  /\ At(t, "notify")
      /\ parkMu = None
      /\ closed' = closed \cup {waiters[i] : i \in left + 1..Len(waiters)}
      /\ parked' = [parked EXCEPT ![ea] = SubSeq(waiters, 1, left)]
      /\ ReturnToGuest(t)
      /\ UNCHANGED <<mem, poolVars, parkMu, spinVars, exitVars>>

\* threadPool.wake: close the oldest channels and keep the rest.
Wake(t) ==
  LET ea      == frame[t].ea
      waiters == parked[ea]
      n       == Released(waiters, frame[t].count)
  IN  /\ At(t, "notify")
      /\ parkMu = None
      /\ closed' = closed \cup {waiters[i] : i \in 1..n}
      /\ parked' = [parked EXCEPT ![ea] = SubSeq(waiters, n + 1, Len(waiters))]
      /\ ReturnToGuest(t)
      /\ UNCHANGED <<mem, poolVars, parkMu, spinVars, exitVars>>

-----------------------------------------------------------------------------
(* threadLaunch and spinAgentsAdd *)

\* tid := nextTID.Add(1)
LaunchTID(t) ==
  /\ At(t, "guest")
  /\ \E c \in Agents :
       /\ pc[c] = "unborn"
       /\ child' = [child EXCEPT ![t] = c]
       /\ pc' = [pc EXCEPT ![t] = "wgAdd", ![c] = "launching"]
  /\ nextTID' = nextTID + 1
  /\ UNCHANGED <<frame, mem, wg, parkVars, spinVars, exitVars>>

\* Mutant: the count is left to the goroutine.
LaunchWgLater(t) ==
  /\ At(t, "wgAdd")
  /\ Goto(t, "launchAdd")
  /\ UNCHANGED <<frame, mem, poolVars, parkVars, spinVars, exitVars>>

\* wg.Add(1), before the goroutine exists.
LaunchWgAdd(t) ==
  /\ At(t, "wgAdd")
  /\ wg' = wg + 1
  /\ Goto(t, "launchAdd")
  /\ UNCHANGED <<frame, mem, nextTID, child, parkVars, spinVars, exitVars>>

\* atomic.AddInt32(&spinAgents, delta)
SpinAdd(t, from, delta, to) ==
  /\ At(t, from)
  /\ spinAgents' = spinAgents + delta
  /\ agents' = [agents EXCEPT ![t] = spinAgents + delta]
  /\ Goto(t, to)
  /\ UNCHANGED <<frame, mem, poolVars, parkVars, spinOversubscribed, exitVars>>

\* Mutant: the sum itself is stored in the flag.
SpinStoreSum(t, from, to) ==
  /\ At(t, from)
  /\ spinOversubscribed' = agents[t]
  /\ agents' = [agents EXCEPT ![t] = 0]
  /\ Goto(t, to)
  /\ UNCHANGED <<frame, mem, poolVars, parkVars, spinAgents, exitVars>>

\* atomic.StoreUint32(&spinOversubscribed, over), from the sum read earlier.
SpinStore(t, from, to) ==
  /\ At(t, from)
  /\ spinOversubscribed' = IF agents[t] >= Procs THEN 1 ELSE 0
  /\ agents' = [agents EXCEPT ![t] = 0]
  /\ Goto(t, to)
  /\ UNCHANGED <<frame, mem, poolVars, parkVars, spinAgents, exitVars>>

\* The go statement: the child starts in the guest's thread entry.
LaunchGo(t) ==
  /\ At(t, "go")
  /\ pc' = [pc EXCEPT ![t] = "guest", ![child[t]] = "guest"]
  /\ child' = [child EXCEPT ![t] = None]
  /\ UNCHANGED <<frame, mem, nextTID, wg, parkVars, spinVars, exitVars>>

-----------------------------------------------------------------------------
(* The end of a goroutine *)

\* The guest's thread entry returns.
BodyReturns(t) ==
  /\ At(t, "guest")
  /\ t # Main
  /\ Goto(t, "exitAdd")
  /\ UNCHANGED <<frame, mem, poolVars, parkVars, spinVars, exitVars>>

\* The guest traps in its own code: the recover handler re-panics, and the
\* remaining deferred calls still run before the process dies.
BodyTraps(t) ==
  /\ At(t, "guest")
  /\ t # Main
  /\ panicking' = panicking \cup {t}
  /\ Goto(t, "exitAdd")
  /\ UNCHANGED <<frame, mem, poolVars, parkVars, spinVars, crashed>>

\* Mutants: Done is not deferred, so a panic skips it; or it is called only
\* by the recover handler.
WgDoneOnReturn(t) ==
  /\ At(t, "wgDone")
  /\ wg' = IF t \in panicking THEN wg ELSE wg - 1
  /\ Goto(t, IF t \in panicking THEN "crash" ELSE "done")
  /\ UNCHANGED <<frame, mem, nextTID, child, parkVars, spinVars, exitVars>>

WgDoneInRecover(t) ==
  /\ At(t, "wgDone")
  /\ wg' = IF t \in panicking THEN wg - 1 ELSE wg
  /\ Goto(t, IF t \in panicking THEN "crash" ELSE "done")
  /\ UNCHANGED <<frame, mem, nextTID, child, parkVars, spinVars, exitVars>>

\* The deferred wg.Done, the last thing an agent's goroutine does.
WgDone(t) ==
  /\ At(t, "wgDone")
  /\ wg' = wg - 1
  /\ Goto(t, IF t \in panicking THEN "crash" ELSE "done")
  /\ UNCHANGED <<frame, mem, nextTID, child, parkVars, spinVars, exitVars>>

\* An unrecovered panic reaches the top of a goroutine.
Crash(t) ==
  /\ At(t, "crash")
  /\ crashed' = TRUE
  /\ UNCHANGED <<pc, frame, mem, poolVars, parkVars, spinVars, panicking>>

\* The export returned: the host calls ThreadsWait.
HostJoins(t) ==
  /\ At(t, "guest")
  /\ t = Main
  /\ Goto(t, "join")
  /\ UNCHANGED <<frame, mem, poolVars, parkVars, spinVars, exitVars>>

\* ThreadsWait: wg.Wait() returns.
ThreadsWait(t) ==
  /\ At(t, "join")
  /\ wg = 0
  /\ Goto(t, "joined")
  /\ UNCHANGED <<frame, mem, poolVars, parkVars, spinVars, exitVars>>

-----------------------------------------------------------------------------

\* What the guest decides to do next.
GuestStep(t) ==
  \/ WaitCall(t) \/ StoreThenNotify(t) \/ NotifyCall(t) \/ LaunchTID(t)
  \/ BodyReturns(t) \/ BodyTraps(t) \/ HostJoins(t)

\* Waiting for parkMu.
LockStep(t) == LockPark(t) \/ Unpark(t) \/ UnparkTrap(t) \/ Wake(t)

\* Every other step of the runtime.
RuntimeStep(t) ==
  \/ CompareDiffers(t) \/ CompareEqual(t) \/ Park(t) \/ CheckAlone(t)
  \/ Receive(t)
  \/ LaunchWgAdd(t)
  \/ SpinAdd(t, "launchAdd", 1, "launchStore")
  \/ SpinStore(t, "launchStore", "go")
  \/ LaunchGo(t)
  \/ SpinAdd(t, "exitAdd", -1, "exitStore")
  \/ SpinStore(t, "exitStore", "wgDone")
  \/ WgDone(t) \/ Crash(t) \/ ThreadsWait(t)

Next ==
  \E t \in Threads :
    GuestStep(t) \/ LockStep(t) \/ RuntimeStep(t) \/ SelectTimeout(t)

\* The Go scheduler runs every runnable goroutine, sync.Mutex hands the lock
\* to a starving waiter, and a timer fires.  Nothing makes the guest act.
Fairness ==
  \A t \in Threads : /\ WF_vars(RuntimeStep(t))
                     /\ SF_vars(LockStep(t))
                     /\ WF_vars(SelectTimeout(t))

Spec == Init /\ [][Next]_vars

FairSpec == Spec /\ Fairness

-----------------------------------------------------------------------------
(* Properties *)

\* Every variable has its type.
TypeOK ==
  /\ pc \in [Threads -> Labels]
  /\ frame \in [Threads -> WaitFrames]
  /\ mem \in [Addrs -> Values]
  /\ nextTID \in Nat
  /\ wg \in Int
  /\ parkMu \in Threads \cup {None}
  /\ parked \in [Addrs -> Seq(Threads)]
  /\ closed \subseteq Threads
  /\ spinAgents \in Int
  /\ spinOversubscribed \in {0, 1}
  /\ agents \in [Threads -> Int]
  /\ child \in [Threads -> Agents \cup {None}]
  /\ panicking \subseteq Threads
  /\ crashed \in BOOLEAN

\* The queue of an address holds exactly the threads that wait there and have
\* not been woken, each of them once.  A stale entry would make wake close a
\* channel nobody receives from, or close one twice (a run-time panic), and
\* spend a count of notify on it; a missing one could never be woken.
ParkedOnce ==
  \A a \in Addrs : \A i, j \in 1..Len(parked[a]) :
     parked[a][i] = parked[a][j] => i = j

ParkedAreWaiting ==
  \A a \in Addrs : \A i \in 1..Len(parked[a]) :
     LET t == parked[a][i]
     IN  pc[t] \in InWait /\ frame[t].ea = a /\ t \notin closed

WaitingAreParked ==
  \A t \in Threads :
     pc[t] \in InWait /\ t \notin closed =>
       \E i \in 1..Len(parked[frame[t].ea]) : parked[frame[t].ea][i] = t

ParkedExactly == ParkedOnce /\ ParkedAreWaiting /\ WaitingAreParked

\* No wakeup is lost between the compare and the park: whenever a thread waits
\* unwoken on a cell that no longer holds the value it compared with, the
\* thread that changed the cell has still to notify (the comment on
\* atomicWait32At: such a notify "cannot be missed").
NoLostWakeup ==
  \A t \in Threads :
     /\ pc[t] = "park" \/ (pc[t] \in InWait /\ t \notin closed)
     /\ mem[frame[t].ea] # frame[t].expected
     => \E u \in Threads : /\ pc[u] = "notify"
                           /\ frame[u].ea = frame[t].ea
                           /\ frame[u].count = WakeAll

\* The agents between threadLaunch's wg.Add and their wg.Done.
WgCounted ==
  {c \in Agents : \/ pc[c] \in InBody \cup Exiting
                  \/ \E t \in Threads :
                        /\ child[t] = c
                        /\ pc[t] \in {"launchAdd", "launchStore", "go"}}

\* When ThreadsWait has returned no agent is left, or can still come, that
\* runs guest code: the host may tear the instance down.
JoinedIsQuiescent ==
  pc[Main] = "joined" => \A c \in Agents : pc[c] \in {"unborn", "done", "crash"}

\* Unwoken in a wait without a timeout.
WaitsForever(u) == pc[u] \in {"checkAlone", "receive"} /\ u \notin closed

\* Whoever is in the guest or about to enter it, and comes back from what it
\* waits for on its own.
AbleToNotify ==
  {u \in Threads : /\ pc[u] = "launching" \/ pc[u] \in InBody \ {"unparkTrap"}
                   /\ ~WaitsForever(u)}

\* An infinite wait traps only where it could never have been woken, "with no
\* other agent able to notify" (the comment on atomicWait32At): not under the
\* main thread, a launched agent or one being launched that may still get to
\* a notify.  The question is asked without parkMu, a step before the trap.
TrapsOnlyInDeadlock ==
  \A t \in Threads : pc[t] = "unparkTrap" => AbleToNotify = {}

\* The agents between the two adds of spinAgentsAdd.
GaugeCounted ==
  {c \in Agents : \/ pc[c] \in InBody \cup {"exitAdd"}
                  \/ \E t \in Threads :
                        /\ child[t] = c
                        /\ pc[t] \in {"launchStore", "go"}}

\* Both counters are exact at every step, panics included: the WaitGroup of
\* ThreadsWait and the gauge that tells the spin loops how many agents run.
AgentsCounted ==
  /\ wg = Cardinality(WgCounted)
  /\ spinAgents = Cardinality(GaugeCounted)

\* A notify never wakes a waiter and leaves one asleep that queued before it on
\* the same address: wake releases the oldest channels.
NoOvertaking ==
  [][\A a \in Addrs : \A j \in 1..Len(parked[a]) :
       parked[a][j] \in closed' =>
         \A i \in 1..j : parked[a][i] \in closed']_vars

\* A wait with a timeout returns whatever the other threads do.
TimedWaitReturns ==
  \A t \in Threads : pc[t] = "select" ~> (pc[t] = "guest" \/ crashed)

\* A thread blocked without a timeout on a cell that has changed is woken.
ChangedCellWakes ==
  \A t \in Threads :
     (pc[t] = "receive" /\ mem[frame[t].ea] # frame[t].expected)
       ~> (pc[t] = "guest" \/ crashed)

\* ThreadsWait returns once every agent is past its body.
ThreadsWaitReturns ==
  (/\ pc[Main] = "join"
   /\ \A c \in Agents : pc[c] \in {"unborn", "done"} \cup Exiting)
     ~> (pc[Main] = "joined" \/ crashed)
=============================================================================
