------------------------------- MODULE WasiFd -------------------------------
(***************************************************************************)
(* The descriptor table of the WASI host (WasiStubs, wasip1_native.go):    *)
(* guest fds share entries (dup, dup2, renumber), an entry owns an OS      *)
(* handle, and the handle is closed with the last fd that shares it.  The  *)
(* table is guarded by w.mu, but a file is opened before it is registered  *)
(* and a socket is dialled between two critical sections, so the calls of  *)
(* several threads of one module interleave.                               *)
(*                                                                         *)
(* An entry (Go: *wasiOpen) is garbage once no slot and no call in flight  *)
(* holds it; its identity may then be used again.  Guest buffers, rights,  *)
(* paths and errnos are left out: a call refused before it touches the     *)
(* table is a stuttering step.                                             *)
(***************************************************************************)
EXTENDS Integers, FiniteSets

CONSTANTS
  Threads,     \* guest threads calling into the host
  Ops,         \* identities of table entries
  Files,       \* OS handles of files and pipe ends
  Conns,       \* OS handles of dialled connections
  None,        \* nil
  MaxFD,       \* bound: the largest fd the run hands out
  GuestFds,    \* the fds the guest passes to the calls
  AnyTarget,   \* TRUE: dup2/renumber may name an fd not handed out yet
  SharedDial   \* TRUE: two threads may connect one socket at a time

Stdio   == 0..2
FirstFD == 4
Fds     == 0..MaxFD
Handles == Files \cup Conns

ASSUME FdAssumption ==
  /\ MaxFD \in Nat
  /\ MaxFD >= FirstFD
  /\ GuestFds \subseteq Fds
  /\ AnyTarget \in BOOLEAN
  /\ SharedDial \in BOOLEAN
  /\ None \notin Ops \cup Handles
  /\ Files \cap Conns = {}

VARIABLES
  table,    \* w.fdTable: fd -> entry, None where the map has no key
  nextFD,   \* w.nextFD
  ops,      \* the entries: kind, OS handle, refs (EXTRA slots sharing it)
  open,     \* the OS handles that are open
  task      \* each thread's call in flight: pc, fd, entry and handle held

vars == <<table, nextFD, ops, open, task>>

Entry(kind, h) == [kind |-> kind, h |-> h, refs |-> 0]
Garbage == Entry("garbage", None)
Idle    == [pc |-> "idle", fd |-> 0, op |-> None, h |-> None]

Init ==
  /\ table  = [fd \in Fds |-> None]
  /\ nextFD = FirstFD
  /\ ops    = [o \in Ops |-> Garbage]
  /\ open   = {}
  /\ task   = [t \in Threads |-> Idle]

-----------------------------------------------------------------------------
Slots(tab, o) == {fd \in Fds : tab[fd] = o}

FreeOps == {o \in Ops : ops[o] = Garbage}

FreeHandles(hs) ==
  {h \in hs : /\ h \notin open
              /\ \A o \in Ops : ops[o].h # h
              /\ \A t \in Threads : task[t].h # h}

\* The new table, entries and calls in flight, without the entries nothing
\* holds any more.
Settle(tab, entries, calls) ==
  /\ table' = tab
  /\ task'  = calls
  /\ ops'   = [o \in Ops |-> IF \/ Slots(tab, o) # {}
                                \/ \E t \in Threads : calls[t].op = o
                             THEN entries[o] ELSE Garbage]

\* Mutant: refs is decremented with the last slot too.
DroppedBelowZero(o, entries) == [entries EXCEPT ![o].refs = @ - 1]

\* closeWasiOpen: give up one slot of o, and its handle with the last slot.
Dropped(o, entries) ==
  IF entries[o].refs > 0 THEN [entries EXCEPT ![o].refs = @ - 1] ELSE entries
\* Mutant: the handle is closed with the first slot.
StillOpenNot(o, entries) == open \ {entries[o].h}

StillOpen(o, entries) ==
  IF entries[o].refs > 0 THEN open ELSE open \ {entries[o].h}

\* dupSourceLocked: the entry of fd, or a fresh alias of a bare stdio fd.
Sources(fd) ==
  IF table[fd] # None THEN {table[fd]}
  ELSE IF fd \in Stdio THEN FreeOps ELSE {}
WithAlias(fd, o) ==
  IF table[fd] = None THEN [ops EXCEPT ![o] = Entry("alias", None)] ELSE ops

\* What the guest may pass as the second fd of dup2 and renumber.
Target(to) == AnyTarget \/ to < nextFD

-----------------------------------------------------------------------------
(* pathOpen: fsys.OpenFile outside the lock, then the registration.        *)
OpenFile(t, f) ==
  /\ task[t] = Idle
  /\ open' = open \cup {f}
  /\ task' = [task EXCEPT ![t].pc = "opened", ![t].h = f]
  /\ UNCHANGED <<table, nextFD, ops>>

\* Stat failed, or a directory was required: the file is closed again.
OpenRejected(t) ==
  /\ task[t].pc = "opened"
  /\ open' = open \ {task[t].h}
  /\ task' = [task EXCEPT ![t] = Idle]
  /\ UNCHANGED <<table, nextFD, ops>>

OpenRegister(t) ==
  /\ task[t].pc = "opened"
  /\ nextFD <= MaxFD
  /\ \E o \in FreeOps :
       Settle([table EXCEPT ![nextFD] = o],
              [ops EXCEPT ![o] = Entry("file", task[t].h)],
              [task EXCEPT ![t] = Idle])
  /\ nextFD' = nextFD + 1
  /\ UNCHANGED open

\* Mutant: nextFD is advanced once for the two ends.
PipeOneFd(r, w) ==
  /\ nextFD + 1 <= MaxFD
  /\ r # w
  /\ \E o, p \in FreeOps :
       /\ o # p
       /\ Settle([table EXCEPT ![nextFD] = o, ![nextFD + 1] = p],
                 [ops EXCEPT ![o] = Entry("file", r), ![p] = Entry("file", w)],
                 task)
  /\ nextFD' = nextFD + 1
  /\ open' = open \cup {r, w}

\* Pipe: both ends are registered in one critical section.
Pipe(r, w) ==
  /\ nextFD + 1 <= MaxFD
  /\ r # w
  /\ \E o, p \in FreeOps :
       /\ o # p
       /\ Settle([table EXCEPT ![nextFD] = o, ![nextFD + 1] = p],
                 [ops EXCEPT ![o] = Entry("file", r), ![p] = Entry("file", w)],
                 task)
  /\ nextFD' = nextFD + 2
  /\ open' = open \cup {r, w}

SockSocket ==
  /\ nextFD <= MaxFD
  /\ \E o \in FreeOps : Settle([table EXCEPT ![nextFD] = o],
                               [ops EXCEPT ![o] = Entry("socket", None)],
                               task)
  /\ nextFD' = nextFD + 1
  /\ UNCHANGED open

FdClose(fd) ==
  /\ table[fd] # None
  /\ Settle([table EXCEPT ![fd] = None], Dropped(table[fd], ops), task)
  /\ open' = StillOpen(table[fd], ops)
  /\ UNCHANGED nextFD

FdDup(fd) ==
  /\ nextFD <= MaxFD
  /\ \E o \in Sources(fd) :
       Settle([table EXCEPT ![fd] = o, ![nextFD] = o],
              [WithAlias(fd, o) EXCEPT ![o].refs = @ + 1],
              task)
  /\ nextFD' = nextFD + 1
  /\ UNCHANGED open

\* Naming the same entry twice only leaves the alias behind.
FdDup2Same(from, to) ==
  /\ \E src \in Sources(from) :
       /\ from = to \/ table[to] = src
       /\ Settle([table EXCEPT ![from] = src], WithAlias(from, src), task)
  /\ UNCHANGED <<nextFD, open>>

\* Mutant: the new reference is not counted.
FdDup2Uncounted(from, to) ==
  /\ from # to
  /\ Target(to)
  /\ \E src \in Sources(from) :
       LET entries == WithAlias(from, src)
           dst     == table[to]
       IN /\ dst # src
          /\ Settle([table EXCEPT ![from] = src, ![to] = src],
                    IF dst = None THEN entries ELSE Dropped(dst, entries), task)
          /\ open' = IF dst = None THEN open ELSE StillOpen(dst, entries)
  /\ UNCHANGED nextFD

FdDup2(from, to) ==
  /\ from # to
  /\ Target(to)
  /\ \E src \in Sources(from) :
       LET entries == WithAlias(from, src)
           dst     == table[to]
           closed  == IF dst = None THEN entries ELSE Dropped(dst, entries)
       IN /\ dst # src
          /\ Settle([table EXCEPT ![from] = src, ![to] = src],
                    [closed EXCEPT ![src].refs = @ + 1], task)
          /\ open' = IF dst = None THEN open ELSE StillOpen(dst, entries)
  /\ UNCHANGED nextFD

FdRenumber(from, to) ==
  /\ from # to
  /\ Target(to)
  /\ table[from] # None
  /\ LET dst == table[to]
     IN /\ Settle([table EXCEPT ![to] = table[from], ![from] = None],
                  IF dst = None THEN ops ELSE Dropped(dst, ops), task)
        /\ open' = IF dst = None THEN open ELSE StillOpen(dst, ops)
  /\ UNCHANGED nextFD

-----------------------------------------------------------------------------
(* Sock_connect: look the socket up, test its conn without the lock, dial,  *)
(* and attach under the lock if the fd still names that entry.             *)
ConnectLookup(t, fd) ==
  /\ task[t] = Idle
  /\ table[fd] # None
  /\ ops[table[fd]].kind = "socket"
  /\ SharedDial \/ \A u \in Threads : task[u].op # table[fd]
  /\ task' = [task EXCEPT ![t].pc = "looked", ![t].fd = fd,
                          ![t].op = table[fd]]
  /\ UNCHANGED <<table, nextFD, ops, open>>

ConnectCheck(t) ==
  /\ task[t].pc = "looked"
  /\ ops[task[t].op].h = None
  /\ task' = [task EXCEPT ![t].pc = "dialing"]
  /\ UNCHANGED <<table, nextFD, ops, open>>

\* EISCONN, the dial hook's refusal, or a failed dial.
ConnectFails(t) ==
  /\ \/ task[t].pc = "looked" /\ ops[task[t].op].h # None
     \/ task[t].pc = "dialing"
  /\ Settle(table, ops, [task EXCEPT ![t] = Idle])
  /\ UNCHANGED <<nextFD, open>>

ConnectDials(t, c) ==
  /\ task[t].pc = "dialing"
  /\ open' = open \cup {c}
  /\ task' = [task EXCEPT ![t].pc = "dialed", ![t].h = c]
  /\ UNCHANGED <<table, nextFD, ops>>

\* Mutant: a connection that cannot be attached is not closed.
ConnectAttachLeaks(t) ==
  /\ task[t].pc = "dialed"
  /\ LET op == task[t].op
     IN Settle(table,
               IF table[task[t].fd] = op
               THEN [ops EXCEPT ![op].h = task[t].h] ELSE ops,
               [task EXCEPT ![t] = Idle])
  /\ UNCHANGED <<nextFD, open>>

ConnectAttach(t) ==
  /\ task[t].pc = "dialed"
  /\ LET op == task[t].op
         attached == table[task[t].fd] = op
     IN /\ Settle(table,
                  IF attached THEN [ops EXCEPT ![op].h = task[t].h] ELSE ops,
                  [task EXCEPT ![t] = Idle])
        /\ open' = IF attached THEN open ELSE open \ {task[t].h}
  /\ UNCHANGED nextFD

-----------------------------------------------------------------------------
Next ==
  \/ \E t \in Threads, f \in FreeHandles(Files) : OpenFile(t, f)
  \/ \E t \in Threads : OpenRejected(t)
  \/ \E t \in Threads : OpenRegister(t)
  \/ \E r, w \in FreeHandles(Files) : Pipe(r, w)
  \/ SockSocket
  \/ \E fd \in GuestFds : FdClose(fd)
  \/ \E fd \in GuestFds : FdDup(fd)
  \/ \E from, to \in GuestFds : FdDup2Same(from, to)
  \/ \E from, to \in GuestFds : FdDup2(from, to)
  \/ \E from, to \in GuestFds : FdRenumber(from, to)
  \/ \E t \in Threads, fd \in GuestFds : ConnectLookup(t, fd)
  \/ \E t \in Threads : ConnectCheck(t)
  \/ \E t \in Threads : ConnectFails(t)
  \/ \E t \in Threads, c \in FreeHandles(Conns) : ConnectDials(t, c)
  \/ \E t \in Threads : ConnectAttach(t)

Spec == Init /\ [][Next]_vars

-----------------------------------------------------------------------------
Kinds == {"garbage", "file", "socket", "alias"}
Pcs   == {"idle", "opened", "looked", "dialing", "dialed"}

\* The table maps fds to entries, fds come from nextFD, and an entry nobody
\* holds is garbage (closeWasiOpen, pathOpen, Sock_connect).
TypeOK ==
  /\ table \in [Fds -> Ops \cup {None}]
  /\ nextFD \in FirstFD..(MaxFD + 1)
  /\ ops \in [Ops -> [kind : Kinds, h : Handles \cup {None}, refs : Nat]]
  /\ open \subseteq Handles
  /\ task \in [Threads -> [pc : Pcs, fd : Fds, op : Ops \cup {None},
                           h : Handles \cup {None}]]
  /\ \A fd \in Fds : table[fd] # None => ops[table[fd]].kind # "garbage"

Held(o) == Slots(table, o) # {}

\* refs counts exactly the extra slots that share an entry, through every mix
\* of dup, dup2 over a live fd, renumber and close (wasiOpen.refs).
RefsCountSlots ==
  \A o \in Ops : Held(o) => ops[o].refs = Cardinality(Slots(table, o)) - 1

\* No handle is closed under an fd that still names it (Fd_dup: "the
\* underlying file closes only when the last sharing fd does").
LiveHandlesOpen ==
  \A o \in Ops : Held(o) /\ ops[o].h # None => ops[o].h \in open

\* An open handle has an owner that will close it: an entry some fd names, or
\* the call in flight that opened it (pathOpen, Sock_connect, closeWasiOpen).
Owned(h) ==
  \/ \E o \in Ops : Held(o) /\ ops[o].h = h
  \/ \E t \in Threads : task[t].h = h
HandlesOwned == \A h \in open : Owned(h)

\* A call that hands out a new fd leaves the descriptors the guest already
\* has alone: nextFD never names a live slot (pathOpen, Pipe, Sock_socket,
\* Fd_dup).
FreshFdIsFree ==
  [][nextFD' # nextFD =>
       \A fd \in Fds : table[fd] # None => table'[fd] = table[fd]]_vars

\* What the comment on Fd_dup promises of files, whatever fds the guest names:
\* a file no fd shares any more has been closed.
LastFdClosesFile == \A f \in open \cap Files : Owned(f)
=============================================================================
