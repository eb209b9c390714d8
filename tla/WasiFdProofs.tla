----------------------------- MODULE WasiFdProofs -----------------------------
(***************************************************************************)
(* The descriptor table keeps its books, for any number of threads, fds,   *)
(* entries and handles: refs counts the slots, a live fd has an open       *)
(* handle, and an open handle has an owner.                                *)
(*                                                                         *)
(* Every handler is a sequence of small transformations of the table, the  *)
(* entries, the open handles and the calls in flight (a slot is dropped,   *)
(* an entry is shared, a fresh entry is registered, garbage is collected). *)
(* The invariant is therefore stated of four such values, Books, and each  *)
(* transformation has a lemma; a step composes them.                       *)
(***************************************************************************)
EXTENDS WasiFd, FiniteSetTheorems, TLAPS

\* The guest names only fds it was given, and no two of its threads connect one
\* socket at a time.
Orderly == ~AnyTarget /\ ~SharedDial

Calls == [pc : Pcs, fd : Fds, op : Ops \cup {None}, h : Handles \cup {None}]
Entries == [kind : Kinds, h : Handles \cup {None}, refs : Nat]

Typed(tab, n, ents, hs, calls) ==
  /\ tab \in [Fds -> Ops \cup {None}]
  /\ n \in FirstFD..(MaxFD + 1)
  /\ ents \in [Ops -> Entries]
  /\ hs \subseteq Handles
  /\ calls \in [Threads -> Calls]

\* What a slot or a call holds is not garbage, and garbage holds nothing.
Alive(tab, ents, calls) ==
  /\ \A fd \in Fds : tab[fd] # None => ents[tab[fd]].kind # "garbage"
  /\ \A t \in Threads : calls[t].op # None => ents[calls[t].op].kind = "socket"
  /\ \A o \in Ops : ents[o].kind = "garbage" => ents[o] = Garbage

\* What a call holds at each of its points.
Shaped(calls) ==
  \A t \in Threads :
    /\ calls[t].pc = "idle" => calls[t].h = None /\ calls[t].op = None
    /\ calls[t].pc = "opened" => calls[t].h # None /\ calls[t].op = None
    /\ calls[t].pc \in {"looked", "dialing"} =>
         calls[t].op # None /\ calls[t].h = None
    /\ calls[t].pc = "dialed" => calls[t].op # None /\ calls[t].h # None

Fresh(tab, n) == ~AnyTarget => \A fd \in Fds : fd >= n => tab[fd] = None

\* refs counts the extra slots.  A call that reuses an fd the guest took with
\* dup2 loses a slot without counting, so that refs may then be too high.
Counted(tab, ents) ==
  \A o \in Ops : Slots(tab, o) # {} =>
    /\ ents[o].refs >= Cardinality(Slots(tab, o)) - 1
    /\ ~AnyTarget => ents[o].refs = Cardinality(Slots(tab, o)) - 1

\* A handle has at most one holder.
Distinct(ents, calls) ==
  /\ \A o, p \in Ops : ents[o].h # None /\ ents[o].h = ents[p].h => o = p
  /\ \A t \in Threads, o \in Ops : calls[t].h # None => calls[t].h # ents[o].h
  /\ \A t, u \in Threads :
       calls[t].h # None /\ calls[t].h = calls[u].h => t = u

Backed(tab, ents, hs, calls) ==
  /\ \A fd \in Fds : tab[fd] # None /\ ents[tab[fd]].h # None =>
       ents[tab[fd]].h \in hs
  /\ \A t \in Threads : calls[t].h # None => calls[t].h \in hs

\* Where the calls are orderly, every open handle has an owner.
Owners(tab, ents, hs, calls) ==
  /\ \A h \in hs : \/ \E fd \in Fds : tab[fd] # None /\ ents[tab[fd]].h = h
                   \/ \E t \in Threads : calls[t].h = h
  /\ \A t, u \in Threads :
       calls[t].op # None /\ calls[t].op = calls[u].op => t = u
  /\ \A t \in Threads :
       calls[t].pc \in {"dialing", "dialed"} => ents[calls[t].op].h = None

Books(tab, n, ents, hs, calls) ==
  /\ Typed(tab, n, ents, hs, calls)
  /\ Alive(tab, ents, calls)
  /\ Shaped(calls)
  /\ Fresh(tab, n)
  /\ Counted(tab, ents)
  /\ Distinct(ents, calls)
  /\ Backed(tab, ents, hs, calls)
  /\ Orderly => Owners(tab, ents, hs, calls)

IInv == Books(table, nextFD, ops, open, task)

-----------------------------------------------------------------------------
(* The slots of an entry                                                    *)

LEMMA SlotsFinite ==
  ASSUME NEW tab, NEW o
  PROVE  /\ IsFiniteSet(Slots(tab, o))
         /\ Cardinality(Slots(tab, o)) \in Nat
         /\ Cardinality(Slots(tab, o)) = 0 <=> Slots(tab, o) = {}
<1>1. IsFiniteSet(Fds)
  BY FdAssumption, FS_Interval DEF Fds
<1>2. Slots(tab, o) \in SUBSET Fds
  BY DEF Slots
<1>3. IsFiniteSet(Slots(tab, o))
  BY <1>1, <1>2, FS_Subset
<1> QED BY <1>3, FS_CardinalityType, FS_EmptySet

LEMMA SlotGained ==
  ASSUME NEW tab \in [Fds -> Ops \cup {None}], NEW fd \in Fds, NEW o \in Ops,
         tab[fd] # o
  PROVE  Cardinality(Slots([tab EXCEPT ![fd] = o], o))
           = Cardinality(Slots(tab, o)) + 1
<1>1. Slots([tab EXCEPT ![fd] = o], o) = Slots(tab, o) \cup {fd}
  BY DEF Slots
<1>2. fd \notin Slots(tab, o)
  BY DEF Slots
<1>3. IsFiniteSet(Slots(tab, o))
  BY SlotsFinite
<1>4. Cardinality(Slots(tab, o) \cup {fd}) = Cardinality(Slots(tab, o)) + 1
  BY <1>2, <1>3, FS_AddElement
<1> QED BY <1>1, <1>4

LEMMA SlotLost ==
  ASSUME NEW tab \in [Fds -> Ops \cup {None}], NEW fd \in Fds, NEW o \in Ops,
         NEW new \in Ops \cup {None}, tab[fd] = o, new # o
  PROVE  Cardinality(Slots([tab EXCEPT ![fd] = new], o))
           = Cardinality(Slots(tab, o)) - 1
<1>1. Slots([tab EXCEPT ![fd] = new], o) = Slots(tab, o) \ {fd}
  BY DEF Slots
<1>2. fd \in Slots(tab, o)
  BY DEF Slots
<1>3. IsFiniteSet(Slots(tab, o))
  BY SlotsFinite
<1>4. Cardinality(Slots(tab, o) \ {fd}) = Cardinality(Slots(tab, o)) - 1
  BY <1>2, <1>3, FS_RemoveElement
<1> QED BY <1>1, <1>4

LEMMA SlotUntouched ==
  ASSUME NEW tab \in [Fds -> Ops \cup {None}], NEW fd \in Fds, NEW o \in Ops,
         NEW new \in Ops \cup {None}, tab[fd] # o, new # o
  PROVE  Slots([tab EXCEPT ![fd] = new], o) = Slots(tab, o)
BY DEF Slots

\* A slot that is overwritten takes at most one slot from another entry, and
\* gives at most one to its new one.
LEMMA SlotOverwritten ==
  ASSUME NEW tab \in [Fds -> Ops \cup {None}], NEW fd \in Fds, NEW new \in Ops
  PROVE  /\ Cardinality(Slots([tab EXCEPT ![fd] = new], new))
              <= Cardinality(Slots(tab, new)) + 1
         /\ \A o \in Ops \ {new} :
              /\ Slots([tab EXCEPT ![fd] = new], o) \subseteq Slots(tab, o)
              /\ Cardinality(Slots([tab EXCEPT ![fd] = new], o))
                   <= Cardinality(Slots(tab, o))
<1>1. Cardinality(Slots([tab EXCEPT ![fd] = new], new))
        <= Cardinality(Slots(tab, new)) + 1
  <2> DEFINE T == [tab EXCEPT ![fd] = new]
             k == Cardinality(Slots(tab, new))
  <2>1. k \in Nat
    BY SlotsFinite
  <2>2. CASE tab[fd] = new
    <3>1. T = tab
      BY <2>2
    <3>2. Cardinality(Slots(T, new)) = k
      BY <3>1
    <3> QED BY <2>1, <3>2
  <2>3. CASE tab[fd] # new
    <3>1. Cardinality(Slots(T, new)) = k + 1
      BY <2>3, SlotGained
    <3> QED BY <2>1, <3>1
  <2> QED BY <2>2, <2>3
<1>2. ASSUME NEW o \in Ops \ {new}
      PROVE  /\ Slots([tab EXCEPT ![fd] = new], o) \subseteq Slots(tab, o)
             /\ Cardinality(Slots([tab EXCEPT ![fd] = new], o))
                  <= Cardinality(Slots(tab, o))
  <2> DEFINE T == [tab EXCEPT ![fd] = new]
  <2>1. \A g \in Fds : g # fd => T[g] = tab[g]
    OBVIOUS
  <2>2. T[fd] = new
    OBVIOUS
  <2> HIDE DEF T
  <2>3. Slots(T, o) \subseteq Slots(tab, o)
    BY <2>1, <2>2 DEF Slots
  <2>4. IsFiniteSet(Slots(tab, o))
    BY SlotsFinite
  <2>5. Cardinality(Slots(T, o)) <= Cardinality(Slots(tab, o))
    BY <2>3, <2>4, FS_Subset
  <2> QED BY <2>3, <2>5 DEF T
<1> QED BY <1>1, <1>2

-----------------------------------------------------------------------------
(* The transformations                                                      *)

Collect(tab, ents, calls) ==
  [o \in Ops |-> IF \/ Slots(tab, o) # {}
                    \/ \E t \in Threads : calls[t].op = o
                 THEN ents[o] ELSE Garbage]

\* Collecting what nothing holds leaves the books in order.
LEMMA Collected ==
  ASSUME NEW tab, NEW n, NEW ents, NEW hs, NEW calls,
         Books(tab, n, ents, hs, calls)
  PROVE  Books(tab, n, Collect(tab, ents, calls), hs, calls)
<1> DEFINE E == Collect(tab, ents, calls)
<1>0. /\ Typed(tab, n, ents, hs, calls) /\ Alive(tab, ents, calls)
      /\ Shaped(calls) /\ Fresh(tab, n) /\ Counted(tab, ents)
      /\ Distinct(ents, calls) /\ Backed(tab, ents, hs, calls)
      /\ Orderly => Owners(tab, ents, hs, calls)
  BY DEF Books
<1>1. ASSUME NEW o \in Ops
      PROVE  /\ E[o] = ents[o] \/ E[o] = Garbage
             /\ (Slots(tab, o) # {} \/ \E t \in Threads : calls[t].op = o)
                  => E[o] = ents[o]
  BY DEF Collect
<1>2. ASSUME NEW fd \in Fds, tab[fd] # None
      PROVE  tab[fd] \in Ops /\ E[tab[fd]] = ents[tab[fd]]
  <2>1. tab[fd] \in Ops /\ fd \in Slots(tab, tab[fd])
    BY <1>0, <1>2 DEF Typed, Slots
  <2> QED BY <2>1, <1>1
<1>3. ASSUME NEW t \in Threads, calls[t].op # None
      PROVE  calls[t].op \in Ops /\ E[calls[t].op] = ents[calls[t].op]
  BY <1>0, <1>1, <1>3 DEF Typed, Calls
<1>4. Garbage \in Entries /\ Garbage.h = None /\ Garbage.kind = "garbage"
  BY DEF Garbage, Entry, Entries, Kinds
<1>5. Typed(tab, n, E, hs, calls)
  <2>1. E \in [Ops -> Entries]
    BY <1>0, <1>4 DEF Typed, Collect
  <2> QED BY <1>0, <2>1 DEF Typed
<1> HIDE DEF E
<1>6. Alive(tab, E, calls)
  BY <1>0, <1>1, <1>2, <1>3 DEF Alive
<1>7. Counted(tab, E)
  BY <1>0, <1>1 DEF Counted
<1>8. Distinct(E, calls)
  BY <1>0, <1>1, <1>4 DEF Distinct
<1>9. Backed(tab, E, hs, calls)
  BY <1>0, <1>2 DEF Backed
<1>10. ASSUME Orderly PROVE Owners(tab, E, hs, calls)
  <2>1. \A t \in Threads :
          calls[t].pc \in {"dialing", "dialed"} => calls[t].op # None
    BY <1>0 DEF Shaped
  <2> QED BY <1>0, <1>2, <1>3, <1>10, <2>1 DEF Owners
<1> QED BY <1>0, <1>5, <1>6, <1>7, <1>8, <1>9, <1>10 DEF Books, E

\* A call changes where it is, holding nothing new.
LEMMA CallMoved ==
  ASSUME NEW tab, NEW n, NEW ents, NEW hs, NEW calls,
         Books(tab, n, ents, hs, calls),
         NEW t \in Threads, NEW call \in Calls,
         Shaped([calls EXCEPT ![t] = call]),
         call.op # None => ents[call.op].kind = "socket",
         call.h = calls[t].h,
         Orderly /\ call.op # None =>
           \A u \in Threads : u # t => calls[u].op # call.op,
         Orderly /\ call.pc \in {"dialing", "dialed"} =>
           ents[call.op].h = None
  PROVE  Books(tab, n, ents, hs, [calls EXCEPT ![t] = call])
<1> DEFINE C == [calls EXCEPT ![t] = call]
<1>0. /\ Typed(tab, n, ents, hs, calls) /\ Alive(tab, ents, calls)
      /\ Fresh(tab, n) /\ Counted(tab, ents)
      /\ Distinct(ents, calls) /\ Backed(tab, ents, hs, calls)
      /\ Orderly => Owners(tab, ents, hs, calls)
  BY DEF Books
<1>1. Typed(tab, n, ents, hs, C)
  BY <1>0 DEF Typed
<1>2. /\ C[t] = call
      /\ \A u \in Threads : C[u].h = calls[u].h
      /\ \A u \in Threads : u # t => C[u] = calls[u]
  BY <1>0 DEF Typed
<1> HIDE DEF C
<1>3. Alive(tab, ents, C)
  BY <1>0, <1>2 DEF Alive
<1>4. Distinct(ents, C)
  BY <1>0, <1>2 DEF Distinct
<1>5. Backed(tab, ents, hs, C)
  BY <1>0, <1>2 DEF Backed
<1>6. ASSUME Orderly PROVE Owners(tab, ents, hs, C)
  BY <1>0, <1>2, <1>6 DEF Owners
<1> QED BY <1>0, <1>1, <1>3, <1>4, <1>5, <1>6 DEF Books, C

\* A call opens a handle nothing names.
LEMMA HandleOpened ==
  ASSUME NEW tab, NEW n, NEW ents, NEW hs, NEW calls,
         Books(tab, n, ents, hs, calls),
         NEW t \in Threads, NEW h \in Handles, calls[t].h = None,
         \A o \in Ops : ents[o].h # h,
         \A u \in Threads : calls[u].h # h,
         NEW call \in Calls,
         Shaped([calls EXCEPT ![t] = call]),
         call.h = h, call.op = calls[t].op,
         Orderly /\ call.pc \in {"dialing", "dialed"} =>
           ents[call.op].h = None
  PROVE  Books(tab, n, ents, hs \cup {h}, [calls EXCEPT ![t] = call])
<1> DEFINE C == [calls EXCEPT ![t] = call]
           H == hs \cup {h}
<1>0. /\ Typed(tab, n, ents, hs, calls) /\ Alive(tab, ents, calls)
      /\ Fresh(tab, n) /\ Counted(tab, ents)
      /\ Distinct(ents, calls) /\ Backed(tab, ents, hs, calls)
      /\ Orderly => Owners(tab, ents, hs, calls)
  BY DEF Books
<1>1. Typed(tab, n, ents, H, C)
  BY <1>0 DEF Typed
<1>2. /\ C[t] = call
      /\ \A u \in Threads : C[u].op = calls[u].op
      /\ \A u \in Threads : u # t => C[u] = calls[u]
  BY <1>0 DEF Typed
<1>a. h # None
  BY FdAssumption
<1> HIDE DEF C
<1>3. Alive(tab, ents, C)
  BY <1>0, <1>2 DEF Alive
<1>4. Distinct(ents, C)
  <2>1. \A u \in Threads, o \in Ops : C[u].h # None => C[u].h # ents[o].h
    BY <1>0, <1>2 DEF Distinct
  <2>2. \A u, w \in Threads : C[u].h # None /\ C[u].h = C[w].h => u = w
    BY <1>0, <1>2 DEF Distinct
  <2> QED BY <1>0, <2>1, <2>2 DEF Distinct
<1>5. Backed(tab, ents, H, C)
  BY <1>0, <1>2 DEF Backed
<1>6. ASSUME Orderly PROVE Owners(tab, ents, H, C)
  <2>1. \A g \in H : \/ \E fd \in Fds : tab[fd] # None /\ ents[tab[fd]].h = g
                    \/ \E u \in Threads : C[u].h = g
    <3> SUFFICES ASSUME NEW g \in H
                 PROVE  \/ \E fd \in Fds : tab[fd] # None /\ ents[tab[fd]].h = g
                        \/ \E u \in Threads : C[u].h = g
      OBVIOUS
    <3>1. CASE g = h
      BY <1>2, <3>1
    <3>2. CASE g # h
      <4>1. g \in hs
        BY <3>2
      <4>2. CASE \E fd \in Fds : tab[fd] # None /\ ents[tab[fd]].h = g
        BY <4>2
      <4>3. CASE \E u \in Threads : calls[u].h = g
        <5>1. PICK u \in Threads : calls[u].h = g
          BY <4>3
        <5>2. g # None
          BY <1>0, <4>1, FdAssumption DEF Typed
        <5>3. u # t
          BY <5>1, <5>2
        <5> QED BY <1>2, <5>1, <5>3
      <4> QED BY <1>0, <1>6, <4>1, <4>2, <4>3 DEF Owners
    <3> QED BY <3>1, <3>2
  <2>2. \A u, w \in Threads : C[u].op # None /\ C[u].op = C[w].op => u = w
    BY <1>0, <1>2, <1>6 DEF Owners
  <2>3. \A u \in Threads :
          C[u].pc \in {"dialing", "dialed"} => ents[C[u].op].h = None
    BY <1>0, <1>2, <1>6 DEF Owners
  <2> QED BY <2>1, <2>2, <2>3 DEF Owners
<1> QED BY <1>0, <1>1, <1>3, <1>4, <1>5, <1>6 DEF Books, C

\* A call closes the handle it holds and ends.
LEMMA HandleClosed ==
  ASSUME NEW tab, NEW n, NEW ents, NEW hs, NEW calls,
         Books(tab, n, ents, hs, calls),
         NEW t \in Threads, calls[t].h # None
  PROVE  Books(tab, n, ents, hs \ {calls[t].h}, [calls EXCEPT ![t] = Idle])
<1> DEFINE C == [calls EXCEPT ![t] = Idle]
           H == hs \ {calls[t].h}
<1>0. /\ Typed(tab, n, ents, hs, calls) /\ Alive(tab, ents, calls)
      /\ Shaped(calls) /\ Fresh(tab, n) /\ Counted(tab, ents)
      /\ Distinct(ents, calls) /\ Backed(tab, ents, hs, calls)
      /\ Orderly => Owners(tab, ents, hs, calls)
  BY DEF Books
<1>1. /\ Idle \in Calls /\ Idle.h = None /\ Idle.op = None /\ Idle.pc = "idle"
      /\ Idle \in [pc : Pcs, fd : Fds, op : {None}, h : {None}]
  BY FdAssumption DEF Idle, Calls, Pcs, Fds, FirstFD
<1>2. Typed(tab, n, ents, H, C)
  BY <1>0, <1>1 DEF Typed
<1>3. C[t] = Idle /\ \A u \in Threads : u # t => C[u] = calls[u]
  BY <1>0 DEF Typed
<1> HIDE DEF C
<1>4. Alive(tab, ents, C)
  BY <1>0, <1>1, <1>3 DEF Alive
<1>5. Shaped(C)
  BY <1>0, <1>1, <1>3 DEF Shaped
<1>6. Distinct(ents, C)
  BY <1>0, <1>1, <1>3 DEF Distinct
<1>7. Backed(tab, ents, H, C)
  <2>1. \A fd \in Fds : tab[fd] # None /\ ents[tab[fd]].h # None =>
          ents[tab[fd]].h \in H
    <3> SUFFICES ASSUME NEW fd \in Fds, tab[fd] # None, ents[tab[fd]].h # None
                 PROVE  ents[tab[fd]].h \in H
      OBVIOUS
    <3>1. tab[fd] \in Ops /\ ents[tab[fd]].h \in hs
      BY <1>0 DEF Typed, Backed
    <3>2. calls[t].h # ents[tab[fd]].h
      BY <1>0, <3>1 DEF Distinct
    <3> QED BY <3>1, <3>2
  <2>2. \A u \in Threads : C[u].h # None => C[u].h \in H
    BY <1>0, <1>1, <1>3 DEF Backed, Distinct
  <2> QED BY <2>1, <2>2 DEF Backed
<1>8. ASSUME Orderly PROVE Owners(tab, ents, H, C)
  <2>1. \A g \in H : \/ \E fd \in Fds : tab[fd] # None /\ ents[tab[fd]].h = g
                    \/ \E u \in Threads : C[u].h = g
    <3> SUFFICES ASSUME NEW g \in H,
                        \A fd \in Fds : ~(tab[fd] # None /\ ents[tab[fd]].h = g)
                 PROVE  \E u \in Threads : C[u].h = g
      OBVIOUS
    <3>1. PICK u \in Threads : calls[u].h = g
      BY <1>0, <1>8 DEF Owners
    <3> QED BY <1>3, <3>1
  <2>2. \A u, w \in Threads : C[u].op # None /\ C[u].op = C[w].op => u = w
    BY <1>0, <1>1, <1>3, <1>8 DEF Owners
  <2>3. \A u \in Threads :
          C[u].pc \in {"dialing", "dialed"} => ents[C[u].op].h = None
    BY <1>0, <1>1, <1>3, <1>8 DEF Owners
  <2> QED BY <2>1, <2>2, <2>3 DEF Owners
<1> QED BY <1>0, <1>2, <1>4, <1>5, <1>6, <1>7, <1>8 DEF Books, C

\* A larger nextFD leaves more slots free.
LEMMA FdHandedOut ==
  ASSUME NEW tab, NEW n, NEW ents, NEW hs, NEW calls,
         Books(tab, n, ents, hs, calls),
         NEW m \in FirstFD..(MaxFD + 1), n <= m
  PROVE  Books(tab, m, ents, hs, calls)
<1>1. Typed(tab, m, ents, hs, calls)
  BY DEF Books, Typed
<1>2. Fresh(tab, m)
  BY FdAssumption DEF Books, Fresh, Typed, Fds, FirstFD
<1> QED BY <1>1, <1>2 DEF Books

\* A fresh entry gets a slot, a free one if the guest names only its own fds.
LEMMA Registered ==
  ASSUME NEW tab, NEW n, NEW ents, NEW hs, NEW calls,
         Books(tab, n, ents, hs, calls),
         NEW fd \in Fds, ~AnyTarget => tab[fd] = None /\ fd < n,
         NEW o \in Ops, ents[o] = Garbage,
         NEW kind \in Kinds \ {"garbage"}
  PROVE  /\ Books([tab EXCEPT ![fd] = o], n,
                  [ents EXCEPT ![o] = Entry(kind, None)], hs, calls)
         /\ Slots(tab, o) = {}
<1> DEFINE T == [tab EXCEPT ![fd] = o]
           E == [ents EXCEPT ![o] = Entry(kind, None)]
<1>0. /\ Typed(tab, n, ents, hs, calls) /\ Alive(tab, ents, calls)
      /\ Shaped(calls) /\ Fresh(tab, n) /\ Counted(tab, ents)
      /\ Distinct(ents, calls) /\ Backed(tab, ents, hs, calls)
      /\ Orderly => Owners(tab, ents, hs, calls)
  BY DEF Books
<1>1. /\ Garbage.h = None /\ Garbage.kind = "garbage"
      /\ Entry(kind, None) \in Entries /\ Entry(kind, None).h = None
      /\ Entry(kind, None).refs = 0 /\ Entry(kind, None).kind = kind
  BY DEF Garbage, Entry, Entries
<1>2. o # None
  BY FdAssumption
<1>3. Typed(T, n, E, hs, calls)
  BY <1>0, <1>1 DEF Typed
<1>4. /\ T[fd] = o /\ E[o] = Entry(kind, None)
      /\ \A g \in Fds : g # fd => T[g] = tab[g]
      /\ \A p \in Ops : p # o => E[p] = ents[p]
      /\ \A p \in Ops : E[p].h = ents[p].h
  BY <1>0, <1>1 DEF Typed
<1>5. Slots(tab, o) = {}
  <2>1. \A g \in Fds : tab[g] # o
    BY <1>0, <1>1, <1>2 DEF Alive
  <2> QED BY <2>1 DEF Slots
<1>6. \A t \in Threads : calls[t].op # o
  BY <1>0, <1>1, <1>2 DEF Alive
<1>7. Counted(T, E)
  <2> SUFFICES ASSUME NEW p \in Ops, Slots(T, p) # {}
               PROVE  /\ E[p].refs >= Cardinality(Slots(T, p)) - 1
                      /\ ~AnyTarget => E[p].refs = Cardinality(Slots(T, p)) - 1
    BY DEF Counted
  <2>0. tab \in [Fds -> Ops \cup {None}] /\ E[p].refs \in Nat
    BY <1>0, <1>3 DEF Typed, Entries
  <2>1. CASE p = o
    <3>1. Cardinality(Slots(T, o)) = Cardinality(Slots(tab, o)) + 1
      <4>1. tab[fd] # o
        BY <1>5 DEF Slots
      <4> QED BY <2>0, <4>1, SlotGained
    <3>2. Cardinality(Slots(tab, o)) = 0
      BY <1>5, SlotsFinite
    <3> QED BY <1>1, <1>4, <2>1, <3>1, <3>2
  <2>2. CASE p # o
    <3>1. /\ Slots(tab, p) # {}
          /\ Cardinality(Slots(T, p)) <= Cardinality(Slots(tab, p))
          /\ Cardinality(Slots(T, p)) \in Nat /\ Cardinality(Slots(tab, p)) \in Nat
      BY <2>0, <2>2, SlotOverwritten, SlotsFinite
    <3>2. ASSUME ~AnyTarget PROVE Slots(T, p) = Slots(tab, p)
      <4>1. tab[fd] # p /\ o # p
        BY <2>2, <3>2, FdAssumption
      <4> QED BY <2>0, <4>1, SlotUntouched
    <3>3. /\ E[p].refs >= Cardinality(Slots(tab, p)) - 1
          /\ ~AnyTarget => E[p].refs = Cardinality(Slots(tab, p)) - 1
      BY <1>0, <1>4, <2>2, <3>1 DEF Counted
    <3> HIDE DEF T, E
    <3> QED BY <2>0, <3>1, <3>2, <3>3
  <2> QED BY <2>1, <2>2
<1> HIDE DEF T, E
<1>8. Alive(T, E, calls)
  <2>1. \A g \in Fds : T[g] # None => E[T[g]].kind # "garbage"
    <3> SUFFICES ASSUME NEW g \in Fds, T[g] # None
                 PROVE  E[T[g]].kind # "garbage"
      OBVIOUS
    <3>1. CASE g = fd
      BY <1>1, <1>4, <3>1
    <3>2. CASE g # fd
      BY <1>0, <1>1, <1>4, <3>2 DEF Alive, Typed
    <3> QED BY <3>1, <3>2
  <2>2. \A t \in Threads : calls[t].op # None => E[calls[t].op].kind = "socket"
    BY <1>0, <1>4, <1>6 DEF Alive, Typed, Calls
  <2>3. \A p \in Ops : E[p].kind = "garbage" => E[p] = Garbage
    BY <1>0, <1>1, <1>4 DEF Alive
  <2> QED BY <2>1, <2>2, <2>3 DEF Alive
<1>9. Fresh(T, n)
  BY <1>0, <1>4, FdAssumption DEF Fresh, Typed, Fds, FirstFD
<1>10. Distinct(E, calls)
  BY <1>0, <1>4 DEF Distinct
<1>11. Backed(T, E, hs, calls)
  BY <1>0, <1>1, <1>4 DEF Backed, Typed
<1>12. ASSUME Orderly PROVE Owners(T, E, hs, calls)
  <2>1. \A h \in hs : \/ \E g \in Fds : T[g] # None /\ E[T[g]].h = h
                      \/ \E t \in Threads : calls[t].h = h
    <3> SUFFICES ASSUME NEW h \in hs, \A t \in Threads : calls[t].h # h
                 PROVE  \E g \in Fds : T[g] # None /\ E[T[g]].h = h
      OBVIOUS
    <3>1. PICK g \in Fds : tab[g] # None /\ ents[tab[g]].h = h
      BY <1>0, <1>12 DEF Owners
    <3>2. g # fd
      BY <1>12, <3>1 DEF Orderly
    <3>3. T[g] # None /\ E[T[g]].h = h
      BY <1>0, <1>4, <3>1, <3>2 DEF Typed
    <3> QED BY <3>3
  <2>2. \A t \in Threads :
          calls[t].pc \in {"dialing", "dialed"} => calls[t].op \in Ops
    BY <1>0 DEF Shaped, Typed, Calls
  <2>3. \A t \in Threads :
          calls[t].pc \in {"dialing", "dialed"} => E[calls[t].op].h = None
    BY <1>0, <1>4, <1>12, <2>2 DEF Owners
  <2> QED BY <1>0, <1>12, <2>1, <2>3 DEF Owners
<1> QED BY <1>0, <1>3, <1>5, <1>7, <1>8, <1>9, <1>10, <1>11, <1>12 DEF Books, T, E

\* An entry with a slot gets a handle nothing names.
LEMMA HandleGiven ==
  ASSUME NEW tab, NEW n, NEW ents, NEW hs, NEW calls,
         Books(tab, n, ents, hs, calls),
         NEW o \in Ops, Slots(tab, o) # {}, NEW h \in Handles,
         \A p \in Ops : ents[p].h # h,
         \A t \in Threads : calls[t].h # h,
         Orderly => /\ ents[o].h = None
                        /\ \A t \in Threads : calls[t].op # o
  PROVE  Books(tab, n, [ents EXCEPT ![o].h = h], hs \cup {h}, calls)
<1> DEFINE E == [ents EXCEPT ![o].h = h]
           H == hs \cup {h}
<1>0. /\ Typed(tab, n, ents, hs, calls) /\ Alive(tab, ents, calls)
      /\ Shaped(calls) /\ Fresh(tab, n) /\ Counted(tab, ents)
      /\ Distinct(ents, calls) /\ Backed(tab, ents, hs, calls)
      /\ Orderly => Owners(tab, ents, hs, calls)
  BY DEF Books
<1>1. PICK slot \in Fds : tab[slot] = o
  BY DEF Slots
<1>2. Typed(tab, n, E, H, calls)
  <2>1. [ents[o] EXCEPT !.h = h] \in Entries
    BY <1>0 DEF Typed, Entries
  <2>2. E \in [Ops -> Entries]
    BY <1>0, <2>1 DEF Typed
  <2> QED BY <1>0, <2>2 DEF Typed
<1>3. /\ E[o].h = h /\ o # None /\ h # None
      /\ \A p \in Ops : p # o => E[p] = ents[p]
      /\ \A p \in Ops : E[p].refs = ents[p].refs /\ E[p].kind = ents[p].kind
  BY <1>0, FdAssumption DEF Typed, Entries
<1> HIDE DEF E
<1>4. ents[o].kind # "garbage"
  BY <1>0, <1>1, <1>3 DEF Alive
<1>5. Alive(tab, E, calls)
  <2>1. \A fd \in Fds : tab[fd] # None => E[tab[fd]].kind # "garbage"
    BY <1>0, <1>3 DEF Alive, Typed
  <2>2. \A t \in Threads : calls[t].op # None => E[calls[t].op].kind = "socket"
    BY <1>0, <1>3 DEF Alive, Typed, Calls
  <2>3. \A p \in Ops : E[p].kind = "garbage" => E[p] = Garbage
    BY <1>0, <1>3, <1>4 DEF Alive
  <2> QED BY <2>1, <2>2, <2>3 DEF Alive
<1>6. Counted(tab, E)
  BY <1>0, <1>3 DEF Counted
<1>7. Distinct(E, calls)
  <2>1. \A p, q \in Ops : E[p].h # None /\ E[p].h = E[q].h => p = q
    BY <1>0, <1>3 DEF Distinct
  <2>2. \A t \in Threads, p \in Ops : calls[t].h # None => calls[t].h # E[p].h
    BY <1>0, <1>3 DEF Distinct
  <2> QED BY <1>0, <2>1, <2>2 DEF Distinct
<1>8. Backed(tab, E, H, calls)
  BY <1>0, <1>3 DEF Backed, Typed
<1>9. ASSUME Orderly PROVE Owners(tab, E, H, calls)
  <2>1. \A g \in H : \/ \E fd \in Fds : tab[fd] # None /\ E[tab[fd]].h = g
                    \/ \E t \in Threads : calls[t].h = g
    <3> SUFFICES ASSUME NEW g \in H, \A t \in Threads : calls[t].h # g
                 PROVE  \E fd \in Fds : tab[fd] # None /\ E[tab[fd]].h = g
      OBVIOUS
    <3>1. CASE g = h
      BY <1>1, <1>3, <3>1
    <3>2. CASE g # h
      <4>1. g \in hs /\ g # None
        BY <1>0, <3>2, FdAssumption DEF Typed
      <4>2. PICK fd \in Fds : tab[fd] # None /\ ents[tab[fd]].h = g
        BY <1>0, <1>9, <4>1 DEF Owners
      <4>3. tab[fd] \in Ops /\ tab[fd] # o
        BY <1>0, <1>9, <4>1, <4>2 DEF Typed
      <4>4. E[tab[fd]].h = g
        BY <1>3, <4>2, <4>3
      <4> QED BY <4>2, <4>4
    <3> QED BY <3>1, <3>2
  <2>2. \A t \in Threads :
          calls[t].pc \in {"dialing", "dialed"} => calls[t].op \in Ops
    BY <1>0 DEF Shaped, Typed, Calls
  <2>3. \A t \in Threads :
          calls[t].pc \in {"dialing", "dialed"} => E[calls[t].op].h = None
    BY <1>0, <1>3, <1>9, <2>2 DEF Owners
  <2> QED BY <1>0, <1>9, <2>1, <2>3 DEF Owners
<1> QED BY <1>0, <1>2, <1>5, <1>6, <1>7, <1>8, <1>9 DEF Books, E


\* What closing a slot of o leaves open.
LeftOpen(o, ents, hs) == IF ents[o].refs > 0 THEN hs ELSE hs \ {ents[o].h}

\* A slot is given up, and its handle closed with the last one.
LEMMA SlotDropped ==
  ASSUME NEW tab, NEW n, NEW ents, NEW hs, NEW calls,
         Books(tab, n, ents, hs, calls),
         NEW fd \in Fds, NEW o \in Ops, tab[fd] = o
  PROVE  Books([tab EXCEPT ![fd] = None], n, Dropped(o, ents),
               LeftOpen(o, ents, hs), calls)
<1> DEFINE T == [tab EXCEPT ![fd] = None]
           E == Dropped(o, ents)
           H == LeftOpen(o, ents, hs)
<1>0. /\ Typed(tab, n, ents, hs, calls) /\ Alive(tab, ents, calls)
      /\ Shaped(calls) /\ Fresh(tab, n) /\ Counted(tab, ents)
      /\ Distinct(ents, calls) /\ Backed(tab, ents, hs, calls)
      /\ Orderly => Owners(tab, ents, hs, calls)
  BY DEF Books
<1>1. o # None
  BY FdAssumption
<1>2. /\ tab \in [Fds -> Ops \cup {None}] /\ ents \in [Ops -> Entries]
      /\ ents[o] \in Entries /\ ents[o].refs \in Nat
  BY <1>0 DEF Typed, Entries
<1>3. /\ ents[o].refs >= Cardinality(Slots(tab, o)) - 1
      /\ ~AnyTarget => ents[o].refs = Cardinality(Slots(tab, o)) - 1
  <2>1. Slots(tab, o) # {}
    BY DEF Slots
  <2> QED BY <1>0, <2>1 DEF Counted
<1>4. /\ Cardinality(Slots(T, o)) \in Nat
      /\ ents[o].refs >= Cardinality(Slots(T, o))
      /\ ~AnyTarget => ents[o].refs = Cardinality(Slots(T, o))
  <2>1. Cardinality(Slots(T, o)) = Cardinality(Slots(tab, o)) - 1
    BY <1>1, <1>2, SlotLost
  <2>2. Cardinality(Slots(tab, o)) \in Nat /\ Cardinality(Slots(T, o)) \in Nat
    BY SlotsFinite
  <2> HIDE DEF T
  <2> QED BY <1>3, <2>1, <2>2
<1>5. /\ ents[o].refs = 0 => Slots(T, o) = {}
      /\ ~AnyTarget /\ Slots(T, o) = {} => ents[o].refs = 0
  <2>1. Cardinality(Slots(T, o)) = 0 <=> Slots(T, o) = {}
    BY SlotsFinite
  <2> HIDE DEF T
  <2> QED BY <1>2, <1>4, <2>1
<1>6. /\ E[o].refs = IF ents[o].refs > 0 THEN ents[o].refs - 1 ELSE ents[o].refs
      /\ \A p \in Ops : p # o => E[p] = ents[p]
      /\ \A p \in Ops : E[p].h = ents[p].h /\ E[p].kind = ents[p].kind
      /\ E \in [Ops -> Entries]
  <2>1. CASE ents[o].refs > 0
    <3>1. [ents[o] EXCEPT !.refs = @ - 1] \in Entries
      BY <1>2, <2>1 DEF Entries
    <3>2. E = [ents EXCEPT ![o] = [ents[o] EXCEPT !.refs = @ - 1]]
      BY <2>1 DEF Dropped
    <3> QED BY <1>2, <2>1, <3>1, <3>2 DEF Entries
  <2>2. CASE ~(ents[o].refs > 0)
    BY <1>2, <2>2 DEF Dropped
  <2> QED BY <2>1, <2>2
<1>7. T[fd] = None /\ \A g \in Fds : g # fd => T[g] = tab[g]
  BY <1>2
<1>8. Typed(T, n, E, H, calls)
  BY <1>0, <1>6 DEF Typed, LeftOpen
<1>9. Counted(T, E)
  <2> SUFFICES ASSUME NEW p \in Ops, Slots(T, p) # {}
               PROVE  /\ E[p].refs >= Cardinality(Slots(T, p)) - 1
                      /\ ~AnyTarget => E[p].refs = Cardinality(Slots(T, p)) - 1
    BY DEF Counted
  <2>1. CASE p = o
    <3>0. Slots(T, o) # {}
      BY <2>1, Zenon
    <3>1. ents[o].refs > 0
      <4>1. ents[o].refs # 0
        BY <1>5, <3>0, Zenon
      <4>2. ents[o].refs \in Nat
        BY <1>2
      <4> QED BY <4>1, <4>2
    <3>2. E[o].refs = ents[o].refs - 1
      BY <1>6, <3>1
    <3> HIDE DEF T, E
    <3> QED BY <1>2, <1>4, <2>1, <3>2
  <2>2. CASE p # o
    <3>1. tab[fd] # p /\ None # p /\ None \in Ops \cup {None}
      BY <2>2, FdAssumption
    <3>2. Slots(T, p) = Slots(tab, p)
      BY <1>2, <3>1, SlotUntouched
    <3> QED BY <1>0, <1>6, <2>2, <3>2 DEF Counted
  <2> QED BY <2>1, <2>2
<1>10. \A g \in Fds : T[g] = o => ents[o].refs > 0
  <2> SUFFICES ASSUME NEW g \in Fds, T[g] = o PROVE ents[o].refs > 0
    OBVIOUS
  <2>1. g \in Slots(T, o)
    BY DEF Slots
  <2> QED BY <1>2, <1>5, <2>1
<1>11. ~AnyTarget /\ ents[o].refs > 0 => \E g \in Fds : T[g] = o
  BY <1>5 DEF Slots
<1>12. /\ hs \ {ents[o].h} \subseteq H /\ H \subseteq hs
       /\ ents[o].refs > 0 => H = hs
       /\ ~(ents[o].refs > 0) => H = hs \ {ents[o].h}
  BY DEF LeftOpen
<1> HIDE DEF T, E, H
<1>13. Alive(T, E, calls)
  <2>1. \A g \in Fds : T[g] # None => E[T[g]].kind # "garbage"
    BY <1>0, <1>6, <1>7 DEF Alive, Typed
  <2>2. \A t \in Threads : calls[t].op # None => E[calls[t].op].kind = "socket"
    BY <1>0, <1>6 DEF Alive, Typed, Calls
  <2>3. ents[o].kind # "garbage"
    BY <1>0, <1>1 DEF Alive
  <2>4. \A p \in Ops : E[p].kind = "garbage" => E[p] = Garbage
    BY <1>0, <1>6, <2>3 DEF Alive
  <2> QED BY <2>1, <2>2, <2>4 DEF Alive
<1>14. Fresh(T, n)
  BY <1>0, <1>7 DEF Fresh
<1>15. Distinct(E, calls)
  BY <1>0, <1>6 DEF Distinct
<1>16. Backed(T, E, H, calls)
  <2>1. \A g \in Fds : T[g] # None /\ E[T[g]].h # None => E[T[g]].h \in H
    <3> SUFFICES ASSUME NEW g \in Fds, T[g] # None, E[T[g]].h # None
                 PROVE  E[T[g]].h \in H
      OBVIOUS
    <3>1. T[g] = tab[g] /\ tab[g] \in Ops /\ E[T[g]].h = ents[tab[g]].h
      BY <1>2, <1>6, <1>7
    <3>2. ents[tab[g]].h \in hs
      BY <1>0, <3>1 DEF Backed
    <3>3. CASE T[g] = o
      BY <1>10, <1>12, <3>1, <3>2, <3>3
    <3>4. CASE T[g] # o
      <4>1. ents[tab[g]].h # ents[o].h
        BY <1>0, <3>1, <3>4 DEF Distinct
      <4> QED BY <1>12, <3>1, <3>2, <4>1
    <3> QED BY <3>3, <3>4
  <2>2. \A t \in Threads : calls[t].h # None => calls[t].h \in H
    BY <1>0, <1>12 DEF Backed, Distinct
  <2> QED BY <2>1, <2>2 DEF Backed
<1>17. ASSUME Orderly PROVE Owners(T, E, H, calls)
  <2>1. \A h \in H : \/ \E g \in Fds : T[g] # None /\ E[T[g]].h = h
                     \/ \E t \in Threads : calls[t].h = h
    <3> SUFFICES ASSUME NEW h \in H, \A t \in Threads : calls[t].h # h
                 PROVE  \E g \in Fds : T[g] # None /\ E[T[g]].h = h
      OBVIOUS
    <3>1. PICK g \in Fds : tab[g] # None /\ ents[tab[g]].h = h
      BY <1>0, <1>12, <1>17 DEF Owners
    <3>2. tab[g] \in Ops
      BY <1>2, <3>1
    <3>3. CASE tab[g] = o
      <4>1. ents[o].refs > 0
        BY <1>12, <3>1, <3>3
      <4>2. PICK k \in Fds : T[k] = o
        BY <1>11, <1>17, <4>1 DEF Orderly
      <4> QED BY <1>1, <1>6, <3>1, <3>3, <4>2
    <3>4. CASE tab[g] # o
      <4>1. T[g] = tab[g]
        BY <1>7, <3>4
      <4> QED BY <1>6, <3>1, <3>2, <4>1
    <3> QED BY <3>3, <3>4
  <2>2. \A t \in Threads :
          calls[t].pc \in {"dialing", "dialed"} => calls[t].op \in Ops
    BY <1>0 DEF Shaped, Typed, Calls
  <2>3. \A t \in Threads :
          calls[t].pc \in {"dialing", "dialed"} => E[calls[t].op].h = None
    BY <1>0, <1>6, <1>17, <2>2 DEF Owners
  <2> QED BY <1>0, <1>17, <2>1, <2>3 DEF Owners
<1> QED BY <1>0, <1>8, <1>9, <1>13, <1>14, <1>15, <1>16, <1>17 DEF Books, T, E, H

\* A slot is made to share an entry.
LEMMA SlotShared ==
  ASSUME NEW tab, NEW n, NEW ents, NEW hs, NEW calls,
         Books(tab, n, ents, hs, calls),
         NEW fd \in Fds, ~AnyTarget => tab[fd] = None /\ fd < n,
         NEW o \in Ops, Slots(tab, o) # {}
  PROVE  Books([tab EXCEPT ![fd] = o], n, [ents EXCEPT ![o].refs = @ + 1],
               hs, calls)
<1> DEFINE T == [tab EXCEPT ![fd] = o]
           E == [ents EXCEPT ![o].refs = @ + 1]
<1>0. /\ Typed(tab, n, ents, hs, calls) /\ Alive(tab, ents, calls)
      /\ Shaped(calls) /\ Fresh(tab, n) /\ Counted(tab, ents)
      /\ Distinct(ents, calls) /\ Backed(tab, ents, hs, calls)
      /\ Orderly => Owners(tab, ents, hs, calls)
  BY DEF Books
<1>1. o # None
  BY FdAssumption
<1>2. /\ tab \in [Fds -> Ops \cup {None}] /\ ents \in [Ops -> Entries]
      /\ ents[o] \in Entries /\ ents[o].refs \in Nat
  BY <1>0 DEF Typed, Entries
<1>3. /\ E[o].refs = ents[o].refs + 1
      /\ \A p \in Ops : p # o => E[p] = ents[p]
      /\ \A p \in Ops : E[p].h = ents[p].h /\ E[p].kind = ents[p].kind
      /\ E \in [Ops -> Entries]
  <2>1. [ents[o] EXCEPT !.refs = @ + 1] \in Entries
    BY <1>2 DEF Entries
  <2>2. E = [ents EXCEPT ![o] = [ents[o] EXCEPT !.refs = @ + 1]]
    OBVIOUS
  <2> QED BY <1>2, <2>1, <2>2 DEF Entries
<1>4. T[fd] = o /\ \A g \in Fds : g # fd => T[g] = tab[g]
  BY <1>2
<1>5. Typed(T, n, E, hs, calls)
  BY <1>0, <1>3 DEF Typed
<1>6. Counted(T, E)
  <2> SUFFICES ASSUME NEW p \in Ops, Slots(T, p) # {}
               PROVE  /\ E[p].refs >= Cardinality(Slots(T, p)) - 1
                      /\ ~AnyTarget => E[p].refs = Cardinality(Slots(T, p)) - 1
    BY DEF Counted
  <2>0. /\ Cardinality(Slots(T, p)) \in Nat /\ Cardinality(Slots(tab, p)) \in Nat
        /\ E[p].refs \in Nat
    BY <1>3, SlotsFinite DEF Entries
  <2>1. CASE p = o
    <3>1. Cardinality(Slots(T, o)) <= Cardinality(Slots(tab, o)) + 1
      BY <1>2, SlotOverwritten
    <3>2. ~AnyTarget => Cardinality(Slots(T, o)) = Cardinality(Slots(tab, o)) + 1
      BY <1>1, <1>2, SlotGained
    <3>3. /\ ents[o].refs >= Cardinality(Slots(tab, o)) - 1
          /\ ~AnyTarget => ents[o].refs = Cardinality(Slots(tab, o)) - 1
      BY <1>0 DEF Counted
    <3> HIDE DEF T, E
    <3> QED BY <1>2, <1>3, <2>0, <2>1, <3>1, <3>2, <3>3
  <2>2. CASE p # o
    <3>1. /\ Slots(tab, p) # {}
          /\ Cardinality(Slots(T, p)) <= Cardinality(Slots(tab, p))
      BY <1>2, <2>2, SlotOverwritten
    <3>2. ASSUME ~AnyTarget PROVE Slots(T, p) = Slots(tab, p)
      <4>1. tab[fd] # p /\ o # p /\ o \in Ops \cup {None}
        BY <2>2, <3>2, FdAssumption
      <4> QED BY <1>2, <4>1, SlotUntouched
    <3>3. /\ E[p].refs >= Cardinality(Slots(tab, p)) - 1
          /\ ~AnyTarget => E[p].refs = Cardinality(Slots(tab, p)) - 1
      BY <1>0, <1>3, <2>2, <3>1 DEF Counted
    <3> HIDE DEF T, E
    <3> QED BY <2>0, <3>1, <3>2, <3>3
  <2> QED BY <2>1, <2>2
<1>7. PICK slot \in Fds : tab[slot] = o
  BY DEF Slots
<1> HIDE DEF T, E
<1>8. ents[o].kind # "garbage"
  BY <1>0, <1>1, <1>7 DEF Alive
<1>9. Alive(T, E, calls)
  <2>1. \A g \in Fds : T[g] # None => E[T[g]].kind # "garbage"
    <3> SUFFICES ASSUME NEW g \in Fds, T[g] # None
                 PROVE  E[T[g]].kind # "garbage"
      OBVIOUS
    <3>1. CASE g = fd
      BY <1>3, <1>4, <1>8, <3>1
    <3>2. CASE g # fd
      BY <1>0, <1>2, <1>3, <1>4, <3>2 DEF Alive
    <3> QED BY <3>1, <3>2
  <2>2. \A t \in Threads : calls[t].op # None => E[calls[t].op].kind = "socket"
    BY <1>0, <1>3 DEF Alive, Typed, Calls
  <2>3. \A p \in Ops : E[p].kind = "garbage" => E[p] = Garbage
    BY <1>0, <1>3, <1>8 DEF Alive
  <2> QED BY <2>1, <2>2, <2>3 DEF Alive
<1>10. Fresh(T, n)
  BY <1>0, <1>4, FdAssumption DEF Fresh, Typed, Fds, FirstFD
<1>11. Distinct(E, calls)
  BY <1>0, <1>3 DEF Distinct
<1>12. Backed(T, E, hs, calls)
  <2>1. \A g \in Fds : T[g] # None /\ E[T[g]].h # None => E[T[g]].h \in hs
    <3> SUFFICES ASSUME NEW g \in Fds, T[g] # None, E[T[g]].h # None
                 PROVE  E[T[g]].h \in hs
      OBVIOUS
    <3>1. CASE g = fd
      BY <1>0, <1>1, <1>3, <1>4, <1>7, <3>1 DEF Backed
    <3>2. CASE g # fd
      BY <1>0, <1>2, <1>3, <1>4, <3>2 DEF Backed
    <3> QED BY <3>1, <3>2
  <2> QED BY <1>0, <2>1 DEF Backed
<1>13. ASSUME Orderly PROVE Owners(T, E, hs, calls)
  <2>1. \A h \in hs : \/ \E g \in Fds : T[g] # None /\ E[T[g]].h = h
                      \/ \E t \in Threads : calls[t].h = h
    <3> SUFFICES ASSUME NEW h \in hs, \A t \in Threads : calls[t].h # h
                 PROVE  \E g \in Fds : T[g] # None /\ E[T[g]].h = h
      OBVIOUS
    <3>1. PICK g \in Fds : tab[g] # None /\ ents[tab[g]].h = h
      BY <1>0, <1>13 DEF Owners
    <3>2. g # fd /\ T[g] = tab[g] /\ tab[g] \in Ops
      BY <1>2, <1>4, <1>13, <3>1 DEF Orderly
    <3> QED BY <1>3, <3>1, <3>2
  <2>2. \A t \in Threads :
          calls[t].pc \in {"dialing", "dialed"} => calls[t].op \in Ops
    BY <1>0 DEF Shaped, Typed, Calls
  <2>3. \A t \in Threads :
          calls[t].pc \in {"dialing", "dialed"} => E[calls[t].op].h = None
    BY <1>0, <1>3, <1>13, <2>2 DEF Owners
  <2> QED BY <1>0, <1>13, <2>1, <2>3 DEF Owners
<1> QED BY <1>0, <1>5, <1>6, <1>9, <1>10, <1>11, <1>12, <1>13 DEF Books, T, E


-----------------------------------------------------------------------------
(* The steps                                                                *)

\* What Settle does, as a collection.
LEMMA Settled ==
  ASSUME NEW tab, NEW ents, NEW calls, NEW n, NEW hs,
         Settle(tab, ents, calls), nextFD' = n, open' = hs,
         Books(tab, n, ents, hs, calls)
  PROVE  IInv'
<1>1. table' = tab /\ task' = calls /\ ops' = Collect(tab, ents, calls)
  BY DEF Settle, Collect
<1>2. Books(tab, n, Collect(tab, ents, calls), hs, calls)
  BY Collected
<1> QED BY <1>1, <1>2 DEF IInv

LEMMA IdleCall ==
  /\ Idle \in Calls /\ Idle.pc = "idle" /\ Idle.op = None /\ Idle.h = None
  /\ Garbage \in Entries /\ Garbage.h = None /\ Garbage.kind = "garbage"
BY FdAssumption DEF Idle, Calls, Pcs, Fds, FirstFD, Garbage, Entry, Entries, Kinds

LEMMA InitBooks ==
  Init => IInv
<1> SUFFICES ASSUME Init PROVE IInv
  OBVIOUS
<1>1. /\ \A fd \in Fds : table[fd] = None
      /\ \A o \in Ops : ops[o] = Garbage
      /\ \A t \in Threads : task[t] = Idle
      /\ open = {}
  BY DEF Init
<1>2. Typed(table, nextFD, ops, open, task)
  BY IdleCall, FdAssumption DEF Init, Typed, FirstFD
<1>3. Alive(table, ops, task)
  BY <1>1, IdleCall DEF Alive
<1>4. Shaped(task)
  BY <1>1, IdleCall DEF Shaped
<1>5. Counted(table, ops)
  <2>1. \A o \in Ops : Slots(table, o) = {}
    BY <1>1, FdAssumption DEF Slots
  <2> QED BY <2>1 DEF Counted
<1>6. Distinct(ops, task)
  BY <1>1, IdleCall DEF Distinct
<1>7. Backed(table, ops, open, task) /\ Owners(table, ops, open, task)
  BY <1>1, IdleCall DEF Backed, Owners
<1> QED BY <1>1, <1>2, <1>3, <1>4, <1>5, <1>6, <1>7 DEF IInv, Books, Fresh

\* The facts about the current state every step starts from.
LEMMA Now ==
  ASSUME IInv
  PROVE  /\ table \in [Fds -> Ops \cup {None}]
         /\ nextFD \in FirstFD..(MaxFD + 1)
         /\ ops \in [Ops -> Entries]
         /\ open \subseteq Handles
         /\ task \in [Threads -> Calls]
         /\ \A t \in Threads : task[t].pc \in Pcs
         /\ Shaped(task)
         /\ Books(table, nextFD, ops, open, task)
BY DEF IInv, Books, Typed, Calls

LEMMA OpenFileStep ==
  ASSUME IInv, NEW t \in Threads, NEW f \in FreeHandles(Files), OpenFile(t, f)
  PROVE  IInv'
<1> DEFINE call == [task[t] EXCEPT !.pc = "opened", !.h = f]
<1>1. f \in Handles /\ f # None
  BY FdAssumption DEF FreeHandles, Handles
<1>2. /\ call \in Calls /\ call.h = f /\ call.op = task[t].op /\ call.pc = "opened"
      /\ task[t].h = None /\ task[t].op = None
  BY <1>1, Now, IdleCall DEF OpenFile, Calls, Pcs, Idle
<1>3. task' = [task EXCEPT ![t] = call]
  BY Now DEF OpenFile
<1> HIDE DEF call
<1>4. Shaped(task')
  BY <1>1, <1>2, <1>3, Now DEF Shaped
<1>5. Books(table, nextFD, ops, open \cup {f}, task')
  BY <1>1, <1>2, <1>3, <1>4, Now, HandleOpened DEF FreeHandles
<1> QED BY <1>5 DEF OpenFile, IInv

LEMMA OpenRejectedStep ==
  ASSUME IInv, NEW t \in Threads, OpenRejected(t)
  PROVE  IInv'
<1>1. task[t].h # None
  BY Now DEF OpenRejected, Shaped
<1>2. Books(table, nextFD, ops, open \ {task[t].h}, [task EXCEPT ![t] = Idle])
  BY <1>1, Now, HandleClosed
<1> QED BY <1>2 DEF OpenRejected, IInv

\* A fresh entry with a handle nothing names gets the slot nextFD.
LEMMA FileRegistered ==
  ASSUME NEW tab, NEW n, NEW ents, NEW hs, NEW calls,
         Books(tab, n, ents, hs, calls), n <= MaxFD,
         NEW o \in Ops, ents[o] = Garbage,
         NEW h \in Handles,
         \A p \in Ops : ents[p].h # h,
         \A t \in Threads : calls[t].h # h
  PROVE  Books([tab EXCEPT ![n] = o], n + 1,
               [ents EXCEPT ![o] = Entry("file", h)], hs \cup {h}, calls)
<1> DEFINE T == [tab EXCEPT ![n] = o]
           E == [ents EXCEPT ![o] = Entry("file", None)]
<1>1. /\ n \in Fds /\ n + 1 \in FirstFD..(MaxFD + 1) /\ n < n + 1 /\ n <= n + 1
      /\ n \in FirstFD..(MaxFD + 1)
  BY FdAssumption DEF Books, Typed, Fds, FirstFD
<1>2. ~AnyTarget => tab[n] = None
  BY <1>1, FdAssumption DEF Books, Fresh, FirstFD
<1>3. Books(tab, n + 1, ents, hs, calls)
  BY <1>1, FdHandedOut
<1>4. "file" \in Kinds \ {"garbage"}
  BY DEF Kinds
<1>5. Books(T, n + 1, E, hs, calls) /\ Slots(tab, o) = {}
  BY <1>1, <1>2, <1>3, <1>4, Registered
<1>6. /\ tab \in [Fds -> Ops \cup {None}] /\ ents \in [Ops -> Entries]
  BY DEF Books, Typed
<1>7. Slots(T, o) # {}
  BY <1>1, <1>6 DEF Slots
<1>8. \A p \in Ops : E[p].h # h
  BY <1>6, FdAssumption DEF Entry
<1>9. ents[o].h = None /\ E[o].h = None /\ ents[o].kind = "garbage"
  BY <1>6 DEF Entry, Garbage
<1>10. \A t \in Threads : calls[t].op # o
  BY <1>9, FdAssumption DEF Books, Alive
<1> HIDE DEF T, E
<1>11. Books(T, n + 1, [E EXCEPT ![o].h = h], hs \cup {h}, calls)
  BY <1>5, <1>7, <1>8, <1>9, <1>10, HandleGiven
<1>12. [E EXCEPT ![o].h = h] = [ents EXCEPT ![o] = Entry("file", h)]
  <2>1. [Entry("file", None) EXCEPT !.h = h] = Entry("file", h)
    BY DEF Entry
  <2>2. E[o] = Entry("file", None)
    BY <1>6 DEF E
  <2>3. [E EXCEPT ![o].h = h] = [E EXCEPT ![o] = [E[o] EXCEPT !.h = h]]
    OBVIOUS
  <2>4. [E EXCEPT ![o] = Entry("file", h)] = [ents EXCEPT ![o] = Entry("file", h)]
    BY <1>6 DEF E
  <2> QED BY <2>1, <2>2, <2>3, <2>4
<1> QED BY <1>11, <1>12 DEF T

LEMMA OpenRegisterStep ==
  ASSUME IInv, NEW t \in Threads, OpenRegister(t)
  PROVE  IInv'
<1> DEFINE h == task[t].h
           calls == [task EXCEPT ![t] = Idle]
<1>1. PICK o \in FreeOps :
        Settle([table EXCEPT ![nextFD] = o],
               [ops EXCEPT ![o] = Entry("file", task[t].h)], calls)
  BY DEF OpenRegister
<1>2. /\ nextFD <= MaxFD /\ nextFD' = nextFD + 1 /\ open' = open
      /\ task[t].pc = "opened"
  BY DEF OpenRegister
<1>3. h # None /\ h \in Handles
  BY <1>2, Now DEF Shaped, Calls
<1>4. h \in open /\ \A p \in Ops : ops[p].h # h
  BY <1>3 DEF IInv, Books, Backed, Distinct
<1>5. \A u \in Threads : calls[u].h # h
  BY <1>3, Now, IdleCall DEF IInv, Books, Distinct
<1>6. Books(table, nextFD, ops, open \ {h}, calls)
  BY <1>3, Now, HandleClosed
<1>7. o \in Ops /\ ops[o] = Garbage
  BY DEF FreeOps
<1> HIDE DEF h, calls
<1>8. Books([table EXCEPT ![nextFD] = o], nextFD + 1,
            [ops EXCEPT ![o] = Entry("file", h)], (open \ {h}) \cup {h}, calls)
  BY <1>2, <1>3, <1>4, <1>5, <1>6, <1>7, FileRegistered
<1>9. (open \ {h}) \cup {h} = open
  BY <1>4
<1> QED BY <1>1, <1>2, <1>8, <1>9, Settled DEF h


LEMMA PipeStep ==
  ASSUME IInv, NEW r \in FreeHandles(Files), NEW w \in FreeHandles(Files),
         Pipe(r, w)
  PROVE  IInv'
<1>1. PICK o \in FreeOps, p \in FreeOps :
        /\ o # p
        /\ Settle([table EXCEPT ![nextFD] = o, ![nextFD + 1] = p],
                  [ops EXCEPT ![o] = Entry("file", r), ![p] = Entry("file", w)],
                  task)
  BY DEF Pipe
<1>2. /\ nextFD + 1 <= MaxFD /\ r # w /\ nextFD' = nextFD + 2
      /\ open' = open \cup {r, w} /\ nextFD \in Int
      /\ nextFD <= MaxFD /\ nextFD + 1 + 1 = nextFD + 2
  BY Now, FdAssumption DEF Pipe, FirstFD
<1>3. /\ o \in Ops /\ p \in Ops /\ ops[o] = Garbage /\ ops[p] = Garbage
      /\ r \in Handles /\ w \in Handles
      /\ \A q \in Ops : ops[q].h # r /\ ops[q].h # w
      /\ \A t \in Threads : task[t].h # r /\ task[t].h # w
  BY DEF FreeOps, FreeHandles, Handles
<1> DEFINE T == [table EXCEPT ![nextFD] = o]
           E == [ops EXCEPT ![o] = Entry("file", r)]
<1>4. Books(T, nextFD + 1, E, open \cup {r}, task)
  BY <1>2, <1>3, Now, FileRegistered
<1>5. E[p] = Garbage /\ \A q \in Ops : E[q].h # w
  BY <1>1, <1>2, <1>3, Now DEF Entry
<1>6. /\ [T EXCEPT ![nextFD + 1] = p]
           = [table EXCEPT ![nextFD] = o, ![nextFD + 1] = p]
      /\ [E EXCEPT ![p] = Entry("file", w)]
           = [ops EXCEPT ![o] = Entry("file", r), ![p] = Entry("file", w)]
      /\ (open \cup {r}) \cup {w} = open'
  BY <1>2
<1> HIDE DEF T, E
<1>7. Books([T EXCEPT ![nextFD + 1] = p], nextFD + 1 + 1,
            [E EXCEPT ![p] = Entry("file", w)], (open \cup {r}) \cup {w}, task)
  BY <1>2, <1>3, <1>4, <1>5, FileRegistered
<1> QED BY <1>1, <1>2, <1>6, <1>7, Settled

LEMMA SockSocketStep ==
  ASSUME IInv, SockSocket
  PROVE  IInv'
<1>1. PICK o \in FreeOps : Settle([table EXCEPT ![nextFD] = o],
                                  [ops EXCEPT ![o] = Entry("socket", None)], task)
  BY DEF SockSocket
<1>2. /\ nextFD' = nextFD + 1 /\ open' = open /\ nextFD \in Fds
      /\ nextFD + 1 \in FirstFD..(MaxFD + 1) /\ nextFD < nextFD + 1
      /\ nextFD <= nextFD + 1 /\ (~AnyTarget => table[nextFD] = None)
  BY Now, FdAssumption DEF SockSocket, Fds, FirstFD, IInv, Books, Fresh
<1>3. Books(table, nextFD + 1, ops, open, task)
  BY <1>2, Now, FdHandedOut
<1>4. o \in Ops /\ ops[o] = Garbage /\ "socket" \in Kinds \ {"garbage"}
  BY DEF FreeOps, Kinds
<1>5. Books([table EXCEPT ![nextFD] = o], nextFD + 1,
            [ops EXCEPT ![o] = Entry("socket", None)], open, task)
  BY <1>2, <1>3, <1>4, Registered
<1> QED BY <1>1, <1>2, <1>5, Settled

LEMMA FdCloseStep ==
  ASSUME IInv, NEW fd \in Fds, FdClose(fd)
  PROVE  IInv'
<1>1. table[fd] \in Ops
  BY Now DEF FdClose
<1>2. Books([table EXCEPT ![fd] = None], nextFD, Dropped(table[fd], ops),
            LeftOpen(table[fd], ops, open), task)
  BY <1>1, Now, SlotDropped
<1>3. open' = LeftOpen(table[fd], ops, open)
  BY DEF FdClose, StillOpen, LeftOpen
<1> QED BY <1>2, <1>3, Settled DEF FdClose

\* dupSourceLocked leaves the books in order, a bare stdio fd aliased or not.
LEMMA Aliased ==
  ASSUME IInv, NEW fd \in Fds, NEW o \in Sources(fd)
  PROVE  /\ o \in Ops
         /\ Books([table EXCEPT ![fd] = o], nextFD, WithAlias(fd, o), open, task)
         /\ ~AnyTarget => fd < nextFD
         /\ Slots(table, o) # {} \/ table[fd] = None
<1>1. CASE table[fd] # None
  <2>1. o = table[fd] /\ o \in Ops
    BY <1>1, Now DEF Sources
  <2>2. [table EXCEPT ![fd] = o] = table /\ WithAlias(fd, o) = ops
    BY <1>1, <2>1, Now DEF WithAlias
  <2>3. ~AnyTarget => fd < nextFD
    BY <1>1, Now, FdAssumption DEF IInv, Books, Fresh, Fds, FirstFD
  <2>4. Slots(table, o) # {}
    BY <2>1 DEF Slots
  <2> QED BY <2>1, <2>2, <2>3, <2>4, Now
<1>2. CASE table[fd] = None
  <2>1. o \in Ops /\ ops[o] = Garbage /\ fd \in Stdio
    BY <1>2 DEF Sources, FreeOps
  <2>2. fd < nextFD
    BY <2>1, Now, FdAssumption DEF Stdio, FirstFD
  <2>3. "alias" \in Kinds \ {"garbage"}
    BY DEF Kinds
  <2>4. Books([table EXCEPT ![fd] = o], nextFD,
              [ops EXCEPT ![o] = Entry("alias", None)], open, task)
    BY <1>2, <2>1, <2>2, <2>3, Now, Registered
  <2> QED BY <1>2, <2>1, <2>2, <2>4 DEF WithAlias
<1> QED BY <1>1, <1>2

LEMMA FdDupStep ==
  ASSUME IInv, NEW fd \in Fds, FdDup(fd)
  PROVE  IInv'
<1>1. PICK o \in Sources(fd) :
        Settle([table EXCEPT ![fd] = o, ![nextFD] = o],
               [WithAlias(fd, o) EXCEPT ![o].refs = @ + 1], task)
  BY DEF FdDup
<1> DEFINE T == [table EXCEPT ![fd] = o]
<1>2. /\ nextFD' = nextFD + 1 /\ open' = open /\ nextFD \in Fds
      /\ nextFD + 1 \in FirstFD..(MaxFD + 1) /\ nextFD < nextFD + 1
      /\ nextFD <= nextFD + 1 /\ (~AnyTarget => table[nextFD] = None)
  BY Now, FdAssumption DEF FdDup, Fds, FirstFD, IInv, Books, Fresh
<1>3. o \in Ops /\ (~AnyTarget => fd < nextFD) /\ Books(T, nextFD, WithAlias(fd, o), open, task)
  BY Aliased
<1>4. (~AnyTarget => T[nextFD] = None) /\ Slots(T, o) # {}
  BY <1>2, <1>3, Now, FdAssumption DEF Slots, Fds, FirstFD
<1>5. Books(T, nextFD + 1, WithAlias(fd, o), open, task)
  BY <1>2, <1>3, FdHandedOut
<1>6. [T EXCEPT ![nextFD] = o] = [table EXCEPT ![fd] = o, ![nextFD] = o]
  OBVIOUS
<1> HIDE DEF T
<1>7. Books([T EXCEPT ![nextFD] = o], nextFD + 1,
            [WithAlias(fd, o) EXCEPT ![o].refs = @ + 1], open, task)
  BY <1>2, <1>3, <1>4, <1>5, SlotShared
<1> QED BY <1>1, <1>2, <1>6, <1>7, Settled

LEMMA FdDup2SameStep ==
  ASSUME IInv, NEW from \in Fds, NEW to \in Fds, FdDup2Same(from, to)
  PROVE  IInv'
<1>1. PICK src \in Sources(from) :
        Settle([table EXCEPT ![from] = src], WithAlias(from, src), task)
  BY DEF FdDup2Same
<1>2. nextFD' = nextFD /\ open' = open
  BY DEF FdDup2Same
<1> QED BY <1>1, <1>2, Aliased, Settled

LEMMA FdDup2Step ==
  ASSUME IInv, NEW from \in Fds, NEW to \in Fds, FdDup2(from, to)
  PROVE  IInv'
<1>1. PICK src \in Sources(from) :
        LET entries == WithAlias(from, src)
            dst     == table[to]
            closed  == IF dst = None THEN entries ELSE Dropped(dst, entries)
        IN /\ dst # src
           /\ Settle([table EXCEPT ![from] = src, ![to] = src],
                     [closed EXCEPT ![src].refs = @ + 1], task)
           /\ open' = IF dst = None THEN open ELSE StillOpen(dst, entries)
  BY DEF FdDup2
<1>2. from # to /\ (~AnyTarget => to < nextFD) /\ nextFD' = nextFD
  BY DEF FdDup2, Target
<1> DEFINE T == [table EXCEPT ![from] = src]
           E == WithAlias(from, src)
           dst == table[to]
<1>3. src \in Ops /\ Books(T, nextFD, E, open, task)
  BY Aliased
<1>4. T[to] = dst /\ T[from] = src /\ T \in [Fds -> Ops \cup {None}]
  BY <1>2, <1>3, Now
<1>5. CASE dst = None
  <2>1. Slots(T, src) # {}
    BY <1>4 DEF Slots
  <2>2. Books([T EXCEPT ![to] = src], nextFD, [E EXCEPT ![src].refs = @ + 1],
              open, task)
    BY <1>2, <1>3, <1>4, <1>5, <2>1, SlotShared
  <2> QED BY <1>1, <1>2, <1>5, <2>2, Settled
<1>6. CASE dst # None
  <2> DEFINE U == [T EXCEPT ![to] = None]
             F == Dropped(dst, E)
             H == LeftOpen(dst, E, open)
  <2>1. dst \in Ops
    BY <1>6, Now
  <2>2. Books(U, nextFD, F, H, task)
    BY <1>3, <1>4, <2>1, SlotDropped
  <2>3. U[to] = None /\ Slots(U, src) # {}
    BY <1>2, <1>4 DEF Slots
  <2>4. [U EXCEPT ![to] = src] = [table EXCEPT ![from] = src, ![to] = src]
    BY <1>4
  <2>5. /\ open' = H
        /\ Settle([table EXCEPT ![from] = src, ![to] = src],
                  [F EXCEPT ![src].refs = @ + 1], task)
    BY <1>1, <1>6 DEF StillOpen, LeftOpen
  <2> HIDE DEF U, F, H
  <2>6. Books([U EXCEPT ![to] = src], nextFD, [F EXCEPT ![src].refs = @ + 1],
              H, task)
    BY <1>2, <1>3, <2>2, <2>3, SlotShared
  <2> QED BY <1>2, <2>4, <2>5, <2>6, Settled
<1> QED BY <1>5, <1>6

\* A slot of an entry moves to a free one.
LEMMA SlotMoved ==
  ASSUME NEW tab, NEW n, NEW ents, NEW hs, NEW calls,
         Books(tab, n, ents, hs, calls),
         NEW from \in Fds, NEW to \in Fds, from # to, ~AnyTarget => to < n,
         tab[to] = None, tab[from] # None
  PROVE  Books([tab EXCEPT ![to] = tab[from], ![from] = None], n, ents, hs, calls)
<1> DEFINE o == tab[from]
           T == [tab EXCEPT ![to] = o]
           E == [ents EXCEPT ![o].refs = @ + 1]
<1>1. /\ tab \in [Fds -> Ops \cup {None}] /\ ents \in [Ops -> Entries]
      /\ o \in Ops /\ Slots(tab, o) # {}
  BY DEF Books, Typed, Slots
<1>2. ents[o] \in Entries /\ ents[o].refs \in Nat
  BY <1>1 DEF Entries
<1>3. Books(T, n, E, hs, calls)
  BY <1>1, SlotShared
<1>4. T[from] = o
  BY <1>1
<1>5. E[o].refs = ents[o].refs + 1
  BY <1>1, <1>2 DEF Entries
<1>6. Dropped(o, E) = ents /\ LeftOpen(o, E, hs) = hs
  <2>1. E[o].refs > 0
    BY <1>2, <1>5
  <2>2. [E EXCEPT ![o].refs = @ - 1] = ents
    <3>1. ents[o].refs + 1 - 1 = ents[o].refs
      BY <1>2
    <3>2. E[o] = [ents[o] EXCEPT !.refs = ents[o].refs + 1]
      BY <1>1
    <3>3. [E[o] EXCEPT !.refs = ents[o].refs] = ents[o]
      BY <1>2, <3>2 DEF Entries
    <3>4. E[o].refs - 1 = ents[o].refs
      BY <1>2, <1>5
    <3>5. [E EXCEPT ![o].refs = E[o].refs - 1] = [E EXCEPT ![o] = ents[o]]
      <4> HIDE DEF E
      <4>1. [E EXCEPT ![o].refs = E[o].refs - 1]
              = [E EXCEPT ![o] = [E[o] EXCEPT !.refs = E[o].refs - 1]]
        OBVIOUS
      <4> QED BY <3>3, <3>4, <4>1
    <3>6. [E EXCEPT ![o] = ents[o]] = ents
      BY <1>1
    <3> QED BY <3>5, <3>6
  <2> QED BY <2>1, <2>2 DEF Dropped, LeftOpen
<1>7. [T EXCEPT ![from] = None] = [tab EXCEPT ![to] = tab[from], ![from] = None]
  OBVIOUS
<1> HIDE DEF T, E
<1>8. Books([T EXCEPT ![from] = None], n, Dropped(o, E), LeftOpen(o, E, hs), calls)
  BY <1>1, <1>3, <1>4, SlotDropped
<1> QED BY <1>6, <1>7, <1>8

LEMMA FdRenumberStep ==
  ASSUME IInv, NEW from \in Fds, NEW to \in Fds, FdRenumber(from, to)
  PROVE  IInv'
<1> DEFINE dst == table[to]
           T == [table EXCEPT ![to] = table[from], ![from] = None]
<1>1. /\ from # to /\ (~AnyTarget => to < nextFD) /\ nextFD' = nextFD /\ table[from] # None
      /\ Settle(T, IF dst = None THEN ops ELSE Dropped(dst, ops), task)
      /\ open' = IF dst = None THEN open ELSE StillOpen(dst, ops)
  BY DEF FdRenumber, Target
<1>2. CASE dst = None
  <2>1. Books(T, nextFD, ops, open, task)
    BY <1>1, <1>2, Now, SlotMoved
  <2> QED BY <1>1, <1>2, <2>1, Settled
<1>3. CASE dst # None
  <2> DEFINE U == [table EXCEPT ![to] = None]
             H == LeftOpen(dst, ops, open)
  <2>1. dst \in Ops
    BY <1>3, Now
  <2>2. Books(U, nextFD, Dropped(dst, ops), H, task)
    BY <2>1, Now, SlotDropped
  <2>3. U[to] = None /\ U[from] = table[from]
    BY <1>1, Now
  <2>4. [U EXCEPT ![to] = table[from], ![from] = None] = T
    BY Now
  <2>5. open' = H /\ Settle(T, Dropped(dst, ops), task)
    BY <1>1, <1>3 DEF StillOpen, LeftOpen
  <2> HIDE DEF U, H
  <2>6. Books([U EXCEPT ![to] = U[from], ![from] = None], nextFD,
              Dropped(dst, ops), H, task)
    BY <1>1, <2>2, <2>3, SlotMoved
  <2> QED BY <1>1, <2>3, <2>4, <2>5, <2>6, Settled
<1> QED BY <1>2, <1>3


LEMMA ConnectLookupStep ==
  ASSUME IInv, NEW t \in Threads, NEW fd \in Fds, ConnectLookup(t, fd)
  PROVE  IInv'
<1> DEFINE o == table[fd]
           call == [task[t] EXCEPT !.pc = "looked", !.fd = fd, !.op = o]
<1>1. /\ o \in Ops /\ o # None /\ ops[o].kind = "socket" /\ task[t] = Idle
      /\ Orderly => \A u \in Threads : task[u].op # o
  BY Now, FdAssumption DEF ConnectLookup, Orderly
<1>2. /\ call \in Calls /\ call.pc = "looked" /\ call.op = o /\ call.h = None
      /\ task[t].h = None
  BY <1>1, IdleCall DEF Calls, Pcs, Idle
<1>3. task' = [task EXCEPT ![t] = call]
  BY Now DEF ConnectLookup
<1> HIDE DEF call
<1>4. Shaped(task')
  BY <1>1, <1>2, <1>3, Now DEF Shaped
<1>5. Books(table, nextFD, ops, open, task')
  BY <1>1, <1>2, <1>3, <1>4, Now, CallMoved
<1> QED BY <1>5 DEF ConnectLookup, IInv

LEMMA ConnectCheckStep ==
  ASSUME IInv, NEW t \in Threads, ConnectCheck(t)
  PROVE  IInv'
<1> DEFINE call == [task[t] EXCEPT !.pc = "dialing"]
<1>1. /\ task[t].op # None /\ task[t].h = None /\ task[t].pc = "looked"
      /\ ops[task[t].op].h = None /\ task[t].op \in Ops
      /\ ops[task[t].op].kind = "socket"
      /\ Orderly => \A u \in Threads : u # t => task[u].op # task[t].op
  BY Now DEF ConnectCheck, Shaped, Calls, IInv, Books, Alive, Owners
<1>2. /\ call \in Calls /\ call.pc = "dialing" /\ call.op = task[t].op
      /\ call.h = task[t].h
  BY Now DEF Calls, Pcs
<1>3. task' = [task EXCEPT ![t] = call]
  BY Now DEF ConnectCheck
<1> HIDE DEF call
<1>4. Shaped(task')
  BY <1>1, <1>2, <1>3, Now DEF Shaped
<1>5. Books(table, nextFD, ops, open, task')
  BY <1>1, <1>2, <1>3, <1>4, Now, CallMoved
<1> QED BY <1>5 DEF ConnectCheck, IInv

\* A call that holds no handle ends.
LEMMA CallEnded ==
  ASSUME NEW tab, NEW n, NEW ents, NEW hs, NEW calls,
         Books(tab, n, ents, hs, calls),
         NEW t \in Threads, calls[t].h = None
  PROVE  Books(tab, n, ents, hs, [calls EXCEPT ![t] = Idle])
<1>1. Shaped([calls EXCEPT ![t] = Idle])
  BY IdleCall DEF Books, Typed, Shaped
<1> QED BY <1>1, IdleCall, CallMoved

LEMMA ConnectFailsStep ==
  ASSUME IInv, NEW t \in Threads, ConnectFails(t)
  PROVE  IInv'
<1>1. task[t].h = None
  BY Now DEF ConnectFails, Shaped
<1>2. Books(table, nextFD, ops, open, [task EXCEPT ![t] = Idle])
  BY <1>1, Now, CallEnded
<1> QED BY <1>2, Settled DEF ConnectFails

LEMMA ConnectDialsStep ==
  ASSUME IInv, NEW t \in Threads, NEW c \in FreeHandles(Conns), ConnectDials(t, c)
  PROVE  IInv'
<1> DEFINE call == [task[t] EXCEPT !.pc = "dialed", !.h = c]
<1>1. c \in Handles /\ c # None
  BY FdAssumption DEF FreeHandles, Handles
<1>2. /\ task[t].op # None /\ task[t].h = None /\ task[t].pc = "dialing"
      /\ Orderly => ops[task[t].op].h = None
  BY Now DEF ConnectDials, Shaped, IInv, Books, Owners
<1>3. call \in Calls /\ call.h = c /\ call.op = task[t].op /\ call.pc = "dialed"
  BY <1>1, Now DEF Calls, Pcs
<1>4. task' = [task EXCEPT ![t] = call]
  BY Now DEF ConnectDials
<1> HIDE DEF call
<1>5. Shaped(task')
  BY <1>1, <1>2, <1>3, <1>4, Now DEF Shaped
<1>6. Books(table, nextFD, ops, open \cup {c}, task')
  BY <1>1, <1>2, <1>3, <1>4, <1>5, Now, HandleOpened DEF FreeHandles
<1> QED BY <1>6 DEF ConnectDials, IInv

LEMMA ConnectAttachStep ==
  ASSUME IInv, NEW t \in Threads, ConnectAttach(t)
  PROVE  IInv'
<1> DEFINE o == task[t].op
           h == task[t].h
           calls == [task EXCEPT ![t] = Idle]
           attached == table[task[t].fd] = o
<1>1. /\ task[t].pc = "dialed" /\ nextFD' = nextFD
      /\ Settle(table, IF attached THEN [ops EXCEPT ![o].h = h] ELSE ops, calls)
      /\ open' = IF attached THEN open ELSE open \ {h}
  BY DEF ConnectAttach
<1>2. /\ o # None /\ o \in Ops /\ h # None /\ h \in Handles /\ task[t].fd \in Fds
      /\ h \in open /\ \A p \in Ops : ops[p].h # h
      /\ Orderly => ops[o].h = None
  BY <1>1, Now DEF Shaped, Calls, IInv, Books, Backed, Distinct, Owners
<1>3. Books(table, nextFD, ops, open \ {h}, calls)
  BY <1>2, Now, HandleClosed
<1>4. CASE ~attached
  BY <1>1, <1>3, <1>4, Settled
<1>5. CASE attached
  <2>1. Slots(table, o) # {}
    BY <1>2, <1>5 DEF Slots
  <2>2. \A u \in Threads : calls[u].h # h
    BY <1>2, Now, IdleCall DEF IInv, Books, Distinct
  <2>3. Orderly => \A u \in Threads : calls[u].op # o
    BY <1>2, Now, IdleCall DEF IInv, Books, Owners
  <2> HIDE DEF calls
  <2>4. Books(table, nextFD, [ops EXCEPT ![o].h = h], (open \ {h}) \cup {h}, calls)
    BY <1>2, <1>3, <2>1, <2>2, <2>3, HandleGiven
  <2>5. (open \ {h}) \cup {h} = open
    BY <1>2
  <2> QED BY <1>1, <1>5, <2>4, <2>5, Settled
<1> QED BY <1>4, <1>5

\* The invariant is inductive, whatever fds the guest names.
LEMMA BooksKept ==
  ASSUME IInv, [Next]_vars
  PROVE  IInv'
<1>1. GuestFds \subseteq Fds
  BY FdAssumption
<1>2. CASE \E t \in Threads, f \in FreeHandles(Files) : OpenFile(t, f)
  BY <1>2, OpenFileStep
<1>3. CASE \E t \in Threads : OpenRejected(t)
  BY <1>3, OpenRejectedStep
<1>4. CASE \E t \in Threads : OpenRegister(t)
  BY <1>4, OpenRegisterStep
<1>5. CASE \E r, w \in FreeHandles(Files) : Pipe(r, w)
  BY <1>5, PipeStep
<1>6. CASE SockSocket
  BY <1>6, SockSocketStep
<1>7. CASE \E fd \in GuestFds : FdClose(fd)
  BY <1>1, <1>7, FdCloseStep
<1>8. CASE \E fd \in GuestFds : FdDup(fd)
  BY <1>1, <1>8, FdDupStep
<1>9. CASE \E from, to \in GuestFds : FdDup2Same(from, to)
  BY <1>1, <1>9, FdDup2SameStep
<1>10. CASE \E from, to \in GuestFds : FdDup2(from, to)
  BY <1>1, <1>10, FdDup2Step
<1>11. CASE \E from, to \in GuestFds : FdRenumber(from, to)
  BY <1>1, <1>11, FdRenumberStep
<1>12. CASE \E t \in Threads, fd \in GuestFds : ConnectLookup(t, fd)
  BY <1>1, <1>12, ConnectLookupStep
<1>13. CASE \E t \in Threads : ConnectCheck(t)
  BY <1>13, ConnectCheckStep
<1>14. CASE \E t \in Threads : ConnectFails(t)
  BY <1>14, ConnectFailsStep
<1>15. CASE \E t \in Threads, c \in FreeHandles(Conns) : ConnectDials(t, c)
  BY <1>15, ConnectDialsStep
<1>16. CASE \E t \in Threads : ConnectAttach(t)
  BY <1>16, ConnectAttachStep
<1>17. CASE UNCHANGED vars
  BY <1>17 DEF vars, IInv
<1> QED
  BY <1>2, <1>3, <1>4, <1>5, <1>6, <1>7, <1>8, <1>9, <1>10, <1>11, <1>12,
     <1>13, <1>14, <1>15, <1>16, <1>17 DEF Next

-----------------------------------------------------------------------------
LEMMA BooksMean ==
  ASSUME IInv
  PROVE  /\ TypeOK /\ LiveHandlesOpen
         /\ ~AnyTarget => RefsCountSlots
         /\ Orderly => HandlesOwned
<1>1. TypeOK
  BY Now DEF TypeOK, IInv, Books, Alive, Calls, Entries
<1>2. ASSUME ~AnyTarget PROVE RefsCountSlots
  BY <1>2 DEF RefsCountSlots, Held, IInv, Books, Counted
<1>3. LiveHandlesOpen
  <2> SUFFICES ASSUME NEW o \in Ops, Held(o), ops[o].h # None
               PROVE  ops[o].h \in open
    BY DEF LiveHandlesOpen
  <2>1. PICK fd \in Fds : table[fd] = o
    BY DEF Held, Slots
  <2>2. o # None
    BY FdAssumption
  <2> QED BY <2>1, <2>2 DEF IInv, Books, Backed
<1>4. ASSUME Orderly PROVE HandlesOwned
  <2> SUFFICES ASSUME NEW h \in open, \A t \in Threads : task[t].h # h
               PROVE  \E o \in Ops : Held(o) /\ ops[o].h = h
    BY DEF HandlesOwned, Owned
  <2>1. PICK fd \in Fds : table[fd] # None /\ ops[table[fd]].h = h
    BY <1>4 DEF IInv, Books, Owners
  <2>2. table[fd] \in Ops /\ Held(table[fd])
    BY <2>1, Now DEF Held, Slots
  <2> QED BY <2>1, <2>2
<1> QED BY <1>1, <1>2, <1>3, <1>4

\* Every variable has its type and what a slot or a call holds is not garbage,
\* whatever fds the guest names.
THEOREM FdTypeCorrect == Spec => []TypeOK
<1>1. Init => IInv
  BY InitBooks
<1>2. IInv /\ [Next]_vars => IInv'
  BY BooksKept
<1>3. IInv => TypeOK
  BY BooksMean
<1> QED BY <1>1, <1>2, <1>3, PTL DEF Spec

\* refs is the number of extra slots of an entry, through every mix of dup,
\* dup2 over a live fd, renumber and close, while the guest names only fds it
\* was given.
THEOREM RefsAreExact == ~AnyTarget => (Spec => []RefsCountSlots)
<1> SUFFICES ASSUME ~AnyTarget PROVE Spec => []RefsCountSlots
  OBVIOUS
<1>1. Init => IInv
  BY InitBooks
<1>2. IInv /\ [Next]_vars => IInv'
  BY BooksKept
<1>3. IInv => RefsCountSlots
  BY BooksMean
<1> QED BY <1>1, <1>2, <1>3, PTL DEF Spec

\* No handle is closed under an fd that names it: not where threads race to
\* connect one socket, nor where dup2 and renumber name fds that were never
\* handed out (a slot that is overwritten leaves refs too high, not too low).
THEOREM NoHandleClosedEarly == Spec => []LiveHandlesOpen
<1>1. Init => IInv
  BY InitBooks
<1>2. IInv /\ [Next]_vars => IInv'
  BY BooksKept
<1>3. IInv => LiveHandlesOpen
  BY BooksMean
<1> QED BY <1>1, <1>2, <1>3, PTL DEF Spec

\* No handle leaks, while the guest names only fds it was given and no two
\* threads connect one socket at a time.
THEOREM NoHandleLeaks == ~AnyTarget /\ ~SharedDial => (Spec => []HandlesOwned)
<1> SUFFICES ASSUME ~AnyTarget, ~SharedDial PROVE Spec => []HandlesOwned
  OBVIOUS
<1>1. Init => IInv
  BY InitBooks
<1>2. IInv /\ [Next]_vars => IInv'
  BY BooksKept
<1>3. IInv => HandlesOwned
  BY BooksMean DEF Orderly
<1> QED BY <1>1, <1>2, <1>3, PTL DEF Spec


\* The calls that advance nextFD write no slot below it with another entry.
LEMMA FreshFdStep ==
  ASSUME ~AnyTarget, IInv, [Next]_vars, nextFD' # nextFD,
         NEW fd \in Fds, table[fd] # None
  PROVE  table'[fd] = table[fd]
<1>1. nextFD \in Nat /\ table \in [Fds -> Ops \cup {None}] /\ fd < nextFD
  <2>1. nextFD \in FirstFD..(MaxFD + 1) /\ table \in [Fds -> Ops \cup {None}]
    BY Now
  <2>2. nextFD \in Nat
    BY <2>1, FdAssumption DEF FirstFD
  <2>3. ~(fd >= nextFD)
    BY DEF IInv, Books, Fresh
  <2>4. fd \in Int
    BY FdAssumption DEF Fds
  <2> QED BY <2>1, <2>2, <2>3, <2>4
<1>2. CASE \E t \in Threads : OpenRegister(t)
  BY <1>1, <1>2 DEF OpenRegister, Settle
<1>3. CASE \E r, w \in FreeHandles(Files) : Pipe(r, w)
  BY <1>1, <1>3 DEF Pipe, Settle
<1>4. CASE SockSocket
  BY <1>1, <1>4 DEF SockSocket, Settle
<1>5. CASE \E d \in GuestFds : FdDup(d)
  <2>1. PICK d \in GuestFds : FdDup(d)
    BY <1>5
  <2>2. PICK o \in Sources(d) :
          Settle([table EXCEPT ![d] = o, ![nextFD] = o],
                 [WithAlias(d, o) EXCEPT ![o].refs = @ + 1], task)
    BY <2>1 DEF FdDup
  <2>3. table' = [table EXCEPT ![d] = o, ![nextFD] = o]
    BY <2>2 DEF Settle
  <2>4. fd = d => o = table[fd]
    BY DEF Sources
  <2> QED BY <1>1, <2>3, <2>4
<1> QED
  BY <1>2, <1>3, <1>4, <1>5
  DEF Next, vars, OpenFile, OpenRejected, FdClose, FdDup2Same, FdDup2,
      FdRenumber, ConnectLookup, ConnectCheck, ConnectFails, ConnectDials,
      ConnectAttach

\* A new descriptor never replaces one the guest still has, while it names only
\* fds it was given.
THEOREM NewFdsAreFree == ~AnyTarget => (Spec => FreshFdIsFree)
<1> SUFFICES ASSUME ~AnyTarget PROVE Spec => FreshFdIsFree
  OBVIOUS
<1>1. Init => IInv
  BY InitBooks
<1>2. IInv /\ [Next]_vars => IInv'
  BY BooksKept
<1>3. IInv /\ [Next]_vars =>
        [nextFD' # nextFD =>
           \A fd \in Fds : table[fd] # None => table'[fd] = table[fd]]_vars
  BY FreshFdStep
<1> QED BY <1>1, <1>2, <1>3, PTL DEF Spec, FreshFdIsFree
=============================================================================
