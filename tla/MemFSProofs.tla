----------------------------- MODULE MemFSProofs -----------------------------
(***************************************************************************)
(* The file system stays a tree and loses nothing, and a guest sees whole  *)
(* listings and files that keep their content, for any threads, paths,     *)
(* nodes and entries.                                                      *)
(*                                                                         *)
(* Every call edits the nodes, the entries and the calls in flight, and    *)
(* then the garbage collector takes what nothing holds.  The invariant is  *)
(* therefore stated of three such values (WorldOK), so that it can be said *)
(* of what a call leaves before the collector has run; SettleOK is about   *)
(* the collector alone.  The edits of the tree are three: a node is made   *)
(* under a name (MadeTree), taken away (RemovedTree), or moved (MovedTree).*)
(*                                                                         *)
(* What is reached from a node is the least set that holds its children:   *)
(* what is kept is proved by showing such a set.                           *)
(***************************************************************************)
EXTENDS MemFS, FiniteSetTheorems, SequenceTheorems, WellFoundedInduction, TLAPS

(* Numbers, paths and walks.                                               *)

\* A set of naturals that is not empty has a least member.
LEMMA Least ==
  ASSUME NEW T \in SUBSET Nat, T # {}
  PROVE  \E n \in T : \A m \in T : n <= m
<1>1. PICK n \in T : \A m \in T : <<m, n>> \notin OpToRel(<, Nat)
  BY NatLessThanWellFounded, WFMin
<1>2. ASSUME NEW m \in T PROVE n <= m
  <2>1. <<m, n>> \notin {ss \in Nat \X Nat : ss[1] < ss[2]}
    BY <1>1 DEF OpToRel
  <2> QED BY <2>1
<1> QED BY <1>2

\* Induction up to k, on a set S of numbers.
LEMMA Induction ==
  ASSUME NEW k \in Nat, NEW S,
         0 \in S, \A i \in 1 .. k : i - 1 \in S => i \in S
  PROVE  \A i \in 0 .. k : i \in S
<1> DEFINE T == {i \in 0 .. k : i \notin S}
<1>1. SUFFICES ASSUME T # {} PROVE FALSE
  OBVIOUS
<1>2. PICK i \in T : \A j \in T : i <= j
  <2>1. T \in SUBSET Nat
    OBVIOUS
  <2> HIDE DEF T
  <2> QED BY <1>1, <2>1, Least
<1>3. i # 0 /\ i - 1 \in 0 .. k /\ i - 1 \notin T
  BY <1>2
<1> QED BY <1>2, <1>3

\* What repeated steps lead to, from a on: the i-th step takes x to F[i][x].
Steps(k, A, F) == \A i \in 1 .. k, x \in A : F[i][x] \in A

\* Such a run of k steps.
Runs(k, A, a, F) ==
    {h \in [0 .. k -> A] : h[0] = a /\ \A i \in 1 .. k : h[i] = F[i][h[i - 1]]}

\* Steps that stay in A can be followed from any a in A: the recursive
\* functions of the model (memSplit, Walked) are functions.
LEMMA Recursion ==
  ASSUME NEW k \in Nat, NEW A, NEW a \in A, NEW F, Steps(k, A, F)
  PROVE  Runs(k, A, a, F) # {}
<1> DEFINE S == {j \in 0 .. k : Runs(j, A, a, F) # {}}
<1>1. 0 \in S
  <2>1. [i \in 0 .. 0 |-> a] \in Runs(0, A, a, F)
    BY DEF Runs
  <2> QED BY <2>1
<1>2. ASSUME NEW i \in 1 .. k, i - 1 \in S PROVE i \in S
  <2>1. PICK h : h \in Runs(i - 1, A, a, F)
    BY <1>2
  <2>2. F[i][h[i - 1]] \in A
    BY <2>1 DEF Steps, Runs
  <2> DEFINE g == [j \in 0 .. i |-> IF j = i THEN F[i][h[i - 1]] ELSE h[j]]
  <2>3. g \in [0 .. i -> A]
    BY <2>1, <2>2 DEF Runs
  <2>4. g[0] = a
    BY <2>1 DEF Runs
  <2>5. ASSUME NEW j \in 1 .. i PROVE g[j] = F[j][g[j - 1]]
    BY <2>1 DEF Runs
  <2>6. g \in Runs(i, A, a, F)
    BY <2>3, <2>4, <2>5 DEF Runs
  <2> QED BY <2>6
<1>3. k \in S
  <2> HIDE DEF S
  <2>1. \A i \in 0 .. k : i \in S
    BY <1>1, <1>2, Induction
  <2> QED BY <2>1
<1> QED BY <1>3

\* A part of a path joins what is before it.
LEMMA JoinedType ==
  ASSUME NEW out \in Seq(Names), NEW part \in Names \cup {Dot, DotDot}
  PROVE  Joined(out, part) \in Seq(Names)
<1>1. part # Dot /\ part # DotDot => part \in Names
  OBVIOUS
<1>2. out # <<>> => Front(out) \in Seq(Names)
  BY DEF Front
<1> QED BY <1>1, <1>2 DEF Joined

\* memSplit leaves names only.
LEMMA memSplitType ==
  ASSUME NEW path \in Seq(Names \cup {Dot, DotDot})
  PROVE  memSplit(path) \in Seq(Names)
<1> DEFINE k == Len(path)
           Splits(g) == g = [i \in 0 .. k |-> IF i = 0 THEN <<>> ELSE Joined(g[i - 1], path[i])]
           out == CHOOSE g : Splits(g)
           F == [i \in 1 .. k |-> [x \in Seq(Names) |-> Joined(x, path[i])]]
<1>1. PICK h : h \in Runs(k, Seq(Names), <<>>, F)
  <2>1. Steps(k, Seq(Names), F)
    BY JoinedType DEF Steps
  <2>2. <<>> \in Seq(Names) /\ k \in Nat
    OBVIOUS
  <2> HIDE DEF F, k
  <2>3. Runs(k, Seq(Names), <<>>, F) # {}
    BY <2>1, <2>2, Recursion
  <2> QED BY <2>3
<1>2. Splits(h)
  <2>1. ASSUME NEW i \in 0 .. k
        PROVE  h[i] = IF i = 0 THEN <<>> ELSE Joined(h[i - 1], path[i])
    <3>1. CASE i = 0
      BY <1>1, <3>1 DEF Runs
    <3>2. CASE i # 0
      <4>1. i \in 1 .. k /\ h[i - 1] \in Seq(Names)
        BY <1>1, <3>2 DEF Runs
      <4> QED BY <1>1, <4>1, <3>2 DEF Runs
    <3> QED BY <3>1, <3>2
  <2> QED BY <1>1, <2>1 DEF Runs
<1>3. Splits(out)
  BY <1>2
<1> DEFINE S == {i \in 0 .. k : out[i] \in Seq(Names)}
<1> HIDE DEF out
<1>4. 0 \in S /\ (\A i \in 1 .. k : i - 1 \in S => i \in S)
  <2>1. out[0] \in Seq(Names)
    <3>1. out[0] = <<>>
      BY <1>3
    <3> QED BY <3>1
  <2>2. ASSUME NEW i \in 1 .. k, out[i - 1] \in Seq(Names) PROVE out[i] \in Seq(Names)
    <3>1. out[i] = Joined(out[i - 1], path[i])
      BY <1>3
    <3> QED BY <3>1, <2>2, JoinedType
  <2> QED BY <2>1, <2>2
<1>5. k \in S
  <2>1. k \in Nat
    OBVIOUS
  <2> HIDE DEF S, k
  <2>2. \A i \in 0 .. k : i \in S
    BY <1>4, <2>1, Induction
  <2> QED BY <2>1, <2>2
<1>6. memSplit(path) = out[k]
  BY DEF memSplit, out
<1> QED BY <1>5, <1>6

\* A set of nodes that holds its children holds every child that is looked up.
LEMMA ChildType ==
  ASSUME NEW A \in SUBSET Nodes, HoldsChildren(node, A),
         NEW n \in A \cup {None}, NEW part
  PROVE  Child(n, part) \in A \cup {None}
BY DEF Child, HoldsChildren, Range

\* Walked goes from the root from child to child, and stays in any set that
\* holds its children.
LEMMA WalkedSteps ==
  ASSUME NEW A \in SUBSET Nodes, Root \in A, HoldsChildren(node, A),
         NEW parts \in Seq(Names)
  PROVE  \E at \in [0 .. Len(parts) -> A \cup {None}] :
            /\ at[0] = Root
            /\ \A i \in 1 .. Len(parts) : at[i] = Child(at[i - 1], parts[i])
            /\ Walked(parts) = at[Len(parts)]
<1> DEFINE k == Len(parts)
           Walk(g) == g = [i \in 0 .. k |-> IF i = 0 THEN Root ELSE Child(g[i - 1], parts[i])]
           at == CHOOSE g : Walk(g)
           B == A \cup {None}
           F == [i \in 1 .. k |-> [x \in B |-> Child(x, parts[i])]]
<1>1. PICK h : h \in Runs(k, B, Root, F)
  <2>1. Steps(k, B, F)
    BY ChildType DEF Steps
  <2>2. Root \in B /\ k \in Nat
    OBVIOUS
  <2> HIDE DEF F, k, B
  <2>3. Runs(k, B, Root, F) # {}
    BY <2>1, <2>2, Recursion
  <2> QED BY <2>3
<1>2. Walk(h)
  <2>1. ASSUME NEW i \in 0 .. k
        PROVE  h[i] = IF i = 0 THEN Root ELSE Child(h[i - 1], parts[i])
    <3>1. CASE i = 0
      BY <1>1, <3>1 DEF Runs
    <3>2. CASE i # 0
      <4>1. i \in 1 .. k /\ h[i - 1] \in B
        BY <1>1, <3>2 DEF Runs
      <4> QED BY <1>1, <4>1, <3>2 DEF Runs
    <3> QED BY <3>1, <3>2
  <2> QED BY <1>1, <2>1 DEF Runs
<1>3. Walk(at)
  BY <1>2
<1> DEFINE S == {i \in 0 .. k : at[i] \in B}
<1> HIDE DEF at
<1>4. at[0] = Root /\ \A i \in 1 .. k : at[i] = Child(at[i - 1], parts[i])
  BY <1>3
<1>5. 0 \in S /\ (\A i \in 1 .. k : i - 1 \in S => i \in S)
  <2>1. at[0] \in B
    BY <1>4
  <2>2. ASSUME NEW i \in 1 .. k, at[i - 1] \in B PROVE at[i] \in B
    <3>1. Child(at[i - 1], parts[i]) \in A \cup {None}
      BY <2>2, ChildType
    <3> QED BY <3>1, <1>4
  <2> QED BY <2>1, <2>2
<1>6. \A i \in 0 .. k : at[i] \in B
  <2>1. k \in Nat
    OBVIOUS
  <2>2. \A i \in 0 .. k : i \in S
    <3> HIDE DEF S, k
    <3> QED BY <1>5, <2>1, Induction
  <2> QED BY <2>2
<1>7. at \in [0 .. k -> B]
  BY <1>3, <1>6
<1>8. Walked(parts) = at[k]
  BY DEF Walked, at
<1> QED BY <1>4, <1>7, <1>8

\* A walk from the root ends where every such set reaches.
LEMMA WalkedType ==
  ASSUME NEW A \in SUBSET Nodes, Root \in A, HoldsChildren(node, A),
         NEW parts \in Seq(Names)
  PROVE  Walked(parts) \in A \cup {None}
<1>1. Len(parts) \in 0 .. Len(parts)
  OBVIOUS
<1> QED BY <1>1, WalkedSteps

\* The walk to a node goes through its parent.
LEMMA WalkedLast ==
  ASSUME NEW A \in SUBSET Nodes, Root \in A, HoldsChildren(node, A),
         NEW parts \in Seq(Names), parts # <<>>
  PROVE  Walked(parts) = Child(Walked(Front(parts)), Last(parts))
<1> DEFINE k == Len(parts) - 1
<1>1. /\ Front(parts) \in Seq(Names) /\ Len(Front(parts)) = k /\ k \in Nat
      /\ \A i \in 1 .. k : Front(parts)[i] = parts[i]
  BY DEF Front
<1>2. PICK at \in [0 .. k + 1 -> A \cup {None}] :
         /\ at[0] = Root
         /\ \A i \in 1 .. k + 1 : at[i] = Child(at[i - 1], parts[i])
         /\ Walked(parts) = at[k + 1]
  <2>1. k + 1 = Len(parts)
    OBVIOUS
  <2> HIDE DEF k
  <2> QED BY <2>1, WalkedSteps
<1>3. PICK to \in [0 .. k -> A \cup {None}] :
         /\ to[0] = Root
         /\ \A i \in 1 .. k : to[i] = Child(to[i - 1], Front(parts)[i])
         /\ Walked(Front(parts)) = to[k]
  <2> HIDE DEF k
  <2> QED BY <1>1, WalkedSteps
<1> DEFINE S == {i \in 0 .. k : at[i] = to[i]}
<1>4. 0 \in S /\ (\A i \in 1 .. k : i - 1 \in S => i \in S)
  <2> HIDE DEF k
  <2>1. 0 \in S
    BY <1>1, <1>2, <1>3
  <2>2. ASSUME NEW i \in 1 .. k, i - 1 \in S PROVE i \in S
    <3>1. at[i] = Child(at[i - 1], parts[i])
      BY <1>1, <1>2
    <3>2. to[i] = Child(to[i - 1], parts[i])
      BY <1>1, <1>3
    <3> QED BY <2>2, <3>1, <3>2
  <2> QED BY <2>1, <2>2
<1>5. k \in S
  <2> HIDE DEF S, k
  <2>1. \A i \in 0 .. k : i \in S
    BY <1>1, <1>4, Induction
  <2> QED BY <1>1, <2>1
<1>6. at[k + 1] = Child(at[k], parts[k + 1])
  BY <1>1, <1>2
<1>7. Last(parts) = parts[k + 1]
  BY DEF Last
<1> QED BY <1>2, <1>3, <1>5, <1>6, <1>7

---------------------------------------------------------------------------
(* The invariant.                                                          *)

\* What a snapshot lists.
Snaps == Nodes \cup {Dot, DotDot}
\* Maps of children.
Maps == UNION {[X -> Nodes] : X \in SUBSET Names}

\* The types of the variables.
MemNodes == [name : Names \cup {Dot, None}, dir : BOOLEAN, children : Maps,
             data : Seq(Nat), len : Nat]
MemFiles == [node : Nodes \cup {None}, off : 0 .. MaxSize, dirOff : Nat,
             cache : Seq(Snaps) \cup {None}, listed : BOOLEAN, inTable : BOOLEAN]

\* Where a call of Fd_readdir may be.
Reading == {"seek", "readdir", "keep", "page"}
Tasks == [pc : {"idle", "remove", "write", "writev"} \cup Reading, entry : Entries \cup {None},
          path : Seq(Names \cup {Dot, DotDot}), left : Int, entries : Seq(Snaps)]
Walks == [entry : Entries \cup {None}, cookie : 0 .. MaxNodes + 2, seen : Seq(Snaps),
          there : SUBSET Nodes, over : BOOLEAN]

\* A node is as long as its data at most.
Sized(x) == x.len <= Len(x.data) /\ x.len <= MaxSize

\* A child carries the name it is found under, and is one directory's.
Named(nodes) ==
    /\ nodes[Root].name = Dot /\ nodes[Root].dir
    /\ \A n \in Nodes : \A x \in DOMAIN nodes[n].children :
          nodes[nodes[n].children[x]].name = x
    /\ \A n \in Nodes : ~nodes[n].dir => nodes[n].children = <<>>
    /\ \A n, m \in Nodes : n # m =>
          Range(nodes[n].children) \cap Range(nodes[m].children) = {}

\* What has children is itself in the tree.
Rooted(nodes) ==
    \A n \in Nodes : nodes[n].children # <<>> => n \in Reach(nodes, {Root})

\* The nodes are well formed and named; unless the guest is careless, what has
\* children is in the tree.
TreeOK(nodes) ==
    /\ nodes \in [Nodes -> MemNodes]
    /\ \A n \in Nodes : Sized(nodes[n])
    /\ Named(nodes)
    /\ ~Careless => Rooted(nodes)

\* A call between its steps holds its entry.
TasksTyped(tasks) ==
    /\ tasks \in [Callers -> Tasks]
    /\ \A t \in Callers : tasks[t].pc \in {"writev"} \cup Reading <=> tasks[t].entry # None

\* The node of an entry in use is alive.
HeldLive(nodes, entries, tasks) ==
    \A e \in Held(entries, tasks) :
        entries[e].node # None /\ nodes[entries[e].node].name # None

\* What holds of nodes, entries and calls, also before the collector ran.
WorldOK(nodes, entries, tasks) ==
    /\ TreeOK(nodes)
    /\ entries \in [Entries -> MemFiles]
    /\ TasksTyped(tasks)
    /\ HeldLive(nodes, entries, tasks)

\* The inductive invariant.
IInv ==
    /\ WorldOK(node, entry, task)
    /\ \A e \in Entries : e \notin Held(entry, task) => entry[e] = Closed
    /\ walk \in [Threads -> Walks]

---------------------------------------------------------------------------
(* What is reached from the root, and where a path leads.                  *)

\* Reach is the least set that holds its children.
LEMMA ReachLeast ==
  ASSUME NEW nodes, NEW from, NEW S \in SUBSET Nodes, from \subseteq S, HoldsChildren(nodes, S)
  PROVE  Reach(nodes, from) \subseteq S
BY DEF Reach

\* The children of a node are nodes, by name.
LEMMA ChildrenTyped ==
  ASSUME NEW nodes \in [Nodes -> MemNodes], NEW n \in Nodes
  PROVE  /\ nodes[n].children \in [DOMAIN nodes[n].children -> Nodes]
         /\ DOMAIN nodes[n].children \in SUBSET Names
         /\ Range(nodes[n].children) \subseteq Nodes
         /\ \A x \in DOMAIN nodes[n].children : nodes[n].children[x] \in Nodes
<1>1. nodes[n].children \in Maps
  BY DEF MemNodes
<1>2. PICK X \in SUBSET Names : nodes[n].children \in [X -> Nodes]
  BY <1>1 DEF Maps
<1> QED BY <1>2 DEF Range

\* What is reached from some nodes holds them and its children.
LEMMA ReachHolds ==
  ASSUME NEW nodes \in [Nodes -> MemNodes], NEW from \in SUBSET Nodes
  PROVE  /\ Reach(nodes, from) \in SUBSET Nodes
         /\ from \subseteq Reach(nodes, from)
         /\ HoldsChildren(nodes, Reach(nodes, from))
<1>1. HoldsChildren(nodes, Nodes)
  BY ChildrenTyped DEF HoldsChildren
<1>2. ASSUME NEW n \in Reach(nodes, from), NEW c \in Range(nodes[n].children)
      PROVE  c \in Reach(nodes, from)
  <2>1. c \in Nodes
    BY <1>1 DEF HoldsChildren, Reach
  <2> QED BY <2>1 DEF HoldsChildren, Reach
<1> QED BY <1>2 DEF HoldsChildren, Reach

\* The root is a node.
LEMMA RootNode == Root \in Nodes /\ {Root} \in SUBSET Nodes
BY MemFSAssumption DEF Root, Nodes

\* The paths of calls lead to what is in the tree.
InTree == Reach(node, {Root})

\* The tree holds the root and every child of what it holds.
LEMMA InTreeHolds ==
  ASSUME TreeOK(node)
  PROVE  InTree \in SUBSET Nodes /\ Root \in InTree /\ HoldsChildren(node, InTree)
BY ReachHolds, RootNode DEF InTree, TreeOK

\* lookup and lookupParent end in the tree or nowhere, and the file is the child
\* of its parent under its last name.
LEMMA PathFacts ==
  ASSUME TreeOK(node), NEW path \in Seq(Names \cup {Dot, DotDot})
  PROVE  /\ lookup(path) \in InTree \cup {None}
         /\ lookupParent(path) \in InTree \cup {None}
         /\ lookupParent(path) # None =>
               /\ node[lookupParent(path)].dir
               /\ memSplit(path) # <<>>
               /\ Base(path) \in Names
               /\ lookup(path) = Child(lookupParent(path), Base(path))
<1> DEFINE parts == memSplit(path)
<1>1. parts \in Seq(Names)
  BY memSplitType
<1>2. InTree \in SUBSET Nodes /\ Root \in InTree /\ HoldsChildren(node, InTree)
  BY InTreeHolds
<1>3. lookup(path) \in InTree \cup {None}
  BY <1>1, <1>2, WalkedType DEF lookup
<1>4. CASE parts = <<>>
  BY <1>3, <1>4 DEF lookupParent
<1>5. CASE parts # <<>>
  <2>1. Front(parts) \in Seq(Names) /\ Last(parts) \in Names
    BY <1>1, <1>5 DEF Front, Last
  <2>2. Walked(Front(parts)) \in InTree \cup {None}
    <3> HIDE DEF parts
    <3> QED BY <1>2, <2>1, WalkedType
  <2>3. Walked(parts) = Child(Walked(Front(parts)), Last(parts))
    <3> HIDE DEF parts
    <3> QED BY <1>1, <1>2, <1>5, WalkedLast
  <2>4. /\ lookupParent(path) = IF Walked(Front(parts)) # None /\ node[Walked(Front(parts))].dir
                                THEN Walked(Front(parts)) ELSE None
        /\ lookup(path) = Walked(parts) /\ Base(path) = Last(parts)
        /\ memSplit(path) # <<>>
    BY <1>5 DEF lookupParent, lookup, Base
  <2> HIDE DEF parts
  <2> QED BY <1>3, <2>1, <2>2, <2>3, <2>4
<1> QED BY <1>4, <1>5

\* A child that is found is one of the map.
LEMMA ChildIn ==
  ASSUME NEW A \in SUBSET Nodes, HoldsChildren(node, A), NEW p \in A, NEW part,
         Child(p, part) # None
  PROVE  /\ Child(p, part) \in A /\ node[p].dir
         /\ part \in DOMAIN node[p].children
         /\ Child(p, part) = node[p].children[part]
BY DEF Child, HoldsChildren, Range

\* nil is none of the other values.
LEMMA NoneFacts == None \notin Names /\ None \notin Nodes /\ None # Dot /\ None \notin Entries
                   /\ Dot \notin Names /\ None \notin Seq(Snaps)
<1>1. None \notin Nat /\ None \notin Seq(Int) /\ None \notin Entries
  BY MemFSAssumption
<1>2. Snaps \subseteq Int
  BY MemFSAssumption DEF Snaps, Nodes, Dot, DotDot
<1>3. \A s \in Seq(Snaps) : s \in Seq(Int)
  BY <1>2, SeqMonotonic
<1>4. Names \subseteq Nat \ {0} /\ Nodes \subseteq Nat /\ Dot = 0
  BY MemFSAssumption DEF Nodes, Dot
<1>5. None \notin Seq(Snaps)
  BY <1>1, <1>3
<1>6. None \notin Names /\ Dot \notin Names
  BY <1>1, <1>4
<1>7. None \notin Nodes
  BY <1>1, <1>4
<1>8. None # Dot
  BY <1>1, <1>4
<1> QED BY <1>1, <1>5, <1>6, <1>7, <1>8

\* Garbage and a new node are nodes.
LEMMA NewNodes ==
  /\ Garbage \in MemNodes /\ Sized(Garbage)
  /\ \A x \in Names, dir \in BOOLEAN :
        memNode(x, dir) \in MemNodes /\ Sized(memNode(x, dir))
<1>1. <<>> \in Maps
  <2>1. <<>> \in [{} -> Nodes]
    OBVIOUS
  <2>2. {} \in SUBSET Names
    OBVIOUS
  <2> QED BY <2>1, <2>2 DEF Maps
<1> QED BY <1>1, MemFSAssumption DEF Garbage, memNode, MemNodes, Sized

\* The collector keeps the root, what is open, and the children of what it keeps.
LEMMA KeptHolds ==
  ASSUME NEW nodes, NEW entries, NEW tasks, WorldOK(nodes, entries, tasks)
  PROVE  /\ Kept(nodes, entries, tasks) \in SUBSET Nodes
         /\ Root \in Kept(nodes, entries, tasks)
         /\ \A e \in Held(entries, tasks) : entries[e].node \in Kept(nodes, entries, tasks)
         /\ HoldsChildren(nodes, Kept(nodes, entries, tasks))
         /\ Reach(nodes, {Root}) \subseteq Kept(nodes, entries, tasks)
<1> DEFINE held  == Held(entries, tasks)
           snaps == UNION ({Range(entries[e].cache) : e \in {x \in held : entries[x].cache # None}}
                          \cup {Range(tasks[t].entries) : t \in Callers})
           from  == {Root} \cup {entries[e].node : e \in held} \cup (snaps \cap Nodes)
<1>1. Kept(nodes, entries, tasks) = Reach(nodes, from)
  BY DEF Kept
<1>2. \A e \in held : entries[e].node \in Nodes
  BY DEF WorldOK, HeldLive, Held, MemFiles
<1>3. from \in SUBSET Nodes
  BY <1>2, RootNode
<1>4. Root \in from /\ \A e \in held : entries[e].node \in from
  OBVIOUS
<1>5. nodes \in [Nodes -> MemNodes]
  BY DEF WorldOK, TreeOK
<1> HIDE DEF from
<1>6. /\ Reach(nodes, from) \in SUBSET Nodes /\ from \subseteq Reach(nodes, from)
      /\ HoldsChildren(nodes, Reach(nodes, from))
  BY <1>3, <1>5, ReachHolds
<1>7. Reach(nodes, {Root}) \subseteq Reach(nodes, from)
  BY <1>4, <1>6, ReachLeast
<1> QED BY <1>1, <1>4, <1>6, <1>7

\* What holds its children in the tree that is left also did before.
LEMMA SweepKeeps ==
  ASSUME NEW nodes \in [Nodes -> MemNodes], NEW kept \in SUBSET Nodes,
         Root \in kept, HoldsChildren(nodes, kept),
         NEW after, after = [n \in Nodes |-> IF n \in kept THEN nodes[n] ELSE Garbage]
  PROVE  Reach(nodes, {Root}) \subseteq Reach(after, {Root})
<1> DEFINE R == Reach(nodes, {Root})
<1>1. R \in SUBSET Nodes /\ Root \in R /\ HoldsChildren(nodes, R)
  BY ReachHolds, RootNode
<1>2. R \subseteq kept
  BY ReachLeast
<1>3. ASSUME NEW S \in SUBSET Nodes, {Root} \subseteq S, HoldsChildren(after, S)
      PROVE  R \subseteq S
  <2> DEFINE T == S \cap R
  <2> HIDE DEF R
  <2>1. HoldsChildren(nodes, T)
    BY <1>1, <1>2, <1>3 DEF HoldsChildren
  <2>2. T \in SUBSET Nodes /\ {Root} \subseteq T
    BY <1>1, <1>3
  <2> HIDE DEF T
  <2>3. Reach(nodes, {Root}) \subseteq T
    BY <2>1, <2>2, ReachLeast
  <2> QED BY <2>3 DEF T, R
<1> QED BY <1>1, <1>3 DEF Reach

\* The collector disturbs nothing: the world stays well formed and the tree
\* keeps what it reached.
LEMMA SettleOK ==
  ASSUME NEW nodes, NEW entries, NEW tasks, WorldOK(nodes, entries, tasks),
         Settle(nodes, entries, tasks)
  PROVE  /\ WorldOK(node', entry', task')
         /\ Held(entry', task') = Held(entries, tasks)
         /\ \A e \in Entries : e \notin Held(entry', task') => entry'[e] = Closed
         /\ Reach(nodes, {Root}) \subseteq Reach(node', {Root})
<1> DEFINE kept == Kept(nodes, entries, tasks)
           held == Held(entries, tasks)
<1>1. /\ node' = [n \in Nodes |-> IF n \in kept THEN nodes[n] ELSE Garbage]
      /\ entry' = [e \in Entries |-> IF e \in held THEN entries[e] ELSE Closed]
      /\ task' = tasks
  BY DEF Settle
<1>2. /\ kept \in SUBSET Nodes /\ Root \in kept /\ HoldsChildren(nodes, kept)
      /\ \A e \in held : entries[e].node \in kept
  BY KeptHolds
<1> HIDE DEF kept
<1>3. /\ nodes \in [Nodes -> MemNodes] /\ (\A n \in Nodes : Sized(nodes[n])) /\ Named(nodes)
      /\ ~Careless => Rooted(nodes)
  BY DEF WorldOK, TreeOK
<1>4. Reach(nodes, {Root}) \subseteq Reach(node', {Root})
  BY <1>1, <1>2, <1>3, SweepKeeps
<1>5. TreeOK(node')
  <2>1. node' \in [Nodes -> MemNodes] /\ \A n \in Nodes : Sized(node'[n])
    BY <1>1, <1>3, NewNodes
  <2>2. Named(node')
    <3>1. node'[Root].name = Dot /\ node'[Root].dir
      BY <1>1, <1>2, <1>3, RootNode DEF Named
    <3>2. \A n \in Nodes : ~node'[n].dir => node'[n].children = <<>>
      BY <1>1, <1>3 DEF Named, Garbage
    <3>3. ASSUME NEW n \in Nodes, NEW x \in DOMAIN node'[n].children
          PROVE  node'[node'[n].children[x]].name = x
      <4>1. n \in kept /\ node'[n] = nodes[n]
        BY <1>1, <3>3 DEF Garbage
      <4>2. nodes[n].children[x] \in kept
        BY <1>2, <3>3, <4>1 DEF HoldsChildren, Range
      <4> QED BY <1>1, <1>2, <1>3, <4>1, <4>2 DEF Named
    <3>4. ASSUME NEW n \in Nodes, NEW m \in Nodes, n # m
          PROVE  Range(node'[n].children) \cap Range(node'[m].children) = {}
      <4>1. Range(Garbage.children) = {}
        BY DEF Garbage, Range
      <4> QED BY <1>1, <1>3, <3>4, <4>1 DEF Named
    <3> QED BY <3>1, <3>2, <3>3, <3>4 DEF Named
  <2>3. ~Careless => Rooted(node')
    BY <1>1, <1>3, <1>4 DEF Rooted, Garbage
  <2> QED BY <2>1, <2>2, <2>3 DEF TreeOK
<1>6. entry' \in [Entries -> MemFiles]
  <2>1. Closed \in MemFiles
    BY MemFSAssumption DEF Closed, MemFiles
  <2> QED BY <1>1, <2>1 DEF WorldOK
<1>7. Held(entry', task') = held
  BY <1>1 DEF Held, Closed
<1>8. HeldLive(node', entry', task')
  BY <1>1, <1>2, <1>7 DEF HeldLive, WorldOK, Held
<1> QED BY <1>1, <1>4, <1>5, <1>6, <1>7, <1>8 DEF WorldOK

\* What is lost from the tree is one node at most, with nothing in it.
Loses(nodes) ==
    \E C \in SUBSET Nodes : /\ \A c, d \in C : c = d
                            /\ \A c \in C : node[c].children = <<>>
                            /\ InTree \subseteq Reach(nodes, {Root}) \cup C

---------------------------------------------------------------------------
(* Edits of the tree, and the collector.                                   *)

\* A tree that a step may leave.
GoodTree(nodes) ==
    /\ TreeOK(nodes)
    /\ ~Careless => Loses(nodes)
    /\ \A n \in Nodes : node[n].name # None => nodes[n].name # None

\* A change that takes the nodes of C from their directories, none of which has
\* children, takes at most those from the tree.
LEMMA LosesChildless ==
  ASSUME TreeOK(node), NEW nodes, NEW C \in SUBSET Nodes,
         \A c \in C : node[c].children = <<>>,
         \A n \in Nodes : Range(node[n].children) \subseteq Range(nodes[n].children) \cup C
  PROVE  InTree \subseteq Reach(nodes, {Root}) \cup C
<1>1. ASSUME NEW S \in SUBSET Nodes, {Root} \subseteq S, HoldsChildren(nodes, S)
      PROVE  InTree \subseteq S \cup C
  <2> DEFINE T == S \cup C
  <2>1. T \in SUBSET Nodes /\ {Root} \subseteq T
    BY <1>1
  <2>2. ASSUME NEW n \in T PROVE Range(node[n].children) \subseteq T
    <3>1. CASE n \in C
      BY <3>1 DEF Range
    <3>2. CASE n \in S
      <4>1. n \in Nodes /\ Range(nodes[n].children) \subseteq S
        BY <1>1, <3>2 DEF HoldsChildren
      <4> QED BY <4>1
    <3> QED BY <3>1, <3>2
  <2>3. HoldsChildren(node, T)
    BY <2>2 DEF HoldsChildren
  <2> HIDE DEF T
  <2>4. InTree \subseteq T
    BY <2>1, <2>3, ReachLeast DEF InTree
  <2> QED BY <2>4 DEF T
<1>2. InTree \subseteq Nodes
  BY DEF InTree, Reach
<1> QED BY <1>1, <1>2 DEF Reach

\* The nodes of the tree have names.
LEMMA InTreeNamed ==
  ASSUME TreeOK(node), NEW n \in InTree
  PROVE  n \in Nodes /\ node[n].name # None
<1> DEFINE S == {m \in Nodes : node[m].name # None}
<1>1. S \in SUBSET Nodes /\ {Root} \subseteq S
  BY RootNode, NoneFacts DEF TreeOK, Named
<1>2. ASSUME NEW m \in S, NEW c \in Range(node[m].children) PROVE c \in S
  <2>1. PICK x \in DOMAIN node[m].children : c = node[m].children[x]
    BY <1>2 DEF Range
  <2>2. x \in Names /\ c \in Nodes
    BY <2>1, ChildrenTyped DEF TreeOK
  <2>3. node[c].name = x
    BY <2>1 DEF TreeOK, Named
  <2> QED BY <2>2, <2>3, NoneFacts
<1>3. HoldsChildren(node, S)
  BY <1>2 DEF HoldsChildren
<1> HIDE DEF S
<1>4. InTree \subseteq S
  BY <1>1, <1>3, ReachLeast DEF InTree
<1> QED BY <1>4 DEF S

\* A name is added to a map of children.
LEMMA WithType ==
  ASSUME NEW f \in Maps, NEW x \in Names, NEW n \in Nodes
  PROVE  /\ With(f, x, n) \in Maps
         /\ DOMAIN With(f, x, n) = DOMAIN f \cup {x}
         /\ With(f, x, n)[x] = n
         /\ \A y \in DOMAIN f : y # x => With(f, x, n)[y] = f[y]
         /\ With(f, x, n) # <<>>
<1>1. PICK X \in SUBSET Names : f \in [X -> Nodes]
  BY DEF Maps
<1>2. With(f, x, n) \in [X \cup {x} -> Nodes] /\ X \cup {x} \in SUBSET Names
  BY <1>1 DEF With
<1>3. With(f, x, n) \in Maps
  BY <1>2 DEF Maps
<1>4. DOMAIN With(f, x, n) # {}
  BY DEF With
<1> QED BY <1>3, <1>4 DEF With

\* A name is taken from a map of children.
LEMMA WithoutType ==
  ASSUME NEW f \in Maps, NEW x
  PROVE  /\ Without(f, x) \in Maps
         /\ DOMAIN Without(f, x) = DOMAIN f \ {x}
         /\ \A y \in DOMAIN f : y # x => Without(f, x)[y] = f[y]
<1>1. PICK X \in SUBSET Names : f \in [X -> Nodes]
  BY DEF Maps
<1>2. Without(f, x) \in [X \ {x} -> Nodes] /\ X \ {x} \in SUBSET Names
  BY <1>1 DEF Without
<1>3. Without(f, x) \in Maps
  BY <1>2 DEF Maps
<1> QED BY <1>3 DEF Without

\* A node that is made is new in the tree, and takes the place of one at most.
MadeAt(p, x, n, new) == [Put(node, p, x, n) EXCEPT ![n] = new]

\* The children of a node are replaced.
LEMMA ChildrenEdits ==
  ASSUME NEW x \in MemNodes, NEW kids \in Maps
  PROVE  /\ [x EXCEPT !.children = kids] \in MemNodes
         /\ [x EXCEPT !.children = kids].children = kids
         /\ [x EXCEPT !.children = kids].name = x.name
         /\ [x EXCEPT !.children = kids].dir = x.dir
         /\ [x EXCEPT !.children = kids].data = x.data
         /\ [x EXCEPT !.children = kids].len = x.len
BY DEF MemNodes

\* Two nodes with the same fields are one.
LEMMA SameFields ==
  ASSUME NEW x \in MemNodes, NEW y \in MemNodes, x.name = y.name, x.dir = y.dir,
         x.children = y.children, x.data = y.data, x.len = y.len
  PROVE  x = y
<1>1. x = [name |-> x.name, dir |-> x.dir, children |-> x.children, data |-> x.data, len |-> x.len]
  BY DEF MemNodes
<1>2. y = [name |-> y.name, dir |-> y.dir, children |-> y.children, data |-> y.data, len |-> y.len]
  BY DEF MemNodes
<1> QED BY <1>1, <1>2

\* The name of a node is replaced.
LEMMA NameEdits ==
  ASSUME NEW x \in MemNodes, NEW name \in Names
  PROVE  /\ [x EXCEPT !.name = name] \in MemNodes
         /\ [x EXCEPT !.name = name].children = x.children
         /\ [x EXCEPT !.name = name].name = name
         /\ [x EXCEPT !.name = name].dir = x.dir
         /\ [x EXCEPT !.name = name].data = x.data
         /\ [x EXCEPT !.name = name].len = x.len
BY DEF MemNodes

\* A new node under a name of a directory (OpenFile with O_CREATE, Mkdir,
\* WriteFile) leaves a tree that lost one node at most, and no directory with
\* something in it.
LEMMA MadeTree ==
  ASSUME TreeOK(node), NEW p \in InTree, node[p].dir, NEW x \in Names, NEW n \in Fresh,
         NEW new \in MemNodes, Sized(new), new.name = x, new.children = <<>>,
         Child(p, x) # None /\ node[Child(p, x)].children # <<>> => Careless,
         NEW nodes, nodes = MadeAt(p, x, n, new)
  PROVE  GoodTree(nodes)
<1> DEFINE C == {c \in {Child(p, x)} : c # None}
<1>1. /\ node \in [Nodes -> MemNodes] /\ (\A m \in Nodes : Sized(node[m])) /\ Named(node)
      /\ ~Careless => Rooted(node)
  BY DEF TreeOK
<1>2. p \in Nodes /\ n \in Nodes /\ node[n] = Garbage /\ n # p /\ n # Root
  BY <1>1, InTreeNamed, RootNode, NoneFacts DEF Fresh, Garbage, Named
<1> DEFINE old == node[p].children
           kids == With(old, x, n)
<1>3. /\ kids \in Maps /\ DOMAIN kids = DOMAIN old \cup {x} /\ kids[x] = n
      /\ \A y \in DOMAIN old : y # x => kids[y] = old[y]
      /\ kids # <<>>
  <2>1. old \in Maps
    BY <1>1, <1>2 DEF MemNodes
  <2> HIDE DEF old
  <2>2. /\ With(old, x, n) \in Maps
        /\ DOMAIN With(old, x, n) = DOMAIN old \cup {x}
        /\ With(old, x, n)[x] = n
        /\ \A y \in DOMAIN old : y # x => With(old, x, n)[y] = old[y]
        /\ With(old, x, n) # <<>>
    BY <1>2, <2>1, WithType
  <2> QED BY <2>2
<1> HIDE DEF kids
<1>4. /\ nodes \in [Nodes -> MemNodes]
      /\ nodes[n] = new /\ nodes[p] = [node[p] EXCEPT !.children = kids]
      /\ \A m \in Nodes \ {n, p} : nodes[m] = node[m]
  <2>1. node[p] \in MemNodes /\ [node[p] EXCEPT !.children = kids] \in MemNodes
    BY <1>1, <1>2, <1>3, ChildrenEdits
  <2>2. nodes = [node EXCEPT ![p] = [node[p] EXCEPT !.children = kids], ![n] = new]
    BY DEF MadeAt, Put, kids
  <2> QED BY <1>1, <1>2, <2>1, <2>2
<1>5. \A m \in Nodes : Sized(nodes[m])
  <2>1. Sized(nodes[p])
    <3>1. nodes[p].len = node[p].len /\ nodes[p].data = node[p].data
      <4>1. node[p] \in MemNodes /\ kids \in Maps
        BY <1>1, <1>2, <1>3
      <4>2. nodes[p] = [node[p] EXCEPT !.children = kids]
        BY <1>4
      <4> QED BY <4>1, <4>2, ChildrenEdits
    <3> QED BY <1>1, <1>2, <3>1 DEF Sized
  <2> QED BY <1>1, <1>4, <2>1
<1>6. \A m \in Nodes : \A y \in DOMAIN node[m].children :
         node[m].children[y] \in Nodes \ {n} /\ y \in Names
  BY <1>1, <1>2, ChildrenTyped, NoneFacts DEF Named, Garbage
<1>7. /\ \A m \in Nodes \ {n} : nodes[m].name = node[m].name /\ nodes[m].dir = node[m].dir
      /\ \A m \in Nodes \ {n, p} : nodes[m].children = node[m].children
      /\ nodes[p].children = kids /\ nodes[n].children = <<>> /\ nodes[n].name = x
  <2>1. /\ nodes[p].name = node[p].name /\ nodes[p].dir = node[p].dir
        /\ nodes[p].children = kids
    <3>1. node[p] \in MemNodes /\ kids \in Maps
      BY <1>1, <1>2, <1>3
    <3> DEFINE one == [node[p] EXCEPT !.children = kids]
    <3>2. nodes[p] = one
      BY <1>4
    <3>3. one.name = node[p].name /\ one.dir = node[p].dir /\ one.children = kids
      BY <3>1, ChildrenEdits
    <3> HIDE DEF one
    <3> QED BY <3>2, <3>3
  <2>2. nodes[n] = new /\ \A m \in Nodes \ {n, p} : nodes[m] = node[m]
    BY <1>4
  <2>3. /\ \A m \in Nodes \ {n} : nodes[m].name = node[m].name /\ nodes[m].dir = node[m].dir
        /\ \A m \in Nodes \ {n, p} : nodes[m].children = node[m].children
    BY <2>1, <2>2
  <2>4. nodes[n].children = <<>> /\ nodes[n].name = x
    BY <2>2
  <2> QED BY <2>1, <2>3, <2>4
<1>8. Named(nodes)
  <2>1. nodes[Root].name = Dot /\ nodes[Root].dir
    BY <1>1, <1>2, <1>7, RootNode DEF Named
  <2>2. ASSUME NEW m \in Nodes, NEW y \in DOMAIN nodes[m].children
        PROVE  nodes[nodes[m].children[y]].name = y
    <3>1. CASE m = p /\ y = x
      BY <1>3, <1>7, <3>1
    <3>2. CASE ~(m = p /\ y = x)
      <4>1. m # n /\ y \in DOMAIN node[m].children /\ nodes[m].children[y] = node[m].children[y]
        BY <1>2, <1>3, <1>7, <2>2, <3>2
      <4> QED BY <1>1, <1>6, <1>7, <4>1 DEF Named
    <3> QED BY <3>1, <3>2
  <2>3. \A m \in Nodes : ~nodes[m].dir => nodes[m].children = <<>>
    BY <1>1, <1>7 DEF Named
  <2>4. ASSUME NEW m \in Nodes, NEW k \in Nodes, m # k
        PROVE  Range(nodes[m].children) \cap Range(nodes[k].children) = {}
    <3>1. \A l \in Nodes \ {p} : Range(nodes[l].children) \subseteq Range(node[l].children) \ {n}
      BY <1>2, <1>6, <1>7 DEF Range
    <3>2. Range(nodes[p].children) \subseteq Range(node[p].children) \cup {n}
      BY <1>3, <1>7 DEF Range
    <3> QED BY <1>1, <1>2, <2>4, <3>1, <3>2 DEF Named
  <2> QED BY <2>1, <2>2, <2>3, <2>4 DEF Named
<1>9. ASSUME ~Careless
      PROVE  /\ C \in SUBSET Nodes /\ \A c \in C : node[c].children = <<>>
             /\ InTree \subseteq Reach(nodes, {Root}) \cup C /\ p \notin C
  <2>1. C \in SUBSET Nodes /\ \A c \in C : node[c].children = <<>>
    <3>1. HoldsChildren(node, Nodes)
      BY <1>1, ChildrenTyped DEF HoldsChildren
    <3>2. Child(p, x) # None => Child(p, x) \in Nodes
      BY <1>2, <3>1, ChildIn
    <3>3. Child(p, x) # None => node[Child(p, x)].children = <<>>
      BY <1>9
    <3> QED BY <3>2, <3>3
  <2>2. ASSUME NEW m \in Nodes, NEW c \in Range(node[m].children)
        PROVE  c \in Range(nodes[m].children) \cup C
    <3>1. PICK y \in DOMAIN node[m].children : c = node[m].children[y]
      BY <2>2 DEF Range
    <3>2. CASE m = p /\ y = x
      <4>1. c \in Nodes /\ p # None
        BY <1>2, <1>6, <3>1, NoneFacts
      <4>2. c = Child(p, x) /\ c # None
        BY <3>1, <3>2, <4>1, NoneFacts DEF Child
      <4> QED BY <4>2
    <3>3. CASE ~(m = p /\ y = x)
      <4>1. m # n
        BY <1>2, <3>1 DEF Garbage
      <4>2. y \in DOMAIN nodes[m].children /\ nodes[m].children[y] = c
        BY <1>3, <1>7, <3>1, <3>3, <4>1
      <4> QED BY <4>2 DEF Range
    <3> QED BY <3>2, <3>3
  <2>3. InTree \subseteq Reach(nodes, {Root}) \cup C
    <3> HIDE DEF C
    <3> QED BY <2>1, <2>2, LosesChildless
  <2>4. p \notin C
    <3>1. p \in C => x \in DOMAIN node[p].children /\ p = Child(p, x)
      BY NoneFacts DEF Child
    <3>2. p \in C => node[p].children = <<>>
      BY <2>1
    <3> QED BY <3>1, <3>2
  <2> QED BY <2>1, <2>3, <2>4
<1>10. ASSUME ~Careless PROVE Rooted(nodes) /\ Loses(nodes)
  <2>1. ASSUME NEW m \in Nodes, nodes[m].children # <<>> PROVE m \in Reach(nodes, {Root})
    <3>1. CASE m = p
      BY <1>9, <1>10, <3>1
    <3>2. CASE m # p
      <4>1. m # n /\ node[m].children # <<>>
        BY <1>7, <2>1, <3>2
      <4>2. m \in InTree /\ m \notin C
        BY <1>1, <1>9, <1>10, <4>1 DEF Rooted, InTree
      <4> QED BY <1>9, <1>10, <4>2
    <3> QED BY <3>1, <3>2
  <2>2. \A c, d \in C : c = d
    OBVIOUS
  <2> QED BY <1>9, <1>10, <2>1, <2>2 DEF Rooted, Loses
<1>11. \A m \in Nodes : node[m].name # None => nodes[m].name # None
  BY <1>2, <1>7 DEF Garbage
<1> QED BY <1>4, <1>5, <1>8, <1>10, <1>11 DEF GoodTree, TreeOK

\* The tree without one name in one directory.
RemovedAt(p, x) == [node EXCEPT ![p].children = Without(@, x)]

\* Remove of what is removable leaves a tree that lost one node with nothing
\* in it.
LEMMA RemovedTree ==
  ASSUME TreeOK(node), NEW p \in InTree, NEW x, Removable(Child(p, x)),
         NEW nodes, nodes = RemovedAt(p, x)
  PROVE  GoodTree(nodes)
<1> DEFINE c == Child(p, x)
           old == node[p].children
           kids == Without(old, x)
<1>1. /\ node \in [Nodes -> MemNodes] /\ (\A m \in Nodes : Sized(node[m])) /\ Named(node)
      /\ ~Careless => Rooted(node)
  BY DEF TreeOK
<1>2. p \in Nodes /\ node[p] \in MemNodes
  BY <1>1, InTreeNamed
<1>3. /\ c # None /\ c \in Nodes /\ node[p].dir /\ x \in DOMAIN old /\ c = old[x]
      /\ node[c].dir => node[c].children = <<>>
  <2>1. HoldsChildren(node, Nodes)
    BY <1>1, ChildrenTyped DEF HoldsChildren
  <2>2. c # None
    BY DEF Removable
  <2>3. c \in Nodes /\ node[p].dir /\ x \in DOMAIN old /\ c = old[x]
    BY <1>2, <2>1, <2>2, ChildIn
  <2> QED BY <2>2, <2>3 DEF Removable
<1>4. node[c].children = <<>>
  BY <1>1, <1>3 DEF Named
<1>5. /\ kids \in Maps /\ DOMAIN kids = DOMAIN old \ {x}
      /\ \A y \in DOMAIN old : y # x => kids[y] = old[y]
  <2>1. old \in Maps
    BY <1>2 DEF MemNodes
  <2> HIDE DEF old
  <2> QED BY <2>1, WithoutType
<1> HIDE DEF kids, c
<1>6. /\ nodes \in [Nodes -> MemNodes] /\ nodes[p] = [node[p] EXCEPT !.children = kids]
      /\ \A m \in Nodes \ {p} : nodes[m] = node[m]
  BY <1>1, <1>2, <1>5 DEF RemovedAt, kids, MemNodes
<1>7. /\ nodes[p].name = node[p].name /\ nodes[p].dir = node[p].dir
      /\ nodes[p].children = kids /\ nodes[p].len = node[p].len /\ nodes[p].data = node[p].data
  BY <1>2, <1>6 DEF MemNodes
<1>8. \A m \in Nodes : Sized(nodes[m])
  <2>1. Sized(nodes[p])
    BY <1>1, <1>2, <1>7 DEF Sized
  <2> QED BY <1>1, <1>6, <2>1
<1>9. \A m \in Nodes : /\ nodes[m].name = node[m].name /\ nodes[m].dir = node[m].dir
                       /\ \A y \in DOMAIN nodes[m].children :
                             /\ y \in DOMAIN node[m].children
                             /\ nodes[m].children[y] = node[m].children[y]
  BY <1>5, <1>6, <1>7
<1>10. \A m \in Nodes : nodes[m].children # <<>> => node[m].children # <<>>
  BY <1>3, <1>6
<1>11. Named(nodes)
  <2>1. nodes[Root].name = Dot /\ nodes[Root].dir
    BY <1>1, <1>9, RootNode DEF Named
  <2>2. ASSUME NEW m \in Nodes, NEW y \in DOMAIN nodes[m].children
        PROVE  nodes[nodes[m].children[y]].name = y
    <3>1. y \in DOMAIN node[m].children /\ nodes[m].children[y] = node[m].children[y]
      BY <1>9, <2>2
    <3>2. node[m].children[y] \in Nodes /\ node[node[m].children[y]].name = y
      BY <1>1, <3>1, ChildrenTyped DEF Named
    <3> QED BY <1>9, <3>1, <3>2
  <2>3. \A m \in Nodes : ~nodes[m].dir => nodes[m].children = <<>>
    BY <1>1, <1>9, <1>10 DEF Named
  <2>4. \A m \in Nodes : Range(nodes[m].children) \subseteq Range(node[m].children)
    BY <1>9 DEF Range
  <2>5. \A m, k \in Nodes : m # k => Range(nodes[m].children) \cap Range(nodes[k].children) = {}
    BY <1>1, <2>4 DEF Named
  <2> QED BY <2>1, <2>2, <2>3, <2>5 DEF Named
<1>12. InTree \subseteq Reach(nodes, {Root}) \cup {c}
  <2>1. ASSUME NEW m \in Nodes, NEW d \in Range(node[m].children)
        PROVE  d \in Range(nodes[m].children) \cup {c}
    <3>1. PICK y \in DOMAIN node[m].children : d = node[m].children[y]
      BY <2>1 DEF Range
    <3>2. CASE m = p /\ y = x
      BY <1>3, <3>1, <3>2
    <3>3. CASE ~(m = p /\ y = x)
      <4>1. y \in DOMAIN nodes[m].children /\ nodes[m].children[y] = d
        BY <1>5, <1>6, <1>7, <3>1, <3>3
      <4> QED BY <4>1 DEF Range
    <3> QED BY <3>2, <3>3
  <2>2. {c} \in SUBSET Nodes /\ \A d \in {c} : node[d].children = <<>>
    BY <1>3, <1>4
  <2> QED BY <2>1, <2>2, LosesChildless
<1>13. ASSUME ~Careless PROVE Rooted(nodes) /\ Loses(nodes)
  <2>1. Rooted(nodes)
    BY <1>1, <1>4, <1>10, <1>12, <1>13 DEF Rooted, InTree
  <2>2. {c} \in SUBSET Nodes /\ (\A d \in {c} : node[d].children = <<>>)
        /\ \A d, e \in {c} : d = e
    BY <1>3, <1>4
  <2>3. Loses(nodes)
    BY <1>12, <2>2 DEF Loses
  <2> QED BY <2>1, <2>3
<1> QED BY <1>6, <1>8, <1>9, <1>11, <1>13 DEF GoodTree, TreeOK

\* What only files' contents differ in.
LEMMA SameShape ==
  ASSUME TreeOK(node), NEW nodes \in [Nodes -> MemNodes],
         \A n \in Nodes : /\ Sized(nodes[n])
                          /\ nodes[n].name = node[n].name /\ nodes[n].dir = node[n].dir
                          /\ nodes[n].children = node[n].children
  PROVE  GoodTree(nodes)
<1>1. Named(nodes)
  <2>1. \A n \in Nodes : \A x \in DOMAIN node[n].children : node[n].children[x] \in Nodes
    BY ChildrenTyped DEF TreeOK
  <2>2. nodes[Root].name = Dot /\ nodes[Root].dir
    BY RootNode DEF TreeOK, Named
  <2>3. \A n \in Nodes : \A x \in DOMAIN nodes[n].children :
           nodes[nodes[n].children[x]].name = x
    BY <2>1 DEF TreeOK, Named
  <2>4. /\ \A n \in Nodes : ~nodes[n].dir => nodes[n].children = <<>>
        /\ \A n, m \in Nodes : n # m => Range(nodes[n].children) \cap Range(nodes[m].children) = {}
    BY DEF TreeOK, Named
  <2> QED BY <2>2, <2>3, <2>4 DEF Named
<1>2. InTree \subseteq Reach(nodes, {Root}) \cup {}
  BY LosesChildless
<1>3. Loses(nodes)
  <2>1. {} \in SUBSET Nodes /\ (\A c \in {} : node[c].children = <<>>) /\ \A c, d \in {} : c = d
    OBVIOUS
  <2> QED BY <1>2, <2>1 DEF Loses
<1>4. ~Careless => Rooted(nodes)
  BY <1>2 DEF TreeOK, Rooted, InTree
<1> QED BY <1>1, <1>3, <1>4 DEF GoodTree, TreeOK

\* Rename takes a node from one directory and puts it into another, under a
\* new name.
LEMMA MovedShape ==
  ASSUME node \in [Nodes -> MemNodes], NEW p \in Nodes, NEW q \in Nodes, NEW old, NEW new \in Names,
         NEW n \in Nodes, n = node[p].children[old], NEW nodes, nodes = Moved(p, old, q, new),
         NEW rest, rest = [m \in Nodes |-> IF m = p THEN Without(node[p].children, old)
                                           ELSE node[m].children]
  PROVE  /\ nodes \in [Nodes -> MemNodes]
         /\ \A m \in Nodes : /\ nodes[m].name = IF m = n THEN new ELSE node[m].name
                             /\ nodes[m].dir = node[m].dir
                             /\ nodes[m].data = node[m].data /\ nodes[m].len = node[m].len
                             /\ m # q => nodes[m].children = rest[m]
         /\ nodes[q].children = With(rest[q], new, n)
<1> DEFINE one == [node EXCEPT ![p].children = Without(@, old)]
           taken == [one EXCEPT ![n].name = new]
           kids == With(rest[q], new, n)
<1>1. \A m \in Nodes : rest[m] \in Maps
  BY WithoutType DEF MemNodes
<1>2. /\ one \in [Nodes -> MemNodes]
      /\ \A m \in Nodes : /\ one[m].name = node[m].name /\ one[m].dir = node[m].dir
                          /\ one[m].data = node[m].data /\ one[m].len = node[m].len
                          /\ one[m].children = rest[m]
  <2>1. one = [node EXCEPT ![p] = [node[p] EXCEPT !.children = rest[p]]]
    OBVIOUS
  <2> HIDE DEF one
  <2> DEFINE x == [node[p] EXCEPT !.children = rest[p]]
  <2>2. /\ x \in MemNodes /\ x.name = node[p].name /\ x.dir = node[p].dir
        /\ x.data = node[p].data /\ x.len = node[p].len /\ x.children = rest[p]
    <3>1. node[p] \in MemNodes /\ rest[p] \in Maps
      BY <1>1
    <3> HIDE DEF one
    <3> QED BY <3>1, ChildrenEdits
  <2>3. one = [node EXCEPT ![p] = x]
    BY <2>1
  <2> HIDE DEF x
  <2> QED BY <2>2, <2>3
<1> HIDE DEF one
<1>3. /\ taken \in [Nodes -> MemNodes]
      /\ \A m \in Nodes : /\ taken[m].name = IF m = n THEN new ELSE node[m].name
                          /\ taken[m].dir = node[m].dir
                          /\ taken[m].data = node[m].data /\ taken[m].len = node[m].len
                          /\ taken[m].children = rest[m]
  <2>1. taken = [one EXCEPT ![n] = [one[n] EXCEPT !.name = new]]
    OBVIOUS
  <2> HIDE DEF taken
  <2> DEFINE x == [one[n] EXCEPT !.name = new]
  <2>2. /\ x \in MemNodes /\ x.name = new /\ x.dir = one[n].dir
        /\ x.data = one[n].data /\ x.len = one[n].len /\ x.children = one[n].children
    <3>1. one[n] \in MemNodes
      BY <1>2
    <3> QED BY <3>1, NameEdits
  <2>3. taken = [one EXCEPT ![n] = x]
    BY <2>1
  <2> HIDE DEF x, taken
  <2>4. taken[n] = x /\ (\A m \in Nodes \ {n} : taken[m] = one[m]) /\ taken \in [Nodes -> MemNodes]
    BY <1>2, <2>2, <2>3
  <2>5. /\ x.name = new /\ x.dir = node[n].dir /\ x.data = node[n].data /\ x.len = node[n].len
        /\ x.children = rest[n]
    BY <1>2, <2>2
  <2> QED BY <1>2, <2>4, <2>5
<1> HIDE DEF taken
<1>4. nodes = [taken EXCEPT ![q] = [taken[q] EXCEPT !.children = kids]]
  <2>1. nodes = Put(taken, q, new, n)
    BY DEF Moved, taken, one
  <2> QED BY <1>3, <2>1 DEF Put
<1>5. kids \in Maps /\ taken[q] \in MemNodes
  BY <1>1, <1>3, WithType
<1> HIDE DEF kids
<1>6. /\ nodes \in [Nodes -> MemNodes]
      /\ nodes[q].name = taken[q].name /\ nodes[q].dir = taken[q].dir
      /\ nodes[q].data = taken[q].data /\ nodes[q].len = taken[q].len
      /\ nodes[q].children = kids
      /\ \A m \in Nodes \ {q} : nodes[m] = taken[m]
  <2> DEFINE x == [taken[q] EXCEPT !.children = kids]
  <2>1. /\ x \in MemNodes /\ x.name = taken[q].name /\ x.dir = taken[q].dir
        /\ x.data = taken[q].data /\ x.len = taken[q].len /\ x.children = kids
    BY <1>5, ChildrenEdits
  <2>2. nodes = [taken EXCEPT ![q] = x]
    BY <1>4
  <2> HIDE DEF x
  <2> QED BY <1>3, <2>1, <2>2
<1> QED BY <1>3, <1>6 DEF kids

\* Rename leaves a tree that lost one node at most: what was in its new place.
LEMMA MovedTree ==
  ASSUME TreeOK(node), NEW p \in InTree, NEW q \in InTree, node[q].dir,
         NEW old, Child(p, old) # None, NEW new \in Names,
         Harmful(p, old, q, new) => Careless,
         NEW nodes, nodes = Moved(p, old, q, new)
  PROVE  GoodTree(nodes)
<1> DEFINE n == Child(p, old)
           C == {c \in {Child(q, new)} : c # None}
           rest == [m \in Nodes |-> IF m = p THEN Without(node[p].children, old)
                                    ELSE node[m].children]
           kids == With(rest[q], new, n)
<1>1. /\ node \in [Nodes -> MemNodes] /\ (\A m \in Nodes : Sized(node[m])) /\ Named(node)
      /\ ~Careless => Rooted(node)
  BY DEF TreeOK
<1>2. p \in Nodes /\ q \in Nodes
  BY InTreeNamed
<1>3. HoldsChildren(node, Nodes)
  BY <1>1, ChildrenTyped DEF HoldsChildren
<1>4. n \in Nodes /\ old \in DOMAIN node[p].children /\ n = node[p].children[old]
  BY <1>2, <1>3, ChildIn
<1>5. \A m \in Nodes : \A y \in DOMAIN node[m].children : node[m].children[y] \in Nodes /\ y \in Names
  BY <1>1, ChildrenTyped
<1>6. node[n].name = old /\ n # Root
  BY <1>1, <1>2, <1>4, <1>5, RootNode, NoneFacts DEF Named
<1>7. \A m \in Nodes : node[m].children \in Maps
  BY <1>1 DEF MemNodes
<1>8. \A m \in Nodes : /\ rest[m] \in Maps
                       /\ DOMAIN rest[m] = IF m = p THEN DOMAIN node[p].children \ {old}
                                           ELSE DOMAIN node[m].children
                       /\ \A y \in DOMAIN rest[m] : rest[m][y] = node[m].children[y]
  <2>1. /\ Without(node[p].children, old) \in Maps
        /\ DOMAIN Without(node[p].children, old) = DOMAIN node[p].children \ {old}
        /\ \A y \in DOMAIN node[p].children :
              y # old => Without(node[p].children, old)[y] = node[p].children[y]
    <3>1. node[p].children \in Maps
      BY <1>2, <1>7
    <3> QED BY <3>1, WithoutType
  <2>2. rest[p] = Without(node[p].children, old) /\ \A m \in Nodes \ {p} : rest[m] = node[m].children
    BY <1>2
  <2> HIDE DEF rest
  <2> QED BY <1>2, <1>7, <2>1, <2>2
<1>9. /\ nodes \in [Nodes -> MemNodes]
      /\ \A m \in Nodes : /\ nodes[m].name = IF m = n THEN new ELSE node[m].name
                          /\ nodes[m].dir = node[m].dir
                          /\ nodes[m].data = node[m].data /\ nodes[m].len = node[m].len
                          /\ m # q => nodes[m].children = rest[m]
      /\ nodes[q].children = kids
  <2>1. rest = [m \in Nodes |-> IF m = p THEN Without(node[p].children, old) ELSE node[m].children]
    OBVIOUS
  <2> HIDE DEF n, rest
  <2> QED BY <1>1, <1>2, <1>4, <2>1, MovedShape
<1>10. /\ kids \in Maps /\ DOMAIN kids = DOMAIN rest[q] \cup {new} /\ kids[new] = n
       /\ \A y \in DOMAIN rest[q] : y # new => kids[y] = rest[q][y]
  <2> DEFINE r == rest[q]
  <2>1. r \in Maps
    BY <1>2, <1>8
  <2> HIDE DEF n, r, rest
  <2>2. /\ With(r, new, n) \in Maps /\ DOMAIN With(r, new, n) = DOMAIN r \cup {new}
        /\ With(r, new, n)[new] = n
        /\ \A y \in DOMAIN r : y # new => With(r, new, n)[y] = r[y]
    <3>1. n \in Nodes
      BY <1>4
    <3>2. With(r, new, n) \in Maps
      BY <2>1, <3>1, WithType
    <3>4. DOMAIN With(r, new, n) = DOMAIN r \cup {new}
      BY DEF With
    <3>3. With(r, new, n)[new] = n
      BY <2>1, <3>1, WithType
    <3>5. \A y \in DOMAIN r : y # new => With(r, new, n)[y] = r[y]
      BY <2>1, <3>1, WithType
    <3> QED BY <3>2, <3>3, <3>4, <3>5
  <2> QED BY <2>2 DEF r
<1> HIDE DEF kids, rest, n
<1>11. \A m \in Nodes : Sized(nodes[m])
  BY <1>1, <1>9 DEF Sized
\* The node is nowhere else.
<1>12. ASSUME NEW m \in Nodes, NEW y \in DOMAIN rest[m]
       PROVE  /\ y \in DOMAIN node[m].children /\ rest[m][y] = node[m].children[y]
              /\ rest[m][y] \in Nodes \ {n} /\ node[rest[m][y]].name = y
  <2>1. y \in DOMAIN node[m].children /\ rest[m][y] = node[m].children[y]
    BY <1>8, <1>12
  <2>2. rest[m][y] \in Nodes /\ node[rest[m][y]].name = y
    BY <1>1, <1>5, <2>1 DEF Named
  <2>3. CASE m = p
    <3>1. y # old
      BY <1>8, <1>12, <2>3
    <3> QED BY <1>6, <2>1, <2>2, <3>1
  <2>4. CASE m # p
    <3>1. n \in Range(node[p].children) /\ rest[m][y] \in Range(node[m].children)
      BY <1>4, <2>1 DEF Range
    <3> QED BY <1>1, <1>2, <2>1, <2>2, <2>4, <3>1 DEF Named
  <2> QED BY <2>3, <2>4
<1>13. Named(nodes)
  <2>1. nodes[Root].name = Dot /\ nodes[Root].dir
    BY <1>1, <1>6, <1>9, RootNode DEF Named
  <2>2. ASSUME NEW m \in Nodes, NEW y \in DOMAIN nodes[m].children
        PROVE  nodes[nodes[m].children[y]].name = y
    <3>1. CASE m = q /\ y = new
      BY <1>4, <1>9, <1>10, <3>1
    <3>2. CASE ~(m = q /\ y = new)
      <4>1. y \in DOMAIN rest[m] /\ nodes[m].children[y] = rest[m][y]
        BY <1>9, <1>10, <2>2, <3>2
      <4> QED BY <1>9, <1>12, <4>1
    <3> QED BY <3>1, <3>2
  <2>3. ASSUME NEW m \in Nodes, ~nodes[m].dir PROVE nodes[m].children = <<>>
    <3>1. m # q /\ node[m].children = <<>>
      BY <1>1, <1>9, <2>3 DEF Named
    <3>2. m # p
      BY <1>4, <3>1
    <3> QED BY <1>9, <3>1, <3>2 DEF rest
  <2>4. ASSUME NEW m \in Nodes, NEW k \in Nodes, m # k
        PROVE  Range(nodes[m].children) \cap Range(nodes[k].children) = {}
    <3>1. \A l \in Nodes : Range(rest[l]) \subseteq Range(node[l].children) \ {n}
      BY <1>12 DEF Range
    <3>2. Range(kids) \subseteq Range(rest[q]) \cup {n}
      BY <1>10 DEF Range
    <3>3. \A l \in Nodes \ {q} : Range(nodes[l].children) \subseteq Range(node[l].children) \ {n}
      BY <1>9, <3>1
    <3>4. Range(nodes[q].children) \subseteq Range(node[q].children) \cup {n}
      BY <1>2, <1>9, <3>1, <3>2
    <3> QED BY <1>1, <2>4, <3>3, <3>4 DEF Named
  <2> QED BY <2>1, <2>2, <2>3, <2>4 DEF Named
<1>14. ASSUME ~Careless
       PROVE  /\ C \in SUBSET Nodes /\ (\A c \in C : node[c].children = <<>>) /\ q \notin C
              /\ q \notin Reach(node, {n})
  <2>1. q \notin Reach(node, {n}) /\ (Child(q, new) # None => node[Child(q, new)].children = <<>>)
    BY <1>14 DEF Harmful, n
  <2>2. Child(q, new) # None => Child(q, new) \in Nodes /\ new \in DOMAIN node[q].children
    BY <1>2, <1>3, ChildIn
  <2> QED BY <2>1, <2>2
<1> HIDE DEF C
<1>15. ASSUME NEW m \in Nodes
       PROVE  Range(node[m].children) \subseteq Range(nodes[m].children) \cup C \cup {n}
  <2>1. ASSUME NEW c \in Range(node[m].children), c # n
        PROVE  c \in Range(nodes[m].children) \cup C
    <3>1. PICK y \in DOMAIN node[m].children : c = node[m].children[y]
      BY <2>1 DEF Range
    <3>2. y \in DOMAIN rest[m] /\ rest[m][y] = c
      BY <1>4, <1>8, <2>1, <3>1
    <3>3. CASE m = q /\ y = new
      <4>1. c \in Nodes /\ node[q].dir
        BY <1>5, <3>1
      <4>2. c = Child(q, new)
        BY <1>2, <3>1, <3>3, <4>1, NoneFacts DEF Child
      <4> QED BY <4>1, <4>2, NoneFacts DEF C
    <3>4. CASE ~(m = q /\ y = new)
      <4>1. y \in DOMAIN nodes[m].children /\ nodes[m].children[y] = c
        BY <1>9, <1>10, <3>2, <3>4
      <4> QED BY <4>1 DEF Range
    <3> QED BY <3>3, <3>4
  <2> QED BY <2>1
<1>16. ASSUME ~Careless, NEW S \in SUBSET Nodes, {Root} \subseteq S, HoldsChildren(nodes, S)
       PROVE  InTree \subseteq S \cup C
  <2> DEFINE D == Reach(node, {n})
             T1 == S \cup C \cup D
             T2 == S \cup C
  <2>1. D \in SUBSET Nodes /\ n \in D /\ HoldsChildren(node, D)
    BY <1>1, <1>4, ReachHolds
  <2>2. q \notin D /\ q \notin C /\ C \in SUBSET Nodes /\ \A c \in C : node[c].children = <<>>
    BY <1>14, <1>16
  <2> HIDE DEF D
  <2>3. \A m \in S : Range(node[m].children) \subseteq S \cup C \cup {n}
    BY <1>15, <1>16 DEF HoldsChildren
  <2>4. \A c \in C : Range(node[c].children) = {}
    BY <2>2 DEF Range
  <2>5. T1 \in SUBSET Nodes /\ {Root} \subseteq T1 /\ HoldsChildren(node, T1)
    BY <1>16, <2>1, <2>2, <2>3, <2>4 DEF HoldsChildren
  <2>6. InTree \subseteq T1
    <3> HIDE DEF T1
    <3> QED BY <2>5, ReachLeast DEF InTree
  <2>7. q \in S
    BY <2>2, <2>6
  <2>8. n \in S
    <3>1. n \in Range(nodes[q].children)
      BY <1>9, <1>10 DEF Range
    <3> QED BY <1>16, <2>7, <3>1 DEF HoldsChildren
  <2>9. T2 \in SUBSET Nodes /\ {Root} \subseteq T2 /\ HoldsChildren(node, T2)
    BY <1>16, <2>2, <2>3, <2>4, <2>8 DEF HoldsChildren
  <2> HIDE DEF T2
  <2>10. InTree \subseteq T2
    BY <2>9, ReachLeast DEF InTree
  <2> QED BY <2>10 DEF T2
<1>17. ~Careless => InTree \subseteq Reach(nodes, {Root}) \cup C
  BY <1>16, InTreeNamed DEF Reach
<1>18. ASSUME ~Careless PROVE Rooted(nodes) /\ Loses(nodes)
  <2>1. ASSUME NEW m \in Nodes, nodes[m].children # <<>> PROVE m \in Reach(nodes, {Root})
    <3>1. CASE m = q
      BY <1>14, <1>17, <1>18, <3>1
    <3>2. CASE m # q
      <4>1. node[m].children # <<>>
        BY <1>4, <1>9, <2>1, <3>2 DEF rest
      <4>2. m \in InTree /\ m \notin C
        BY <1>1, <1>14, <1>18, <4>1 DEF Rooted, InTree
      <4> QED BY <1>17, <1>18, <4>2
    <3> QED BY <3>1, <3>2
  <2>2. \A c, d \in C : c = d
    BY DEF C
  <2> QED BY <1>14, <1>17, <1>18, <2>1, <2>2 DEF Rooted, Loses
<1>19. \A m \in Nodes : node[m].name # None => nodes[m].name # None
  BY <1>9, NoneFacts
<1> QED BY <1>9, <1>11, <1>13, <1>18, <1>19 DEF GoodTree, TreeOK

\* Every position of a finite set of names has its name.
LEMMA NthFacts ==
  ASSUME NEW S \in SUBSET Nat, IsFiniteSet(S)
  PROVE  /\ Cardinality(S) \in Nat
         /\ \A i \in 1 .. Cardinality(S) : Nth(S, i) \in S
         /\ \A i, j \in 1 .. Cardinality(S) : Nth(S, i) = Nth(S, j) => i = j
         /\ \A x \in S : \E i \in 1 .. Cardinality(S) : Nth(S, i) = x
<1> DEFINE Upto(x) == {y \in S : y <= x}
           rank == [x \in S |-> Cardinality(Upto(x))]
           T == 1 .. Cardinality(S)
<1>1. Cardinality(S) \in Nat
  BY FS_CardinalityType
<1>2. ASSUME NEW x \in S
      PROVE  IsFiniteSet(Upto(x)) /\ Cardinality(Upto(x)) \in T
  <2>1. Upto(x) \in SUBSET S /\ x \in Upto(x)
    OBVIOUS
  <2> HIDE DEF Upto
  <2>2. IsFiniteSet(Upto(x)) /\ Cardinality(Upto(x)) <= Cardinality(S)
    BY <2>1, FS_Subset
  <2>3. Cardinality(Upto(x)) \in Nat
    BY <2>2, FS_CardinalityType
  <2>4. Cardinality(Upto(x)) # 0
    BY <2>1, <2>2, FS_EmptySet
  <2> QED BY <1>1, <2>2, <2>3, <2>4
<1>3. ASSUME NEW x \in S, NEW z \in S, x < z
      PROVE  rank[x] # rank[z]
  <2>1. Upto(x) \in SUBSET Upto(z) /\ z \in Upto(z) /\ z \notin Upto(x)
    <3>1. x \in Nat /\ z \in Nat /\ \A y \in S : y \in Nat
      OBVIOUS
    <3>2. \A y \in S : y <= x => y <= z
      BY <1>3, <3>1
    <3>3. z <= z /\ ~(z <= x)
      BY <1>3, <3>1
    <3> QED BY <3>2, <3>3
  <2>2. IsFiniteSet(Upto(z))
    BY <1>2
  <2>3. rank[x] = Cardinality(Upto(x)) /\ rank[z] = Cardinality(Upto(z))
    OBVIOUS
  <2> HIDE DEF Upto
  <2>4. Cardinality(Upto(x)) # Cardinality(Upto(z))
    BY <2>1, <2>2, FS_Subset
  <2> QED BY <2>3, <2>4
<1>4. rank \in Injection(S, T)
  <2>1. rank \in [S -> T]
    BY <1>2
  <2>2. \A x, z \in S : rank[x] = rank[z] => x = z
    <3> HIDE DEF rank
    <3>1. \A x, z \in S : x < z \/ z < x \/ x = z
      OBVIOUS
    <3> QED BY <1>3, <3>1
  <2> HIDE DEF rank, T
  <2> QED BY <2>1, <2>2 DEF Injection, IsInjective
<1>5. rank \in Surjection(S, T)
  <2>1. IsFiniteSet(T) /\ Cardinality(T) = Cardinality(S)
    BY <1>1, FS_Interval
  <2> HIDE DEF rank, T
  <2> QED BY <1>4, <2>1, FS_Injection
<1>6. ASSUME NEW i \in T PROVE Nth(S, i) \in S /\ rank[Nth(S, i)] = i
  <2>1. PICK x \in S : rank[x] = i
    <3> HIDE DEF rank, T
    <3> QED BY <1>5 DEF Surjection
  <2>2. \E z \in S : Cardinality({y \in S : y <= z}) = i
    BY <2>1
  <2> QED BY <2>2 DEF Nth
<1>7. ASSUME NEW x \in S PROVE rank[x] \in T /\ Nth(S, rank[x]) = x
  <2>1. rank[x] \in T
    BY <1>2
  <2>2. Nth(S, rank[x]) \in S /\ rank[Nth(S, rank[x])] = rank[x]
    <3> HIDE DEF rank, T
    <3> QED BY <1>6, <2>1
  <2> HIDE DEF rank
  <2> QED BY <1>4, <2>1, <2>2 DEF Injection, IsInjective
<1> HIDE DEF rank
<1> QED BY <1>1, <1>6, <1>7

\* A directory has finitely many names, each for one node.
LEMMA ChildrenInjective ==
  ASSUME TreeOK(node), NEW n \in Nodes
  PROVE  /\ \A x, y \in DOMAIN node[n].children : node[n].children[x] = node[n].children[y] => x = y
         /\ IsFiniteSet(DOMAIN node[n].children)
         /\ DOMAIN node[n].children \in SUBSET Nat
<1> DEFINE c == node[n].children
           X == DOMAIN c
<1>1. c \in [X -> Nodes] /\ X \in SUBSET Names
  BY ChildrenTyped DEF TreeOK
<1>2. \A x \in X : node[c[x]].name = x
  BY DEF TreeOK, Named
<1>3. \A x, y \in X : c[x] = c[y] => x = y
  BY <1>2
<1>4. c \in Injection(X, Nodes)
  <2> HIDE DEF c
  <2> QED BY <1>1, <1>3 DEF Injection, IsInjective
<1>5. IsFiniteSet(Nodes)
  BY MemFSAssumption, FS_Interval DEF Nodes
<1>6. IsFiniteSet(X)
  <2> HIDE DEF c, X
  <2> QED BY <1>4, <1>5, FS_Injection
<1> QED BY <1>1, <1>3, <1>6, MemFSAssumption

\* ReadDir from the start lists every child, each once.
LEMMA ListingFacts ==
  ASSUME TreeOK(node), NEW n \in Nodes, NEW d \in Nat
  PROVE  /\ Cardinality(DOMAIN node[n].children) \in Nat
         /\ Listing(n, d) \in Seq(Nodes)
         /\ Range(Listing(n, 0)) = Range(node[n].children)
         /\ \A i, j \in DOMAIN Listing(n, 0) : Listing(n, 0)[i] = Listing(n, 0)[j] => i = j
<1> DEFINE c == node[n].children
           X == DOMAIN c
           k == Cardinality(X)
<1>1. /\ \A x, y \in X : c[x] = c[y] => x = y
      /\ IsFiniteSet(X) /\ X \in SUBSET Nat /\ c \in [X -> Nodes]
  BY ChildrenInjective, ChildrenTyped DEF TreeOK
<1> HIDE DEF c, X
<1>2. /\ k \in Nat
      /\ \A i \in 1 .. k : Nth(X, i) \in X
      /\ \A i, j \in 1 .. k : Nth(X, i) = Nth(X, j) => i = j
      /\ \A x \in X : \E i \in 1 .. k : Nth(X, i) = x
  BY <1>1, NthFacts
<1>3. \A e \in Nat : Listing(n, e) = [i \in 1 .. k - e |-> c[Nth(X, e + i)]]
  BY DEF Listing, c, X
<1> HIDE DEF k
<1>4. Listing(n, d) \in Seq(Nodes)
  <2> DEFINE m == IF k - d \in Nat THEN k - d ELSE 0
  <2>1. m \in Nat /\ 1 .. k - d = 1 .. m
    BY <1>2
  <2>2. \A i \in 1 .. m : d + i \in 1 .. k
    BY <1>2
  <2> HIDE DEF m
  <2>3. Listing(n, d) = [i \in 1 .. m |-> c[Nth(X, d + i)]]
    BY <1>3, <2>1
  <2>4. Listing(n, d) \in [1 .. m -> Nodes]
    BY <1>1, <1>2, <2>2, <2>3
  <2> QED BY <2>1, <2>4, SeqDef
<1> DEFINE s == Listing(n, 0)
<1>5. DOMAIN s = 1 .. k /\ \A i \in 1 .. k : s[i] = c[Nth(X, i)]
  <2>1. s = [i \in 1 .. k - 0 |-> c[Nth(X, 0 + i)]]
    BY <1>3
  <2> HIDE DEF s
  <2>2. k - 0 = k /\ \A i \in 1 .. k : 0 + i = i
    BY <1>2
  <2> QED BY <2>1, <2>2
<1> HIDE DEF s
<1>6. Range(s) = Range(c)
  <2>1. \A i \in 1 .. k : s[i] \in Range(c)
    BY <1>2, <1>5 DEF Range, X
  <2>2. ASSUME NEW x \in X PROVE c[x] \in Range(s)
    <3>1. PICK i \in 1 .. k : Nth(X, i) = x
      BY <1>2
    <3> QED BY <1>5, <3>1 DEF Range
  <2> QED BY <1>5, <2>1, <2>2 DEF Range, X
<1>7. ASSUME NEW i \in DOMAIN s, NEW j \in DOMAIN s, s[i] = s[j]
      PROVE  i = j
  <2>1. i \in 1 .. k /\ j \in 1 .. k
    BY <1>5
  <2>2. Nth(X, i) \in X /\ Nth(X, j) \in X /\ c[Nth(X, i)] = c[Nth(X, j)]
    BY <1>2, <1>5, <1>7, <2>1
  <2> QED BY <1>1, <1>2, <2>1, <2>2
<1> QED BY <1>2, <1>4, <1>6, <1>7 DEF s, c, X, k

\* What one step leaves: the invariant, and a tree that lost at most a node
\* with nothing in it.
StepOK == IInv' /\ (~Careless => Loses(node'))

---------------------------------------------------------------------------
(* Each call keeps the tree.                                               *)

\* The calls that hold an entry between their steps.
InFlight == {"writev"} \cup Reading

\* The parts of the invariant, one by one.
LEMMA InvFacts ==
  ASSUME IInv
  PROVE  /\ TreeOK(node) /\ node \in [Nodes -> MemNodes] /\ entry \in [Entries -> MemFiles]
         /\ task \in [Callers -> Tasks] /\ walk \in [Threads -> Walks]
         /\ TasksTyped(task) /\ HeldLive(node, entry, task)
         /\ \A t \in Callers : task[t].pc \in InFlight <=> task[t].entry # None
         /\ \A e \in Entries : e \notin Held(entry, task) => entry[e] = Closed
BY DEF IInv, WorldOK, TreeOK, TasksTyped, InFlight

\* An idle call holds nothing.
LEMMA Idles ==
  /\ Idle \in Tasks /\ Idle.entry = None /\ Idle.pc \notin InFlight /\ Idle.entries = <<>>
BY DEF Idle, Tasks, InFlight, Reading

\* A caller's call is replaced by a well-formed one.
LEMMA TaskEdit ==
  ASSUME TasksTyped(task), NEW t \in Callers, NEW x \in Tasks, x.pc \in InFlight <=> x.entry # None,
         NEW tasks, tasks = [task EXCEPT ![t] = x]
  PROVE  TasksTyped(tasks)
BY DEF TasksTyped, InFlight

\* A change of the tree and then the collector: the whole of a step.
LEMMA SettleStep ==
  ASSUME IInv, NEW nodes, GoodTree(nodes), NEW entries, NEW tasks,
         WorldOK(nodes, entries, tasks), Settle(nodes, entries, tasks), walk' \in [Threads -> Walks]
  PROVE  StepOK
<1>1. /\ WorldOK(node', entry', task')
      /\ \A e \in Entries : e \notin Held(entry', task') => entry'[e] = Closed
      /\ Reach(nodes, {Root}) \subseteq Reach(node', {Root})
  BY SettleOK
<1>2. IInv'
  BY <1>1 DEF IInv
<1>3. Loses(nodes) => Loses(node')
  BY <1>1 DEF Loses
<1> QED BY <1>2, <1>3 DEF StepOK, GoodTree

\* The tree that does not change is a good one.
LEMMA SameTree ==
  ASSUME TreeOK(node)
  PROVE  GoodTree(node)
BY SameShape DEF TreeOK

\* A step that neither changes the tree nor what is held.
LEMMA PlainStep ==
  ASSUME IInv, node' = node, entry' \in [Entries -> MemFiles], TasksTyped(task'),
         walk' \in [Threads -> Walks], Held(entry', task') = Held(entry, task),
         \A e \in Entries : IF e \in Held(entry, task) THEN entry'[e].node = entry[e].node
                            ELSE entry'[e] = entry[e]
  PROVE  StepOK
<1>1. TreeOK(node) /\ HeldLive(node, entry, task)
      /\ \A e \in Entries : e \notin Held(entry, task) => entry[e] = Closed
  BY InvFacts
<1>2. HeldLive(node', entry', task')
  BY <1>1 DEF HeldLive, Held
<1>3. TreeOK(node') /\ ~Careless => Loses(node')
  BY <1>1, SameTree DEF GoodTree
<1> QED BY <1>1, <1>2, <1>3 DEF StepOK, IInv, WorldOK

\* Nothing new is held.
LEMMA SameHolders ==
  ASSUME IInv, NEW nodes, GoodTree(nodes), NEW entries \in [Entries -> MemFiles],
         NEW tasks, TasksTyped(tasks),
         \A e \in Entries : /\ entries[e].node = entry[e].node
                            /\ entries[e].inTable => entry[e].inTable,
         \A t \in Callers : tasks[t].entry \in {None, task[t].entry}
  PROVE  WorldOK(nodes, entries, tasks)
<1>1. HeldLive(node, entry, task) /\ entry \in [Entries -> MemFiles]
  BY InvFacts
<1>2. \A e \in Held(entries, tasks) : e \in Held(entry, task)
  BY NoneFacts DEF Held
<1>3. \A e \in Held(entry, task) : entry[e].node \in Nodes
  BY <1>1 DEF HeldLive, Held, MemFiles
<1>4. HeldLive(nodes, entries, tasks)
  BY <1>1, <1>2, <1>3 DEF HeldLive, GoodTree, Held
<1> QED BY <1>4 DEF WorldOK, GoodTree

\* An entry is opened on a node that is alive.
LEMMA OpenedWorld ==
  ASSUME IInv, NEW nodes, GoodTree(nodes), NEW n \in Nodes, nodes[n].name # None,
         NEW e \in Entries, NEW append \in BOOLEAN
  PROVE  WorldOK(nodes, [entry EXCEPT ![e] = Opened(n, IF append THEN nodes[n].len ELSE 0)], task)
<1> DEFINE x == Opened(n, IF append THEN nodes[n].len ELSE 0)
           entries == [entry EXCEPT ![e] = x]
<1>1. HeldLive(node, entry, task) /\ entry \in [Entries -> MemFiles] /\ TasksTyped(task)
  BY InvFacts
<1>2. nodes[n].len \in 0 .. MaxSize /\ 0 \in 0 .. MaxSize
  BY MemFSAssumption DEF GoodTree, TreeOK, MemNodes, Sized
<1>3. x \in MemFiles /\ x.node = n
  BY <1>2 DEF Opened, Closed, MemFiles
<1> HIDE DEF x
<1>4. entries \in [Entries -> MemFiles] /\ entries[e].node = n
      /\ \A f \in Entries \ {e} : entries[f] = entry[f]
  BY <1>1, <1>3
<1>5. ASSUME NEW f \in Held(entries, task)
      PROVE  entries[f].node # None /\ nodes[entries[f].node].name # None
  <2>1. CASE f = e
    BY <1>4, <2>1, NoneFacts
  <2>2. CASE f # e
    <3>1. f \in Held(entry, task) /\ entries[f] = entry[f] /\ f \in Entries
      BY <1>4, <2>2 DEF Held
    <3>2. entry[f].node \in Nodes /\ node[entry[f].node].name # None
      BY <1>1, <3>1 DEF HeldLive, MemFiles
    <3> QED BY <3>1, <3>2, NoneFacts DEF GoodTree
  <2> QED BY <2>1, <2>2
<1>6. HeldLive(nodes, entries, task)
  BY <1>5 DEF HeldLive
<1>7. WorldOK(nodes, entries, task)
  <2> HIDE DEF entries
  <2> QED BY <1>1, <1>4, <1>6 DEF WorldOK, GoodTree
<1> QED BY <1>7 DEF x

\* A node is made of garbage.
LEMMA FreshNode ==
  ASSUME Fresh # {}
  PROVE  NewNode \in Fresh /\ NewNode \in Nodes
BY DEF NewNode, Fresh

\* A caller that holds no entry takes up another such call, or none.
LEMMA SameTask ==
  ASSUME IInv, NEW nodes, GoodTree(nodes), NEW t \in Callers, NEW x \in Tasks,
         x.entry = None, x.pc \notin InFlight
  PROVE  WorldOK(nodes, entry, [task EXCEPT ![t] = x]) /\ WorldOK(nodes, entry, task)
<1> DEFINE tasks == [task EXCEPT ![t] = x]
<1>1. entry \in [Entries -> MemFiles] /\ TasksTyped(task) /\ task \in [Callers -> Tasks]
  BY InvFacts
<1>2. TasksTyped(tasks)
  BY <1>1, TaskEdit
<1>3. \A u \in Callers : tasks[u].entry \in {None, task[u].entry}
  BY <1>1
<1> HIDE DEF tasks
<1>4. WorldOK(nodes, entry, tasks)
  BY <1>1, <1>2, <1>3, SameHolders
<1>5. WorldOK(nodes, entry, task)
  BY <1>1, SameHolders
<1> QED BY <1>4, <1>5 DEF tasks

\* Path_open of a new file keeps the tree.
LEMMA openCreatesStep ==
  ASSUME IInv, NEW t \in Movers, NEW path \in NewPaths, NEW append \in BOOLEAN,
         Path_openCreates(t, path, append)
  PROVE  StepOK
<1> DEFINE p == lookupParent(path)
           x == Base(path)
           new == memNode(x, FALSE)
           nodes == MadeAt(p, x, NewNode, new)
<1>1. TreeOK(node) /\ walk \in [Threads -> Walks]
  BY InvFacts
<1>2. p \in InTree /\ node[p].dir /\ x \in Names /\ Child(p, x) = None
  <2>1. path \in Seq(Names \cup {Dot, DotDot})
    BY MemFSAssumption
  <2> QED BY <1>1, <2>1, PathFacts DEF Path_openCreates
<1>3. NewNode \in Fresh /\ NewNode \in Nodes
  BY FreshNode DEF Path_openCreates
<1>4. new \in MemNodes /\ Sized(new) /\ new.name = x /\ new.children = <<>>
  BY <1>2, NewNodes DEF memNode
<1>5. PICK e \in Entries : Registered(e, nodes, NewNode, append)
  BY DEF Path_openCreates, MadeAt
<1> HIDE DEF p, x, new
<1>6. GoodTree(nodes)
  BY <1>1, <1>2, <1>3, <1>4, MadeTree
<1>7. nodes[NewNode] = new
  <2>1. NewNode \in DOMAIN Put(node, p, x, NewNode)
    BY <1>1, <1>3 DEF Put, TreeOK
  <2> QED BY <2>1 DEF MadeAt
<1> HIDE DEF nodes
<1>8. WorldOK(nodes, [entry EXCEPT ![e] = Opened(NewNode, IF append THEN nodes[NewNode].len ELSE 0)], task)
  BY <1>2, <1>3, <1>4, <1>6, <1>7, NoneFacts, OpenedWorld
<1>9. walk' \in [Threads -> Walks]
  BY <1>1 DEF Path_openCreates
<1> QED BY <1>5, <1>6, <1>8, <1>9, SettleStep DEF Registered

\* Path_open of what is there keeps the tree.
LEMMA openStep ==
  ASSUME IInv, NEW t \in Movers, NEW path \in Paths, NEW trunc \in BOOLEAN, NEW append \in BOOLEAN,
         Path_open(t, path, trunc, append)
  PROVE  StepOK
<1> DEFINE n == lookup(path)
           nodes == IF trunc /\ ~node[n].dir THEN [node EXCEPT ![n].len = 0] ELSE node
<1>1. TreeOK(node) /\ walk \in [Threads -> Walks] /\ node \in [Nodes -> MemNodes]
  BY InvFacts
<1>2. n \in Nodes /\ node[n].name # None
  <2>1. path \in Seq(Names \cup {Dot, DotDot})
    BY MemFSAssumption
  <2>2. n \in InTree
    BY <1>1, <2>1, PathFacts DEF Path_open
  <2> HIDE DEF n
  <2> QED BY <1>1, <2>2, InTreeNamed
<1>3. PICK e \in Entries : Registered(e, nodes, n, append)
  BY DEF Path_open
<1> HIDE DEF n
<1>4. GoodTree(nodes) /\ nodes[n].name # None
  <2> DEFINE x == [node[n] EXCEPT !.len = 0]
             cut == [node EXCEPT ![n].len = 0]
  <2>1. /\ x \in MemNodes /\ x.name = node[n].name /\ x.dir = node[n].dir
        /\ x.children = node[n].children /\ x.len = 0 /\ x.data = node[n].data
    <3>1. node[n] \in MemNodes
      BY <1>1, <1>2
    <3> QED BY <3>1 DEF MemNodes
  <2>2. cut = [node EXCEPT ![n] = x]
    OBVIOUS
  <2>3. Sized(x)
    <3>1. Len(x.data) \in Nat /\ MaxSize \in Nat
      BY <2>1, MemFSAssumption DEF MemNodes
    <3> QED BY <2>1, <3>1 DEF Sized
  <2> HIDE DEF x
  <2>4. /\ cut \in [Nodes -> MemNodes] /\ cut[n] = x /\ \A m \in Nodes \ {n} : cut[m] = node[m]
    BY <1>1, <1>2, <2>1, <2>2
  <2> HIDE DEF cut
  <2>5. \A m \in Nodes : Sized(cut[m])
    BY <1>1, <2>3, <2>4 DEF TreeOK
  <2>6. GoodTree(cut)
    BY <1>1, <2>1, <2>4, <2>5, SameShape
  <2>7. GoodTree(node)
    BY <1>1, SameTree
  <2>8. nodes \in {cut, node}
    BY DEF cut
  <2> QED BY <1>2, <2>1, <2>4, <2>6, <2>7, <2>8
<1> HIDE DEF nodes
<1>5. WorldOK(nodes, [entry EXCEPT ![e] = Opened(n, IF append THEN nodes[n].len ELSE 0)], task)
  BY <1>2, <1>4, OpenedWorld
<1>6. walk' \in [Threads -> Walks]
  BY <1>1 DEF Path_open
<1> QED BY <1>3, <1>4, <1>5, <1>6, SettleStep DEF Registered

\* Path_create_directory keeps the tree.
LEMMA create_directoryStep ==
  ASSUME IInv, NEW t \in Movers, NEW path \in Paths, Path_create_directory(t, path)
  PROVE  StepOK
<1> DEFINE p == lookupParent(path)
           x == Base(path)
           new == memNode(x, TRUE)
           nodes == MadeAt(p, x, NewNode, new)
<1>1. TreeOK(node) /\ walk \in [Threads -> Walks]
  BY InvFacts
<1>2. p \in InTree /\ node[p].dir /\ x \in Names /\ Child(p, x) = None
  <2>1. path \in Seq(Names \cup {Dot, DotDot})
    BY MemFSAssumption
  <2> QED BY <1>1, <2>1, PathFacts DEF Path_create_directory
<1>3. NewNode \in Fresh
  BY FreshNode DEF Path_create_directory
<1>4. new \in MemNodes /\ Sized(new) /\ new.name = x /\ new.children = <<>>
  BY <1>2, NewNodes DEF memNode
<1>5. Settle(nodes, entry, task)
  BY DEF Path_create_directory, MadeAt
<1> HIDE DEF p, x, new
<1>6. GoodTree(nodes)
  BY <1>1, <1>2, <1>3, <1>4, MadeTree
<1> HIDE DEF nodes
<1>7. WorldOK(nodes, entry, task)
  <2>1. t \in Callers
    BY DEF Callers, Threads
  <2> QED BY <1>6, <2>1, Idles, SameTask
<1>8. walk' \in [Threads -> Walks]
  BY <1>1 DEF Path_create_directory
<1> QED BY <1>5, <1>6, <1>7, <1>8, SettleStep

\* A call between its two locks holds a path.
LEMMA PathTask ==
  ASSUME NEW path \in Seq(Names \cup {Dot, DotDot}), NEW pc \in {"remove", "write"},
         NEW x, x = [Idle EXCEPT !.pc = pc, !.path = path]
  PROVE  x \in Tasks /\ x.entry = None /\ x.pc \notin InFlight
<1>1. /\ Idle \in Tasks /\ Idle.entry = None /\ pc \notin InFlight
  BY Idles DEF InFlight, Reading
<1>2. x.entry = None /\ x.pc = pc
  BY <1>1 DEF Tasks
<1>3. x \in Tasks
  BY <1>1 DEF Tasks
<1> QED BY <1>1, <1>2, <1>3

\* A step that leaves nodes, entries and walks alone.
LEMMA TaskStep ==
  ASSUME IInv, UNCHANGED <<node, entry, walk>>, NEW t \in Callers, NEW x \in Tasks,
         x.entry = None, x.pc \notin InFlight, task[t].entry = None,
         task' = [task EXCEPT ![t] = x]
  PROVE  StepOK
<1>1. /\ entry \in [Entries -> MemFiles] /\ TasksTyped(task) /\ task \in [Callers -> Tasks]
      /\ walk \in [Threads -> Walks]
  BY InvFacts
<1>2. TasksTyped(task')
  BY <1>1, TaskEdit
<1>3. \A u \in Callers : task'[u].entry = task[u].entry
  BY <1>1
<1>4. Held(entry', task') = Held(entry, task)
  BY <1>3 DEF Held
<1> QED BY <1>1, <1>2, <1>4, PlainStep

\* The Lstat before a removal keeps the tree.
LEMMA LstatToRemoveStep ==
  ASSUME IInv, NEW t \in Movers, NEW path \in Paths, NEW dir \in BOOLEAN, LstatToRemove(t, path, dir)
  PROVE  StepOK
<1> DEFINE x == [Idle EXCEPT !.pc = "remove", !.path = path]
<1>1. t \in Callers /\ path \in Seq(Names \cup {Dot, DotDot})
  BY MemFSAssumption DEF Callers, Threads
<1>2. x \in Tasks /\ x.entry = None /\ x.pc \notin InFlight
  <2> HIDE DEF x
  <2> QED BY <1>1, PathTask DEF x
<1>3. task[t].entry = None
  BY <1>1, InvFacts DEF LstatToRemove, Calls, InFlight, Reading
<1>4. task' = [task EXCEPT ![t] = x] /\ UNCHANGED <<node, entry, walk>>
  BY DEF LstatToRemove
<1> HIDE DEF x
<1> QED BY <1>1, <1>2, <1>3, <1>4, TaskStep

\* Remove keeps the tree, whatever happened since the Lstat.
LEMMA RemoveNodeStep ==
  ASSUME IInv, NEW t \in Movers, RemoveNode(t)
  PROVE  StepOK
<1> DEFINE path == task[t].path
           p == lookupParent(path)
           x == Base(path)
           nodes == RemovedAt(p, x)
           idle == [task EXCEPT ![t] = Idle]
<1>1. /\ TreeOK(node) /\ walk \in [Threads -> Walks] /\ t \in Callers
      /\ task \in [Callers -> Tasks] /\ path \in Seq(Names \cup {Dot, DotDot})
  BY InvFacts DEF Callers, Threads, Tasks
<1>2. task[t].entry = None
  BY <1>1, InvFacts DEF RemoveNode, InFlight, Reading
<1>3. CASE p # None /\ Removable(Child(p, x))
  <2>1. p \in InTree
    BY <1>1, <1>3, PathFacts
  <2>2. Settle(nodes, entry, idle)
    BY <1>3 DEF RemoveNode, RemovedAt
  <2> HIDE DEF p, x
  <2>3. GoodTree(nodes)
    BY <1>1, <1>3, <2>1, RemovedTree
  <2> HIDE DEF nodes
  <2>4. WorldOK(nodes, entry, idle)
    BY <1>1, <2>3, Idles, SameTask
  <2>5. walk' \in [Threads -> Walks]
    BY <1>1 DEF RemoveNode
  <2> HIDE DEF idle
  <2> QED BY <2>2, <2>3, <2>4, <2>5, SettleStep
<1>4. CASE ~(p # None /\ Removable(Child(p, x)))
  <2>1. task' = [task EXCEPT ![t] = Idle] /\ UNCHANGED <<node, entry, walk>>
    BY <1>4 DEF RemoveNode
  <2> QED BY <1>1, <1>2, <2>1, Idles, TaskStep
<1> QED BY <1>3, <1>4

\* Path_rename keeps the tree.
LEMMA renameStep ==
  ASSUME IInv, NEW t \in Movers, NEW oldPath \in Paths, NEW newPath \in Paths,
         Path_rename(t, oldPath, newPath)
  PROVE  StepOK
<1> DEFINE p == lookupParent(oldPath)
           q == lookupParent(newPath)
           old == Base(oldPath)
           new == Base(newPath)
           nodes == Moved(p, old, q, new)
<1>1. TreeOK(node) /\ walk \in [Threads -> Walks]
  BY InvFacts
<1>2. /\ p # None /\ q # None /\ Child(p, old) # None
      /\ Harmful(p, old, q, new) => Careless
      /\ Settle(nodes, entry, task)
  BY DEF Path_rename
<1>3. p \in InTree /\ q \in InTree /\ node[q].dir /\ new \in Names
  <2>1. oldPath \in Seq(Names \cup {Dot, DotDot}) /\ newPath \in Seq(Names \cup {Dot, DotDot})
    BY MemFSAssumption
  <2> QED BY <1>1, <1>2, <2>1, PathFacts
<1> HIDE DEF p, q, old, new
<1>4. GoodTree(nodes)
  BY <1>1, <1>2, <1>3, MovedTree
<1> HIDE DEF nodes
<1>5. WorldOK(nodes, entry, task)
  <2>1. t \in Callers
    BY DEF Callers, Threads
  <2> QED BY <1>4, <2>1, Idles, SameTask
<1>6. walk' \in [Threads -> Walks]
  BY <1>1 DEF Path_rename
<1> QED BY <1>2, <1>4, <1>5, <1>6, SettleStep

\* MkdirAll keeps the tree.
LEMMA MkdirAllStep ==
  ASSUME IInv, NEW path \in HostPaths, memSplit(path) # <<>>, MkdirAll(path)
  PROVE  StepOK
<1> DEFINE part == Head(memSplit(path))
           x == [Idle EXCEPT !.pc = "write", !.path = path]
           busy == [task EXCEPT ![Host] = x]
           new == memNode(part, TRUE)
           nodes == MadeAt(Root, part, NewNode, new)
<1>1. TreeOK(node) /\ walk \in [Threads -> Walks] /\ Host \in Callers
  BY InvFacts DEF Callers
<1>2. path \in Seq(Names \cup {Dot, DotDot})
  BY MemFSAssumption
<1>3. x \in Tasks /\ x.entry = None /\ x.pc \notin InFlight
  <2> HIDE DEF x
  <2> QED BY <1>2, PathTask DEF x
<1>4. task[Host].entry = None
  BY <1>1, InvFacts DEF MkdirAll, Calls, InFlight, Reading
<1>5. part \in Names
  BY <1>2, memSplitType
<1>6. CASE Len(memSplit(path)) = 1 \/ Child(Root, part) # None
  <2>1. task' = busy /\ UNCHANGED <<node, entry, walk>>
    BY <1>6 DEF MkdirAll
  <2> HIDE DEF x
  <2> QED BY <1>1, <1>3, <1>4, <2>1, TaskStep
<1>7. CASE ~(Len(memSplit(path)) = 1 \/ Child(Root, part) # None)
  <2>1. Fresh # {} /\ Settle(nodes, entry, busy) /\ walk' = walk
    BY <1>7 DEF MkdirAll, MadeAt
  <2>2. NewNode \in Fresh
    BY <2>1, FreshNode
  <2>3. new \in MemNodes /\ Sized(new) /\ new.name = part /\ new.children = <<>>
    BY <1>5, NewNodes DEF memNode
  <2>4. Root \in InTree /\ Child(Root, part) = None
    BY <1>1, <1>7, InTreeHolds
  <2>5. node[Root].dir
    BY <1>1 DEF TreeOK, Named
  <2> HIDE DEF new, part
  <2>6. GoodTree(nodes)
    BY <1>1, <1>5, <2>2, <2>3, <2>4, <2>5, MadeTree
  <2> HIDE DEF nodes, x
  <2>7. WorldOK(nodes, entry, busy)
    BY <1>1, <1>3, <2>6, SameTask
  <2>8. walk' \in [Threads -> Walks]
    BY <1>1, <2>1
  <2> QED BY <2>1, <2>6, <2>7, <2>8, SettleStep
<1> QED BY <1>6, <1>7

\* WriteFile keeps the tree.
LEMMA WriteFileStep ==
  ASSUME IInv, NEW b \in HostBytes, WriteFile(b)
  PROVE  StepOK
<1> DEFINE path == task[Host].path
           p == lookupParent(path)
           x == Base(path)
           done == [task EXCEPT ![Host] = Idle]
           new == [memNode(x, FALSE) EXCEPT !.data = <<b>>, !.len = 1]
           nodes == MadeAt(p, x, NewNode, new)
<1>1. /\ TreeOK(node) /\ walk \in [Threads -> Walks] /\ Host \in Callers
      /\ task \in [Callers -> Tasks] /\ path \in Seq(Names \cup {Dot, DotDot})
  BY InvFacts DEF Callers, Tasks
<1>2. task[Host].entry = None
  BY <1>1, InvFacts DEF WriteFile, InFlight, Reading
<1>3. CASE p = None
  <2>1. task' = done /\ UNCHANGED <<node, entry, walk>>
    BY <1>3 DEF WriteFile
  <2> QED BY <1>1, <1>2, <2>1, Idles, TaskStep
<1>4. CASE p # None
  <2>1. /\ Fresh # {} /\ Settle(nodes, entry, done) /\ walk' = walk
        /\ Child(p, x) # None /\ node[Child(p, x)].children # <<>> => Careless
    BY <1>4 DEF WriteFile, MadeAt
  <2>2. NewNode \in Fresh
    BY <2>1, FreshNode
  <2>3. p \in InTree /\ node[p].dir /\ x \in Names
    BY <1>1, <1>4, PathFacts
  <2>4. new \in MemNodes /\ Sized(new) /\ new.name = x /\ new.children = <<>>
    <3>1. memNode(x, FALSE) \in MemNodes /\ b \in Nat
      BY <2>3, NewNodes, MemFSAssumption
    <3>2. <<b>> \in Seq(Nat) /\ Len(<<b>>) = 1 /\ 1 <= MaxSize
      BY <3>1, MemFSAssumption
    <3>3. memNode(x, FALSE).name = x /\ memNode(x, FALSE).children = <<>>
      BY DEF memNode
    <3>4. new \in MemNodes
      BY <3>1, <3>2 DEF MemNodes
    <3>5. new.name = x /\ new.children = <<>> /\ new.data = <<b>> /\ new.len = 1
      BY <3>1, <3>3 DEF MemNodes
    <3> HIDE DEF new
    <3>6. new.len <= Len(new.data) /\ new.len <= MaxSize
      BY <3>2, <3>5
    <3> QED BY <3>4, <3>5, <3>6 DEF Sized
  <2> HIDE DEF new, p, x
  <2>5. GoodTree(nodes)
    BY <1>1, <2>1, <2>2, <2>3, <2>4, MadeTree
  <2> HIDE DEF nodes
  <2>6. WorldOK(nodes, entry, done)
    BY <1>1, <2>5, Idles, SameTask
  <2>7. walk' \in [Threads -> Walks]
    BY <1>1, <2>1
  <2> HIDE DEF done
  <2> QED BY <2>1, <2>5, <2>6, <2>7, SettleStep
<1> QED BY <1>3, <1>4

\* A step of one entry that is in use, and at most of the tasks that use it.
LEMMA EntryStep ==
  ASSUME IInv, node' = node, walk' \in [Threads -> Walks], TasksTyped(task'),
         NEW e \in Held(entry, task), NEW x \in MemFiles,
         x.node = entry[e].node, x.inTable = entry[e].inTable, entry' = [entry EXCEPT ![e] = x],
         \A u \in Callers : \/ task'[u].entry = task[u].entry
                            \/ task'[u].entry = e /\ entry[e].inTable /\ task[u].entry = None
  PROVE  StepOK
<1>1. entry \in [Entries -> MemFiles] /\ e \in Entries
  BY InvFacts DEF Held
<1>2. /\ entry' \in [Entries -> MemFiles] /\ entry'[e] = x
      /\ \A f \in Entries \ {e} : entry'[f] = entry[f]
  BY <1>1
<1>3. \A f \in Entries : entry'[f].inTable = entry[f].inTable
  BY <1>2
<1>4. Held(entry', task') = Held(entry, task)
  BY <1>1, <1>3, NoneFacts DEF Held
<1> QED BY <1>1, <1>2, <1>4, PlainStep

\* What a call of a thread finds.
LEMMA UsesFacts ==
  ASSUME IInv, NEW t \in Users, NEW e \in Entries, Uses(t, e)
  PROVE  /\ t \in Callers /\ t \in Threads /\ e \in Held(entry, task)
         /\ entry[e].node \in Nodes /\ entry[e] \in MemFiles /\ task[t].entry = None
         /\ node[entry[e].node] \in MemNodes /\ Sized(node[entry[e].node])
<1>1. t \in Callers /\ t \in Threads
  BY DEF Callers, Threads
<1>2. e \in Held(entry, task)
  BY DEF Uses, Held
<1>3. entry[e].node \in Nodes /\ entry[e] \in MemFiles
  BY <1>2, InvFacts DEF HeldLive, MemFiles
<1>4. task[t].entry = None
  BY <1>1, InvFacts DEF Uses, Calls, InFlight, Reading
<1> QED BY <1>1, <1>2, <1>3, <1>4, InvFacts DEF TreeOK

\* What a call between its steps finds.
LEMMA TaskFacts ==
  ASSUME IInv, NEW t \in Users, task[t].pc \in InFlight
  PROVE  /\ t \in Callers /\ t \in Threads
         /\ task[t] \in Tasks /\ task[t].entry \in Entries
         /\ task[t].entry \in Held(entry, task)
         /\ entry[task[t].entry] \in MemFiles /\ entry[task[t].entry].node \in Nodes
         /\ node[entry[task[t].entry].node] \in MemNodes
         /\ Sized(node[entry[task[t].entry].node])
<1>1. t \in Callers /\ t \in Threads
  BY DEF Callers, Threads
<1>2. task[t] \in Tasks /\ task[t].entry \in Entries
  BY <1>1, InvFacts DEF Tasks
<1>3. task[t].entry \in Held(entry, task)
  BY <1>1, <1>2 DEF Held
<1>4. entry[task[t].entry] \in MemFiles /\ entry[task[t].entry].node \in Nodes
  BY <1>2, <1>3, InvFacts DEF HeldLive, MemFiles
<1> QED BY <1>1, <1>2, <1>3, <1>4, InvFacts DEF TreeOK

\* Fd_close keeps the tree.
LEMMA closeStep ==
  ASSUME IInv, NEW t \in Movers, NEW e \in Entries, Fd_close(t, e)
  PROVE  StepOK
<1> DEFINE entries == [entry EXCEPT ![e].inTable = FALSE]
<1>1. /\ TreeOK(node) /\ walk \in [Threads -> Walks] /\ entry \in [Entries -> MemFiles]
      /\ TasksTyped(task)
  BY InvFacts
<1>2. Settle(node, entries, task)
  BY DEF Fd_close
<1>3. /\ entries \in [Entries -> MemFiles]
      /\ \A f \in Entries : /\ entries[f].node = entry[f].node
                            /\ entries[f].inTable => entry[f].inTable
  <2> DEFINE x == [entry[e] EXCEPT !.inTable = FALSE]
  <2>1. entry[e] \in MemFiles
    BY <1>1
  <2>2. x \in MemFiles /\ x.node = entry[e].node /\ ~x.inTable
    BY <2>1 DEF MemFiles
  <2>3. entries = [entry EXCEPT ![e] = x]
    OBVIOUS
  <2> HIDE DEF x, entries
  <2> QED BY <1>1, <2>2, <2>3
<1> HIDE DEF entries
<1>4. GoodTree(node)
  BY <1>1, SameTree
<1>5. WorldOK(node, entries, task)
  BY <1>1, <1>3, <1>4, SameHolders
<1>6. walk' \in [Threads -> Walks]
  <2>1. NoWalk \in Walks
    BY MemFSAssumption DEF NoWalk, Walks
  <2> QED BY <1>1, <2>1 DEF Fd_close
<1> QED BY <1>2, <1>4, <1>5, <1>6, SettleStep

\* The offset of an entry is replaced.
LEMMA OffEdit ==
  ASSUME NEW x \in MemFiles, NEW off \in 0 .. MaxSize
  PROVE  /\ [x EXCEPT !.off = off] \in MemFiles
         /\ [x EXCEPT !.off = off].node = x.node /\ [x EXCEPT !.off = off].inTable = x.inTable
         /\ [x EXCEPT !.off = off].off = off
BY DEF MemFiles

\* Fd_read keeps the tree.
LEMMA readStep ==
  ASSUME IInv, NEW t \in Users, NEW e \in Entries, Fd_read(t, e)
  PROVE  StepOK
<1> DEFINE x == [entry[e] EXCEPT !.off = entry[e].off + 1]
<1>1. /\ e \in Held(entry, task) /\ entry[e] \in MemFiles /\ entry[e].node \in Nodes
      /\ node[entry[e].node] \in MemNodes /\ Sized(node[entry[e].node])
  BY UsesFacts DEF Fd_read, UsesFile
<1>2. entry[e].off + 1 \in 0 .. MaxSize
  BY <1>1, MemFSAssumption DEF Fd_read, MemFiles, MemNodes, Sized
<1>3. x \in MemFiles /\ x.node = entry[e].node /\ x.inTable = entry[e].inTable
  BY <1>1, <1>2, OffEdit
<1>4. entry' = [entry EXCEPT ![e] = x] /\ UNCHANGED <<node, task, walk>>
  BY DEF Fd_read
<1> HIDE DEF x
<1> QED BY <1>1, <1>3, <1>4, InvFacts, EntryStep

\* Fd_seek keeps the tree.
LEMMA seekStep ==
  ASSUME IInv, NEW t \in Users, NEW e \in Entries, NEW off \in 0 .. MaxSize, Fd_seek(t, e, off)
  PROVE  StepOK
<1> DEFINE x == [entry[e] EXCEPT !.off = off]
<1>1. e \in Held(entry, task) /\ entry[e] \in MemFiles
  BY UsesFacts DEF Fd_seek, UsesFile
<1>2. x \in MemFiles /\ x.node = entry[e].node /\ x.inTable = entry[e].inTable
  BY <1>1, OffEdit
<1>3. entry' = [entry EXCEPT ![e] = x] /\ UNCHANGED <<node, task, walk>>
  BY DEF Fd_seek
<1> HIDE DEF x
<1> QED BY <1>1, <1>2, <1>3, InvFacts, EntryStep

\* The lookup of Fd_write keeps the tree.
LEMMA writeStep ==
  ASSUME IInv, NEW t \in Users, NEW e \in Entries, NEW bufs \in 1 .. MaxBufs, Fd_write(t, e, bufs)
  PROVE  StepOK
<1> DEFINE x == [Idle EXCEPT !.pc = "writev", !.entry = e, !.left = bufs]
<1>1. /\ t \in Callers /\ e \in Held(entry, task) /\ task[t].entry = None /\ entry[e].inTable
      /\ entry[e] \in MemFiles
  BY UsesFacts DEF Fd_write, UsesFile, Uses
<1>2. x \in Tasks /\ x.entry = e /\ x.pc \in InFlight
  <2>1. Idle \in Tasks /\ "writev" \in InFlight /\ bufs \in Int
    BY Idles DEF InFlight
  <2>2. x.entry = e /\ x.pc = "writev"
    BY <2>1 DEF Tasks
  <2>3. x \in Tasks
    BY <2>1 DEF Tasks
  <2> QED BY <2>1, <2>2, <2>3
<1>3. task' = [task EXCEPT ![t] = x] /\ UNCHANGED <<node, entry, walk>>
  BY DEF Fd_write
<1>4. TasksTyped(task')
  BY <1>1, <1>2, <1>3, InvFacts, TaskEdit, NoneFacts
<1>5. \A u \in Callers \ {t} : task'[u].entry = task[u].entry
  BY <1>3, InvFacts
<1>6. task'[t].entry = e
  BY <1>1, <1>2, <1>3, InvFacts
<1>7. entry' = [entry EXCEPT ![e] = entry[e]]
  BY <1>3, InvFacts
<1> HIDE DEF x
<1> QED BY <1>1, <1>3, <1>4, <1>5, <1>6, <1>7, InvFacts, EntryStep

\* A file that grows keeps its bytes and has zeros after them.
LEMMA GrownFacts ==
  ASSUME NEW x \in MemNodes, Sized(x), NEW size \in Nat, x.len <= size, size <= MaxSize,
         NEW g, g = Grown(x, size)
  PROVE  /\ g \in MemNodes /\ Sized(g) /\ g.len = size /\ Len(g.data) = size
         /\ g.name = x.name /\ g.dir = x.dir /\ g.children = x.children
         /\ \A i \in 1 .. size : g.data[i] = IF i <= x.len THEN x.data[i] ELSE 0
<1> DEFINE s1 == SubSeq(x.data, 1, x.len)
           s2 == Zeros(size - x.len)
<1>1. x.data \in Seq(Nat) /\ x.len \in Nat /\ x.len <= Len(x.data)
  BY DEF MemNodes, Sized
<1>2. s1 \in Seq(Nat) /\ Len(s1) = x.len /\ \A i \in 1 .. x.len : s1[i] = x.data[i]
  BY <1>1
<1>3. s2 \in Seq(Nat) /\ Len(s2) = size - x.len /\ \A i \in 1 .. size - x.len : s2[i] = 0
  <2>1. size - x.len \in Nat
    BY <1>1
  <2>2. s2 \in [1 .. size - x.len -> Nat]
    BY DEF Zeros
  <2> QED BY <2>1, <2>2 DEF Zeros
<1> HIDE DEF s1, s2
<1>4. /\ s1 \o s2 \in Seq(Nat) /\ Len(s1 \o s2) = size
      /\ \A i \in 1 .. size : (s1 \o s2)[i] = IF i <= x.len THEN x.data[i] ELSE 0
  <2>1. /\ s1 \o s2 \in Seq(Nat) /\ Len(s1 \o s2) = Len(s1) + Len(s2)
        /\ \A i \in 1 .. Len(s1) + Len(s2) : (s1 \o s2)[i] =
                     IF i <= Len(s1) THEN s1[i] ELSE s2[i - Len(s1)]
    BY <1>2, <1>3, ConcatProperties
  <2>2. Len(s1) + Len(s2) = size
    BY <1>1, <1>2, <1>3
  <2>3. ASSUME NEW i \in 1 .. size
        PROVE (s1 \o s2)[i] = IF i <= x.len THEN x.data[i] ELSE 0
    <3>1. CASE i <= x.len
      BY <1>1, <1>2, <2>1, <2>2, <3>1
    <3>2. CASE ~(i <= x.len)
      <4>1. i - x.len \in 1 .. size - x.len
        BY <1>1, <3>2
      <4> QED BY <1>1, <1>2, <1>3, <2>1, <2>2, <3>2, <4>1
    <3> QED BY <3>1, <3>2
  <2> QED BY <2>1, <2>2, <2>3
<1> DEFINE s == s1 \o s2
<1>5. g = [x EXCEPT !.data = s, !.len = size]
  BY DEF Grown, s1, s2
<1> HIDE DEF s
<1>6. /\ g \in MemNodes /\ g.len = size /\ g.data = s
      /\ g.name = x.name /\ g.dir = x.dir /\ g.children = x.children
  BY <1>4, <1>5 DEF MemNodes, s
<1>7. Sized(g)
  BY <1>4, <1>6 DEF Sized, s
<1> QED BY <1>4, <1>6, <1>7 DEF s

\* The node y that is x with the byte b written at off.
ByteWritten(x, off, b, y) ==
    /\ y \in MemNodes /\ Sized(y)
    /\ y.len = IF off + 1 > x.len THEN off + 1 ELSE x.len
    /\ y.name = x.name /\ y.dir = x.dir /\ y.children = x.children
    /\ \A i \in 1 .. y.len : y.data[i] = IF i = off + 1 THEN b
                                         ELSE IF i <= x.len THEN x.data[i] ELSE 0

\* A write leaves every other byte, and zeros in the gap.
LEMMA writeAtFacts ==
  ASSUME NEW x \in MemNodes, Sized(x), NEW off \in 0 .. MaxSize - 1, NEW b \in Nat,
         NEW y, y = writeAt(x, off, b)
  PROVE  ByteWritten(x, off, b, y)
<1> DEFINE g == IF off + 1 > x.len THEN Grown(x, off + 1) ELSE x
<1>1. /\ x.data \in Seq(Nat) /\ x.len \in Nat /\ x.len <= Len(x.data) /\ MaxSize \in Nat
      /\ x.len <= MaxSize
  BY MemFSAssumption DEF MemNodes, Sized
<1>2. /\ g \in MemNodes /\ Sized(g) /\ g.len = IF off + 1 > x.len THEN off + 1 ELSE x.len
      /\ g.name = x.name /\ g.dir = x.dir /\ g.children = x.children
      /\ \A i \in 1 .. g.len : g.data[i] = IF i <= x.len THEN x.data[i] ELSE 0
  <2>1. CASE off + 1 > x.len
    <3>1. off + 1 \in Nat /\ x.len <= off + 1 /\ off + 1 <= MaxSize /\ g = Grown(x, off + 1)
      BY <1>1, <2>1
    <3> HIDE DEF g
    <3> QED BY <2>1, <3>1, GrownFacts
  <2>2. CASE ~(off + 1 > x.len)
    BY <1>1, <2>2
  <2> QED BY <2>1, <2>2
<1>3. y = [g EXCEPT !.data[off + 1] = b]
  BY DEF writeAt
<1> HIDE DEF g
<1> DEFINE s == [g.data EXCEPT ![off + 1] = b]
<1>4. off + 1 \in 1 .. Len(g.data) /\ off + 1 \in 1 .. g.len
  BY <1>1, <1>2 DEF Sized, MemNodes
<1>5. g.data \in Seq(Nat) /\ g.len \in Nat /\ g.len <= Len(g.data) /\ g.len <= MaxSize
  BY <1>2 DEF Sized, MemNodes
<1>6. /\ s \in Seq(Nat) /\ Len(s) = Len(g.data)
      /\ \A i \in 1 .. Len(g.data) : s[i] = IF i = off + 1 THEN b ELSE g.data[i]
  BY <1>4, <1>5, ExceptSeq
<1>7. y = [g EXCEPT !.data = s]
  BY <1>3
<1> HIDE DEF s
<1>8. /\ y \in MemNodes /\ y.len = g.len /\ y.data = s
      /\ y.name = g.name /\ y.dir = g.dir /\ y.children = g.children
  BY <1>2, <1>6, <1>7 DEF MemNodes
<1>9. Sized(y)
  <2>1. y.len <= Len(y.data) /\ y.len <= MaxSize
    BY <1>5, <1>6, <1>8
  <2> QED BY <2>1 DEF Sized
<1>10. ASSUME NEW i \in 1 .. y.len
       PROVE  y.data[i] = IF i = off + 1 THEN b ELSE IF i <= x.len THEN x.data[i] ELSE 0
  <2>1. i \in 1 .. Len(g.data) /\ i \in 1 .. g.len
    BY <1>5, <1>8
  <2> QED BY <1>2, <1>6, <1>8, <2>1
<1> QED BY <1>2, <1>8, <1>9, <1>10 DEF ByteWritten

\* A file that is truncated keeps its bytes up to the size, and has zeros after them.
LEMMA TruncatedFacts ==
  ASSUME NEW x \in MemNodes, Sized(x), NEW size \in 0 .. MaxSize,
         NEW y, y = Truncated(x, size)
  PROVE  /\ y \in MemNodes /\ Sized(y) /\ y.len = size
         /\ y.name = x.name /\ y.dir = x.dir /\ y.children = x.children
         /\ \A i \in 1 .. size : y.data[i] = IF i <= x.len THEN x.data[i] ELSE 0
<1>1. /\ x.data \in Seq(Nat) /\ x.len \in Nat /\ x.len <= Len(x.data) /\ MaxSize \in Nat
      /\ x.len <= MaxSize
  BY MemFSAssumption DEF MemNodes, Sized
<1>2. CASE size <= x.len
  <2>1. y = [x EXCEPT !.len = size]
    BY <1>2 DEF Truncated
  <2>2. /\ y \in MemNodes /\ y.len = size /\ y.data = x.data
        /\ y.name = x.name /\ y.dir = x.dir /\ y.children = x.children
    <3>1. size \in Nat
      BY <1>1
    <3> QED BY <2>1, <3>1 DEF MemNodes
  <2>3. y.len <= Len(y.data) /\ y.len <= MaxSize /\ \A i \in 1 .. size : i <= x.len
    BY <1>1, <1>2, <2>2
  <2> QED BY <2>2, <2>3 DEF Sized
<1>3. CASE ~(size <= x.len)
  <2>1. y = Grown(x, size) /\ size \in Nat /\ x.len <= size /\ size <= MaxSize
    BY <1>1, <1>3 DEF Truncated
  <2> QED BY <2>1, GrownFacts
<1> QED BY <1>2, <1>3

\* A file's contents change and nothing else of the tree.
LEMMA EditedTree ==
  ASSUME TreeOK(node), NEW n \in Nodes, NEW y \in MemNodes, Sized(y),
         y.name = node[n].name, y.dir = node[n].dir, y.children = node[n].children,
         NEW nodes, nodes = [node EXCEPT ![n] = y]
  PROVE  GoodTree(nodes)
<1>1. node \in [Nodes -> MemNodes] /\ \A m \in Nodes : Sized(node[m])
  BY DEF TreeOK
<1>2. /\ nodes \in [Nodes -> MemNodes] /\ nodes[n] = y
      /\ \A m \in Nodes \ {n} : nodes[m] = node[m]
  BY <1>1
<1>3. \A m \in Nodes : /\ Sized(nodes[m])
                       /\ nodes[m].name = node[m].name /\ nodes[m].dir = node[m].dir
                       /\ nodes[m].children = node[m].children
  BY <1>1, <1>2
<1> QED BY <1>2, <1>3, SameShape

\* A Write of one buffer keeps the tree.
LEMMA writeVecStep ==
  ASSUME IInv, NEW t \in Users, NEW b \in Bytes, writeVec(t, b)
  PROVE  StepOK
<1> DEFINE e == task[t].entry
           n == entry[e].node
           y == writeAt(node[n], entry[e].off, b)
           nodes == [node EXCEPT ![n] = y]
           x == [entry[e] EXCEPT !.off = entry[e].off + 1]
           entries == [entry EXCEPT ![e] = x]
           z == IF task[t].left = 1 THEN Idle ELSE [task[t] EXCEPT !.left = @ - 1]
           tasks == [task EXCEPT ![t] = z]
<1>1. /\ task[t].pc = "writev" /\ entry[e].off < MaxSize /\ walk' = walk
      /\ Settle(nodes, entries, tasks)
  BY DEF writeVec
<1>2. /\ t \in Callers /\ task[t] \in Tasks /\ e \in Entries /\ entry[e] \in MemFiles
      /\ n \in Nodes /\ node[n] \in MemNodes /\ Sized(node[n])
  BY <1>1, TaskFacts DEF InFlight
<1>3. entry[e].off \in 0 .. MaxSize - 1 /\ entry[e].off + 1 \in 0 .. MaxSize /\ b \in Nat
  <2>1. entry[e].off \in 0 .. MaxSize
    BY <1>2 DEF MemFiles
  <2>2. MaxSize \in Nat /\ b \in Nat
    BY MemFSAssumption
  <2> HIDE DEF e
  <2> QED BY <1>1, <2>1, <2>2
<1>4. z \in Tasks /\ z.entry \in {None, e} /\ (z.pc \in InFlight <=> z.entry # None)
  <2>1. CASE task[t].left = 1
    BY <2>1, Idles
  <2>2. CASE task[t].left # 1
    <3>1. z = [task[t] EXCEPT !.left = task[t].left - 1]
      BY <2>2
    <3>2. task[t].left - 1 \in Int
      BY <1>2 DEF Tasks
    <3>3. z \in Tasks /\ z.entry = e /\ z.pc = "writev"
      BY <1>1, <1>2, <3>1, <3>2 DEF Tasks
    <3> QED BY <1>2, <3>3, NoneFacts DEF InFlight
  <2> QED BY <2>1, <2>2
<1> HIDE DEF z
<1>5. TasksTyped(tasks) /\ \A u \in Callers : tasks[u].entry \in {None, task[u].entry}
  BY <1>2, <1>4, InvFacts, TaskEdit
<1>6. y \in MemNodes /\ Sized(y) /\ y.name = node[n].name /\ y.dir = node[n].dir
      /\ y.children = node[n].children
  <2> HIDE DEF n
  <2>1. ByteWritten(node[n], entry[e].off, b, y)
    BY <1>2, <1>3, writeAtFacts
  <2> QED BY <2>1 DEF ByteWritten
<1>7. x \in MemFiles /\ x.node = entry[e].node /\ x.inTable = entry[e].inTable
  BY <1>2, <1>3, OffEdit
<1> HIDE DEF e, x, y
<1>8. entries \in [Entries -> MemFiles]
      /\ \A f \in Entries : entries[f].node = entry[f].node /\ entries[f].inTable = entry[f].inTable
  BY <1>2, <1>7, InvFacts
<1> HIDE DEF n, entries, tasks
<1>9. GoodTree(nodes)
  BY <1>2, <1>6, InvFacts, EditedTree
<1> HIDE DEF nodes
<1>10. WorldOK(nodes, entries, tasks)
  BY <1>5, <1>8, <1>9, SameHolders
<1>11. walk' \in [Threads -> Walks]
  BY <1>1, InvFacts
<1> QED BY <1>1, <1>9, <1>10, <1>11, SettleStep

\* Fd_pwrite keeps the tree.
LEMMA pwriteStep ==
  ASSUME IInv, NEW t \in Users, NEW e \in Entries, NEW off \in 0 .. MaxSize - 1, NEW b \in Bytes,
         Fd_pwrite(t, e, off, b)
  PROVE  StepOK
<1> DEFINE n == entry[e].node
           y == writeAt(node[n], off, b)
           nodes == [node EXCEPT ![n] = y]
<1>1. Settle(nodes, entry, task) /\ walk' = walk
  BY DEF Fd_pwrite
<1>2. t \in Callers /\ n \in Nodes /\ node[n] \in MemNodes /\ Sized(node[n]) /\ b \in Nat
  BY UsesFacts, MemFSAssumption DEF Fd_pwrite, UsesFile
<1>3. y \in MemNodes /\ Sized(y) /\ y.name = node[n].name /\ y.dir = node[n].dir
      /\ y.children = node[n].children
  <2> HIDE DEF n
  <2>1. ByteWritten(node[n], off, b, y)
    BY <1>2, writeAtFacts
  <2> QED BY <2>1 DEF ByteWritten
<1> HIDE DEF n, y
<1>4. GoodTree(nodes)
  BY <1>2, <1>3, InvFacts, EditedTree
<1> HIDE DEF nodes
<1>5. WorldOK(nodes, entry, task)
  BY <1>2, <1>4, Idles, SameTask
<1> QED BY <1>1, <1>4, <1>5, InvFacts, SettleStep

\* Fd_filestat_set_size keeps the tree.
LEMMA set_sizeStep ==
  ASSUME IInv, NEW t \in Users, NEW e \in Entries, NEW size \in 0 .. MaxSize,
         Fd_filestat_set_size(t, e, size)
  PROVE  StepOK
<1> DEFINE n == entry[e].node
           y == Truncated(node[n], size)
           nodes == [node EXCEPT ![n] = y]
<1>1. Settle(nodes, entry, task) /\ walk' = walk
  BY DEF Fd_filestat_set_size
<1>2. t \in Callers /\ n \in Nodes /\ node[n] \in MemNodes /\ Sized(node[n])
  BY UsesFacts DEF Fd_filestat_set_size, UsesFile
<1>3. y \in MemNodes /\ Sized(y) /\ y.name = node[n].name /\ y.dir = node[n].dir
      /\ y.children = node[n].children
  <2> HIDE DEF n
  <2> QED BY <1>2, TruncatedFacts
<1> HIDE DEF n, y
<1>4. GoodTree(nodes)
  BY <1>2, <1>3, InvFacts, EditedTree
<1> HIDE DEF nodes
<1>5. WorldOK(nodes, entry, task)
  BY <1>2, <1>4, Idles, SameTask
<1> QED BY <1>1, <1>4, <1>5, InvFacts, SettleStep

\* A page of a listing keeps the tree.
LEMMA PageStep ==
  ASSUME IInv, NEW t \in Users, NEW last \in 0 .. MaxNodes + 2, NEW full \in BOOLEAN,
         Page(t, last, full)
  PROVE  StepOK
<1> DEFINE w == walk[t]
           entries == task[t].entries
           v == [w EXCEPT !.seen = @ \o SubSeq(entries, w.cookie + 1, last),
                          !.cookie = IF last = w.cookie THEN @ ELSE NextCookie(last),
                          !.over = ~full]
           idle == [task EXCEPT ![t] = Idle]
<1>1. /\ task[t].pc = "page" /\ last \in w.cookie .. Len(entries)
      /\ walk' = IF w.entry = None THEN walk ELSE [walk EXCEPT ![t] = v]
      /\ Settle(node, entry, idle)
  BY DEF Page
<1>2. t \in Callers /\ t \in Threads /\ entries \in Seq(Snaps) /\ walk \in [Threads -> Walks]
  BY <1>1, TaskFacts, InvFacts DEF InFlight, Reading, Tasks
<1>3. v \in Walks
  <2>1. w \in Walks /\ w.cookie \in Nat /\ w.seen \in Seq(Snaps)
    BY <1>2 DEF Walks
  <2>2. SubSeq(entries, w.cookie + 1, last) \in Seq(Snaps)
    <3>1. \A i \in w.cookie + 1 .. last : entries[i] \in Snaps
      <4>1. \A i \in w.cookie + 1 .. last : i \in 1 .. Len(entries)
        BY <1>1, <1>2, <2>1
      <4> QED BY <1>2, <4>1
    <3>2. w.cookie + 1 \in Int /\ last \in Int
      BY <2>1
    <3> HIDE DEF entries, w
    <3> QED BY <3>1, <3>2, SubSeqProperties
  <2> DEFINE s == w.seen \o SubSeq(entries, w.cookie + 1, last)
  <2>3. s \in Seq(Snaps)
    <3> HIDE DEF entries, w
    <3> QED BY <2>1, <2>2, ConcatProperties
  <2> DEFINE c == IF last = w.cookie THEN w.cookie ELSE NextCookie(last)
  <2>4. c \in 0 .. MaxNodes + 2
    BY <2>1 DEF NextCookie, Walks
  <2>5. v = [w EXCEPT !.seen = s, !.cookie = c, !.over = ~full]
    OBVIOUS
  <2> HIDE DEF s, c, v, w
  <2> QED BY <2>1, <2>3, <2>4, <2>5 DEF Walks
<1> HIDE DEF v, entries
<1>4. walk' \in [Threads -> Walks]
  BY <1>1, <1>2, <1>3
<1>5. GoodTree(node)
  BY InvFacts, SameTree
<1>6. WorldOK(node, entry, idle)
  BY <1>2, <1>5, Idles, SameTask
<1> HIDE DEF idle
<1> QED BY <1>1, <1>4, <1>5, <1>6, SettleStep

\* The entry a thread uses, or may begin to use.
MayUse(t, e) == task[t].entry = e \/ (task[t].entry = None /\ entry[e].inTable)

\* A step of a thread that reads a directory.
LEMMA ReadingStep ==
  ASSUME IInv, node' = node, walk' \in [Threads -> Walks], NEW t \in Callers,
         NEW e \in Held(entry, task), NEW x \in MemFiles,
         x.node = entry[e].node, x.inTable = entry[e].inTable, entry' = [entry EXCEPT ![e] = x],
         NEW z \in Tasks, z.pc \in InFlight, z.entry = e, task' = [task EXCEPT ![t] = z],
         MayUse(t, e)
  PROVE  StepOK
<1>1. e \in Entries /\ e # None
  BY NoneFacts DEF Held
<1>2. TasksTyped(task')
  BY <1>1, InvFacts, TaskEdit
<1>3. task'[t].entry = e /\ \A u \in Callers \ {t} : task'[u].entry = task[u].entry
  BY InvFacts
<1> QED BY <1>2, <1>3, EntryStep DEF MayUse

\* The lookup of Fd_readdir keeps the tree.
LEMMA readdirStep ==
  ASSUME IInv, NEW t \in Users, NEW e \in Entries, Fd_readdir(t, e)
  PROVE  StepOK
<1> DEFINE w == IF walk[t].entry = None \/ walk[t].over THEN [NoWalk EXCEPT !.entry = e]
                ELSE walk[t]
           cache == Dropped(w)
           x == [entry[e] EXCEPT !.cache = cache, !.listed = TRUE]
           z == IF cache # None
                THEN [Idle EXCEPT !.pc = "page", !.entry = e, !.entries = cache]
                ELSE [Idle EXCEPT !.pc = "seek", !.entry = e]
<1>1. /\ walk' = [walk EXCEPT ![t] = w] /\ task' = [task EXCEPT ![t] = z] /\ node' = node
      /\ entry' = [entry EXCEPT ![e].cache = cache, ![e].listed = TRUE]
      /\ walk[t].entry \in {None, e} /\ Uses(t, e)
  BY DEF Fd_readdir
<1>2. /\ t \in Callers /\ t \in Threads /\ e \in Held(entry, task) /\ entry[e].inTable
      /\ entry[e] \in MemFiles /\ task[t].entry = None
  BY <1>1, UsesFacts DEF Uses
<1>3. entry' = [entry EXCEPT ![e] = x]
  BY <1>1, <1>2, InvFacts
<1>4. w \in Walks /\ w.entry = e
  <2>1. [NoWalk EXCEPT !.entry = e] \in Walks /\ [NoWalk EXCEPT !.entry = e].entry = e
    <3>1. NoWalk \in Walks
      BY MemFSAssumption DEF NoWalk, Walks
    <3>2. e \in Entries
      OBVIOUS
    <3> QED BY <3>1, <3>2 DEF Walks
  <2>2. walk[t] \in Walks
    BY <1>2, InvFacts
  <2> QED BY <1>1, <2>1, <2>2
<1> HIDE DEF w
<1>5. cache \in Seq(Snaps) \cup {None}
  BY <1>2, <1>4 DEF Dropped, MemFiles
<1> HIDE DEF cache
<1>6. x \in MemFiles /\ x.node = entry[e].node /\ x.inTable = entry[e].inTable
  BY <1>2, <1>5 DEF MemFiles
<1>7. z \in Tasks /\ z.pc \in InFlight /\ z.entry = e
  <2>1. Idle \in Tasks /\ "page" \in InFlight /\ "seek" \in InFlight
    BY Idles DEF InFlight, Reading
  <2>2. CASE cache # None
    <3>1. z = [Idle EXCEPT !.pc = "page", !.entry = e, !.entries = cache] /\ cache \in Seq(Snaps)
      BY <1>5, <2>2
    <3> HIDE DEF z
    <3>2. z.pc = "page" /\ z.entry = e
      BY <2>1, <3>1 DEF Tasks
    <3>3. z \in Tasks
      BY <2>1, <3>1 DEF Tasks, Reading
    <3> QED BY <2>1, <3>2, <3>3
  <2>3. CASE cache = None
    <3>1. z = [Idle EXCEPT !.pc = "seek", !.entry = e]
      BY <2>3
    <3> HIDE DEF z
    <3>2. z.pc = "seek" /\ z.entry = e
      BY <2>1, <3>1 DEF Tasks
    <3>3. z \in Tasks
      BY <2>1, <3>1 DEF Tasks, Reading
    <3> QED BY <2>1, <3>2, <3>3
  <2> QED BY <2>2, <2>3
<1>8. walk' \in [Threads -> Walks]
  BY <1>1, <1>2, <1>4, InvFacts
<1>9. MayUse(t, e)
  BY <1>2 DEF MayUse
<1> HIDE DEF x, z
<1> QED BY <1>1, <1>2, <1>3, <1>6, <1>7, <1>8, <1>9, ReadingStep

\* The Seek of Fd_readdir keeps the tree.
LEMMA ReadDirSeekStep ==
  ASSUME IInv, NEW t \in Users, ReadDirSeek(t)
  PROVE  StepOK
<1> DEFINE e == task[t].entry
           x == [entry[e] EXCEPT !.off = 0]
           z == [task[t] EXCEPT !.pc = "readdir"]
<1>1. /\ task[t].pc = "seek" /\ entry' = [entry EXCEPT ![e] = x]
      /\ task' = [task EXCEPT ![t] = z] /\ UNCHANGED <<node, walk>>
  BY InvFacts DEF ReadDirSeek
<1>2. /\ t \in Callers /\ task[t] \in Tasks /\ e \in Held(entry, task) /\ entry[e] \in MemFiles
  BY <1>1, TaskFacts DEF InFlight, Reading
<1>3. x \in MemFiles /\ x.node = entry[e].node /\ x.inTable = entry[e].inTable
  <2>1. 0 \in 0 .. MaxSize
    BY MemFSAssumption
  <2> HIDE DEF e
  <2> QED BY <1>2, <2>1, OffEdit
<1>4. z \in Tasks /\ z.pc \in InFlight /\ z.entry = e
  BY <1>2 DEF Tasks, InFlight, Reading
<1>5. MayUse(t, e) /\ walk' \in [Threads -> Walks] /\ node' = node
  BY <1>1, InvFacts DEF MayUse
<1> HIDE DEF e, x, z
<1> QED BY <1>1, <1>2, <1>3, <1>4, <1>5, ReadingStep

\* The entry takes the snapshot: the tree is kept.
LEMMA KeepSnapshotStep ==
  ASSUME IInv, NEW t \in Users, KeepSnapshot(t)
  PROVE  StepOK
<1> DEFINE e == task[t].entry
           x == [entry[e] EXCEPT !.cache = task[t].entries]
           z == [task[t] EXCEPT !.pc = "page"]
<1>1. /\ task[t].pc = "keep" /\ entry' = [entry EXCEPT ![e] = x]
      /\ task' = [task EXCEPT ![t] = z] /\ UNCHANGED <<node, walk>>
  BY InvFacts DEF KeepSnapshot
<1>2. /\ t \in Callers /\ task[t] \in Tasks /\ e \in Held(entry, task) /\ entry[e] \in MemFiles
  BY <1>1, TaskFacts DEF InFlight, Reading
<1>3. x \in MemFiles /\ x.node = entry[e].node /\ x.inTable = entry[e].inTable
  BY <1>2 DEF MemFiles, Tasks
<1>4. z \in Tasks /\ z.pc \in InFlight /\ z.entry = e
  BY <1>2 DEF Tasks, InFlight, Reading
<1>5. MayUse(t, e) /\ walk' \in [Threads -> Walks] /\ node' = node
  BY <1>1, InvFacts DEF MayUse
<1> HIDE DEF e, x, z
<1> QED BY <1>1, <1>2, <1>3, <1>4, <1>5, ReadingStep

\* The larger of two numbers.
LEMMA MaxFacts ==
  ASSUME NEW a \in Nat, NEW b \in Nat
  PROVE  Max({a, b}) \in Nat
<1>1. \E x \in {a, b} : \A y \in {a, b} : x >= y
  OBVIOUS
<1> QED BY <1>1 DEF Max

\* ReadDir keeps the tree.
LEMMA ReadDirStep ==
  ASSUME IInv, NEW t \in Users, ReadDir(t)
  PROVE  StepOK
<1> DEFINE e == task[t].entry
           n == entry[e].node
           list == <<Dot, DotDot>> \o Listing(n, entry[e].dirOff)
           k == Max({entry[e].dirOff, Cardinality(DOMAIN node[n].children)})
           x == [entry[e] EXCEPT !.dirOff = k]
           z == [task[t] EXCEPT !.pc = "keep", !.entries = list]
<1>1. /\ task[t].pc = "readdir" /\ entry' = [entry EXCEPT ![e] = x] /\ node' = node
      /\ walk' = [walk EXCEPT ![t].there = IF walk[t].entry = e
                                           THEN Range(node[n].children) ELSE @]
  BY InvFacts DEF ReadDir
<1>2. task' = [task EXCEPT ![t] = z]
  <2>1. task' = [task EXCEPT ![t].pc = "keep", ![t].entries = list]
    BY DEF ReadDir
  <2> HIDE DEF list
  <2> QED BY <2>1, InvFacts DEF Callers, Threads
<1>3. /\ t \in Callers /\ t \in Threads /\ task[t] \in Tasks /\ e \in Held(entry, task)
      /\ entry[e] \in MemFiles /\ n \in Nodes
  BY <1>1, TaskFacts DEF InFlight, Reading
<1>4. entry[e].dirOff \in Nat
  BY <1>3 DEF MemFiles
<1>5. Cardinality(DOMAIN node[n].children) \in Nat /\ Listing(n, entry[e].dirOff) \in Seq(Nodes)
  <2> HIDE DEF n, e
  <2> QED BY <1>3, <1>4, InvFacts, ListingFacts
<1>6. k \in Nat
  <2> HIDE DEF n, e
  <2> QED BY <1>4, <1>5, MaxFacts
<1>7. list \in Seq(Snaps)
  <2> DEFINE l == Listing(n, entry[e].dirOff)
  <2>1. l \in Seq(Snaps)
    <3>1. Nodes \subseteq Snaps
      BY DEF Snaps
    <3> HIDE DEF n, e
    <3> QED BY <1>5, <3>1, SeqMonotonic
  <2>2. <<Dot, DotDot>> \in Seq(Snaps)
    BY DEF Snaps
  <2> HIDE DEF l
  <2>3. <<Dot, DotDot>> \o l \in Seq(Snaps)
    BY <2>1, <2>2, ConcatProperties
  <2> QED BY <2>3 DEF l
<1>8. Range(node[n].children) \in SUBSET Nodes
  <2> HIDE DEF n
  <2> QED BY <1>3, InvFacts, ChildrenTyped
<1> HIDE DEF k, list
<1>9. x \in MemFiles /\ x.node = entry[e].node /\ x.inTable = entry[e].inTable
  BY <1>3, <1>6 DEF MemFiles
<1>10. z \in Tasks /\ z.pc \in InFlight /\ z.entry = e
  <2>1. task[t] \in Tasks /\ "keep" \in InFlight
    BY <1>3 DEF InFlight, Reading
  <2>2. z.pc = "keep" /\ z.entry = e
    BY <2>1 DEF Tasks
  <2>3. z \in Tasks
    BY <1>7, <2>1 DEF Tasks, Reading
  <2> QED BY <2>1, <2>2, <2>3
<1>11. walk' \in [Threads -> Walks]
  <2> DEFINE v == [walk[t] EXCEPT !.there = IF walk[t].entry = e
                                            THEN Range(node[n].children) ELSE walk[t].there]
  <2>1. walk' = [walk EXCEPT ![t] = v]
    BY <1>1
  <2>2. walk[t] \in Walks
    BY <1>3, InvFacts
  <2>3. v \in Walks
    BY <1>8, <2>2 DEF Walks
  <2> HIDE DEF v
  <2> QED BY <2>1, <2>3, InvFacts
<1>12. MayUse(t, e)
  BY DEF MayUse
<1> HIDE DEF e, x, z
<1> QED BY <1>1, <1>2, <1>3, <1>9, <1>10, <1>11, <1>12, ReadingStep

---------------------------------------------------------------------------
(* The specification.                                                      *)

\* The empty file system is well formed.
LEMMA InitCorrect ==
  ASSUME Init
  PROVE  IInv
<1>1. <<>> \in Maps /\ Garbage \in MemNodes /\ Sized(Garbage)
  BY NewNodes DEF Garbage, MemNodes
<1> DEFINE root == memNode(Dot, TRUE)
<1>2. root \in MemNodes /\ Sized(root) /\ root.name = Dot /\ root.dir /\ root.children = <<>>
  BY <1>1, MemFSAssumption DEF memNode, MemNodes, Sized
<1> HIDE DEF root
<1>3. node \in [Nodes -> MemNodes] /\ (\A n \in Nodes : Sized(node[n]) /\ node[n].children = <<>>)
      /\ node[Root] = root
  BY <1>1, <1>2, RootNode DEF Init, Garbage, root
<1>4. Named(node) /\ Rooted(node)
  BY <1>2, <1>3 DEF Named, Rooted, Range
<1>5. entry \in [Entries -> MemFiles] /\ \A e \in Entries : entry[e] = Closed
  BY MemFSAssumption DEF Init, Closed, MemFiles
<1>6. TasksTyped(task) /\ Held(entry, task) = {}
  <2>1. \A e \in Entries : ~Closed.inTable
    BY DEF Closed
  <2> QED BY <1>5, <2>1, Idles, NoneFacts DEF Init, TasksTyped, InFlight, Held
<1>7. walk \in [Threads -> Walks]
  BY MemFSAssumption DEF Init, NoWalk, Walks
<1> QED BY <1>3, <1>4, <1>5, <1>6, <1>7 DEF IInv, WorldOK, TreeOK, HeldLive

\* A stuttering step keeps the tree.
LEMMA StutterCorrect ==
  ASSUME IInv, UNCHANGED vars
  PROVE  StepOK
<1>1. Held(entry', task') = Held(entry, task)
  BY DEF vars, Held
<1> QED BY <1>1, InvFacts, PlainStep DEF vars

\* Every call on a path, and Fd_close, keeps the tree.
LEMMA MoveCorrect ==
  ASSUME IInv, NEW t \in Movers, Move(t)
  PROVE  StepOK
<1>1. CASE \E path \in NewPaths, append \in BOOLEAN : Path_openCreates(t, path, append)
  BY <1>1, openCreatesStep
<1>2. CASE \E path \in Paths, trunc, append \in BOOLEAN : Path_open(t, path, trunc, append)
  BY <1>2, openStep
<1>3. CASE \E path \in Paths : Path_create_directory(t, path)
  BY <1>3, create_directoryStep
<1>4. CASE \E path \in Paths, dir \in BOOLEAN : LstatToRemove(t, path, dir)
  BY <1>4, LstatToRemoveStep
<1>5. CASE \E path \in Paths, newPath \in Paths : Path_rename(t, path, newPath)
  BY <1>5, renameStep
<1>6. CASE RemoveNode(t)
  BY <1>6, RemoveNodeStep
<1>7. CASE \E e \in Entries : Fd_close(t, e)
  BY <1>7, closeStep
<1> QED BY <1>1, <1>2, <1>3, <1>4, <1>5, <1>6, <1>7 DEF Move

\* Every call on a descriptor keeps the tree.
LEMMA UseCorrect ==
  ASSUME IInv, NEW t \in Users, Use(t)
  PROVE  StepOK
<1>1. CASE \E e \in Entries : Fd_read(t, e)
  BY <1>1, readStep
<1>2. CASE \E e \in Entries : Fd_readdir(t, e)
  BY <1>2, readdirStep
<1>3. CASE \E e \in Entries, bufs \in 1 .. MaxBufs : Fd_write(t, e, bufs)
  BY <1>3, writeStep
<1>4. CASE \E e \in Entries, off \in 0 .. MaxSize - 1, b \in Bytes : Fd_pwrite(t, e, off, b)
  BY <1>4, pwriteStep
<1>5. CASE \E e \in Entries, n \in 0 .. MaxSize : Fd_seek(t, e, n)
  BY <1>5, seekStep
<1>6. CASE \E e \in Entries, n \in 0 .. MaxSize : Fd_filestat_set_size(t, e, n)
  BY <1>6, set_sizeStep
<1>7. CASE \E b \in Bytes : writeVec(t, b)
  BY <1>7, writeVecStep
<1>8. CASE ReadDirSeek(t)
  BY <1>8, ReadDirSeekStep
<1>9. CASE ReadDir(t)
  BY <1>9, ReadDirStep
<1>10. CASE KeepSnapshot(t)
  BY <1>10, KeepSnapshotStep
<1>11. CASE \E last \in 0 .. MaxNodes + 2, full \in BOOLEAN : Page(t, last, full)
  BY <1>11, PageStep
<1> QED BY <1>1, <1>2, <1>3, <1>4, <1>5, <1>6, <1>7, <1>8, <1>9, <1>10, <1>11 DEF Use

\* Every step keeps the tree, and takes one node at most from it.
LEMMA StepCorrect ==
  ASSUME IInv, [Next]_vars
  PROVE  StepOK
<1>1. CASE Embedder
  <2>1. CASE \E path \in HostPaths : memSplit(path) # <<>> /\ MkdirAll(path)
    BY <2>1, MkdirAllStep
  <2>2. CASE \E b \in HostBytes : WriteFile(b)
    BY <2>2, WriteFileStep
  <2> QED BY <1>1, <2>1, <2>2 DEF Embedder
<1>2. CASE \E t \in Movers : Move(t)
  BY <1>2, MoveCorrect
<1>3. CASE \E t \in Users : Use(t)
  BY <1>3, UseCorrect
<1>4. CASE UNCHANGED vars
  BY <1>4, StutterCorrect
<1> QED BY <1>1, <1>2, <1>3, <1>4 DEF Next

\* The invariant of the file system: the nodes, entries and calls are well
\* formed, a child is under the name it carries and in one directory, an open
\* entry has a node that is alive, and, unless a rename or a WriteFile takes the
\* place of a directory with something in it, what has children is in the tree.
THEOREM TreeInvariant == Spec => []IInv
<1>1. Init => IInv
  BY InitCorrect
<1>2. IInv /\ [Next]_vars => IInv'
  BY StepCorrect DEF StepOK
<1> QED BY <1>1, <1>2, PTL DEF Spec

\* The invariant is stronger than the property the runs check.
LEMMA InvImpliesTypeOK ==
  ASSUME IInv, ~Careless
  PROVE  TypeOK
<1>1. /\ TreeOK(node) /\ node \in [Nodes -> MemNodes] /\ entry \in [Entries -> MemFiles]
      /\ walk \in [Threads -> Walks] /\ HeldLive(node, entry, task)
      /\ \A e \in Entries : e \notin Held(entry, task) => entry[e] = Closed
  BY InvFacts
<1>2. Named(node) /\ (\A n \in Nodes : Sized(node[n])) /\ Rooted(node)
  BY <1>1 DEF TreeOK
<1>3. \A n \in Nodes : node[n].name # None => n \in Live
  BY DEF Live, Garbage
<1>4. ASSUME NEW n \in Live
      PROVE  /\ node[n].len \in 0 .. Len(node[n].data)
             /\ DOMAIN node[n].children \subseteq Names
             /\ ~node[n].dir => node[n].children = <<>>
  <2>1. n \in Nodes
    BY DEF Live
  <2>2. node[n].len \in Nat /\ Len(node[n].data) \in Nat
    BY <1>1, <2>1 DEF MemNodes
  <2> QED BY <1>1, <1>2, <2>1, <2>2, ChildrenTyped DEF Sized, Named
<1>5. ASSUME NEW n \in Live, NEW x \in DOMAIN node[n].children
      PROVE  /\ node[n].children[x] \in Live \ {Root}
             /\ node[node[n].children[x]].name = x
             /\ node[n].children[x] \in Reach(node, {Root})
             /\ \A m \in Live \ {n} : node[n].children[x] \notin Range(node[m].children)
  <2> DEFINE c == node[n].children[x]
  <2>1. n \in Nodes /\ x \in Names /\ c \in Nodes /\ c \in Range(node[n].children)
    BY <1>1, <1>4, ChildrenTyped DEF Live, Range
  <2>2. node[c].name = x
    BY <1>2, <2>1 DEF Named
  <2>3. c \in Live \ {Root}
    BY <1>2, <1>3, <2>1, <2>2, NoneFacts DEF Named
  <2>4. n \in InTree
    <3>1. node[n].children # <<>>
      OBVIOUS
    <3> QED BY <1>2, <2>1, <3>1 DEF Rooted, InTree
  <2>5. c \in InTree
    BY <1>1, <2>1, <2>4, InTreeHolds DEF HoldsChildren
  <2>6. \A m \in Live \ {n} : c \notin Range(node[m].children)
    BY <1>2, <2>1 DEF Named, Live
  <2> QED BY <2>2, <2>3, <2>5, <2>6 DEF InTree
<1>6. ASSUME NEW e \in Entries
      PROVE  entry[e].node \in Live \cup {None} /\ entry[e].off \in 0 .. MaxSize
  <2>1. entry[e].node \in Nodes \cup {None} /\ entry[e].off \in 0 .. MaxSize
    BY <1>1 DEF MemFiles
  <2>2. CASE e \in Held(entry, task)
    BY <1>1, <1>3, <2>1, <2>2 DEF HeldLive
  <2>3. CASE e \notin Held(entry, task)
    BY <1>1, <2>1, <2>3 DEF Closed
  <2> QED BY <2>1, <2>2, <2>3
<1>7. \A t \in Threads : walk[t].cookie \in 0 .. MaxNodes + 2
  BY <1>1 DEF Walks
<1> QED BY <1>4, <1>5, <1>6, <1>7 DEF TypeOK

\* The nodes form a tree, whatever threads and embedder do in whatever order.
THEOREM Trees ==
  ASSUME ~Careless
  PROVE  Spec => []TypeOK
<1>1. IInv => TypeOK
  BY InvImpliesTypeOK
<1> QED BY <1>1, TreeInvariant, PTL

\* What a step may take from the tree.
LosesLittle ==
    LET lost == Reach(node, {Root}) \ Reach(node', {Root})
    IN  Cardinality(lost) <= 1 /\ \A n \in lost : node[n].children = <<>>

\* What a step may take from the tree is what NothingLost allows.
LEMMA LosesIsLittle ==
  ASSUME Loses(node')
  PROVE  LosesLittle
<1> DEFINE lost == Reach(node, {Root}) \ Reach(node', {Root})
<1>1. PICK C \in SUBSET Nodes : /\ \A c, d \in C : c = d
                                /\ \A c \in C : node[c].children = <<>>
                                /\ InTree \subseteq Reach(node', {Root}) \cup C
  BY DEF Loses
<1>2. lost \subseteq C
  BY <1>1 DEF InTree
<1> HIDE DEF lost
<1>3. Cardinality(lost) <= 1
  <2>1. CASE lost = {}
    BY <2>1, FS_EmptySet
  <2>2. CASE lost # {}
    <3>1. PICK c : lost = {c}
      BY <1>1, <1>2, <2>2
    <3> QED BY <3>1, FS_Singleton
  <2> QED BY <2>1, <2>2
<1> QED BY <1>1, <1>2, <1>3 DEF LosesLittle, lost

\* No step makes a file unreachable that it does not name: what leaves the tree
\* is one node with nothing in it.
THEOREM NothingIsLost ==
  ASSUME ~Careless
  PROVE  Spec => NothingLost
<1>1. IInv /\ [Next]_vars => [LosesLittle]_vars
  BY StepCorrect, LosesIsLittle DEF StepOK
<1>2. NothingLost <=> [][LosesLittle]_vars
  BY DEF NothingLost, LosesLittle
<1> QED BY <1>1, <1>2, TreeInvariant, PTL DEF Spec

---------------------------------------------------------------------------
(* Listings.  A snapshot is complete when ReadDir makes it; a page shows   *)
(* the next part of it; nobody else changes an entry that a thread reads.  *)

\* A snapshot of a directory lists what is in it, each once.
Complete(s, there) == Range(s) = {Dot, DotDot} \cup there /\ IsInjective(s)

\* How far a thread has read (w) through an entry (x), with its call (z).
Progress(w, x, z) ==
    /\ x.inTable /\ x.listed
    /\ z.pc \in {"seek", "readdir"} => x.cache = None /\ x.dirOff = 0
    /\ z.pc \in {"seek", "readdir", "keep"} => w.cookie = 0 /\ w.seen = <<>> /\ ~w.over
    /\ z.pc = "keep" => Complete(z.entries, w.there)
    /\ z.pc = "page" => z.entries = x.cache /\ ~w.over
    /\ z.pc \notin Reading => w.cookie # 0
    /\ z.pc \notin {"seek", "readdir", "keep"} =>
          /\ x.cache # None /\ Complete(x.cache, w.there)
          /\ w.cookie <= Len(x.cache) /\ w.seen = SubSeq(x.cache, 1, w.cookie)
          /\ w.over => w.cookie = Len(x.cache)

\* What holds of a thread's walk.
WalkOK(t) == IF walk[t].entry = None THEN ~walk[t].over
             ELSE Progress(walk[t], entry[walk[t].entry], task[t])

\* A thread reads the directory it walks, unless the entry was closed under it.
ReaderOK(t) ==
    LET e == task[t].entry
    IN  task[t].pc \in Reading =>
           /\ walk[t].entry \in {None, e}
           /\ entry[e].inTable => walk[t].entry = e
           /\ entry[e].listed

\* Two threads do not walk through one entry.
Apart == \A t, u \in Threads : t # u /\ walk[t].entry # None => walk[t].entry # walk[u].entry

\* Nothing was read through an entry.
Unlisted(x) == x.cache = None /\ x.dirOff = 0

\* The inductive invariant of the listings.
WalkInv ==
    /\ Apart
    /\ \A t \in Threads : WalkOK(t) /\ ReaderOK(t)
    /\ \A e \in Entries : ~entry[e].listed => Unlisted(entry[e])

\* An entry as a reader of directories sees it.
SameDir(x, y) == /\ x.inTable = y.inTable /\ x.listed = y.listed
                 /\ x.cache = y.cache /\ x.dirOff = y.dirOff

\* A thread that takes no part in a step.
LEMMA ThreadStays ==
  ASSUME NEW u \in Threads, WalkOK(u), ReaderOK(u), walk'[u] = walk[u],
         \/ task'[u] = task[u]
         \/ task'[u].pc \notin Reading /\ task[u].pc \notin Reading,
         walk[u].entry # None => SameDir(entry'[walk[u].entry], entry[walk[u].entry]),
         task[u].pc \in Reading =>
            /\ entry'[task[u].entry].inTable => entry[task[u].entry].inTable
            /\ entry[task[u].entry].listed => entry'[task[u].entry].listed
  PROVE  WalkOK(u)' /\ ReaderOK(u)'
<1>1. ReaderOK(u)'
  BY DEF ReaderOK
<1>2. CASE walk[u].entry = None
  BY <1>1, <1>2 DEF WalkOK
<1>3. CASE walk[u].entry # None
  <2>1. Progress(walk[u], entry[walk[u].entry], task[u])
    BY <1>3 DEF WalkOK
  <2>2. Progress(walk[u], entry'[walk[u].entry], task'[u])
    <3>1. CASE task'[u] = task[u]
      BY <1>3, <2>1, <3>1 DEF Progress, SameDir
    <3>2. CASE task'[u].pc \notin Reading /\ task[u].pc \notin Reading
      BY <1>3, <2>1, <3>2 DEF Progress, SameDir, Reading
    <3> QED BY <3>1, <3>2
  <2>3. WalkOK(u)'
    BY <1>3, <2>2 DEF WalkOK
  <2> QED BY <1>1, <2>3
<1> QED BY <1>2, <1>3

\* A step that no reader of a directory notices.
Quiet ==
    /\ walk' = walk
    /\ \A u \in Threads : \/ task'[u] = task[u]
                          \/ task'[u].pc \notin Reading /\ task[u].pc \notin Reading
    /\ \A e \in Entries : \/ SameDir(entry'[e], entry[e])
                          \/ /\ Unlisted(entry'[e]) /\ ~entry[e].inTable
                             /\ \A u \in Threads : task[u].pc \in Reading => task[u].entry # e

\* A step that no reader notices keeps what is known of the listings.
LEMMA QuietWalks ==
  ASSUME IInv, WalkInv, Quiet
  PROVE  WalkInv'
<1>1. /\ walk \in [Threads -> Walks]
      /\ \A u \in Threads : u \in Callers /\ task[u] \in Tasks
      /\ \A u \in Threads : task[u].pc \in Reading => task[u].entry \in Entries
  <2>1. walk \in [Threads -> Walks] /\ \A u \in Threads : u \in Callers /\ task[u] \in Tasks
    BY InvFacts DEF Callers
  <2>2. \A u \in Threads : task[u].pc \in Reading => task[u].entry # None
    BY InvFacts DEF Callers, InFlight
  <2> QED BY <2>1, <2>2 DEF Tasks
<1>2. ASSUME NEW u \in Threads PROVE WalkOK(u)' /\ ReaderOK(u)'
  <2>1. walk[u].entry # None => walk[u].entry \in Entries /\ entry[walk[u].entry].inTable
    BY <1>1 DEF WalkInv, WalkOK, Progress, Walks
  <2>2. walk[u].entry # None => SameDir(entry'[walk[u].entry], entry[walk[u].entry])
    BY <2>1 DEF Quiet
  <2>3. task[u].pc \in Reading => SameDir(entry'[task[u].entry], entry[task[u].entry])
    BY <1>1 DEF Quiet
  <2>4. task[u].pc \in Reading =>
            /\ entry'[task[u].entry].inTable => entry[task[u].entry].inTable
            /\ entry[task[u].entry].listed => entry'[task[u].entry].listed
    BY <2>3 DEF SameDir
  <2>5. walk'[u] = walk[u] /\ \/ task'[u] = task[u]
                              \/ task'[u].pc \notin Reading /\ task[u].pc \notin Reading
    BY DEF Quiet
  <2> QED BY <2>2, <2>4, <2>5, ThreadStays DEF WalkInv
<1>3. Apart'
  BY DEF WalkInv, Quiet, Apart
<1>4. \A e \in Entries : ~entry'[e].listed => Unlisted(entry'[e])
  BY DEF WalkInv, Quiet, SameDir, Unlisted
<1> QED BY <1>2, <1>3, <1>4 DEF WalkInv

\* So does such a change followed by the collector.
LEMMA QuietSettle ==
  ASSUME IInv, WalkInv, NEW nodes, NEW entries, NEW tasks, Settle(nodes, entries, tasks),
         walk' = walk,
         \A u \in Threads : \/ tasks[u] = task[u]
                            \/ tasks[u].pc \notin Reading /\ task[u].pc \notin Reading,
         \A e \in Entries : \/ SameDir(entries[e], entry[e])
                            \/ Unlisted(entries[e]) /\ e \notin Held(entry, task)
  PROVE  WalkInv'
<1>1. /\ entry' = [e \in Entries |-> IF e \in Held(entries, tasks) THEN entries[e] ELSE Closed]
      /\ task' = tasks
  BY DEF Settle
<1>2. ASSUME NEW e \in Entries
      PROVE  \/ SameDir(entry'[e], entry[e])
             \/ /\ Unlisted(entry'[e]) /\ ~entry[e].inTable
                /\ \A u \in Threads : task[u].pc \in Reading => task[u].entry # e
  <2>1. CASE e \in Held(entries, tasks) /\ SameDir(entries[e], entry[e])
    BY <1>1, <2>1
  <2>2. CASE e \notin Held(entries, tasks) /\ SameDir(entries[e], entry[e])
    <3>1. Unlisted(entry'[e])
      BY <1>1, <2>2 DEF Unlisted, Closed
    <3>2. ~entry[e].inTable /\ \A u \in Callers : tasks[u].entry # e
      BY <2>2 DEF Held, SameDir
    <3>3. \A u \in Threads : task[u].pc \in Reading => task[u].entry # e
      BY <3>2 DEF Callers
    <3> QED BY <3>1, <3>2, <3>3
  <2>3. CASE Unlisted(entries[e]) /\ e \notin Held(entry, task)
    <3>1. Unlisted(entry'[e])
      BY <1>1, <2>3 DEF Unlisted, Closed
    <3>2. ~entry[e].inTable /\ \A u \in Callers : task[u].entry # e
      BY <2>3 DEF Held
    <3> QED BY <3>1, <3>2 DEF Callers
  <2> QED BY <2>1, <2>2, <2>3
<1>3. Quiet
  BY <1>1, <1>2 DEF Quiet
<1> QED BY <1>3, QuietWalks

\* An entry that is opened was no reader's.
LEMMA OpenedWalks ==
  ASSUME IInv, WalkInv, NEW e \in Entries, Free(e), NEW nodes, NEW n, NEW append \in BOOLEAN,
         Registered(e, nodes, n, append), walk' = walk
  PROVE  WalkInv'
<1> DEFINE x == Opened(n, IF append THEN nodes[n].len ELSE 0)
           entries == [entry EXCEPT ![e] = x]
<1>1. Unlisted(x)
  BY DEF Unlisted, Opened, Closed
<1>2. Settle(nodes, entries, task)
  BY DEF Registered
<1> HIDE DEF x
<1>3. \A f \in Entries : \/ SameDir(entries[f], entry[f])
                         \/ Unlisted(entries[f]) /\ f \notin Held(entry, task)
  BY <1>1, InvFacts DEF SameDir, Free
<1> HIDE DEF entries
<1> QED BY <1>2, <1>3, QuietSettle

\* A step that leaves the entries to the collector, of a caller that reads no
\* directory.
LEMMA PlainWalks ==
  ASSUME IInv, WalkInv, walk' = walk, NEW nodes, NEW tasks, NEW t \in Callers,
         task[t].pc \notin Reading, NEW x, x.pc \notin Reading, tasks = [task EXCEPT ![t] = x],
         Settle(nodes, entry, tasks)
  PROVE  WalkInv'
<1>1. \A u \in Threads : \/ tasks[u] = task[u]
                         \/ tasks[u].pc \notin Reading /\ task[u].pc \notin Reading
  BY InvFacts DEF Callers
<1>2. \A e \in Entries : SameDir(entry[e], entry[e])
  BY DEF SameDir
<1> QED BY <1>1, <1>2, QuietSettle

\* A change of the tree alone is not noticed: readers go by their snapshots.
LEMMA SameTaskWalks ==
  ASSUME IInv, WalkInv, walk' = walk, NEW nodes, Settle(nodes, entry, task)
  PROVE  WalkInv'
<1>1. \A e \in Entries : SameDir(entry[e], entry[e])
  BY DEF SameDir
<1> QED BY <1>1, QuietSettle

\* A call that reads no directory begins or ends.
LEMMA TaskWalks ==
  ASSUME IInv, WalkInv, walk' = walk, entry' = entry, NEW t \in Callers,
         task[t].pc \notin Reading, NEW x, x.pc \notin Reading, task' = [task EXCEPT ![t] = x]
  PROVE  WalkInv'
<1>1. \A u \in Threads : \/ task'[u] = task[u]
                         \/ task'[u].pc \notin Reading /\ task[u].pc \notin Reading
  BY InvFacts DEF Callers
<1>2. \A e \in Entries : SameDir(entry'[e], entry[e])
  BY DEF SameDir
<1> QED BY <1>1, <1>2, QuietWalks DEF Quiet

\* The offset is not part of a listing.
LEMMA OffWalks ==
  ASSUME IInv, WalkInv, walk' = walk, task' = task, NEW e \in Entries, NEW off,
         entry' = [entry EXCEPT ![e].off = off]
  PROVE  WalkInv'
<1>1. SameDir([entry[e] EXCEPT !.off = off], entry[e])
  BY InvFacts DEF SameDir, MemFiles
<1>2. entry' = [entry EXCEPT ![e] = [entry[e] EXCEPT !.off = off]]
  OBVIOUS
<1>3. \A f \in Entries : SameDir(entry'[f], entry[f])
  BY <1>1, <1>2, InvFacts DEF SameDir
<1> QED BY <1>3, QuietWalks DEF Quiet

\* The calls that read no directory.
LEMMA Pcs ==
  /\ "idle" \notin Reading /\ "remove" \notin Reading /\ "write" \notin Reading
  /\ "writev" \notin Reading
  /\ \A pc, e, path, left :
        [Idle EXCEPT !.pc = pc, !.path = path].pc = pc
        /\ [Idle EXCEPT !.pc = pc, !.entry = e, !.left = left].pc = pc
  /\ Idle.pc = "idle"
BY DEF Reading, Idle

\* Calls on paths do not disturb a listing.
LEMMA MovesWalk ==
  ASSUME IInv, WalkInv, NEW t \in Movers, Move(t), ~(\E e \in Entries : Fd_close(t, e))
  PROVE  WalkInv'
<1>1. t \in Callers
  BY DEF Callers, Threads
<1>2. ASSUME NEW path \in NewPaths, NEW append \in BOOLEAN, Path_openCreates(t, path, append)
      PROVE  WalkInv'
  <2> DEFINE nodes == [Put(node, lookupParent(path), Base(path), NewNode)
                          EXCEPT ![NewNode] = memNode(Base(path), FALSE)]
  <2>1. PICK e \in Entries : Free(e) /\ Registered(e, nodes, NewNode, append)
    BY <1>2 DEF Path_openCreates
  <2>2. walk' = walk
    BY <1>2 DEF Path_openCreates
  <2> HIDE DEF nodes
  <2> QED BY <2>1, <2>2, OpenedWalks
<1>3. ASSUME NEW path \in Paths, NEW trunc \in BOOLEAN, NEW append \in BOOLEAN,
             Path_open(t, path, trunc, append)
      PROVE  WalkInv'
  <2> DEFINE n == lookup(path)
             nodes == IF trunc /\ ~node[n].dir THEN [node EXCEPT ![n].len = 0] ELSE node
  <2>1. PICK e \in Entries : Free(e) /\ Registered(e, nodes, n, append)
    BY <1>3 DEF Path_open
  <2>2. walk' = walk
    BY <1>3 DEF Path_open
  <2> HIDE DEF nodes, n
  <2> QED BY <2>1, <2>2, OpenedWalks
<1>4. ASSUME NEW path \in Paths, Path_create_directory(t, path)
      PROVE  WalkInv'
  <2> DEFINE nodes == [Put(node, lookupParent(path), Base(path), NewNode)
                          EXCEPT ![NewNode] = memNode(Base(path), TRUE)]
  <2>1. Settle(nodes, entry, task) /\ walk' = walk
    BY <1>4 DEF Path_create_directory
  <2> HIDE DEF nodes
  <2> QED BY <2>1, SameTaskWalks
<1>5. ASSUME NEW path \in Paths, NEW dir \in BOOLEAN, LstatToRemove(t, path, dir)
      PROVE  WalkInv'
  <2> DEFINE x == [Idle EXCEPT !.pc = "remove", !.path = path]
  <2>1. task' = [task EXCEPT ![t] = x] /\ walk' = walk /\ entry' = entry /\ task[t].pc = "idle"
    BY <1>5 DEF LstatToRemove, Calls
  <2>2. x.pc \notin Reading
    BY Pcs
  <2> HIDE DEF x
  <2> QED BY <1>1, <2>1, <2>2, Pcs, TaskWalks
<1>6. ASSUME NEW path \in Paths, NEW newPath \in Paths, Path_rename(t, path, newPath)
      PROVE  WalkInv'
  <2> DEFINE nodes == Moved(lookupParent(path), Base(path), lookupParent(newPath), Base(newPath))
  <2>1. Settle(nodes, entry, task) /\ walk' = walk
    BY <1>6 DEF Path_rename
  <2> HIDE DEF nodes
  <2> QED BY <2>1, SameTaskWalks
<1>7. ASSUME RemoveNode(t) PROVE WalkInv'
  <2> DEFINE p == lookupParent(task[t].path)
             nodes == [node EXCEPT ![p].children = Without(@, Base(task[t].path))]
             tasks == [task EXCEPT ![t] = Idle]
  <2>1. /\ walk' = walk /\ task[t].pc = "remove"
        /\ Settle(nodes, entry, tasks) \/ (task' = tasks /\ entry' = entry)
    BY <1>7 DEF RemoveNode
  <2>2. Idle.pc \notin Reading /\ task[t].pc \notin Reading
    BY <2>1, Pcs
  <2> HIDE DEF nodes
  <2> QED BY <1>1, <2>1, <2>2, PlainWalks, TaskWalks
<1> QED BY <1>2, <1>3, <1>4, <1>5, <1>6, <1>7 DEF Move

\* The embedder does not disturb a listing.
LEMMA EmbedderWalks ==
  ASSUME IInv, WalkInv, Embedder
  PROVE  WalkInv'
<1>1. Host \in Callers
  BY DEF Callers
<1>2. ASSUME NEW path \in HostPaths, MkdirAll(path) PROVE WalkInv'
  <2> DEFINE part == Head(memSplit(path))
             x == [Idle EXCEPT !.pc = "write", !.path = path]
             tasks == [task EXCEPT ![Host] = x]
             nodes == [Put(node, Root, part, NewNode) EXCEPT ![NewNode] = memNode(part, TRUE)]
  <2>1. /\ walk' = walk /\ task[Host].pc = "idle"
        /\ Settle(nodes, entry, tasks) \/ (task' = tasks /\ entry' = entry)
    BY <1>2 DEF MkdirAll, Calls
  <2>2. x.pc \notin Reading /\ task[Host].pc \notin Reading
    BY <2>1, Pcs
  <2> HIDE DEF nodes, x
  <2> QED BY <1>1, <2>1, <2>2, PlainWalks, TaskWalks
<1>3. ASSUME NEW b \in HostBytes, WriteFile(b) PROVE WalkInv'
  <2> DEFINE path == task[Host].path
             nodes == [Put(node, lookupParent(path), Base(path), NewNode)
                         EXCEPT ![NewNode] = [memNode(Base(path), FALSE)
                                                 EXCEPT !.data = <<b>>, !.len = 1]]
             tasks == [task EXCEPT ![Host] = Idle]
  <2>1. /\ walk' = walk /\ task[Host].pc = "write"
        /\ Settle(nodes, entry, tasks) \/ (task' = tasks /\ entry' = entry)
    BY <1>3 DEF WriteFile
  <2>2. Idle.pc \notin Reading /\ task[Host].pc \notin Reading
    BY <2>1, Pcs
  <2> HIDE DEF nodes
  <2> QED BY <1>1, <2>1, <2>2, PlainWalks, TaskWalks
<1> QED BY <1>2, <1>3 DEF Embedder

\* Reads and writes of files do not disturb a listing.
LEMMA WritesWalk ==
  ASSUME IInv, WalkInv, NEW t \in Users, Use(t),
         ~(\E e \in Entries : Fd_readdir(t, e)),
         ~(ReadDirSeek(t) \/ ReadDir(t) \/ KeepSnapshot(t)),
         ~(\E last \in 0 .. MaxNodes + 2, full \in BOOLEAN : Page(t, last, full))
  PROVE  WalkInv'
<1>1. t \in Callers
  BY DEF Callers, Threads
<1>2. ASSUME NEW e \in Entries, Fd_read(t, e) PROVE WalkInv'
  <2>1. /\ walk' = walk /\ task' = task
        /\ entry' = [entry EXCEPT ![e].off = entry[e].off + 1]
    BY <1>2 DEF Fd_read
  <2> QED BY <2>1, OffWalks
<1>3. ASSUME NEW e \in Entries, NEW off, Fd_seek(t, e, off) PROVE WalkInv'
  BY <1>3, OffWalks DEF Fd_seek
<1>4. ASSUME NEW e \in Entries, NEW bufs, Fd_write(t, e, bufs) PROVE WalkInv'
  <2> DEFINE x == [Idle EXCEPT !.pc = "writev", !.entry = e, !.left = bufs]
  <2>1. task' = [task EXCEPT ![t] = x] /\ walk' = walk /\ entry' = entry /\ task[t].pc = "idle"
    BY <1>4 DEF Fd_write, UsesFile, Uses, Calls
  <2>2. x.pc \notin Reading
    BY Pcs
  <2> HIDE DEF x
  <2> QED BY <1>1, <2>1, <2>2, Pcs, TaskWalks
<1>5. ASSUME NEW e \in Entries, NEW off, NEW b, Fd_pwrite(t, e, off, b) PROVE WalkInv'
  <2> DEFINE nodes == [node EXCEPT ![entry[e].node] = writeAt(node[entry[e].node], off, b)]
  <2>1. Settle(nodes, entry, task) /\ walk' = walk
    BY <1>5 DEF Fd_pwrite
  <2> HIDE DEF nodes
  <2> QED BY <2>1, SameTaskWalks
<1>6. ASSUME NEW e \in Entries, NEW size, Fd_filestat_set_size(t, e, size) PROVE WalkInv'
  <2> DEFINE nodes == [node EXCEPT ![entry[e].node] = Truncated(node[entry[e].node], size)]
  <2>1. Settle(nodes, entry, task) /\ walk' = walk
    BY <1>6 DEF Fd_filestat_set_size
  <2> HIDE DEF nodes
  <2> QED BY <2>1, SameTaskWalks
<1>7. ASSUME NEW b, writeVec(t, b) PROVE WalkInv'
  <2> DEFINE e == task[t].entry
             n == entry[e].node
             nodes == [node EXCEPT ![n] = writeAt(node[n], entry[e].off, b)]
             x == [entry[e] EXCEPT !.off = entry[e].off + 1]
             entries == [entry EXCEPT ![e] = x]
             z == IF task[t].left = 1 THEN Idle ELSE [task[t] EXCEPT !.left = @ - 1]
             tasks == [task EXCEPT ![t] = z]
  <2>1. task[t].pc = "writev" /\ Settle(nodes, entries, tasks) /\ walk' = walk
    BY <1>7 DEF writeVec
  <2>2. task[t] \in Tasks /\ e \in Entries /\ entry[e] \in MemFiles
    BY <2>1, TaskFacts DEF InFlight
  <2>3. z.pc \notin Reading /\ task[t].pc \notin Reading
    <3>1. CASE task[t].left = 1
      BY <2>1, <3>1, Pcs
    <3>2. CASE task[t].left # 1
      <4>1. z = [task[t] EXCEPT !.left = task[t].left - 1]
        BY <3>2
      <4>2. z.pc = "writev"
        BY <2>1, <2>2, <4>1 DEF Tasks
      <4> QED BY <2>1, <4>2, Pcs
    <3> QED BY <3>1, <3>2
  <2>4. SameDir(x, entry[e])
    BY <2>2 DEF SameDir, MemFiles
  <2> HIDE DEF x, z, e, nodes
  <2>5. \A f \in Entries : SameDir(entries[f], entry[f])
    BY <2>2, <2>4, InvFacts DEF SameDir
  <2>6. \A u \in Threads : \/ tasks[u] = task[u]
                           \/ tasks[u].pc \notin Reading /\ task[u].pc \notin Reading
    BY <1>1, <2>3, InvFacts DEF Callers
  <2> HIDE DEF entries, tasks
  <2> QED BY <2>1, <2>5, <2>6, QuietSettle
<1> QED BY <1>2, <1>3, <1>4, <1>5, <1>6, <1>7 DEF Use

\* What the invariants say of a thread.
LEMMA WalkFacts ==
  ASSUME IInv, WalkInv, NEW u \in Threads
  PROVE  /\ u \in Callers /\ task[u] \in Tasks /\ walk[u] \in Walks
         /\ WalkOK(u) /\ ReaderOK(u)
         /\ task[u].pc \in Reading => task[u].entry \in Entries
         /\ walk[u].entry # None =>
               /\ walk[u].entry \in Entries /\ entry[walk[u].entry].inTable
               /\ entry[walk[u].entry].listed
               /\ Progress(walk[u], entry[walk[u].entry], task[u])
               /\ \A v \in Threads \ {u} : walk[v].entry # walk[u].entry
<1>1. u \in Callers /\ task[u] \in Tasks /\ walk[u] \in Walks
  BY InvFacts DEF Callers
<1>2. task[u].pc \in Reading => task[u].entry # None
  BY <1>1, InvFacts DEF InFlight
<1>3. task[u].pc \in Reading => task[u].entry \in Entries
  BY <1>1, <1>2 DEF Tasks
<1>4. walk[u].entry # None => walk[u].entry \in Entries
  BY <1>1 DEF Walks
<1>5. WalkOK(u) /\ ReaderOK(u)
  BY DEF WalkInv
<1>6. walk[u].entry # None => Progress(walk[u], entry[walk[u].entry], task[u])
  BY <1>5 DEF WalkOK
<1>7. walk[u].entry # None => \A v \in Threads \ {u} : walk[v].entry # walk[u].entry
  BY DEF WalkInv, Apart
<1> QED BY <1>1, <1>3, <1>4, <1>5, <1>6, <1>7 DEF Progress

\* Fd_close ends the listings that go through the entry.
LEMMA closeWalks ==
  ASSUME IInv, WalkInv, NEW t \in Movers, NEW e \in Entries, Fd_close(t, e)
  PROVE  WalkInv'
<1> DEFINE x == [entry[e] EXCEPT !.inTable = FALSE]
           entries == [entry EXCEPT ![e] = x]
           held == Held(entries, task)
<1>1. /\ entry' = [f \in Entries |-> IF f \in held THEN entries[f] ELSE Closed]
      /\ task' = task
      /\ walk' = [u \in Threads |-> IF walk[u].entry = e THEN NoWalk ELSE walk[u]]
  BY DEF Fd_close, Settle
<1>2. entry \in [Entries -> MemFiles]
  BY InvFacts
<1>3. ~x.inTable /\ x.listed = entry[e].listed /\ x.cache = entry[e].cache
      /\ x.dirOff = entry[e].dirOff
  BY <1>2 DEF MemFiles
<1> HIDE DEF x
<1>4. entries[e] = x /\ \A f \in Entries \ {e} : entries[f] = entry[f]
  BY <1>2
<1> HIDE DEF entries
<1>5. \A f \in Entries : entries[f].inTable \/ (\E u \in Callers : task[u].entry = f) => f \in held
  BY DEF Held
<1> HIDE DEF held
<1>6. NoWalk.entry = None /\ ~NoWalk.over
  BY DEF NoWalk
<1>7. ASSUME NEW u \in Threads PROVE WalkOK(u)' /\ ReaderOK(u)'
  <2>1. ASSUME task[u].pc \in Reading
        PROVE  /\ entry'[task[u].entry].inTable =>
                     entry[task[u].entry].inTable /\ task[u].entry # e
               /\ entry'[task[u].entry].listed = entry[task[u].entry].listed
    <3> DEFINE f == task[u].entry
    <3>1. f \in Entries /\ u \in Callers
      BY <2>1, WalkFacts
    <3>2. entry'[f] = entries[f]
      BY <1>1, <1>5, <3>1
    <3>3. CASE f = e
      BY <1>3, <1>4, <3>2, <3>3
    <3>4. CASE f # e
      BY <1>4, <3>1, <3>2, <3>4
    <3> QED BY <3>3, <3>4
  <2>2. CASE walk[u].entry = e
    <3>1. walk'[u] = NoWalk
      BY <1>1, <2>2
    <3>2. WalkOK(u)'
      BY <1>6, <3>1 DEF WalkOK
    <3>3. ReaderOK(u)'
      <4>1. CASE task[u].pc \in Reading
        <5>1. /\ walk[u].entry \in {None, task[u].entry} /\ entry[task[u].entry].listed
              /\ entry[task[u].entry].inTable => walk[u].entry = task[u].entry
          BY <4>1, WalkFacts DEF ReaderOK
        <5>2. ~entry'[task[u].entry].inTable
          BY <2>1, <2>2, <4>1, <5>1
        <5> QED BY <1>1, <1>6, <2>1, <3>1, <4>1, <5>1, <5>2 DEF ReaderOK
      <4>2. CASE task[u].pc \notin Reading
        BY <1>1, <4>2 DEF ReaderOK
      <4> QED BY <4>1, <4>2
    <3> QED BY <3>2, <3>3
  <2>3. CASE walk[u].entry # e
    <3>1. walk'[u] = walk[u] /\ task'[u] = task[u]
      BY <1>1, <2>3
    <3>2. walk[u].entry # None => SameDir(entry'[walk[u].entry], entry[walk[u].entry])
      <4>1. CASE walk[u].entry # None
        <5>1. walk[u].entry \in Entries /\ entry[walk[u].entry].inTable
          BY <4>1, WalkFacts
        <5>2. entry'[walk[u].entry] = entry[walk[u].entry]
          BY <1>1, <1>4, <1>5, <2>3, <5>1
        <5> QED BY <5>2 DEF SameDir
      <4> QED BY <4>1
    <3> QED BY <2>1, <3>1, <3>2, WalkFacts, ThreadStays
  <2> QED BY <2>2, <2>3
<1>8. Apart'
  BY <1>1, <1>6 DEF WalkInv, Apart
<1>9. \A f \in Entries : ~entry'[f].listed => Unlisted(entry'[f])
  <2>1. Unlisted(Closed)
    BY DEF Unlisted, Closed
  <2>2. \A f \in Entries : ~entries[f].listed => Unlisted(entries[f])
    BY <1>3, <1>4 DEF WalkInv, Unlisted
  <2> QED BY <1>1, <2>1, <2>2
<1> QED BY <1>7, <1>8, <1>9 DEF WalkInv

\* A step of a thread that reads the directory of e: only it walks through e.
LEMMA ReaderWalks ==
  ASSUME IInv, WalkInv, NEW t \in Threads, NEW e \in Entries, NEW x,
         entry' = [entry EXCEPT ![e] = x], x.inTable = entry[e].inTable, x.listed,
         \A u \in Threads \ {t} : walk[u].entry # e,
         \A u \in Threads \ {t} : walk'[u] = walk[u] /\ task'[u] = task[u],
         walk'[t].entry \in {None, e}, WalkOK(t)', ReaderOK(t)'
  PROVE  WalkInv'
<1>1. entry'[e] = x /\ \A f \in Entries \ {e} : entry'[f] = entry[f]
  BY InvFacts
<1>2. ASSUME NEW u \in Threads \ {t} PROVE WalkOK(u)' /\ ReaderOK(u)'
  <2>1. walk[u].entry # None => SameDir(entry'[walk[u].entry], entry[walk[u].entry])
    BY <1>1, WalkFacts DEF SameDir
  <2>2. task[u].pc \in Reading =>
            /\ entry'[task[u].entry].inTable => entry[task[u].entry].inTable
            /\ entry[task[u].entry].listed => entry'[task[u].entry].listed
    BY <1>1, WalkFacts
  <2> QED BY <2>1, <2>2, WalkFacts, ThreadStays
<1>3. Apart'
  BY DEF WalkInv, Apart
<1>4. \A f \in Entries : ~entry'[f].listed => Unlisted(entry'[f])
  BY <1>1 DEF WalkInv
<1> QED BY <1>2, <1>3, <1>4 DEF WalkInv

\* Fd_readdir goes on with the cookie it returned, or begins with an entry
\* that was not read before.
LEMMA readdirWalks ==
  ASSUME ~Rewinds, IInv, WalkInv, NEW t \in Users, NEW e \in Entries, Fd_readdir(t, e)
  PROVE  WalkInv'
<1> DEFINE w == IF walk[t].entry = None \/ walk[t].over THEN [NoWalk EXCEPT !.entry = e]
                ELSE walk[t]
           cache == Dropped(w)
           x == [entry[e] EXCEPT !.cache = cache, !.listed = TRUE]
           z == IF cache # None
                THEN [Idle EXCEPT !.pc = "page", !.entry = e, !.entries = cache]
                ELSE [Idle EXCEPT !.pc = "seek", !.entry = e]
<1>1. /\ walk' = [walk EXCEPT ![t] = w] /\ task' = [task EXCEPT ![t] = z]
      /\ entry' = [entry EXCEPT ![e].cache = cache, ![e].listed = TRUE]
      /\ walk[t].entry \in {None, e} /\ entry[e].inTable /\ task[t].pc = "idle"
      /\ \A u \in Threads \ {t} : walk[u].entry # e
      /\ w.cookie = 0 => ~entry[e].listed
  BY DEF Fd_readdir, Uses, Calls
<1>2. /\ t \in Threads /\ t \in Callers /\ walk[t] \in Walks /\ entry[e] \in MemFiles
      /\ e # None
  BY InvFacts, NoneFacts DEF Threads, Callers, MemFiles
<1>3. entry' = [entry EXCEPT ![e] = x]
  BY <1>1, <1>2, InvFacts
<1>4. x.inTable /\ x.listed /\ x.cache = cache /\ x.dirOff = entry[e].dirOff
  BY <1>1, <1>2 DEF MemFiles
<1>5. /\ w.entry = e
      /\ \/ w = [NoWalk EXCEPT !.entry = e] /\ cache = None /\ entry[e].dirOff = 0
         \/ /\ w = walk[t] /\ w.entry = e /\ ~w.over /\ w.cookie # 0 /\ cache = entry[e].cache
            /\ cache # None
            /\ Progress(w, entry[e], task[t])
  <2>1. [NoWalk EXCEPT !.entry = e].entry = e /\ [NoWalk EXCEPT !.entry = e].cookie = 0
    BY DEF NoWalk
  <2>2. CASE walk[t].entry = None \/ walk[t].over
    <3>1. w = [NoWalk EXCEPT !.entry = e]
      BY <2>2
    <3> HIDE DEF w
    <3>2. cache = None
      BY <2>1, <3>1 DEF Dropped
    <3>3. entry[e].dirOff = 0
      BY <1>1, <2>1, <3>1 DEF WalkInv, Unlisted
    <3> QED BY <2>1, <3>1, <3>2, <3>3
  <2>3. CASE walk[t].entry # None /\ ~walk[t].over
    <3>1. w = walk[t] /\ w.entry = e /\ ~w.over
      BY <1>1, <2>3
    <3> HIDE DEF w
    <3>2. Progress(w, entry[e], task[t])
      BY <1>2, <2>3, <3>1, WalkFacts
    <3>3. w.cookie # 0 /\ entry[e].cache # None
      BY <1>1, <3>2 DEF Progress, Reading
    <3>4. cache = entry[e].cache
      BY <3>1, <3>3 DEF Dropped
    <3> QED BY <3>1, <3>2, <3>3, <3>4
  <2> QED BY <2>2, <2>3
<1> HIDE DEF w, cache, x
<1>6. Progress(w, x, z) /\ z.entry = e
  <2>1. CASE w = [NoWalk EXCEPT !.entry = e] /\ cache = None /\ entry[e].dirOff = 0
    <3>1. z = [Idle EXCEPT !.pc = "seek", !.entry = e]
      BY <2>1
    <3>2. z.pc = "seek" /\ z.entry = e
      BY <3>1 DEF Idle
    <3>3. w.cookie = 0 /\ w.seen = <<>> /\ ~w.over
      BY <2>1 DEF NoWalk
    <3> HIDE DEF z
    <3> QED BY <1>4, <2>1, <3>2, <3>3 DEF Progress, Reading
  <2>2. CASE /\ w.entry = e /\ ~w.over /\ w.cookie # 0 /\ cache = entry[e].cache
             /\ cache # None
             /\ Progress(w, entry[e], task[t])
    <3>1. z = [Idle EXCEPT !.pc = "page", !.entry = e, !.entries = cache]
      BY <2>2
    <3>2. z.pc = "page" /\ z.entry = e /\ z.entries = cache
      BY <3>1 DEF Idle
    <3> HIDE DEF z
    <3> QED BY <1>1, <1>4, <2>2, <3>2 DEF Progress, Reading
  <2> QED BY <1>5, <2>1, <2>2
<1> HIDE DEF z
<1>7. walk'[t] = w /\ task'[t] = z /\ entry'[e] = x
      /\ \A u \in Threads \ {t} : walk'[u] = walk[u] /\ task'[u] = task[u]
  BY <1>1, <1>2, <1>3, InvFacts DEF Callers
<1>8. WalkOK(t)'
  BY <1>2, <1>5, <1>6, <1>7 DEF WalkOK
<1>9. ReaderOK(t)'
  BY <1>4, <1>5, <1>6, <1>7 DEF ReaderOK
<1> QED BY <1>1, <1>2, <1>3, <1>4, <1>5, <1>7, <1>8, <1>9, ReaderWalks

\* A step of a thread that reads a directory, on the entry it reads from.
LEMMA ReadingWalks ==
  ASSUME IInv, WalkInv, NEW t \in Threads, task[t].pc \in Reading, NEW x, NEW z, NEW w,
         entry' = [entry EXCEPT ![task[t].entry] = x],
         x.inTable = entry[task[t].entry].inTable, x.listed = entry[task[t].entry].listed,
         task' = [task EXCEPT ![t] = z], z.entry = task[t].entry,
         walk' = [walk EXCEPT ![t] = w], w.entry = walk[t].entry,
         w.entry = None => ~w.over,
         w.entry # None => Progress(w, x, z)
  PROVE  WalkInv'
<1> DEFINE e == task[t].entry
<1>1. /\ t \in Callers /\ e \in Entries /\ walk[t].entry \in {None, e}
      /\ entry[e].inTable => walk[t].entry = e
      /\ entry[e].listed
  BY WalkFacts DEF ReaderOK
<1> HIDE DEF e
<1>2. /\ walk'[t] = w /\ task'[t] = z /\ entry'[e] = x
      /\ \A u \in Threads \ {t} : walk'[u] = walk[u] /\ task'[u] = task[u]
  BY <1>1, InvFacts DEF Callers, e
<1>3. ASSUME NEW u \in Threads \ {t} PROVE walk[u].entry # e
  <2>1. CASE walk[t].entry = e
    BY <1>1, <1>3, <2>1, NoneFacts DEF WalkInv, Apart
  <2>2. CASE walk[t].entry = None
    <3>1. ~entry[e].inTable
      BY <1>1, <2>2, NoneFacts
    <3>2. walk[u].entry # None => entry[walk[u].entry].inTable
      BY WalkFacts
    <3> QED BY <1>1, <3>1, <3>2, NoneFacts
  <2> QED BY <1>1, <2>1, <2>2
<1>4. WalkOK(t)'
  <2>1. CASE w.entry = None
    BY <1>2, <2>1 DEF WalkOK
  <2>2. CASE w.entry # None
    <3>1. w.entry = e /\ Progress(w, x, z)
      BY <1>1, <2>2
    <3> QED BY <1>2, <2>2, <3>1 DEF WalkOK
  <2> QED BY <2>1, <2>2
<1>5. ReaderOK(t)'
  <2>1. /\ z.entry = e /\ walk'[t].entry \in {None, e} /\ entry'[e].listed
        /\ entry'[e].inTable => walk'[t].entry = e
    BY <1>1, <1>2 DEF e
  <2> QED BY <1>2, <2>1 DEF ReaderOK
<1>6. entry' = [entry EXCEPT ![e] = x] /\ x.inTable = entry[e].inTable /\ x.listed
      /\ walk'[t].entry \in {None, e}
  BY <1>1, <1>2 DEF e
<1> QED BY <1>1, <1>2, <1>3, <1>4, <1>5, <1>6, ReaderWalks

\* The Seek of Fd_readdir: nothing is read yet.
LEMMA ReadDirSeekWalks ==
  ASSUME IInv, WalkInv, NEW t \in Users, ReadDirSeek(t)
  PROVE  WalkInv'
<1> DEFINE e == task[t].entry
           x == [entry[e] EXCEPT !.off = 0]
           z == [task[t] EXCEPT !.pc = "readdir"]
<1>1. /\ task[t].pc = "seek" /\ entry' = [entry EXCEPT ![e] = x]
      /\ task' = [task EXCEPT ![t] = z] /\ walk' = walk
  BY InvFacts DEF ReadDirSeek
<1>2. /\ t \in Threads /\ task[t] \in Tasks /\ entry[e] \in MemFiles /\ walk[t] \in Walks
      /\ task[t].pc \in Reading
  BY <1>1, TaskFacts, InvFacts DEF InFlight, Reading
<1>3. /\ x.inTable = entry[e].inTable /\ x.listed = entry[e].listed
      /\ x.cache = entry[e].cache /\ x.dirOff = entry[e].dirOff
  BY <1>2 DEF MemFiles
<1>4. z.pc = "readdir" /\ z.entry = e
  BY <1>2 DEF Tasks
<1>5. walk' = [walk EXCEPT ![t] = walk[t]]
  BY <1>1, <1>2, InvFacts
<1>6. /\ walk[t].entry = None => ~walk[t].over
      /\ walk[t].entry # None => Progress(walk[t], entry[e], task[t])
  BY <1>2, WalkFacts DEF WalkOK, ReaderOK
<1> HIDE DEF x, z
<1>7. walk[t].entry # None => Progress(walk[t], x, z)
  BY <1>1, <1>3, <1>4, <1>6 DEF Progress, Reading
<1> QED BY <1>1, <1>2, <1>3, <1>4, <1>5, <1>6, <1>7, ReadingWalks

\* What ReadDir listed becomes the snapshot of the entry.
LEMMA KeepSnapshotWalks ==
  ASSUME IInv, WalkInv, NEW t \in Users, KeepSnapshot(t)
  PROVE  WalkInv'
<1> DEFINE e == task[t].entry
           x == [entry[e] EXCEPT !.cache = task[t].entries]
           z == [task[t] EXCEPT !.pc = "page"]
<1>1. /\ task[t].pc = "keep" /\ entry' = [entry EXCEPT ![e] = x]
      /\ task' = [task EXCEPT ![t] = z] /\ walk' = walk
  BY InvFacts DEF KeepSnapshot
<1>2. /\ t \in Threads /\ task[t] \in Tasks /\ entry[e] \in MemFiles /\ walk[t] \in Walks
      /\ task[t].pc \in Reading
  BY <1>1, TaskFacts, InvFacts DEF InFlight, Reading
<1>3. /\ x.inTable = entry[e].inTable /\ x.listed = entry[e].listed
      /\ x.cache = task[t].entries
  BY <1>2 DEF MemFiles
<1>4. z.pc = "page" /\ z.entry = e /\ z.entries = task[t].entries
  BY <1>2 DEF Tasks
<1>5. walk' = [walk EXCEPT ![t] = walk[t]]
  BY <1>1, <1>2, InvFacts
<1>6. /\ walk[t].entry = None => ~walk[t].over
      /\ walk[t].entry # None => Progress(walk[t], entry[e], task[t])
  BY <1>2, WalkFacts DEF WalkOK, ReaderOK
<1>7. x.cache \in Seq(Snaps) /\ x.cache # None
  BY <1>2, <1>3, NoneFacts DEF Tasks
<1> HIDE DEF x, z
<1>8. Len(x.cache) \in Nat /\ SubSeq(x.cache, 1, 0) = <<>>
  BY <1>7
<1>9. ASSUME walk[t].entry # None PROVE Progress(walk[t], x, z)
  <2>1. /\ entry[e].inTable /\ entry[e].listed
        /\ walk[t].cookie = 0 /\ walk[t].seen = <<>> /\ ~walk[t].over
        /\ Complete(task[t].entries, walk[t].there)
    BY <1>1, <1>6, <1>9 DEF Progress
  <2>2. x.inTable /\ x.listed /\ Complete(x.cache, walk[t].there)
    BY <1>3, <2>1
  <2>3. walk[t].cookie <= Len(x.cache) /\ walk[t].seen = SubSeq(x.cache, 1, walk[t].cookie)
    BY <1>8, <2>1
  <2> QED BY <1>3, <1>4, <1>7, <2>1, <2>2, <2>3 DEF Progress, Reading
<1> QED BY <1>1, <1>2, <1>3, <1>4, <1>5, <1>6, <1>9, ReadingWalks

\* ReadDir from the start, with "." and ".." before it, is a complete listing.
LEMMA CompleteListing ==
  ASSUME TreeOK(node), NEW n \in Nodes
  PROVE  Complete(<<Dot, DotDot>> \o Listing(n, 0), Range(node[n].children))
<1> DEFINE l == Listing(n, 0)
           s == <<Dot, DotDot>> \o l
<1>1. l \in Seq(Nodes) /\ Range(l) = Range(node[n].children)
      /\ (\A i, j \in DOMAIN l : l[i] = l[j] => i = j)
  BY ListingFacts
<1> HIDE DEF l
<1>2. /\ Len(l) \in Nat /\ DOMAIN l = 1 .. Len(l) /\ DOMAIN s = 1 .. Len(l) + 2
      /\ s[1] = Dot /\ s[2] = DotDot
      /\ \A i \in 1 .. Len(l) : s[i + 2] = l[i]
  BY <1>1
<1>3. \A i \in 1 .. Len(l) : l[i] \in Nodes /\ l[i] # Dot /\ l[i] # DotDot
  BY <1>1, MemFSAssumption DEF Nodes, Dot, DotDot
<1> HIDE DEF s
<1>4. \A i \in 3 .. Len(l) + 2 : i - 2 \in 1 .. Len(l) /\ s[i] = l[i - 2]
  <2>1. ASSUME NEW i \in 3 .. Len(l) + 2 PROVE i - 2 \in 1 .. Len(l) /\ i = (i - 2) + 2
    BY <1>2
  <2> QED BY <1>2, <2>1
<1>5. Range(s) = {Dot, DotDot} \cup Range(l)
  <2>1. ASSUME NEW y \in Range(s) PROVE y \in {Dot, DotDot} \cup Range(l)
    <3>1. PICK i \in 1 .. Len(l) + 2 : y = s[i]
      BY <1>2 DEF Range
    <3>2. i = 1 \/ i = 2 \/ i \in 3 .. Len(l) + 2
      BY <1>2
    <3> QED BY <1>2, <1>4, <3>1, <3>2 DEF Range
  <2>2. ASSUME NEW y \in Range(l) PROVE y \in Range(s)
    <3>1. PICK i \in 1 .. Len(l) : y = l[i]
      BY <1>2 DEF Range
    <3>2. i + 2 \in DOMAIN s /\ s[i + 2] = y
      BY <1>2, <3>1
    <3> QED BY <3>2 DEF Range
  <2>3. Dot \in Range(s) /\ DotDot \in Range(s)
    <3>1. 1 \in DOMAIN s /\ 2 \in DOMAIN s
      BY <1>2
    <3> QED BY <1>2, <3>1 DEF Range
  <2> QED BY <2>1, <2>2, <2>3
<1>6. ASSUME NEW i \in DOMAIN s, NEW j \in DOMAIN s, s[i] = s[j] PROVE i = j
  <2>1. i \in 1 .. Len(l) + 2 /\ j \in 1 .. Len(l) + 2
    BY <1>2
  <2>2. Dot # DotDot
    BY DEF Dot, DotDot
  <2>3. \A k \in 1 .. Len(l) + 2 : k = 1 \/ k = 2 \/ k \in 3 .. Len(l) + 2
    BY <1>2
  <2>4. CASE i \in 3 .. Len(l) + 2 /\ j \in 3 .. Len(l) + 2
    <3>1. i - 2 = j - 2
      BY <1>1, <1>2, <1>4, <1>6, <2>4
    <3> QED BY <1>2, <2>1, <3>1
  <2>5. CASE ~(i \in 3 .. Len(l) + 2 /\ j \in 3 .. Len(l) + 2)
    BY <1>2, <1>3, <1>4, <1>6, <2>1, <2>2, <2>3, <2>5
  <2> QED BY <2>4, <2>5
<1>7. IsInjective(s)
  BY <1>6 DEF IsInjective
<1> QED BY <1>1, <1>5, <1>7 DEF Complete, s, l

\* The first ReadDir of an entry lists the directory as it is at that moment.
LEMMA ReadDirWalks ==
  ASSUME IInv, WalkInv, NEW t \in Users, ReadDir(t)
  PROVE  WalkInv'
<1> DEFINE e == task[t].entry
           n == entry[e].node
           list == <<Dot, DotDot>> \o Listing(n, entry[e].dirOff)
           k == Max({entry[e].dirOff, Cardinality(DOMAIN node[n].children)})
           x == [entry[e] EXCEPT !.dirOff = k]
           z == [task[t] EXCEPT !.pc = "keep", !.entries = list]
           there == IF walk[t].entry = e THEN Range(node[n].children) ELSE walk[t].there
           w == [walk[t] EXCEPT !.there = there]
<1>1. /\ task[t].pc = "readdir" /\ entry' = [entry EXCEPT ![e] = x]
      /\ walk' = [walk EXCEPT ![t] = w]
  BY InvFacts DEF ReadDir
<1>2. task' = [task EXCEPT ![t] = z]
  <2>1. task' = [task EXCEPT ![t].pc = "keep", ![t].entries = list]
    BY DEF ReadDir
  <2> HIDE DEF list
  <2> QED BY <2>1, InvFacts DEF Callers, Threads
<1>3. /\ t \in Threads /\ task[t] \in Tasks /\ entry[e] \in MemFiles /\ walk[t] \in Walks
      /\ task[t].pc \in Reading /\ n \in Nodes
  BY <1>1, TaskFacts, InvFacts DEF InFlight, Reading
<1>4. entry[e].dirOff = 0 => Complete(list, Range(node[n].children))
  <2> HIDE DEF n, e
  <2>1. Complete(<<Dot, DotDot>> \o Listing(n, 0), Range(node[n].children))
    BY <1>3, InvFacts, CompleteListing
  <2> QED BY <2>1
<1> HIDE DEF k, list, there
<1>5. x.inTable = entry[e].inTable /\ x.listed = entry[e].listed
  BY <1>3 DEF MemFiles
<1>6. z.pc = "keep" /\ z.entry = e /\ z.entries = list
  BY <1>3 DEF Tasks
<1>7. /\ w.entry = walk[t].entry /\ w.over = walk[t].over /\ w.cookie = walk[t].cookie
      /\ w.seen = walk[t].seen /\ w.there = there
  BY <1>3 DEF Walks
<1>8. /\ walk[t].entry = None => ~walk[t].over
      /\ walk[t].entry # None => walk[t].entry = e /\ Progress(walk[t], entry[e], task[t])
  BY <1>3, WalkFacts DEF WalkOK, ReaderOK
<1>9. walk[t].entry # None => there = Range(node[n].children)
  BY <1>8 DEF there
<1> HIDE DEF x, z, w
<1>10. walk[t].entry # None => Progress(w, x, z)
  BY <1>1, <1>4, <1>5, <1>6, <1>7, <1>8, <1>9 DEF Progress, Reading
<1> QED BY <1>1, <1>2, <1>3, <1>5, <1>6, <1>7, <1>8, <1>10, ReadingWalks

\* A thread is done with a page.
LEMMA PagedWalks ==
  ASSUME IInv, WalkInv, NEW t \in Threads, NEW tasks, tasks = [task EXCEPT ![t] = Idle],
         Settle(node, entry, tasks), NEW v, walk' = [walk EXCEPT ![t] = v],
         v.entry = walk[t].entry, v.entry = None => ~v.over,
         v.entry # None => Progress(v, entry[v.entry], Idle)
  PROVE  WalkInv'
<1> DEFINE held == Held(entry, tasks)
<1>1. /\ entry' = [f \in Entries |-> IF f \in held THEN entry[f] ELSE Closed]
      /\ task' = tasks /\ t \in Callers
  BY DEF Settle, Callers
<1>2. /\ walk'[t] = v /\ task'[t] = Idle
      /\ \A u \in Threads \ {t} : walk'[u] = walk[u] /\ task'[u] = task[u] /\ u \in Callers
  BY <1>1, InvFacts DEF Callers
<1>3. \A f \in Entries : entry[f].inTable => entry'[f] = entry[f]
  BY <1>1 DEF Held
<1>4. \A u \in Threads \ {t}, f \in Entries : task[u].entry = f => entry'[f] = entry[f]
  BY <1>1, <1>2 DEF Held
<1> HIDE DEF held
<1>5. ASSUME NEW u \in Threads \ {t} PROVE WalkOK(u)' /\ ReaderOK(u)'
  <2>1. walk[u].entry # None => SameDir(entry'[walk[u].entry], entry[walk[u].entry])
    BY <1>3, WalkFacts DEF SameDir
  <2>2. task[u].pc \in Reading =>
            /\ entry'[task[u].entry].inTable => entry[task[u].entry].inTable
            /\ entry[task[u].entry].listed => entry'[task[u].entry].listed
    BY <1>4, WalkFacts
  <2> QED BY <1>2, <2>1, <2>2, WalkFacts, ThreadStays
<1>6. WalkOK(t)' /\ ReaderOK(t)'
  <2>1. ReaderOK(t)'
    BY <1>2, Pcs DEF ReaderOK
  <2>2. CASE v.entry = None
    BY <1>2, <2>1, <2>2 DEF WalkOK
  <2>3. CASE v.entry # None
    <3>1. v.entry \in Entries /\ entry[v.entry].inTable
      BY <2>3, WalkFacts
    <3>2. Progress(v, entry'[v.entry], Idle)
      BY <1>3, <2>3, <3>1
    <3> QED BY <1>2, <2>1, <2>3, <3>2 DEF WalkOK
  <2> QED BY <2>2, <2>3
<1>7. Apart'
  BY <1>2 DEF WalkInv, Apart
<1>8. \A f \in Entries : ~entry'[f].listed => Unlisted(entry'[f])
  <2>1. Unlisted(Closed)
    BY DEF Unlisted, Closed
  <2> QED BY <1>1, <2>1 DEF WalkInv
<1> QED BY <1>5, <1>6, <1>7, <1>8 DEF WalkInv

\* Two pages that follow each other are one.
LEMMA Pages ==
  ASSUME NEW S, NEW c \in Seq(S), NEW i \in Nat, NEW j \in Nat, i <= j, j <= Len(c)
  PROVE  SubSeq(c, 1, i) \o SubSeq(c, i + 1, j) = SubSeq(c, 1, j)
<1> DEFINE a == SubSeq(c, 1, i)
           b == SubSeq(c, i + 1, j)
           d == SubSeq(c, 1, j)
           s == a \o b
<1>1. a \in Seq(S) /\ Len(a) = i /\ \A k \in 1 .. i : a[k] = c[k]
  OBVIOUS
<1>2. b \in Seq(S) /\ Len(b) = j - i /\ \A k \in 1 .. j - i : b[k] = c[i + k]
  OBVIOUS
<1>3. d \in Seq(S) /\ Len(d) = j /\ \A k \in 1 .. j : d[k] = c[k]
  OBVIOUS
<1>4. /\ s \in Seq(S) /\ Len(s) = Len(a) + Len(b)
      /\ \A k \in 1 .. Len(a) + Len(b) : s[k] = IF k <= Len(a) THEN a[k] ELSE b[k - Len(a)]
  <2> HIDE DEF a, b
  <2> QED BY <1>1, <1>2, ConcatProperties
<1> HIDE DEF a, b, d, s
<1>5. Len(s) = j
  BY <1>1, <1>2, <1>4
<1>6. ASSUME NEW k \in 1 .. j PROVE s[k] = d[k]
  <2>1. s[k] = IF k <= i THEN a[k] ELSE b[k - i]
    BY <1>1, <1>4, <1>5
  <2>2. CASE k <= i
    BY <1>1, <1>3, <2>1, <2>2
  <2>3. CASE ~(k <= i)
    <3>1. k - i \in 1 .. j - i /\ i + (k - i) = k
      BY <2>3
    <3> QED BY <1>2, <1>3, <2>1, <2>3, <3>1
  <2> QED BY <2>2, <2>3
<1>7. s = d
  BY <1>3, <1>4, <1>5, <1>6
<1> QED BY <1>7 DEF a, b, d, s

\* A page goes on where the last one ended.
LEMMA PageWalks ==
  ASSUME IInv, WalkInv, NEW t \in Users, NEW last, NEW full \in BOOLEAN, Page(t, last, full)
  PROVE  WalkInv'
<1> DEFINE w == walk[t]
           c == task[t].entries
           tasks == [task EXCEPT ![t] = Idle]
           v == [w EXCEPT !.seen = w.seen \o SubSeq(c, w.cookie + 1, last),
                          !.cookie = IF last = w.cookie THEN w.cookie ELSE NextCookie(last),
                          !.over = ~full]
<1>1. /\ task[t].pc = "page" /\ last \in w.cookie .. Len(c)
      /\ last = w.cookie => last = Len(c)
      /\ last < Len(c) => full
      /\ walk' = IF w.entry = None THEN walk ELSE [walk EXCEPT ![t] = v]
      /\ Settle(node, entry, tasks)
  BY DEF Page
<1>2. /\ t \in Threads /\ task[t] \in Tasks /\ w \in Walks
      /\ WalkOK(t) /\ ReaderOK(t)
      /\ w.entry # None => Progress(w, entry[w.entry], task[t])
      /\ w.entry # None => w.entry = task[t].entry
  BY <1>1, TaskFacts, InvFacts, WalkFacts DEF InFlight, Reading, ReaderOK
<1>3. CASE w.entry = None
  <2>1. walk' = [walk EXCEPT ![t] = w] /\ ~w.over
    BY <1>1, <1>2, <1>3, InvFacts DEF WalkOK
  <2> HIDE DEF w, tasks
  <2> QED BY <1>1, <1>2, <1>3, <2>1, PagedWalks DEF w, tasks
<1>4. CASE w.entry # None
  <2> DEFINE x == entry[w.entry]
  <2>1. /\ x.inTable /\ x.listed /\ c = x.cache /\ ~w.over /\ x.cache # None
        /\ Complete(c, w.there) /\ w.cookie <= Len(c) /\ w.seen = SubSeq(c, 1, w.cookie)
    BY <1>1, <1>2, <1>4 DEF Progress, Reading
  <2>2. c \in Seq(Snaps) /\ w.cookie \in 0 .. Len(c)
    BY <1>2, <2>1 DEF Tasks, Walks
  <2>3. w.seen \o SubSeq(c, w.cookie + 1, last) = SubSeq(c, 1, last)
    <3>1. w.cookie \in Nat /\ last \in Nat /\ w.cookie <= last /\ last <= Len(c)
      BY <1>1, <2>2
    <3> HIDE DEF c, w
    <3> QED BY <2>1, <2>2, <3>1, Pages
  <2>4. Len(c) # 0
    <3>1. Dot \in Range(c)
      BY <2>1 DEF Complete
    <3> HIDE DEF c
    <3> QED BY <2>2, <3>1 DEF Range
  <2>5. last # 0
    BY <1>1, <2>2, <2>4
  <2>6. /\ v.entry = w.entry /\ v.there = w.there /\ v.cookie = last
        /\ v.seen = SubSeq(c, 1, last) /\ v.over = ~full
    <3> DEFINE seen == w.seen \o SubSeq(c, w.cookie + 1, last)
               cookie == IF last = w.cookie THEN w.cookie ELSE NextCookie(last)
    <3>1. cookie = last
      BY DEF NextCookie
    <3> HIDE DEF seen, cookie
    <3>2. v = [w EXCEPT !.seen = seen, !.cookie = cookie, !.over = ~full]
      BY DEF seen, cookie
    <3> HIDE DEF v
    <3>3. /\ v.entry = w.entry /\ v.there = w.there /\ v.cookie = cookie
          /\ v.seen = seen /\ v.over = ~full
      BY <1>2, <3>2 DEF Walks
    <3> QED BY <2>3, <3>1, <3>3 DEF seen
  <2>7. walk' = [walk EXCEPT ![t] = v]
    BY <1>1, <1>4
  <2> HIDE DEF v
  <2>8. v.over => last = Len(c)
    <3>1. v.over => ~full
      BY <2>6
    <3>2. ~full => ~(last < Len(c))
      BY <1>1
    <3>3. ~(last < Len(c)) => last = Len(c)
      BY <1>1, <2>2
    <3> QED BY <3>1, <3>2, <3>3
  <2>9. Progress(v, x, Idle)
    <3>1. Idle.pc = "idle"
      BY DEF Idle
    <3> HIDE DEF w, x, c
    <3> QED BY <1>1, <2>1, <2>2, <2>5, <2>6, <2>8, <3>1 DEF Progress, Reading
  <2> HIDE DEF tasks
  <2>10. v.entry # None /\ v.entry = walk[t].entry /\ Progress(v, entry[v.entry], Idle)
    BY <1>4, <2>6, <2>9
  <2> QED BY <1>1, <1>2, <2>7, <2>10, PagedWalks DEF tasks
<1> QED BY <1>3, <1>4

\* At first nothing is read.
LEMMA InitWalks ==
  ASSUME Init
  PROVE  WalkInv
<1>1. \A t \in Threads : walk[t] = NoWalk /\ t \in Callers /\ task[t] = Idle
  BY DEF Init, Callers
<1>2. NoWalk.entry = None /\ ~NoWalk.over
  BY DEF NoWalk
<1>3. Unlisted(Closed)
  BY DEF Unlisted, Closed
<1>4. \A e \in Entries : entry[e] = Closed
  BY DEF Init
<1> QED BY <1>1, <1>2, <1>3, <1>4, Pcs DEF WalkInv, Apart, WalkOK, ReaderOK

\* Every step keeps what is known of the listings.
LEMMA StepWalks ==
  ASSUME ~Rewinds, IInv, WalkInv, [Next]_vars
  PROVE  WalkInv'
<1>1. CASE Embedder
  BY <1>1, EmbedderWalks
<1>2. ASSUME NEW t \in Movers, Move(t) PROVE WalkInv'
  <2>1. t \in Threads
    BY DEF Threads
  <2> QED BY <1>2, <2>1, MovesWalk, closeWalks
<1>3. ASSUME NEW t \in Users, Use(t) PROVE WalkInv'
  BY <1>3, WritesWalk, readdirWalks, ReadDirSeekWalks, ReadDirWalks, KeepSnapshotWalks, PageWalks
<1>4. CASE UNCHANGED vars
  <2>1. /\ walk' = walk /\ task' = task /\ entry' = entry
    BY <1>4 DEF vars
  <2>2. \A e \in Entries : SameDir(entry'[e], entry[e])
    BY <2>1 DEF SameDir
  <2> QED BY <2>1, <2>2, QuietWalks DEF Quiet
<1> QED BY <1>1, <1>2, <1>3, <1>4 DEF Next

\* A listing that is over is the whole snapshot.
LEMMA WalkInvLists ==
  ASSUME IInv, WalkInv
  PROVE  WalkListsSnapshot
<1> SUFFICES ASSUME NEW t \in Threads, walk[t].over
             PROVE  /\ Range(walk[t].seen) = {Dot, DotDot} \cup walk[t].there
                    /\ IsInjective(walk[t].seen)
  BY DEF WalkListsSnapshot
<1> DEFINE c == entry[walk[t].entry].cache
<1>1. walk[t].entry # None /\ walk[t].entry \in Entries
      /\ Progress(walk[t], entry[walk[t].entry], task[t])
  BY WalkFacts DEF WalkOK
<1>2. task[t].pc \notin Reading
  BY <1>1 DEF Progress, Reading
<1>3. /\ c # None /\ Complete(c, walk[t].there) /\ walk[t].cookie = Len(c)
      /\ walk[t].seen = SubSeq(c, 1, walk[t].cookie)
  BY <1>1, <1>2 DEF Progress, Reading
<1>4. c \in Seq(Snaps)
  BY <1>1, <1>3, InvFacts DEF MemFiles
<1>5. walk[t].seen = c
  BY <1>3, <1>4
<1> QED BY <1>3, <1>5 DEF Complete

\* A directory read page by page lists what was in it when the snapshot was
\* taken, each once, as long as a guest does not read an entry again from the
\* start (where the code lists nothing more).
THEOREM ListingsAreWhole ==
  ASSUME ~Rewinds
  PROVE  Spec => []WalkListsSnapshot
<1>1. IInv /\ [Next]_vars => IInv'
  BY StepCorrect DEF StepOK
<1>2. Init => IInv /\ WalkInv
  BY InitCorrect, InitWalks
<1>3. IInv /\ WalkInv /\ [Next]_vars => WalkInv'
  BY StepWalks
<1>4. IInv /\ WalkInv => WalkListsSnapshot
  BY WalkInvLists
<1> QED BY <1>1, <1>2, <1>3, <1>4, PTL DEF Spec

---------------------------------------------------------------------------
(* The abstract store.  Nodes and entries are mapped to files and handles; *)
(* a lemma for each of the store's actions says which edits of files and   *)
(* handles are one, a lemma for each call of the file system which of them *)
(* it is.  The collector takes only files without handles (Leaves).        *)

\* What a node and an entry are to the abstract store.
FileOf(x) == IF x = Garbage THEN None ELSE SubSeq(x.data, 1, x.len)
HandleOf(x) == IF x.node = None THEN None ELSE [file |-> x.node, off |-> x.off]
FilesOf(nodes) == [n \in Nodes |-> FileOf(nodes[n])]
HandlesOf(entries) == [e \in Entries |-> HandleOf(entries[e])]

\* A step of the store that leaves these files and handles, and may drop the
\* files that no handle is open on.
Leaves(files, handles) ==
    \E gone \in SUBSET {f \in Nodes : \A e \in Entries :
                            handles[e] # None => handles[e].file # f} :
        /\ FilesOf(node') = [f \in Nodes |-> IF f \in gone THEN None ELSE files[f]]
        /\ HandlesOf(entry') = handles

\* A step of the store.
StoreStep == [Store!Next]_(Store!vars)

\* A step that changes neither bytes nor handles.
LEMMA StoreStutter ==
  ASSUME FilesOf(node') = FilesOf(node), HandlesOf(entry') = HandlesOf(entry)
  PROVE  StoreStep
BY DEF StoreStep, Store!vars, FilesOf, HandlesOf, FileOf, HandleOf, Content

\* A handle is opened on a file, at its beginning or its end.
LEMMA StoreOpen ==
  ASSUME NEW e \in Entries, HandlesOf(entry)[e] = None, NEW f \in Nodes,
         FilesOf(node)[f] # None, NEW off \in {0, Len(FilesOf(node)[f])},
         Leaves(FilesOf(node), [HandlesOf(entry) EXCEPT ![e] = [file |-> f, off |-> off]])
  PROVE  StoreStep
<1>1. Store!Open(e) <=>
         /\ HandlesOf(entry)[e] = None
         /\ \E g \in Nodes :
               \/ /\ FilesOf(node)[g] # None
                  /\ \E o \in {0, Len(FilesOf(node)[g])} :
                        Leaves(FilesOf(node),
                               [HandlesOf(entry) EXCEPT ![e] = [file |-> g, off |-> o]])
               \/ Leaves([FilesOf(node) EXCEPT ![g] = <<>>],
                         [HandlesOf(entry) EXCEPT ![e] = [file |-> g, off |-> 0]])
  BY DEF Leaves, Store!Becomes, Store!Open, FilesOf, HandlesOf, FileOf, HandleOf, Content
<1>2. Store!Open(e)
  BY <1>1
<1> QED BY <1>2 DEF StoreStep, Store!Next

\* A handle is opened on a file that is new or emptied.
LEMMA StoreOpenEmpty ==
  ASSUME NEW e \in Entries, HandlesOf(entry)[e] = None, NEW f \in Nodes,
         Leaves([FilesOf(node) EXCEPT ![f] = <<>>],
                [HandlesOf(entry) EXCEPT ![e] = [file |-> f, off |-> 0]])
  PROVE  StoreStep
<1>1. Store!Open(e)
  BY DEF Leaves, Store!Becomes, Store!Open, FilesOf, HandlesOf, FileOf, HandleOf, Content
<1> QED BY <1>1 DEF StoreStep, Store!Next

\* A handle is closed.
LEMMA StoreClose ==
  ASSUME NEW e \in Entries, Leaves(FilesOf(node), [HandlesOf(entry) EXCEPT ![e] = None])
  PROVE  StoreStep
<1>1. Store!Close(e)
  BY DEF Leaves, Store!Becomes, Store!Close, FilesOf, HandlesOf, FileOf, HandleOf, Content
<1> QED BY <1>1 DEF StoreStep, Store!Next

\* A handle reads on.
LEMMA StoreRead ==
  ASSUME NEW e \in Entries, HandlesOf(entry)[e] # None,
         HandlesOf(entry)[e].off < Len(FilesOf(node)[HandlesOf(entry)[e].file]),
         Leaves(FilesOf(node), [HandlesOf(entry) EXCEPT ![e].off = @ + 1])
  PROVE  StoreStep
<1>1. Store!Read(e)
  BY DEF Leaves, Store!Becomes, Store!Read, FilesOf, HandlesOf, FileOf, HandleOf, Content
<1> QED BY <1>1 DEF StoreStep, Store!Next

\* The files after b is written at off of what e is open on.
WrittenAt(e, off, b) ==
    [FilesOf(node) EXCEPT ![HandlesOf(entry)[e].file] =
        Store!Written(FilesOf(node)[HandlesOf(entry)[e].file], off, b)]

\* A handle writes where it is, and may be gone with its last call.
LEMMA StoreWrite ==
  ASSUME NEW e \in Entries, NEW b \in Bytes, HandlesOf(entry)[e] # None,
         \/ Leaves(WrittenAt(e, HandlesOf(entry)[e].off, b), [HandlesOf(entry) EXCEPT ![e].off = @ + 1])
         \/ Leaves(WrittenAt(e, HandlesOf(entry)[e].off, b), [HandlesOf(entry) EXCEPT ![e] = None])
  PROVE  StoreStep
<1>1. Store!Write(e, b)
  BY DEF Leaves, Store!Becomes, Store!Write, WrittenAt, FilesOf, HandlesOf, FileOf, HandleOf, Content
<1> QED BY <1>1 DEF StoreStep, Store!Next

\* A handle writes somewhere.
LEMMA StoreWriteAt ==
  ASSUME NEW e \in Entries, NEW b \in Bytes, NEW off \in 0 .. MaxSize - 1,
         HandlesOf(entry)[e] # None, Leaves(WrittenAt(e, off, b), HandlesOf(entry))
  PROVE  StoreStep
<1>1. Store!WriteAt(e, off, b)
  BY DEF Leaves, Store!Becomes, Store!WriteAt, WrittenAt, FilesOf, HandlesOf, FileOf, HandleOf, Content
<1> QED BY <1>1 DEF StoreStep, Store!Next

\* A handle is set somewhere.
LEMMA StoreSeek ==
  ASSUME NEW e \in Entries, HandlesOf(entry)[e] # None, NEW off \in 0 .. MaxSize,
         Leaves(FilesOf(node), [HandlesOf(entry) EXCEPT ![e].off = off])
  PROVE  StoreStep
<1>1. Store!Seek(e, off)
  BY DEF Leaves, Store!Becomes, Store!Seek, FilesOf, HandlesOf, FileOf, HandleOf, Content
<1> QED BY <1>1 DEF StoreStep, Store!Next

\* A file is given a size.
LEMMA StoreTruncate ==
  ASSUME NEW e \in Entries, NEW size \in 0 .. MaxSize, HandlesOf(entry)[e] # None,
         Leaves([FilesOf(node) EXCEPT ![HandlesOf(entry)[e].file] =
                    Store!Resized(FilesOf(node)[HandlesOf(entry)[e].file], size)],
                HandlesOf(entry))
  PROVE  StoreStep
<1>1. Store!Truncate(e, size)
  BY DEF Leaves, Store!Becomes, Store!Truncate, FilesOf, HandlesOf, FileOf, HandleOf, Content
<1> QED BY <1>1 DEF StoreStep, Store!Next

\* The files after those in new are made.
MadeFiles(new, made) == [f \in Nodes |-> IF f \in new THEN made[f] ELSE FilesOf(node)[f]]

\* Files are made.
LEMMA StoreMakes ==
  ASSUME NEW new \in SUBSET {f \in Nodes : FilesOf(node)[f] = None},
         NEW made \in [new -> {<<>>} \cup {<<b>> : b \in HostBytes}],
         Leaves(MadeFiles(new, made), HandlesOf(entry))
  PROVE  StoreStep
<1>1. Store!Make <=>
         \E others \in SUBSET {f \in Nodes : FilesOf(node)[f] = None} :
            \E s \in [others -> {<<>>} \cup {<<b>> : b \in HostBytes}] :
               Leaves(MadeFiles(others, s), HandlesOf(entry))
  BY DEF Leaves, Store!Becomes, Store!Make, MadeFiles, FilesOf, HandlesOf, FileOf, HandleOf, Content
<1>2. Store!Make
  BY <1>1
<1> QED BY <1>2 DEF StoreStep, Store!Next

\* No file is made, but some may be left.
LEMMA StoreMake ==
  ASSUME Leaves(FilesOf(node), HandlesOf(entry))
  PROVE  StoreStep
<1> DEFINE made == [f \in {} |-> <<>>]
<1>1. MadeFiles({}, made) = FilesOf(node)
  BY DEF FilesOf, MadeFiles
<1>2. made \in [{} -> {<<>>} \cup {<<b>> : b \in HostBytes}]
  OBVIOUS
<1> HIDE DEF made
<1>3. Leaves(MadeFiles({}, made), HandlesOf(entry))
  BY <1>1
<1> QED BY <1>2, <1>3, StoreMakes

\* A file is made.
LEMMA StoreMakeOne ==
  ASSUME NEW n \in Nodes, FilesOf(node)[n] = None,
         NEW s \in {<<>>} \cup {<<b>> : b \in HostBytes},
         NEW files, files = [FilesOf(node) EXCEPT ![n] = s], Leaves(files, HandlesOf(entry))
  PROVE  StoreStep
<1> DEFINE made == [f \in {n} |-> s]
<1>1. MadeFiles({n}, made) = files
  BY DEF FilesOf, MadeFiles
<1>2. made \in [{n} -> {<<>>} \cup {<<b>> : b \in HostBytes}]
  OBVIOUS
<1> HIDE DEF made
<1>3. Leaves(MadeFiles({n}, made), HandlesOf(entry))
  BY <1>1
<1>4. {n} \in SUBSET {f \in Nodes : FilesOf(node)[f] = None}
  OBVIOUS
<1> QED BY <1>2, <1>3, <1>4, StoreMakes

\* The handles that stay when what nobody holds is gone.
KeptHandles(entries, tasks) ==
    [e \in Entries |-> IF e \in Held(entries, tasks) THEN HandleOf(entries[e]) ELSE None]

\* Garbage is no file, and a closed entry no handle.
LEMMA ClosedHandle == HandleOf(Closed) = None /\ FileOf(Garbage) = None
BY DEF HandleOf, Closed, FileOf

\* What an entry in use is open on is kept.
LEMMA HeldKept ==
  ASSUME NEW nodes, NEW entries, NEW tasks,
         \A e \in Held(entries, tasks) : entries[e].node \in Nodes
  PROVE  \A e \in Held(entries, tasks) : entries[e].node \in Kept(nodes, entries, tasks)
BY DEF Kept, Reach

\* The collector takes only files no handle is open on.
LEMMA SettleLeaves ==
  ASSUME NEW nodes, NEW entries, NEW tasks, Settle(nodes, entries, tasks),
         \A e \in Held(entries, tasks) : entries[e].node \in Nodes,
         NEW files, files = FilesOf(nodes), NEW handles, handles = KeptHandles(entries, tasks)
  PROVE  Leaves(files, handles)
<1> DEFINE kept == Kept(nodes, entries, tasks)
           held == Held(entries, tasks)
           gone == Nodes \ kept
<1>1. /\ node' = [n \in Nodes |-> IF n \in kept THEN nodes[n] ELSE Garbage]
      /\ entry' = [e \in Entries |-> IF e \in held THEN entries[e] ELSE Closed]
  BY DEF Settle
<1>2. \A e \in held : entries[e].node \in kept
  BY HeldKept
<1> HIDE DEF kept
<1>3. FilesOf(node') = [f \in Nodes |-> IF f \in gone THEN None ELSE files[f]]
  BY <1>1, ClosedHandle DEF FilesOf
<1>4. HandlesOf(entry') = handles
  BY <1>1, ClosedHandle DEF HandlesOf, KeptHandles
<1>5. \A e \in Entries : handles[e] # None => handles[e].file \in kept
  <2>1. ASSUME NEW e \in Entries, handles[e] # None PROVE handles[e].file \in kept
    <3>1. e \in held /\ handles[e] = HandleOf(entries[e])
      BY <2>1 DEF KeptHandles
    <3>2. handles[e].file = entries[e].node
      BY <2>1, <3>1 DEF HandleOf
    <3> QED BY <1>2, <3>1, <3>2
  <2> QED BY <2>1
<1>6. gone \in SUBSET {f \in Nodes : \A e \in Entries : handles[e] # None => handles[e].file # f}
  BY <1>5
<1> HIDE DEF gone
<1> QED BY <1>3, <1>4, <1>6 DEF Leaves

\* Without the collector no file is left.
LEMMA PlainLeaves ==
  ASSUME node' = node, NEW handles, handles = HandlesOf(entry')
  PROVE  Leaves(FilesOf(node), handles)
<1> DEFINE gone == {}
<1>1. FilesOf(node') = [f \in Nodes |-> IF f \in gone THEN None ELSE FilesOf(node)[f]]
  BY DEF FilesOf
<1>2. gone \in SUBSET {f \in Nodes : \A e \in Entries : handles[e] # None => handles[e].file # f}
  OBVIOUS
<1> HIDE DEF gone
<1> QED BY <1>1, <1>2 DEF Leaves

\* What the invariant says of handles and files.
LEMMA StoreFacts ==
  ASSUME IInv
  PROVE  /\ \A e \in Held(entry, task) :
               /\ e \in Entries /\ entry[e] \in MemFiles /\ entry[e].node \in Nodes
               /\ node[entry[e].node] \in MemNodes /\ Sized(node[entry[e].node])
               /\ HandlesOf(entry)[e] = [file |-> entry[e].node, off |-> entry[e].off]
               /\ HandlesOf(entry)[e] # None
               /\ HandlesOf(entry)[e].file = entry[e].node
               /\ HandlesOf(entry)[e].off = entry[e].off
               /\ node[entry[e].node].name # None
         /\ \A e \in Entries : e \notin Held(entry, task) => HandlesOf(entry)[e] = None
         /\ KeptHandles(entry, task) = HandlesOf(entry)
<1>1. /\ entry \in [Entries -> MemFiles] /\ node \in [Nodes -> MemNodes]
      /\ HeldLive(node, entry, task) /\ (\A n \in Nodes : Sized(node[n]))
      /\ \A e \in Entries : e \notin Held(entry, task) => entry[e] = Closed
  BY InvFacts DEF TreeOK
<1>2. \A e \in Entries : e \notin Held(entry, task) => HandlesOf(entry)[e] = None
  BY <1>1, ClosedHandle DEF HandlesOf
<1>3. ASSUME NEW e \in Held(entry, task)
      PROVE  /\ e \in Entries /\ entry[e] \in MemFiles /\ entry[e].node \in Nodes
             /\ node[entry[e].node] \in MemNodes /\ Sized(node[entry[e].node])
             /\ HandlesOf(entry)[e] = [file |-> entry[e].node, off |-> entry[e].off]
             /\ HandlesOf(entry)[e] # None
             /\ HandlesOf(entry)[e].file = entry[e].node
             /\ HandlesOf(entry)[e].off = entry[e].off
             /\ node[entry[e].node].name # None
  <2>1. e \in Entries
    BY DEF Held
  <2>2. entry[e].node \in Nodes /\ node[entry[e].node].name # None /\ entry[e] \in MemFiles
    BY <1>1, <2>1 DEF HeldLive, MemFiles
  <2>3. HandlesOf(entry)[e] = [file |-> entry[e].node, off |-> entry[e].off]
    BY <2>1, <2>2, NoneFacts DEF HandlesOf, HandleOf
  <2>4. entry[e].node \in Nat /\ entry[e].off \in Nat
    BY <2>2, MemFSAssumption DEF MemFiles, Nodes
  <2>5. [file |-> entry[e].node, off |-> entry[e].off] # None
    BY <2>4, MemFSAssumption
  <2> QED BY <1>1, <2>1, <2>2, <2>3, <2>5
<1>4. KeptHandles(entry, task) = HandlesOf(entry)
  BY <1>2 DEF KeptHandles, HandlesOf
<1> QED BY <1>2, <1>3, <1>4

\* A file stays the same when data and length do, and it is a file.
LEMMA SameFiles ==
  ASSUME NEW nodes, \A n \in Nodes :
             \/ nodes[n] = node[n]
             \/ /\ nodes[n].data = node[n].data /\ nodes[n].len = node[n].len
                /\ nodes[n].name # None /\ node[n].name # None
  PROVE  FilesOf(nodes) = FilesOf(node)
<1>1. ASSUME NEW n \in Nodes PROVE FileOf(nodes[n]) = FileOf(node[n])
  <2>1. CASE nodes[n] = node[n]
    BY <2>1
  <2>2. CASE nodes[n] # node[n]
    <3>1. nodes[n] # Garbage /\ node[n] # Garbage
      BY <2>2 DEF Garbage
    <3> QED BY <2>2, <3>1 DEF FileOf
  <2> QED BY <2>1, <2>2
<1> QED BY <1>1 DEF FilesOf

\* A step that lets the collector run and nothing else of the store.
LEMMA SettleStutter ==
  ASSUME IInv, NEW nodes, FilesOf(nodes) = FilesOf(node), NEW tasks,
         \A u \in Callers : tasks[u].entry = task[u].entry, Settle(nodes, entry, tasks)
  PROVE  StoreStep
<1>1. Held(entry, tasks) = Held(entry, task)
  BY DEF Held
<1>2. \A e \in Held(entry, tasks) : entry[e].node \in Nodes
  BY <1>1, StoreFacts
<1>3. KeptHandles(entry, tasks) = HandlesOf(entry)
  BY <1>1, StoreFacts DEF KeptHandles
<1> DEFINE files == FilesOf(node)
           handles == HandlesOf(entry)
<1> HIDE DEF files, handles
<1>4. files = FilesOf(nodes) /\ handles = KeptHandles(entry, tasks)
  BY <1>3 DEF files, handles
<1>5. Leaves(files, handles)
  BY <1>2, <1>4, SettleLeaves
<1> QED BY <1>5, StoreMake DEF files, handles

\* A node that is alive is a file.
LEMMA LiveFile ==
  ASSUME NEW x, x.name # None
  PROVE  FileOf(x) = SubSeq(x.data, 1, x.len) /\ x # Garbage
<1>1. x # Garbage
  BY DEF Garbage
<1> QED BY <1>1 DEF FileOf

\* A file's bytes.
LEMMA FileBytes ==
  ASSUME NEW x \in MemNodes, Sized(x), x.name # None
  PROVE  /\ FileOf(x) \in Seq(Nat) /\ FileOf(x) # None /\ Len(FileOf(x)) = x.len
         /\ DOMAIN FileOf(x) = 1 .. x.len
         /\ \A i \in 1 .. x.len : FileOf(x)[i] = x.data[i]
<1>1. x.data \in Seq(Nat) /\ x.len \in Nat /\ x.len <= Len(x.data)
  BY DEF MemNodes, Sized
<1>2. FileOf(x) = SubSeq(x.data, 1, x.len)
  BY LiveFile
<1> DEFINE s == SubSeq(x.data, 1, x.len)
<1>3. s \in Seq(Nat) /\ Len(s) = x.len /\ \A i \in 1 .. x.len : s[i] = x.data[i]
  BY <1>1
<1> HIDE DEF s
<1>4. s \in Seq(Int)
  BY <1>3, SeqMonotonic
<1>5. s # None
  BY <1>4, MemFSAssumption
<1>6. DOMAIN s = 1 .. x.len
  BY <1>3
<1> QED BY <1>2, <1>3, <1>5, <1>6 DEF s

\* A node that is made is a file that was none; the others stay what they are.
LEMMA MadeFile ==
  ASSUME IInv, NEW p \in InTree, NEW x \in Names, NEW n \in Fresh, NEW new \in MemNodes,
         NEW nodes, nodes = MadeAt(p, x, n, new)
  PROVE  /\ FilesOf(nodes) = [FilesOf(node) EXCEPT ![n] = FileOf(new)]
         /\ FilesOf(node)[n] = None /\ n \in Nodes /\ nodes[n] = new
<1>1. node \in [Nodes -> MemNodes] /\ TreeOK(node)
  BY InvFacts
<1>2. p \in Nodes /\ node[p].name # None /\ n \in Nodes /\ node[n] = Garbage
  BY <1>1, InTreeNamed DEF Fresh
<1> DEFINE y == [node[p] EXCEPT !.children = With(@, x, n)]
<1>3. nodes = [[node EXCEPT ![p] = y] EXCEPT ![n] = new]
  BY DEF MadeAt, Put
<1>4. y.name = node[p].name /\ y.data = node[p].data /\ y.len = node[p].len
  <2>1. node[p] \in MemNodes
    BY <1>1, <1>2
  <2> QED BY <2>1 DEF MemNodes
<1> HIDE DEF y
<1>5. FileOf(y) = FileOf(node[p])
  BY <1>2, <1>4, LiveFile
<1>6. /\ nodes[n] = new /\ DOMAIN nodes = Nodes
      /\ \A m \in Nodes \ {n} : nodes[m] = IF m = p THEN y ELSE node[m]
  BY <1>1, <1>2, <1>3
<1>7. \A m \in Nodes \ {n} : FileOf(nodes[m]) = FileOf(node[m])
  BY <1>5, <1>6
<1>8. FilesOf(node)[n] = None
  BY <1>2, ClosedHandle DEF FilesOf
<1> QED BY <1>2, <1>6, <1>7, <1>8 DEF FilesOf

\* What a new file contains.
LEMMA NewFiles ==
  /\ \A x \in Names, dir \in BOOLEAN : /\ FileOf(memNode(x, dir)) = <<>>
                                       /\ memNode(x, dir).len = 0
  /\ \A x \in Names, b \in Nat :
        LET new == [memNode(x, FALSE) EXCEPT !.data = <<b>>, !.len = 1]
        IN  new \in MemNodes /\ FileOf(new) = <<b>>
<1>1. ASSUME NEW x \in Names, NEW dir \in BOOLEAN
      PROVE  FileOf(memNode(x, dir)) = <<>> /\ memNode(x, dir).len = 0
  <2> DEFINE y == memNode(x, dir)
  <2>1. y.name = x /\ y.data = <<>> /\ y.len = 0
    BY DEF memNode
  <2> HIDE DEF y
  <2>2. FileOf(y) = SubSeq(<<>>, 1, 0)
    BY <2>1, NoneFacts, LiveFile
  <2> QED BY <2>1, <2>2 DEF y
<1>2. ASSUME NEW x \in Names, NEW b \in Nat,
             NEW new, new = [memNode(x, FALSE) EXCEPT !.data = <<b>>, !.len = 1]
      PROVE  new \in MemNodes /\ FileOf(new) = <<b>>
  <2>1. memNode(x, FALSE) \in MemNodes /\ memNode(x, FALSE).name = x
    BY NewNodes DEF memNode
  <2>2. new \in MemNodes
    <3>1. <<b>> \in Seq(Nat) /\ 1 \in Nat
      OBVIOUS
    <3> QED BY <1>2, <2>1, <3>1 DEF MemNodes
  <2>3. new.name = x /\ new.data = <<b>> /\ new.len = 1
    BY <1>2, <2>1 DEF MemNodes
  <2>4. FileOf(new) = SubSeq(<<b>>, 1, 1)
    BY <2>3, NoneFacts, LiveFile
  <2>5. SubSeq(<<b>>, 1, 1) = <<b>>
    <3> DEFINE s == <<b>>
               r == SubSeq(s, 1, 1)
    <3>1. s \in Seq(Nat) /\ Len(s) = 1
      OBVIOUS
    <3> HIDE DEF s
    <3>2. r \in Seq(Nat) /\ Len(r) = 1 /\ \A i \in 1 .. 1 : r[i] = s[i]
      BY <3>1
    <3> HIDE DEF r
    <3>3. r = s
      BY <3>1, <3>2, SeqEqual
    <3> QED BY <3>3 DEF r, s
  <2> QED BY <2>2, <2>4, <2>5
<1> QED BY <1>1, <1>2

\* An entry that is opened is a handle on its node.
LEMMA OpenedHandles ==
  ASSUME IInv, NEW e \in Entries, Free(e), NEW n \in Nodes, NEW off,
         NEW entries, entries = [entry EXCEPT ![e] = Opened(n, off)]
  PROVE  /\ \A f \in Held(entries, task) : entries[f].node \in Nodes
         /\ KeptHandles(entries, task) = [HandlesOf(entry) EXCEPT ![e] = [file |-> n, off |-> off]]
         /\ HandlesOf(entry)[e] = None
<1> DEFINE x == Opened(n, off)
<1>1. x.node = n /\ x.off = off /\ x.inTable
  BY DEF Opened, Closed
<1>2. HandleOf(x) = [file |-> n, off |-> off]
  BY <1>1, NoneFacts DEF HandleOf
<1> HIDE DEF x
<1>3. /\ e \in DOMAIN entry /\ entries[e] = x
      /\ \A f \in Entries \ {e} : entries[f] = entry[f]
  BY InvFacts DEF x
<1>4. Held(entries, task) = Held(entry, task) \cup {e}
  BY <1>1, <1>3 DEF Held
<1>5. \A f \in Held(entries, task) : entries[f].node \in Nodes
  BY <1>1, <1>3, <1>4, StoreFacts
<1>6. HandlesOf(entry)[e] = None
  BY StoreFacts DEF Free
<1>7. KeptHandles(entry, task) = HandlesOf(entry)
  BY StoreFacts
<1>8. KeptHandles(entries, task) = [KeptHandles(entry, task) EXCEPT ![e] = [file |-> n, off |-> off]]
  <2> DEFINE h == [file |-> n, off |-> off]
  <2>1. HandleOf(entries[e]) = h /\ e \in Held(entries, task)
    BY <1>2, <1>3, <1>4
  <2>2. \A f \in Entries \ {e} : /\ entries[f] = entry[f]
                                 /\ f \in Held(entries, task) <=> f \in Held(entry, task)
    BY <1>3, <1>4
  <2> HIDE DEF h
  <2>3. KeptHandles(entries, task)[e] = h
    BY <2>1 DEF KeptHandles
  <2>4. ASSUME NEW f \in Entries \ {e}
        PROVE  KeptHandles(entries, task)[f] = KeptHandles(entry, task)[f]
    <3>1. CASE f \in Held(entry, task)
      <4>1. f \in Held(entries, task) /\ entries[f] = entry[f] /\ f \in Entries
        BY <2>2, <3>1
      <4>2. KeptHandles(entries, task)[f] = HandleOf(entries[f])
        BY <4>1 DEF KeptHandles
      <4>3. KeptHandles(entry, task)[f] = HandleOf(entry[f])
        BY <3>1, <4>1 DEF KeptHandles
      <4> QED BY <4>1, <4>2, <4>3
    <3>2. CASE f \notin Held(entry, task)
      BY <2>2, <3>2 DEF KeptHandles
    <3> QED BY <3>1, <3>2
  <2> DEFINE old == KeptHandles(entry, task)
             new == KeptHandles(entries, task)
  <2>5. old = [f \in Entries |-> old[f]] /\ new = [f \in Entries |-> new[f]]
    BY DEF KeptHandles
  <2> HIDE DEF old, new
  <2>6. new = [old EXCEPT ![e] = h]
    BY <2>3, <2>4, <2>5 DEF old, new
  <2> QED BY <2>6 DEF old, new, h
<1> QED BY <1>5, <1>6, <1>7, <1>8

\* Path_open of a new file is a step of the store.
LEMMA openCreatesStores ==
  ASSUME IInv, NEW t \in Movers, NEW path \in NewPaths, NEW append \in BOOLEAN,
         Path_openCreates(t, path, append)
  PROVE  StoreStep
<1> DEFINE p == lookupParent(path)
           x == Base(path)
           n == NewNode
           new == memNode(x, FALSE)
           nodes == MadeAt(p, x, n, new)
<1>1. p \in InTree /\ x \in Names
  <2>1. path \in Seq(Names \cup {Dot, DotDot})
    BY MemFSAssumption
  <2> QED BY <2>1, InvFacts, PathFacts DEF Path_openCreates
<1>2. n \in Fresh
  BY FreshNode DEF Path_openCreates
<1>3. PICK e \in Entries : Free(e) /\ Registered(e, nodes, n, append)
  BY DEF Path_openCreates, MadeAt
<1>4. new \in MemNodes /\ FileOf(new) = <<>> /\ new.len = 0
  BY <1>1, NewNodes, NewFiles
<1> HIDE DEF p, x, n, new
<1>5. /\ FilesOf(nodes) = [FilesOf(node) EXCEPT ![n] = <<>>]
      /\ n \in Nodes /\ nodes[n] = new
  BY <1>1, <1>2, <1>4, MadeFile
<1> HIDE DEF nodes
<1> DEFINE entries == [entry EXCEPT ![e] = Opened(n, 0)]
           files == [FilesOf(node) EXCEPT ![n] = <<>>]
           handles == [HandlesOf(entry) EXCEPT ![e] = [file |-> n, off |-> 0]]
<1>6. Settle(nodes, entries, task)
  BY <1>3, <1>4, <1>5 DEF Registered
<1>7. /\ \A f \in Held(entries, task) : entries[f].node \in Nodes
      /\ KeptHandles(entries, task) = handles /\ HandlesOf(entry)[e] = None
  BY <1>3, <1>5, OpenedHandles
<1>8. files = FilesOf(nodes)
  BY <1>5
<1> HIDE DEF entries, files, handles
<1>9. Leaves(files, handles)
  BY <1>6, <1>7, <1>8, SettleLeaves
<1> QED BY <1>5, <1>7, <1>9, StoreOpenEmpty DEF files, handles

\* Path_open of what is there is a step of the store.
LEMMA openStores ==
  ASSUME IInv, NEW t \in Movers, NEW path \in Paths, NEW trunc \in BOOLEAN, NEW append \in BOOLEAN,
         Path_open(t, path, trunc, append)
  PROVE  StoreStep
<1> DEFINE n == lookup(path)
           cut == [node EXCEPT ![n].len = 0]
           nodes == IF trunc /\ ~node[n].dir THEN cut ELSE node
           off == IF append THEN nodes[n].len ELSE 0
<1>1. node \in [Nodes -> MemNodes] /\ \A m \in Nodes : Sized(node[m])
  BY InvFacts DEF TreeOK
<1>2. n \in Nodes /\ node[n].name # None
  <2>1. path \in Seq(Names \cup {Dot, DotDot})
    BY MemFSAssumption
  <2>2. n \in InTree
    BY <2>1, InvFacts, PathFacts DEF Path_open
  <2> HIDE DEF n
  <2> QED BY <2>2, InvFacts, InTreeNamed
<1>3. PICK e \in Entries : Free(e) /\ Registered(e, nodes, n, append)
  BY DEF Path_open
<1> HIDE DEF n
<1> DEFINE entries == [entry EXCEPT ![e] = Opened(n, off)]
           handles == [HandlesOf(entry) EXCEPT ![e] = [file |-> n, off |-> off]]
<1>4. Settle(nodes, entries, task)
  BY <1>3 DEF Registered
<1> HIDE DEF off
<1>5. /\ \A f \in Held(entries, task) : entries[f].node \in Nodes
      /\ KeptHandles(entries, task) = handles /\ HandlesOf(entry)[e] = None
  BY <1>2, <1>3, OpenedHandles
<1> HIDE DEF entries, handles
<1>6. CASE trunc /\ ~node[n].dir
  <2> DEFINE x == [node[n] EXCEPT !.len = 0]
             files == [FilesOf(node) EXCEPT ![n] = <<>>]
  <2>1. node[n] \in MemNodes
    BY <1>1, <1>2
  <2>2. x.name = node[n].name /\ x.data = node[n].data /\ x.len = 0
    BY <2>1 DEF MemNodes
  <2>3. nodes = [node EXCEPT ![n] = x]
    BY <1>6
  <2> HIDE DEF x, nodes
  <2>4. nodes[n] = x /\ \A m \in Nodes \ {n} : nodes[m] = node[m]
    BY <1>1, <1>2, <2>3
  <2>5. FileOf(x) = SubSeq(node[n].data, 1, 0)
    BY <1>2, <2>2, LiveFile
  <2>6. SubSeq(node[n].data, 1, 0) = <<>>
    OBVIOUS
  <2>7. files = FilesOf(nodes)
    BY <1>2, <2>4, <2>5, <2>6 DEF FilesOf
  <2>8. off = 0
    BY <2>2, <2>4 DEF off
  <2> HIDE DEF files
  <2>9. Leaves(files, handles)
    BY <1>4, <1>5, <2>7, SettleLeaves
  <2> QED BY <1>2, <1>5, <2>8, <2>9, StoreOpenEmpty DEF files, handles
<1>7. CASE ~(trunc /\ ~node[n].dir)
  <2> DEFINE files == FilesOf(node)
  <2>1. nodes = node
    BY <1>7
  <2>2. files[n] = FileOf(node[n]) /\ files[n] # None /\ Len(files[n]) = node[n].len
    BY <1>1, <1>2, FileBytes DEF FilesOf
  <2>3. off \in {0, Len(files[n])}
    BY <2>1, <2>2 DEF off
  <2>4. files = FilesOf(nodes)
    BY <2>1
  <2> HIDE DEF files
  <2>5. Leaves(files, handles)
    BY <1>4, <1>5, <2>4, SettleLeaves
  <2> QED BY <1>2, <1>5, <2>2, <2>3, <2>5, StoreOpen DEF files, handles
<1> QED BY <1>6, <1>7

\* A node is made for no handle.
LEMMA MakesStore ==
  ASSUME IInv, NEW p \in InTree, NEW x \in Names, NEW n \in Fresh, NEW new \in MemNodes,
         FileOf(new) \in {<<>>} \cup {<<b>> : b \in HostBytes},
         NEW nodes, nodes = MadeAt(p, x, n, new), NEW tasks,
         \A u \in Callers : tasks[u].entry = task[u].entry, Settle(nodes, entry, tasks)
  PROVE  StoreStep
<1>1. /\ FilesOf(nodes) = [FilesOf(node) EXCEPT ![n] = FileOf(new)]
      /\ FilesOf(node)[n] = None /\ n \in Nodes
  BY MadeFile
<1>2. Held(entry, tasks) = Held(entry, task)
  BY DEF Held
<1>3. \A e \in Held(entry, tasks) : entry[e].node \in Nodes
  BY <1>2, StoreFacts
<1> DEFINE files == FilesOf(nodes)
           handles == HandlesOf(entry)
           s == FileOf(new)
<1>4. handles = KeptHandles(entry, tasks)
  BY <1>2, StoreFacts DEF KeptHandles
<1> HIDE DEF files, handles
<1>5. Leaves(files, handles)
  BY <1>3, <1>4, SettleLeaves DEF files
<1>6. files = [FilesOf(node) EXCEPT ![n] = s]
  BY <1>1 DEF files
<1> HIDE DEF s
<1> QED BY <1>1, <1>5, <1>6, StoreMakeOne DEF handles, s

\* Path_create_directory is a step of the store.
LEMMA create_directoryStores ==
  ASSUME IInv, NEW t \in Movers, NEW path \in Paths, Path_create_directory(t, path)
  PROVE  StoreStep
<1> DEFINE p == lookupParent(path)
           x == Base(path)
           new == memNode(x, TRUE)
           nodes == MadeAt(p, x, NewNode, new)
<1>1. p \in InTree /\ x \in Names
  <2>1. path \in Seq(Names \cup {Dot, DotDot})
    BY MemFSAssumption
  <2> QED BY <2>1, InvFacts, PathFacts DEF Path_create_directory
<1>2. NewNode \in Fresh
  BY FreshNode DEF Path_create_directory
<1>3. Settle(nodes, entry, task)
  BY DEF Path_create_directory, MadeAt
<1>4. new \in MemNodes /\ FileOf(new) = <<>>
  BY <1>1, NewNodes, NewFiles
<1> HIDE DEF p, x, new, nodes
<1> QED BY <1>1, <1>2, <1>3, <1>4, MakesStore DEF nodes

\* Remove is a step of the store: a file that is open stays.
LEMMA RemoveNodeStores ==
  ASSUME IInv, NEW t \in Movers, RemoveNode(t)
  PROVE  StoreStep
<1> DEFINE path == task[t].path
           p == lookupParent(path)
           x == Base(path)
           nodes == RemovedAt(p, x)
           idle == [task EXCEPT ![t] = Idle]
<1>1. /\ TreeOK(node) /\ t \in Callers /\ node \in [Nodes -> MemNodes]
      /\ task \in [Callers -> Tasks] /\ path \in Seq(Names \cup {Dot, DotDot})
  BY InvFacts DEF Callers, Threads, Tasks
<1>2. task[t].entry = None
  BY <1>1, InvFacts DEF RemoveNode, InFlight, Reading
<1>3. CASE p # None /\ Removable(Child(p, x))
  <2>1. p \in InTree
    BY <1>1, <1>3, PathFacts
  <2>2. Settle(nodes, entry, idle)
    BY <1>3 DEF RemoveNode, RemovedAt
  <2> HIDE DEF p, x
  <2>3. p \in Nodes /\ node[p].name # None
    BY <1>1, <2>1, InTreeNamed
  <2> DEFINE y == [node[p] EXCEPT !.children = Without(node[p].children, x)]
  <2>4. nodes = [node EXCEPT ![p] = y]
    BY DEF RemovedAt
  <2>5. y.name = node[p].name /\ y.data = node[p].data /\ y.len = node[p].len
    <3>1. node[p] \in MemNodes
      BY <1>1, <2>3
    <3> QED BY <3>1 DEF MemNodes
  <2> HIDE DEF y, nodes
  <2>6. nodes[p] = y /\ \A m \in Nodes \ {p} : nodes[m] = node[m]
    BY <1>1, <2>3, <2>4
  <2>7. FilesOf(nodes) = FilesOf(node)
    BY <2>3, <2>5, <2>6, SameFiles
  <2>8. \A u \in Callers : idle[u].entry = task[u].entry
    BY <1>1, <1>2, Idles
  <2> HIDE DEF idle
  <2> QED BY <2>2, <2>7, <2>8, SettleStutter
<1>4. CASE ~(p # None /\ Removable(Child(p, x)))
  <2>1. UNCHANGED <<node, entry>>
    BY <1>4 DEF RemoveNode
  <2> QED BY <2>1, StoreStutter
<1> QED BY <1>3, <1>4

\* Path_rename is a step of the store: handles stay on their files.
LEMMA renameStores ==
  ASSUME IInv, NEW t \in Movers, NEW oldPath \in Paths, NEW newPath \in Paths,
         Path_rename(t, oldPath, newPath)
  PROVE  StoreStep
<1> DEFINE p == lookupParent(oldPath)
           q == lookupParent(newPath)
           old == Base(oldPath)
           new == Base(newPath)
           n == Child(p, old)
           nodes == Moved(p, old, q, new)
           rest == [m \in Nodes |-> IF m = p THEN Without(node[p].children, old)
                                    ELSE node[m].children]
<1>1. TreeOK(node) /\ node \in [Nodes -> MemNodes]
  BY InvFacts
<1>2. p # None /\ q # None /\ n # None /\ Settle(nodes, entry, task)
  BY DEF Path_rename
<1>3. p \in InTree /\ q \in InTree /\ new \in Names
  <2>1. oldPath \in Seq(Names \cup {Dot, DotDot}) /\ newPath \in Seq(Names \cup {Dot, DotDot})
    BY MemFSAssumption
  <2> QED BY <1>1, <1>2, <2>1, PathFacts
<1> HIDE DEF p, q, old, new
<1>4. InTree \in SUBSET Nodes /\ HoldsChildren(node, InTree)
  BY <1>1, InTreeHolds
<1>5. n \in InTree /\ n = node[p].children[old]
  BY <1>2, <1>3, <1>4, ChildIn
<1>6. /\ p \in Nodes /\ q \in Nodes /\ n \in Nodes
      /\ node[p].name # None /\ node[q].name # None /\ node[n].name # None
  BY <1>1, <1>3, <1>5, InTreeNamed
<1>10. nodes = Moved(p, old, q, new)
       /\ rest = [m \in Nodes |-> IF m = p THEN Without(node[p].children, old)
                                  ELSE node[m].children]
  OBVIOUS
<1> HIDE DEF n, nodes, rest
<1>7. /\ nodes \in [Nodes -> MemNodes]
      /\ \A m \in Nodes : /\ nodes[m].name = IF m = n THEN new ELSE node[m].name
                          /\ nodes[m].dir = node[m].dir
                          /\ nodes[m].data = node[m].data /\ nodes[m].len = node[m].len
                          /\ m # q => nodes[m].children = rest[m]
  BY <1>1, <1>3, <1>5, <1>6, <1>10, MovedShape
<1>8. ASSUME NEW m \in Nodes
      PROVE  \/ nodes[m] = node[m]
             \/ /\ nodes[m].data = node[m].data /\ nodes[m].len = node[m].len
                /\ nodes[m].name # None /\ node[m].name # None
  <2>1. CASE m \in {p, q, n}
    BY <1>3, <1>6, <1>7, <2>1, NoneFacts
  <2>2. CASE m \notin {p, q, n}
    <3>1. rest[m] = node[m].children
      BY <2>2 DEF rest
    <3>2. nodes[m] \in MemNodes /\ node[m] \in MemNodes
      BY <1>1, <1>7
    <3>3. /\ nodes[m].name = node[m].name /\ nodes[m].dir = node[m].dir
          /\ nodes[m].data = node[m].data /\ nodes[m].len = node[m].len
          /\ nodes[m].children = node[m].children
      BY <1>7, <2>2, <3>1
    <3> QED BY <3>2, <3>3, SameFields
  <2> QED BY <2>1, <2>2
<1>9. FilesOf(nodes) = FilesOf(node)
  BY <1>8, SameFiles
<1> QED BY <1>2, <1>9, SettleStutter

\* MkdirAll is a step of the store.
LEMMA MkdirAllStores ==
  ASSUME IInv, NEW path \in HostPaths, memSplit(path) # <<>>, MkdirAll(path)
  PROVE  StoreStep
<1> DEFINE part == Head(memSplit(path))
           x == [Idle EXCEPT !.pc = "write", !.path = path]
           busy == [task EXCEPT ![Host] = x]
           new == memNode(part, TRUE)
           nodes == MadeAt(Root, part, NewNode, new)
<1>1. TreeOK(node) /\ Host \in Callers /\ task \in [Callers -> Tasks]
  BY InvFacts DEF Callers
<1>2. path \in Seq(Names \cup {Dot, DotDot})
  BY MemFSAssumption
<1>3. x.entry = None
  <2> HIDE DEF x
  <2> QED BY <1>2, PathTask DEF x
<1>4. task[Host].entry = None
  BY <1>1, InvFacts DEF MkdirAll, Calls, InFlight, Reading
<1>5. part \in Names
  BY <1>2, memSplitType
<1>6. CASE Len(memSplit(path)) = 1 \/ Child(Root, part) # None
  <2>1. UNCHANGED <<node, entry>>
    BY <1>6 DEF MkdirAll
  <2> QED BY <2>1, StoreStutter
<1>7. CASE ~(Len(memSplit(path)) = 1 \/ Child(Root, part) # None)
  <2>1. Fresh # {} /\ Settle(nodes, entry, busy)
    BY <1>7 DEF MkdirAll, MadeAt
  <2>2. NewNode \in Fresh
    BY <2>1, FreshNode
  <2>3. new \in MemNodes /\ FileOf(new) = <<>>
    BY <1>5, NewNodes, NewFiles
  <2>4. Root \in InTree
    BY <1>1, InTreeHolds
  <2> HIDE DEF x
  <2>5. \A u \in Callers : busy[u].entry = task[u].entry
    BY <1>1, <1>3, <1>4
  <2> HIDE DEF new, part, busy, nodes
  <2> QED BY <1>5, <2>1, <2>2, <2>3, <2>4, <2>5, MakesStore DEF nodes
<1> QED BY <1>6, <1>7

\* WriteFile is a step of the store: it makes a new file, and who has the old
\* one open keeps it.
LEMMA WriteFileStores ==
  ASSUME IInv, NEW b \in HostBytes, WriteFile(b)
  PROVE  StoreStep
<1> DEFINE path == task[Host].path
           p == lookupParent(path)
           x == Base(path)
           done == [task EXCEPT ![Host] = Idle]
           new == [memNode(x, FALSE) EXCEPT !.data = <<b>>, !.len = 1]
           nodes == MadeAt(p, x, NewNode, new)
<1>1. /\ TreeOK(node) /\ Host \in Callers
      /\ task \in [Callers -> Tasks] /\ path \in Seq(Names \cup {Dot, DotDot})
  BY InvFacts DEF Callers, Tasks
<1>2. task[Host].entry = None
  BY <1>1, InvFacts DEF WriteFile, InFlight, Reading
<1>3. CASE p = None
  <2>1. UNCHANGED <<node, entry>>
    BY <1>3 DEF WriteFile
  <2> QED BY <2>1, StoreStutter
<1>4. CASE p # None
  <2>1. Fresh # {} /\ Settle(nodes, entry, done)
    BY <1>4 DEF WriteFile, MadeAt
  <2>2. NewNode \in Fresh
    BY <2>1, FreshNode
  <2>3. p \in InTree /\ x \in Names
    BY <1>1, <1>4, PathFacts
  <2>4. new \in MemNodes /\ FileOf(new) = <<b>>
    BY <2>3, NewFiles, MemFSAssumption
  <2>5. \A u \in Callers : done[u].entry = task[u].entry
    BY <1>1, <1>2, Idles
  <2> HIDE DEF new, p, x, done, nodes
  <2> QED BY <2>1, <2>2, <2>3, <2>4, <2>5, MakesStore DEF nodes
<1> QED BY <1>3, <1>4

\* What one entry's step and its end leave of the handles.
LEMMA DropHandles ==
  ASSUME IInv, NEW e \in Held(entry, task), NEW entries, NEW tasks,
         \A f \in Entries \ {e} : entries[f] = entry[f],
         entries[e].node = entry[e].node,
         \A f \in Entries \ {e} : (f \in Held(entries, tasks)) <=> (f \in Held(entry, task))
  PROVE  /\ \A f \in Held(entries, tasks) : entries[f].node \in Nodes
         /\ \/ KeptHandles(entries, tasks) = [HandlesOf(entry) EXCEPT ![e] = HandleOf(entries[e])]
            \/ KeptHandles(entries, tasks) = [HandlesOf(entry) EXCEPT ![e] = None]
<1> DEFINE handles == KeptHandles(entries, tasks)
           old == HandlesOf(entry)
<1>1. \A f \in Held(entries, tasks) : entries[f].node \in Nodes
  <2>1. \A f \in Held(entries, tasks) : f \in Entries
    BY DEF Held
  <2> QED BY <2>1, StoreFacts
<1>2. ASSUME NEW f \in Entries \ {e} PROVE handles[f] = old[f]
  <2>1. CASE f \in Held(entry, task)
    <3>1. f \in Held(entries, tasks) /\ entries[f] = entry[f]
      BY <2>1
    <3> QED BY <3>1 DEF KeptHandles, HandlesOf
  <2>2. CASE f \notin Held(entry, task)
    BY <2>2, StoreFacts DEF KeptHandles
  <2> QED BY <2>1, <2>2
<1>3. handles[e] = HandleOf(entries[e]) \/ handles[e] = None
  BY StoreFacts DEF KeptHandles
<1>4. old = [f \in Entries |-> old[f]] /\ handles = [f \in Entries |-> handles[f]]
  BY DEF KeptHandles, HandlesOf
<1>5. e \in Entries
  BY StoreFacts
<1> HIDE DEF handles, old
<1>6. handles = [old EXCEPT ![e] = handles[e]]
  BY <1>2, <1>4, <1>5
<1>7. handles = [old EXCEPT ![e] = HandleOf(entries[e])] \/ handles = [old EXCEPT ![e] = None]
  BY <1>3, <1>6
<1> QED BY <1>1, <1>7 DEF handles, old

\* An entry that leaves the table, or a call on it that ends.
LEMMA DropStores ==
  ASSUME IInv, NEW e \in Held(entry, task), NEW entries, NEW tasks,
         \A f \in Entries \ {e} : entries[f] = entry[f],
         entries[e].node = entry[e].node, entries[e].off = entry[e].off,
         \A f \in Entries \ {e} : (f \in Held(entries, tasks)) <=> (f \in Held(entry, task)),
         Settle(node, entries, tasks)
  PROVE  StoreStep
<1> DEFINE handles == KeptHandles(entries, tasks)
           old == HandlesOf(entry)
           files == FilesOf(node)
<1>1. /\ \A f \in Held(entries, tasks) : entries[f].node \in Nodes
      /\ \/ handles = [old EXCEPT ![e] = HandleOf(entries[e])]
         \/ handles = [old EXCEPT ![e] = None]
  BY DropHandles
<1>2. HandleOf(entries[e]) = old[e]
  <2>1. e \in Entries
    BY DEF Held
  <2> QED BY <2>1 DEF HandleOf, HandlesOf
<1>3. [old EXCEPT ![e] = old[e]] = old
  BY DEF HandlesOf
<1> HIDE DEF handles, old, files
<1>4. Leaves(files, handles)
  BY <1>1, SettleLeaves DEF files, handles
<1>5. CASE handles = old
  BY <1>4, <1>5, StoreMake DEF files, old
<1>6. CASE handles = [old EXCEPT ![e] = None]
  <2>1. e \in Entries
    BY DEF Held
  <2> QED BY <1>4, <1>6, <2>1, StoreClose DEF files, old
<1> QED BY <1>1, <1>2, <1>3, <1>5, <1>6

\* Fd_close is a step of the store, also while a call uses the entry.
LEMMA closeStores ==
  ASSUME IInv, NEW t \in Movers, NEW e \in Entries, Fd_close(t, e)
  PROVE  StoreStep
<1> DEFINE x == [entry[e] EXCEPT !.inTable = FALSE]
           entries == [entry EXCEPT ![e] = x]
<1>1. Settle(node, entries, task) /\ e \in Held(entry, task)
  BY DEF Fd_close, Uses, Held
<1>2. entry \in [Entries -> MemFiles]
  BY InvFacts
<1>3. x.node = entry[e].node /\ x.off = entry[e].off
  BY <1>2 DEF MemFiles
<1> HIDE DEF x
<1>4. entries[e] = x /\ \A f \in Entries \ {e} : entries[f] = entry[f]
  BY <1>2
<1> HIDE DEF entries
<1>5. \A f \in Entries \ {e} : (f \in Held(entries, task)) <=> (f \in Held(entry, task))
  BY <1>4 DEF Held
<1> QED BY <1>1, <1>3, <1>4, <1>5, DropStores

\* Fd_read is a step of the store.
LEMMA readStores ==
  ASSUME IInv, NEW t \in Users, NEW e \in Entries, Fd_read(t, e)
  PROVE  StoreStep
<1> DEFINE n == entry[e].node
           h == [file |-> n, off |-> entry[e].off]
           x == [entry[e] EXCEPT !.off = entry[e].off + 1]
           handles == [HandlesOf(entry) EXCEPT ![e].off = @ + 1]
<1>1. e \in Held(entry, task)
  BY UsesFacts DEF Fd_read, UsesFile
<1>2. /\ entry[e] \in MemFiles /\ n \in Nodes /\ node[n] \in MemNodes /\ Sized(node[n])
      /\ HandlesOf(entry)[e] = h /\ h # None /\ node[n].name # None
  BY <1>1, StoreFacts
<1>3. Len(FilesOf(node)[n]) = node[n].len
  BY <1>2, FileBytes DEF FilesOf
<1>4. entry[e].off < node[n].len /\ entry' = [entry EXCEPT ![e] = x] /\ node' = node
  BY DEF Fd_read
<1>5. x.node = n /\ x.off = entry[e].off + 1
  BY <1>2 DEF MemFiles
<1>6. HandleOf(x) = [file |-> n, off |-> entry[e].off + 1]
  BY <1>2, <1>5, NoneFacts DEF HandleOf
<1> HIDE DEF x, n
<1>7. handles = HandlesOf(entry')
  <2>1. handles = [HandlesOf(entry) EXCEPT ![e] =
                      [HandlesOf(entry)[e] EXCEPT !.off = HandlesOf(entry)[e].off + 1]]
    OBVIOUS
  <2>2. [HandlesOf(entry)[e] EXCEPT !.off = HandlesOf(entry)[e].off + 1]
           = [file |-> n, off |-> entry[e].off + 1]
    BY <1>2
  <2> HIDE DEF handles, h
  <2> QED BY <1>4, <1>6, <2>1, <2>2, InvFacts DEF HandlesOf
<1> HIDE DEF handles
<1>8. Leaves(FilesOf(node), handles)
  BY <1>4, <1>7, PlainLeaves
<1>9. /\ HandlesOf(entry)[e] # None /\ HandlesOf(entry)[e].file = n
      /\ HandlesOf(entry)[e].off = entry[e].off
  BY <1>2
<1>10. HandlesOf(entry)[e].off < Len(FilesOf(node)[HandlesOf(entry)[e].file])
  BY <1>3, <1>4, <1>9
<1> QED BY <1>8, <1>9, <1>10, StoreRead DEF handles

\* The position moves and the tree stays.
LEMMA OffStores ==
  ASSUME IInv, NEW e \in Held(entry, task), NEW off \in 0 .. MaxSize, node' = node,
         NEW x, x.node = entry[e].node, x.off = off, entry' = [entry EXCEPT ![e] = x]
  PROVE  StoreStep
<1> DEFINE handles == [HandlesOf(entry) EXCEPT ![e].off = off]
           h == [file |-> entry[e].node, off |-> entry[e].off]
<1>1. /\ e \in Entries /\ entry[e].node \in Nodes
      /\ HandlesOf(entry)[e] = h /\ HandlesOf(entry)[e] # None
  BY StoreFacts
<1>2. HandleOf(x) = [file |-> entry[e].node, off |-> off]
  BY <1>1, NoneFacts DEF HandleOf
<1>3. handles = HandlesOf(entry')
  <2>1. handles = [HandlesOf(entry) EXCEPT ![e] = [HandlesOf(entry)[e] EXCEPT !.off = off]]
    OBVIOUS
  <2>2. [HandlesOf(entry)[e] EXCEPT !.off = off] = [file |-> entry[e].node, off |-> off]
    BY <1>1
  <2> HIDE DEF handles, h
  <2> QED BY <1>1, <1>2, <2>1, <2>2, InvFacts DEF HandlesOf
<1> HIDE DEF handles
<1>4. Leaves(FilesOf(node), handles)
  BY <1>3, PlainLeaves
<1> QED BY <1>1, <1>4, StoreSeek DEF handles

\* Fd_seek is a step of the store.
LEMMA seekStores ==
  ASSUME IInv, NEW t \in Users, NEW e \in Entries, NEW off \in 0 .. MaxSize, Fd_seek(t, e, off)
  PROVE  StoreStep
<1> DEFINE x == [entry[e] EXCEPT !.off = off]
<1>1. e \in Held(entry, task) /\ entry[e] \in MemFiles
  BY UsesFacts DEF Fd_seek, UsesFile
<1>2. x.node = entry[e].node /\ x.off = off
  BY <1>1, OffEdit
<1>3. entry' = [entry EXCEPT ![e] = x] /\ node' = node
  BY DEF Fd_seek
<1> HIDE DEF x
<1> QED BY <1>1, <1>2, <1>3, OffStores

\* The Seek of Fd_readdir is a step of the store.
LEMMA ReadDirSeekStores ==
  ASSUME IInv, NEW t \in Users, ReadDirSeek(t)
  PROVE  StoreStep
<1> DEFINE e == task[t].entry
           x == [entry[e] EXCEPT !.off = 0]
<1>1. task[t].pc = "seek" /\ entry' = [entry EXCEPT ![e] = x] /\ node' = node
  BY DEF ReadDirSeek
<1>2. e \in Held(entry, task) /\ entry[e] \in MemFiles
  BY <1>1, TaskFacts DEF InFlight, Reading
<1>3. 0 \in 0 .. MaxSize
  BY MemFSAssumption
<1> HIDE DEF e
<1>4. x.node = entry[e].node /\ x.off = 0
  BY <1>2, <1>3, OffEdit
<1> HIDE DEF x
<1> QED BY <1>1, <1>2, <1>3, <1>4, OffStores

\* An entry changes, but not what it is open on nor where.
LEMMA SameHandle ==
  ASSUME IInv, NEW e \in Entries, node' = node,
         NEW x, x.node = entry[e].node, x.off = entry[e].off, entry' = [entry EXCEPT ![e] = x]
  PROVE  StoreStep
<1>1. HandleOf(x) = HandleOf(entry[e])
  BY DEF HandleOf
<1>2. entry \in [Entries -> MemFiles]
  BY InvFacts
<1>3. ASSUME NEW f \in Entries PROVE HandleOf(entry'[f]) = HandleOf(entry[f])
  <2>1. CASE f = e
    BY <1>1, <1>2, <2>1
  <2>2. CASE f # e
    BY <1>2, <2>2
  <2> QED BY <2>1, <2>2
<1>4. HandlesOf(entry') = HandlesOf(entry)
  BY <1>3 DEF HandlesOf
<1> QED BY <1>4, StoreStutter

\* The lookup of Fd_readdir is a stuttering step of the store.
LEMMA readdirStores ==
  ASSUME IInv, NEW t \in Users, NEW e \in Entries, Fd_readdir(t, e)
  PROVE  StoreStep
<1> DEFINE w == IF walk[t].entry = None \/ walk[t].over THEN [NoWalk EXCEPT !.entry = e]
                ELSE walk[t]
           cache == Dropped(w)
           x == [entry[e] EXCEPT !.cache = cache, !.listed = TRUE]
<1>1. /\ entry' = [entry EXCEPT ![e].cache = cache, ![e].listed = TRUE]
      /\ node' = node
  BY DEF Fd_readdir
<1>2. entry \in [Entries -> MemFiles]
  BY InvFacts
<1> HIDE DEF cache
<1>3. entry' = [entry EXCEPT ![e] = x]
  BY <1>1, <1>2
<1>4. x.node = entry[e].node /\ x.off = entry[e].off
  BY <1>2 DEF MemFiles
<1> HIDE DEF x
<1> QED BY <1>1, <1>3, <1>4, SameHandle

\* ReadDir is a stuttering step of the store.
LEMMA ReadDirStores ==
  ASSUME IInv, NEW t \in Users, ReadDir(t)
  PROVE  StoreStep
<1> DEFINE e == task[t].entry
           n == entry[e].node
           k == Max({entry[e].dirOff, Cardinality(DOMAIN node[n].children)})
           x == [entry[e] EXCEPT !.dirOff = k]
<1>1. task[t].pc = "readdir" /\ entry' = [entry EXCEPT ![e] = x] /\ node' = node
  BY DEF ReadDir
<1>2. entry[e] \in MemFiles /\ e \in Entries
  BY <1>1, TaskFacts DEF InFlight, Reading
<1> HIDE DEF k
<1>3. x.node = entry[e].node /\ x.off = entry[e].off
  BY <1>2 DEF MemFiles
<1> HIDE DEF e, x
<1> QED BY <1>1, <1>2, <1>3, SameHandle

\* The snapshot is no part of the store.
LEMMA KeepSnapshotStores ==
  ASSUME IInv, NEW t \in Users, KeepSnapshot(t)
  PROVE  StoreStep
<1> DEFINE e == task[t].entry
           x == [entry[e] EXCEPT !.cache = task[t].entries]
<1>1. task[t].pc = "keep" /\ entry' = [entry EXCEPT ![e] = x] /\ node' = node
  BY DEF KeepSnapshot
<1>2. entry[e] \in MemFiles /\ e \in Entries
  BY <1>1, TaskFacts DEF InFlight, Reading
<1>3. x.node = entry[e].node /\ x.off = entry[e].off
  BY <1>2 DEF MemFiles
<1> HIDE DEF e, x
<1> QED BY <1>1, <1>2, <1>3, SameHandle

\* writeAt writes a byte: also where the array still holds others beyond the
\* length, the gap is zero.
LEMMA WrittenBytes ==
  ASSUME NEW x \in MemNodes, Sized(x), x.name # None, NEW off \in 0 .. MaxSize - 1, NEW b \in Nat
  PROVE  FileOf(writeAt(x, off, b)) = Store!Written(FileOf(x), off, b)
<1>0. PICK y : y = writeAt(x, off, b)
  OBVIOUS
<1> DEFINE n == IF off + 1 > x.len THEN off + 1 ELSE x.len
<1>1. /\ y \in MemNodes /\ Sized(y) /\ y.len = n /\ y.name = x.name
      /\ \A i \in 1 .. n : y.data[i] = IF i = off + 1 THEN b
                                       ELSE IF i <= x.len THEN x.data[i] ELSE 0
  <2>1. /\ y \in MemNodes /\ Sized(y)
        /\ y.len = IF off + 1 > x.len THEN off + 1 ELSE x.len
        /\ y.name = x.name
        /\ \A i \in 1 .. y.len : y.data[i] = IF i = off + 1 THEN b
                                             ELSE IF i <= x.len THEN x.data[i] ELSE 0
    <3>1. ByteWritten(x, off, b, y)
      BY <1>0, writeAtFacts
    <3> QED BY <3>1 DEF ByteWritten
  <2>2. y.len = n
    BY <2>1
  <2> HIDE DEF n
  <2> QED BY <2>1, <2>2
<1> DEFINE s == FileOf(x)
           r == FileOf(y)
           w == Store!Written(s, off, b)
<1>2. /\ Len(s) = x.len /\ x.len \in Nat /\ \A i \in 1 .. x.len : s[i] = x.data[i]
  BY FileBytes DEF MemNodes
<1>3. r \in Seq(Nat) /\ DOMAIN r = 1 .. n /\ \A i \in 1 .. n : r[i] = y.data[i]
  BY <1>1, FileBytes
<1>4. w = [i \in 1 .. Store!Max2(Len(s), off + 1) |->
              IF i = off + 1 THEN b ELSE IF i <= Len(s) THEN s[i] ELSE 0]
  BY DEF Store!Written
<1>5. Store!Max2(Len(s), off + 1) = n
  BY <1>2, MemFSAssumption DEF Store!Max2
<1> HIDE DEF r, s, w, n
<1>6. w = [i \in 1 .. n |-> IF i = off + 1 THEN b ELSE IF i <= x.len THEN s[i] ELSE 0]
  BY <1>2, <1>4, <1>5
<1>7. ASSUME NEW i \in 1 .. n PROVE r[i] = w[i]
  <2>1. r[i] = IF i = off + 1 THEN b ELSE IF i <= x.len THEN x.data[i] ELSE 0
    BY <1>1, <1>3
  <2>2. w[i] = IF i = off + 1 THEN b ELSE IF i <= x.len THEN s[i] ELSE 0
    BY <1>6
  <2>3. i <= x.len => s[i] = x.data[i]
    <3>1. i \in Nat /\ 1 <= i
      BY <1>1 DEF MemNodes
    <3> QED BY <1>2, <3>1
  <2> QED BY <2>1, <2>2, <2>3
<1>8. r = [i \in 1 .. n |-> r[i]] /\ w = [i \in 1 .. n |-> w[i]]
  BY <1>3, <1>6
<1>9. r = w
  BY <1>7, <1>8
<1> QED BY <1>0, <1>9 DEF r, s, w

\* Truncate leaves a prefix, and zeros after it.
LEMMA ResizedBytes ==
  ASSUME NEW x \in MemNodes, Sized(x), x.name # None, NEW size \in 0 .. MaxSize
  PROVE  FileOf(Truncated(x, size)) = Store!Resized(FileOf(x), size)
<1> DEFINE y == Truncated(x, size)
           s == FileOf(x)
           r == FileOf(y)
           w == Store!Resized(s, size)
<1>1. /\ y \in MemNodes /\ Sized(y) /\ y.len = size /\ y.name = x.name
      /\ \A i \in 1 .. size : y.data[i] = IF i <= x.len THEN x.data[i] ELSE 0
  BY TruncatedFacts
<1>2. /\ Len(s) = x.len /\ x.len \in Nat /\ \A i \in 1 .. x.len : s[i] = x.data[i]
  BY FileBytes DEF MemNodes
<1> HIDE DEF y
<1>3. r \in Seq(Nat) /\ DOMAIN r = 1 .. size /\ \A i \in 1 .. size : r[i] = y.data[i]
  BY <1>1, FileBytes
<1>4. w = [i \in 1 .. size |-> IF i <= Len(s) THEN s[i] ELSE 0]
  BY DEF Store!Resized
<1> HIDE DEF r, s, w
<1>5. ASSUME NEW i \in 1 .. size PROVE r[i] = w[i]
  <2>1. r[i] = IF i <= x.len THEN x.data[i] ELSE 0
    BY <1>1, <1>3
  <2>2. w[i] = IF i <= x.len THEN s[i] ELSE 0
    BY <1>2, <1>4
  <2>3. i <= x.len => s[i] = x.data[i]
    BY <1>2
  <2> QED BY <2>1, <2>2, <2>3
<1>6. r = [i \in 1 .. size |-> r[i]] /\ w = [i \in 1 .. size |-> w[i]]
  BY <1>3, <1>4
<1>7. r = w
  BY <1>5, <1>6
<1> QED BY <1>7 DEF r, s, w, y

\* One file's contents change.
LEMMA EditedFiles ==
  ASSUME IInv, NEW n \in Nodes, NEW y, NEW nodes, nodes = [node EXCEPT ![n] = y]
  PROVE  FilesOf(nodes) = [FilesOf(node) EXCEPT ![n] = FileOf(y)]
<1>1. nodes[n] = y /\ \A m \in Nodes \ {n} : nodes[m] = node[m]
  BY InvFacts
<1>2. \A m \in Nodes \ {n} : FileOf(nodes[m]) = FileOf(node[m])
  BY <1>1
<1>3. FileOf(nodes[n]) = FileOf(y)
  BY <1>1
<1> QED BY <1>2, <1>3 DEF FilesOf

\* A Write of one buffer is a step of the store.
LEMMA writeVecStores ==
  ASSUME IInv, NEW t \in Users, NEW b \in Bytes, writeVec(t, b)
  PROVE  StoreStep
<1> DEFINE e == task[t].entry
           n == entry[e].node
           y == writeAt(node[n], entry[e].off, b)
           nodes == [node EXCEPT ![n] = y]
           x == [entry[e] EXCEPT !.off = entry[e].off + 1]
           entries == [entry EXCEPT ![e] = x]
           z == IF task[t].left = 1 THEN Idle ELSE [task[t] EXCEPT !.left = @ - 1]
           tasks == [task EXCEPT ![t] = z]
           old == HandlesOf(entry)
           handles == KeptHandles(entries, tasks)
           files == FilesOf(nodes)
<1>1. /\ task[t].pc = "writev" /\ entry[e].off < MaxSize
      /\ Settle(nodes, entries, tasks)
  BY DEF writeVec
<1>2. /\ t \in Callers /\ task[t] \in Tasks /\ e \in Entries /\ e \in Held(entry, task)
      /\ task \in [Callers -> Tasks] /\ entry \in [Entries -> MemFiles]
  BY <1>1, TaskFacts, InvFacts DEF InFlight
<1>3. /\ entry[e] \in MemFiles /\ n \in Nodes /\ node[n] \in MemNodes /\ Sized(node[n])
      /\ old[e] = [file |-> n, off |-> entry[e].off] /\ old[e] # None
      /\ old[e].file = n /\ old[e].off = entry[e].off /\ node[n].name # None
  BY <1>2, StoreFacts
<1>4. entry[e].off \in 0 .. MaxSize - 1 /\ b \in Nat
  <2>1. entry[e].off \in 0 .. MaxSize
    BY <1>3 DEF MemFiles
  <2>2. MaxSize \in Nat /\ b \in Nat
    BY MemFSAssumption
  <2> HIDE DEF e
  <2> QED BY <1>1, <2>1, <2>2
<1>5. z.entry \in {None, e}
  <2>1. CASE task[t].left = 1
    BY <2>1, Idles
  <2>2. CASE task[t].left # 1
    <3>1. z = [task[t] EXCEPT !.left = task[t].left - 1]
      BY <2>2
    <3> QED BY <1>2, <3>1 DEF Tasks
  <2> QED BY <2>1, <2>2
<1> HIDE DEF z
<1>6. tasks[t] = z /\ \A u \in Callers \ {t} : tasks[u] = task[u]
  BY <1>2
<1>7. x.node = n /\ x.off = entry[e].off + 1 /\ x.inTable = entry[e].inTable
  BY <1>3 DEF MemFiles
<1> HIDE DEF x
<1>8. entries[e] = x /\ \A f \in Entries \ {e} : entries[f] = entry[f]
  BY <1>2
<1>9. FileOf(y) = Store!Written(FileOf(node[n]), entry[e].off, b)
  <2> HIDE DEF n
  <2> QED BY <1>3, <1>4, WrittenBytes
<1>10. FilesOf(node)[n] = FileOf(node[n])
  BY <1>3 DEF FilesOf
<1> HIDE DEF y
<1>11. files = [FilesOf(node) EXCEPT ![n] = FileOf(y)]
  <2> HIDE DEF n, nodes
  <2> QED BY <1>3, EditedFiles DEF nodes
<1>12. \A f \in Entries \ {e} : (f \in Held(entries, tasks)) <=> (f \in Held(entry, task))
  <2>1. \A f \in Entries \ {e} : \A u \in Callers : (tasks[u].entry = f) <=> (task[u].entry = f)
    <3>1. ASSUME NEW f \in Entries \ {e}, NEW u \in Callers
          PROVE  (tasks[u].entry = f) <=> (task[u].entry = f)
      <4>1. CASE u = t
        <5>1. f # e /\ f # None
          BY NoneFacts
        <5> QED BY <1>5, <1>6, <4>1, <5>1
      <4>2. CASE u # t
        BY <1>6, <4>2
      <4> QED BY <4>1, <4>2
    <3> QED BY <3>1
  <2> HIDE DEF e, entries, tasks
  <2> QED BY <1>8, <2>1 DEF Held
<1> HIDE DEF e, entries, tasks, nodes, handles
<1>13. /\ \A f \in Held(entries, tasks) : entries[f].node \in Nodes
       /\ \/ handles = [old EXCEPT ![e] = HandleOf(entries[e])]
          \/ handles = [old EXCEPT ![e] = None]
  BY <1>2, <1>7, <1>8, <1>12, DropHandles DEF handles
<1> HIDE DEF files
<1>14. Leaves(files, handles)
  BY <1>1, <1>13, SettleLeaves DEF files, handles
<1>15. files = WrittenAt(e, old[e].off, b)
  BY <1>3, <1>9, <1>10, <1>11 DEF WrittenAt
<1>16. CASE handles = [old EXCEPT ![e] = None]
  <2>1. Leaves(WrittenAt(e, old[e].off, b), handles)
    BY <1>14, <1>15
  <2> QED BY <1>2, <1>3, <1>16, <2>1, StoreWrite
<1>17. CASE handles = [old EXCEPT ![e] = HandleOf(entries[e])]
  <2>1. HandleOf(entries[e]) = [file |-> n, off |-> entry[e].off + 1]
    BY <1>3, <1>7, <1>8, NoneFacts DEF HandleOf
  <2>2. [old[e] EXCEPT !.off = old[e].off + 1] = [file |-> n, off |-> entry[e].off + 1]
    BY <1>3
  <2>3. handles = [old EXCEPT ![e].off = @ + 1]
    BY <1>17, <2>1, <2>2
  <2>4. Leaves(WrittenAt(e, old[e].off, b), handles)
    BY <1>14, <1>15
  <2> QED BY <1>2, <1>3, <2>3, <2>4, StoreWrite
<1> QED BY <1>13, <1>16, <1>17

\* Fd_pwrite is a step of the store.
LEMMA pwriteStores ==
  ASSUME IInv, NEW t \in Users, NEW e \in Entries, NEW off \in 0 .. MaxSize - 1, NEW b \in Bytes,
         Fd_pwrite(t, e, off, b)
  PROVE  StoreStep
<1> DEFINE n == entry[e].node
           y == writeAt(node[n], off, b)
           nodes == [node EXCEPT ![n] = y]
           files == FilesOf(nodes)
           handles == HandlesOf(entry)
<1>1. Settle(nodes, entry, task)
  BY DEF Fd_pwrite
<1>2. e \in Held(entry, task) /\ b \in Nat
  BY UsesFacts, MemFSAssumption DEF Fd_pwrite, UsesFile
<1>3. /\ n \in Nodes /\ node[n] \in MemNodes /\ Sized(node[n]) /\ handles[e] # None
      /\ handles[e].file = n /\ node[n].name # None
  BY <1>2, StoreFacts
<1>4. FileOf(y) = Store!Written(FileOf(node[n]), off, b)
  <2> HIDE DEF n
  <2> QED BY <1>2, <1>3, WrittenBytes
<1>5. FilesOf(node)[n] = FileOf(node[n])
  BY <1>3 DEF FilesOf
<1> HIDE DEF y, n, nodes
<1>6. files = [FilesOf(node) EXCEPT ![n] = FileOf(y)]
  BY <1>3, EditedFiles DEF nodes
<1>7. \A f \in Held(entry, task) : entry[f].node \in Nodes
  BY StoreFacts
<1>8. handles = KeptHandles(entry, task)
  BY StoreFacts
<1>9. files = WrittenAt(e, off, b)
  BY <1>3, <1>4, <1>5, <1>6 DEF WrittenAt
<1> HIDE DEF files, handles
<1>10. Leaves(files, handles)
  BY <1>1, <1>7, <1>8, SettleLeaves DEF files
<1>11. Leaves(WrittenAt(e, off, b), HandlesOf(entry))
  BY <1>9, <1>10 DEF handles
<1> QED BY <1>3, <1>11, StoreWriteAt DEF handles

\* Fd_filestat_set_size is a step of the store.
LEMMA set_sizeStores ==
  ASSUME IInv, NEW t \in Users, NEW e \in Entries, NEW size \in 0 .. MaxSize,
         Fd_filestat_set_size(t, e, size)
  PROVE  StoreStep
<1> DEFINE n == entry[e].node
           y == Truncated(node[n], size)
           nodes == [node EXCEPT ![n] = y]
           files == FilesOf(nodes)
           handles == HandlesOf(entry)
           resized == [FilesOf(node) EXCEPT ![HandlesOf(entry)[e].file] =
                         Store!Resized(FilesOf(node)[HandlesOf(entry)[e].file], size)]
<1>1. Settle(nodes, entry, task)
  BY DEF Fd_filestat_set_size
<1>2. e \in Held(entry, task)
  BY UsesFacts DEF Fd_filestat_set_size, UsesFile
<1>3. /\ n \in Nodes /\ node[n] \in MemNodes /\ Sized(node[n]) /\ handles[e] # None
      /\ handles[e].file = n /\ node[n].name # None
  BY <1>2, StoreFacts
<1>4. FileOf(y) = Store!Resized(FileOf(node[n]), size)
  <2> HIDE DEF n
  <2> QED BY <1>3, ResizedBytes
<1>5. FilesOf(node)[n] = FileOf(node[n])
  BY <1>3 DEF FilesOf
<1> HIDE DEF y, n, nodes
<1>6. files = [FilesOf(node) EXCEPT ![n] = FileOf(y)]
  BY <1>3, EditedFiles DEF nodes
<1>7. \A f \in Held(entry, task) : entry[f].node \in Nodes
  BY StoreFacts
<1>8. handles = KeptHandles(entry, task)
  BY StoreFacts
<1>9. files = resized
  BY <1>3, <1>4, <1>5, <1>6
<1> HIDE DEF files, handles, resized
<1>10. Leaves(files, handles)
  BY <1>1, <1>7, <1>8, SettleLeaves DEF files
<1>11. Leaves(resized, HandlesOf(entry))
  BY <1>9, <1>10 DEF handles
<1> QED BY <1>3, <1>11, StoreTruncate DEF handles, resized

\* A page of a listing leaves the files that nobody holds any more.
LEMMA PageStores ==
  ASSUME IInv, NEW t \in Users, NEW last \in 0 .. MaxNodes + 2, NEW full \in BOOLEAN,
         Page(t, last, full)
  PROVE  StoreStep
<1> DEFINE e == task[t].entry
           idle == [task EXCEPT ![t] = Idle]
<1>1. task[t].pc = "page" /\ Settle(node, entry, idle)
  BY DEF Page
<1>2. t \in Callers /\ e \in Entries /\ e \in Held(entry, task) /\ task \in [Callers -> Tasks]
  BY <1>1, TaskFacts, InvFacts DEF InFlight, Reading
<1>3. idle[t].entry = None /\ \A u \in Callers \ {t} : idle[u] = task[u]
  BY <1>2, Idles
<1>4. \A f \in Entries \ {e} : (f \in Held(entry, idle)) <=> (f \in Held(entry, task))
  <2>1. \A f \in Entries \ {e} : \A u \in Callers : (idle[u].entry = f) <=> (task[u].entry = f)
    BY <1>3, NoneFacts
  <2> HIDE DEF e, idle
  <2> QED BY <2>1 DEF Held
<1> HIDE DEF e, idle
<1> QED BY <1>1, <1>2, <1>4, DropStores

\* The empty file system is the store with an empty file, the root.
LEMMA InitStores ==
  ASSUME Init
  PROVE  Store!Init
<1>1. ASSUME NEW n \in Nodes
      PROVE  (IF node[n] = Garbage THEN None ELSE Content(n)) \in {None, <<>>}
  <2>1. CASE node[n] = Garbage
    BY <2>1
  <2>2. CASE node[n] # Garbage
    <3>1. node[n] = memNode(Dot, TRUE)
      BY <2>2 DEF Init
    <3>2. Content(n) = SubSeq(<<>>, 1, 0)
      BY <3>1 DEF Content, memNode
    <3> QED BY <3>2
  <2> QED BY <2>1, <2>2
<1>2. \A e \in Entries : entry[e].node = None
  BY DEF Init, Closed
<1> QED BY <1>1, <1>2 DEF Store!Init

\* Every call on a path, and Fd_close, is a step of the store.
LEMMA MoveStores ==
  ASSUME IInv, NEW t \in Movers, Move(t)
  PROVE  StoreStep
<1>1. CASE \E path \in NewPaths, append \in BOOLEAN : Path_openCreates(t, path, append)
  BY <1>1, openCreatesStores
<1>2. CASE \E path \in Paths, trunc, append \in BOOLEAN : Path_open(t, path, trunc, append)
  BY <1>2, openStores
<1>3. CASE \E path \in Paths : Path_create_directory(t, path)
  BY <1>3, create_directoryStores
<1>4. CASE \E path \in Paths, dir \in BOOLEAN : LstatToRemove(t, path, dir)
  BY <1>4, StoreStutter DEF LstatToRemove
<1>5. CASE \E path \in Paths, newPath \in Paths : Path_rename(t, path, newPath)
  BY <1>5, renameStores
<1>6. CASE RemoveNode(t)
  BY <1>6, RemoveNodeStores
<1>7. CASE \E e \in Entries : Fd_close(t, e)
  BY <1>7, closeStores
<1> QED BY <1>1, <1>2, <1>3, <1>4, <1>5, <1>6, <1>7 DEF Move

\* Every call on a descriptor is a step of the store.
LEMMA UseStores ==
  ASSUME IInv, NEW t \in Users, Use(t)
  PROVE  StoreStep
<1>1. CASE \E e \in Entries : Fd_read(t, e)
  BY <1>1, readStores
<1>2. CASE \E e \in Entries : Fd_readdir(t, e)
  BY <1>2, readdirStores
<1>3. CASE \E e \in Entries, bufs \in 1 .. MaxBufs : Fd_write(t, e, bufs)
  BY <1>3, StoreStutter DEF Fd_write
<1>4. CASE \E e \in Entries, off \in 0 .. MaxSize - 1, b \in Bytes : Fd_pwrite(t, e, off, b)
  BY <1>4, pwriteStores
<1>5. CASE \E e \in Entries, n \in 0 .. MaxSize : Fd_seek(t, e, n)
  BY <1>5, seekStores
<1>6. CASE \E e \in Entries, n \in 0 .. MaxSize : Fd_filestat_set_size(t, e, n)
  BY <1>6, set_sizeStores
<1>7. CASE \E b \in Bytes : writeVec(t, b)
  BY <1>7, writeVecStores
<1>8. CASE ReadDirSeek(t)
  BY <1>8, ReadDirSeekStores
<1>9. CASE ReadDir(t)
  BY <1>9, ReadDirStores
<1>10. CASE KeepSnapshot(t)
  BY <1>10, KeepSnapshotStores
<1>11. CASE \E last \in 0 .. MaxNodes + 2, full \in BOOLEAN : Page(t, last, full)
  BY <1>11, PageStores
<1> QED BY <1>1, <1>2, <1>3, <1>4, <1>5, <1>6, <1>7, <1>8, <1>9, <1>10, <1>11 DEF Use

\* Every step is a step of the store or a stuttering step.
LEMMA StepStores ==
  ASSUME IInv, [Next]_vars
  PROVE  StoreStep
<1>1. CASE Embedder
  <2>1. CASE \E path \in HostPaths : memSplit(path) # <<>> /\ MkdirAll(path)
    BY <2>1, MkdirAllStores
  <2>2. CASE \E b \in HostBytes : WriteFile(b)
    BY <2>2, WriteFileStores
  <2> QED BY <1>1, <2>1, <2>2 DEF Embedder
<1>2. CASE \E t \in Movers : Move(t)
  BY <1>2, MoveStores
<1>3. CASE \E t \in Users : Use(t)
  BY <1>3, UseStores
<1>4. CASE UNCHANGED vars
  BY <1>4, StoreStutter DEF vars
<1> QED BY <1>1, <1>2, <1>3, <1>4 DEF Next

\* The file system implements the store: handles are files that keep their
\* content while the tree changes around them, every read and write is one step,
\* and gaps are zero.
THEOREM Refinement == Spec => ImplementsFileStore
<1>1. Init => Store!Init
  BY InitStores
<1>2. IInv /\ [Next]_vars => [Store!Next]_(Store!vars)
  BY StepStores DEF StoreStep
<1> QED BY <1>1, <1>2, TreeInvariant, PTL DEF Spec, ImplementsFileStore, Store!Spec
================================================================================
