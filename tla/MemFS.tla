-------------------------------- MODULE MemFS --------------------------------
(***************************************************************************)
(* The in-memory file system (MemFS, wasip1_native.go) under the WASI      *)
(* calls of several guest threads and under the embedder that fills it.    *)
(* Each method holds fsys.mu once; a WASI call may take it several times   *)
(* (Path_unlink_file: Lstat, then Remove; Fd_write: once per buffer;       *)
(* Fd_readdir: Seek, then ReadDir), so calls interleave between them.      *)
(*                                                                         *)
(* A node is garbage once neither the tree nor an open file nor a          *)
(* directory snapshot reaches it; its identity may then be used again.     *)
(* Modes and times are left out, a buffer holds one byte, and a call that  *)
(* is refused before it changes anything is a stuttering step.             *)
(***************************************************************************)
EXTENDS Integers, Sequences, FiniteSets, SequencesExt, FiniteSetsExt, Functions

CONSTANTS
    Movers,    \* guest threads that open and close files and change the tree
    Users,     \* guest threads that read, write and list what is open
    Host,      \* the embedder
    Names,     \* file names: numbers, in the order of sort.Strings
    Paths,     \* what the guest passes as paths: sequences of names, Dot and DotDot
    NewPaths,  \* those the guest opens with O_CREAT
    HostPaths, \* what the embedder passes to WriteFile
    MaxNodes,  \* bound on the nodes alive at once
    Entries,   \* identities of table entries
    Bytes,     \* what the guest writes
    HostBytes, \* what the embedder writes
    MaxSize,   \* bound on the size of a file
    MaxBufs,   \* the longest iovec of a write
    None,      \* nil
    Rewinds,   \* TRUE: a guest may list a directory again through the same fd
    Careless   \* TRUE: rename and WriteFile may take a directory's place,
               \* rename may move a directory below itself

Dot    == 0
DotDot == -1

Nodes == 1 .. MaxNodes
Root  == 1
Threads == Movers \cup Users

ASSUME MemFSAssumption ==
    /\ Names \subseteq Nat \ {0} /\ Bytes \cup HostBytes \subseteq Nat
    /\ {MaxNodes, MaxSize, MaxBufs} \subseteq Nat \ {0}
    /\ Paths \cup NewPaths \cup HostPaths \subseteq Seq(Names \cup {Dot, DotDot})
    /\ None \notin Entries \cup Nat \cup Seq(Int) \cup [file : Nat, off : Nat]
    /\ Host \notin Threads
    /\ {Rewinds, Careless} \subseteq BOOLEAN

VARIABLES
    node,   \* memNode: name, dir, children, and data as an array and a length
    entry,  \* memFile and wasiOpen: node, off, dirOff, dirCache, in the fd table or not
    task,   \* the call each thread has in flight
    walk    \* how far each thread has read a directory, and what it saw

vars == <<node, entry, task, walk>>

Callers == Threads \cup {Host}

memNode(name, dir) == [name |-> name, dir |-> dir, children |-> <<>>,
                       data |-> <<>>, len |-> 0]
Garbage == [name |-> None, dir |-> FALSE, children |-> <<>>, data |-> <<>>, len |-> 0]
Closed  == [node |-> None, off |-> 0, dirOff |-> 0, cache |-> None, listed |-> FALSE,
            inTable |-> FALSE]
Idle    == [pc |-> "idle", entry |-> None, path |-> <<>>, left |-> 0, entries |-> <<>>]
NoWalk  == [entry |-> None, cookie |-> 0, seen |-> <<>>, there |-> {}, over |-> FALSE]

Init == /\ node = [n \in Nodes |-> IF n = Root THEN memNode(Dot, TRUE) ELSE Garbage]
        /\ entry = [e \in Entries |-> Closed]
        /\ task = [t \in Callers |-> Idle]
        /\ walk = [t \in Threads |-> NoWalk]

---------------------------------------------------------------------------
(* Paths and the tree.                                                     *)

Joined(out, part) ==
    IF part = Dot \/ (part = DotDot /\ out = <<>>) THEN out
    ELSE IF part = DotDot THEN Front(out)
    ELSE Append(out, part)

\* memSplit: "." stands for nothing, ".." for the parent, by text alone.
memSplit(path) ==
    LET out[i \in 0 .. Len(path)] ==
            IF i = 0 THEN <<>> ELSE Joined(out[i - 1], path[i])
    IN  out[Len(path)]

Child(n, part) ==
    IF n # None /\ node[n].dir /\ part \in DOMAIN node[n].children
    THEN node[n].children[part] ELSE None

Walked(parts) ==
    LET at[i \in 0 .. Len(parts)] == IF i = 0 THEN Root ELSE Child(at[i - 1], parts[i])
    IN  at[Len(parts)]

lookup(path) == Walked(memSplit(path))

\* The parent directory; None also for the root itself.
lookupParent(path) ==
    LET parts == memSplit(path)
        n     == IF parts = <<>> THEN None ELSE Walked(Front(parts))
    IN  IF n # None /\ node[n].dir THEN n ELSE None

Base(path) == Last(memSplit(path))

Without(children, name) == [x \in DOMAIN children \ {name} |-> children[x]]
With(children, name, n) == [x \in DOMAIN children \cup {name} |->
                               IF x = name THEN n ELSE children[x]]

HoldsChildren(nodes, S) == \A n \in S : Range(nodes[n].children) \subseteq S

\* What is reached from a set of nodes: what no set can do without that holds
\* them and the children of its own.
Reach(nodes, from) ==
    {n \in Nodes : \A S \in SUBSET Nodes : from \subseteq S /\ HoldsChildren(nodes, S) => n \in S}

Held(entries, tasks) ==
    {e \in Entries : entries[e].inTable \/ \E t \in Callers : tasks[t].entry = e}

\* The nodes that the tree, an open file or a snapshot of a directory reaches.
Kept(nodes, entries, tasks) ==
    LET held  == Held(entries, tasks)
        snaps == UNION ({Range(entries[e].cache) : e \in {x \in held : entries[x].cache # None}}
                          \cup {Range(tasks[t].entries) : t \in Callers})
    IN  Reach(nodes, {Root} \cup {entries[e].node : e \in held} \cup (snaps \cap Nodes))

\* The garbage collector: what nothing holds is gone.
Settle(nodes, entries, tasks) ==
    LET kept == Kept(nodes, entries, tasks)
        held == Held(entries, tasks)
    IN  /\ node' = [n \in Nodes |-> IF n \in kept THEN nodes[n] ELSE Garbage]
        /\ entry' = [e \in Entries |-> IF e \in held THEN entries[e] ELSE Closed]
        /\ task' = tasks

Fresh == {n \in Nodes : node[n] = Garbage}
NewNode == CHOOSE n \in Fresh : TRUE

Put(nodes, parent, name, n) ==
    [nodes EXCEPT ![parent].children = With(@, name, n)]

---------------------------------------------------------------------------
(* File contents: data is a slice of an array that may be longer.          *)

Content(n) == SubSeq(node[n].data, 1, node[n].len)

Zeros(k) == [i \in 1 .. k |-> 0]

\* Mutant: what the array still holds beyond the length comes back.
GrownInPlace(x, size) ==
    [x EXCEPT !.data = x.data \o Zeros(size - Len(x.data)), !.len = size]

\* make and copy.
Grown(x, size) == [x EXCEPT !.data = SubSeq(x.data, 1, x.len) \o Zeros(size - x.len),
                            !.len = size]

writeAt(x, off, b) ==
    LET y == IF off + 1 > x.len THEN Grown(x, off + 1) ELSE x
    IN  [y EXCEPT !.data[off + 1] = b]

Truncated(x, size) == IF size <= x.len THEN [x EXCEPT !.len = size] ELSE Grown(x, size)

---------------------------------------------------------------------------
(* Calls on paths.                                                         *)

Calls(t) == task[t].pc = "idle"

Opened(n, off) == [Closed EXCEPT !.node = n, !.off = off, !.inTable = TRUE]

Registered(e, nodes, n, append) ==
    Settle(nodes, [entry EXCEPT ![e] = Opened(n, IF append THEN nodes[n].len ELSE 0)], task)

Free(e) == e \notin Held(entry, task)

\* Path_open of something that is not there yet.
Path_openCreates(t, path, append) ==
    /\ Calls(t)
    /\ lookup(path) = None /\ lookupParent(path) # None /\ Fresh # {}
    /\ \E e \in Entries :
          /\ Free(e)
          /\ Registered(e, [Put(node, lookupParent(path), Base(path), NewNode)
                               EXCEPT ![NewNode] = memNode(Base(path), FALSE)], NewNode, append)
    /\ UNCHANGED walk

Path_open(t, path, trunc, append) ==
    /\ Calls(t)
    /\ lookup(path) # None
    /\ \E e \in Entries :
          /\ Free(e)
          /\ LET n == lookup(path)
             IN  Registered(e, IF trunc /\ ~node[n].dir THEN [node EXCEPT ![n].len = 0] ELSE node,
                            n, append)
    /\ UNCHANGED walk

Path_create_directory(t, path) ==
    /\ Calls(t)
    /\ lookupParent(path) # None /\ Child(lookupParent(path), Base(path)) = None /\ Fresh # {}
    /\ Settle([Put(node, lookupParent(path), Base(path), NewNode)
                  EXCEPT ![NewNode] = memNode(Base(path), TRUE)], entry, task)
    /\ UNCHANGED walk

\* Path_unlink_file and Path_remove_directory look before they take the lock
\* again to remove.
LstatToRemove(t, path, dir) ==
    /\ Calls(t)
    /\ lookup(path) # None /\ node[lookup(path)].dir = dir
    /\ task' = [task EXCEPT ![t] = [Idle EXCEPT !.pc = "remove", !.path = path]]
    /\ UNCHANGED <<node, entry, walk>>

\* Mutant: a directory goes with what is in it.
RemovableAny(n) == n # None

Removable(n) == n # None /\ ~(node[n].dir /\ node[n].children # <<>>)

RemoveNode(t) ==
    /\ task[t].pc = "remove"
    /\ LET path == task[t].path
           p    == lookupParent(path)
       IN  IF p # None /\ Removable(Child(p, Base(path)))
           THEN Settle([node EXCEPT ![p].children = Without(@, Base(path))], entry,
                       [task EXCEPT ![t] = Idle])
           ELSE task' = [task EXCEPT ![t] = Idle] /\ UNCHANGED <<node, entry>>
    /\ UNCHANGED walk

\* Mutant: the node keeps its old name.
MovedOnly(p, old, q, new) ==
    Put([node EXCEPT ![p].children = Without(@, old)], q, new, node[p].children[old])

\* The tree after Rename's two assignments.
Moved(p, old, q, new) ==
    LET n == node[p].children[old]
        taken == [node EXCEPT ![p].children = Without(@, old), ![n].name = new]
    IN  Put(taken, q, new, n)

\* POSIX refuses these renames, MemFS does not.
Harmful(p, old, q, new) ==
    \/ q \in Reach(node, {Child(p, old)})
    \/ Child(q, new) # None /\ node[Child(q, new)].children # <<>>

Path_rename(t, oldPath, newPath) ==
    /\ Calls(t)
    /\ LET p == lookupParent(oldPath)
           q == lookupParent(newPath)
       IN  /\ p # None /\ q # None
           /\ Child(p, Base(oldPath)) # None
           /\ Harmful(p, Base(oldPath), q, Base(newPath)) => Careless
           /\ Settle(Moved(p, Base(oldPath), q, Base(newPath)), entry, task)
    /\ UNCHANGED walk

---------------------------------------------------------------------------
(* The embedder: WriteFile is MkdirAll and then, under the lock again, a   *)
(* new node.                                                               *)

\* MkdirAll below the root, for one directory: deeper ones are calls of it.
MkdirAll(path) ==
    /\ Calls(Host)
    /\ LET part == Head(memSplit(path))
           busy == [task EXCEPT ![Host] = [Idle EXCEPT !.pc = "write", !.path = path]]
       IN  IF Len(memSplit(path)) = 1 \/ Child(Root, part) # None
           THEN /\ Len(memSplit(path)) > 1 => node[Child(Root, part)].dir
                /\ task' = busy /\ UNCHANGED <<node, entry>>
           ELSE /\ Fresh # {}
                /\ Settle([Put(node, Root, part, NewNode) EXCEPT ![NewNode] = memNode(part, TRUE)],
                          entry, busy)
    /\ UNCHANGED walk

WriteFile(b) ==
    /\ task[Host].pc = "write"
    /\ LET path == task[Host].path
           p    == lookupParent(path)
           done == [task EXCEPT ![Host] = Idle]
       IN  IF p = None
           THEN task' = done /\ UNCHANGED <<node, entry>>
           ELSE /\ Fresh # {}
                /\ Child(p, Base(path)) # None /\ node[Child(p, Base(path))].children # <<>>
                      => Careless
                /\ Settle([Put(node, p, Base(path), NewNode)
                              EXCEPT ![NewNode] = [memNode(Base(path), FALSE)
                                                      EXCEPT !.data = <<b>>, !.len = 1]],
                          entry, done)
    /\ UNCHANGED walk

---------------------------------------------------------------------------
(* Calls on descriptors.                                                   *)

Uses(t, e) == Calls(t) /\ entry[e].inTable

\* The guest reads, writes and seeks files (a memFile would also write to a
\* directory's node).
UsesFile(t, e) == Uses(t, e) /\ ~node[entry[e].node].dir

Fd_close(t, e) ==
    /\ Uses(t, e)
    /\ Settle(node, [entry EXCEPT ![e].inTable = FALSE], task)
    /\ walk' = [u \in Threads |-> IF walk[u].entry = e THEN NoWalk ELSE walk[u]]

Fd_read(t, e) ==
    /\ UsesFile(t, e)
    /\ entry[e].off < node[entry[e].node].len
    /\ entry' = [entry EXCEPT ![e].off = @ + 1]
    /\ UNCHANGED <<node, task, walk>>

\* The entry is looked up once, then every buffer is a Write of its own.
Fd_write(t, e, bufs) ==
    /\ UsesFile(t, e)
    /\ task' = [task EXCEPT ![t] = [Idle EXCEPT !.pc = "writev", !.entry = e, !.left = bufs]]
    /\ UNCHANGED <<node, entry, walk>>

writeVec(t, b) ==
    /\ task[t].pc = "writev"
    /\ LET e == task[t].entry
           n == entry[e].node
       IN  /\ entry[e].off < MaxSize
           /\ Settle([node EXCEPT ![n] = writeAt(node[n], entry[e].off, b)],
                     [entry EXCEPT ![e].off = @ + 1],
                     [task EXCEPT ![t] = IF @.left = 1 THEN Idle
                                                     ELSE [task[t] EXCEPT !.left = @ - 1]])
    /\ UNCHANGED walk

Fd_pwrite(t, e, off, b) ==
    /\ UsesFile(t, e)
    /\ LET n == entry[e].node
       IN  Settle([node EXCEPT ![n] = writeAt(node[n], off, b)], entry, task)
    /\ UNCHANGED walk

Fd_seek(t, e, off) ==
    /\ UsesFile(t, e)
    /\ entry' = [entry EXCEPT ![e].off = off]
    /\ UNCHANGED <<node, task, walk>>

\* Fd_filestat_set_size, and Fd_allocate with offset + length as the size.
Fd_filestat_set_size(t, e, size) ==
    /\ UsesFile(t, e)
    /\ LET n == entry[e].node
       IN  Settle([node EXCEPT ![n] = Truncated(node[n], size)], entry, task)
    /\ UNCHANGED walk

---------------------------------------------------------------------------
(* Fd_readdir: pages of a snapshot the entry keeps (dirCache).             *)

\* Cookie 0 drops the snapshot.
Dropped(e) == IF e.cookie = 0 THEN None ELSE entry[e.entry].cache

Fd_readdir(t, e) ==
    /\ Uses(t, e)
    /\ node[entry[e].node].dir
    /\ \A u \in Threads \ {t} : walk[u].entry # e
    /\ walk[t].entry \in {None, e}
    /\ LET w == IF walk[t].entry = None \/ walk[t].over THEN [NoWalk EXCEPT !.entry = e]
                ELSE walk[t]
           cache == Dropped(w)
       IN  /\ w.cookie = 0 /\ entry[e].listed => Rewinds
           /\ walk' = [walk EXCEPT ![t] = w]
           /\ entry' = [entry EXCEPT ![e].cache = cache, ![e].listed = TRUE]
           /\ task' = [task EXCEPT ![t] =
                          IF cache # None
                          THEN [Idle EXCEPT !.pc = "page", !.entry = e, !.entries = cache]
                          ELSE [Idle EXCEPT !.pc = "seek", !.entry = e]]
    /\ UNCHANGED node

\* memFile.Seek moves off, not dirOff.
ReadDirSeek(t) ==
    /\ task[t].pc = "seek"
    /\ entry' = [entry EXCEPT ![task[t].entry].off = 0]
    /\ task' = [task EXCEPT ![t].pc = "readdir"]
    /\ UNCHANGED <<node, walk>>

\* The i-th of a set of names, as sort.Strings leaves them.
Nth(names, i) == CHOOSE x \in names : Cardinality({y \in names : y <= x}) = i

\* The children in the order of their names, from dirOff on.
Listing(n, dirOff) ==
    LET children == node[n].children
    IN  [i \in 1 .. Cardinality(DOMAIN children) - dirOff |->
            children[Nth(DOMAIN children, dirOff + i)]]

ReadDir(t) ==
    /\ task[t].pc = "readdir"
    /\ LET e == task[t].entry
           n == entry[e].node
       IN  /\ task' = [task EXCEPT ![t].pc = "keep",
                                   ![t].entries = <<Dot, DotDot>> \o Listing(n, entry[e].dirOff)]
           /\ entry' = [entry EXCEPT ![e].dirOff = Max({@, Cardinality(DOMAIN node[n].children)})]
           /\ walk' = [walk EXCEPT ![t].there = IF walk[t].entry = e
                                                THEN Range(node[n].children) ELSE @]
    /\ UNCHANGED node

KeepSnapshot(t) ==
    /\ task[t].pc = "keep"
    /\ entry' = [entry EXCEPT ![task[t].entry].cache = task[t].entries]
    /\ task' = [task EXCEPT ![t].pc = "page"]
    /\ UNCHANGED <<node, walk>>

\* Mutant: the cookie names the record itself.
NextCookieSame(i) == IF i = 1 THEN 1 ELSE i - 1

\* The cookie of the record at position i (d_next).
NextCookie(i) == i

\* The guest's buffer takes the records up to last, and is full (bufused =
\* buflen: call again with the last cookie) or not.
Page(t, last, full) ==
    /\ task[t].pc = "page"
    /\ LET w == walk[t]
           entries == task[t].entries
       IN  /\ last \in w.cookie .. Len(entries)
           /\ last = w.cookie => last = Len(entries)
           /\ last < Len(entries) => full
           /\ walk' = IF w.entry = None THEN walk
                      ELSE [walk EXCEPT ![t] =
                               [w EXCEPT !.seen = @ \o SubSeq(entries, w.cookie + 1, last),
                                         !.cookie = IF last = w.cookie THEN @
                                                    ELSE NextCookie(last),
                                         !.over = ~full]]
    /\ Settle(node, entry, [task EXCEPT ![t] = Idle])

---------------------------------------------------------------------------
Move(t) ==
    \/ \E path \in NewPaths, append \in BOOLEAN : Path_openCreates(t, path, append)
    \/ \E path \in Paths :
          \/ \E trunc, append \in BOOLEAN : Path_open(t, path, trunc, append)
          \/ Path_create_directory(t, path)
          \/ \E dir \in BOOLEAN : LstatToRemove(t, path, dir)
          \/ \E newPath \in Paths : Path_rename(t, path, newPath)
    \/ RemoveNode(t)
    \/ \E e \in Entries : Fd_close(t, e)

Use(t) ==
    \/ \E e \in Entries :
          \/ Fd_read(t, e) \/ Fd_readdir(t, e)
          \/ \E bufs \in 1 .. MaxBufs : Fd_write(t, e, bufs)
          \/ \E off \in 0 .. MaxSize - 1, b \in Bytes : Fd_pwrite(t, e, off, b)
          \/ \E n \in 0 .. MaxSize : Fd_seek(t, e, n) \/ Fd_filestat_set_size(t, e, n)
    \/ \E b \in Bytes : writeVec(t, b)
    \/ ReadDirSeek(t) \/ ReadDir(t) \/ KeepSnapshot(t)
    \/ \E last \in 0 .. MaxNodes + 2, full \in BOOLEAN : Page(t, last, full)

Embedder == \/ \E path \in HostPaths : memSplit(path) # <<>> /\ MkdirAll(path)
            \/ \E b \in HostBytes : WriteFile(b)

Next == \/ Embedder
        \/ \E t \in Movers : Move(t)
        \/ \E t \in Users : Use(t)

Spec == Init /\ [][Next]_vars

---------------------------------------------------------------------------
(* Properties.                                                             *)

Live == {n \in Nodes : node[n] # Garbage}

\* The variables have their types, and the nodes form a tree: a node is the
\* child of one directory at most, under the name it carries, and what has a
\* place has a path from the root (Rename edits two maps and a name; the
\* listings print the name).
TypeOK ==
    /\ \A n \in Live : /\ node[n].len \in 0 .. Len(node[n].data)
                       /\ DOMAIN node[n].children \subseteq Names
                       /\ ~node[n].dir => node[n].children = <<>>
    /\ \A n \in Live : \A x \in DOMAIN node[n].children :
          /\ node[n].children[x] \in Live \ {Root}
          /\ node[node[n].children[x]].name = x
          /\ node[n].children[x] \in Reach(node, {Root})
          /\ \A m \in Live \ {n} : node[n].children[x] \notin Range(node[m].children)
    /\ \A e \in Entries : /\ entry[e].node \in Live \cup {None}
                          /\ entry[e].off \in 0 .. MaxSize
    /\ \A t \in Threads : walk[t].cookie \in 0 .. MaxNodes + 2

\* Whatever the calls and their order, what leaves the tree is one node with
\* nothing in it: no step makes a file unreachable that it does not name
\* (Remove refuses a directory that is not empty, also when it was filled after
\* the Lstat of Path_remove_directory).
NothingLost ==
    [][LET lost == Reach(node, {Root}) \ Reach(node', {Root})
       IN  Cardinality(lost) <= 1 /\ \A n \in lost : node[n].children = <<>>]_vars

\* A directory read page by page lists what was in it when the snapshot was
\* taken, each once, whatever is created, renamed or removed meanwhile: "paged
\* reads (cookie-driven) walk the same snapshot"; after a rewind, "a fresh
\* Readdir picks up entries created or removed since the previous call".
WalkListsSnapshot ==
    \A t \in Threads : walk[t].over =>
        /\ Range(walk[t].seen) = {Dot, DotDot} \cup walk[t].there
        /\ IsInjective(walk[t].seen)

\* Handles are files that keep their content while the tree changes around
\* them; every read and write is one step and gaps are zero.
Store == INSTANCE FileStore WITH
    Files <- Nodes, Handles <- Entries, Given <- HostBytes,
    content <- [n \in Nodes |-> IF node[n] = Garbage THEN None ELSE Content(n)],
    handle <- [e \in Entries |-> IF entry[e].node = None THEN None
                                 ELSE [file |-> entry[e].node, off |-> entry[e].off]]

ImplementsFileStore == Store!Spec
=============================================================================
