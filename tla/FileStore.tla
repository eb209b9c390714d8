------------------------------ MODULE FileStore ------------------------------
(***************************************************************************)
(* What an in-memory file system promises of its files, names aside: a     *)
(* file is a sequence of bytes, a handle is a file and a position, every   *)
(* access is one step, what was never written reads as zero, and a file    *)
(* stays as it is for as long as a handle is open on it.                   *)
(***************************************************************************)
EXTENDS Integers, Sequences, SequencesExt

CONSTANTS Files, Handles, None, MaxSize,
          Bytes,  \* what handles write
          Given   \* what files made by name hold

VARIABLES content,  \* each file's bytes; None: no such file
          handle    \* each handle's file and position; None: closed

vars == <<content, handle>>

Max2(a, b) == IF a > b THEN a ELSE b

\* The first n bytes of s, zeros beyond its end.
Resized(s, n) == [i \in 1 .. n |-> IF i <= Len(s) THEN s[i] ELSE 0]

Written(s, off, b) ==
    [i \in 1 .. Max2(Len(s), off + 1) |->
        IF i = off + 1 THEN b ELSE IF i <= Len(s) THEN s[i] ELSE 0]

Init == /\ content \in [Files -> {None, <<>>}]
        /\ handle = [h \in Handles |-> None]

\* Files no handle is open on may go at any step.
Becomes(files, handles) ==
    \E gone \in SUBSET {f \in Files : \A h \in Handles :
                            handles[h] # None => handles[h].file # f} :
        /\ content' = [f \in Files |-> IF f \in gone THEN None ELSE files[f]]
        /\ handle' = handles

\* A file that is there, from its start or its end, or an empty one.
Open(h) ==
    /\ handle[h] = None
    /\ \E f \in Files :
          \/ /\ content[f] # None
             /\ \E off \in {0, Len(content[f])} :
                   Becomes(content, [handle EXCEPT ![h] = [file |-> f, off |-> off]])
          \/ Becomes([content EXCEPT ![f] = <<>>],
                     [handle EXCEPT ![h] = [file |-> f, off |-> 0]])

Close(h) == Becomes(content, [handle EXCEPT ![h] = None])

Read(h) ==
    /\ handle[h] # None
    /\ handle[h].off < Len(content[handle[h].file])
    /\ Becomes(content, [handle EXCEPT ![h].off = @ + 1])

\* A write that was under way when its handle was closed is the last use of it.
Write(h, b) ==
    /\ handle[h] # None
    /\ LET f     == handle[h].file
           files == [content EXCEPT ![f] = Written(content[f], handle[h].off, b)]
       IN  \/ Becomes(files, [handle EXCEPT ![h].off = @ + 1])
           \/ Becomes(files, [handle EXCEPT ![h] = None])

WriteAt(h, off, b) ==
    /\ handle[h] # None
    /\ LET f == handle[h].file
       IN  Becomes([content EXCEPT ![f] = Written(content[f], off, b)], handle)

Seek(h, off) ==
    /\ handle[h] # None
    /\ Becomes(content, [handle EXCEPT ![h].off = off])

Truncate(h, n) ==
    /\ handle[h] # None
    /\ LET f == handle[h].file
       IN  Becomes([content EXCEPT ![f] = Resized(content[f], n)], handle)

\* Files made by name: directories, and files the embedder writes.
Make == \E new \in SUBSET {f \in Files : content[f] = None} :
            \E made \in [new -> {<<>>} \cup {<<b>> : b \in Given}] :
                Becomes([f \in Files |-> IF f \in new THEN made[f] ELSE content[f]], handle)

Next == \/ Make
        \/ \E h \in Handles :
              \/ Open(h) \/ Close(h) \/ Read(h)
              \/ \E b \in Bytes : Write(h, b)
              \/ \E b \in Bytes, off \in 0 .. MaxSize - 1 : WriteAt(h, off, b)
              \/ \E n \in 0 .. MaxSize : Seek(h, n) \/ Truncate(h, n)

Spec == Init /\ [][Next]_vars
=============================================================================
