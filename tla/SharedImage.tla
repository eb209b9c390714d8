----------------------------- MODULE SharedImage -----------------------------
(***************************************************************************)
(* Shared, copy-on-write linear memory: an image is built once, by copying *)
(* a built instance or in place on a shared mapping of the image file, and *)
(* every instance maps it privately, at a length of its caller's choice    *)
(* (src/internal/codegen/sharedimage/*.go.txt).                            *)
(*                                                                         *)
(* The file system is the operating system's: a file has a size, truncating *)
(* it drops the pages above, also those a private mapping had copied, and  *)
(* a page of a mapping above the end of the file faults.  The unit is a    *)
(* page; nothing of the build is visible before the image is returned, so  *)
(* the build is only split where the built instance writes.                *)
(***************************************************************************)
EXTENDS Integers

CONSTANTS
  Callers,     \* goroutines that call SharedImage.Memory
  None,        \* no private copy of a page
  Values,      \* what a page can hold
  Size,        \* memory.size of the built instance, in pages
  DataEnd,     \* where its data segments stop
  BuildCeiling,\* the length of the in-place builder's mapping
  Ceilings,    \* the lengths the callers ask for
  MaxLength,   \* bound: the longest of them, and of the builder's mapping
  OneCeiling   \* TRUE: calls of Memory that overlap ask for one length

Pages == 0..MaxLength - 1

ASSUME SharedImageAssumption ==
  /\ 0 < DataEnd /\ DataEnd <= Size /\ Size <= BuildCeiling
  /\ {DataEnd, Size, BuildCeiling, MaxLength} \subseteq Nat
  /\ BuildCeiling <= MaxLength
  /\ \A n \in Ceilings : n \in Nat /\ Size <= n /\ n <= MaxLength
  /\ 0 \in Values /\ None \notin Values
  /\ OneCeiling \in BOOLEAN

VARIABLES
  inPlace,   \* built by buildSharedImageInPlace, or by buildSharedImage
  snapshot,  \* the image keeps the whole instance, or its data segments
  built,     \* the linear memory of the instance being built
  ready,     \* the image has been returned to its callers
  fileSize,  \* the size of the image file
  file,      \* its pages
  pc,        \* where each caller of Memory is
  ceiling,   \* the length it asked for
  seen,      \* the file size its Stat returned
  priv       \* the private copies its mapping holds

vars == <<inPlace, snapshot, built, ready, fileSize, file, pc, ceiling, seen,
          priv>>

build == <<inPlace, snapshot, built, ready>>

Blank   == [p \in Pages |-> 0]
Nothing == [p \in Pages |-> None]

Init ==
  /\ inPlace \in BOOLEAN
  /\ snapshot \in BOOLEAN
  /\ built = Blank
  /\ ready = FALSE
  /\ fileSize = 0
  /\ file = Blank
  /\ pc = [c \in Callers |-> "idle"]
  /\ ceiling = [c \in Callers |-> 0]
  /\ seen = [c \in Callers |-> 0]
  /\ priv = [c \in Callers |-> Nothing]

-----------------------------------------------------------------------------
(* The build                                                                *)

\* The builder's instance installs its segments and runs.
BuilderWrites ==
  /\ ~ready
  /\ \E p \in 0..Size - 1, v \in Values : built' = [built EXCEPT ![p] = v]
  /\ UNCHANGED <<inPlace, snapshot, ready, fileSize, file, pc, ceiling, seen,
                 priv>>

\* How much of the built instance the image keeps.
Keep == IF snapshot THEN Size ELSE DataEnd

\* Mutant: the file is not truncated to the segments.
PublishUntrimmed ==
  /\ ~ready
  /\ ready' = TRUE
  /\ file' = built
  /\ fileSize' = IF inPlace THEN BuildCeiling ELSE Size
  /\ UNCHANGED <<inPlace, snapshot, built, pc, ceiling, seen, priv>>

\* Copied into the file, or truncated to the segments and extended again.
Publish ==
  /\ ~ready
  /\ ready' = TRUE
  /\ file' = [p \in Pages |-> IF p < Keep THEN built[p] ELSE 0]
  /\ fileSize' = IF inPlace THEN BuildCeiling ELSE Size
  /\ UNCHANGED <<inPlace, snapshot, built, pc, ceiling, seen, priv>>

-----------------------------------------------------------------------------
(* SharedImage.Memory and mmapImage                                         *)

InMemory == {"stat", "truncate", "mmap"}

MemoryCall(c, n) ==
  /\ ready
  /\ pc[c] = "idle"
  /\ OneCeiling => \A d \in Callers : pc[d] \in InMemory => ceiling[d] = n
  /\ pc' = [pc EXCEPT ![c] = "stat"]
  /\ ceiling' = [ceiling EXCEPT ![c] = n]
  /\ UNCHANGED <<build, fileSize, file, seen, priv>>

\* Mutant: a file one page short counts as long enough.
StatFileByOne(c) ==
  /\ pc[c] = "stat"
  /\ seen' = [seen EXCEPT ![c] = fileSize]
  /\ pc' = [pc EXCEPT ![c] = IF fileSize + 1 < ceiling[c] THEN "truncate"
                             ELSE "mmap"]
  /\ UNCHANGED <<build, fileSize, file, ceiling, priv>>

StatFile(c) ==
  /\ pc[c] = "stat"
  /\ seen' = [seen EXCEPT ![c] = fileSize]
  /\ pc' = [pc EXCEPT ![c] = IF fileSize < ceiling[c] THEN "truncate"
                             ELSE "mmap"]
  /\ UNCHANGED <<build, fileSize, file, ceiling, priv>>

\* Mutant: the file is extended by the ceiling, not to it.
TruncateFileBy(c) ==
  /\ pc[c] = "truncate"
  /\ fileSize' = fileSize + ceiling[c]
  /\ pc' = [pc EXCEPT ![c] = "mmap"]
  /\ UNCHANGED <<build, file, ceiling, seen, priv>>

\* f.Truncate(ceiling), on what Stat said; it may shrink the file by now.
TruncateFile(c) ==
  /\ pc[c] = "truncate"
  /\ fileSize' = ceiling[c]
  /\ file' = [p \in Pages |-> IF p < ceiling[c] THEN file[p] ELSE 0]
  /\ priv' = [d \in Callers |->
               [p \in Pages |-> IF p < ceiling[c] THEN priv[d][p] ELSE None]]
  /\ pc' = [pc EXCEPT ![c] = "mmap"]
  /\ UNCHANGED <<build, ceiling, seen>>

Mmap(c) ==
  /\ pc[c] = "mmap"
  /\ pc' = [pc EXCEPT ![c] = "mapped"]
  /\ UNCHANGED <<build, fileSize, file, ceiling, seen, priv>>

\* Mutant: the mapping is MAP_SHARED.
InstanceWritesShared(c) ==
  /\ pc[c] = "mapped"
  /\ \E p \in 0..ceiling[c] - 1, v \in Values :
       /\ p < fileSize
       /\ file' = [file EXCEPT ![p] = v]
  /\ UNCHANGED <<build, fileSize, pc, ceiling, seen, priv>>

\* The instance writes a page of its mapping: a private copy, on first touch.
InstanceWrites(c) ==
  /\ pc[c] = "mapped"
  /\ \E p \in 0..ceiling[c] - 1, v \in Values :
       /\ p < fileSize
       /\ priv' = [priv EXCEPT ![c][p] = v]
  /\ UNCHANGED <<build, fileSize, file, pc, ceiling, seen>>

Unmap(c) ==
  /\ pc[c] = "mapped"
  /\ pc' = [pc EXCEPT ![c] = "idle"]
  /\ ceiling' = [ceiling EXCEPT ![c] = 0]
  /\ seen' = [seen EXCEPT ![c] = 0]
  /\ priv' = [priv EXCEPT ![c] = Nothing]
  /\ UNCHANGED <<build, fileSize, file>>

Next ==
  \/ BuilderWrites
  \/ Publish
  \/ \E c \in Callers, n \in Ceilings : MemoryCall(c, n)
  \/ \E c \in Callers : StatFile(c)
  \/ \E c \in Callers : TruncateFile(c)
  \/ \E c \in Callers : Mmap(c)
  \/ \E c \in Callers : InstanceWrites(c)
  \/ \E c \in Callers : Unmap(c)

Spec == Init /\ [][Next]_vars

-----------------------------------------------------------------------------
\* Every variable has its type.
TypeOK ==
  /\ {inPlace, snapshot, ready} \subseteq BOOLEAN
  /\ built \in [Pages -> Values] /\ file \in [Pages -> Values]
  /\ fileSize \in 0..MaxLength
  /\ pc \in [Callers -> {"idle", "stat", "truncate", "mmap", "mapped"}]
  /\ ceiling \in [Callers -> Ceilings \cup {0}]
  /\ seen \in [Callers -> 0..MaxLength]
  /\ priv \in [Callers -> [Pages -> Values \cup {None}]]

\* Every page an instance has mapped has a file behind it, so touching it cannot
\* fault (the comments on Memory, "ceiling bytes long", and on mmapImage, "the
\* whole range is mappable").
MappedIsBacked ==
  \A c \in Callers : pc[c] = "mapped" => ceiling[c] <= fileSize

\* What an instance reads in a page.
Content(c, p) == IF priv[c][p] = None THEN file[p] ELSE priv[c][p]

\* What an instance reads changes only by its own writes: not by another's, not
\* by another's Memory call (mmapImage: MAP_PRIVATE).
OwnWritesOnly ==
  [][\A c \in Callers : pc[c] = "mapped" /\ pc'[c] = "mapped" =>
       \A p \in 0..ceiling[c] - 1 :
         Content(c, p)' # Content(c, p) => priv'[c][p] # None]_vars

\* A data-segment image carries nothing above the segments, and no image
\* anything above the size: the start section runs again on zero BSS, and a
\* freshly grown page is zero (the comments in buildSharedImage and mmapImage).
NothingAboveKept ==
  ready => \A p \in Pages : p >= Keep => file[p] = 0
=============================================================================
