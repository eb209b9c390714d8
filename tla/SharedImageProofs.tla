-------------------------- MODULE SharedImageProofs --------------------------
(***************************************************************************)
(* Shared images, for any number of callers, any sizes and any page        *)
(* values.  That every mapped page has a file behind it rests on the calls *)
(* of Memory that overlap asking for one length.                           *)
(***************************************************************************)
EXTENDS SharedImage, TLAPS

Typed ==
  /\ inPlace \in BOOLEAN /\ snapshot \in BOOLEAN /\ ready \in BOOLEAN
  /\ built \in [Pages -> Values] /\ file \in [Pages -> Values]
  /\ fileSize \in 0..MaxLength
  /\ pc \in [Callers -> {"idle", "stat", "truncate", "mmap", "mapped"}]
  /\ ceiling \in [Callers -> Ceilings \cup {0}]
  /\ seen \in [Callers -> 0..MaxLength]
  /\ priv \in [Callers -> [Pages -> Values \cup {None}]]

\* A caller inside Memory has asked for a length.
Asked == \A c \in Callers : pc[c] # "idle" => ceiling[c] \in Ceilings

\* The callers inside Memory ask for one length, the file is short while one of
\* them is about to extend it, and long enough once one maps it.
LengthsAgree ==
  /\ \A c, d \in Callers :
       pc[c] \in InMemory /\ pc[d] \in InMemory => ceiling[c] = ceiling[d]
  /\ \A c \in Callers : pc[c] = "truncate" => fileSize <= ceiling[c]
  /\ \A c \in Callers : pc[c] \in {"mmap", "mapped"} => ceiling[c] <= fileSize

\* Nobody maps an image that is not built.
BuiltFirst == ~ready => \A c \in Callers : pc[c] = "idle"

IInv ==
  /\ Typed
  /\ Asked
  /\ BuiltFirst
  /\ NothingAboveKept
  /\ OneCeiling => LengthsAgree

\* The facts about the constants the steps use.
LEMMA Sizes ==
  /\ MaxLength \in Nat /\ DataEnd \in Nat /\ Size \in Nat /\ BuildCeiling \in Nat
  /\ 0 < DataEnd /\ DataEnd <= Size /\ Size <= BuildCeiling
  /\ BuildCeiling <= MaxLength
  /\ \A n \in Ceilings : n \in 0..MaxLength /\ Size <= n
  /\ 0 \in Values /\ None \notin Values
  /\ Pages \subseteq Nat
  /\ Size \in 0..MaxLength /\ BuildCeiling \in 0..MaxLength
BY SharedImageAssumption DEF Pages

LEMMA InitCorrect == Init => IInv
<1> SUFFICES ASSUME Init PROVE IInv
  OBVIOUS
<1>1. Typed
  <2>1. 0 \in 0..MaxLength
    BY Sizes
  <2>2. Blank \in [Pages -> Values]
    BY Sizes DEF Blank
  <2>3. [c \in Callers |-> Nothing] \in [Callers -> [Pages -> Values \cup {None}]]
    BY DEF Nothing
  <2> QED BY <2>1, <2>2, <2>3 DEF Init, Typed
<1>2. Asked /\ BuiltFirst /\ NothingAboveKept /\ LengthsAgree
  BY DEF Init, Asked, BuiltFirst, NothingAboveKept, LengthsAgree, InMemory
<1> QED BY <1>1, <1>2 DEF IInv

LEMMA BuilderWritesStep ==
  ASSUME IInv, BuilderWrites PROVE IInv'
<1>1. Typed'
  BY DEF IInv, Typed, BuilderWrites
<1>2. Asked' /\ BuiltFirst' /\ NothingAboveKept' /\ (OneCeiling => LengthsAgree')
  BY DEF IInv, BuilderWrites, Asked, BuiltFirst, NothingAboveKept, LengthsAgree, InMemory
<1> QED BY <1>1, <1>2 DEF IInv

\* Publishing drops what lies above the part the image keeps.
LEMMA PublishStep ==
  ASSUME IInv, Publish PROVE IInv'
<1>0. \A c \in Callers : pc[c] = "idle"
  BY DEF IInv, BuiltFirst, Publish
<1>1. fileSize' \in 0..MaxLength
  BY Sizes DEF Publish
<1>2. file' \in [Pages -> Values]
  BY Sizes DEF IInv, Typed, Publish
<1>3. Typed'
  BY <1>1, <1>2 DEF IInv, Typed, Publish
<1>4. NothingAboveKept'
  <2>1. Keep' = Keep /\ Keep \in Nat
    BY Sizes DEF Keep, Publish
  <2>2. \A p \in Pages : p >= Keep => file'[p] = 0
    BY <2>1, Sizes DEF Publish
  <2> QED BY <2>1, <2>2 DEF NothingAboveKept
<1>5. Asked' /\ BuiltFirst' /\ LengthsAgree'
  BY <1>0 DEF Publish, Asked, BuiltFirst, LengthsAgree, InMemory
<1> QED BY <1>3, <1>4, <1>5 DEF IInv


LEMMA MemoryCallStep ==
  ASSUME IInv, NEW c \in Callers, NEW n \in Ceilings, MemoryCall(c, n)
  PROVE  IInv'
<1>1. Typed'
  BY DEF IInv, Typed, MemoryCall, build
<1>2. /\ pc'[c] = "stat" /\ ceiling'[c] = n
      /\ \A d \in Callers : d # c => pc'[d] = pc[d] /\ ceiling'[d] = ceiling[d]
      /\ fileSize' = fileSize /\ file' = file
      /\ OneCeiling => \A d \in Callers : pc[d] \in InMemory => ceiling[d] = n
      /\ ready /\ ready' = ready /\ snapshot' = snapshot
  BY DEF IInv, Typed, MemoryCall, build
<1>3. Asked' /\ BuiltFirst'
  BY <1>2 DEF IInv, Asked, BuiltFirst
<1>4. NothingAboveKept'
  BY <1>2 DEF IInv, NothingAboveKept, Keep
<1>5. ASSUME OneCeiling PROVE LengthsAgree'
  BY <1>2, <1>5 DEF IInv, LengthsAgree, InMemory
<1> QED BY <1>1, <1>3, <1>4, <1>5 DEF IInv

LEMMA StatFileStep ==
  ASSUME IInv, NEW c \in Callers, StatFile(c)
  PROVE  IInv'
<1> DEFINE next == IF fileSize < ceiling[c] THEN "truncate" ELSE "mmap"
<1>0. ceiling[c] \in Ceilings /\ ceiling[c] \in Nat /\ fileSize \in Nat
  BY Sizes DEF IInv, Asked, StatFile, Typed
<1>1. /\ pc[c] = "stat" /\ pc'[c] = next
      /\ \A d \in Callers : d # c => pc'[d] = pc[d]
      /\ ceiling' = ceiling /\ fileSize' = fileSize /\ file' = file
      /\ ready' = ready /\ snapshot' = snapshot
  BY DEF IInv, Typed, StatFile, build
<1>2. Typed'
  BY DEF IInv, Typed, StatFile, build
<1>3. Asked' /\ BuiltFirst'
  BY <1>1 DEF IInv, Asked, BuiltFirst
<1>4. NothingAboveKept'
  BY <1>1 DEF IInv, NothingAboveKept, Keep
<1>5. ASSUME OneCeiling PROVE LengthsAgree'
  BY <1>0, <1>1, <1>5 DEF IInv, LengthsAgree, InMemory
<1> QED BY <1>2, <1>3, <1>4, <1>5 DEF IInv

LEMMA TruncateFileStep ==
  ASSUME IInv, NEW c \in Callers, TruncateFile(c)
  PROVE  IInv'
<1>0. ceiling[c] \in Ceilings /\ ceiling[c] \in 0..MaxLength
  BY Sizes DEF IInv, Asked, TruncateFile
<1>1. /\ pc[c] = "truncate" /\ pc'[c] = "mmap"
      /\ \A d \in Callers : d # c => pc'[d] = pc[d]
      /\ ceiling' = ceiling /\ fileSize' = ceiling[c]
      /\ file' = [p \in Pages |-> IF p < ceiling[c] THEN file[p] ELSE 0]
      /\ ready' = ready /\ snapshot' = snapshot
  BY DEF IInv, Typed, TruncateFile, build
<1>2. Typed'
  <2>1. file' \in [Pages -> Values]
    BY <1>1, Sizes DEF IInv, Typed
  <2>2. priv' \in [Callers -> [Pages -> Values \cup {None}]]
    BY DEF IInv, Typed, TruncateFile
  <2> QED BY <1>0, <1>1, <2>1, <2>2 DEF IInv, Typed, TruncateFile, build
<1>3. Asked' /\ BuiltFirst'
  BY <1>1 DEF IInv, Asked, BuiltFirst
<1>4. NothingAboveKept'
  BY <1>1 DEF IInv, NothingAboveKept, Keep
<1>5. ASSUME OneCeiling PROVE LengthsAgree'
  <2>1. LengthsAgree /\ Asked /\ fileSize \in Nat
    BY <1>5 DEF IInv, Typed
  <2>2. fileSize <= ceiling[c]
    BY <1>1, <2>1 DEF LengthsAgree
  <2>3. \A d \in Callers : pc'[d] = "truncate" => fileSize' <= ceiling'[d]
    <3> SUFFICES ASSUME NEW d \in Callers, pc'[d] = "truncate"
                 PROVE  ceiling[c] <= ceiling[d]
      BY <1>1
    <3>1. pc[d] = "truncate"
      BY <1>1
    <3>2. ceiling[d] = ceiling[c]
      BY <1>1, <2>1, <3>1 DEF LengthsAgree, InMemory
    <3> QED BY <1>0, <3>2
  <2>4. \A d \in Callers : pc'[d] \in {"mmap", "mapped"} => ceiling'[d] <= fileSize'
    <3> SUFFICES ASSUME NEW d \in Callers, pc'[d] \in {"mmap", "mapped"}, d # c
                 PROVE  ceiling[d] <= ceiling[c]
      BY <1>0, <1>1
    <3>1. pc[d] \in {"mmap", "mapped"}
      BY <1>1
    <3>2. ceiling[d] <= fileSize /\ ceiling[d] \in Nat
      BY <2>1, <3>1, Sizes DEF LengthsAgree, Asked
    <3> QED BY <1>0, <2>1, <2>2, <3>2
  <2>5. \A d, e \in Callers :
          pc'[d] \in InMemory /\ pc'[e] \in InMemory => ceiling'[d] = ceiling'[e]
    BY <1>1, <2>1 DEF LengthsAgree, InMemory
  <2> QED BY <2>3, <2>4, <2>5 DEF LengthsAgree, InMemory
<1> QED BY <1>2, <1>3, <1>4, <1>5 DEF IInv

LEMMA MmapStep ==
  ASSUME IInv, NEW c \in Callers, Mmap(c)
  PROVE  IInv'
<1>1. Typed'
  BY DEF IInv, Typed, Mmap, build
<1>2. /\ pc[c] = "mmap" /\ pc'[c] = "mapped"
      /\ \A d \in Callers : d # c => pc'[d] = pc[d]
      /\ ceiling' = ceiling /\ fileSize' = fileSize /\ file' = file
      /\ ready' = ready /\ snapshot' = snapshot
  BY DEF IInv, Typed, Mmap, build
<1>3. Asked' /\ BuiltFirst' /\ NothingAboveKept'
  BY <1>2 DEF IInv, Asked, BuiltFirst, NothingAboveKept, Keep
<1>4. ASSUME OneCeiling PROVE LengthsAgree'
  BY <1>2, <1>4 DEF IInv, LengthsAgree, InMemory
<1> QED BY <1>1, <1>3, <1>4 DEF IInv

LEMMA InstanceWritesStep ==
  ASSUME IInv, NEW c \in Callers, InstanceWrites(c)
  PROVE  IInv'
<1>1. PICK p \in 0..ceiling[c] - 1, v \in Values :
        p < fileSize /\ priv' = [priv EXCEPT ![c][p] = v]
  BY DEF InstanceWrites
<1>2. priv' \in [Callers -> [Pages -> Values \cup {None}]]
  BY <1>1 DEF IInv, Typed
<1>3. Typed'
  BY <1>2 DEF IInv, Typed, InstanceWrites, build
<1>4. Asked' /\ BuiltFirst' /\ NothingAboveKept' /\ (OneCeiling => LengthsAgree')
  BY DEF IInv, InstanceWrites, build, Asked, BuiltFirst, NothingAboveKept, Keep,
         LengthsAgree, InMemory
<1> QED BY <1>3, <1>4 DEF IInv

LEMMA UnmapStep ==
  ASSUME IInv, NEW c \in Callers, Unmap(c)
  PROVE  IInv'
<1>1. 0 \in 0..MaxLength /\ Nothing \in [Pages -> Values \cup {None}]
  BY Sizes DEF Nothing
<1>2. Typed'
  BY <1>1 DEF IInv, Typed, Unmap, build
<1>3. /\ pc'[c] = "idle"
      /\ \A d \in Callers : d # c => pc'[d] = pc[d] /\ ceiling'[d] = ceiling[d]
      /\ fileSize' = fileSize /\ file' = file
      /\ ready' = ready /\ snapshot' = snapshot
  BY DEF IInv, Typed, Unmap, build
<1>4. Asked' /\ BuiltFirst' /\ NothingAboveKept'
  BY <1>3 DEF IInv, Asked, BuiltFirst, NothingAboveKept, Keep
<1>5. ASSUME OneCeiling PROVE LengthsAgree'
  BY <1>3, <1>5 DEF IInv, LengthsAgree, InMemory
<1> QED BY <1>2, <1>4, <1>5 DEF IInv

LEMMA StepCorrect == IInv /\ [Next]_vars => IInv'
<1> SUFFICES ASSUME IInv, [Next]_vars PROVE IInv'
  OBVIOUS
<1>1. CASE UNCHANGED vars
  BY <1>1 DEF IInv, vars, Typed, Asked, BuiltFirst, NothingAboveKept, Keep,
              LengthsAgree, InMemory
<1> QED
  BY <1>1, BuilderWritesStep, PublishStep, MemoryCallStep, StatFileStep,
     TruncateFileStep, MmapStep, InstanceWritesStep, UnmapStep DEF Next

-----------------------------------------------------------------------------
\* Every variable has its type, whatever lengths the callers ask for.
THEOREM ImageTypeCorrect == Spec => []TypeOK
<1>1. IInv => TypeOK
  BY DEF IInv, Typed, TypeOK
<1> QED BY <1>1, InitCorrect, StepCorrect, PTL DEF Spec

\* An image carries nothing above what it keeps, also after a later call of
\* Memory has truncated the file.
THEOREM NothingAboveKeptProved == Spec => []NothingAboveKept
<1>1. IInv => NothingAboveKept
  BY DEF IInv
<1> QED BY <1>1, InitCorrect, StepCorrect, PTL DEF Spec

\* Every page an instance has mapped has a file behind it, as long as the calls
\* of Memory that overlap ask for one length.
THEOREM MappedPagesBacked == OneCeiling => (Spec => []MappedIsBacked)
<1> SUFFICES ASSUME OneCeiling PROVE Spec => []MappedIsBacked
  OBVIOUS
<1>1. IInv => MappedIsBacked
  BY DEF IInv, LengthsAgree, MappedIsBacked
<1> QED BY <1>1, InitCorrect, StepCorrect, PTL DEF Spec

\* What an instance reads changes only by its own writes.
THEOREM InstancesArePrivate == OneCeiling => (Spec => OwnWritesOnly)
<1> SUFFICES ASSUME OneCeiling PROVE Spec => OwnWritesOnly
  OBVIOUS
<1>1. ASSUME IInv, [Next]_vars, NEW c \in Callers, pc[c] = "mapped",
             pc'[c] = "mapped", NEW p \in 0..ceiling[c] - 1,
             Content(c, p)' # Content(c, p)
      PROVE  priv'[c][p] # None
  <2>1. /\ LengthsAgree /\ ceiling[c] \in Ceilings /\ ceiling[c] \in 0..MaxLength
        /\ ceiling[c] <= fileSize /\ p \in Pages /\ p \in Nat
    BY <1>1, Sizes DEF IInv, Asked, LengthsAgree, Pages
  <2>2. ready
    BY <1>1 DEF IInv, BuiltFirst
  <2>3. file' # file \/ priv' # priv
    BY <1>1 DEF Content
  <2>4. CASE \E d \in Callers : TruncateFile(d)
    <3>1. PICK d \in Callers : TruncateFile(d)
      BY <2>4
    <3>2. fileSize <= ceiling[d] /\ ceiling[d] \in 0..MaxLength /\ fileSize \in Nat
      BY <1>1, <2>1, <3>1, Sizes DEF TruncateFile, LengthsAgree, IInv, Asked, Typed
    <3>3. p < ceiling[d]
      BY <2>1, <3>2
    <3>4. file'[p] = file[p] /\ priv'[c][p] = priv[c][p]
      BY <2>1, <3>1, <3>3 DEF TruncateFile
    <3> QED BY <1>1, <3>4 DEF Content
  <2>5. CASE \E d \in Callers : InstanceWrites(d)
    <3>0. PICK d \in Callers : InstanceWrites(d)
      BY <2>5
    <3>1. PICK q \in 0..ceiling[d] - 1, v \in Values :
            priv' = [priv EXCEPT ![d][q] = v] /\ file' = file
      BY <3>0 DEF InstanceWrites, build
    <3>2. priv[c] \in [Pages -> Values \cup {None}] /\ v # None
      BY <1>1, Sizes DEF IInv, Typed
    <3>3. priv'[c][p] = priv[c][p] \/ priv'[c][p] = v
      BY <1>1, <2>1, <3>1, <3>2 DEF IInv, Typed
    <3> QED BY <1>1, <3>1, <3>2, <3>3 DEF Content
  <2>6. CASE \E d \in Callers : Unmap(d)
    <3>1. PICK d \in Callers : Unmap(d)
      BY <2>6
    <3>2. d # c
      BY <1>1, <3>1 DEF Unmap, IInv, Typed
    <3>3. file' = file /\ priv'[c] = priv[c]
      BY <1>1, <3>1, <3>2 DEF Unmap, IInv, Typed
    <3> QED BY <1>1, <3>3 DEF Content
  <2> QED
    BY <1>1, <2>2, <2>3, <2>4, <2>5, <2>6
       DEF Next, vars, BuilderWrites, Publish, MemoryCall, StatFile, Mmap
<1>2. IInv /\ [Next]_vars =>
        [\A c \in Callers : pc[c] = "mapped" /\ pc'[c] = "mapped" =>
           \A p \in 0..ceiling[c] - 1 :
             Content(c, p)' # Content(c, p) => priv'[c][p] # None]_vars
  BY <1>1
<1> QED BY <1>2, InitCorrect, StepCorrect, PTL DEF Spec, OwnWritesOnly
=============================================================================
