--------------------------- MODULE AllocationProofs ---------------------------
(***************************************************************************)
(* Proofs about the stack slots: the passes over the blocks end with the   *)
(* liveness of the function, values that interfere live apart, and no      *)
(* instruction reads a slot that something else took over.                 *)
(***************************************************************************)
EXTENDS Frame, FiniteSetTheorems, WellFoundedInduction, TLAPS

---------------------------------------------------------------------------
(* Numbers and recursive functions.                                        *)

\* A set of naturals that is not empty has a least member.
LEMMA Least ==
  ASSUME NEW T \in SUBSET Nat, T # {}
  PROVE  \E n \in T : \A m \in T : n <= m
<1>1. PICK n \in T : \A m \in T : <<m, n>> \notin OpToRel(<, Nat)
  BY NatLessThanWellFounded, WFMin
<1>2. ASSUME NEW m \in T PROVE n <= m
  <2>1. <<m, n>> \notin {ss \in Nat \X Nat : ss[1] < ss[2]}
    BY <1>1 DEF OpToRel
  <2> QED BY <2>1
<1> QED BY <1>2

\* Induction up to k, on a set S of numbers.
LEMMA Upwards ==
  ASSUME NEW k \in Nat, NEW S,
         0 \in S, \A i \in 1 .. k : i - 1 \in S => i \in S
  PROVE  \A i \in 0 .. k : i \in S
<1> DEFINE T == {i \in 0 .. k : i \notin S}
<1>1. SUFFICES ASSUME T # {} PROVE FALSE
  OBVIOUS
<1>2. PICK i \in T : \A j \in T : i <= j
  <2>1. T \in SUBSET Nat
    OBVIOUS
  <2> HIDE DEF T
  <2> QED BY <1>1, <2>1, Least
<1>3. i # 0 /\ i - 1 \in 0 .. k /\ i - 1 \notin T
  BY <1>2
<1> QED BY <1>2, <1>3

\* Induction down from n + 1.
LEMMA Downwards ==
  ASSUME NEW n \in Nat, NEW S,
         n + 1 \in S, \A i \in 1 .. n : i + 1 \in S => i \in S
  PROVE  \A i \in 1 .. n + 1 : i \in S
<1> DEFINE T == {j \in 0 .. n : n + 1 - j \in S}
<1>1. 0 \in T /\ (\A j \in 1 .. n : j - 1 \in T => j \in T)
  <2>1. 0 \in T
    OBVIOUS
  <2>2. ASSUME NEW j \in 1 .. n, j - 1 \in T PROVE j \in T
    <3>1. (n + 1 - j) + 1 \in S
      <4>1. n + 1 - (j - 1) = (n + 1 - j) + 1
        OBVIOUS
      <4> QED BY <2>2, <4>1
    <3>2. n + 1 - j \in 1 .. n
      OBVIOUS
    <3> QED BY <3>1, <3>2
  <2> QED BY <2>1, <2>2
<1>2. \A j \in 0 .. n : j \in T
  <2> HIDE DEF T
  <2> QED BY <1>1, Upwards
<1>3. ASSUME NEW i \in 1 .. n + 1 PROVE i \in S
  <2>1. n + 1 - i \in T
    BY <1>2
  <2>2. n + 1 - (n + 1 - i) = i
    OBVIOUS
  <2> QED BY <2>1, <2>2
<1> QED BY <1>3

\* Runs of k steps from a, the i-th of which takes x to F[i][x].
Runs(k, A, a, F) ==
    {h \in [0 .. k -> A] : h[0] = a /\ \A i \in 1 .. k : h[i] = F[i][h[i - 1]]}

\* Steps that stay in A can be followed from any a in A: the recursive
\* functions of the model are functions.
LEMMA Recursion ==
  ASSUME NEW k \in Nat, NEW A, NEW a \in A, NEW F,
         \A i \in 1 .. k, x \in A : F[i][x] \in A
  PROVE  Runs(k, A, a, F) # {}
<1> DEFINE S == {j \in 0 .. k : Runs(j, A, a, F) # {}}
<1>1. 0 \in S
  <2>1. [i \in 0 .. 0 |-> a] \in Runs(0, A, a, F)
    BY DEF Runs
  <2> QED BY <2>1
<1>2. ASSUME NEW i \in 1 .. k, i - 1 \in S PROVE i \in S
  <2>1. PICK h : h \in Runs(i - 1, A, a, F)
    BY <1>2
  <2>2. F[i][h[i - 1]] \in A
    BY <2>1 DEF Runs
  <2> DEFINE g == [j \in 0 .. i |-> IF j = i THEN F[i][h[i - 1]] ELSE h[j]]
  <2>3. g \in [0 .. i -> A]
    BY <2>1, <2>2 DEF Runs
  <2>4. g[0] = a
    BY <2>1 DEF Runs
  <2>5. ASSUME NEW j \in 1 .. i PROVE g[j] = F[j][g[j - 1]]
    BY <2>1 DEF Runs
  <2>6. g \in Runs(i, A, a, F)
    BY <2>3, <2>4, <2>5 DEF Runs
  <2> QED BY <2>6
<1>3. k \in S
  <2> HIDE DEF S
  <2>1. \A i \in 0 .. k : i \in S
    BY <1>1, <1>2, Upwards
  <2> QED BY <2>1
<1> QED BY <1>3

---------------------------------------------------------------------------
(* Backwards through a block.                                              *)

\* h[i] is what is live before place i of vs.
GoesBack(A, vs, live, uses, h) ==
    /\ h \in [1 .. Len(vs) + 1 -> SUBSET A]
    /\ h[Len(vs) + 1] = live
    /\ \A i \in 1 .. Len(vs) : h[i] = (h[i + 1] \ {vs[i]}) \cup uses[vs[i]]

\* Back is what its recursion says.
LEMMA BackSteps ==
  ASSUME NEW A, NEW vs \in Seq(A), NEW live \in SUBSET A,
         NEW uses \in [Range(vs) -> SUBSET A]
  PROVE  GoesBack(A, vs, live, uses, Back(vs, live, uses))
<1> DEFINE n == Len(vs)
           Is(g) == g = [k \in 0 .. n |->
                           IF k = 0 THEN live
                           ELSE (g[k - 1] \ {vs[n + 1 - k]}) \cup uses[vs[n + 1 - k]]]
           back == CHOOSE g : Is(g)
           F == [k \in 1 .. n |-> [x \in SUBSET A |-> (x \ {vs[n + 1 - k]}) \cup uses[vs[n + 1 - k]]]]
<1>0. n \in Nat /\ \A k \in 1 .. n : uses[vs[n + 1 - k]] \in SUBSET A
  BY DEF Range
<1>1. PICK h : h \in Runs(n, SUBSET A, live, F)
  <2>1. \A k \in 1 .. n, x \in SUBSET A : F[k][x] \in SUBSET A
    BY <1>0
  <2> HIDE DEF F, n
  <2> QED BY <1>0, <2>1, Recursion
<1>2. Is(h)
  <2>1. ASSUME NEW k \in 0 .. n
        PROVE  h[k] = IF k = 0 THEN live
                      ELSE (h[k - 1] \ {vs[n + 1 - k]}) \cup uses[vs[n + 1 - k]]
    <3>1. CASE k = 0
      BY <1>1, <3>1 DEF Runs
    <3>2. CASE k # 0
      <4>1. k \in 1 .. n /\ h[k - 1] \in SUBSET A
        BY <1>1, <3>2 DEF Runs
      <4> QED BY <1>1, <4>1, <3>2 DEF Runs
    <3> QED BY <3>1, <3>2
  <2> QED BY <1>1, <2>1 DEF Runs
<1>3. Is(back)
  BY <1>2
<1>4. Back(vs, live, uses) = [i \in 1 .. n + 1 |-> back[n + 1 - i]]
  BY DEF Back
<1> HIDE DEF back
<1>5. \A k \in 0 .. n : back[k] \in SUBSET A
  <2> DEFINE S == {k \in 0 .. n : back[k] \in SUBSET A}
  <2>1. 0 \in S
    BY <1>3
  <2>2. ASSUME NEW k \in 1 .. n, k - 1 \in S PROVE k \in S
    <3>1. back[k] = (back[k - 1] \ {vs[n + 1 - k]}) \cup uses[vs[n + 1 - k]]
      BY <1>3
    <3> QED BY <2>2, <3>1, <1>0
  <2> HIDE DEF S, n
  <2>3. \A k \in 0 .. n : k \in S
    BY <1>0, <2>1, <2>2, Upwards
  <2> QED BY <2>3 DEF S
<1>6. ASSUME NEW i \in 1 .. n
      PROVE  Back(vs, live, uses)[i] = (Back(vs, live, uses)[i + 1] \ {vs[i]}) \cup uses[vs[i]]
  <2>1. n + 1 - i \in 1 .. n /\ n + 1 - (n + 1 - i) = i /\ (n + 1 - i) - 1 = n + 1 - (i + 1)
    BY <1>0
  <2>2. back[n + 1 - i] = (back[n + 1 - (i + 1)] \ {vs[i]}) \cup uses[vs[i]]
    BY <1>3, <2>1
  <2> QED BY <1>4, <2>2, <1>0
<1>7. Back(vs, live, uses)[n + 1] = live
  BY <1>0, <1>3, <1>4
<1>8. Back(vs, live, uses) \in [1 .. n + 1 -> SUBSET A]
  BY <1>0, <1>4, <1>5
<1> QED BY <1>6, <1>7, <1>8 DEF GoesBack

\* What is live further down is live above, up to where it is written.
LEMMA BackKeeps ==
  ASSUME NEW A, NEW vs \in Seq(A), NEW live, NEW uses, NEW h, GoesBack(A, vs, live, uses, h),
         NEW i \in 1 .. Len(vs) + 1, NEW j \in i .. Len(vs) + 1, NEW u,
         u \in h[j], \A k \in i .. j - 1 : vs[k] # u
  PROVE  u \in h[i]
<1> DEFINE n == j - 1
           S == {k \in 1 .. n + 1 : k >= i => u \in h[k]}
<1>0. n \in Nat /\ n + 1 = j /\ n <= Len(vs)
  OBVIOUS
<1>1. n + 1 \in S
  BY <1>0
<1>2. ASSUME NEW k \in 1 .. n, k + 1 \in S PROVE k \in S
  <2>1. CASE k < i
    BY <2>1, <1>0
  <2>2. CASE k >= i
    <3>1. u \in h[k + 1] /\ vs[k] # u
      BY <2>2, <1>2, <1>0
    <3>2. h[k] = (h[k + 1] \ {vs[k]}) \cup uses[vs[k]]
      BY <1>0 DEF GoesBack
    <3> QED BY <3>1, <3>2, <1>0
  <2> QED BY <2>1, <2>2, <1>0
<1>3. \A k \in 1 .. n + 1 : k \in S
  <2> HIDE DEF S, n
  <2> QED BY <1>0, <1>1, <1>2, Downwards
<1> QED BY <1>0, <1>3

\* More that is live at the end is more that is live before.
LEMMA BackGrows ==
  ASSUME NEW A, NEW vs \in Seq(A), NEW uses, NEW live, NEW more, NEW h, NEW g,
         GoesBack(A, vs, live, uses, h), GoesBack(A, vs, more, uses, g),
         NEW u, u \in live => u \in more
  PROVE  \A i \in 1 .. Len(vs) + 1 : u \in h[i] => u \in g[i]
<1> DEFINE n == Len(vs)
           S == {i \in 1 .. n + 1 : u \in h[i] => u \in g[i]}
<1>0. n \in Nat
  OBVIOUS
<1>1. n + 1 \in S
  BY <1>0 DEF GoesBack
<1>2. ASSUME NEW i \in 1 .. n, i + 1 \in S PROVE i \in S
  <2>1. /\ h[i] = (h[i + 1] \ {vs[i]}) \cup uses[vs[i]]
        /\ g[i] = (g[i + 1] \ {vs[i]}) \cup uses[vs[i]]
    BY DEF GoesBack
  <2> QED BY <1>0, <1>2, <2>1
<1>3. \A i \in 1 .. n + 1 : i \in S
  <2> HIDE DEF S, n
  <2> QED BY <1>0, <1>1, <1>2, Downwards
<1> QED BY <1>3

---------------------------------------------------------------------------
(* Liveness.                                                               *)

\* The sets of values a pass gives the blocks.
Flow(f) == [BlockSet(f) -> SUBSET ValueSet(f)]

\* What is read and written in a block are values of the function.
LEMMA UsesType ==
  ASSUME NEW f, WellShaped(f), NEW b \in BlockSet(f)
  PROVE  /\ f.values[b] \in Seq(ValueSet(f))
         /\ Uses(f, b) \in [Range(f.values[b]) -> SUBSET ValueSet(f)]
         /\ Range(f.values[b]) \subseteq ValueSet(f)
         /\ \A v \in ValueSet(f) : Range(f.args[v]) \subseteq ValueSet(f)
<1>1. f.values[b] \in Seq(ValueSet(f))
  BY DEF WellShaped
<1>2. Range(f.values[b]) \subseteq ValueSet(f)
  BY <1>1 DEF Range
<1>3. ASSUME NEW v \in ValueSet(f) PROVE Range(f.args[v]) \subseteq ValueSet(f)
  <2>1. f.args[v] \in Seq(ValueSet(f))
    BY DEF WellShaped
  <2> QED BY <2>1 DEF Range
<1>4. Uses(f, b) \in [Range(f.values[b]) -> SUBSET ValueSet(f)]
  BY <1>2, <1>3 DEF Uses
<1> QED BY <1>1, <1>2, <1>3, <1>4

\* A phi of a block an edge goes to has an argument for the edge.
LEMMA EdgeArgument ==
  ASSUME NEW f, WellShaped(f), NEW b \in BlockSet(f), NEW e \in Range(f.succs[b])
  PROVE  /\ e.to \in BlockSet(f)
         /\ \A p \in PhisOf(f, e.to) : p \in ValueSet(f) /\ f.args[p][e.at] \in ValueSet(f)
<1>1. e.to \in BlockSet(f) /\ \A p \in PhisOf(f, e.to) : e.at \in DOMAIN f.args[p]
  BY DEF WellShaped
<1>2. ASSUME NEW p \in PhisOf(f, e.to) PROVE p \in ValueSet(f) /\ f.args[p][e.at] \in ValueSet(f)
  <2>1. p \in ValueSet(f)
    BY <1>1, UsesType DEF PhisOf
  <2>2. f.args[p] \in Seq(ValueSet(f))
    BY <2>1 DEF WellShaped
  <2> QED BY <1>1, <2>1, <2>2
<1> QED BY <1>1, <1>2

\* What is live at the end of a block are values of the function.
LEMMA LiveOutType ==
  ASSUME NEW f, WellShaped(f), NEW b \in BlockSet(f), NEW in \in Flow(f)
  PROVE  LiveOut(f, in, b) \in SUBSET ValueSet(f)
<1>1. ASSUME NEW e \in Range(f.succs[b])
      PROVE  in[e.to] \cup {f.args[p][e.at] : p \in PhisOf(f, e.to)} \subseteq ValueSet(f)
  BY EdgeArgument DEF Flow
<1> QED BY <1>1 DEF LiveOut

\* Backwards through a block, as LiveAt goes.
LEMMA LiveAtSteps ==
  ASSUME NEW f, WellShaped(f), NEW b \in BlockSet(f), NEW in \in Flow(f)
  PROVE  GoesBack(ValueSet(f), f.values[b], LiveOut(f, in, b) \cup f.ends[b], Uses(f, b),
                  LiveAt(f, in, b))
<1>1. LiveOut(f, in, b) \cup f.ends[b] \in SUBSET ValueSet(f)
  BY LiveOutType DEF WellShaped
<1>2. f.values[b] \in Seq(ValueSet(f)) /\ Uses(f, b) \in [Range(f.values[b]) -> SUBSET ValueSet(f)]
  BY UsesType
<1> QED BY <1>1, <1>2, BackSteps DEF LiveAt

\* Where more is live at the start of the blocks, more is live at the start
\* of what leads to them.
LEMMA LiveAtGrows ==
  ASSUME NEW f, WellShaped(f), NEW b \in BlockSet(f), NEW in \in Flow(f), NEW more \in Flow(f),
         NEW v, \A c \in BlockSet(f) : v \in in[c] => v \in more[c]
  PROVE  v \in LiveAt(f, in, b)[1] => v \in LiveAt(f, more, b)[1]
<1> DEFINE x == LiveOut(f, in, b) \cup f.ends[b]
           y == LiveOut(f, more, b) \cup f.ends[b]
<1>1. v \in x => v \in y
  <2>1. ASSUME NEW e \in Range(f.succs[b]), v \in in[e.to] PROVE v \in more[e.to]
    BY <2>1, EdgeArgument
  <2> QED BY <2>1 DEF LiveOut
<1>2. /\ GoesBack(ValueSet(f), f.values[b], x, Uses(f, b), LiveAt(f, in, b))
      /\ GoesBack(ValueSet(f), f.values[b], y, Uses(f, b), LiveAt(f, more, b))
  BY LiveAtSteps
<1>3. f.values[b] \in Seq(ValueSet(f)) /\ 1 \in 1 .. Len(f.values[b]) + 1
  BY UsesType
<1> HIDE DEF x, y
<1>4. \A i \in 1 .. Len(f.values[b]) + 1 : v \in LiveAt(f, in, b)[i] => v \in LiveAt(f, more, b)[i]
  BY <1>1, <1>2, <1>3, BackGrows
<1> QED BY <1>3, <1>4

\* h is how a pass goes, block after block.
GoesOver(f, in, h) ==
    /\ h \in [0 .. Len(f.blocks) -> Flow(f)] /\ h[0] = in
    /\ \A k \in 1 .. Len(f.blocks) : h[k] = Visit(f, h[k - 1], f.blocks[Len(f.blocks) + 1 - k])

\* A visit gives every block a set of values.
LEMMA VisitType ==
  ASSUME NEW f, WellShaped(f), NEW b \in BlockSet(f), NEW in \in Flow(f)
  PROVE  Visit(f, in, b) \in Flow(f)
<1>1. LiveAt(f, in, b)[1] \in SUBSET ValueSet(f)
  <2>1. 1 \in 1 .. Len(f.values[b]) + 1
    BY UsesType
  <2>2. LiveAt(f, in, b) \in [1 .. Len(f.values[b]) + 1 -> SUBSET ValueSet(f)]
    BY LiveAtSteps DEF GoesBack
  <2> QED BY <2>1, <2>2
<1> QED BY <1>1 DEF Visit, Flow

\* LivePass is what its recursion says.
LEMMA LivePassSteps ==
  ASSUME NEW f, WellShaped(f), NEW in \in Flow(f)
  PROVE  \E h : GoesOver(f, in, h) /\ LivePass(f, in) = h[Len(f.blocks)]
<1> DEFINE n == Len(f.blocks)
           Is(g) == g = [k \in 0 .. n |->
                           IF k = 0 THEN in ELSE Visit(f, g[k - 1], f.blocks[n + 1 - k])]
           pass == CHOOSE g : Is(g)
           F == [k \in 1 .. n |-> [x \in Flow(f) |-> Visit(f, x, f.blocks[n + 1 - k])]]
<1>0. n \in Nat /\ \A k \in 1 .. n : f.blocks[n + 1 - k] \in BlockSet(f)
  BY DEF WellShaped, BlockSet, Range
<1>1. PICK h : h \in Runs(n, Flow(f), in, F)
  <2>1. \A k \in 1 .. n, x \in Flow(f) : F[k][x] \in Flow(f)
    BY <1>0, VisitType
  <2> HIDE DEF F, n
  <2> QED BY <1>0, <2>1, Recursion
<1>2. Is(h)
  <2>1. ASSUME NEW k \in 0 .. n
        PROVE  h[k] = IF k = 0 THEN in ELSE Visit(f, h[k - 1], f.blocks[n + 1 - k])
    <3>1. CASE k = 0
      BY <1>1, <3>1 DEF Runs
    <3>2. CASE k # 0
      <4>1. k \in 1 .. n /\ h[k - 1] \in Flow(f)
        BY <1>1, <3>2 DEF Runs
      <4> QED BY <1>1, <4>1, <3>2 DEF Runs
    <3> QED BY <3>1, <3>2
  <2> QED BY <1>1, <2>1 DEF Runs
<1>3. Is(pass)
  BY <1>2
<1>4. LivePass(f, in) = pass[n]
  BY DEF LivePass
<1> HIDE DEF pass
<1>5. pass[0] = in /\ \A k \in 1 .. n : pass[k] = Visit(f, pass[k - 1], f.blocks[n + 1 - k])
  <2>1. pass[0] = in
    BY <1>0, <1>3
  <2>2. ASSUME NEW k \in 1 .. n PROVE pass[k] = Visit(f, pass[k - 1], f.blocks[n + 1 - k])
    BY <1>0, <1>3
  <2> QED BY <2>1, <2>2
<1>6. \A k \in 0 .. n : pass[k] \in Flow(f)
  <2> DEFINE S == {k \in 0 .. n : pass[k] \in Flow(f)}
  <2>1. 0 \in S
    BY <1>0, <1>5
  <2>2. ASSUME NEW k \in 1 .. n, k - 1 \in S PROVE k \in S
    BY <1>0, <1>5, <2>2, VisitType
  <2> HIDE DEF S, n
  <2>3. \A k \in 0 .. n : k \in S
    BY <1>0, <2>1, <2>2, Upwards
  <2> QED BY <2>3 DEF S
<1>7. pass \in [0 .. n -> Flow(f)]
  BY <1>3, <1>6
<1>8. GoesOver(f, in, pass)
  BY <1>5, <1>7 DEF GoesOver
<1> QED BY <1>4, <1>8

\* Every visit so far only added: what is live at the start of a block still
\* is, going back through the block.
Rising(f, in) == \A b \in BlockSet(f) : in[b] \subseteq LiveAt(f, in, b)[1]
Below(f, in, out) == \A b \in BlockSet(f) : in[b] \subseteq out[b]

\* No visit adds v anywhere.
Settled(f, in, v) == \A b \in BlockSet(f) : v \in LiveAt(f, in, b)[1] => v \in in[b]

\* A visit changes what its block says, and nothing else.
LEMMA VisitAt ==
  ASSUME NEW f, NEW in \in Flow(f), NEW b \in BlockSet(f), NEW c \in BlockSet(f)
  PROVE  Visit(f, in, b)[c] = IF c = b THEN LiveAt(f, in, b)[1] ELSE in[c]
BY DEF Visit, Flow

\* A visit only adds, and leaves it so.
LEMMA VisitRises ==
  ASSUME NEW f, WellShaped(f), NEW b \in BlockSet(f), NEW in \in Flow(f), Rising(f, in)
  PROVE  Rising(f, Visit(f, in, b)) /\ Below(f, in, Visit(f, in, b))
<1> DEFINE out == Visit(f, in, b)
<1>1. out \in Flow(f)
  BY VisitType
<1>2. ASSUME NEW c \in BlockSet(f)
      PROVE  out[c] = IF c = b THEN LiveAt(f, in, b)[1] ELSE in[c]
  BY VisitAt
<1>3. ASSUME NEW c \in BlockSet(f) PROVE in[c] \subseteq out[c] /\ out[c] \subseteq LiveAt(f, in, c)[1]
  BY <1>2 DEF Rising
<1> HIDE DEF out
<1>4. ASSUME NEW c \in BlockSet(f), NEW v \in out[c] PROVE v \in LiveAt(f, out, c)[1]
  <2>1. v \in LiveAt(f, in, c)[1]
    BY <1>3, <1>4
  <2>2. \A d \in BlockSet(f) : v \in in[d] => v \in out[d]
    BY <1>3
  <2> QED BY <1>1, <2>1, <2>2, LiveAtGrows
<1>5. Rising(f, out) /\ Below(f, in, out)
  BY <1>3, <1>4 DEF Rising, Below
<1> QED BY <1>5 DEF out

\* A pass only adds, and adds a value unless it is settled.
LEMMA PassRises ==
  ASSUME NEW f, WellShaped(f), NEW in \in Flow(f), Rising(f, in)
  PROVE  /\ LivePass(f, in) \in Flow(f)
         /\ Rising(f, LivePass(f, in)) /\ Below(f, in, LivePass(f, in))
         /\ \A v : Settled(f, in, v) <=>
                      \A b \in BlockSet(f) : v \in LivePass(f, in)[b] => v \in in[b]
<1>1. PICK h : GoesOver(f, in, h) /\ LivePass(f, in) = h[Len(f.blocks)]
  BY LivePassSteps
<1> DEFINE n == Len(f.blocks)
<1>2. n \in Nat /\ \A k \in 1 .. n : f.blocks[n + 1 - k] \in BlockSet(f)
  BY DEF WellShaped, BlockSet, Range
<1>3. /\ h[0] = in
      /\ \A k \in 0 .. n : h[k] \in Flow(f)
      /\ \A k \in 1 .. n : h[k] = Visit(f, h[k - 1], f.blocks[n + 1 - k])
  BY <1>1 DEF GoesOver
<1> HIDE DEF n
<1>4. ASSUME NEW k \in 1 .. n, Rising(f, h[k - 1])
      PROVE  Rising(f, h[k]) /\ Below(f, h[k - 1], h[k])
  <2>1. h[k - 1] \in Flow(f) /\ f.blocks[n + 1 - k] \in BlockSet(f)
    BY <1>2, <1>3
  <2> QED BY <1>3, <1>4, <2>1, VisitRises
<1>5. \A k \in 0 .. n : Rising(f, h[k]) /\ \A j \in 0 .. k : Below(f, h[j], h[k])
  <2> DEFINE S == {k \in 0 .. n : Rising(f, h[k]) /\ \A j \in 0 .. k : Below(f, h[j], h[k])}
  <2>1. 0 \in S
    BY <1>2, <1>3 DEF Below
  <2>2. ASSUME NEW k \in 1 .. n, k - 1 \in S PROVE k \in S
    <3>1. Rising(f, h[k]) /\ Below(f, h[k - 1], h[k])
      BY <1>4, <2>2
    <3>2. ASSUME NEW j \in 0 .. k PROVE Below(f, h[j], h[k])
      <4>1. j = k \/ j \in 0 .. k - 1
        OBVIOUS
      <4>2. j \in 0 .. k - 1 => Below(f, h[j], h[k - 1])
        BY <2>2
      <4> QED BY <3>1, <4>1, <4>2 DEF Below
    <3> QED BY <3>1, <3>2
  <2> HIDE DEF S
  <2>3. \A k \in 0 .. n : k \in S
    BY <1>2, <2>1, <2>2, Upwards
  <2> QED BY <2>3 DEF S
<1>6. ASSUME NEW v, \A b \in BlockSet(f) : v \in h[n][b] => v \in in[b]
      PROVE  Settled(f, in, v)
  <2>1. ASSUME NEW b \in BlockSet(f), v \in LiveAt(f, in, b)[1] PROVE v \in in[b]
    <3>1. PICK x \in 1 .. n : b = f.blocks[x]
      BY DEF WellShaped, BlockSet, Range, n
    <3> DEFINE k == n + 1 - x
    <3>2. k \in 1 .. n /\ n + 1 - k = x
      BY <1>2
    <3> HIDE DEF k
    <3>3. Below(f, in, h[k - 1]) /\ Below(f, h[k], h[n]) /\ h[k - 1] \in Flow(f)
      BY <1>2, <1>3, <1>5, <3>2
    <3>4. v \in LiveAt(f, h[k - 1], b)[1]
      <4>1. \A c \in BlockSet(f) : v \in in[c] => v \in h[k - 1][c]
        BY <3>3 DEF Below
      <4> QED BY <2>1, <3>3, <4>1, LiveAtGrows
    <3>5. h[k][b] = LiveAt(f, h[k - 1], b)[1]
      <4>1. h[k] = Visit(f, h[k - 1], b)
        BY <1>3, <3>1, <3>2
      <4> QED BY <3>3, <4>1, VisitAt
    <3> QED BY <1>6, <3>3, <3>4, <3>5 DEF Below
  <2> QED BY <2>1 DEF Settled
<1>7. ASSUME NEW v, Settled(f, in, v)
      PROVE  \A b \in BlockSet(f) : v \in h[n][b] => v \in in[b]
  <2> DEFINE S == {k \in 0 .. n : \A b \in BlockSet(f) : v \in h[k][b] => v \in in[b]}
  <2>1. 0 \in S
    BY <1>2, <1>3
  <2>2. ASSUME NEW k \in 1 .. n, k - 1 \in S PROVE k \in S
    <3>1. ASSUME NEW b \in BlockSet(f), v \in h[k][b] PROVE v \in in[b]
      <4> DEFINE d == f.blocks[n + 1 - k]
      <4>1. d \in BlockSet(f) /\ h[k - 1] \in Flow(f) /\ h[k] = Visit(f, h[k - 1], d)
        BY <1>2, <1>3
      <4>2. \A c \in BlockSet(f) : v \in h[k - 1][c] => v \in in[c]
        BY <2>2
      <4> HIDE DEF d
      <4>3. h[k][b] = IF b = d THEN LiveAt(f, h[k - 1], d)[1] ELSE h[k - 1][b]
        BY <4>1, VisitAt
      <4>4. v \in LiveAt(f, h[k - 1], b)[1] => v \in LiveAt(f, in, b)[1]
        BY <4>1, <4>2, LiveAtGrows
      <4> QED BY <1>7, <3>1, <4>2, <4>3, <4>4 DEF Settled
    <3> QED BY <3>1
  <2> HIDE DEF S
  <2>3. \A k \in 0 .. n : k \in S
    BY <1>2, <2>1, <2>2, Upwards
  <2> QED BY <1>2, <2>3 DEF S
<1>8. LivePass(f, in) = h[n] /\ h[n] \in Flow(f) /\ Rising(f, h[n]) /\ Below(f, in, h[n])
  BY <1>1, <1>2, <1>3, <1>5 DEF n
<1> QED BY <1>6, <1>7, <1>8

\* h is how the passes go.
GoesThrough(f, h) ==
    /\ h \in [0 .. MaxPasses(f) -> Flow(f)] /\ h[0] = [b \in BlockSet(f) |-> {}]
    /\ \A k \in 1 .. MaxPasses(f) : h[k] = LivePass(f, h[k - 1])

\* A pass gives every block a set of values.
LEMMA LivePassType ==
  ASSUME NEW f, WellShaped(f), NEW in \in Flow(f)
  PROVE  LivePass(f, in) \in Flow(f)
<1>1. PICK h : GoesOver(f, in, h) /\ LivePass(f, in) = h[Len(f.blocks)]
  BY LivePassSteps
<1>2. Len(f.blocks) \in 0 .. Len(f.blocks)
  BY DEF WellShaped
<1> QED BY <1>1, <1>2 DEF GoesOver

\* LiveIn is what its recursion says.
LEMMA LiveInSteps ==
  ASSUME NEW f, WellShaped(f)
  PROVE  \E h : GoesThrough(f, h) /\ LiveIn(f) = h[MaxPasses(f)]
<1> DEFINE n == MaxPasses(f)
           none == [b \in BlockSet(f) |-> {}]
           Is(g) == g = [k \in 0 .. n |-> IF k = 0 THEN none ELSE LivePass(f, g[k - 1])]
           in == CHOOSE g : Is(g)
           F == [k \in 1 .. n |-> [x \in Flow(f) |-> LivePass(f, x)]]
<1>0. n \in Nat /\ none \in Flow(f)
  BY DEF WellShaped, MaxPasses, Flow
<1>1. PICK h : h \in Runs(n, Flow(f), none, F)
  <2>1. \A k \in 1 .. n, x \in Flow(f) : F[k][x] \in Flow(f)
    BY LivePassType
  <2> HIDE DEF F, n, none
  <2> QED BY <1>0, <2>1, Recursion
<1>2. Is(h)
  <2>1. ASSUME NEW k \in 0 .. n
        PROVE  h[k] = IF k = 0 THEN none ELSE LivePass(f, h[k - 1])
    <3>1. CASE k = 0
      BY <1>1, <3>1 DEF Runs
    <3>2. CASE k # 0
      <4>1. k \in 1 .. n /\ h[k - 1] \in Flow(f)
        <5> HIDE DEF n
        <5> QED BY <1>0, <1>1, <3>2 DEF Runs
      <4> HIDE DEF n
      <4> QED BY <1>1, <4>1, <3>2 DEF Runs
    <3> QED BY <3>1, <3>2
  <2> QED BY <1>1, <2>1 DEF Runs
<1>3. Is(in)
  BY <1>2
<1>4. LiveIn(f) = in[n]
  BY DEF LiveIn, BlockSet
<1> HIDE DEF in, n, none
<1>5. in[0] = none /\ \A k \in 1 .. n : in[k] = LivePass(f, in[k - 1])
  <2>1. in[0] = none
    BY <1>0, <1>3
  <2>2. ASSUME NEW k \in 1 .. n PROVE in[k] = LivePass(f, in[k - 1])
    BY <1>0, <1>3
  <2> QED BY <2>1, <2>2
<1>6. \A k \in 0 .. n : in[k] \in Flow(f)
  <2> DEFINE S == {k \in 0 .. n : in[k] \in Flow(f)}
  <2>1. 0 \in S
    BY <1>0, <1>5
  <2>2. ASSUME NEW k \in 1 .. n, k - 1 \in S PROVE k \in S
    BY <1>0, <1>5, <2>2, LivePassType
  <2> HIDE DEF S
  <2>3. \A k \in 0 .. n : k \in S
    BY <1>0, <2>1, <2>2, Upwards
  <2> QED BY <2>3 DEF S
<1>7. in \in [0 .. n -> Flow(f)]
  BY <1>3, <1>6
<1>8. GoesThrough(f, in)
  BY <1>5, <1>7 DEF GoesThrough, n, none
<1> QED BY <1>4, <1>8 DEF n

\* There are no more blocks than places in their order.
LEMMA BlocksFinite ==
  ASSUME NEW f, WellShaped(f)
  PROVE  IsFiniteSet(BlockSet(f)) /\ Cardinality(BlockSet(f)) <= Len(f.blocks)
<1> DEFINE n == Len(f.blocks)
<1>1. f.blocks \in Surjection(1 .. n, BlockSet(f)) /\ n \in Nat
  BY DEF WellShaped, BlockSet, Range, Surjection
<1>2. IsFiniteSet(1 .. n) /\ Cardinality(1 .. n) = n
  BY <1>1, FS_Interval
<1> QED BY <1>1, <1>2, FS_Surjection

\* The blocks v is live at the start of.
LiveBlocks(f, in, v) == {b \in BlockSet(f) : v \in in[b]}

\* They are no more than there are blocks.
LEMMA LiveBlocksFinite ==
  ASSUME NEW f, WellShaped(f), NEW in, NEW v
  PROVE  /\ IsFiniteSet(LiveBlocks(f, in, v)) /\ Cardinality(LiveBlocks(f, in, v)) \in Nat
         /\ Cardinality(LiveBlocks(f, in, v)) <= Len(f.blocks)
<1>1. LiveBlocks(f, in, v) \in SUBSET BlockSet(f)
  BY DEF LiveBlocks
<1>2. /\ IsFiniteSet(LiveBlocks(f, in, v))
      /\ Cardinality(LiveBlocks(f, in, v)) <= Cardinality(BlockSet(f))
  BY <1>1, BlocksFinite, FS_Subset
<1>3. Cardinality(LiveBlocks(f, in, v)) \in Nat /\ Cardinality(BlockSet(f)) \in Nat
  BY <1>2, BlocksFinite, FS_CardinalityType
<1>4. Len(f.blocks) \in Nat
  BY DEF WellShaped
<1> QED BY <1>2, <1>3, <1>4, BlocksFinite

\* After k passes a value is live at the start of k blocks at least, unless
\* it is settled.
LEMMA PassesCount ==
  ASSUME NEW f, WellShaped(f), NEW h, GoesThrough(f, h)
  PROVE  \A k \in 0 .. MaxPasses(f) :
            /\ h[k] \in Flow(f) /\ Rising(f, h[k])
            /\ \A v : \/ Settled(f, h[k], v)
                      \/ Cardinality(LiveBlocks(f, h[k], v)) >= k
<1> DEFINE n == MaxPasses(f)
           At(k, v) == LiveBlocks(f, h[k], v)
           Counted(k) == \A v : Settled(f, h[k], v) \/ Cardinality(At(k, v)) >= k
           S == {k \in 0 .. n : h[k] \in Flow(f) /\ Rising(f, h[k]) /\ Counted(k)}
<1>0. n \in Nat
  BY DEF WellShaped, MaxPasses
<1>2. /\ h[0] = [b \in BlockSet(f) |-> {}]
      /\ \A k \in 0 .. n : h[k] \in Flow(f)
      /\ \A k \in 1 .. n : h[k] = LivePass(f, h[k - 1])
  BY DEF GoesThrough
<1> HIDE DEF n
<1>3. 0 \in S
  <2>1. Rising(f, h[0])
    BY <1>2 DEF Rising
  <2>2. \A v : Cardinality(At(0, v)) >= 0
    <3>1. \A v : Cardinality(At(0, v)) \in Nat
      BY LiveBlocksFinite
    <3> QED BY <3>1
  <2> QED BY <1>0, <1>2, <2>1, <2>2
<1>4. ASSUME NEW k \in 1 .. n, k - 1 \in S PROVE k \in S
  <2> DEFINE x == h[k - 1]
             y == h[k]
  <2>1. x \in Flow(f) /\ Rising(f, x) /\ y = LivePass(f, x)
    BY <1>2, <1>4
  <2>2. /\ y \in Flow(f) /\ Rising(f, y) /\ Below(f, x, y)
        /\ \A v : Settled(f, x, v) <=> \A b \in BlockSet(f) : v \in y[b] => v \in x[b]
    <3> HIDE DEF x, y
    <3> QED BY <2>1, PassRises
  <2>3. ASSUME NEW v PROVE Settled(f, y, v) \/ Cardinality(At(k, v)) >= k
    <3>1. CASE Settled(f, x, v)
      <4>1. \A b \in BlockSet(f) : v \in y[b] => v \in x[b]
        BY <2>2, <3>1
      <4>2. Settled(f, y, v)
        <5>1. ASSUME NEW b \in BlockSet(f), v \in LiveAt(f, y, b)[1] PROVE v \in y[b]
          <6>1. v \in LiveAt(f, x, b)[1]
            <7> HIDE DEF x, y
            <7> QED BY <2>1, <2>2, <4>1, <5>1, LiveAtGrows
          <6>2. v \in x[b]
            BY <3>1, <6>1 DEF Settled
          <6> QED BY <2>2, <6>2 DEF Below
        <5> QED BY <5>1 DEF Settled
      <4> QED BY <4>2
    <3>2. CASE ~Settled(f, x, v)
      <4>1. At(k - 1, v) \subseteq At(k, v)
        BY <2>2 DEF Below, LiveBlocks
      <4>2. At(k - 1, v) # At(k, v)
        BY <2>2, <3>2 DEF LiveBlocks
      <4>3. IsFiniteSet(At(k, v)) /\ Cardinality(At(k, v)) \in Nat /\ Cardinality(At(k - 1, v)) \in Nat
        BY LiveBlocksFinite
      <4>4. Cardinality(At(k - 1, v)) >= k - 1
        BY <1>4, <3>2
      <4> HIDE DEF At
      <4>5. Cardinality(At(k - 1, v)) <= Cardinality(At(k, v)) /\ Cardinality(At(k - 1, v)) # Cardinality(At(k, v))
        BY <4>1, <4>2, <4>3, FS_Subset
      <4> QED BY <1>0, <4>3, <4>4, <4>5
    <3> QED BY <3>1, <3>2
  <2> QED BY <2>2, <2>3
<1>5. \A k \in 0 .. n : k \in S
  <2> HIDE DEF S
  <2> QED BY <1>0, <1>3, <1>4, Upwards
<1> QED BY <1>5 DEF n

\* The passes ComputeLive allows are enough: what they leave is the liveness
\* of the function, at the start of every block just what going back through
\* the block from its successors gives ("We cap at f.Blocks-count + 4 passes
\* to defend against pathological inputs", liveness.go; there are none).
THEOREM LivenessReached ==
  ASSUME NEW f, WellShaped(f)
  PROVE  /\ LiveIn(f) \in Flow(f)
         /\ \A b \in BlockSet(f) : LiveIn(f)[b] = LiveAt(f, LiveIn(f), b)[1]
<1> DEFINE n == MaxPasses(f)
<1>1. PICK h : GoesThrough(f, h) /\ LiveIn(f) = h[n]
  BY LiveInSteps
<1>2. n \in 0 .. n /\ n > Len(f.blocks) /\ n \in Nat /\ Len(f.blocks) \in Nat
  BY DEF WellShaped, MaxPasses
<1>3. h[n] \in Flow(f) /\ Rising(f, h[n])
  BY <1>1, <1>2, PassesCount
<1>4. ASSUME NEW v PROVE Settled(f, h[n], v)
  <2>1. Settled(f, h[n], v) \/ Cardinality(LiveBlocks(f, h[n], v)) >= n
    BY <1>1, <1>2, PassesCount
  <2> HIDE DEF n
  <2>2. /\ Cardinality(LiveBlocks(f, h[n], v)) <= Len(f.blocks)
        /\ Cardinality(LiveBlocks(f, h[n], v)) \in Nat
    BY LiveBlocksFinite
  <2> QED BY <1>2, <2>1, <2>2
<1>5. ASSUME NEW b \in BlockSet(f) PROVE h[n][b] = LiveAt(f, h[n], b)[1]
  BY <1>3, <1>4 DEF Rising, Settled
<1> QED BY <1>1, <1>3, <1>5

---------------------------------------------------------------------------
(* Slots.                                                                  *)

\* The slots hold exactly the values of D, each in one, and no two that
\* interfere in the same.
Shared(pairs, D, slots) ==
    /\ slots \in Seq(SUBSET D)
    /\ \A u \in D : \E i \in DOMAIN slots : u \in slots[i]
    /\ \A i, j \in DOMAIN slots : \A u \in slots[i] : u \in slots[j] => i = j
    /\ \A i \in DOMAIN slots : \A u, v \in slots[i] : u # v => {u, v} \notin pairs

\* The least of some numbers is one of them.
LEMMA MinIn ==
  ASSUME NEW T \in SUBSET Nat, T # {}
  PROVE  Min(T) \in T
<1>1. \E n \in T : \A m \in T : n <= m
  BY Least
<1> QED BY <1>1 DEF Min

\* First fit finds a slot for one more value.
LEMMA FirstFitShares ==
  ASSUME NEW pairs, NEW D, NEW slots, Shared(pairs, D, slots), NEW v, v \notin D
  PROVE  Shared(pairs, D \cup {v}, FirstFit(pairs, slots, v))
<1> DEFINE fits == {i \in DOMAIN slots : \A u \in slots[i] : {u, v} \notin pairs}
           E == D \cup {v}
<1>1. slots \in Seq(SUBSET D) /\ \A i \in DOMAIN slots : slots[i] \subseteq D
  BY DEF Shared
<1>2. CASE fits = {}
  <2> DEFINE new == Append(slots, {v})
  <2>1. FirstFit(pairs, slots, v) = new
    BY <1>2 DEF FirstFit
  <2>2. /\ new \in Seq(SUBSET E) /\ DOMAIN new = 1 .. Len(slots) + 1
        /\ DOMAIN slots = 1 .. Len(slots) /\ Len(slots) \in Nat
        /\ \A i \in DOMAIN new : new[i] = IF i \in DOMAIN slots THEN slots[i] ELSE {v}
    BY <1>1
  <2> HIDE DEF new
  <2>3. \A u \in E : \E i \in DOMAIN new : u \in new[i]
    <3>1. v \in new[Len(slots) + 1] /\ Len(slots) + 1 \in DOMAIN new
      BY <2>2
    <3>2. ASSUME NEW u \in D PROVE \E i \in DOMAIN new : u \in new[i]
      <4>1. PICK i \in DOMAIN slots : u \in slots[i]
        BY DEF Shared
      <4> QED BY <2>2, <4>1
    <3> QED BY <3>1, <3>2
  <2>4. ASSUME NEW i \in DOMAIN new, NEW j \in DOMAIN new, NEW u \in new[i], u \in new[j]
        PROVE  i = j
    <3>1. CASE u = v
      <4>1. i \notin DOMAIN slots /\ j \notin DOMAIN slots
        BY <1>1, <2>2, <2>4, <3>1
      <4> QED BY <2>2, <4>1
    <3>2. CASE u # v
      <4>1. /\ i \in DOMAIN slots /\ j \in DOMAIN slots
            /\ u \in slots[i] /\ u \in slots[j]
        BY <2>2, <2>4, <3>2
      <4> QED BY <4>1 DEF Shared
    <3> QED BY <3>1, <3>2
  <2>5. ASSUME NEW i \in DOMAIN new, NEW u \in new[i], NEW w \in new[i], u # w
        PROVE  {u, w} \notin pairs
    <3>1. i \in DOMAIN slots /\ u \in slots[i] /\ w \in slots[i]
      BY <2>2, <2>5
    <3> QED BY <2>5, <3>1 DEF Shared
  <2> QED BY <2>1, <2>2, <2>3, <2>4, <2>5 DEF Shared
<1>3. CASE fits # {}
  <2> DEFINE m == Min(fits)
             new == [slots EXCEPT ![m] = @ \cup {v}]
  <2>1. FirstFit(pairs, slots, v) = new
    BY <1>3 DEF FirstFit
  <2>2. m \in DOMAIN slots /\ \A u \in slots[m] : {u, v} \notin pairs
    <3>1. fits \in SUBSET Nat
      BY <1>1
    <3>2. m \in fits
      <4> HIDE DEF fits
      <4> QED BY <1>3, <3>1, MinIn
    <3> QED BY <3>2
  <2> HIDE DEF m
  <2>3. /\ new \in Seq(SUBSET E) /\ DOMAIN new = DOMAIN slots
        /\ \A i \in DOMAIN new : new[i] = IF i = m THEN slots[i] \cup {v} ELSE slots[i]
    <3>1. DOMAIN new = DOMAIN slots /\ DOMAIN slots = 1 .. Len(slots) /\ Len(slots) \in Nat
      BY <1>1
    <3>2. ASSUME NEW i \in DOMAIN new
          PROVE  new[i] = (IF i = m THEN slots[i] \cup {v} ELSE slots[i]) /\ new[i] \in SUBSET E
      BY <1>1, <3>1
    <3>3. new = [i \in 1 .. Len(slots) |-> new[i]]
      BY <3>1
    <3>4. new \in Seq(SUBSET E)
      <4> HIDE DEF new, E
      <4> QED BY <3>1, <3>2, <3>3
    <3> QED BY <3>1, <3>2, <3>4
  <2> HIDE DEF new
  <2>4. \A u \in E : \E i \in DOMAIN new : u \in new[i]
    <3>1. v \in new[m] /\ m \in DOMAIN new
      BY <2>2, <2>3
    <3>2. ASSUME NEW u \in D PROVE \E i \in DOMAIN new : u \in new[i]
      <4>1. PICK i \in DOMAIN slots : u \in slots[i]
        BY DEF Shared
      <4> QED BY <2>3, <4>1
    <3> QED BY <3>1, <3>2
  <2>5. ASSUME NEW i \in DOMAIN new, NEW j \in DOMAIN new, NEW u \in new[i], u \in new[j]
        PROVE  i = j
    <3>1. CASE u = v
      <4>1. i = m /\ j = m
        BY <1>1, <2>3, <2>5, <3>1
      <4> QED BY <4>1
    <3>2. CASE u # v
      <4>1. /\ i \in DOMAIN slots /\ j \in DOMAIN slots
            /\ u \in slots[i] /\ u \in slots[j]
        BY <2>3, <2>5, <3>2
      <4> QED BY <4>1 DEF Shared
    <3> QED BY <3>1, <3>2
  <2>6. ASSUME NEW i \in DOMAIN new, NEW u \in new[i], NEW w \in new[i], u # w
        PROVE  {u, w} \notin pairs
    <3>1. CASE u # v /\ w # v
      <4>1. i \in DOMAIN slots /\ u \in slots[i] /\ w \in slots[i]
        BY <2>3, <3>1
      <4> QED BY <2>6, <4>1 DEF Shared
    <3>2. CASE u = v
      <4>1. i = m /\ w \in slots[m]
        BY <1>1, <2>3, <2>6, <3>2
      <4>2. {w, v} = {u, w}
        BY <3>2
      <4> QED BY <2>2, <4>1, <4>2
    <3>3. CASE w = v
      <4>1. i = m /\ u \in slots[m]
        BY <1>1, <2>3, <2>6, <3>3
      <4> QED BY <2>2, <3>3, <4>1
    <3> QED BY <3>1, <3>2, <3>3
  <2> QED BY <2>1, <2>3, <2>4, <2>5, <2>6 DEF Shared
<1> QED BY <1>2, <1>3

\* What first fit leaves holds values only.
LEMMA FirstFitType ==
  ASSUME NEW pairs, NEW A, NEW slots \in Seq(SUBSET A), NEW v \in A
  PROVE  FirstFit(pairs, slots, v) \in Seq(SUBSET A)
<1> DEFINE fits == {i \in DOMAIN slots : \A u \in slots[i] : {u, v} \notin pairs}
           m == Min(fits)
<1>1. CASE fits = {}
  BY <1>1 DEF FirstFit
<1>2. CASE fits # {}
  <2>1. fits \in SUBSET Nat
    OBVIOUS
  <2>2. m \in DOMAIN slots
    <3>1. m \in fits
      <4> HIDE DEF fits
      <4> QED BY <1>2, <2>1, MinIn
    <3> QED BY <3>1
  <2>3. FirstFit(pairs, slots, v) = [slots EXCEPT ![m] = @ \cup {v}]
    BY <1>2 DEF FirstFit
  <2> HIDE DEF m
  <2> QED BY <2>2, <2>3
<1> QED BY <1>1, <1>2

\* The slots of a pool hold the values it is for.
LEMMA PoolShares ==
  ASSUME NEW f, WellShaped(f), NEW pairs, NEW those
  PROVE  Shared(pairs, ValueSet(f) \cap those, Pool(f, pairs, those))
<1> DEFINE n == Len(f.order)
           A == Seq(SUBSET ValueSet(f))
           none == <<>>
           Step(slots, k) == IF f.order[k] \in those THEN FirstFit(pairs, slots, f.order[k]) ELSE slots
           Is(g) == g = [k \in 0 .. n |->
                           IF k = 0 THEN none
                           ELSE IF f.order[k] \in those THEN FirstFit(pairs, g[k - 1], f.order[k])
                           ELSE g[k - 1]]
           pool == CHOOSE g : Is(g)
           F == [k \in 1 .. n |-> [x \in A |-> Step(x, k)]]
           D(k) == {f.order[j] : j \in 1 .. k} \cap those
<1>0. /\ n \in Nat /\ \A k \in 1 .. n : f.order[k] \in ValueSet(f)
      /\ \A j, k \in 1 .. n : f.order[j] = f.order[k] => j = k
      /\ ValueSet(f) = {f.order[j] : j \in 1 .. n}
  BY DEF WellShaped, ValueSet, Range
<1>1. PICK h : h \in Runs(n, A, none, F)
  <2>1. ASSUME NEW k \in 1 .. n, NEW x \in A PROVE F[k][x] \in A
    <3>1. F[k][x] = Step(x, k)
      OBVIOUS
    <3>2. FirstFit(pairs, x, f.order[k]) \in A
      BY <1>0, FirstFitType
    <3> QED BY <3>1, <3>2
  <2>2. none \in A
    OBVIOUS
  <2> HIDE DEF F, n, A, none
  <2> QED BY <1>0, <2>1, <2>2, Recursion
<1>2. Is(h)
  <2>1. ASSUME NEW k \in 0 .. n
        PROVE  h[k] = IF k = 0 THEN none
                      ELSE IF f.order[k] \in those THEN FirstFit(pairs, h[k - 1], f.order[k])
                      ELSE h[k - 1]
    <3>1. CASE k = 0
      BY <1>1, <3>1 DEF Runs
    <3>2. CASE k # 0
      <4>1. k \in 1 .. n /\ h[k - 1] \in A
        <5> HIDE DEF A, F
        <5> QED BY <1>0, <1>1, <3>2 DEF Runs
      <4>2. h[k] = F[k][h[k - 1]]
        <5> HIDE DEF A, F
        <5> QED BY <1>1, <4>1 DEF Runs
      <4> QED BY <4>1, <4>2, <3>2
    <3> QED BY <3>1, <3>2
  <2> QED BY <1>1, <2>1 DEF Runs
<1>3. Is(pool)
  BY <1>2
<1>4. Pool(f, pairs, those) = pool[n]
  BY DEF Pool
<1> HIDE DEF pool, none
<1>5. pool[0] = none /\ \A k \in 1 .. n : pool[k] = Step(pool[k - 1], k)
  <2>1. pool[0] = none
    BY <1>0, <1>3
  <2>2. ASSUME NEW k \in 1 .. n PROVE pool[k] = Step(pool[k - 1], k)
    BY <1>0, <1>3
  <2> QED BY <2>1, <2>2
<1> DEFINE S == {k \in 0 .. n : Shared(pairs, D(k), pool[k])}
<1>6. 0 \in S
  <2>1. D(0) = {}
    OBVIOUS
  <2>2. Shared(pairs, {}, none)
    BY DEF Shared, none
  <2>3. Shared(pairs, D(0), pool[0])
    BY <1>5, <2>1, <2>2, Zenon
  <2> QED BY <1>0, <2>3
<1>7. ASSUME NEW k \in 1 .. n, k - 1 \in S PROVE k \in S
  <2>1. {f.order[j] : j \in 1 .. k} = {f.order[j] : j \in 1 .. k - 1} \cup {f.order[k]}
    <3>1. 1 .. k = (1 .. k - 1) \cup {k}
      OBVIOUS
    <3> QED BY <3>1
  <2>2. CASE f.order[k] \in those
    <3>1. f.order[k] \notin D(k - 1)
      BY <1>0
    <3>2. D(k) = D(k - 1) \cup {f.order[k]}
      BY <2>1, <2>2
    <3>3. pool[k] = FirstFit(pairs, pool[k - 1], f.order[k]) /\ Shared(pairs, D(k - 1), pool[k - 1])
      BY <1>5, <1>7, <2>2
    <3> HIDE DEF D
    <3>4. Shared(pairs, D(k), pool[k])
      BY <3>1, <3>2, <3>3, FirstFitShares
    <3> QED BY <3>4
  <2>3. CASE f.order[k] \notin those
    <3>1. D(k) = D(k - 1)
      BY <2>1, <2>3
    <3>2. pool[k] = pool[k - 1] /\ Shared(pairs, D(k - 1), pool[k - 1])
      BY <1>5, <1>7, <2>3
    <3> HIDE DEF D
    <3> QED BY <3>1, <3>2
  <2> QED BY <2>2, <2>3
<1>8. n \in S
  <2> HIDE DEF S
  <2>1. \A k \in 0 .. n : k \in S
    BY <1>0, <1>6, <1>7, Upwards
  <2> QED BY <1>0, <2>1
<1>9. D(n) = ValueSet(f) \cap those
  BY <1>0
<1> HIDE DEF D
<1> QED BY <1>4, <1>8, <1>9

\* The slot of a value is the one that holds it.
LEMMA SlotFound ==
  ASSUME NEW f, WellShaped(f), NEW pairs, NEW those \in SUBSET ValueSet(f)
  PROVE  LET pool == Pool(f, pairs, those) IN
         /\ Len(pool) \in Nat
         /\ \A v \in those : SlotOf(pool, v) \in 1 .. Len(pool) /\ v \in pool[SlotOf(pool, v)]
         /\ \A u, v \in those :
               u # v /\ SlotOf(pool, u) = SlotOf(pool, v) => {u, v} \notin pairs
<1> DEFINE pool == Pool(f, pairs, those)
<1>1. Shared(pairs, those, pool)
  <2>1. ValueSet(f) \cap those = those
    OBVIOUS
  <2> QED BY <2>1, PoolShares
<1> HIDE DEF pool
<1>2. Len(pool) \in Nat /\ DOMAIN pool = 1 .. Len(pool)
  BY <1>1 DEF Shared
<1>3. ASSUME NEW v \in those
      PROVE  SlotOf(pool, v) \in DOMAIN pool /\ v \in pool[SlotOf(pool, v)]
  BY <1>1 DEF Shared, SlotOf
<1>4. ASSUME NEW u \in those, NEW v \in those, u # v, SlotOf(pool, u) = SlotOf(pool, v)
      PROVE  {u, v} \notin pairs
  <2>1. SlotOf(pool, u) \in DOMAIN pool /\ u \in pool[SlotOf(pool, u)] /\ v \in pool[SlotOf(pool, u)]
    BY <1>3, <1>4
  <2> QED BY <1>1, <1>4, <2>1 DEF Shared
<1> QED BY <1>2, <1>3, <1>4 DEF pool

\* Rounding up to 8 bytes.
LEMMA AlignedUp ==
  ASSUME NEW n \in Nat
  PROVE  AlignUp(n, 8) \in Nat /\ AlignUp(n, 8) >= n /\ AlignUp(n, 8) % 8 = 0
BY DEF AlignUp

\* Every value that is spilled has a slot of its size in the frame, aligned;
\* two have the same slot or slots that do not touch; and if one is written
\* where the other is read later, they do not touch ("Two values that
\* interfere cannot share a slot", stackalloc.go).
THEOREM SlotsApart ==
  ASSUME NEW f, WellShaped(f), NEW those \in SUBSET ValueSet(f), NEW base \in Nat,
         \A v \in those : f.size[v] \in {4, 8}
  PROVE  LET slots == AllocateSlots(f, those, base)
             apart(u, v) == slots.at[u] + f.size[u] <= slots.at[v]
                              \/ slots.at[v] + f.size[v] <= slots.at[u]
         IN  /\ \A v \in those :
                   /\ slots.at[v] \in Nat /\ base <= slots.at[v]
                   /\ slots.at[v] + f.size[v] <= slots.frame
                   /\ base % 4 = 0 => slots.at[v] % f.size[v] = 0
             /\ \A u, v \in those :
                   apart(u, v) \/ (f.size[u] = f.size[v] /\ slots.at[u] = slots.at[v])
             /\ \A u, v \in those :
                   u # v /\ {u, v} \in ComputeInterference(f, those) => apart(u, v)
<1> DEFINE slots == AllocateSlots(f, those, base)
           apart(u, v) == slots.at[u] + f.size[u] <= slots.at[v]
                            \/ slots.at[v] + f.size[v] <= slots.at[u]
           pairs == ComputeInterference(f, those)
           small == {v \in those : f.size[v] = 4}
           large == {v \in those : f.size[v] = 8}
           p32 == Pool(f, pairs, small)
           p64 == Pool(f, pairs, large)
           base64 == AlignUp(base + 4 * Len(p32), 8)
           s(v) == IF f.size[v] = 4 THEN SlotOf(p32, v) ELSE SlotOf(p64, v)
<1>1. /\ \A v \in those : slots.at[v] = IF v \in small THEN base + 4 * (s(v) - 1)
                                        ELSE base64 + 8 * (s(v) - 1)
      /\ slots.frame = AlignUp(base64 + 8 * Len(p64), 8)
  BY DEF AllocateSlots
<1>2. /\ Len(p32) \in Nat
      /\ \A v \in small : s(v) \in 1 .. Len(p32)
      /\ \A u, v \in small : u # v /\ s(u) = s(v) => {u, v} \notin pairs
  <2>1. small \in SUBSET ValueSet(f) /\ \A v \in small : s(v) = SlotOf(p32, v)
    OBVIOUS
  <2> HIDE DEF small, s, pairs
  <2> QED BY <2>1, SlotFound
<1>3. /\ Len(p64) \in Nat
      /\ \A v \in large : s(v) \in 1 .. Len(p64)
      /\ \A u, v \in large : u # v /\ s(u) = s(v) => {u, v} \notin pairs
  <2>1. large \in SUBSET ValueSet(f) /\ \A v \in large : s(v) = SlotOf(p64, v)
    OBVIOUS
  <2> HIDE DEF large, s, pairs
  <2> QED BY <2>1, SlotFound
<1>4. /\ those = small \cup large
      /\ \A v \in small : f.size[v] = 4 /\ v \notin large
      /\ \A v \in large : f.size[v] = 8 /\ v \notin small
  OBVIOUS
<1> HIDE DEF slots, pairs, p32, p64, base64, s, small, large
<1>5. base64 \in Nat /\ base64 >= base + 4 * Len(p32) /\ base64 % 8 = 0
  <2>1. base + 4 * Len(p32) \in Nat
    BY <1>2
  <2> QED BY <2>1, AlignedUp DEF base64
<1>6. /\ base64 \in Nat /\ base64 >= base + 4 * Len(p32) /\ base64 >= base
      /\ slots.frame \in Nat /\ slots.frame >= base64 + 8 * Len(p64) /\ slots.frame >= base64
  <2>1. base64 \in Nat /\ base64 >= base + 4 * Len(p32)
    BY <1>5
  <2>2. base64 >= base
    BY <1>2, <2>1
  <2>3. base64 + 8 * Len(p64) \in Nat /\ base64 + 8 * Len(p64) >= base64
    BY <1>3, <2>1
  <2>4. slots.frame \in Nat /\ slots.frame >= base64 + 8 * Len(p64)
    BY <1>1, <2>3, AlignedUp
  <2> QED BY <2>1, <2>2, <2>3, <2>4
<1>7. ASSUME NEW v \in small
      PROVE  /\ slots.at[v] = base + 4 * (s(v) - 1) /\ s(v) \in 1 .. Len(p32)
             /\ slots.at[v] \in Nat /\ base <= slots.at[v] /\ slots.at[v] + 4 <= base64
             /\ slots.at[v] + 4 <= slots.frame
  <2>1. slots.at[v] = base + 4 * (s(v) - 1) /\ s(v) \in 1 .. Len(p32)
    BY <1>1, <1>2, <1>4
  <2>2. slots.at[v] \in Nat /\ base <= slots.at[v] /\ slots.at[v] + 4 <= base64
    BY <1>2, <1>6, <2>1
  <2>3. slots.at[v] + 4 <= slots.frame
    BY <1>6, <2>2
  <2> QED BY <2>1, <2>2, <2>3
<1>8. ASSUME NEW v \in large
      PROVE  /\ slots.at[v] = base64 + 8 * (s(v) - 1) /\ s(v) \in 1 .. Len(p64)
             /\ slots.at[v] \in Nat /\ base64 <= slots.at[v] /\ base <= slots.at[v]
             /\ slots.at[v] + 8 <= slots.frame
  <2>1. slots.at[v] = base64 + 8 * (s(v) - 1) /\ s(v) \in 1 .. Len(p64)
    BY <1>1, <1>3, <1>4
  <2>2. slots.at[v] \in Nat /\ base64 <= slots.at[v] /\ slots.at[v] + 8 <= slots.frame
    BY <1>3, <1>6, <2>1
  <2>3. base <= slots.at[v]
    BY <1>6, <2>2
  <2> QED BY <2>1, <2>2, <2>3
<1>9. ASSUME NEW v \in those
      PROVE  /\ slots.at[v] \in Nat /\ base <= slots.at[v]
             /\ slots.at[v] + f.size[v] <= slots.frame
             /\ base % 4 = 0 => slots.at[v] % f.size[v] = 0
  <2>1. CASE v \in small
    <3>1. slots.at[v] = base + 4 * (s(v) - 1) /\ s(v) \in Int
      BY <1>7, <2>1
    <3>2. base % 4 = 0 => slots.at[v] % 4 = 0
      BY <3>1
    <3>3. f.size[v] = 4
      BY <1>4, <2>1
    <3> QED BY <1>7, <2>1, <3>2, <3>3
  <2>2. CASE v \in large
    <3>1. slots.at[v] = base64 + 8 * (s(v) - 1) /\ s(v) \in Int
      BY <1>8, <2>2
    <3>2. slots.at[v] % 8 = 0
      BY <1>5, <3>1
    <3>3. f.size[v] = 8
      BY <1>4, <2>2
    <3> QED BY <1>8, <2>2, <3>2, <3>3
  <2> QED BY <1>4, <2>1, <2>2
<1>10. ASSUME NEW u \in those, NEW v \in those
       PROVE  \/ apart(u, v)
              \/ f.size[u] = f.size[v] /\ slots.at[u] = slots.at[v] /\ (u # v => {u, v} \notin pairs)
  <2>1. CASE u \in small /\ v \in small
    <3>1. s(u) = s(v) /\ u # v => {u, v} \notin pairs
      BY <1>2, <2>1
    <3>2. ASSUME NEW x \in small, NEW y \in small, s(x) < s(y)
          PROVE  slots.at[x] + 4 <= slots.at[y]
      <4>1. /\ slots.at[x] = base + 4 * (s(x) - 1) /\ s(x) \in Int
            /\ slots.at[y] = base + 4 * (s(y) - 1) /\ s(y) \in Int
        BY <1>7
      <4> QED BY <3>2, <4>1
    <3>3. s(u) < s(v) \/ s(v) < s(u) \/ s(u) = s(v)
      BY <1>7, <2>1
    <3>5. s(u) = s(v) => slots.at[u] = slots.at[v]
      BY <1>7, <2>1
    <3>4. f.size[u] = 4 /\ f.size[v] = 4
      BY <1>4, <2>1
    <3> QED BY <2>1, <3>1, <3>2, <3>3, <3>4, <3>5
  <2>2. CASE u \in large /\ v \in large
    <3>1. s(u) = s(v) /\ u # v => {u, v} \notin pairs
      BY <1>3, <2>2
    <3>2. ASSUME NEW x \in large, NEW y \in large, s(x) < s(y)
          PROVE  slots.at[x] + 8 <= slots.at[y]
      <4>1. /\ slots.at[x] = base64 + 8 * (s(x) - 1) /\ s(x) \in Int
            /\ slots.at[y] = base64 + 8 * (s(y) - 1) /\ s(y) \in Int /\ base64 \in Int
        BY <1>6, <1>8
      <4> QED BY <3>2, <4>1
    <3>3. s(u) < s(v) \/ s(v) < s(u) \/ s(u) = s(v)
      BY <1>8, <2>2
    <3>5. s(u) = s(v) => slots.at[u] = slots.at[v]
      BY <1>8, <2>2
    <3>4. f.size[u] = 8 /\ f.size[v] = 8
      BY <1>4, <2>2
    <3> QED BY <2>2, <3>1, <3>2, <3>3, <3>4, <3>5
  <2>3. ASSUME NEW x \in small, NEW y \in large PROVE slots.at[x] + f.size[x] <= slots.at[y]
    <3>1. /\ slots.at[x] \in Nat /\ slots.at[y] \in Nat /\ base64 \in Nat
          /\ slots.at[x] + 4 <= base64 /\ base64 <= slots.at[y]
      BY <1>6, <1>7, <1>8
    <3>2. f.size[x] = 4
      BY <1>4
    <3> QED BY <3>1, <3>2
  <2> QED BY <1>4, <2>1, <2>2, <2>3
<1>11. ASSUME NEW v \in those PROVE f.size[v] > 0 /\ slots.at[v] \in Nat
  BY <1>9
<1>12. ASSUME NEW u \in those, NEW v \in those, u # v, {u, v} \in pairs PROVE apart(u, v)
  BY <1>10, <1>12
<1> QED BY <1>9, <1>10, <1>12 DEF slots, pairs

---------------------------------------------------------------------------
(* Nothing is live before it is defined.                                   *)

\* What is live at the start of a block is defined on every path to it.
Available(f, before, in) == \A b \in BlockSet(f) : in[b] \subseteq before[b]

\* Going back through a block ends at what is defined before the block.
LEMMA LiveAreDefined ==
  ASSUME NEW f, WellShaped(f), NEW first, NEW before, DefinedFirst(f, first, before),
         NEW in \in Flow(f), Available(f, before, in), NEW b \in BlockSet(f)
  PROVE  \A i \in 1 .. Len(f.values[b]) + 1 : LiveAt(f, in, b)[i] \subseteq DefinedAt(f, before, b, i)
<1> DEFINE n == Len(f.values[b])
           h == LiveAt(f, in, b)
           D(i) == DefinedAt(f, before, b, i)
           S == {i \in 1 .. n + 1 : h[i] \subseteq D(i)}
<1>0. n \in Nat /\ DOMAIN f.values[b] = 1 .. n
  BY UsesType
<1>1. /\ h[n + 1] = LiveOut(f, in, b) \cup f.ends[b]
      /\ \A i \in 1 .. n : h[i] = (h[i + 1] \ {f.values[b][i]}) \cup Uses(f, b)[f.values[b][i]]
  BY LiveAtSteps DEF GoesBack
<1>2. D(n + 1) = before[b] \cup Range(f.values[b])
  BY <1>0 DEF DefinedAt, Range
<1>3. /\ f.ends[b] \subseteq D(n + 1)
      /\ \A e \in Range(f.succs[b]) :
            before[e.to] \subseteq D(n + 1) /\ \A p \in PhisOf(f, e.to) : f.args[p][e.at] \in D(n + 1)
      /\ \A i \in 1 .. n : Uses(f, b)[f.values[b][i]] \subseteq D(i)
  BY <1>0, <1>2 DEF DefinedFirst
<1> HIDE DEF n, h
<1>4. n + 1 \in S
  <2>1. ASSUME NEW e \in Range(f.succs[b])
        PROVE  in[e.to] \cup {f.args[p][e.at] : p \in PhisOf(f, e.to)} \subseteq D(n + 1)
    <3>1. in[e.to] \subseteq before[e.to]
      BY EdgeArgument DEF Available
    <3> HIDE DEF D
    <3> QED BY <1>3, <3>1
  <2>2. LiveOut(f, in, b) \subseteq D(n + 1)
    <3> HIDE DEF D
    <3> QED BY <2>1 DEF LiveOut
  <2> QED BY <1>0, <1>1, <1>3, <2>2
<1>5. ASSUME NEW i \in 1 .. n, i + 1 \in S PROVE i \in S
  <2>1. D(i + 1) = D(i) \cup {f.values[b][i]}
    <3>1. 1 .. (i + 1) - 1 = (1 .. i - 1) \cup {i}
      BY <1>0
    <3> QED BY <3>1 DEF DefinedAt
  <2>2. h[i + 1] \subseteq D(i + 1) /\ i \in 1 .. n + 1
    BY <1>0, <1>5
  <2>3. h[i] = (h[i + 1] \ {f.values[b][i]}) \cup Uses(f, b)[f.values[b][i]]
    BY <1>1
  <2>4. Uses(f, b)[f.values[b][i]] \subseteq D(i)
    BY <1>3
  <2> HIDE DEF D
  <2> QED BY <2>1, <2>2, <2>3, <2>4
<1>6. \A i \in 1 .. n + 1 : i \in S
  <2> HIDE DEF S
  <2> QED BY <1>0, <1>4, <1>5, Downwards
<1> HIDE DEF D
<1>7. \A i \in 1 .. n + 1 : h[i] \subseteq D(i)
  BY <1>6
<1> QED BY <1>7 DEF n, h, D

\* A visit, a pass and all of them keep it so.
LEMMA VisitAvailable ==
  ASSUME NEW f, WellShaped(f), NEW first, NEW before, DefinedFirst(f, first, before),
         NEW in \in Flow(f), Available(f, before, in), NEW b \in BlockSet(f)
  PROVE  Available(f, before, Visit(f, in, b))
<1>1. 1 \in 1 .. Len(f.values[b]) + 1
  BY UsesType
<1>2. LiveAt(f, in, b)[1] \subseteq before[b]
  <2>1. LiveAt(f, in, b)[1] \subseteq DefinedAt(f, before, b, 1)
    BY <1>1, LiveAreDefined
  <2>2. DefinedAt(f, before, b, 1) = before[b]
    BY DEF DefinedAt
  <2> QED BY <2>1, <2>2
<1>3. ASSUME NEW c \in BlockSet(f) PROVE Visit(f, in, b)[c] \subseteq before[c]
  <2>1. Visit(f, in, b)[c] = IF c = b THEN LiveAt(f, in, b)[1] ELSE in[c]
    BY VisitAt
  <2> QED BY <1>2, <2>1 DEF Available
<1> QED BY <1>3 DEF Available

\* Nor does a pass make live what is not defined before.
LEMMA PassAvailable ==
  ASSUME NEW f, WellShaped(f), NEW first, NEW before, DefinedFirst(f, first, before),
         NEW in \in Flow(f), Available(f, before, in)
  PROVE  Available(f, before, LivePass(f, in))
<1>1. PICK h : GoesOver(f, in, h) /\ LivePass(f, in) = h[Len(f.blocks)]
  BY LivePassSteps
<1> DEFINE n == Len(f.blocks)
           S == {k \in 0 .. n : Available(f, before, h[k])}
<1>2. n \in Nat /\ \A k \in 1 .. n : f.blocks[n + 1 - k] \in BlockSet(f)
  BY DEF WellShaped, BlockSet, Range
<1>3. /\ h[0] = in
      /\ \A k \in 0 .. n : h[k] \in Flow(f)
      /\ \A k \in 1 .. n : h[k] = Visit(f, h[k - 1], f.blocks[n + 1 - k])
  BY <1>1 DEF GoesOver
<1> HIDE DEF n
<1>4. 0 \in S
  BY <1>2, <1>3
<1>5. ASSUME NEW k \in 1 .. n, k - 1 \in S PROVE k \in S
  <2>1. h[k - 1] \in Flow(f) /\ f.blocks[n + 1 - k] \in BlockSet(f) /\ Available(f, before, h[k - 1])
    BY <1>2, <1>3, <1>5
  <2>2. Available(f, before, Visit(f, h[k - 1], f.blocks[n + 1 - k]))
    BY <2>1, VisitAvailable
  <2> QED BY <1>2, <1>3, <2>2
<1>6. \A k \in 0 .. n : k \in S
  <2> HIDE DEF S
  <2> QED BY <1>2, <1>4, <1>5, Upwards
<1>7. Available(f, before, h[n])
  BY <1>2, <1>6
<1> QED BY <1>1, <1>7 DEF n

\* What liveness ends with is defined on every path.
LEMMA LiveInAvailable ==
  ASSUME NEW f, WellShaped(f), NEW first, NEW before, DefinedFirst(f, first, before)
  PROVE  Available(f, before, LiveIn(f))
<1>1. PICK h : GoesThrough(f, h) /\ LiveIn(f) = h[MaxPasses(f)]
  BY LiveInSteps
<1> DEFINE n == MaxPasses(f)
           S == {k \in 0 .. n : Available(f, before, h[k])}
<1>2. n \in Nat
  BY DEF WellShaped, MaxPasses
<1>3. /\ h[0] = [b \in BlockSet(f) |-> {}]
      /\ \A k \in 0 .. n : h[k] \in Flow(f)
      /\ \A k \in 1 .. n : h[k] = LivePass(f, h[k - 1])
  BY <1>1 DEF GoesThrough
<1> HIDE DEF n
<1>4. 0 \in S
  BY <1>2, <1>3 DEF Available
<1>5. ASSUME NEW k \in 1 .. n, k - 1 \in S PROVE k \in S
  <2>1. h[k - 1] \in Flow(f) /\ Available(f, before, h[k - 1])
    BY <1>2, <1>3, <1>5
  <2>2. Available(f, before, LivePass(f, h[k - 1]))
    BY <2>1, PassAvailable
  <2> QED BY <1>2, <1>3, <2>2
<1>6. \A k \in 0 .. n : k \in S
  <2> HIDE DEF S
  <2> QED BY <1>2, <1>4, <1>5, Upwards
<1>7. Available(f, before, h[n])
  BY <1>2, <1>6
<1> QED BY <1>1, <1>7 DEF n

---------------------------------------------------------------------------
(* The slots as the function runs.                                         *)

\* The function is one the compiler hands over, and its slots are where the
\* allocator put them.
Assembled(before, base) ==
    /\ HandedOver(flow, entry, before, spilled, silent, fused, staged)
    /\ base \in Nat /\ at = AllocateSlots(flow, spilled, base).at

\* What the allocator finds live at the end of a block, and what it finds
\* needed at every place of it.
OutOf(b) == LiveOut(flow, LiveIn(flow), b)
Needed(b) == NeededAt(flow, spilled, OutOf(b), b)

\* What is live at a place, but for copies that only the end of the block
\* reads: the allocator does not look through these.
Carried(b) ==
    Back(flow.values[b], OutOf(b) \cup {w \in flow.ends[b] : flow.root[w] = w}, Uses(flow, b))

\* The two go back through a block, and so does liveness.
LEMMA Backwards ==
  ASSUME NEW before, NEW base, Assembled(before, base), NEW b \in BlockSet(flow)
  PROVE  LET live == OutOf(b) \cup {w \in flow.ends[b] : flow.root[w] = w}
             read == ({flow.root[v] : v \in OutOf(b)} \cup flow.ends[b]) \cap spilled
         IN  /\ GoesBack(ValueSet(flow), flow.values[b], live, Uses(flow, b), Carried(b))
             /\ GoesBack(ValueSet(flow), flow.values[b], read, SlotUses(flow, spilled, b), Needed(b))
             /\ \A i \in 1 .. Len(flow.values[b]) + 1 : Carried(b)[i] \subseteq LiveAt(flow, LiveIn(flow), b)[i]
<1> DEFINE live == OutOf(b) \cup {w \in flow.ends[b] : flow.root[w] = w}
           all  == OutOf(b) \cup flow.ends[b]
           read == ({flow.root[v] : v \in OutOf(b)} \cup flow.ends[b]) \cap spilled
<1>1. /\ WellShaped(flow) /\ LiveIn(flow) \in Flow(flow) /\ spilled \in SUBSET ValueSet(flow)
      /\ flow.values[b] \in Seq(ValueSet(flow))
      /\ Uses(flow, b) \in [Range(flow.values[b]) -> SUBSET ValueSet(flow)]
  BY LivenessReached, UsesType DEF Assembled, HandedOver
<1>2. live \in SUBSET ValueSet(flow) /\ read \in SUBSET ValueSet(flow)
  <2>1. OutOf(b) \in SUBSET ValueSet(flow)
    BY <1>1, LiveOutType DEF OutOf
  <2>2. flow.ends[b] \in SUBSET ValueSet(flow)
    BY <1>1 DEF WellShaped
  <2> QED BY <1>1, <2>1, <2>2
<1>3. GoesBack(ValueSet(flow), flow.values[b], live, Uses(flow, b), Carried(b))
  BY <1>1, <1>2, BackSteps DEF Carried
<1>4. GoesBack(ValueSet(flow), flow.values[b], read, SlotUses(flow, spilled, b), Needed(b))
  <2>1. SlotUses(flow, spilled, b) \in [Range(flow.values[b]) -> SUBSET ValueSet(flow)]
    BY <1>1 DEF SlotUses
  <2> QED BY <1>1, <1>2, <2>1, BackSteps DEF Needed, NeededAt
<1>5. GoesBack(ValueSet(flow), flow.values[b], all, Uses(flow, b), LiveAt(flow, LiveIn(flow), b))
  BY <1>1, LiveAtSteps DEF OutOf
<1>6. ASSUME NEW w
      PROVE  \A i \in 1 .. Len(flow.values[b]) + 1 :
                w \in Carried(b)[i] => w \in LiveAt(flow, LiveIn(flow), b)[i]
  <2>1. w \in live => w \in all
    OBVIOUS
  <2> HIDE DEF live, all
  <2> QED BY <1>1, <1>3, <1>5, <2>1, BackGrows
<1> QED BY <1>3, <1>4, <1>6

\* The allocator knows of what is read later: what a live value is a copy of
\* is needed, as no copy comes before what it is of.
LEMMA CarriedNeeded ==
  ASSUME NEW before, NEW base, Assembled(before, base), NEW b \in BlockSet(flow), NEW w,
         flow.root[w] \in spilled
  PROVE  \A i \in 1 .. Len(flow.values[b]) + 1 : w \in Carried(b)[i] => flow.root[w] \in Needed(b)[i]
<1> DEFINE n == Len(flow.values[b])
           vs == flow.values[b]
           S == {i \in 1 .. n + 1 : w \in Carried(b)[i] => flow.root[w] \in Needed(b)[i]}
<1>0. /\ WellShaped(flow) /\ DefinedFirst(flow, entry, before) /\ LiveIn(flow) \in Flow(flow)
      /\ n \in Nat /\ DOMAIN vs = 1 .. n
  BY LivenessReached, UsesType DEF Assembled, HandedOver
<1>1. /\ Carried(b)[n + 1] = OutOf(b) \cup {x \in flow.ends[b] : flow.root[x] = x}
      /\ Needed(b)[n + 1] = ({flow.root[v] : v \in OutOf(b)} \cup flow.ends[b]) \cap spilled
      /\ \A i \in 1 .. n : Carried(b)[i] = (Carried(b)[i + 1] \ {vs[i]}) \cup Uses(flow, b)[vs[i]]
      /\ \A i \in 1 .. n : Needed(b)[i] = (Needed(b)[i + 1] \ {vs[i]}) \cup SlotUses(flow, spilled, b)[vs[i]]
      /\ \A i \in 1 .. n + 1 : Carried(b)[i] \subseteq LiveAt(flow, LiveIn(flow), b)[i]
  BY Backwards DEF GoesBack
<1>2. n + 1 \in S
  BY <1>0, <1>1
<1>3. ASSUME NEW i \in 1 .. n, i + 1 \in S PROVE i \in S
  <2>1. SUFFICES ASSUME w \in Carried(b)[i] PROVE flow.root[w] \in Needed(b)[i]
    BY <1>0
  <2>2. CASE w \in Uses(flow, b)[vs[i]]
    <3>1. vs[i] \in Range(vs)
      BY <1>0 DEF Range
    <3>2. w \in Range(flow.args[vs[i]])
      BY <2>2, <3>1 DEF Uses
    <3>3. flow.root[w] \in SlotUses(flow, spilled, b)[vs[i]]
      BY <3>1, <3>2 DEF SlotUses, Arguments
    <3> QED BY <1>1, <3>3
  <2>3. CASE w \notin Uses(flow, b)[vs[i]]
    <3>1. w \in Carried(b)[i + 1]
      BY <1>1, <2>1, <2>3
    <3>2. flow.root[w] \in Needed(b)[i + 1]
      BY <1>0, <1>3, <3>1
    <3>3. w \in DefinedAt(flow, before, b, i)
      <4>1. w \in LiveAt(flow, LiveIn(flow), b)[i]
        BY <1>0, <1>1, <2>1
      <4>2. Available(flow, before, LiveIn(flow))
        BY <1>0, LiveInAvailable
      <4>3. LiveAt(flow, LiveIn(flow), b)[i] \subseteq DefinedAt(flow, before, b, i)
        BY <1>0, <4>2, LiveAreDefined
      <4> QED BY <4>1, <4>3
    <3>4. /\ before[b] \cap Range(vs) = {} /\ (\A v \in before[b] : flow.root[v] \in before[b])
          /\ \A j \in 1 .. n : flow.root[vs[j]] \in DefinedAt(flow, before, b, j + 1)
      BY <1>0 DEF DefinedFirst
    <3>5. flow.root[w] # vs[i]
      <4>1. vs[i] \in Range(vs) /\ \A j, k \in 1 .. n : vs[j] = vs[k] => j = k
        BY <1>0 DEF WellShaped, Range
      <4>2. CASE w \in before[b]
        BY <3>4, <4>1, <4>2
      <4>3. CASE w \notin before[b]
        <5>1. PICK j \in 1 .. i - 1 : w = vs[j]
          BY <3>3, <4>3 DEF DefinedAt
        <5>2. j \in 1 .. n /\ flow.root[w] \in DefinedAt(flow, before, b, j + 1)
          BY <1>0, <3>4, <5>1
        <5>3. CASE flow.root[w] \in before[b]
          BY <3>4, <4>1, <5>3
        <5>4. CASE flow.root[w] \notin before[b]
          <6>1. PICK k \in 1 .. (j + 1) - 1 : flow.root[w] = vs[k]
            BY <5>2, <5>4 DEF DefinedAt
          <6>2. k \in 1 .. n /\ k # i
            BY <1>0, <5>1, <5>2, <6>1
          <6> QED BY <4>1, <6>1, <6>2
        <5> QED BY <5>3, <5>4
      <4> QED BY <4>2, <4>3
    <3> QED BY <1>1, <3>2, <3>5
  <2> QED BY <2>2, <2>3
<1>4. \A i \in 1 .. n + 1 : i \in S
  <2> HIDE DEF S, n
  <2> QED BY <1>0, <1>2, <1>3, Downwards
<1> QED BY <1>4

\* What is needed after a value is written lives apart from it.
LEMMA NeededApart ==
  ASSUME NEW before, NEW base, Assembled(before, base), NEW b \in BlockSet(flow),
         NEW i \in 1 .. Len(flow.values[b]), flow.values[b][i] \in spilled,
         NEW u \in Needed(b)[i + 1], u \in spilled, u # flow.values[b][i]
  PROVE  Apart(u, flow.values[b][i])
<1> DEFINE v == flow.values[b][i]
<1>1. {v, u} \in InterferenceIn(flow, spilled, OutOf(b), b)
  <2>1. i \in {j \in DOMAIN flow.values[b] : flow.values[b][j] \in spilled}
    <3>1. flow.values[b] \in Seq(ValueSet(flow))
      BY DEF Assembled, HandedOver, WellShaped
    <3> QED BY <3>1
  <2> QED BY <2>1 DEF InterferenceIn, Needed
<1>2. {v, u} \in ComputeInterference(flow, spilled)
  <2>1. ComputeLive(flow)[b] = OutOf(b) /\ b \in Range(flow.blocks)
    BY DEF ComputeLive, OutOf, BlockSet
  <2> QED BY <1>1, <2>1 DEF ComputeInterference
<1>3. {u, v} \in ComputeInterference(flow, spilled)
  <2>1. {u, v} = {v, u}
    OBVIOUS
  <2> QED BY <1>2, <2>1
<1> HIDE DEF v
<1>4. at[u] + flow.size[u] <= at[v] \/ at[v] + flow.size[v] <= at[u]
  BY <1>3, SlotsApart DEF Assembled, HandedOver, v
<1> QED BY <1>4 DEF Apart, v

\* The arguments of phis that are copied one after the other are needed
\* until theirs is: the phis in between do not write them.
LEMMA PhiNeeded ==
  ASSUME NEW before, NEW base, Assembled(before, base), NEW b \in BlockSet(flow), b \notin staged,
         NEW j \in 1 .. Len(flow.values[b]), flow.values[b][j] \in flow.phis,
         NEW i \in 1 .. j, NEW k \in DOMAIN flow.args[flow.values[b][j]],
         flow.root[flow.args[flow.values[b][j]][k]] \in spilled
  PROVE  flow.root[flow.args[flow.values[b][j]][k]] \in Needed(b)[i]
<1> DEFINE vs == flow.values[b]
           q == vs[j]
           u == flow.root[flow.args[q][k]]
<1>1. WellShaped(flow) /\ vs \in Seq(ValueSet(flow)) /\ q \in Range(vs) /\ q \in ValueSet(flow)
  <2>1. WellShaped(flow)
    BY DEF Assembled, HandedOver
  <2>2. vs \in Seq(ValueSet(flow)) /\ Range(vs) \subseteq ValueSet(flow)
    BY <2>1, UsesType
  <2>3. q \in Range(vs)
    BY <2>2 DEF Range
  <2> QED BY <2>1, <2>2, <2>3
<1>2. GoesBack(ValueSet(flow), vs, ({flow.root[v] : v \in OutOf(b)} \cup flow.ends[b]) \cap spilled,
               SlotUses(flow, spilled, b), Needed(b))
  BY Backwards
<1>3. u \in Needed(b)[j]
  <2>1. u \in SlotUses(flow, spilled, b)[q]
    <3>1. flow.args[q][k] \in Range(flow.args[q])
      BY DEF Range
    <3> QED BY <1>1, <3>1 DEF SlotUses, Arguments
  <2> QED BY <1>2, <2>1 DEF GoesBack
<1>4. ASSUME NEW m \in i .. j - 1 PROVE vs[m] # u
  <2>1. m \in 1 .. Len(vs) /\ m # j /\ m < j
    BY <1>1
  <2>2. vs[m] \in flow.phis /\ vs[m] \in Range(vs) /\ vs[m] # q
    <3>1. vs[m] \in Range(vs)
      BY <1>1, <2>1 DEF Range
    <3>2. /\ vs[m] = vs[j] => m = j
          /\ vs[j] \in flow.phis /\ m < j => vs[m] \in flow.phis
      <4>1. m \in DOMAIN flow.values[b] /\ j \in DOMAIN flow.values[b]
        BY <1>1, <2>1
      <4>2. \A x, y \in DOMAIN flow.values[b] :
               /\ flow.values[b][x] = flow.values[b][y] => x = y
               /\ flow.values[b][y] \in flow.phis /\ x < y => flow.values[b][x] \in flow.phis
        BY <1>1 DEF WellShaped
      <4> QED BY <4>1, <4>2
    <3> QED BY <2>1, <3>1, <3>2
  <2>3. vs[m] \in PhisOf(flow, b) /\ q \in PhisOf(flow, b)
    BY <1>1, <2>2 DEF PhisOf
  <2>4. flow.root[flow.args[q][k]] = vs[m] => vs[m] = q
    BY <2>3 DEF Assembled, HandedOver, InPlace
  <2> QED BY <2>2, <2>4
<1> HIDE DEF u, vs, q
<1>5. j \in i .. Len(vs) + 1 /\ i \in 1 .. Len(vs) + 1
  BY <1>1 DEF vs
<1>6. u \in Needed(b)[i]
  BY <1>1, <1>2, <1>3, <1>4, <1>5, BackKeeps
<1> QED BY <1>6 DEF u, q, vs

\* What is in its slot before every step: all that is live, the arguments of
\* the phis still to be copied, and past the last value what the end reads.
HeldLater ==
    \A w \in Carried(block)[place] : flow.root[w] \in Written => flow.root[w] \in held

\* What the copy into the phi at place j reads on edge k.
PhiArgument(b, j, k) == flow.root[flow.args[flow.values[b][j]][k]]

HeldForPhis ==
    block \notin staged =>
       \A j \in place .. Size :
          flow.values[block][j] \in flow.phis /\ PhiArgument(block, j, via) \in Written
             => PhiArgument(block, j, via) \in held

\* Past the last value.
HeldAtEnd ==
    place = Size + 1 => ReadAtEnd(flow, fused, block) \cap Written \subseteq held

\* The inductive invariant.
Inv ==
    /\ block \in BlockSet(flow) /\ place \in 1 .. Size + 1
    /\ \A p \in PhisOf(flow, block) : via \in DOMAIN flow.args[p]
    /\ HeldLater /\ HeldForPhis /\ HeldAtEnd

\* What the end of a block reads is the root of a value.
LEMMA EndReadsRoots ==
  ASSUME NEW before, NEW base, Assembled(before, base), NEW b \in BlockSet(flow),
         NEW u \in ReadAtEnd(flow, fused, b)
  PROVE  flow.root[u] = u
<1>1. WellShaped(flow) /\ flow.ends[b] \subseteq ValueSet(flow)
  <2>1. WellShaped(flow)
    BY DEF Assembled, HandedOver
  <2>2. flow.ends \in [BlockSet(flow) -> SUBSET ValueSet(flow)]
    BY <2>1 DEF WellShaped
  <2> QED BY <2>1, <2>2
<1>2. ASSUME NEW v \in ValueSet(flow) PROVE flow.root[flow.root[v]] = flow.root[v]
  BY <1>1 DEF WellShaped
<1>3. CASE u \in {flow.root[v] : v \in flow.ends[b] \ fused}
  BY <1>1, <1>2, <1>3
<1>4. ASSUME NEW v \in flow.ends[b] \cap fused, u \in Arguments(flow, v)
      PROVE  flow.root[u] = u
  <2>1. PICK a \in Range(flow.args[v]) : u = flow.root[a]
    BY <1>4 DEF Arguments
  <2>2. a \in ValueSet(flow)
    BY <1>1, UsesType
  <2> QED BY <1>2, <2>1, <2>2
<1> QED BY <1>3, <1>4 DEF ReadAtEnd

\* Of what the end of a block reads, liveness knows of what is not a copy.
LEMMA LiveAtEnd ==
  ASSUME NEW before, NEW base, Assembled(before, base), NEW b \in BlockSet(flow),
         NEW u \in ReadAtEnd(flow, fused, b), u \in flow.ends[b]
  PROVE  u \in Carried(b)[Len(flow.values[b]) + 1]
BY EndReadsRoots, Backwards DEF GoesBack

\* The end of a block without values reads only what is live there.
LEMMA EmptyEnd ==
  ASSUME NEW before, NEW base, Assembled(before, base), NEW b \in BlockSet(flow),
         Len(flow.values[b]) = 0, NEW there,
         \A w \in Carried(b)[1] : flow.root[w] \in Written => flow.root[w] \in there
  PROVE  ReadAtEnd(flow, fused, b) \cap Written \subseteq there
<1> SUFFICES ASSUME NEW u \in ReadAtEnd(flow, fused, b) \cap Written PROVE u \in there
  OBVIOUS
<1>1. u \in flow.ends[b]
  <2>1. CASE u \notin flow.ends[b]
    <3>1. u \in (ReadAtEnd(flow, fused, b) \cap Written) \ flow.ends[b]
      BY <2>1
    <3>2. Len(flow.values[b]) > 0
      BY <3>1 DEF Assembled, HandedOver, Ended, Written
    <3> QED BY <3>2
  <2> QED BY <2>1
<1>2. u \in Carried(b)[1] /\ flow.root[u] = u
  BY <1>1, LiveAtEnd, EndReadsRoots
<1> QED BY <1>2

\* At first nothing is live, as nothing is defined.
LEMMA InitInv ==
  ASSUME NEW before, NEW base, Assembled(before, base), Init
  PROVE  Inv
<1>1. /\ WellShaped(flow) /\ DefinedFirst(flow, entry, before)
      /\ entry \in BlockSet(flow) /\ before[entry] = {} /\ PhisOf(flow, entry) = {}
  BY DEF Assembled, HandedOver, DefinedFirst
<1>2. /\ block = entry /\ place = 1 /\ held = {}
      /\ flow.values[entry] \in Seq(ValueSet(flow)) /\ Len(flow.values[entry]) \in Nat
  BY <1>1, UsesType DEF Init
<1>3. Carried(entry)[1] = {}
  <2>1. Carried(entry)[1] \subseteq LiveAt(flow, LiveIn(flow), entry)[1]
    <3>1. 1 \in 1 .. Len(flow.values[entry]) + 1
      BY <1>2
    <3> QED BY <1>1, <3>1, Backwards
  <2>2. LiveAt(flow, LiveIn(flow), entry)[1] = LiveIn(flow)[entry]
    BY <1>1, LivenessReached
  <2>3. LiveIn(flow)[entry] \subseteq before[entry]
    BY <1>1, LiveInAvailable DEF Available
  <2> QED BY <1>1, <2>1, <2>2, <2>3
<1>4. HeldLater
  BY <1>2, <1>3 DEF HeldLater
<1>5. HeldForPhis
  <2>1. ASSUME NEW j \in 1 .. Len(flow.values[entry]) PROVE flow.values[entry][j] \notin flow.phis
    <3>1. flow.values[entry][j] \in Range(flow.values[entry])
      BY <1>2 DEF Range
    <3> QED BY <1>1, <3>1 DEF PhisOf
  <2> QED BY <1>2, <2>1 DEF HeldForPhis, Size
<1>6. HeldAtEnd
  <2>1. SUFFICES ASSUME place = Size + 1
                 PROVE  ReadAtEnd(flow, fused, block) \cap Written \subseteq held
    BY DEF HeldAtEnd
  <2>2. Len(flow.values[entry]) = 0
    BY <1>2, <2>1 DEF Size
  <2>3. \A w \in Carried(entry)[1] : flow.root[w] \in Written => flow.root[w] \in held
    BY <1>3
  <2> QED BY <1>1, <1>2, <2>2, <2>3, EmptyEnd
<1> QED BY <1>1, <1>2, <1>4, <1>5, <1>6 DEF Inv, Size

\* Writing a value leaves what is needed after it where it is.
LEMMA WriteKeeps ==
  ASSUME NEW before, NEW base, Assembled(before, base), NEW b \in BlockSet(flow),
         NEW i \in 1 .. Len(flow.values[b]), Write(flow.values[b][i]),
         NEW u \in held, u \in spilled,
         u \in Needed(b)[i + 1] \/ flow.root[flow.values[b][i]] = u
  PROVE  u \in held'
<1> DEFINE v == flow.values[b][i]
<1>1. CASE v \in Written
  <2>1. CASE u = v
    BY <1>1, <2>1 DEF Write
  <2>2. CASE u # v
    <3>1. Apart(u, v) \/ flow.root[v] = u
      BY <1>1, <2>2, NeededApart DEF Written
    <3> QED BY <1>1, <3>1 DEF Write
  <2> QED BY <2>1, <2>2
<1>2. CASE v \notin Written
  BY <1>2 DEF Write
<1> QED BY <1>1, <1>2

\* What an instruction reads is in its slot.
LEMMA ArgumentsHeld ==
  ASSUME NEW before, NEW base, Assembled(before, base), Inv,
         NEW i \in 1 .. Size, i = place, flow.values[block][i] \notin flow.phis,
         NEW u \in Arguments(flow, flow.values[block][i]), u \in Written
  PROVE  u \in held
<1>1. flow.values[block] \in Seq(ValueSet(flow))
  BY DEF Assembled, HandedOver, WellShaped, Inv
<1>2. flow.values[block][i] \in Range(flow.values[block])
  BY <1>1 DEF Range, Size
<1>3. PICK a \in Range(flow.args[flow.values[block][i]]) : u = flow.root[a]
  BY DEF Arguments
<1>4. a \in Uses(flow, block)[flow.values[block][i]]
  BY <1>2, <1>3 DEF Uses
<1>5. Carried(block)[i] = (Carried(block)[i + 1] \ {flow.values[block][i]})
                             \cup Uses(flow, block)[flow.values[block][i]]
  BY Backwards DEF GoesBack, Inv, Size
<1> QED BY <1>3, <1>4, <1>5 DEF Inv, HeldLater

\* The instructions of one value leave the invariant.
LEMMA ExecuteInv ==
  ASSUME NEW before, NEW base, Assembled(before, base), Inv, Execute
  PROVE  Inv'
<1> DEFINE b == block
           i == place
           n == Len(flow.values[b])
           v == flow.values[b][i]
<1>1. /\ WellShaped(flow) /\ b \in BlockSet(flow) /\ n \in Nat /\ i \in 1 .. n
      /\ flow.values[b] \in Seq(ValueSet(flow)) /\ Size = n /\ Current = v
      /\ v \in Range(flow.values[b]) /\ v \in ValueSet(flow)
  <2>1. WellShaped(flow) /\ b \in BlockSet(flow) /\ Size = n /\ Current = v
    BY DEF Assembled, HandedOver, Inv, Size, Current
  <2>2. flow.values[b] \in Seq(ValueSet(flow)) /\ Range(flow.values[b]) \subseteq ValueSet(flow)
    BY <2>1, UsesType
  <2>3. i \in 1 .. n /\ n \in Nat
    BY <2>1, <2>2 DEF Inv, Execute
  <2>4. v \in Range(flow.values[b])
    BY <2>2, <2>3 DEF Range
  <2> QED BY <2>1, <2>2, <2>3, <2>4
<1>2. block' = b /\ place' = i + 1 /\ via' = via /\ Write(v) /\ Size' = n
  BY <1>1 DEF Execute, Size
<1>3. /\ Carried(b)[i] = (Carried(b)[i + 1] \ {v}) \cup Uses(flow, b)[v]
      /\ HeldLater /\ HeldForPhis /\ HeldAtEnd
  BY <1>1, Backwards DEF GoesBack, Inv
<1> HIDE DEF n
<1>4. ASSUME NEW w \in Carried(b)[i + 1], flow.root[w] \in Written
      PROVE  flow.root[w] \in held'
  <2> DEFINE u == flow.root[w]
  <2>1. u \in Needed(b)[i + 1]
    BY <1>1, <1>4, CarriedNeeded DEF Written, n
  <2>2. CASE w # v
    <3>1. u \in held
      BY <1>3, <1>4, <2>2 DEF HeldLater
    <3> QED BY <1>1, <1>2, <1>4, <2>1, <3>1, WriteKeeps DEF Written, n
  <2>3. CASE w = v /\ u = v
    BY <1>2, <1>4, <2>3 DEF Write
  <2>4. CASE w = v /\ u # v
    <3>1. v \notin flow.phis /\ \E a \in Range(flow.args[v]) : flow.root[a] = u
      BY <1>1, <2>4 DEF WellShaped
    <3>2. u \in Arguments(flow, v)
      BY <3>1 DEF Arguments
    <3>3. u \in held
      BY <1>1, <1>4, <3>1, <3>2, ArgumentsHeld
    <3> QED BY <1>1, <1>2, <1>4, <2>1, <3>3, WriteKeeps DEF Written, n
  <2> QED BY <2>2, <2>3, <2>4
<1>5. ASSUME b \notin staged, NEW j \in i + 1 .. n, flow.values[b][j] \in flow.phis,
             PhiArgument(b, j, via) \in Written
      PROVE  PhiArgument(b, j, via) \in held'
  <2>1. j \in 1 .. n /\ j \in i .. n /\ i + 1 \in 1 .. j
    BY <1>1
  <2>2. PhiArgument(b, j, via) \in held
    BY <1>1, <1>3, <1>5, <2>1 DEF HeldForPhis
  <2>3. via \in DOMAIN flow.args[flow.values[b][j]]
    <3>1. flow.values[b][j] \in PhisOf(flow, b)
      BY <1>1, <1>5, <2>1 DEF PhisOf, Range, n
    <3> QED BY <3>1 DEF Inv
  <2>4. PhiArgument(b, j, via) \in Needed(b)[i + 1]
    BY <1>1, <1>5, <2>1, <2>3, PhiNeeded DEF PhiArgument, Written, n
  <2> QED BY <1>1, <1>2, <1>5, <2>2, <2>4, WriteKeeps DEF Written, n
<1>6. ASSUME i + 1 = n + 1, NEW u \in ReadAtEnd(flow, fused, b) \cap Written
      PROVE  u \in held'
  <2>1. flow.root[u] = u
    BY <1>1, EndReadsRoots
  <2>2. CASE u \in flow.ends[b]
    <3>1. u \in Carried(b)[i + 1]
      BY <1>1, <1>6, <2>2, LiveAtEnd DEF n
    <3> QED BY <1>4, <1>6, <2>1, <3>1
  <2>3. CASE u \notin flow.ends[b]
    <3>1. v \notin flow.phis /\ u \in Arguments(flow, v) /\ (v \in Written => flow.root[v] = u)
      <4>1. i = n
        BY <1>1, <1>6
      <4>2. u \in (ReadAtEnd(flow, fused, b) \cap Written) \ flow.ends[b]
        BY <1>6, <2>3
      <4> QED BY <1>1, <4>1, <4>2 DEF Assembled, HandedOver, Ended, Written, n
    <3>2. u \in held
      BY <1>1, <1>6, <3>1, ArgumentsHeld
    <3> QED BY <1>2, <3>1, <3>2 DEF Write
  <2> QED BY <2>2, <2>3
<1>7. HeldLater'
  BY <1>2, <1>4 DEF HeldLater
<1>8. HeldForPhis'
  BY <1>2, <1>5 DEF HeldForPhis
<1>9. HeldAtEnd'
  BY <1>2, <1>6 DEF HeldAtEnd
<1>10. /\ block' \in BlockSet(flow) /\ place' \in 1 .. Size' + 1
       /\ \A p \in PhisOf(flow, block') : via' \in DOMAIN flow.args[p]
  BY <1>1, <1>2 DEF Inv
<1> QED BY <1>7, <1>8, <1>9, <1>10 DEF Inv

\* Going over an edge leaves the invariant: what is live in the next block
\* is live at the end of this one, and so are the arguments of its phis.
LEMMA JumpInv ==
  ASSUME NEW before, NEW base, Assembled(before, base), Inv, Jump
  PROVE  Inv'
<1> DEFINE b == block
           n == Len(flow.values[b])
<1>1. PICK e \in Range(flow.succs[b]) : block' = e.to /\ via' = e.at
  BY DEF Jump
<1> DEFINE c == e.to
           m == Len(flow.values[c])
<1>2. /\ WellShaped(flow) /\ b \in BlockSet(flow) /\ c \in BlockSet(flow)
      /\ n \in Nat /\ place = n + 1 /\ Size = n
  <2>1. WellShaped(flow) /\ b \in BlockSet(flow) /\ Size = n
    BY DEF Assembled, HandedOver, Inv, Size
  <2>2. n \in Nat
    BY <2>1, UsesType
  <2>3. place = n + 1
    BY <2>1, <2>2 DEF Inv, Jump
  <2> QED BY <1>1, <2>1, <2>2, <2>3, EdgeArgument
<1>3. m \in Nat /\ flow.values[c] \in Seq(ValueSet(flow)) /\ 1 \in 1 .. m + 1
  BY <1>2, UsesType
<1>4. place' = 1 /\ held' = held /\ Size' = m /\ block' = c /\ via' = e.at
  BY <1>1 DEF Jump, Size
<1>5. ASSUME NEW w \in OutOf(b), flow.root[w] \in Written PROVE flow.root[w] \in held
  <2>1. w \in Carried(b)[n + 1]
    BY <1>2, Backwards DEF GoesBack
  <2> QED BY <1>2, <1>5, <2>1 DEF Inv, HeldLater
<1>6. ASSUME NEW w \in Carried(c)[1] PROVE w \in OutOf(b)
  <2>1. w \in LiveAt(flow, LiveIn(flow), c)[1]
    BY <1>2, <1>3, <1>6, Backwards
  <2>2. w \in LiveIn(flow)[c]
    BY <1>2, <2>1, LivenessReached
  <2> QED BY <2>2 DEF OutOf, LiveOut
<1>7. ASSUME NEW p \in PhisOf(flow, c) PROVE e.at \in DOMAIN flow.args[p] /\ flow.args[p][e.at] \in OutOf(b)
  <2>1. e.at \in DOMAIN flow.args[p]
    BY <1>2 DEF WellShaped
  <2>2. flow.args[p][e.at] \in OutOf(b)
    BY DEF OutOf, LiveOut
  <2> QED BY <2>1, <2>2
<1> HIDE DEF b, n, c, m
<1>8. HeldLater'
  BY <1>4, <1>5, <1>6 DEF HeldLater
<1>9. HeldForPhis'
  <2>1. ASSUME NEW j \in 1 .. m, flow.values[c][j] \in flow.phis, PhiArgument(c, j, e.at) \in Written
        PROVE  PhiArgument(c, j, e.at) \in held
    <3>1. flow.values[c][j] \in PhisOf(flow, c)
      BY <1>3, <2>1 DEF PhisOf, Range, m
    <3> QED BY <1>5, <1>7, <2>1, <3>1 DEF PhiArgument
  <2> QED BY <1>4, <2>1 DEF HeldForPhis
<1>10. HeldAtEnd'
  <2>1. ASSUME 1 = m + 1 PROVE ReadAtEnd(flow, fused, c) \cap Written \subseteq held
    <3>1. Len(flow.values[c]) = 0
      BY <1>3, <2>1 DEF m
    <3>2. \A w \in Carried(c)[1] : flow.root[w] \in Written => flow.root[w] \in held
      BY <1>5, <1>6
    <3> QED BY <1>2, <3>1, <3>2, EmptyEnd
  <2> QED BY <1>4, <2>1 DEF HeldAtEnd
<1>11. /\ block' \in BlockSet(flow) /\ place' \in 1 .. Size' + 1
       /\ \A p \in PhisOf(flow, block') : via' \in DOMAIN flow.args[p]
  BY <1>2, <1>3, <1>4, <1>7
<1> QED BY <1>8, <1>9, <1>10, <1>11 DEF Inv

\* With the invariant, what is read is there.
LEMMA InvReads ==
  ASSUME NEW before, NEW base, Assembled(before, base), Inv
  PROVE  ReadsHeld
<1>1. SUFFICES ASSUME NEW u \in Read, u \in Written PROVE u \in held
  BY DEF ReadsHeld
<1>2. /\ WellShaped(flow) /\ block \in BlockSet(flow) /\ Size \in Nat
      /\ flow.values[block] \in Seq(ValueSet(flow))
  BY UsesType DEF Assembled, HandedOver, Inv, Size
<1>3. CASE place <= Size
  <2>1. place \in 1 .. Size /\ Current = flow.values[block][place] /\ u \in ReadByValue
    BY <1>1, <1>2, <1>3 DEF Inv, Current, Read
  <2>2. CASE Current \notin flow.phis
    BY <1>1, <2>1, <2>2, ArgumentsHeld DEF ReadByValue
  <2>3. CASE Current \in flow.phis
    <3>1. block \notin staged /\ u = PhiArgument(block, place, via) /\ place \in place .. Size
      BY <2>1, <2>3 DEF ReadByValue, PhiArgument
    <3> QED BY <1>1, <2>1, <2>3, <3>1 DEF Inv, HeldForPhis
  <2> QED BY <2>2, <2>3
<1>4. CASE place > Size
  <2>1. place = Size + 1
    BY <1>2, <1>4 DEF Inv
  <2>2. CASE u \in ReadAtEnd(flow, fused, block)
    BY <1>1, <2>1, <2>2 DEF Inv, HeldAtEnd
  <2>3. ASSUME NEW e \in Range(flow.succs[block]), u \in ReadOnEdge(e) PROVE u \in held
    <3>1. PICK p \in PhisOf(flow, e.to) : u = flow.root[flow.args[p][e.at]]
      BY <2>3 DEF ReadOnEdge
    <3>2. flow.args[p][e.at] \in OutOf(block)
      BY DEF OutOf, LiveOut
    <3>3. flow.args[p][e.at] \in Carried(block)[place]
      BY <1>2, <2>1, <3>2, Backwards DEF GoesBack, Size
    <3> QED BY <1>1, <3>1, <3>3 DEF Inv, HeldLater
  <2>4. ~(place <= Size)
    BY <1>2, <2>1
  <2>5. u \in ReadAtEnd(flow, fused, block) \/ \E e \in Range(flow.succs[block]) : u \in ReadOnEdge(e)
    BY <1>1, <2>4 DEF Read
  <2> QED BY <2>2, <2>3, <2>5
<1>5. place \in Int /\ Size \in Int
  BY <1>2 DEF Inv
<1> QED BY <1>3, <1>4, <1>5

\* No instruction of a function the compiler assembles reads a slot that
\* something else took over: liveness, interference and first fit together
\* leave every value in its slot as long as it is read.
THEOREM SlotsHold ==
  ASSUME NEW before, NEW base, Assembled(before, base)
  PROVE  Spec => []ReadsHeld
<1>1. Init => Inv
  BY InitInv
<1>2. Inv /\ [Next]_vars => Inv'
  <2>1. SUFFICES ASSUME Inv, [Next]_vars PROVE Inv'
    OBVIOUS
  <2>2. CASE Execute
    BY <2>1, <2>2, ExecuteInv
  <2>3. CASE Jump
    BY <2>1, <2>3, JumpInv
  <2>4. CASE UNCHANGED vars
    BY <2>1, <2>4 DEF vars, Inv, HeldLater, HeldForPhis, HeldAtEnd, Size
  <2> QED BY <2>1, <2>2, <2>3, <2>4 DEF Next
<1>3. Inv => ReadsHeld
  BY InvReads
<1> QED BY <1>1, <1>2, <1>3, PTL DEF Spec
=========
