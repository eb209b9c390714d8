------------------------------ MODULE MCCompiler ------------------------------
(***************************************************************************)
(* Source functions for the model checker, put together from pieces: every *)
(* function of a family is compiled and run on every input.  Parameters    *)
(* are locals 1 and 2, local 3 starts as zero.                             *)
(***************************************************************************)
EXTENDS Compiler

P == <<I("get", 1)>>
Q == <<I("get", 2)>>
R == <<I("get", 3)>>
K(c) == <<I("const", c)>>
SetTo(i) == <<I("set", i)>>
Un(a, op, imm) == a \o <<I(op, imm)>>
Bin(a, b, op) == a \o b \o <<I(op, 0)>>
Put(addr, v, op, imm) == addr \o v \o <<I(op, imm)>>
Open(op, arity) == <<I(op, arity)>>
Else == <<I("else", 0)>>
End == <<I("end", 0)>>
Drop == <<I("drop", 0)>>
Br(depth) == <<I("br", depth)>>
BrIf(depth) == <<I("br_if", depth)>>
IfElse(c, arity, a, b) == c \o Open("if", arity) \o a \o Else \o b \o End

Answer(e) == Function(e \o End, 2, 1, 1)

\* What may stand on the stack while something else happens.
Exprs == {Un(P, "OpLoad32", 0), Un(P, "OpLoad8U", 1), Un(Q, "OpLoad8S", 0),
          Un(Bin(P, K(3), "OpAdd32"), "OpLoad32", 0),
          Un(Bin(P, K(14), "OpAdd32"), "OpLoad8U", 1),
          <<I("gget", 0)>>, Un(P, "call", 0), Bin(P, Q, "div_u"), Un(Q, "ctz", 0),
          Bin(Bin(P, K(3), "OpAdd32"), K(14), "OpAdd32"), Bin(P, Q, "OpLtS32"),
          P \o Q \o P \o <<I("eqz", 0), I("select", 0)>>}

\* What may happen meanwhile.
Stmts == {Put(P, Q, "OpStore32", 0), Put(P, Q, "OpStore8", 1), Put(Q, P, "OpStore32", 0),
          Put(K(1), Un(P, "OpLoad8U", 0), "OpStore8", 0),
          Un(Q, "gset", 0), Un(Q, "call", 0) \o Drop, Un(Q, "grow", 0) \o Drop,
          P \o Q \o SetTo(1) \o SetTo(2),
          P \o Open("if", 0) \o K(2) \o SetTo(2) \o End}

Straight == {Answer(Bin(a \o s, b, "OpSub32")) : a \in Exprs, b \in Exprs, s \in Stmts}

\* A value stored, something else done, the value read back.
ReadBack == {Answer(Put(P, Q, st, 0) \o s \o Un(a, ld, k)) :
                st \in StoreOps, ld \in LoadOps, k \in {0, 1}, a \in {P, Q}, s \in Stmts}

Few == {Put(P, Q, "OpStore8", 0), Un(P, "call", 0) \o Drop, P \o Q \o SetTo(1) \o SetTo(2),
        Bin(P, K(1), "OpAdd32") \o SetTo(3), K(3) \o SetTo(1)}
Values == {Un(P, "OpLoad32", 0), Q, K(0), K(15), Un(Bin(P, R, "OpSub32"), "call", 0)}

Conditionals ==
    {Answer(s \o IfElse(c, 1, a, b)) : s \in Few, a \in Values, b \in Values,
        c \in {Q, K(1), K(0), Bin(P, Q, "OpLtU32")}}
      \cup {Answer(IfElse(c, 0, s, t) \o Bin(P, R, "OpSub32")) :
                c \in {P, Bin(P, P, "OpEq32")}, s \in Few \cup {<<>>}, t \in Few \cup {<<>>}}

\* A condition kept as 15 or 0 and tested later.
Masks == {Answer(IfElse(c, 1, K(a), K(b)) \o SetTo(3) \o s \o IfElse(R, 1, P, Q)) :
              c \in {Bin(P, Q, "OpLtU32"), Un(P, "OpLoad8U", 0)}, s \in Few,
              a \in {0, 15}, b \in {0, 15}}

Loops ==
    {Answer(Open("loop", 0) \o s \o Bin(Q, K(1), "OpSub32") \o <<I("tee", 2)>> \o c
              \o BrIf(0) \o t \o End \o Bin(P, R, "OpSub32")) :
        s \in Few \cup Stmts, t \in Few, c \in {<<>>, R \o <<I("OpLtU32", 0)>>}}
      \cup {Answer(Open("loop", 0) \o Open("block", 0) \o Q \o <<I("eqz", 0)>> \o BrIf(0)
              \o s \o Bin(Q, K(1), "OpSub32") \o SetTo(2) \o Br(1) \o End \o End \o P) : s \in Few}

\* Branches out of blocks with values, and the dead code behind them.
Blocks ==
    {Answer(s \o Open("block", 1) \o a \o Q \o BrIf(0) \o Drop \o t \o b \o End) :
        a \in Values, b \in Values, s \in Few, t \in Few}
      \cup {Answer(Open("block", 0) \o P \o Open("if", 0) \o s \o x \o K(0) \o Drop \o t
              \o Open("block", 0) \o End \o End \o t \o End \o Bin(P, Q, "OpSub32")) :
              x \in {Br(0), Br(1), R \o <<I("return", 0)>>, <<I("unreachable", 0)>>},
              s \in Few, t \in Few}

Tables ==
    {Answer(Open("block", 0) \o Open("block", 0) \o Open("block", 0) \o Q \o <<I("br_table", l)>>
              \o End \o s \o End \o t \o End \o Bin(P, R, "OpSub32")) :
        l \in {<<0, 1, 2>>, <<1, 1, 0>>, <<2, 0, 2, 1>>, <<0>>}, s \in Few, t \in Few}

\* Vector loads near each other, in groups that one check may cover.
VecAt(k) == Un(Bin(P, K(k), "OpAdd32"), "vload", 0) \o <<I("extract", 1)>>
Vectors ==
    {Answer(Bin(VecAt(j) \o s, VecAt(k), "OpSub32")) : j \in {0, 1, 3, 14}, k \in {0, 1, 3, 14},
        s \in {<<>>, Un(Q, "gset", 0), Un(Q, "grow", 0) \o Drop,
               P \o Un(Q, "vload", 0) \o <<I("vstore", 0)>>}}
      \cup {Answer(Bin(Un(P, "vload", j) \o <<I("extract", 1)>>,
                       Un(P, "vload", k) \o <<I("extract", 2)>>, "OpSub32")) :
              j \in 0 .. 3, k \in 0 .. 3}

\* memory.size, of a memory that does not grow before the size is used.
Sizes == {Answer(Bin(s \o <<I("size", 0)>>, e, "OpSub32")) : s \in Stmts,
              e \in Exprs \ {Un(P, "call", 0)}}

Down == Bin(Q, K(1), "OpSub32") \o <<I("tee", 2)>>
While(s, depth) == s \o Down \o BrIf(depth)

\* Loops in loops, left from inside, restarted from inside, and a switch
\* between a loop and what leaves it.
Nests ==
    {Answer(Open("loop", 0) \o Open("loop", 0) \o s \o Down \o <<I("eqz", 0)>> \o BrIf(0)
              \o While(t, d) \o End \o While(<<>>, 0) \o End \o Bin(P, R, "OpSub32")) :
        s \in Few, t \in Few, d \in {0, 1}}
      \cup {Answer(Open("block", 0) \o Open("loop", 0) \o Open("loop", 0) \o s \o R \o BrIf(2)
              \o While(K(1) \o SetTo(3), 1) \o End \o t \o End \o End \o Bin(P, R, "OpSub32")) :
              s \in Few, t \in Few}
      \cup {Answer(Open("block", 0) \o Open("loop", 0) \o Open("block", 0) \o Open("block", 0)
              \o Down \o <<I("br_table", l)>> \o End \o s \o Br(1) \o End \o t \o Br(x)
              \o End \o End \o Bin(P, R, "OpSub32")) :
              l \in {<<3, 0, 1>>, <<0, 1, 3>>, <<2, 0, 3>>, <<3, 2, 1, 0>>, <<1, 3>>}, x \in {0, 1},
              s \in Few, t \in Few}

\* Loops worth taking out: what they read is computed before them, and they
\* are left for one place or for two, with a value or without.
Extracts ==
    {Answer(a \o SetTo(3) \o Open("loop", 0) \o s \o Put(K(2), Bin(R, Q, "OpAdd32"), "OpStore8", 0)
              \o While(<<>>, 0) \o End \o t \o Bin(P, R, "OpSub32")) :
        a \in {Bin(P, K(3), "OpAdd32"), Un(P, "OpLoad8U", 0), <<I("gget", 0)>>, Un(Q, "ctz", 0),
               Bin(Un(P, "OpLoad8U", 1), K(3), "OpAdd32"), Bin(P, Q, "OpLtU32")},
        s \in Few, t \in Few}
      \cup {Answer(a \o SetTo(3) \o Put(P, Q, "OpStore8", 1) \o Un(Q, "call", 0) \o Drop
              \o Open("block", 0) \o Open("block", 0) \o Open("loop", 0) \o Q \o <<I("eqz", 0)>> \o BrIf(1)
              \o Down \o Drop \o s \o Bin(R, Q, "OpEq32") \o BrIf(2) \o u \o Br(0) \o End \o End
              \o t \o End \o Bin(P, x, "OpSub32")) :
              a \in {K(1), Un(P, "OpLoad8U", 0), Bin(P, K(3), "OpAdd32")}, s \in Few \ {K(3) \o SetTo(1)},
              t \in Few, u \in {<<>>, Bin(P, Q, "OpLtU32") \o BrIf(1)}, x \in {Q, K(1)}}

\* A table whose labels carry a value.
Payloads ==
    {Answer(Open("block", 1) \o Open("block", 1) \o a \o Q \o <<I("br_table", l)>> \o End \o s
              \o Drop \o b \o End) :
        l \in {<<0, 1>>, <<1, 0>>, <<0, 0, 1>>, <<1, 1, 0>>, <<1>>}, a \in Values, b \in Values,
        s \in Few}

Invoke(c) == <<I("call_direct", c)>>
IfRet(c, a) == c \o Open("if", 0) \o a \o <<I("return", 0)>> \o End

\* A choice with an early return; stores and grows; a loop; a call of the
\* first; one that is pinned; one that never returns; one that calls the
\* host; one too large.
MCCallees ==
    <<Function(P \o SetTo(3) \o IfRet(Bin(P, Q, "OpLtU32"), Q) \o Bin(R, P, "OpAdd32") \o End, 2, 1, 1),
      Function(IfRet(P, <<>>) \o Put(Q, K(7), "OpStore8", 1) \o K(1) \o <<I("grow", 0)>> \o Drop \o End,
               2, 0, 0),
      Function(Open("loop", 0) \o Put(K(0), P, "OpStore8", 2) \o While(Bin(R, Q, "OpAdd32") \o SetTo(3), 0)
                 \o End \o R \o End, 2, 1, 1),
      Function(P \o Q \o Invoke(1) \o SetTo(1) \o Q \o P \o Invoke(1) \o End, 2, 0, 1),
      Function(Un(P, "grow", 0) \o Drop \o Un(Q, "OpLoad8U", 0) \o End, 2, 0, 1),
      Function(P \o <<I("gset", 0), I("unreachable", 0)>> \o End, 2, 0, 1),
      Function(P \o <<I("call", 0)>> \o Q \o <<I("OpAdd32", 0)>> \o End, 2, 0, 1),
      Function(FlattenSeq([i \in 1 .. 8 |-> Bin(P, Q, "OpAdd32") \o SetTo(1)]) \o P \o End, 2, 0, 1)>>

Calling(c) == P \o Q \o Invoke(c) \o (IF c = 2 THEN R ELSE <<>>)
Callings ==
    {Answer(Bin(a \o s, Calling(c), "OpSub32")) :
        a \in {Un(P, "OpLoad32", 0), <<I("gget", 0)>>, Q}, s \in Few, c \in DOMAIN MCCallees}
      \cup {Answer(IfElse(Q, 1, Calling(c), Calling(d)) \o Calling(c) \o <<I("OpSub32", 0)>>) :
              c \in DOMAIN MCCallees, d \in {1, 4}}
      \cup {Answer(Open("loop", 0) \o Calling(c) \o s \o SetTo(3) \o While(<<>>, 0) \o End \o R) :
              c \in DOMAIN MCCallees \ {6}, s \in Few}
      \cup {Answer(Open("block", 1) \o Calling(c) \o <<I("return", 0)>> \o End) :
              c \in DOMAIN MCCallees}
      \cup {Answer(Bin(s \o Un(P, ld, 0) \o Calling(c) \o Drop, Un(P, ld, 0), "OpSub32")) :
              ld \in LoadOps, s \in Few, c \in DOMAIN MCCallees}

\* More values alive than registers.
Deep == {Un(P, "OpLoad8U", 0), Un(Q, "OpLoad32", 0), Bin(P, Q, "OpAdd32"), Bin(P, Q, "OpLtU32")}
Crowds == {Answer(Bin(Bin(a, b, "OpAdd32"), Bin(c, d, "OpSub32"), "OpSub32")) :
              a \in Deep, b \in Deep, c \in Deep, d \in Deep}

\* A sum carried around a loop.
Carries ==
    {Answer(P \o SetTo(3) \o Open("loop", 0) \o s \o Bin(R, e, op) \o SetTo(3) \o While(<<>>, 0)
              \o End \o R) :
        op \in {"OpAdd32", "OpSub32"}, s \in {<<>>, Put(P, Q, "OpStore8", 1), P \o Q \o Invoke(5) \o Drop},
        e \in {K(1), Q, Un(Q, "OpLoad8U", 0), Bin(P, Q, "OpLtU32")}}
\* memory.size before and after something that may grow the memory.
Size == <<I("size", 0)>>
Resizes == {Answer(Bin(Size \o s, Size, "OpSub32")) : s \in Stmts \cup Few}

\* An address whose constant goes into the access.
FarLoads == {Answer(Un(Bin(P, K(c), "OpAdd32"), ld, 0)) : c \in {3, 4, 14}, ld \in LoadOps}

\* What AssembledMeaning does not hold of: with Programs <- LateReads it is
\* violated.  A comparison is left to a branch past a call and compares there
\* what has lost its place; what a loop carries around in a register is read
\* after a call that follows the loop.
LateReads ==
    {Answer(Bin(Bin(P, K(1), "OpAdd32"), Q, "OpLtS32") \o P \o Q \o Invoke(5) \o Drop
              \o Open("if", 0) \o Put(P, Q, "OpStore8", 0) \o End \o Q),
     Answer(P \o SetTo(3) \o Open("loop", 0) \o Bin(R, Q, "OpAdd32") \o SetTo(3) \o While(<<>>, 0)
              \o End \o P \o Q \o Invoke(5) \o Drop \o R)}

\* Two registers for the scan next to the one that holds m.  The one that
\* may be carried around a loop is handed out first, so that the scan would
\* take it if it could.
MCScanRegs == <<"R12", "R11", "DI">>
MCCarryRegs == <<"R12">>
MCNoInline == {5}
MCPrograms == UNION {Straight, ReadBack, Conditionals, Masks, Loops, Blocks, Tables,
                     Vectors, Sizes, Nests, Extracts, Payloads, Callings, Crowds, Carries}
MCInputs == {<<2, 0>>, <<1, 3>>, <<3, 1>>, <<15, 2>>, <<0, 2>>}
=============================================================================
