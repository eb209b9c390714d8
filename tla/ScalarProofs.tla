------------------------------ MODULE ScalarProofs ------------------------------
(***************************************************************************)
(* The scalar helpers deliver what WebAssembly says, for integers and      *)
(* floats of every width.                                                  *)
(*                                                                         *)
(* Everything rests on powers of two: a number of w bytes is split into    *)
(* sign, exponent and mantissa by dividing by one, and a float is a        *)
(* multiple of one.  A power of two counts the subsets of a set, which is  *)
(* how its laws are proved.  Products are kept out of the way by naming    *)
(* them: a leaf is about a handful of naturals and one product.            *)
(***************************************************************************)
EXTENDS Scalars, WasmNumbers, FiniteSetTheorems, WellFoundedInduction, TLAPS

---------------------------------------------------------------------------
(* Powers of two.                                                          *)

\* A set of naturals that is not empty has a least member.
LEMMA Least ==
  ASSUME NEW T \in SUBSET Nat, T # {}
  PROVE  \E n \in T : \A m \in T : n <= m
<1>1. PICK n \in T : \A m \in T : <<m, n>> \notin OpToRel(<, Nat)
  BY NatLessThanWellFounded, WFMin
<1>2. ASSUME NEW m \in T PROVE n <= m
  <2>1. <<m, n>> \notin {ss \in Nat \X Nat : ss[1] < ss[2]}
    BY <1>1 DEF OpToRel
  <2> QED BY <2>1
<1> QED BY <1>2

\* A power of two counts the sets of so many numbers.
LEMMA PowerCounts ==
  ASSUME NEW n \in Nat
  PROVE  /\ IsFiniteSet(SUBSET (1 .. n)) /\ Cardinality(SUBSET (1 .. n)) = 2^n
         /\ 2^n \in Nat
<1>1. IsFiniteSet(1 .. n) /\ Cardinality(1 .. n) = n
  BY FS_Interval
<1> QED BY <1>1, FS_SUBSET, FS_CardinalityType

\* 2^0 = 1: the empty set has one subset.
LEMMA PowerZero == 2^0 = 1
<1>1. SUBSET (1 .. 0) = {{}}
  OBVIOUS
<1>2. Cardinality({{}}) = 1
  BY FS_Singleton
<1> QED BY <1>1, <1>2, PowerCounts

\* One number more makes twice as many sets: those with it and those without.
LEMMA PowerNext ==
  ASSUME NEW n \in Nat
  PROVE  2^(n + 1) = 2 * 2^n
<1> DEFINE A == SUBSET (1 .. n)
           B == {t \in SUBSET (1 .. n + 1) : n + 1 \in t}
           f == [t \in A |-> t \cup {n + 1}]
<1>1. SUBSET (1 .. n + 1) = A \cup B /\ A \cap B = {}
  <2>1. ASSUME NEW t, t \in SUBSET (1 .. n + 1), n + 1 \notin t PROVE t \in A
    <3>1. \A k \in t : k \in 1 .. n
      BY <2>1
    <3> QED BY <3>1
  <2>2. ASSUME NEW t \in A PROVE t \in SUBSET (1 .. n + 1) /\ n + 1 \notin t
    <3>1. \A k \in t : k \in 1 .. n + 1
      OBVIOUS
    <3>2. n + 1 \notin 1 .. n
      OBVIOUS
    <3> QED BY <3>1, <3>2
  <2> QED BY <2>1, <2>2
<1>2. f \in Bijection(A, B)
  <2>1. \A t \in A : f[t] \in B
    <3>1. \A k \in 1 .. n : k \in 1 .. n + 1
      OBVIOUS
    <3>2. n + 1 \in 1 .. n + 1
      OBVIOUS
    <3> QED BY <3>1, <3>2
  <2>2. ASSUME NEW t \in A, NEW u \in A, f[t] = f[u] PROVE t = u
    <3>1. n + 1 \notin t /\ n + 1 \notin u
      <4>1. n + 1 \notin 1 .. n
        OBVIOUS
      <4> QED BY <4>1
    <3> QED BY <2>2, <3>1
  <2>3. ASSUME NEW t \in B PROVE \E u \in A : f[u] = t
    <3>1. t \ {n + 1} \in A
      <4>1. ASSUME NEW k \in t \ {n + 1} PROVE k \in 1 .. n
        <5>1. k \in 1 .. n + 1 /\ k # n + 1
          OBVIOUS
        <5> QED BY <5>1
      <4> QED BY <4>1
    <3>2. (t \ {n + 1}) \cup {n + 1} = t
      OBVIOUS
    <3> QED BY <3>1, <3>2
  <2> HIDE DEF A, B
  <2>4. f \in [A -> B]
    BY <2>1
  <2> HIDE DEF f
  <2> QED BY <2>2, <2>3, <2>4 DEF Bijection, Injection, Surjection, IsInjective
<1>3. IsFiniteSet(A) /\ Cardinality(A) = 2^n /\ 2^n \in Nat
  BY PowerCounts
<1> HIDE DEF A, B
<1>4. IsFiniteSet(B) /\ Cardinality(B) = 2^n
  BY <1>2, <1>3, FS_Bijection DEF ExistsBijection
<1>5. Cardinality(A \cup B) = 2^n + 2^n - 0
  BY <1>1, <1>3, <1>4, FS_Union, FS_EmptySet
<1>6. Cardinality(SUBSET (1 .. n + 1)) = 2^(n + 1)
  BY PowerCounts
<1>7. 2^(n + 1) = 2^n + 2^n - 0
  BY <1>1, <1>5, <1>6, Zenon
<1>8. \A a \in Nat : a + a - 0 = 2 * a
  OBVIOUS
<1> QED BY <1>3, <1>7, <1>8, Zenon

\* A power of two is a positive number.
LEMMA PowerPositive ==
  ASSUME NEW n \in Nat
  PROVE  2^n \in Nat \ {0}
<1> DEFINE T == {k \in Nat : 2^k = 0}
<1> SUFFICES ASSUME T # {} PROVE FALSE
  BY PowerCounts
<1>1. PICK k \in T : \A j \in T : k <= j
  BY Least
<1>2. k # 0
  <2>1. k = 0 => 2^k = 1
    BY PowerZero, Zenon
  <2>2. 2^k = 0
    BY <1>1, Zenon
  <2> QED BY <2>1, <2>2
<1>3. k - 1 \in Nat /\ (k - 1) + 1 = k
  BY <1>1, <1>2
<1>4. 2^(k - 1) = 0
  BY <1>1, <1>3, PowerNext, PowerCounts
<1> QED BY <1>1, <1>3, <1>4

\* Exponents add up.
LEMMA PowerSum ==
  ASSUME NEW m \in Nat, NEW n \in Nat
  PROVE  2^(m + n) = 2^m * 2^n
<1> DEFINE T == {k \in Nat : 2^(m + k) # 2^m * 2^k}
<1> SUFFICES ASSUME T # {} PROVE FALSE
  OBVIOUS
<1>1. PICK k \in T : \A j \in T : k <= j
  BY Least
<1>2. k # 0
  <2>1. m + 0 = m /\ \A a \in Nat : a * 1 = a
    OBVIOUS
  <2>2. 2^m \in Nat
    BY PowerPositive, Zenon
  <2>3. 2^(m + 0) = 2^m * 2^0
    BY <2>1, <2>2, PowerZero, Zenon
  <2> QED BY <1>1, <2>3, Zenon
<1>3. k - 1 \in Nat /\ (k - 1) + 1 = k /\ (m + (k - 1)) + 1 = m + k /\ m + (k - 1) \in Nat
  BY <1>1, <1>2
<1>4. 2^(m + (k - 1)) = 2^m * 2^(k - 1)
  BY <1>1, <1>3
<1>5. 2^k = 2 * 2^(k - 1) /\ 2^(m + k) = 2 * 2^(m + (k - 1))
  BY <1>3, PowerNext
<1>6. 2^(k - 1) \in Nat /\ 2^m \in Nat
  BY <1>3, PowerPositive
<1>7. 2 * (2^m * 2^(k - 1)) = 2^m * (2 * 2^(k - 1))
  BY <1>6
<1> QED BY <1>1, <1>4, <1>5, <1>7

\* A greater exponent makes a multiple.
LEMMA PowerMultiple ==
  ASSUME NEW m \in Nat, NEW n \in Nat, m <= n
  PROVE  n - m \in Nat /\ 2^n = 2^m * 2^(n - m) /\ 2^m <= 2^n
<1>1. n - m \in Nat /\ m + (n - m) = n
  OBVIOUS
<1>2. 2^n = 2^m * 2^(n - m)
  BY <1>1, PowerSum
<1>3. 2^m \in Nat /\ 2^(n - m) \in Nat /\ 2^(n - m) >= 1
  BY <1>1, PowerPositive
<1>4. \A a, b \in Nat : b >= 1 => a <= a * b
  OBVIOUS
<1> QED BY <1>1, <1>2, <1>3, <1>4

---------------------------------------------------------------------------
(* Integers of w bytes.                                                    *)

\* A product of naturals grows with its factors.
LEMMA Grows ==
  ASSUME NEW a \in Nat, NEW b \in Nat, NEW c \in Nat, a <= b
  PROVE  a * c <= b * c /\ c * a <= c * b
<1>1. PICK d \in Nat : b = a + d
  <2>1. b - a \in Nat /\ b = a + (b - a)
    OBVIOUS
  <2> QED BY <2>1
<1>2. b * c = a * c + d * c /\ c * b = c * a + c * d
  BY <1>1
<1>3. a * c \in Nat /\ c * a \in Nat /\ d * c \in Nat /\ c * d \in Nat
  OBVIOUS
<1> QED BY <1>2, <1>3

\* The quotient and the remainder of two naturals.
LEMMA Euclid ==
  ASSUME NEW p \in Nat, NEW q \in Nat \ {0}
  PROVE  /\ p \div q \in Nat /\ p % q \in Nat
         /\ p = q * (p \div q) + (p % q)
         /\ p % q < q
<1>1. p \div q \in Int /\ p \div q >= 0
  OBVIOUS
<1>2. p % q \in Int /\ 0 <= p % q /\ p % q < q
  OBVIOUS
<1>3. p = q * (p \div q) + (p % q)
  OBVIOUS
<1> QED BY <1>1, <1>2, <1>3

\* p \div q is the one k of which k * q is the last multiple up to p.
LEMMA DivBetween ==
  ASSUME NEW p \in Nat, NEW q \in Nat \ {0}, NEW k \in Int
  PROVE  /\ p \div q <= k <=> p < (k + 1) * q
         /\ p \div q < k <=> p < k * q
OBVIOUS

\* Half of the numbers of w bytes are negative.
LEMMA Halves ==
  ASSUME NEW w \in Nat \ {0}
  PROVE  /\ Bits(w) \in Nat \ {0}
         /\ Half(w) = 2^(Bits(w) - 1) /\ Half(w) \in Nat \ {0}
         /\ Mod(w) = 2 * Half(w)
         /\ Ones(w) = 2 * Half(w) - 1
<1>1. Bits(w) \in Nat \ {0}
  <2>1. \A a, b \in Nat \ {0} : a * b \in Nat \ {0}
    OBVIOUS
  <2> QED BY <2>1, NumbersAssumption DEF Bits
<1>2. Bits(w) - 1 \in Nat /\ (Bits(w) - 1) + 1 = Bits(w)
  BY <1>1
<1>3. 2^(Bits(w) - 1) \in Nat \ {0}
  BY <1>2, PowerPositive, Zenon
<1>4. 2^Bits(w) = 2 * 2^(Bits(w) - 1)
  <2>1. 2^((Bits(w) - 1) + 1) = 2 * 2^(Bits(w) - 1)
    BY <1>2, PowerNext, Zenon
  <2> QED BY <1>2, <2>1, Zenon
<1>5. \A a \in Nat \ {0} : (2 * a) \div 2 = a
  OBVIOUS
<1>6. Half(w) = 2^(Bits(w) - 1) /\ Mod(w) = 2 * Half(w)
  BY <1>3, <1>4, <1>5, Zenon DEF Half, Mod
<1> QED BY <1>1, <1>3, <1>6, Zenon DEF Ones

\* The two readings of a number of w bytes.
LEMMA Readings ==
  ASSUME NEW w \in Nat \ {0}, NEW x \in 0 .. Ones(w)
  PROVE  /\ x \in Nat /\ x < Mod(w) /\ Mod(w) \in Nat \ {0}
         /\ Signed(w, x) \in Int
         /\ -Half(w) <= Signed(w, x) /\ Signed(w, x) < Half(w)
         /\ Signed(w, x) = 0 <=> x = 0
BY Halves DEF Signed

\* Cutting a number to w bytes.
LEMMA Wrapped ==
  ASSUME NEW w \in Nat \ {0}, NEW n \in Int
  PROVE  /\ Wrap(w, n) \in 0 .. Ones(w)
         /\ 0 <= n /\ n < Mod(w) => Wrap(w, n) = n
         /\ -Mod(w) <= n /\ n < 0 => Wrap(w, n) = n + Mod(w)
<1>1. Mod(w) \in Nat \ {0} /\ Ones(w) = Mod(w) - 1
  BY Halves DEF Ones
<1>2. \A m \in Nat \ {0} : /\ n % m \in 0 .. m - 1
                           /\ 0 <= n /\ n < m => n % m = n
                           /\ -m <= n /\ n < 0 => n % m = n + m
  OBVIOUS
<1> QED BY <1>1, <1>2 DEF Wrap

\* What is left of a number is itself just when it is one of the readings of a
\* number of w bytes.
LEMMA Reads ==
  ASSUME NEW w \in Nat \ {0}, NEW n \in Int
  PROVE  /\ IntOf(w, "s", Wrap(w, n)) = n <=> -Half(w) <= n /\ n < Half(w)
         /\ IntOf(w, "u", Wrap(w, n)) = n <=> 0 <= n /\ n < Mod(w)
<1>1. Wrap(w, n) \in 0 .. Ones(w)
  BY Wrapped
<1>2. -Half(w) <= Signed(w, Wrap(w, n)) /\ Signed(w, Wrap(w, n)) < Half(w)
  BY <1>1, Readings
<1>3. IntOf(w, "u", Wrap(w, n)) = Wrap(w, n) /\ IntOf(w, "s", Wrap(w, n)) = Signed(w, Wrap(w, n))
  BY DEF IntOf
<1>4. Half(w) \in Nat \ {0} /\ Mod(w) = 2 * Half(w) /\ Ones(w) = 2 * Half(w) - 1
  BY Halves
<1>5. ASSUME -Half(w) <= n, n < Half(w) PROVE Signed(w, Wrap(w, n)) = n
  <2>1. CASE n < 0
    <3>1. Wrap(w, n) = n + Mod(w)
      BY <1>4, <1>5, <2>1, Wrapped
    <3> QED BY <1>4, <1>5, <2>1, <3>1 DEF Signed
  <2>2. CASE 0 <= n
    <3>1. Wrap(w, n) = n
      BY <1>4, <1>5, <2>2, Wrapped
    <3> QED BY <1>4, <1>5, <2>2, <3>1 DEF Signed
  <2> QED BY <2>1, <2>2
<1>6. 0 <= n /\ n < Mod(w) => Wrap(w, n) = n
  BY Wrapped
<1> QED BY <1>1, <1>2, <1>3, <1>4, <1>5, <1>6

---------------------------------------------------------------------------
(* Division.                                                               *)

\* Go's quotient and remainder are the ones WebAssembly speaks of.
LEMMA TowardsZero ==
  ASSUME NEW m \in Int, NEW n \in Int \ {0}
  PROVE  /\ GoDiv(m, n) = Quotient(m, n) /\ Quotient(m, n) \in Int
         /\ GoRem(m, n) = m - n * Quotient(m, n)
<1>1. PICK p \in Nat, q \in Nat \ {0} :
        p = (IF m < 0 THEN -m ELSE m) /\ q = (IF n < 0 THEN -n ELSE n)
  OBVIOUS
<1>2. PICK d \in Nat, r \in Nat : d = p \div q /\ r = p % q /\ p = q * d + r
  BY Euclid, Zenon
<1>3. Abs(m) = p /\ Abs(n) = q
  BY <1>1 DEF Abs
<1>4. Quotient(m, n) = (IF (m < 0) # (n < 0) THEN -d ELSE d)
  BY <1>1, <1>2 DEF Quotient
<1>5. GoDiv(m, n) = (IF (m < 0) = (n < 0) THEN d ELSE -d)
  BY <1>2, <1>3, Zenon DEF GoDiv
<1>6. GoRem(m, n) = (IF m < 0 THEN -r ELSE r)
  BY <1>2, <1>3, Zenon DEF GoRem
<1>7. m = (IF m < 0 THEN -p ELSE p)
  BY <1>1
<1>8. PICK e \in Int : e = q * d /\ p = e + r
  BY <1>2
<1>9. n * d = (IF n < 0 THEN -e ELSE e) /\ n * (-d) = (IF n < 0 THEN e ELSE -e)
  BY <1>1, <1>8
<1>a. CASE m < 0 /\ n < 0
  BY <1>a, <1>4, <1>5, <1>6, <1>7, <1>8, <1>9
<1>b. CASE m < 0 /\ ~(n < 0)
  BY <1>b, <1>4, <1>5, <1>6, <1>7, <1>8, <1>9
<1>c. CASE ~(m < 0) /\ n < 0
  BY <1>c, <1>4, <1>5, <1>6, <1>7, <1>8, <1>9
<1>d. CASE ~(m < 0) /\ ~(n < 0)
  BY <1>d, <1>4, <1>5, <1>6, <1>7, <1>8, <1>9
<1> QED BY <1>a, <1>b, <1>c, <1>d

\* The quotient of two naturals is no greater than the dividend, and no greater
\* than half of it when the divisor is not 1.
LEMMA Smaller ==
  ASSUME NEW p \in Nat, NEW q \in Nat \ {0}
  PROVE  /\ p \div q <= p
         /\ q # 1 => 2 * (p \div q) <= p
<1>1. PICK d \in Nat, r \in Nat : d = p \div q /\ p = q * d + r
  BY Euclid, Zenon
<1>2. d <= q * d
  BY Grows, 1 <= q
<1>3. q # 1 => 2 * d <= q * d
  BY Grows, q # 1 => 2 <= q
<1>4. q * d \in Nat
  BY <1>1
<1> QED BY <1>1, <1>2, <1>3, <1>4

\* The quotient of two readings is not one only when the least number is divided
\* by -1.
LEMMA QuotientFits ==
  ASSUME NEW h \in Nat \ {0}, NEW m \in Int, NEW n \in Int \ {0}, -h <= m, m < h
  PROVE  /\ -h <= Quotient(m, n) /\ Quotient(m, n) <= h
         /\ Quotient(m, n) = h <=> m = -h /\ n = -1
<1>1. PICK p \in Nat, q \in Nat \ {0} :
        p = (IF m < 0 THEN -m ELSE m) /\ q = (IF n < 0 THEN -n ELSE n)
  OBVIOUS
<1>2. PICK d \in Nat : d = p \div q /\ d <= p /\ (q # 1 => 2 * d <= p)
  BY Euclid, Smaller, Zenon
<1>3. Quotient(m, n) = (IF (m < 0) # (n < 0) THEN -d ELSE d)
  BY <1>1, <1>2 DEF Quotient
<1>4. p <= h /\ (p = h <=> m = -h)
  BY <1>1
<1>5. CASE q = 1
  <2>1. d = p
    <3>1. p \div 1 = p
      OBVIOUS
    <3> QED BY <1>2, <1>5, <3>1, Zenon
  <2> QED BY <1>1, <1>3, <1>4, <1>5, <2>1
<1>6. CASE q # 1
  BY <1>1, <1>2, <1>3, <1>4, <1>6
<1> QED BY <1>5, <1>6

\* i32_div_s, i32_div_u, i32_rem_s, i32_rem_u and their 64-bit twins, which test
\* for a zero divisor and for -1 before they divide, deliver for all operands
\* what WebAssembly says, traps included.
THEOREM DivisionMeansWasm ==
  ASSUME NEW w \in Nat \ {0}, NEW x \in 0 .. Ones(w), NEW y \in 0 .. Ones(w)
  PROVE  /\ DivS(w, x, y) = Divided(w, "div", "s", x, y)
         /\ DivU(w, x, y) = Divided(w, "div", "u", x, y)
         /\ RemS(w, x, y) = Divided(w, "rem", "s", x, y)
         /\ RemU(w, x, y) = Divided(w, "rem", "u", x, y)
<1>1. PICK m \in Int, n \in Int, h \in Nat \ {0} :
        /\ m = Signed(w, x) /\ n = Signed(w, y) /\ h = Half(w)
        /\ -h <= m /\ m < h
        /\ n = 0 <=> y = 0
  BY Readings, Halves
<1>2. x \in Nat /\ y \in Nat /\ x < Mod(w)
  BY Readings
<1>3. IntOf(w, "s", x) = m /\ IntOf(w, "s", y) = n /\ IntOf(w, "u", x) = x /\ IntOf(w, "u", y) = y
  BY <1>1 DEF IntOf
<1>4. CASE y = 0
  <2>1. n = 0 /\ n # -1
    BY <1>1, <1>4
  <2>2. DivS(w, x, y) = DivideByZero /\ RemS(w, x, y) = DivideByZero
    BY <1>1, <2>1 DEF DivS, RemS
  <2>3. DivU(w, x, y) = DivideByZero /\ RemU(w, x, y) = DivideByZero
    BY <1>4 DEF DivU, RemU
  <2> QED BY <1>3, <1>4, <2>1, <2>2, <2>3 DEF Divided
<1>5. CASE y # 0
  <2>1. n # 0
    BY <1>1, <1>5
  <2>2. DivS(w, x, y) = Divided(w, "div", "s", x, y)
    <3>1. GoDiv(m, n) = Quotient(m, n)
      BY <2>1, TowardsZero
    <3>2. Quotient(m, n) = h <=> m = -h /\ n = -1
      BY <1>1, <2>1, QuotientFits
    <3>3. DivS(w, x, y) = IF n = -1 /\ m = -h THEN IntOverflow ELSE <<Wrap(w, GoDiv(m, n))>>
      BY <1>1, <2>1 DEF DivS
    <3>4. Divided(w, "div", "s", x, y) = IF Quotient(m, n) = h THEN IntOverflow ELSE <<Wrap(w, Quotient(m, n))>>
      BY <1>1, <1>3, <2>1 DEF Divided
    <3> QED BY <3>1, <3>2, <3>3, <3>4
  <2>3. RemS(w, x, y) = Divided(w, "rem", "s", x, y)
    <3>1. GoRem(m, n) = m - n * Quotient(m, n)
      BY <2>1, TowardsZero
    <3>2. RemS(w, x, y) = IF n = -1 THEN <<0>> ELSE <<Wrap(w, GoRem(m, n))>>
      BY <1>1, <2>1 DEF RemS
    <3>3. Divided(w, "rem", "s", x, y) = <<Wrap(w, m - n * Quotient(m, n))>>
      BY <1>3, <2>1 DEF Divided
    <3>4. CASE n = -1
      <4>1. GoRem(m, n) = 0
        <5>1. Abs(n) = 1
          <6>1. Abs(n) = -n
            BY <3>4 DEF Abs
          <6> QED BY <3>4, <6>1
        <5>3. Abs(m) \in Nat
          BY DEF Abs
        <5>2. \A a \in Nat : a % 1 = 0
          OBVIOUS
        <5> QED BY <5>1, <5>2, <5>3 DEF GoRem
      <4>2. Wrap(w, 0) = 0
        BY Wrapped, Readings
      <4> QED BY <3>1, <3>2, <3>3, <3>4, <4>1, <4>2
    <3>5. CASE n # -1
      BY <3>1, <3>2, <3>3, <3>5
    <3> QED BY <3>4, <3>5
  <2>4. PICK d \in Nat, r \in Nat : d = x \div y /\ r = x % y /\ x = y * d + r /\ d <= x /\ r < y
    BY <1>2, <1>5, Euclid, Smaller
  <2>5. Quotient(x, y) = d /\ x - y * d = r
    <3>1. Quotient(x, y) = x \div y
      BY <1>2 DEF Quotient
    <3>2. y * d \in Nat
      BY <1>2
    <3> QED BY <2>4, <3>1, <3>2
  <2>6. d < Mod(w) /\ r < Mod(w) /\ Mod(w) \in Nat
    <3>1. y * d \in Nat
      BY <1>2
    <3> QED BY <1>2, <2>4, <3>1, Readings
  <2>7. Wrap(w, d) = d /\ Wrap(w, r) = r
    BY <2>6, Wrapped
  <2>8. DivU(w, x, y) = <<d>> /\ RemU(w, x, y) = <<r>>
    BY <1>5, <2>4 DEF DivU, RemU
  <2>9. /\ Divided(w, "div", "u", x, y) = <<Wrap(w, d)>>
        /\ Divided(w, "rem", "u", x, y) = <<Wrap(w, r)>>
    BY <1>3, <1>5, <2>5 DEF Divided
  <2> QED BY <2>2, <2>3, <2>7, <2>8, <2>9
<1> QED BY <1>4, <1>5

---------------------------------------------------------------------------
(* Floats.                                                                 *)

\* A float of f bytes has a mantissa.
FloatWidth(f) == f \in Nat \ {0} /\ ManBits(f) \in Nat \ {0}

\* The value without its sign, in units of the least positive one.
Size(f, x) ==
  IF Exponent(f, x) = 0 THEN Mantissa(f, x)
  ELSE (2^ManBits(f) + Mantissa(f, x)) * 2^(Exponent(f, x) - 1)

\* A quotient and a remainder are what they are.
LEMMA Unique ==
  ASSUME NEW q \in Nat \ {0}, NEW d \in Nat, NEW r \in Nat, r < q
  PROVE  (q * d + r) \div q = d /\ (q * d + r) % q = r
<1>1. PICK c \in Nat, s \in Nat :
        c = (q * d + r) \div q /\ s = (q * d + r) % q /\ q * d + r = q * c + s /\ s < q
  <2>1. q * d + r \in Nat
    OBVIOUS
  <2> QED BY <2>1, Euclid
<1>2. c <= d
  <2>1. q * d + r < (d + 1) * q
    OBVIOUS
  <2> QED BY <1>1, <2>1, DivBetween, q * d + r \in Nat
<1>3. ~(c <= d - 1)
  <2>1. ~(q * d + r < ((d - 1) + 1) * q)
    OBVIOUS
  <2> QED BY <1>1, <2>1, DivBetween, q * d + r \in Nat, d - 1 \in Int
<1>4. c = d
  BY <1>2, <1>3
<1>5. q * d \in Nat
  OBVIOUS
<1> QED BY <1>1, <1>4, <1>5

\* The bits of a float: sign, exponent, mantissa.
LEMMA FloatParts ==
  ASSUME NEW f, FloatWidth(f), NEW x \in 0 .. Ones(f)
  PROVE  /\ Exponent(f, x) \in Nat /\ Exponent(f, x) <= ExpTop
         /\ Mantissa(f, x) \in Nat /\ Mantissa(f, x) < 2^ManBits(f)
         /\ Magnitude(f, x) = 2^ManBits(f) * Exponent(f, x) + Mantissa(f, x)
         /\ x = (IF Negative(f, x) THEN Half(f) ELSE 0) + Magnitude(f, x)
         /\ 2^ManBits(f) \in Nat \ {0} /\ ExpTop + 1 = 2^ExpBits
         /\ Half(f) = 2^ManBits(f) * 2^ExpBits /\ 2^ExpBits \in Nat \ {0}
<1>1. f \in Nat \ {0} /\ ManBits(f) \in Nat \ {0} /\ ExpBits \in Nat \ {0}
  BY NumbersAssumption DEF FloatWidth
<1>2. PICK p \in Nat \ {0}, t \in Nat \ {0} : p = 2^ManBits(f) /\ t = 2^ExpBits
  BY <1>1, PowerPositive
<1>3. Half(f) = p * t
  <2>1. Bits(f) \in Nat /\ ManBits(f) + ExpBits = Bits(f) - 1
    BY <1>1, Halves DEF ManBits
  <2>2. 2^(ManBits(f) + ExpBits) = 2^ManBits(f) * 2^ExpBits
    BY <1>1, PowerSum
  <2> QED BY <1>1, <1>2, <2>1, <2>2, Halves
<1>h. PICK h \in Nat \ {0} : h = Half(f) /\ x \in Nat /\ x < 2 * h
  BY <1>1, Halves
<1>4. PICK g \in Nat, s \in Nat : g = x % h /\ g < h /\ x = h * s + g /\ s = x \div h
  BY Euclid
<1>5. s = (IF x >= h THEN 1 ELSE 0) /\ x = (IF x >= h THEN h ELSE 0) + g
  <2>1. s <= 1 <=> x < (1 + 1) * h
    BY <1>h, <1>4, DivBetween
  <2>2. s < 1 <=> x < h
    <3>1. \A a \in Nat, b \in Nat \ {0} : a \div b < 1 <=> a < b
      OBVIOUS
    <3> QED BY <1>h, <1>4, <3>1
  <2>3. s = IF x >= h THEN 1 ELSE 0
    BY <1>h, <2>1, <2>2
  <2>4. s = 0 => h * s = 0
    OBVIOUS
  <2>5. s = 1 => h * s = h
    OBVIOUS
  <2> QED BY <1>4, <2>3, <2>4, <2>5
<1>6. PICK e \in Nat, m \in Nat : e = g \div p /\ m = g % p /\ g = p * e + m /\ m < p
  BY Euclid
<1>7. x % p = m
  <2>1. CASE x < h
    <3>1. x = g
      BY <1>h, <1>5, <2>1
    <3> QED BY <1>6, <3>1
  <2>2. CASE x >= h
    <3>1. x = p * t + (p * e + m)
      BY <1>3, <1>h, <1>5, <1>6, <2>2
    <3>2. p * t + (p * e + m) = p * (t + e) + m
      OBVIOUS
    <3>3. t + e \in Nat
      OBVIOUS
    <3>4. (p * (t + e) + m) % p = m
      BY <1>6, <3>3, Unique
    <3> QED BY <3>1, <3>2, <3>4
  <2> QED BY <1>h, <2>1, <2>2
<1>8. e < t
  <2>1. g < t * p
    BY <1>3, <1>h, <1>4
  <2> QED BY <1>6, <2>1, DivBetween
<1>9. Magnitude(f, x) = g /\ Exponent(f, x) = e /\ Mantissa(f, x) = m
  BY <1>2, <1>h, <1>4, <1>6, <1>7 DEF Magnitude, Exponent, Mantissa
<1>10. x = (IF Negative(f, x) THEN Half(f) ELSE 0) + g
  BY <1>h, <1>5 DEF Negative
<1>11. ExpTop = t - 1
  BY <1>2 DEF ExpTop
<1>12. e <= t - 1 /\ (t - 1) + 1 = t
  BY <1>8
<1> QED BY <1>2, <1>3, <1>6, <1>9, <1>10, <1>11, <1>12, Zenon

\* The value is the size with the sign, and the whole part the quotient by 1.0.
LEMMA ValueIs ==
  ASSUME NEW f, FloatWidth(f), NEW x \in 0 .. Ones(f)
  PROVE  /\ Size(f, x) \in Nat
         /\ One(f) \in Nat \ {0}
         /\ Value(f, x) = (IF Negative(f, x) THEN -Size(f, x) ELSE Size(f, x))
         /\ Whole(f, x) = (IF Negative(f, x) THEN -(Size(f, x) \div One(f))
                           ELSE Size(f, x) \div One(f))
<1>1. PICK e \in Nat, m \in Nat, p \in Nat :
        e = Exponent(f, x) /\ m = Mantissa(f, x) /\ p = 2^ManBits(f)
  BY FloatParts
<1>2. Size(f, x) = IF e = 0 THEN m ELSE (p + m) * 2^(e - 1)
  BY <1>1 DEF Size
<1>3. Size(f, x) \in Nat
  <2>1. CASE e = 0
    BY <1>2, <2>1
  <2>2. CASE e # 0
    <3>1. e - 1 \in Nat
      BY <2>2
    <3>2. PICK k \in Nat : k = 2^(e - 1)
      BY <3>1, PowerPositive
    <3>3. (p + m) * k \in Nat
      OBVIOUS
    <3> QED BY <1>2, <2>2, <3>2, <3>3
  <2> QED BY <2>1, <2>2
<1>4. One(f) \in Nat \ {0}
  <2>1. ExpBits - 1 \in Nat /\ ManBits(f) \in Nat \ {0}
    BY NumbersAssumption DEF FloatWidth
  <2>2. PICK k \in Nat \ {0} : k = 2^(ExpBits - 1)
    BY <2>1, PowerPositive
  <2>3. k - 2 + ManBits(f) \in Nat
    BY <2>1
  <2> QED BY <2>2, <2>3, PowerPositive DEF One
<1>5. Value(f, x) = (IF Negative(f, x) THEN -Size(f, x) ELSE Size(f, x))
  BY DEF Value, Size
<1>6. \A n \in Nat : -(-n) = n
  OBVIOUS
<1> QED BY <1>3, <1>4, <1>5, <1>6 DEF Whole

\* 1.0 is this power of two, and e0 the half of the exponents.
LEMMA OneIs ==
  ASSUME NEW f, FloatWidth(f)
  PROVE  /\ 2^(ExpBits - 1) \in Nat \ {0}
         /\ 2^(ExpBits - 1) - 2 + ManBits(f) \in Nat
         /\ One(f) = 2^(2^(ExpBits - 1) - 2 + ManBits(f))
         /\ ExpTop = 2 * 2^(ExpBits - 1) - 1
<1>1. ExpBits - 1 \in Nat /\ (ExpBits - 1) + 1 = ExpBits /\ ManBits(f) \in Nat \ {0}
  BY NumbersAssumption DEF FloatWidth
<1>2. PICK k \in Nat \ {0} : k = 2^(ExpBits - 1)
  BY <1>1, PowerPositive
<1>3. 2^((ExpBits - 1) + 1) = 2 * k
  BY <1>1, <1>2, PowerNext
<1>4. ExpTop = 2 * k - 1
  BY <1>1, <1>3 DEF ExpTop
<1>5. k - 2 + ManBits(f) \in Nat
  BY <1>1
<1> QED BY <1>2, <1>4, <1>5 DEF One

\* The greatest exponent makes a value beyond every integer of i bytes.
LEMMA Infinity ==
  ASSUME NEW f, FloatWidth(f), NEW x \in 0 .. Ones(f), Exponent(f, x) = ExpTop,
         NEW i \in Nat \ {0}, Bits(i) <= 2^(ExpBits - 1)
  PROVE  Mod(i) * One(f) <= Size(f, x)
<1>1. PICK k \in Nat \ {0}, M \in Nat \ {0}, b \in Nat \ {0} :
        /\ k = 2^(ExpBits - 1) /\ M = ManBits(f) /\ b = Bits(i) /\ b <= k
        /\ k - 2 + M \in Nat /\ One(f) = 2^(k - 2 + M) /\ ExpTop = 2 * k - 1
  BY OneIs, Halves DEF FloatWidth
<1>2. PICK m \in Nat, p \in Nat, q \in Nat : m = Mantissa(f, x) /\ p = 2^M /\ q = 2^(2 * k - 2)
  <2>1. 2 * k - 2 \in Nat
    OBVIOUS
  <2> QED BY <1>1, <2>1, FloatParts, PowerPositive
<1>3. Size(f, x) = (p + m) * q
  <2>1. 2 * k - 1 # 0 /\ (2 * k - 1) - 1 = 2 * k - 2
    OBVIOUS
  <2> QED BY <1>1, <1>2, <2>1, Zenon DEF Size
<1>4. Mod(i) * One(f) = 2^(b + (k - 2 + M))
  BY <1>1, PowerSum DEF Mod
<1>5. p * q = 2^(M + (2 * k - 2))
  <2>1. 2 * k - 2 \in Nat
    OBVIOUS
  <2> QED BY <1>2, <2>1, PowerSum
<1>6. 2^(b + (k - 2 + M)) <= 2^(M + (2 * k - 2))
  <2>1. b + (k - 2 + M) \in Nat /\ M + (2 * k - 2) \in Nat /\ b + (k - 2 + M) <= M + (2 * k - 2)
    BY <1>1
  <2> QED BY <2>1, PowerMultiple
<1>7. p * q <= (p + m) * q /\ p * q \in Nat /\ (p + m) * q \in Nat
  BY Grows, p <= p + m, p + m \in Nat
<1>8. 2^(b + (k - 2 + M)) \in Nat
  <2>1. b + (k - 2 + M) \in Nat
    BY <1>1
  <2> QED BY <2>1, PowerPositive
<1> QED BY <1>3, <1>4, <1>5, <1>6, <1>7, <1>8

\* A float whose mantissa is shorter than the integer has no value between the
\* greatest power of two in it and the next one of its own, at least 1 away.
LEMMA Spacing ==
  ASSUME NEW f, FloatWidth(f), NEW x \in 0 .. Ones(f),
         NEW i \in Nat \ {0}, ManBits(f) < Bits(i)
  PROVE  \E step \in Nat :
           /\ step = (Half(i) \div 2^ManBits(f)) * One(f)
           /\ One(f) <= step
           /\ Size(f, x) > Half(i) * One(f) => Size(f, x) >= Half(i) * One(f) + step
<1>1. PICK k \in Nat \ {0}, M \in Nat \ {0}, b \in Nat \ {0} :
        /\ k = 2^(ExpBits - 1) /\ M = ManBits(f) /\ b = Bits(i) /\ M < b
        /\ k - 2 + M \in Nat /\ One(f) = 2^(k - 2 + M)
        /\ Half(i) = 2^(b - 1)
  BY OneIs, Halves DEF FloatWidth
<1>2. /\ b - 1 \in Nat /\ b - 1 - M \in Nat /\ M + (b - 1 - M) = b - 1
      /\ b + k - 3 \in Nat /\ (b - 1 - M) + (k - 2 + M) = b + k - 3
      /\ k - 2 + M <= b + k - 3 /\ M + (b + k - 3) = (b - 1) + (k - 2 + M)
  BY <1>1
<1>3. PICK p \in Nat \ {0}, s \in Nat \ {0}, u \in Nat \ {0}, c \in Nat \ {0} :
        p = 2^M /\ s = 2^(b + k - 3) /\ u = One(f) /\ c = 2^(b - 1 - M)
  BY <1>1, <1>2, PowerPositive
<1>4. Half(i) = p * c /\ Half(i) \div p = c
  <2>1. Half(i) = p * c
    <3>1. 2^(M + (b - 1 - M)) = 2^M * 2^(b - 1 - M)
      BY <1>2, PowerSum
    <3> QED BY <1>1, <1>2, <1>3, <3>1
  <2>2. (p * c + 0) \div p = c
    BY Unique
  <2>3. p * c + 0 = p * c
    OBVIOUS
  <2> QED BY <2>1, <2>2, <2>3, Zenon
<1>5. c * u = s
  <2>1. 2^((b - 1 - M) + (k - 2 + M)) = 2^(b - 1 - M) * 2^(k - 2 + M)
    BY <1>1, <1>2, PowerSum
  <2> QED BY <1>1, <1>2, <1>3, <2>1
<1>6. u <= s
  BY <1>1, <1>2, <1>3, PowerMultiple
<1>7. Half(i) * u = p * s
  BY <1>4, <1>5
<1>8. ASSUME Size(f, x) > p * s PROVE Size(f, x) >= p * s + s
  <2>1. PICK e \in Nat, m \in Nat : e = Exponent(f, x) /\ m = Mantissa(f, x) /\ m < p
    BY <1>1, <1>3, FloatParts
  <2>2. e # 0
    <3>1. SUFFICES ASSUME e = 0 PROVE FALSE
      OBVIOUS
    <3>2. Size(f, x) = m
      BY <2>1, <3>1 DEF Size
    <3>3. p <= p * s
      <4>1. \A a \in Nat, d \in Nat \ {0} : a <= a * d
        OBVIOUS
      <4> QED BY <4>1
    <3> QED BY <1>8, <2>1, <3>2, <3>3
  <2>3. PICK q \in Nat \ {0} : q = 2^(e - 1)
    BY <2>2, e - 1 \in Nat, PowerPositive
  <2>4. Size(f, x) = (p + m) * q
    BY <1>1, <1>3, <2>1, <2>2, <2>3 DEF Size
  <2>5. b + k - 3 <= e - 1
    <3>1. SUFFICES ASSUME e <= b + k - 3 PROVE FALSE
      BY <1>2
    <3>2. 2 * q <= s
      <4>1. 2 * q = 2^e
        <5>1. e - 1 \in Nat /\ (e - 1) + 1 = e
          BY <2>2
        <5> QED BY <2>3, <5>1, PowerNext
      <4> QED BY <1>2, <1>3, <3>1, <4>1, PowerMultiple
    <3>3. (p + m) * q <= (2 * p) * q
      BY <2>1, Grows, p + m <= 2 * p, p + m \in Nat, 2 * p \in Nat
    <3>4. (2 * p) * q = p * (2 * q) /\ p * (2 * q) <= p * s
      BY <3>2, Grows, 2 * q \in Nat
    <3>5. (p + m) * q \in Nat /\ p * (2 * q) \in Nat /\ p * s \in Nat
      OBVIOUS
    <3> QED BY <1>8, <2>4, <3>3, <3>4, <3>5
  <2>6. PICK j \in Nat : q = s * j
    <3>1. /\ (e - 1) - (b + k - 3) \in Nat
          /\ 2^(e - 1) = 2^(b + k - 3) * 2^((e - 1) - (b + k - 3))
      BY <1>2, <2>2, <2>5, e - 1 \in Nat, PowerMultiple
    <3> QED BY <1>3, <2>3, <3>1, PowerPositive
  <2>7. PICK n \in Nat : n = (p + m) * j /\ Size(f, x) = n * s
    <3>1. (p + m) * (s * j) = ((p + m) * j) * s /\ (p + m) * j \in Nat
      OBVIOUS
    <3> QED BY <2>4, <2>6, <3>1
  <2>8. p + 1 <= n
    <3>1. n <= p => n * s <= p * s
      BY Grows
    <3>2. n * s \in Nat /\ p * s \in Nat
      OBVIOUS
    <3> QED BY <1>8, <2>7, <3>1, <3>2
  <2>9. (p + 1) * s <= n * s
    BY <2>8, Grows, p + 1 \in Nat
  <2>10. (p + 1) * s = p * s + s
    OBVIOUS
  <2> QED BY <2>7, <2>9, <2>10
<1> QED BY <1>1, <1>3, <1>4, <1>5, <1>6, <1>7, <1>8

---------------------------------------------------------------------------
(* Floats to integers.                                                     *)

\* Which floats have a whole part that is an integer of i bytes, by their size.
LEMMA WholeFits ==
  ASSUME NEW f, FloatWidth(f), NEW x \in 0 .. Ones(f), NEW h \in Nat \ {0}
  PROVE  /\ Whole(f, x) \in Int
         /\ Negative(f, x) => /\ Whole(f, x) <= 0
                              /\ -h <= Whole(f, x) <=> Size(f, x) < (h + 1) * One(f)
                              /\ 0 <= Whole(f, x) <=> Size(f, x) < One(f)
         /\ ~Negative(f, x) => /\ 0 <= Whole(f, x)
                               /\ Whole(f, x) < h <=> Size(f, x) < h * One(f)
<1>1. PICK s \in Nat, u \in Nat \ {0}, q \in Nat :
        /\ s = Size(f, x) /\ u = One(f) /\ q = s \div u
        /\ Whole(f, x) = IF Negative(f, x) THEN -q ELSE q
  <2>1. Size(f, x) \in Nat /\ One(f) \in Nat \ {0}
    BY ValueIs
  <2>2. Size(f, x) \div One(f) \in Nat
    BY <2>1, Euclid
  <2> QED BY <2>1, <2>2, ValueIs
<1>2. q <= h <=> s < (h + 1) * u
  BY <1>1, DivBetween
<1>3. q < h <=> s < h * u
  BY <1>1, DivBetween
<1>4. q < 1 <=> s < u
  <2>1. \A a \in Nat, b \in Nat \ {0} : a \div b < 1 <=> a < b
    OBVIOUS
  <2> QED BY <1>1, <2>1
<1> QED BY <1>1, <1>2, <1>3, <1>4

\* The floats a conversion to i bytes must convert.
Converts(f, i, sign, x) ==
  IF sign = "s" THEN -Half(i) <= Whole(f, x) /\ Whole(f, x) < Half(i)
  ELSE 0 <= Whole(f, x) /\ Whole(f, x) < Mod(i)

\* Infinities are beyond them all, so the test of a helper has only to tell
\* which floats have an integer for their whole part.
LEMMA TruncConverts ==
  ASSUME NEW f, FloatWidth(f), NEW x \in 0 .. Ones(f),
         NEW i \in Nat \ {0}, Bits(i) <= 2^(ExpBits - 1),
         NEW sign \in {"s", "u"}, NEW inside \in BOOLEAN,
         inside <=> Converts(f, i, sign, x)
  PROVE  TruncBetween(f, i, x, inside) = Converted(f, i, sign, x)
<1>1. Whole(f, x) \in Int /\ Half(i) \in Nat \ {0} /\ Mod(i) \in Nat \ {0} /\ Half(i) <= Mod(i)
      /\ Half(i) + 1 <= Mod(i)
  BY WholeFits, Halves
<1>2. IntOf(i, sign, Wrap(i, Whole(f, x))) = Whole(f, x) <=> Converts(f, i, sign, x)
  BY <1>1, Reads DEF Converts
<1>3. ASSUME Exponent(f, x) = ExpTop PROVE ~Converts(f, i, sign, x)
  <2>1. PICK s \in Nat, u \in Nat \ {0}, h \in Nat \ {0}, m \in Nat \ {0} :
          s = Size(f, x) /\ u = One(f) /\ h = Half(i) /\ m = Mod(i) /\ h + 1 <= m /\ m * u <= s
    BY <1>1, <1>3, ValueIs, Infinity
  <2>2. (h + 1) * u <= m * u /\ h * u <= m * u /\ 1 * u <= m * u
    BY <2>1, Grows, h + 1 \in Nat, 1 \in Nat, h <= m, 1 <= m
  <2>3. h * u \in Nat /\ (h + 1) * u \in Nat /\ m * u \in Nat /\ 1 * u = u
    OBVIOUS
  <2>4. s >= (h + 1) * u /\ s >= h * u /\ s >= m * u /\ s >= u
    BY <2>1, <2>2, <2>3
  <2>5. CASE Negative(f, x)
    <3>1. ~(-h <= Whole(f, x)) /\ ~(0 <= Whole(f, x))
      BY <2>1, <2>3, <2>4, <2>5, WholeFits
    <3> QED BY <2>1, <3>1 DEF Converts
  <2>6. CASE ~Negative(f, x)
    <3>1. ~(Whole(f, x) < h) /\ ~(Whole(f, x) < m)
      BY <2>1, <2>3, <2>4, <2>6, WholeFits
    <3> QED BY <2>1, <3>1 DEF Converts
  <2> QED BY <2>5, <2>6
<1> QED BY <1>2, <1>3 DEF TruncBetween, Converted

\* i32_trunc_f32_s .. i64_trunc_f64_u test a float against bounds that are
\* floats themselves, below the least integer a different one for each pair of
\* types; i32_trunc_sat_f32_s .. i64_trunc_sat_f64_u clamp.  For every float
\* they deliver what WebAssembly says, traps included, where the exponents reach
\* the integers, and, for the bounds that are the float next to the least
\* integer, or that integer, where the mantissa is shorter than the integer.
THEOREM TruncationMeansWasm ==
  ASSUME NEW f, FloatWidth(f), NEW x \in 0 .. Ones(f),
         NEW i \in Nat \ {0}, Bits(i) <= 2^(ExpBits - 1)
  PROVE  /\ TruncWideS(f, i, x) = Converted(f, i, "s", x)
         /\ TruncU(f, i, x) = Converted(f, i, "u", x)
         /\ ManBits(f) < Bits(i) => /\ TruncNarrowS(f, i, x) = Converted(f, i, "s", x)
                                    /\ TruncEqualS(f, i, x) = Converted(f, i, "s", x)
         /\ TruncSatS(f, i, x) = Saturated(f, i, "s", x)
         /\ TruncSatU(f, i, x) = Saturated(f, i, "u", x)
<1>1. PICK s \in Nat, u \in Nat \ {0}, h \in Nat \ {0}, v \in Int, n \in Int :
        /\ s = Size(f, x) /\ u = One(f) /\ h = Half(i) /\ Mod(i) = 2 * h /\ Ones(i) = 2 * h - 1
        /\ v = Value(f, x) /\ n = Whole(f, x)
        /\ v = IF Negative(f, x) THEN -s ELSE s
  <2>1. Size(f, x) \in Nat /\ One(f) \in Nat \ {0} /\ Half(i) \in Nat \ {0}
    BY ValueIs, Halves
  <2>2. Value(f, x) \in Int
    BY <2>1, ValueIs
  <2>3. Whole(f, x) \in Int
    BY <2>1, WholeFits
  <2> QED BY <2>1, <2>2, <2>3, ValueIs, Halves
<1> DEFINE neg == Negative(f, x)
<1>2. PICK hu \in Nat \ {0} : hu = h * u
  <2>1. \A a, b \in Nat \ {0} : a * b \in Nat \ {0}
    OBVIOUS
  <2> QED BY <2>1
<1>3. /\ -h * u = -hu /\ (h + 1) * u = hu + u /\ -(h + 1) * u = -(hu + u)
      /\ (2 * h) * u = 2 * hu
  BY <1>2
<1>4. /\ neg => /\ n <= 0
                /\ -h <= n <=> s < hu + u
                /\ 0 <= n <=> s < u
      /\ ~neg => /\ 0 <= n
                 /\ n < h <=> s < hu
                 /\ n < 2 * h <=> s < 2 * hu
  <2>1. 2 * h \in Nat \ {0}
    OBVIOUS
  <2>2. /\ neg => /\ n <= 0
                  /\ -h <= n <=> s < (h + 1) * u
                  /\ 0 <= n <=> s < u
        /\ ~neg => /\ 0 <= n
                   /\ n < h <=> s < h * u
    BY <1>1, WholeFits
  <2>3. ~neg => (n < 2 * h <=> s < (2 * h) * u)
    BY <1>1, <2>1, WholeFits
  <2> QED BY <1>2, <1>3, <2>2, <2>3
<1>5. Converts(f, i, "s", x) <=> -h <= n /\ n < h
  BY <1>1 DEF Converts
<1>6. Converts(f, i, "u", x) <=> 0 <= n /\ n < 2 * h
  BY <1>1 DEF Converts
<1> HIDE DEF neg
<1>7. v = IF neg THEN -s ELSE s
  BY <1>1 DEF neg
<1>8. TruncWideS(f, i, x) = Converted(f, i, "s", x)
  <2>1. v > -(hu + u) /\ v < hu <=> -h <= n /\ n < h
    BY <1>4, <1>7
  <2>2. TruncWideS(f, i, x) = TruncBetween(f, i, x, v > -(hu + u) /\ v < hu)
    BY <1>1, <1>2, <1>3, Zenon DEF TruncWideS
  <2> QED BY <1>5, <2>1, <2>2, TruncConverts, (v > -(hu + u) /\ v < hu) \in BOOLEAN
<1>9. TruncU(f, i, x) = Converted(f, i, "u", x)
  <2>1. v > -u /\ v < 2 * hu <=> 0 <= n /\ n < 2 * h
    BY <1>4, <1>7
  <2>2. TruncU(f, i, x) = TruncBetween(f, i, x, v > -u /\ v < 2 * hu)
    BY <1>1, <1>3, Zenon DEF TruncU
  <2> QED BY <1>6, <2>1, <2>2, TruncConverts, (v > -u /\ v < 2 * hu) \in BOOLEAN
<1>10. ASSUME ManBits(f) < Bits(i)
       PROVE  /\ TruncNarrowS(f, i, x) = Converted(f, i, "s", x)
              /\ TruncEqualS(f, i, x) = Converted(f, i, "s", x)
  <2>1. PICK step \in Nat, c \in Nat :
          /\ c = h \div 2^ManBits(f) /\ step = c * u /\ u <= step
          /\ s > hu => s >= hu + step
    <3>1. PICK p \in Nat \ {0} : p = 2^ManBits(f)
      BY PowerPositive DEF FloatWidth
    <3>2. h \div p \in Nat
      BY Euclid
    <3> QED BY <1>1, <1>2, <1>10, <3>1, <3>2, Spacing
  <2>2. v >= -hu /\ v < hu <=> -h <= n /\ n < h
    BY <1>4, <1>7, <2>1
  <2>3. v > -(hu + step) /\ v < hu <=> -h <= n /\ n < h
    BY <1>4, <1>7, <2>1
  <2>4. -(h + c) * u = -(hu + step)
    BY <1>2, <2>1
  <2>5. TruncEqualS(f, i, x) = TruncBetween(f, i, x, v >= -hu /\ v < hu)
    BY <1>1, <1>2, <1>3, Zenon DEF TruncEqualS
  <2>6. TruncNarrowS(f, i, x) = TruncBetween(f, i, x, v > -(hu + step) /\ v < hu)
    BY <1>1, <1>2, <2>1, <2>4, Zenon DEF TruncNarrowS, BelowMin
  <2>7. TruncEqualS(f, i, x) = Converted(f, i, "s", x)
    BY <1>5, <2>2, <2>5, TruncConverts, (v >= -hu /\ v < hu) \in BOOLEAN
  <2>8. TruncNarrowS(f, i, x) = Converted(f, i, "s", x)
    BY <1>5, <2>3, <2>6, TruncConverts, (v > -(hu + step) /\ v < hu) \in BOOLEAN
  <2> QED BY <2>7, <2>8
<1>11. Wrap(i, -h) = h /\ Wrap(i, h - 1) = h - 1 /\ Wrap(i, 0) = 0 /\ Wrap(i, 2 * h - 1) = 2 * h - 1
  <2>1. \A k \in Int : /\ 0 <= k /\ k < 2 * h => Wrap(i, k) = k
                       /\ -(2 * h) <= k /\ k < 0 => Wrap(i, k) = k + 2 * h
    BY <1>1, Wrapped
  <2>2. Wrap(i, -h) = h
    BY <2>1, -h \in Int
  <2> QED BY <2>1, <2>2
<1>12. TruncSatS(f, i, x) = Saturated(f, i, "s", x)
  <2>1. Saturated(f, i, "s", x) =
          IF IsNaN(f, x) THEN 0 ELSE Wrap(i, IF n < -h THEN -h ELSE IF n > h - 1 THEN h - 1 ELSE n)
    BY <1>1 DEF Saturated, Clamp
  <2>2. TruncSatS(f, i, x) =
          IF IsNaN(f, x) THEN 0 ELSE IF v <= -hu THEN h ELSE IF v >= hu THEN h - 1 ELSE Wrap(i, n)
    BY <1>1, <1>2, <1>3, Zenon DEF TruncSatS
  <2>3. v <= -hu => n <= -h
    <3>1. neg => (-(h - 1) <= n <=> s < hu)
      <4>1. CASE h = 1
        BY <1>2, <1>4, <4>1
      <4>2. CASE h # 1
        <5>1. h - 1 \in Nat \ {0} /\ ((h - 1) + 1) * u = hu
          BY <1>2, <4>2
        <5> QED BY <1>1, <5>1, WholeFits DEF neg
      <4> QED BY <4>1, <4>2
    <3> QED BY <1>4, <1>7, <3>1
  <2>4. v >= hu => n >= h
    BY <1>4, <1>7
  <2>5. v > -hu /\ v < hu => -h <= n /\ n <= h - 1
    BY <1>4, <1>7
  <2>6. CASE v <= -hu
    <3>1. (IF n < -h THEN -h ELSE IF n > h - 1 THEN h - 1 ELSE n) = -h
      BY <2>3, <2>6
    <3> QED BY <1>11, <2>1, <2>2, <2>6, <3>1
  <2>7. CASE ~(v <= -hu) /\ v >= hu
    <3>1. (IF n < -h THEN -h ELSE IF n > h - 1 THEN h - 1 ELSE n) = h - 1
      BY <2>4, <2>7
    <3> QED BY <1>11, <2>1, <2>2, <2>7, <3>1
  <2>8. CASE ~(v <= -hu) /\ ~(v >= hu)
    <3>1. (IF n < -h THEN -h ELSE IF n > h - 1 THEN h - 1 ELSE n) = n
      BY <2>5, <2>8
    <3> QED BY <2>1, <2>2, <2>8, <3>1
  <2> QED BY <2>6, <2>7, <2>8
<1>13. TruncSatU(f, i, x) = Saturated(f, i, "u", x)
  <2>1. Saturated(f, i, "u", x) =
          IF IsNaN(f, x) THEN 0
          ELSE Wrap(i, IF n < 0 THEN 0 ELSE IF n > 2 * h - 1 THEN 2 * h - 1 ELSE n)
    BY <1>1 DEF Saturated, Clamp
  <2>2. TruncSatU(f, i, x) =
          IF IsNaN(f, x) \/ v <= 0 THEN 0 ELSE IF v >= 2 * hu THEN 2 * h - 1 ELSE n
    BY <1>1, <1>3, Zenon DEF TruncSatU
  <2>3. v <= 0 => n <= 0
    <3>1. ~neg /\ s = 0 => n < h /\ n <= 0
      <4>1. ~neg => (n < 1 <=> s < 1 * u)
        BY <1>1, WholeFits, 1 \in Nat \ {0} DEF neg
      <4> QED BY <1>4, <4>1
    <3> QED BY <1>4, <1>7, <3>1
  <2>4. v >= 2 * hu => n > 2 * h - 1
    <3>1. v >= 2 * hu => ~neg /\ s >= 2 * hu
      BY <1>7
    <3>2. ~neg /\ s >= 2 * hu => ~(n < 2 * h)
      BY <1>4
    <3> QED BY <3>1, <3>2
  <2>5. v > 0 /\ v < 2 * hu => 0 <= n /\ n <= 2 * h - 1 /\ Wrap(i, n) = n
    <3>1. v > 0 /\ v < 2 * hu => ~neg /\ s < 2 * hu
      BY <1>7
    <3>2. ~neg /\ s < 2 * hu => 0 <= n /\ n < 2 * h
      BY <1>4
    <3>3. 0 <= n /\ n < 2 * h => Wrap(i, n) = n
      BY <1>1, Wrapped
    <3> QED BY <3>1, <3>2, <3>3
  <2>6. CASE v <= 0
    <3>1. (IF n < 0 THEN 0 ELSE IF n > 2 * h - 1 THEN 2 * h - 1 ELSE n) = 0
      BY <2>3, <2>6
    <3> QED BY <1>11, <2>1, <2>2, <2>6, <3>1
  <2>7. CASE ~(v <= 0) /\ v >= 2 * hu
    <3>1. (IF n < 0 THEN 0 ELSE IF n > 2 * h - 1 THEN 2 * h - 1 ELSE n) = 2 * h - 1
      BY <2>4, <2>7
    <3> QED BY <1>11, <2>1, <2>2, <2>7, <3>1
  <2>8. CASE ~(v <= 0) /\ ~(v >= 2 * hu)
    <3>1. (IF n < 0 THEN 0 ELSE IF n > 2 * h - 1 THEN 2 * h - 1 ELSE n) = n
      BY <2>5, <2>8
    <3> QED BY <2>1, <2>2, <2>5, <2>8, <3>1
  <2> QED BY <2>6, <2>7, <2>8
<1> QED BY <1>8, <1>9, <1>10, <1>12, <1>13

---------------------------------------------------------------------------
(* Minima, maxima, comparisons and signs.                                  *)

\* A greater exponent makes a greater value.
LEMMA SizeGrows ==
  ASSUME NEW f, FloatWidth(f), NEW x \in 0 .. Ones(f), NEW y \in 0 .. Ones(f),
         Exponent(f, x) < Exponent(f, y)
  PROVE  Size(f, x) < Size(f, y)
<1>1. PICK p \in Nat \ {0}, a \in Nat, b \in Nat, m \in Nat, n \in Nat :
        /\ p = 2^ManBits(f) /\ a = Exponent(f, x) /\ b = Exponent(f, y) /\ a < b
        /\ m = Mantissa(f, x) /\ n = Mantissa(f, y) /\ m < p
  BY FloatParts
<1>2. b - 1 \in Nat /\ a <= b - 1
  BY <1>1
<1>3. PICK q \in Nat \ {0} : q = 2^(b - 1)
  BY <1>2, PowerPositive
<1>4. Size(f, y) = (p + n) * q
  BY <1>1, <1>3 DEF Size
<1>5. p * q <= (p + n) * q /\ p * q \in Nat /\ (p + n) * q \in Nat
  BY Grows, p <= p + n, p + n \in Nat
<1>6. Size(f, x) < p * q
  <2>1. CASE a = 0
    <3>1. p <= p * q
      <4>1. \A c \in Nat, d \in Nat \ {0} : c <= c * d
        OBVIOUS
      <4> QED BY <4>1
    <3> QED BY <1>1, <1>5, <2>1, <3>1 DEF Size
  <2>2. CASE a # 0
    <3>1. PICK t \in Nat \ {0} : t = 2^(a - 1)
      BY <2>2, a - 1 \in Nat, PowerPositive
    <3>2. Size(f, x) = (p + m) * t
      BY <1>1, <2>2, <3>1 DEF Size
    <3>3. 2 * t <= q
      <4>1. a - 1 \in Nat /\ (a - 1) + 1 = a
        BY <2>2
      <4>2. 2^a = 2 * t
        BY <3>1, <4>1, PowerNext
      <4> QED BY <1>2, <1>3, <4>2, PowerMultiple
    <3>4. (p + m + 1) * t <= (2 * p) * t
      BY <1>1, Grows, p + m + 1 <= 2 * p, p + m + 1 \in Nat, 2 * p \in Nat
    <3>5. (p + m + 1) * t = (p + m) * t + t /\ (2 * p) * t = p * (2 * t)
      OBVIOUS
    <3>6. p * (2 * t) <= p * q
      BY <3>3, Grows, 2 * t \in Nat
    <3>7. (p + m) * t \in Nat /\ p * (2 * t) \in Nat
      OBVIOUS
    <3> QED BY <1>5, <3>2, <3>4, <3>5, <3>6, <3>7
  <2> QED BY <2>1, <2>2
<1>7. Size(f, x) \in Nat
  BY ValueIs
<1> QED BY <1>4, <1>5, <1>6, <1>7

\* Two floats of one value are the same, or both zero.
LEMMA ValueTells ==
  ASSUME NEW f, FloatWidth(f), NEW x \in 0 .. Ones(f), NEW y \in 0 .. Ones(f),
         Value(f, x) = Value(f, y), Value(f, x) # 0
  PROVE  x = y
<1>1. PICK r \in Nat, s \in Nat :
        /\ r = Size(f, x) /\ s = Size(f, y)
        /\ Value(f, x) = (IF Negative(f, x) THEN -r ELSE r)
        /\ Value(f, y) = (IF Negative(f, y) THEN -s ELSE s)
  BY ValueIs
<1>2. r = s /\ (Negative(f, x) <=> Negative(f, y))
  <2>1. PICK v \in Int : v = Value(f, x) /\ v # 0
    BY <1>1
  <2>2. /\ v = (IF Negative(f, x) THEN -r ELSE r)
        /\ v = (IF Negative(f, y) THEN -s ELSE s)
    BY <1>1, <2>1
  <2>3. CASE Negative(f, x) /\ Negative(f, y)
    BY <2>1, <2>2, <2>3
  <2>4. CASE ~Negative(f, x) /\ ~Negative(f, y)
    BY <2>1, <2>2, <2>4
  <2>5. CASE Negative(f, x) /\ ~Negative(f, y)
    BY <2>1, <2>2, <2>5
  <2>6. CASE ~Negative(f, x) /\ Negative(f, y)
    BY <2>1, <2>2, <2>6
  <2> QED BY <2>3, <2>4, <2>5, <2>6
<1>3. PICK p \in Nat \ {0}, a \in Nat, b \in Nat, m \in Nat, n \in Nat :
        /\ p = 2^ManBits(f) /\ a = Exponent(f, x) /\ b = Exponent(f, y)
        /\ m = Mantissa(f, x) /\ n = Mantissa(f, y)
        /\ Magnitude(f, x) = p * a + m /\ Magnitude(f, y) = p * b + n
  BY FloatParts
<1>4. a = b
  <2>1. ~(a < b)
    <3>1. a < b => r < s
      BY <1>1, <1>3, SizeGrows
    <3> QED BY <1>2, <3>1
  <2>2. ~(b < a)
    <3>1. b < a => s < r
      BY <1>1, <1>3, SizeGrows
    <3> QED BY <1>2, <3>1
  <2> QED BY <2>1, <2>2
<1>5. m = n
  <2>1. CASE a = 0
    BY <1>1, <1>2, <1>3, <1>4, <2>1 DEF Size
  <2>2. CASE a # 0
    <3>1. PICK t \in Nat \ {0} : t = 2^(a - 1)
      BY <2>2, a - 1 \in Nat, PowerPositive
    <3>2. (p + m) * t = (p + n) * t
      BY <1>1, <1>2, <1>3, <1>4, <2>2, <3>1 DEF Size
    <3>3. \A c, d \in Nat : c < d => c * t < d * t
      <4>1. ASSUME NEW c \in Nat, NEW d \in Nat, c < d PROVE c * t < d * t
        <5>1. (c + 1) * t <= d * t
          BY <4>1, Grows, c + 1 \in Nat, c + 1 <= d
        <5>2. (c + 1) * t = c * t + t /\ c * t \in Nat /\ d * t \in Nat
          OBVIOUS
        <5> QED BY <5>1, <5>2
      <4> QED BY <4>1
    <3>4. ~(p + m < p + n) /\ ~(p + n < p + m)
      <4>1. p + m \in Nat /\ p + n \in Nat /\ (p + m) * t \in Nat
        OBVIOUS
      <4> QED BY <3>2, <3>3, <4>1
    <3> QED BY <3>4
  <2> QED BY <2>1, <2>2
<1>6. Magnitude(f, x) = Magnitude(f, y)
  BY <1>3, <1>4, <1>5, Zenon
<1>7. /\ x = (IF Negative(f, x) THEN Half(f) ELSE 0) + Magnitude(f, x)
      /\ y = (IF Negative(f, y) THEN Half(f) ELSE 0) + Magnitude(f, y)
  BY FloatParts
<1>8. CASE Negative(f, x)
  BY <1>2, <1>6, <1>7, <1>8, Zenon
<1>9. CASE ~Negative(f, x)
  BY <1>2, <1>6, <1>7, <1>9, Zenon
<1> QED BY <1>8, <1>9

\* math.NaN() is a quiet NaN.
LEMMA NaNIsQuiet ==
  ASSUME NEW f, FloatWidth(f)
  PROVE  IsNaN(f, GoNaN(f)) /\ IsQuiet(f, GoNaN(f))
<1>1. PICK p \in Nat \ {0}, q \in Nat \ {0}, t \in Nat \ {0} :
        /\ p = 2^ManBits(f) /\ q = Quiet(f) /\ p = 2 * q /\ t = ExpTop /\ Half(f) = p * (t + 1)
  <2>1. ManBits(f) - 1 \in Nat /\ (ManBits(f) - 1) + 1 = ManBits(f)
    BY DEF FloatWidth
  <2>2. PICK q \in Nat \ {0} : q = 2^(ManBits(f) - 1)
    BY <2>1, PowerPositive
  <2>3. 2^((ManBits(f) - 1) + 1) = 2 * q
    BY <2>1, <2>2, PowerNext
  <2>4. 0 \in 0 .. Ones(f)
    BY Halves DEF FloatWidth
  <2>5. /\ ExpTop + 1 = 2^ExpBits /\ Half(f) = 2^ManBits(f) * 2^ExpBits /\ 2^ExpBits \in Nat \ {0}
    BY <2>4, FloatParts
  <2>6. 2^ExpBits = 2 * 2^(ExpBits - 1) /\ 2^(ExpBits - 1) \in Nat \ {0}
    <3>1. ExpBits - 1 \in Nat /\ (ExpBits - 1) + 1 = ExpBits
      BY NumbersAssumption
    <3> QED BY <3>1, PowerNext, PowerPositive
  <2>7. ExpTop \in Nat \ {0}
    BY <2>6 DEF ExpTop
  <2>8. 2 * q \in Nat \ {0}
    OBVIOUS
  <2> QED BY <2>1, <2>2, <2>3, <2>5, <2>7, <2>8 DEF Quiet
<1>2. GoNaN(f) = p * t + q
  <2>1. GoNaN(f) = t * p + q
    BY <1>1 DEF GoNaN
  <2> QED BY <2>1
<1>3. q < p
  BY <1>1
<1>4. p * t + q \in Nat /\ p * t + q < p * (t + 1) /\ p * (t + 1) \in Nat \ {0}
  <2>1. p * (t + 1) = p * t + p /\ p * t \in Nat
    OBVIOUS
  <2> QED BY <1>3, <2>1
<1>5. Magnitude(f, GoNaN(f)) = p * t + q
  <2>1. \A a, b \in Nat : a < b => a % b = a
    OBVIOUS
  <2> QED BY <1>1, <1>2, <1>4, <2>1 DEF Magnitude
<1>6. Exponent(f, GoNaN(f)) = t /\ Mantissa(f, GoNaN(f)) = q
  <2>1. (p * t + q) \div p = t /\ (p * t + q) % p = q
    BY <1>3, Unique
  <2> QED BY <1>1, <1>2, <1>5, <2>1 DEF Exponent, Mantissa
<1> QED BY <1>1, <1>6 DEF IsNaN, IsQuiet

\* f32_min .. f64_max compare, and look at the signs when both are zeros, with
\* the pair the code tests; for all floats they deliver a quiet NaN where one is
\* a NaN, and the float WebAssembly says elsewhere.
THEOREM ExtremesMeanWasm ==
  ASSUME NEW f, FloatWidth(f), NEW x \in 0 .. Ones(f), NEW y \in 0 .. Ones(f)
  PROVE  /\ MayBeExtreme(f, "min", x, y, FloatMin(f, x, y))
         /\ MayBeExtreme(f, "max", x, y, FloatMax(f, x, y))
<1>1. CASE IsNaN(f, x) \/ IsNaN(f, y)
  BY <1>1, NaNIsQuiet DEF MayBeExtreme, FloatMin, FloatMax
<1>2. CASE ~(IsNaN(f, x) \/ IsNaN(f, y))
  <2>1. PICK m \in Int, n \in Int : m = Value(f, x) /\ n = Value(f, y)
    <3>1. Size(f, x) \in Nat /\ Size(f, y) \in Nat
      BY ValueIs
    <3>2. \A k \in Nat : k \in Int /\ -k \in Int
      OBVIOUS
    <3>3. Value(f, x) \in Int
      BY <3>1, <3>2, ValueIs, Zenon
    <3>4. Value(f, y) \in Int
      BY <3>1, <3>2, ValueIs, Zenon
    <3> QED BY <3>3, <3>4
  <2>2. FloatMin(f, x, y) = IF m < n THEN x ELSE IF n < m THEN y
                            ELSE IF m = 0 THEN IF Negative(f, x) THEN x ELSE y ELSE x
    BY <1>2, <2>1, Zenon DEF FloatMin
  <2>3. FloatMax(f, x, y) = IF m > n THEN x ELSE IF n > m THEN y
                            ELSE IF m = 0 THEN IF Negative(f, x) THEN y ELSE x ELSE x
    BY <1>2, <2>1, Zenon DEF FloatMax
  <2>4. MayBeExtreme(f, "min", x, y, FloatMin(f, x, y)) <=>
          FloatMin(f, x, y) = IF m # n THEN IF m < n THEN x ELSE y
                              ELSE IF Negative(f, x) THEN x ELSE y
    BY <1>2, <2>1 DEF MayBeExtreme, Negative
  <2>5. MayBeExtreme(f, "max", x, y, FloatMax(f, x, y)) <=>
          FloatMax(f, x, y) = IF m # n THEN IF m < n THEN y ELSE x
                              ELSE IF Negative(f, x) THEN y ELSE x
    BY <1>2, <2>1 DEF MayBeExtreme, Negative
  <2>6. m = n /\ m # 0 => x = y
    BY <2>1, ValueTells
  <2>7. CASE m < n
    BY <2>2, <2>3, <2>4, <2>5, <2>7
  <2>8. CASE n < m
    BY <2>2, <2>3, <2>4, <2>5, <2>8
  <2>9. CASE m = n
    BY <2>2, <2>3, <2>4, <2>5, <2>6, <2>9
  <2> QED BY <2>7, <2>8, <2>9
<1> QED BY <1>1, <1>2

\* The rotations count to the right in Go's terms, by a negative count: for all
\* counts they and the shifts deliver what WebAssembly says.
THEOREM ShiftsMeanWasm ==
  ASSUME NEW w \in Nat \ {0}, NEW x \in 0 .. Ones(w), NEW y \in Nat,
         NEW op \in {"shl", "shr_s", "shr_u", "rotl", "rotr"}
  PROVE  Shift(w, op, x, y) = Shifted(w, op, x, y)
<1>1. PICK b \in Nat \ {0}, s \in Nat : b = Bits(w) /\ s = y % b /\ s < b
  <2>1. Bits(w) \in Nat \ {0}
    BY Halves
  <2>2. y % Bits(w) \in Nat /\ y % Bits(w) < Bits(w)
    BY <2>1, Euclid
  <2> QED BY <2>1, <2>2
<1>2. \A k \in Int : RotateLeft(w, x, k) =
        (x % 2^(b - (k % b))) * 2^(k % b) + x \div 2^(b - (k % b))
  BY <1>1 DEF RotateLeft
<1>3. s % b = s
  BY <1>1
<1>4. CASE op # "rotr"
  <2>1. Shift(w, "rotl", x, y) = Shifted(w, "rotl", x, y)
    BY <1>1, <1>2, <1>3, s \in Int, Zenon DEF Shift, Shifted
  <2> QED BY <1>1, <1>4, <2>1 DEF Shift, Shifted
<1>5. CASE op = "rotr"
  <2>1. Shift(w, "rotr", x, y) = RotateLeft(w, x, -s)
    BY <1>1 DEF Shift
  <2>2. Shifted(w, "rotr", x, y) = (x % 2^s) * 2^(b - s) + x \div 2^s
    BY <1>1 DEF Shifted
  <2>3. CASE s = 0
    <3>1. (-s) % b = 0 /\ b - 0 = b
      BY <2>3
    <3>2. PICK q \in Nat \ {0} : q = 2^b /\ x < q /\ x \in Nat
      BY <1>1, Readings DEF Mod
    <3>3. RotateLeft(w, x, -s) = (x % q) * 2^0 + x \div q
      BY <1>2, <3>1, <3>2, -s \in Int, Zenon
    <3>4. x % q = x /\ x \div q = 0
      BY <3>2
    <3>5. x % 1 = 0 /\ x \div 1 = x
      BY <3>2
    <3>6. Shifted(w, "rotr", x, y) = (x % 1) * q + x \div 1
      BY <2>2, <2>3, <3>1, <3>2, PowerZero, Zenon
    <3>7. x * 1 + 0 = 0 * q + x
      BY <3>2
    <3> QED BY <1>5, <2>1, <3>3, <3>4, <3>5, <3>6, <3>7, PowerZero, Zenon
  <2>4. CASE s # 0
    <3>1. (-s) % b = b - s /\ b - (b - s) = s
      BY <1>1, <2>4
    <3>2. RotateLeft(w, x, -s) = (x % 2^s) * 2^(b - s) + x \div 2^s
      BY <1>2, <3>1, -s \in Int, Zenon
    <3> QED BY <1>5, <2>1, <2>2, <3>2, Zenon
  <2> QED BY <2>3, <2>4
<1> QED BY <1>4, <1>5

\* The comparisons are false of a NaN, but for "ne"; abs, neg and copysign touch
\* the sign bit, of a NaN too, except that f32_copysign, on its way through a
\* float64, quiets a NaN.
THEOREM ComparisonsAndSignsMeanWasm ==
  ASSUME NEW f, FloatWidth(f), NEW x \in 0 .. Ones(f), NEW y \in 0 .. Ones(f)
  PROVE  /\ \A rel \in {"eq", "ne", "lt", "gt", "le", "ge"} :
              FloatCompare(f, rel, x, y) = IF FloatCompared(f, rel, x, y) THEN 1 ELSE 0
         /\ \A op \in {"abs", "neg", "copysign"} :
              /\ Magnitude(f, FloatSign(f, op, x, y)) = Magnitude(f, x)
              /\ Negative(f, FloatSign(f, op, x, y)) <=>
                   CASE op = "abs" -> FALSE
                     [] op = "neg" -> ~Negative(f, x)
                     [] op = "copysign" -> Negative(f, y)
         /\ ~IsNaN(f, x) \/ IsQuiet(f, x) =>
              f32_copysign(f, x, y) = FloatSign(f, "copysign", x, y)
<1>1. \A rel \in {"eq", "ne", "lt", "gt", "le", "ge"} :
        FloatCompare(f, rel, x, y) = IF FloatCompared(f, rel, x, y) THEN 1 ELSE 0
  <2>1. CASE IsNaN(f, x) \/ IsNaN(f, y)
    BY <2>1 DEF FloatCompare, FloatCompared
  <2>2. CASE ~(IsNaN(f, x) \/ IsNaN(f, y))
    BY <2>2 DEF FloatCompare, FloatCompared, Compared
  <2> QED BY <2>1, <2>2
<1>2. PICK h \in Nat \ {0}, g \in Nat :
        /\ h = Half(f) /\ g = Magnitude(f, x) /\ g < h /\ Mod(f) = 2 * h
        /\ x = (IF Negative(f, x) THEN h ELSE 0) + g
  <2>1. Half(f) \in Nat \ {0} /\ Mod(f) = 2 * Half(f)
    BY Halves DEF FloatWidth
  <2>2. x \in Nat
    BY <2>1, Halves DEF FloatWidth
  <2>3. x % Half(f) \in Nat /\ x % Half(f) < Half(f)
    BY <2>1, <2>2, Euclid
  <2> QED BY <2>1, <2>3, FloatParts DEF Magnitude
<1>3. /\ Magnitude(f, g) = g /\ ~Negative(f, g)
      /\ Magnitude(f, g + h) = g /\ Negative(f, g + h)
  <2>1. g % h = g
    BY <1>2
  <2>2. (h * 1 + g) % h = g
    BY <1>2, Unique, 1 \in Nat
  <2>3. h * 1 + g = g + h
    OBVIOUS
  <2>4. (g + h) % h = g
    BY <2>2, <2>3, Zenon
  <2>5. ~(g >= h) /\ g + h >= h
    BY <1>2
  <2> QED BY <1>2, <2>1, <2>4, <2>5 DEF Magnitude, Negative
<1>4. /\ Magnitude(f, FloatSign(f, "abs", x, y)) = g
      /\ ~Negative(f, FloatSign(f, "abs", x, y))
  BY <1>2, <1>3 DEF FloatSign
<1>5. /\ Magnitude(f, FloatSign(f, "neg", x, y)) = g
      /\ Negative(f, FloatSign(f, "neg", x, y)) <=> ~Negative(f, x)
  <2>1. FloatSign(f, "neg", x, y) = (x + h) % (2 * h)
    BY <1>2 DEF FloatSign, Wrap
  <2>2. CASE Negative(f, x)
    <3>1. x + h = (2 * h) * 1 + g
      BY <1>2, <2>2
    <3>2. ((2 * h) * 1 + g) % (2 * h) = g
      <4>1. PICK q \in Nat \ {0} : q = 2 * h /\ g < q
        <5>1. 2 * h \in Nat \ {0} /\ g < 2 * h
          BY <1>2
        <5> QED BY <5>1
      <4>2. (q * 1 + g) % q = g
        BY <4>1, Unique, 1 \in Nat
      <4> QED BY <4>1, <4>2, Zenon
    <3> QED BY <1>3, <2>1, <2>2, <3>1, <3>2
  <2>3. CASE ~Negative(f, x)
    <3>1. x + h = g + h /\ g + h < 2 * h
      BY <1>2, <2>3
    <3>2. (g + h) % (2 * h) = g + h
      BY <3>1
    <3> QED BY <1>3, <2>1, <2>3, <3>1, <3>2
  <2> QED BY <2>2, <2>3
<1>6. /\ Magnitude(f, FloatSign(f, "copysign", x, y)) = g
      /\ Negative(f, FloatSign(f, "copysign", x, y)) <=> Negative(f, y)
  <2>1. FloatSign(f, "copysign", x, y) = g + (IF Negative(f, y) THEN h ELSE 0)
    BY <1>2 DEF FloatSign
  <2>2. CASE Negative(f, y)
    BY <1>3, <2>1, <2>2
  <2>3. CASE ~Negative(f, y)
    <3>1. g + 0 = g
      OBVIOUS
    <3> QED BY <1>3, <2>1, <2>3, <3>1
  <2> QED BY <2>2, <2>3
<1>7. ~IsNaN(f, x) \/ IsQuiet(f, x) => f32_copysign(f, x, y) = FloatSign(f, "copysign", x, y)
  BY DEF f32_copysign
<1>8. \A op \in {"abs", "neg", "copysign"} :
        /\ Magnitude(f, FloatSign(f, op, x, y)) = Magnitude(f, x)
        /\ Negative(f, FloatSign(f, op, x, y)) <=>
             CASE op = "abs" -> FALSE
               [] op = "neg" -> ~Negative(f, x)
               [] op = "copysign" -> Negative(f, y)
  BY <1>2, <1>4, <1>5, <1>6
<1> QED BY <1>1, <1>7, <1>8
================================================================================
