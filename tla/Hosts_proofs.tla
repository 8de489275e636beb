---------------------------- MODULE Hosts_proofs ----------------------------
(***************************************************************************)
(* Proofs about the programs of the host.                                   *)
(*                                                                          *)
(* Decoding, for any configuration, weights, special functions, prompts and *)
(* numbers of new tokens: the caches make no difference.  The lemmas go up  *)
(* from numbers to vectors, to the two mixers, to a layer over a whole      *)
(* sequence, which is causal, and to one token through one layer with the   *)
(* caches.                                                                  *)
(*                                                                          *)
(* The server, for any set of jobs, of variables, of values and of readers: *)
(* one job at a time, built with its own settings, and no response          *)
(* announces success without the result.  The runtime, for any number of    *)
(* processes, of program and operand files and of words: its PASS is about  *)
(* its own run.                                                             *)
(*                                                                          *)
(* The programs it makes for the chip, for any layout, any dimensions of    *)
(* the model and any tile: no two commands in flight conflict.  The lemmas  *)
(* go up from one instruction to what the next one waits for, to parts of   *)
(* programs that stay safe when they are joined, and to the builders.       *)
(***************************************************************************)
EXTENDS Hosts, ProgramRun, SequenceTheorems, WellFoundedInduction, TLAPS

-----------------------------------------------------------------------------
(* Numbers                                                                  *)

\* A set with 0 and with the successors of its members has every number.
LEMMA Counting ==
  ASSUME NEW S, 0 \in S, \A n \in Nat : n \in S => n + 1 \in S
  PROVE  \A n \in Nat : n \in S
<1> DEFINE Missing == {n \in Nat : n \notin S}
<1>1. SUFFICES ASSUME Missing # {} PROVE FALSE
  OBVIOUS
<1>2. PICK x \in Missing : \A y \in Missing : ~(<<y, x>> \in OpToRel(<, Nat))
  BY <1>1, NatLessThanWellFounded, WFMin
<1>3. \A y \in Missing : ~(y < x)
  BY <1>2 DEF OpToRel
<1>4. x \in Nat /\ x # 0 /\ x - 1 \in Nat /\ (x - 1) + 1 = x
  OBVIOUS
<1>5. x - 1 \in Missing
  BY <1>4
<1> QED BY <1>3, <1>4, <1>5

\* A set of naturals that is not empty has a least element.
LEMMA LeastElement ==
  ASSUME NEW S, S \subseteq Nat, S # {}
  PROVE  \E x \in S : \A y \in S : x <= y
<1>1. PICK x \in S : \A y \in S : ~(<<y, x>> \in OpToRel(<, Nat))
  BY NatLessThanWellFounded, WFMin
<1>2. \A y \in S : ~(y < x)
  BY <1>1, S \subseteq Nat DEF OpToRel
<1>3. x \in Nat /\ \A y \in S : y \in Nat
  BY S \subseteq Nat
<1> QED BY <1>2, <1>3

\* The additions are those modulo P.
LEMMA AddIs ==
  ASSUME NEW x \in Num, NEW y \in Num
  PROVE  Add(x, y) = (x + y) % P /\ Add(x, y) \in Num
BY GoldenAssumption DEF Add, NegInf, Num

\* So are the multiplications.
LEMMA MulIs ==
  ASSUME NEW x \in Num, NEW y \in Num
  PROVE  Mul(x, y) = (x * y) % P /\ Mul(x, y) \in Num
<1> DEFINE xy == x * y
<1>1. xy \in Nat
  BY GoldenAssumption DEF Num
<1>2. Mul(x, y) = xy % P
  BY GoldenAssumption DEF Mul, NegInf, Num
<1> HIDE DEF xy
<1>3. xy % P \in 0 .. P - 1
  BY <1>1, GoldenAssumption
<1> QED BY <1>2, <1>3 DEF xy, Num

\* The negative of a number is one.
LEMMA NegType ==
  ASSUME NEW x \in Num
  PROVE  Neg(x) \in Num
BY GoldenAssumption DEF Neg, Num

\* The larger of two numbers is one of them.
LEMMA LargerType ==
  ASSUME NEW x \in Num, NEW y \in Num
  PROVE  Larger(x, y) \in Num
BY DEF Larger

\* The activation functions map numbers to numbers.
LEMMA SpecialType ==
  ASSUME NEW x \in Num
  PROVE  /\ Exponential(x) \in Num /\ Recip(x) \in Num /\ Rsqrt(x) \in Num
         /\ Sigmoid(x) \in Num /\ Silu(x) \in Num
<1>1. x # NegInf /\ Neg(x) # NegInf
  BY NegType, GoldenAssumption DEF Num, NegInf
<1>2. Exponential(x) \in Num /\ Recip(x) \in Num /\ Rsqrt(x) \in Num
  BY <1>1, DecodeAssumption DEF NumbersOK, Exponential
<1>3. Exponential(Neg(x)) \in Num
  BY <1>1, NegType, DecodeAssumption DEF NumbersOK, Exponential
<1>4. 1 \in Num
  BY GoldenAssumption DEF Num
<1>5. Add(1, Exponential(Neg(x))) \in Num
  BY <1>3, <1>4, AddIs
<1>6. Sigmoid(x) \in Num
  BY <1>5, DecodeAssumption DEF NumbersOK, Sigmoid
<1> QED BY <1>2, <1>6, MulIs DEF Silu

\* A remainder is the only one.
LEMMA Remainder ==
  ASSUME NEW x \in Int
  PROVE  \E q \in Int : x = P * q + (x % P)
<1>1. P \in Nat \ {0}
  BY GoldenAssumption
<1>2. x \div P \in Int /\ x = P * (x \div P) + (x % P)
  BY <1>1
<1> QED BY <1>2

\* A multiple of P does not change the remainder.
LEMMA SameRemainder ==
  ASSUME NEW x \in Int, NEW y \in Int, NEW q \in Int, x = P * q + y
  PROVE  x % P = y % P
<1>1. P \in Nat \ {0}
  BY GoldenAssumption
<1>2. x \div P \in Int /\ x % P \in 0 .. P - 1 /\ x = P * (x \div P) + (x % P)
  BY <1>1
<1>3. y \div P \in Int /\ y % P \in 0 .. P - 1 /\ y = P * (y \div P) + (y % P)
  BY <1>1
<1> DEFINE a == x % P   b == y % P   d == q + (y \div P) - (x \div P)
<1>4. a \in Int /\ b \in Int /\ d \in Int /\ a - b < P /\ b - a < P
  BY <1>1, <1>2, <1>3
<1>5. a - b = P * d
  BY <1>1, <1>2, <1>3
<1> HIDE DEF a, b, d
<1>6. d = 0
  <2>1. d >= 1 => P * d >= P
    BY <1>1, <1>4
  <2>2. d <= -1 => P * d <= -P
    BY <1>1, <1>4
  <2> QED BY <1>1, <1>4, <1>5, <2>1, <2>2
<1>7. a = b
  BY <1>1, <1>4, <1>5, <1>6
<1> QED BY <1>7 DEF a, b

\* Multiplication distributes over addition and is associative.
LEMMA MulAdd ==
  ASSUME NEW c \in Num, NEW x \in Num, NEW y \in Num
  PROVE  Mul(c, Add(x, y)) = Add(Mul(c, x), Mul(c, y))
<1>0. P \in Nat /\ c \in Int /\ x \in Int /\ y \in Int
  BY GoldenAssumption DEF Num
<1>1. Mul(c, Add(x, y)) = (c * ((x + y) % P)) % P
  BY AddIs, MulIs
<1>2. Add(Mul(c, x), Mul(c, y)) = (((c * x) % P) + ((c * y) % P)) % P
  BY AddIs, MulIs
<1> DEFINE s == (x + y) % P   m == (c * x) % P   n == (c * y) % P
<1>4. x + y \in Int /\ c * x \in Int /\ c * y \in Int
  BY <1>0
<1>3. PICK q \in Int : x + y = P * q + s
  BY <1>4, Remainder
<1>5. PICK u \in Int : c * x = P * u + m
  BY <1>4, Remainder
<1>6. PICK v \in Int : c * y = P * v + n
  BY <1>4, Remainder
<1>7. s \in Int /\ m \in Int /\ n \in Int
  BY <1>0, <1>4, GoldenAssumption
<1> HIDE DEF s, m, n
<1>8. c * (x + y) = c * x + c * y /\ c * (P * q + s) = P * (c * q) + c * s
  BY <1>0, <1>3, <1>7
<1>9. c * s = P * (u + v - c * q) + (m + n)
  <2>1. c * s = c * x + c * y - P * (c * q)
    BY <1>0, <1>3, <1>4, <1>7, <1>8
  <2>2. c * s = (P * u + m) + (P * v + n) - P * (c * q)
    BY <2>1, <1>5, <1>6
  <2>3. c * q \in Int
    BY <1>0
  <2> QED BY <1>0, <1>7, <2>2, <2>3
<1>10. c * s \in Int /\ m + n \in Int /\ u + v - c * q \in Int
  BY <1>0, <1>7
<1>11. (c * s) % P = (m + n) % P
  BY <1>9, <1>10, SameRemainder
<1> QED BY <1>1, <1>2, <1>11 DEF s, m, n

\* Multiplication is associative.
LEMMA MulMul ==
  ASSUME NEW x \in Num, NEW y \in Num, NEW z \in Num
  PROVE  Mul(Mul(x, y), z) = Mul(x, Mul(y, z))
<1>0. P \in Nat /\ x \in Int /\ y \in Int /\ z \in Int
  BY GoldenAssumption DEF Num
<1>1. Mul(Mul(x, y), z) = (((x * y) % P) * z) % P
  BY MulIs
<1>2. Mul(x, Mul(y, z)) = (x * ((y * z) % P)) % P
  BY MulIs
<1> DEFINE m == (x * y) % P   n == (y * z) % P
<1>3. x * y \in Int /\ y * z \in Int
  BY <1>0
<1>4. PICK u \in Int : x * y = P * u + m
  BY <1>3, Remainder
<1>5. PICK v \in Int : y * z = P * v + n
  BY <1>3, Remainder
<1>6. m \in Int /\ n \in Int
  BY <1>0, <1>3, GoldenAssumption
<1> HIDE DEF m, n
<1>7. (x * y) * z = x * (y * z)
  BY <1>0
<1>8. (P * u + m) * z = P * (u * z) + m * z /\ x * (P * v + n) = P * (x * v) + x * n
  BY <1>0, <1>6
<1>9. m * z = P * (x * v - u * z) + x * n
  <2>1. P * (u * z) + m * z = P * (x * v) + x * n
    BY <1>4, <1>5, <1>7, <1>8
  <2>2. u * z \in Int /\ x * v \in Int /\ m * z \in Int /\ x * n \in Int
    BY <1>0, <1>6
  <2> QED BY <1>0, <2>1, <2>2
<1>10. m * z \in Int /\ x * n \in Int /\ x * v - u * z \in Int
  BY <1>0, <1>6
<1>11. (m * z) % P = (x * n) % P
  BY <1>9, <1>10, SameRemainder
<1> QED BY <1>1, <1>2, <1>11 DEF m, n

\* Nothing is left of a product with 0.
LEMMA MulZero ==
  ASSUME NEW x \in Num
  PROVE  0 \in Num /\ Mul(x, 0) = 0
<1>1. 0 \in Num
  BY GoldenAssumption DEF Num
<1>2. x * 0 = 0
  BY GoldenAssumption DEF Num
<1> QED BY <1>1, <1>2, MulIs, GoldenAssumption

-----------------------------------------------------------------------------
(* Chain: a sum and a maximum by halves                                     *)

\* The two operations of the chains, Add and Larger
Op(o, x, y) == IF o = "add" THEN Add(x, y) ELSE Larger(x, y)

\* A step of a reduction maps numbers to numbers.
LEMMA OpType ==
  ASSUME NEW o, NEW x \in Num, NEW y \in Num
  PROVE  Op(o, x, y) \in Num
BY AddIs, LargerType DEF Op

Ranges(n) == (1 .. n) \X (1 .. n)
Mid(lo, hi) == (lo + hi) \div 2
\* part is right for the ranges of up to d + 1 elements
Halved(part, o, f, n, d) ==
  \A lo \in 1 .. n, hi \in 1 .. n : hi - lo <= d =>
    part[<<lo, hi>>] = IF lo >= hi THEN f[lo] ELSE Op(o, part[<<lo, Mid(lo, hi)>>], part[<<Mid(lo, hi) + 1, hi>>])

\* The middle of a range with at least two elements splits it in two.
LEMMA MidIs ==
  ASSUME NEW lo \in Nat, NEW hi \in Nat, lo < hi
  PROVE  Mid(lo, hi) \in Nat /\ lo <= Mid(lo, hi) /\ Mid(lo, hi) < hi
BY DEF Mid

\* The reductions of all ranges up to a length exist: by induction on the length.
LEMMA HalvedExists ==
  ASSUME NEW o, NEW f, NEW n \in Nat
  PROVE  \A d \in Nat : \E part : Halved(part, o, f, n, d)
<1> DEFINE S == {d \in Nat : \E part : Halved(part, o, f, n, d)}
<1>1. 0 \in S
  <2> DEFINE g == [r \in Ranges(n) |-> f[r[1]]]
  <2>1. Halved(g, o, f, n, 0)
    BY DEF Halved, Ranges
  <2> QED BY <2>1
<1>2. ASSUME NEW d \in Nat, d \in S PROVE d + 1 \in S
  <2>1. PICK g : Halved(g, o, f, n, d)
    BY <1>2
  <2> DEFINE h == [r \in Ranges(n) |->
                     IF r[2] - r[1] <= d THEN g[r]
                     ELSE Op(o, g[<<r[1], Mid(r[1], r[2])>>], g[<<Mid(r[1], r[2]) + 1, r[2]>>])]
  <2>2. ASSUME NEW lo \in 1 .. n, NEW hi \in 1 .. n, hi - lo <= d + 1
        PROVE  h[<<lo, hi>>] = IF lo >= hi THEN f[lo]
                           ELSE Op(o, h[<<lo, Mid(lo, hi)>>], h[<<Mid(lo, hi) + 1, hi>>])
    <3>1. CASE lo >= hi
      BY <2>1, <3>1 DEF Halved, Ranges
    <3>2. CASE lo < hi
      <4> DEFINE m == Mid(lo, hi)
      <4>1. m \in Nat /\ lo <= m /\ m < hi
        BY <3>2, MidIs
      <4>2. m \in 1 .. n /\ m + 1 \in 1 .. n /\ m - lo <= d /\ hi - (m + 1) <= d
        BY <2>2, <4>1
      <4>3. h[<<lo, m>>] = g[<<lo, m>>] /\ h[<<m + 1, hi>>] = g[<<m + 1, hi>>]
        BY <4>2 DEF Ranges
      <4>4. h[<<lo, hi>>] = Op(o, g[<<lo, m>>], g[<<m + 1, hi>>])
        <5>1. CASE hi - lo <= d
          <6>1. g[<<lo, hi>>] = Op(o, g[<<lo, m>>], g[<<m + 1, hi>>])
            BY <2>1, <3>2, <5>1 DEF Halved
          <6> QED BY <5>1, <6>1 DEF Ranges
        <5>2. CASE ~(hi - lo <= d)
          BY <5>2 DEF Ranges
        <5> QED BY <5>1, <5>2
      <4> QED BY <3>2, <4>3, <4>4
    <3> QED BY <3>1, <3>2
  <2> HIDE DEF h
  <2>3. Halved(h, o, f, n, d + 1)
    BY <2>2 DEF Halved
  <2> QED BY <2>3
<1> HIDE DEF S
<1>3. \A d \in Nat : d \in S
  BY <1>1, <1>2, Counting
<1> QED BY <1>3 DEF S

\* The recursive functions of Total and of a Chain of Larger
IsTotal(part, f, n) ==
  part = [r \in Ranges(n) |->
            IF r[1] >= r[2] THEN f[r[1]]
            ELSE Add(part[<<r[1], (r[1] + r[2]) \div 2>>], part[<<(r[1] + r[2]) \div 2 + 1, r[2]>>])]
IsLargest(part, f, n) ==
  part = [r \in Ranges(n) |->
            IF r[1] >= r[2] THEN f[r[1]]
            ELSE Larger(part[<<r[1], (r[1] + r[2]) \div 2>>], part[<<(r[1] + r[2]) \div 2 + 1, r[2]>>])]

\* The recursive functions of Chain are defined by their equations: a function that
\* satisfies them exists, so that CHOOSE picks one that does.
LEMMA FunctionsExist ==
  ASSUME NEW f, NEW n \in Nat
  PROVE  (\E part : IsTotal(part, f, n)) /\ (\E part : IsLargest(part, f, n))
<1>1. ASSUME NEW o PROVE \E g : /\ g = [r \in Ranges(n) |-> g[r]]
                                /\ Halved(g, o, f, n, n)
  <2>1. PICK g : Halved(g, o, f, n, n)
    BY HalvedExists
  <2> DEFINE h == [r \in Ranges(n) |-> g[r]]
  <2>2. \A lo \in 1 .. n, hi \in 1 .. n : h[<<lo, hi>>] = g[<<lo, hi>>]
    BY DEF Ranges
  <2>3. ASSUME NEW lo \in 1 .. n, NEW hi \in 1 .. n, lo < hi
        PROVE  Mid(lo, hi) \in 1 .. n /\ Mid(lo, hi) + 1 \in 1 .. n
    BY <2>3, MidIs
  <2> HIDE DEF h
  <2>4. Halved(h, o, f, n, n)
    BY <2>1, <2>2, <2>3 DEF Halved
  <2> QED BY <2>4 DEF h
<1>2. ASSUME NEW o, NEW g, g = [r \in Ranges(n) |-> g[r]], Halved(g, o, f, n, n)
      PROVE  g = [r \in Ranges(n) |->
                    IF r[1] >= r[2] THEN f[r[1]]
                    ELSE Op(o, g[<<r[1], Mid(r[1], r[2])>>], g[<<Mid(r[1], r[2]) + 1, r[2]>>])]
  <2> DEFINE F(r) == IF r[1] >= r[2] THEN f[r[1]]
                     ELSE Op(o, g[<<r[1], Mid(r[1], r[2])>>], g[<<Mid(r[1], r[2]) + 1, r[2]>>])
  <2>1. ASSUME NEW lo \in 1 .. n, NEW hi \in 1 .. n PROVE g[<<lo, hi>>] = F(<<lo, hi>>)
    BY <1>2 DEF Halved
  <2>2. ASSUME NEW r \in Ranges(n) PROVE g[r] = F(r)
    <3>1. PICK lo \in 1 .. n, hi \in 1 .. n : r = <<lo, hi>>
      BY DEF Ranges
    <3> QED BY <2>1, <3>1
  <2> HIDE DEF F
  <2>3. g = [r \in Ranges(n) |-> F(r)]
    BY <1>2, <2>2
  <2> QED BY <2>3 DEF F
<1>3. \E part : IsTotal(part, f, n)
  <2>1. PICK g : g = [r \in Ranges(n) |-> g[r]] /\ Halved(g, "add", f, n, n)
    BY <1>1
  <2>2. IsTotal(g, f, n)
    BY <1>2, <2>1 DEF IsTotal, Op, Mid
  <2> QED BY <2>2
<1>4. \E part : IsLargest(part, f, n)
  <2>1. PICK g : g = [r \in Ranges(n) |-> g[r]] /\ Halved(g, "larger", f, n, n)
    BY <1>1
  <2>2. IsLargest(g, f, n)
    BY <1>2, <2>1 DEF IsLargest, Op, Mid
  <2> QED BY <2>2
<1> QED BY <1>3, <1>4

\* What a chain is: the last of the ranges computed by halves.
LEMMA ChainIs ==
  ASSUME NEW f, NEW n \in Nat \ {0}
  PROVE  /\ \E part : Halved(part, "add", f, n, n) /\ Total(f, n) = part[<<1, n>>]
         /\ \E part : Halved(part, "larger", f, n, n) /\ Chain(Larger, f, n) = part[<<1, n>>]
<1> DEFINE T == CHOOSE part : IsTotal(part, f, n)
           L == CHOOSE part : IsLargest(part, f, n)
<1>1. IsTotal(T, f, n) /\ IsLargest(L, f, n)
  BY FunctionsExist
<1>2. Total(f, n) = T[<<1, n>>]
  BY DEF Total, Chain, IsTotal, Ranges
<1>3. Chain(Larger, f, n) = L[<<1, n>>]
  BY DEF Chain, IsLargest, Ranges
<1> HIDE DEF T, L
<1>4. Halved(T, "add", f, n, n)
  BY <1>1 DEF IsTotal, Halved, Op, Mid, Ranges
<1>5. Halved(L, "larger", f, n, n)
  BY <1>1 DEF IsLargest, Halved, Op, Mid, Ranges
<1> QED BY <1>2, <1>3, <1>4, <1>5

\* A chain of numbers is a number.
LEMMA HalvedType ==
  ASSUME NEW o, NEW n \in Nat \ {0}, NEW f \in [1 .. n -> Num], NEW part, Halved(part, o, f, n, n)
  PROVE  part[<<1, n>>] \in Num
<1> DEFINE S == {d \in Nat : \A lo \in 1 .. n, hi \in 1 .. n : hi - lo <= d => part[<<lo, hi>>] \in Num}
<1>0. ASSUME NEW lo \in 1 .. n, NEW hi \in 1 .. n, lo >= hi
      PROVE  part[<<lo, hi>>] \in Num
  <2>0. hi - lo <= n
    OBVIOUS
  <2>1. part[<<lo, hi>>] = f[lo]
    BY <1>0, <2>0 DEF Halved
  <2> QED BY <2>1
<1>1. 0 \in S
  <2>1. \A lo \in 1 .. n, hi \in 1 .. n : hi - lo <= 0 => lo >= hi
    OBVIOUS
  <2> QED BY <1>0, <2>1
<1>2. ASSUME NEW d \in Nat, d \in S PROVE d + 1 \in S
  <2>1. ASSUME NEW lo \in 1 .. n, NEW hi \in 1 .. n, hi - lo <= d + 1, lo < hi
        PROVE  part[<<lo, hi>>] \in Num
    <3> DEFINE m == Mid(lo, hi)
    <3>1. m \in Nat /\ lo <= m /\ m < hi
      BY <2>1, MidIs
    <3>2. m \in 1 .. n /\ m + 1 \in 1 .. n /\ m - lo <= d /\ hi - (m + 1) <= d /\ hi - lo <= n
      BY <2>1, <3>1
    <3>3. part[<<lo, m>>] \in Num /\ part[<<m + 1, hi>>] \in Num
      BY <1>2, <3>2
    <3>4. part[<<lo, hi>>] = Op(o, part[<<lo, m>>], part[<<m + 1, hi>>])
      BY <2>1, <3>2 DEF Halved
    <3> QED BY <3>3, <3>4, OpType
  <2>2. ASSUME NEW lo \in 1 .. n, NEW hi \in 1 .. n, lo >= hi
        PROVE  part[<<lo, hi>>] \in Num
    BY <1>0, <2>2
  <2> QED BY <2>1, <2>2
<1> HIDE DEF S
<1>3. n \in S
  BY <1>1, <1>2, Counting
<1> QED BY <1>3 DEF S

\* A reduction of numbers is a number.
LEMMA TotalType ==
  ASSUME NEW n \in Nat \ {0}, NEW f \in [1 .. n -> Num]
  PROVE  Total(f, n) \in Num /\ Chain(Larger, f, n) \in Num
<1>1. PICK p : Halved(p, "add", f, n, n) /\ Total(f, n) = p[<<1, n>>]
  BY ChainIs
<1>2. PICK q : Halved(q, "larger", f, n, n) /\ Chain(Larger, f, n) = q[<<1, n>>]
  BY ChainIs
<1> QED BY <1>1, <1>2, HalvedType

\* The sum of one number, and of the multiples of numbers
LEMMA TotalOne ==
  ASSUME NEW f
  PROVE  Total(f, 1) = f[1]
<1>1. PICK part : Halved(part, "add", f, 1, 1) /\ Total(f, 1) = part[<<1, 1>>]
  BY ChainIs
<1> QED BY <1>1 DEF Halved

\* A factor can be taken out of a sum.
LEMMA TotalMul ==
  ASSUME NEW n \in Nat \ {0}, NEW f \in [1 .. n -> Num], NEW c \in Num
  PROVE  Total([x \in 1 .. n |-> Mul(c, f[x])], n) = Mul(c, Total(f, n))
<1> DEFINE g == [x \in 1 .. n |-> Mul(c, f[x])]
<1>1. PICK p : Halved(p, "add", f, n, n) /\ Total(f, n) = p[<<1, n>>]
  BY ChainIs
<1>2. PICK q : Halved(q, "add", g, n, n) /\ Total(g, n) = q[<<1, n>>]
  BY ChainIs
<1> DEFINE S == {d \in Nat : \A lo \in 1 .. n, hi \in 1 .. n :
                   hi - lo <= d => p[<<lo, hi>>] \in Num /\ q[<<lo, hi>>] = Mul(c, p[<<lo, hi>>])}
<1>0. ASSUME NEW lo \in 1 .. n, NEW hi \in 1 .. n, lo >= hi
      PROVE  p[<<lo, hi>>] \in Num /\ q[<<lo, hi>>] = Mul(c, p[<<lo, hi>>])
  <2>0. hi - lo <= n
    OBVIOUS
  <2>1. p[<<lo, hi>>] = f[lo] /\ q[<<lo, hi>>] = g[lo]
    BY <1>0, <1>1, <1>2, <2>0 DEF Halved
  <2>2. g[lo] = Mul(c, f[lo])
    OBVIOUS
  <2> QED BY <2>1, <2>2
<1>3. 0 \in S
  <2>1. \A lo \in 1 .. n, hi \in 1 .. n : hi - lo <= 0 => lo >= hi
    OBVIOUS
  <2> QED BY <1>0, <2>1
<1>4. ASSUME NEW d \in Nat, d \in S PROVE d + 1 \in S
  <2>1. ASSUME NEW lo \in 1 .. n, NEW hi \in 1 .. n, hi - lo <= d + 1, lo < hi
        PROVE  p[<<lo, hi>>] \in Num /\ q[<<lo, hi>>] = Mul(c, p[<<lo, hi>>])
    <3> DEFINE m == Mid(lo, hi)
    <3>1. m \in Nat /\ lo <= m /\ m < hi
      BY <2>1, MidIs
    <3>2. m \in 1 .. n /\ m + 1 \in 1 .. n /\ m - lo <= d /\ hi - (m + 1) <= d /\ hi - lo <= n
      BY <2>1, <3>1
    <3>3. /\ p[<<lo, m>>] \in Num /\ p[<<m + 1, hi>>] \in Num
          /\ q[<<lo, m>>] = Mul(c, p[<<lo, m>>]) /\ q[<<m + 1, hi>>] = Mul(c, p[<<m + 1, hi>>])
      BY <1>4, <3>2
    <3>4. p[<<lo, hi>>] = Add(p[<<lo, m>>], p[<<m + 1, hi>>]) /\ q[<<lo, hi>>] = Add(q[<<lo, m>>], q[<<m + 1, hi>>])
      BY <1>1, <1>2, <2>1, <3>2 DEF Halved, Op
    <3>5. p[<<lo, hi>>] \in Num
      BY <3>3, <3>4, AddIs
    <3>6. Mul(c, p[<<lo, hi>>]) = Add(Mul(c, p[<<lo, m>>]), Mul(c, p[<<m + 1, hi>>]))
      BY <3>3, <3>4, MulAdd
    <3> QED BY <3>3, <3>4, <3>5, <3>6
  <2>2. ASSUME NEW lo \in 1 .. n, NEW hi \in 1 .. n, lo >= hi
        PROVE  p[<<lo, hi>>] \in Num /\ q[<<lo, hi>>] = Mul(c, p[<<lo, hi>>])
    BY <1>0, <2>2
  <2> QED BY <2>1, <2>2
<1> HIDE DEF S
<1>5. n \in S
  BY <1>3, <1>4, Counting
<1> QED BY <1>1, <1>2, <1>5 DEF S

-----------------------------------------------------------------------------
(* Vectors                                                                  *)

\* A vector of n numbers
Numbers(n) == [1 .. n -> Num]

\* The element-wise product, element by element.
LEMMA HadamardIs ==
  ASSUME NEW n \in Nat, NEW u \in Numbers(n), NEW v \in Numbers(n)
  PROVE  Hadamard(u, v) = [i \in 1 .. n |-> Mul(u[i], v[i])] /\ Hadamard(u, v) \in Numbers(n)
<1>1. Hadamard(u, v) = [i \in 1 .. n |-> Mul(u[i], v[i])]
  BY DEF Hadamard, Vec, Eager, Numbers
<1> QED BY <1>1, MulIs DEF Numbers

\* The multiple of a vector, element by element.
LEMMA ScaledIs ==
  ASSUME NEW n \in Nat, NEW u \in Numbers(n), NEW c \in Num
  PROVE  Scaled(c, u) = [i \in 1 .. n |-> Mul(c, u[i])] /\ Scaled(c, u) \in Numbers(n)
<1>1. Scaled(c, u) = [i \in 1 .. n |-> Mul(c, u[i])]
  BY DEF Scaled, Vec, Eager, Numbers
<1> QED BY <1>1, MulIs DEF Numbers

\* The sum of two vectors, element by element.
LEMMA PlusIs ==
  ASSUME NEW n \in Nat, NEW u \in Numbers(n), NEW v \in Numbers(n)
  PROVE  Plus(u, v) = [i \in 1 .. n |-> Add(u[i], v[i])] /\ Plus(u, v) \in Numbers(n)
<1>1. Plus(u, v) = [i \in 1 .. n |-> Add(u[i], v[i])]
  BY DEF Plus, Eager, Numbers
<1> QED BY <1>1, AddIs DEF Numbers

\* The activations of a vector, element by element.
LEMMA GatesAre ==
  ASSUME NEW n \in Nat, NEW u \in Numbers(n)
  PROVE  /\ Map1(Sigmoid, u) = [i \in 1 .. n |-> Sigmoid(u[i])] /\ Map1(Sigmoid, u) \in Numbers(n)
         /\ Map1(Silu, u) = [i \in 1 .. n |-> Silu(u[i])] /\ Map1(Silu, u) \in Numbers(n)
<1>1. Map1(Sigmoid, u) = [i \in 1 .. n |-> Sigmoid(u[i])]
  BY DEF Map1, Vec, Eager, Numbers
<1>2. Map1(Silu, u) = [i \in 1 .. n |-> Silu(u[i])]
  BY DEF Map1, Vec, Eager, Numbers
<1> QED BY <1>1, <1>2, SpecialType DEF Numbers

\* A dot product of numbers is a number.
LEMMA DotType ==
  ASSUME NEW n \in Nat \ {0}, NEW u \in Numbers(n), NEW v \in Numbers(n)
  PROVE  Dot(u, v) \in Num
<1> DEFINE f == [i \in 1 .. n |-> Mul(u[i], v[i])]
<1>1. f \in [1 .. n -> Num]
  BY MulIs DEF Numbers
<1>2. Dot(u, v) = Total(f, n)
  BY DEF Dot, Numbers
<1> HIDE DEF f
<1> QED BY <1>1, <1>2, TotalType

\* A slice inside a vector has the elements from its offset on.
LEMMA SliceIs ==
  ASSUME NEW n \in Nat, NEW u \in Numbers(n), NEW from \in Nat, NEW m \in Nat, from + m <= n
  PROVE  Slice(u, from, m) = [i \in 1 .. m |-> u[from + i]] /\ Slice(u, from, m) \in Numbers(m)
<1>1. Slice(u, from, m) = [i \in 1 .. m |-> u[from + i]]
  BY DEF Slice, Numbers
<1>2. \A i \in 1 .. m : u[from + i] \in Num
  BY DEF Numbers
<1> QED BY <1>1, <1>2 DEF Numbers

\* Row-major indices: element e of m rows of n
LEMMA RowOf ==
  ASSUME NEW m \in Nat, NEW n \in Nat, NEW e \in 1 .. m * n
  PROVE  /\ n # 0 /\ (e - 1) \div n \in 0 .. m - 1 /\ (e - 1) % n \in 0 .. n - 1
         /\ e = ((e - 1) \div n) * n + ((e - 1) % n) + 1
<1>1. n # 0
  <2>1. n = 0 => m * n = 0
    OBVIOUS
  <2> QED BY <2>1
<1> DEFINE x == e - 1   q == x \div n   r == x % n
<1>2. x \in Nat /\ m * n \in Nat /\ x < m * n
  <2>1. m * n \in Nat
    OBVIOUS
  <2> QED BY <2>1
<1>3. q \in Nat /\ r \in 0 .. n - 1 /\ x = n * q + r
  BY <1>1, <1>2
<1> HIDE DEF x, q, r
<1>4. q < m
  <2>1. CASE q >= m
    <3>1. n * q >= n * m
      BY <1>3, <2>1
    <3>2. n * m = m * n /\ n * q \in Nat
      BY <1>3
    <3> QED BY <1>2, <1>3, <3>1, <3>2
  <2> QED BY <1>3, <2>1
<1>5. n * q = q * n
  BY <1>3
<1>6. q \in 0 .. m - 1
  BY <1>3, <1>4
<1>7. e = x + 1
  BY DEF x
<1>8. e = q * n + r + 1
  BY <1>2, <1>3, <1>5, <1>7
<1> QED BY <1>1, <1>3, <1>6, <1>8 DEF q, r, x

\* The elements of row r lie one after the other, inside the matrix.
LEMMA InRow ==
  ASSUME NEW m \in Nat, NEW n \in Nat, NEW r \in 0 .. m - 1, NEW c \in 1 .. n
  PROVE  r * n \in Nat /\ r * n + c \in 1 .. m * n /\ r * n + n <= m * n
<1>1. r * n \in Nat /\ m * n \in Nat
  OBVIOUS
<1>2. (r + 1) * n <= m * n
  BY r + 1 <= m
<1>3. (r + 1) * n = r * n + n
  OBVIOUS
<1> QED BY <1>1, <1>2, <1>3

\* A tensor of the model is a flat vector of rows x cols numbers.
LEMMA MatrixType ==
  ASSUME NEW name, NEW li, NEW rows \in Nat, NEW cols \in Nat, HasShape(name, li, rows, cols)
  PROVE  Matrix(name, li, rows, cols) \in Numbers(rows * cols)
<1> DEFINE n == rows * cols
           f == [e \in 1 .. n |-> Weight(name, li, (e - 1) \div cols, (e - 1) % cols)]
<1>1. n \in Nat
  OBVIOUS
<1>2. ASSUME NEW e \in 1 .. n PROVE f[e] \in Num
  <2>1. (e - 1) \div cols \in 0 .. rows - 1 /\ (e - 1) % cols \in 0 .. cols - 1
    BY RowOf
  <2> QED BY <2>1 DEF HasShape
<1>3. Matrix(name, li, rows, cols) = <<>> \o f
  BY DEF Matrix, Vec, Eager
<1> HIDE DEF n
<1>4. <<>> \o f = f
  BY <1>1
<1>5. f \in Numbers(n)
  BY <1>2 DEF Numbers
<1> QED BY <1>3, <1>4, <1>5 DEF n

\* A norm weight is a vector.
LEMMA WeightVectorType ==
  ASSUME NEW name, NEW li, NEW n \in Nat, HasShape(name, li, 1, n)
  PROVE  WeightVector(name, li, n) \in Numbers(n)
<1>1. WeightVector(name, li, n) = [i \in 1 .. n |-> Weight(name, li, 0, i - 1)]
  BY DEF WeightVector, Vec, Eager
<1>2. \A i \in 1 .. n : Weight(name, li, 0, i - 1) \in Num
  BY DEF HasShape
<1> QED BY <1>1, <1>2 DEF Numbers

\* The products of forward_token: a row by a matrix,
LEMMA LinearType ==
  ASSUME NEW k \in Nat \ {0}, NEW n \in Nat, NEW x \in Numbers(k), NEW w \in Numbers(k * n)
  PROVE  Linear(x, w, n) \in Numbers(n)
<1> DEFINE At(r, c, y) == Mul(x[r * k + y], w[(y - 1) * n + c + 1])
           row(e) == [y \in 1 .. k |-> At((e - 1) \div n, (e - 1) % n, y)]
           f == [e \in 1 .. 1 * n |-> Total(row(e), k)]
<1>1. Len(x) = k
  BY DEF Numbers
<1>2. Linear(x, w, n) = Eager(f)
  BY <1>1 DEF Linear, Product
<1>3. 1 * n = n
  OBVIOUS
<1>4. ASSUME NEW e \in 1 .. n PROVE Total(row(e), k) \in Num
  <2>1. (e - 1) \div n = 0 /\ (e - 1) % n = e - 1
    OBVIOUS
  <2>2. ASSUME NEW y \in 1 .. k PROVE At((e - 1) \div n, (e - 1) % n, y) \in Num
    <3>1. (y - 1) * n + e \in 1 .. k * n
      BY InRow
    <3>2. (y - 1) * n \in Int
      OBVIOUS
    <3>3. 0 * k + y = y /\ (y - 1) * n + (e - 1) + 1 = (y - 1) * n + e
      BY <3>2
    <3>4. At(0, e - 1, y) = Mul(x[y], w[(y - 1) * n + e])
      BY <3>3
    <3>5. x[y] \in Num /\ w[(y - 1) * n + e] \in Num
      BY <3>1 DEF Numbers
    <3> QED BY <2>1, <3>4, <3>5, MulIs
  <2> HIDE DEF At
  <2>3. row(e) \in [1 .. k -> Num]
    BY <2>2
  <2> HIDE DEF row
  <2> QED BY <2>3, TotalType
<1> HIDE DEF row
<1>5. f = [e \in 1 .. n |-> Total(row(e), k)]
  BY <1>3
<1>6. f \in Numbers(n)
  BY <1>4, <1>5 DEF Numbers
<1> HIDE DEF f
<1>7. Eager(f) = f
  BY <1>6 DEF Eager, Numbers
<1> QED BY <1>2, <1>6, <1>7

\* a state by a vector,
StateRow(s, k, hd, e) == [x \in 1 .. hd |-> Mul(s[(e - 1) * hd + x], k[x])]
\* A matrix of states times a key is one sum per row.
LEMMA MatVecIs ==
  ASSUME NEW hd \in Nat \ {0}, NEW s \in Numbers(hd * hd), NEW k \in Numbers(hd)
  PROVE  /\ \A e \in 1 .. hd : StateRow(s, k, hd, e) \in [1 .. hd -> Num]
         /\ Product(s, k, hd, 1, hd, FALSE) = [e \in 1 .. hd |-> Total(StateRow(s, k, hd, e), hd)]
         /\ Product(s, k, hd, 1, hd, FALSE) \in Numbers(hd)
<1> DEFINE At(r, c, x) == Mul(s[r * hd + x], k[(x - 1) * 1 + c + 1])
           row(e) == [x \in 1 .. hd |-> At((e - 1) \div 1, (e - 1) % 1, x)]
           f == [e \in 1 .. hd * 1 |-> Total(row(e), hd)]
<1>1. Product(s, k, hd, 1, hd, FALSE) = Eager(f)
  BY DEF Product
<1>2. ASSUME NEW e \in 1 .. hd
      PROVE  row(e) = StateRow(s, k, hd, e) /\ StateRow(s, k, hd, e) \in [1 .. hd -> Num]
  <2>1. (e - 1) \div 1 = e - 1 /\ (e - 1) % 1 = 0
    OBVIOUS
  <2>2. ASSUME NEW x \in 1 .. hd
        PROVE  At(e - 1, 0, x) = Mul(s[(e - 1) * hd + x], k[x])
    <3>1. (x - 1) * 1 + 0 + 1 = x
      OBVIOUS
    <3> QED BY <3>1
  <2>3. ASSUME NEW x \in 1 .. hd
        PROVE  Mul(s[(e - 1) * hd + x], k[x]) \in Num
    <3>1. (e - 1) * hd + x \in 1 .. hd * hd
      BY InRow
    <3> QED BY <3>1, MulIs DEF Numbers
  <2> HIDE DEF At
  <2> QED BY <2>1, <2>2, <2>3 DEF StateRow
<1> HIDE DEF row
<1>3. hd * 1 = hd
  OBVIOUS
<1>4. f = [e \in 1 .. hd |-> Total(StateRow(s, k, hd, e), hd)]
  BY <1>2, <1>3
<1>5. f \in Numbers(hd)
  BY <1>2, <1>4, TotalType DEF Numbers
<1> HIDE DEF f
<1>6. Eager(f) = f
  BY <1>5 DEF Eager, Numbers
<1> QED BY <1>1, <1>2, <1>4, <1>5, <1>6

\* which is linear in the state,
LEMMA MatVecScaled ==
  ASSUME NEW hd \in Nat \ {0}, NEW s \in Numbers(hd * hd), NEW k \in Numbers(hd), NEW a \in Num,
         NEW e \in 1 .. hd
  PROVE  Product(Scaled(a, s), k, hd, 1, hd, FALSE)[e] = Mul(a, Product(s, k, hd, 1, hd, FALSE)[e])
<1>0. hd * hd \in Nat
  OBVIOUS
<1>1. Scaled(a, s) = [i \in 1 .. hd * hd |-> Mul(a, s[i])] /\ Scaled(a, s) \in Numbers(hd * hd)
  BY <1>0, ScaledIs
<1> DEFINE t == Scaled(a, s)
           f == StateRow(s, k, hd, e)
<1> HIDE DEF t
<1>2. ASSUME NEW x \in 1 .. hd PROVE Mul(t[(e - 1) * hd + x], k[x]) = Mul(a, f[x])
  <2>1. (e - 1) * hd + x \in 1 .. hd * hd
    BY InRow
  <2>2. t[(e - 1) * hd + x] = Mul(a, s[(e - 1) * hd + x])
    BY <1>1, <2>1 DEF t
  <2>3. s[(e - 1) * hd + x] \in Num /\ k[x] \in Num
    BY <2>1 DEF Numbers
  <2>4. f[x] = Mul(s[(e - 1) * hd + x], k[x])
    BY DEF StateRow
  <2> QED BY <2>2, <2>3, <2>4, MulMul
<1>3. StateRow(t, k, hd, e) = [x \in 1 .. hd |-> Mul(a, f[x])]
  BY <1>2 DEF StateRow
<1>4. Product(t, k, hd, 1, hd, FALSE)[e] = Total(StateRow(t, k, hd, e), hd)
  <2>1. t \in Numbers(hd * hd)
    BY <1>1 DEF t
  <2>2. Product(t, k, hd, 1, hd, FALSE) = [i \in 1 .. hd |-> Total(StateRow(t, k, hd, i), hd)]
    BY <2>1, MatVecIs
  <2> QED BY <2>2
<1>5. Product(s, k, hd, 1, hd, FALSE)[e] = Total(f, hd) /\ f \in [1 .. hd -> Num]
  <2>1. Product(s, k, hd, 1, hd, FALSE) = [i \in 1 .. hd |-> Total(StateRow(s, k, hd, i), hd)]
    BY MatVecIs
  <2>2. \A i \in 1 .. hd : StateRow(s, k, hd, i) \in [1 .. hd -> Num]
    BY MatVecIs
  <2> QED BY <2>1, <2>2
<1> HIDE DEF f
<1> QED BY <1>3, <1>4, <1>5, TotalMul DEF t

\* and a column by a row.
LEMMA OuterIs ==
  ASSUME NEW hd \in Nat \ {0}, NEW w \in Numbers(hd), NEW k \in Numbers(hd)
  PROVE  Product(w, k, hd, hd, 1, FALSE)
           = [e \in 1 .. hd * hd |-> Mul(w[(e - 1) \div hd + 1], k[((e - 1) % hd) + 1])]
<1> DEFINE At(r, c, x) == Mul(w[r * 1 + x], k[(x - 1) * hd + c + 1])
           row(e) == [x \in 1 .. 1 |-> At((e - 1) \div hd, (e - 1) % hd, x)]
           n == hd * hd
           f == [e \in 1 .. n |-> Total(row(e), 1)]
<1>1. Product(w, k, hd, hd, 1, FALSE) = Eager(f)
  BY DEF Product
<1>2. ASSUME NEW e \in 1 .. n
      PROVE  Total(row(e), 1) = Mul(w[(e - 1) \div hd + 1], k[((e - 1) % hd) + 1])
  <2> DEFINE q == (e - 1) \div hd   r == (e - 1) % hd
  <2>1. Total(row(e), 1) = row(e)[1]
    BY TotalOne
  <2>2. q \in Nat /\ r \in Nat
    <3>1. q \in 0 .. hd - 1 /\ r \in 0 .. hd - 1
      BY hd \in Nat, e \in 1 .. hd * hd, RowOf
    <3> QED BY <3>1
  <2> HIDE DEF q, r
  <2>3. q * 1 + 1 = q + 1 /\ (1 - 1) * hd + r + 1 = r + 1
    BY <2>2
  <2>4. At(q, r, 1) = Mul(w[q + 1], k[r + 1])
    BY <2>3
  <2>5. row(e)[1] = At(q, r, 1)
    BY DEF q, r
  <2> QED BY <2>1, <2>4, <2>5 DEF q, r
<1>3. n \in Nat
  OBVIOUS
<1> HIDE DEF row, n
<1>4. Eager(f) = f
  BY <1>3 DEF Eager
<1>5. f = [e \in 1 .. n |-> Mul(w[(e - 1) \div hd + 1], k[((e - 1) % hd) + 1])]
  BY <1>2
<1> QED BY <1>1, <1>4, <1>5 DEF n

\* The unit vector of a head has the length of the head.
LEMMA UnitType ==
  ASSUME NEW n \in Nat \ {0}, NEW v \in Numbers(n)
  PROVE  unit(v) \in Numbers(n)
BY DotType, SpecialType, ScaledIs DEF unit

\* rmsnorm keeps the shape.
LEMMA RmsnormType ==
  ASSUME NEW x \in Numbers(Config.d_model), NEW w \in Numbers(Config.d_model), Config.d_model \in Nat \ {0}
  PROVE  rmsnorm(x, w) \in Numbers(Config.d_model)
<1>1. Len(x) = Config.d_model
  BY DEF Numbers
<1>2. Dot(x, x) \in Num /\ OneOver(Config.d_model) \in Num /\ RmsEps \in Num
  BY DotType, DecodeAssumption DEF NumbersOK
<1>3. Rsqrt(Add(Mul(Dot(x, x), OneOver(Config.d_model)), RmsEps)) \in Num
  BY <1>2, MulIs, AddIs, SpecialType
<1> QED BY <1>1, <1>3, ScaledIs, HadamardIs DEF rmsnorm

\* So does apply_rope, at every position a sequence reaches.
LEMMA RopeType ==
  ASSUME NEW v \in Numbers(Config.head_dim), NEW pos \in Positions
  PROVE  apply_rope(Config, v, pos) \in Numbers(Config.head_dim)
<1> DEFINE hd == Config.head_dim   d == Config.rope_dim   half == d \div 2
           rot(i) == IF i <= half THEN Neg(v[i + half]) ELSE v[i - half]
           turned(i) == Add(Mul(v[i], RopeCos(pos, (i - 1) % half)), Mul(rot(i), RopeSin(pos, (i - 1) % half)))
           f == [i \in 1 .. hd |-> IF i > d THEN v[i] ELSE turned(i)]
<1>1. hd \in Nat \ {0} /\ d \in Nat \ {0} /\ d % 2 = 0 /\ d <= hd
  BY DecodeAssumption DEF ConfigOK
<1>2. half \in Nat \ {0} /\ d = half + half
  BY <1>1
<1>3. apply_rope(Config, v, pos) = Eager(f)
  <2>1. Len(v) = hd
    BY <1>1 DEF Numbers
  <2> QED BY <2>1 DEF apply_rope, Vec
<1> HIDE DEF d, hd
<1>4. ASSUME NEW i \in 1 .. hd, i <= d PROVE turned(i) \in Num
  <2>1. (i - 1) % half \in 0 .. half - 1
    BY <1>2
  <2>2. RopeCos(pos, (i - 1) % half) \in Num /\ RopeSin(pos, (i - 1) % half) \in Num
    BY <2>1, DecodeAssumption DEF NumbersOK, d
  <2>3. rot(i) \in Num
    <3>1. CASE i <= half
      <4>1. i + half \in 1 .. hd
        BY <1>1, <1>2, <3>1
      <4> QED BY <3>1, <4>1, NegType DEF Numbers, hd
    <3>2. CASE ~(i <= half)
      <4>1. i - half \in 1 .. hd
        BY <1>1, <1>2, <1>4, <3>2
      <4> QED BY <3>2, <4>1 DEF Numbers, hd
    <3> QED BY <3>1, <3>2
  <2>4. v[i] \in Num
    BY DEF Numbers, hd
  <2> HIDE DEF rot, half
  <2> QED BY <2>2, <2>3, <2>4, MulIs, AddIs
<1> HIDE DEF turned, half
<1>5. f \in Numbers(hd)
  BY <1>1, <1>4 DEF Numbers, hd
<1> HIDE DEF f
<1>6. Eager(f) = f
  BY <1>1, <1>5 DEF Eager, Numbers
<1> QED BY <1>3, <1>5, <1>6 DEF hd

\* So does softmax, over at least one score.
LEMMA SoftmaxType ==
  ASSUME NEW n \in Nat \ {0}, NEW s \in Numbers(n)
  PROVE  softmax(s) \in Numbers(n)
<1> DEFINE mx == Chain(Larger, s, n)
           e == [i \in 1 .. n |-> Exponential(Add(s[i], Neg(mx)))]
<1>1. mx \in Num
  BY TotalType DEF Numbers
<1>2. softmax(s) = Scaled(Recip(Total(e, Len(e))), e)
  <2>1. Len(s) = n
    BY DEF Numbers
  <2>2. Eager(e) = e
    BY DEF Eager
  <2>3. Vec(Len(s), LAMBDA i : Exponential(Add(s[i], Neg(Chain(Larger, s, Len(s)))))) = Eager(e)
    BY <2>1 DEF Vec
  <2> QED BY <2>2, <2>3 DEF softmax
<1> HIDE DEF mx
<1>3. \A i \in 1 .. n : Exponential(Add(s[i], Neg(mx))) \in Num
  BY <1>1, NegType, AddIs, SpecialType DEF Numbers
<1>4. e \in Numbers(n) /\ Len(e) = n
  BY <1>3 DEF Numbers
<1> HIDE DEF e
<1>5. Total(e, n) \in Num
  BY <1>4, TotalType DEF Numbers
<1> QED BY <1>2, <1>4, <1>5, SpecialType, ScaledIs

\* Vectors of numbers are sequences of numbers.
LEMMA NumbersAre ==
  ASSUME NEW n \in Nat, NEW v
  PROVE  v \in Numbers(n) <=> v \in Seq(Num) /\ Len(v) = n
BY DEF Numbers

\* np.concatenate of two vectors has the elements of the first, then of the second.
LEMMA JoinType ==
  ASSUME NEW a \in Nat, NEW b \in Nat, NEW x \in Numbers(a), NEW y \in Numbers(b)
  PROVE  /\ x \o y \in Numbers(a + b)
         /\ \A i \in 1 .. a + b : (x \o y)[i] = IF i <= a THEN x[i] ELSE y[i - a]
<1>1. x \in Seq(Num) /\ Len(x) = a /\ y \in Seq(Num) /\ Len(y) = b
  BY NumbersAre
<1>2. x \o y \in Seq(Num) /\ Len(x \o y) = a + b
  BY <1>1, ConcatProperties
<1>3. \A i \in 1 .. a + b : (x \o y)[i] = IF i <= a THEN x[i] ELSE y[i - a]
  BY <1>1, ConcatProperties
<1> DEFINE z == x \o y
<1> HIDE DEF z
<1>4. a + b \in Nat /\ z \in Seq(Num) /\ Len(z) = a + b
  BY <1>2 DEF z
<1>5. z \in Numbers(a + b)
  BY <1>4, NumbersAre
<1> QED BY <1>3, <1>5 DEF z

\* Concat and the recursive function it is computed by
IsConcat(g, seqs) == g = [m \in 0 .. Len(seqs) |-> IF m = 0 THEN <<>> ELSE g[m - 1] \o seqs[m]]

\* Concat is the last of the partial concatenations.
LEMMA ConcatIs ==
  ASSUME NEW n \in Nat, NEW seqs, Len(seqs) = n
  PROVE  \E g : IsConcat(g, seqs) /\ Concat(seqs) = g[n]
<1> DEFINE UpTo(g, m) == \A j \in 0 .. m : g[j] = IF j = 0 THEN <<>> ELSE g[j - 1] \o seqs[j]
           S == {m \in Nat : \E g : UpTo(g, m)}
<1>1. 0 \in S
  <2>1. UpTo([j \in 0 .. 0 |-> <<>>], 0)
    OBVIOUS
  <2> QED BY <2>1
<1>2. ASSUME NEW m \in Nat, m \in S PROVE m + 1 \in S
  <2>1. PICK g : UpTo(g, m)
    BY <1>2
  <2> DEFINE h == [j \in 0 .. m + 1 |-> IF j = m + 1 THEN g[m] \o seqs[m + 1] ELSE g[j]]
  <2>2. ASSUME NEW j \in 0 .. m + 1 PROVE h[j] = IF j = 0 THEN <<>> ELSE h[j - 1] \o seqs[j]
    <3>1. CASE j = m + 1
      <4>1. j - 1 = m /\ j # 0 /\ m \in 0 .. m + 1 /\ m # m + 1
        BY <3>1
      <4>2. h[j - 1] = g[m] /\ h[j] = g[m] \o seqs[j]
        BY <3>1, <4>1
      <4> QED BY <4>1, <4>2
    <3>2. CASE j # m + 1
      <4>1. j \in 0 .. m /\ h[j] = g[j] /\ (j # 0 => h[j - 1] = g[j - 1])
        BY <3>2
      <4> QED BY <2>1, <4>1
    <3> QED BY <3>1, <3>2
  <2> HIDE DEF h
  <2>3. UpTo(h, m + 1)
    BY <2>2
  <2> QED BY <2>3
<1> HIDE DEF S
<1>3. n \in S
  BY <1>1, <1>2, Counting
<1>4. PICK g : UpTo(g, n)
  BY <1>3 DEF S
<1> DEFINE h == [j \in 0 .. n |-> g[j]]
<1>5. IsConcat(h, seqs)
  <2>1. \A j \in 0 .. n : h[j] = IF j = 0 THEN <<>> ELSE h[j - 1] \o seqs[j]
    BY <1>4
  <2> HIDE DEF UpTo
  <2> QED BY <2>1 DEF IsConcat
<1> DEFINE c == CHOOSE f : IsConcat(f, seqs)
<1>6. IsConcat(c, seqs)
  BY <1>5
<1>7. Concat(seqs) = c[n]
  BY DEF Concat, IsConcat
<1> HIDE DEF c
<1> QED BY <1>6, <1>7

\* n heads of length hd make a vector of n * hd.
LEMMA ConcatType ==
  ASSUME NEW n \in Nat, NEW hd \in Nat, NEW seqs \in [1 .. n -> Numbers(hd)]
  PROVE  Concat(seqs) \in Numbers(n * hd)
<1>0. Len(seqs) = n
  OBVIOUS
<1>1. PICK g : IsConcat(g, seqs) /\ Concat(seqs) = g[n]
  BY <1>0, ConcatIs
<1> DEFINE S == {m \in Nat : m <= n => g[m] \in Numbers(m * hd)}
<1>2. 0 \in S
  <2>1. g[0] = <<>>
    BY <1>0, <1>1 DEF IsConcat
  <2>2. 0 * hd = 0
    OBVIOUS
  <2>3. <<>> \in Numbers(0)
    BY DEF Numbers
  <2> QED BY <2>1, <2>2, <2>3
<1>3. ASSUME NEW m \in Nat, m \in S PROVE m + 1 \in S
  <2>1. SUFFICES ASSUME m + 1 <= n PROVE g[m + 1] \in Numbers((m + 1) * hd)
    OBVIOUS
  <2>2. g[m + 1] = g[m] \o seqs[m + 1]
    BY <1>0, <1>1, <2>1 DEF IsConcat
  <2>3. g[m] \in Numbers(m * hd) /\ seqs[m + 1] \in Numbers(hd)
    BY <1>3, <2>1
  <2> DEFINE a == m * hd
  <2>4. a \in Nat /\ (m + 1) * hd = a + hd
    OBVIOUS
  <2> HIDE DEF a
  <2>5. g[m] \o seqs[m + 1] \in Numbers(a + hd)
    BY <2>3, <2>4, JoinType DEF a
  <2> QED BY <2>2, <2>4, <2>5
<1> HIDE DEF S
<1>4. n \in S
  BY <1>2, <1>3, Counting
<1> QED BY <1>1, <1>4 DEF S

-----------------------------------------------------------------------------
(* The delta rule                                                           *)

\* The correction of a state s decayed by a
Error(s, k, v, a, hd) ==
  Vec(hd, LAMBDA e : Add(v[e], Neg(Product(Scaled(a, s), k, hd, 1, hd, FALSE)[e])))
Rule(s, k, v, a, b, hd) ==
  Plus(Scaled(a, s), Product(Scaled(b, Error(s, k, v, a, hd)), k, hd, hd, 1, FALSE))

\* The prediction error may be taken before or after the decay: the reference decays
\* the prediction, the delta rule without caches the state.
LEMMA ErrorIs ==
  ASSUME NEW hd \in Nat \ {0}, NEW s \in Numbers(hd * hd), NEW k \in Numbers(hd), NEW v \in Numbers(hd),
         NEW a \in Num
  PROVE  /\ Error(s, k, v, a, hd) = [e \in 1 .. hd |-> Add(v[e], Neg(Mul(a, Product(s, k, hd, 1, hd, FALSE)[e])))]
         /\ Error(s, k, v, a, hd) \in Numbers(hd)
<1> DEFINE u == Product(s, k, hd, 1, hd, FALSE)
           d == Product(Scaled(a, s), k, hd, 1, hd, FALSE)
<1>1. Error(s, k, v, a, hd) = [e \in 1 .. hd |-> Add(v[e], Neg(d[e]))]
  BY DEF Error, Vec, Eager
<1>2. \A e \in 1 .. hd : d[e] = Mul(a, u[e])
  BY MatVecScaled
<1>3. u \in Numbers(hd)
  BY MatVecIs
<1> HIDE DEF u, d
<1>4. ASSUME NEW e \in 1 .. hd PROVE Add(v[e], Neg(Mul(a, u[e]))) \in Num
  <2>1. u[e] \in Num /\ v[e] \in Num
    BY <1>3 DEF Numbers
  <2>2. Neg(Mul(a, u[e])) \in Num
    BY <2>1, MulIs, NegType
  <2> QED BY <2>1, <2>2, AddIs
<1>5. Error(s, k, v, a, hd) = [e \in 1 .. hd |-> Add(v[e], Neg(Mul(a, u[e])))]
  BY <1>1, <1>2
<1> QED BY <1>4, <1>5 DEF Numbers, u

\* delta_rule, which scales the old state and its prediction by alpha separately,
\* is the update of a decayed state.
LEMMA DeltaRuleIs ==
  ASSUME NEW hd \in Nat \ {0}, NEW s \in Numbers(hd * hd), NEW q \in Numbers(hd), NEW k \in Numbers(hd),
         NEW v \in Numbers(hd), NEW a \in Num, NEW b \in Num
  PROVE  /\ delta_rule(s, q, k, v, a, b)
              = [state |-> Rule(s, k, v, a, b, hd), out |-> Product(Rule(s, k, v, a, b, hd), q, hd, 1, hd, FALSE)]
         /\ Rule(s, k, v, a, b, hd) \in Numbers(hd * hd)
<1> DEFINE n == hd * hd
           u == Product(s, k, hd, 1, hd, FALSE)
           w == [i \in 1 .. hd |-> Mul(b, Add(v[i], Neg(Mul(a, u[i]))))]
           f == [e \in 1 .. n |-> Add(Mul(a, s[e]), Mul(w[(e - 1) \div hd + 1], k[((e - 1) % hd) + 1]))]
<1>1. n \in Nat
  OBVIOUS
<1>2. Len(k) = hd
  BY DEF Numbers
<1>3. delta_rule(s, q, k, v, a, b) = [state |-> f, out |-> Product(f, q, hd, 1, hd, FALSE)]
  <2> DEFINE W == Eager([i \in 1 .. hd |-> Mul(b, Add(v[i], Neg(Mul(a, Product(s, k, hd, 1, hd, FALSE)[i]))))])
             F == Eager([e \in 1 .. hd * hd |->
                           Add(Mul(a, s[e]), Mul(W[(e - 1) \div hd + 1], k[((e - 1) % hd) + 1]))])
  <2>1. delta_rule(s, q, k, v, a, b) = [state |-> F, out |-> Product(F, q, hd, 1, hd, FALSE)]
    BY <1>2 DEF delta_rule, Vec
  <2>2. W = w
    BY DEF Eager
  <2> HIDE DEF W, w, n
  <2>3. F = Eager(f)
    BY <2>2 DEF n
  <2>4. Eager(f) = f
    BY <1>1 DEF Eager
  <2> QED BY <2>1, <2>3, <2>4
<1> DEFINE err == Error(s, k, v, a, hd)
<1>4. err = [e \in 1 .. hd |-> Add(v[e], Neg(Mul(a, u[e])))] /\ err \in Numbers(hd)
  BY ErrorIs
<1> HIDE DEF err, u
<1>5. Scaled(b, err) = w /\ w \in Numbers(hd)
  <2>1. Scaled(b, err) = [i \in 1 .. hd |-> Mul(b, err[i])] /\ Scaled(b, err) \in Numbers(hd)
    BY <1>4, ScaledIs
  <2>2. Scaled(b, err) = w
    BY <1>4, <2>1
  <2> QED BY <2>1, <2>2
<1> HIDE DEF w
<1> DEFINE o == Product(w, k, hd, hd, 1, FALSE)
<1>6. o = [e \in 1 .. hd * hd |-> Mul(w[(e - 1) \div hd + 1], k[((e - 1) % hd) + 1])]
  BY <1>5, OuterIs
<1>7. ASSUME NEW e \in 1 .. hd * hd PROVE Mul(w[(e - 1) \div hd + 1], k[((e - 1) % hd) + 1]) \in Num
  <2>1. (e - 1) \div hd \in 0 .. hd - 1 /\ (e - 1) % hd \in 0 .. hd - 1
    BY hd \in Nat, RowOf
  <2>2. (e - 1) \div hd + 1 \in 1 .. hd /\ ((e - 1) % hd) + 1 \in 1 .. hd
    BY <2>1
  <2>3. w[(e - 1) \div hd + 1] \in Num /\ k[((e - 1) % hd) + 1] \in Num
    BY <1>5, <2>2 DEF Numbers
  <2> QED BY <2>3, MulIs
<1>8. o \in Numbers(n)
  BY <1>6, <1>7 DEF Numbers
<1>9. Scaled(a, s) = [i \in 1 .. n |-> Mul(a, s[i])] /\ Scaled(a, s) \in Numbers(n)
  BY <1>1, ScaledIs
<1> HIDE DEF n, o
<1>10. Plus(Scaled(a, s), o) = [i \in 1 .. n |-> Add(Scaled(a, s)[i], o[i])] /\ Plus(Scaled(a, s), o) \in Numbers(n)
  BY <1>1, <1>8, <1>9, PlusIs
<1>11. ASSUME NEW i \in 1 .. n
       PROVE  Add(Scaled(a, s)[i], o[i]) = f[i]
  <2>1. Scaled(a, s)[i] = Mul(a, s[i])
    BY <1>9
  <2>2. o[i] = Mul(w[(i - 1) \div hd + 1], k[((i - 1) % hd) + 1])
    BY <1>6 DEF n
  <2> QED BY <2>1, <2>2
<1>12. Plus(Scaled(a, s), o) = f
  BY <1>10, <1>11
<1>13. Rule(s, k, v, a, b, hd) = f
  BY <1>5, <1>12 DEF Rule, o, err
<1> QED BY <1>3, <1>10, <1>12, <1>13 DEF n

-----------------------------------------------------------------------------
(* The configuration                                                        *)

\* The sizes of a configuration are positive.
LEMMA ConfigIs ==
  /\ Config.n_layers \in Nat \ {0} /\ Config.d_model \in Nat \ {0} /\ Config.d_ff \in Nat \ {0}
  /\ Config.vocab \in Nat \ {0} /\ Config.n_q_heads \in Nat \ {0} /\ Config.n_kv_heads \in Nat \ {0}
  /\ Config.head_dim \in Nat \ {0} /\ Config.rope_dim \in Nat \ {0} /\ Config.dn_v_heads \in Nat \ {0}
  /\ Config.dn_qk_heads \in Nat \ {0} /\ Config.dn_head_dim \in Nat \ {0} /\ Config.conv_k \in Nat \ {0}
  /\ Config.n_q_heads % Config.n_kv_heads = 0 /\ Config.dn_v_heads % Config.dn_qk_heads = 0
BY DecodeAssumption DEF ConfigOK

\* So are the products of them.
LEMMA DimensionsAre ==
  /\ q_dim(Config) = Config.n_q_heads * Config.head_dim /\ q_dim(Config) \in Nat \ {0}
  /\ kv_dim(Config) = Config.n_kv_heads * Config.head_dim /\ kv_dim(Config) \in Nat \ {0}
  /\ dn_qk(Config) = Config.dn_qk_heads * Config.dn_head_dim /\ dn_qk(Config) \in Nat \ {0}
  /\ dn_v(Config) = Config.dn_v_heads * Config.dn_head_dim /\ dn_v(Config) \in Nat \ {0}
<1>1. \A a, b \in Nat \ {0} : a * b \in Nat \ {0}
  OBVIOUS
<1>2. q_dim(Config) \in Nat \ {0}
  BY <1>1, ConfigIs DEF q_dim
<1>3. kv_dim(Config) \in Nat \ {0}
  BY <1>1, ConfigIs DEF kv_dim
<1>4. dn_qk(Config) \in Nat \ {0}
  BY <1>1, ConfigIs DEF dn_qk
<1>5. dn_v(Config) \in Nat \ {0}
  BY <1>1, ConfigIs DEF dn_v
<1> QED BY <1>2, <1>3, <1>4, <1>5 DEF q_dim, kv_dim, dn_qk, dn_v

\* Heads that share one: m groups of n \div m
LEMMA GroupOf ==
  ASSUME NEW n \in Nat \ {0}, NEW m \in Nat \ {0}, n % m = 0, NEW h \in 1 .. n
  PROVE  (h - 1) \div (n \div m) \in 0 .. m - 1
<1> DEFINE g == n \div m
<1>1. g \in Nat /\ n = m * g
  OBVIOUS
<1> HIDE DEF g
<1>2. h \in 1 .. m * g
  BY <1>1
<1>3. (h - 1) \div g \in 0 .. m - 1
  BY <1>1, <1>2, RowOf
<1> QED BY <1>3 DEF g

\* Every query head has a key and value head (grouped-query attention).
LEMMA KvHeadType ==
  ASSUME NEW h \in 1 .. Config.n_q_heads
  PROVE  KvHead(h) \in 1 .. Config.n_kv_heads
<1> DEFINE n == Config.n_q_heads   m == Config.n_kv_heads
<1>1. n \in Nat \ {0} /\ m \in Nat \ {0} /\ n % m = 0
  BY ConfigIs
<1> HIDE DEF n, m
<1>2. (h - 1) \div (n \div m) \in 0 .. m - 1
  BY <1>1, GroupOf DEF n
<1>3. (h - 1) \div (n \div m) + 1 \in 1 .. m
  BY <1>1, <1>2
<1> QED BY <1>3 DEF KvHead, n, m

\* A projection of a residual stream has as many columns as its weight.
LEMMA ProjectType ==
  ASSUME NEW x \in Numbers(Config.d_model), NEW name, NEW li, NEW n \in Nat,
         HasShape(name, li, Config.d_model, n)
  PROVE  Project(x, name, li, n) \in Numbers(n)
BY ConfigIs, MatrixType, LinearType DEF Project

\* reshape(n_heads, head_dim): head h is the slice at (h - 1) * hd.
LEMMA HeadsAre ==
  ASSUME NEW n \in Nat, NEW hd \in Nat, NEW v \in Numbers(n * hd)
  PROVE  Heads(v, n, hd) = [h \in 1 .. n |-> Slice(v, (h - 1) * hd, hd)] /\ Heads(v, n, hd) \in [1 .. n -> Numbers(hd)]
<1>1. Heads(v, n, hd) = [h \in 1 .. n |-> Slice(v, (h - 1) * hd, hd)]
  BY DEF Heads, Vec, Eager
<1>2. ASSUME NEW h \in 1 .. n PROVE Slice(v, (h - 1) * hd, hd) \in Numbers(hd)
  <2>1. h - 1 \in 0 .. n - 1
    OBVIOUS
  <2>2. (h - 1) * hd \in Nat /\ (h - 1) * hd + hd <= n * hd
    <3>1. CASE hd = 0
      BY <3>1
    <3>2. CASE hd # 0
      BY <2>1, <3>2, InRow, hd \in 1 .. hd
    <3> QED BY <3>1, <3>2
  <2>3. n * hd \in Nat
    OBVIOUS
  <2> DEFINE f == (h - 1) * hd   m == n * hd
  <2> HIDE DEF f, m
  <2>4. v \in Numbers(m) /\ m \in Nat /\ f \in Nat /\ f + hd <= m
    BY <2>2, <2>3 DEF f, m
  <2>5. Slice(v, f, hd) \in Numbers(hd)
    BY <2>4, SliceIs
  <2> QED BY <2>5 DEF f
<1> QED BY <1>1, <1>2

\* The heads of a key or query, each rotated at the token's position.
LEMMA RopeHeadsAre ==
  ASSUME NEW n \in Nat, NEW v \in Numbers(n * Config.head_dim), NEW t \in Nat, t - 1 \in Positions
  PROVE  /\ RopeHeads(v, n, t) = [h \in 1 .. n |-> apply_rope(Config, Heads(v, n, Config.head_dim)[h], t - 1)]
         /\ RopeHeads(v, n, t) \in [1 .. n -> Numbers(Config.head_dim)]
<1> DEFINE hs == Heads(v, n, Config.head_dim)
<1>1. hs \in [1 .. n -> Numbers(Config.head_dim)]
  BY ConfigIs, HeadsAre
<1>2. RopeHeads(v, n, t) = Map1(LAMBDA h : apply_rope(Config, h, t - 1), hs)
  BY DEF RopeHeads
<1> HIDE DEF hs
<1>3. Map1(LAMBDA h : apply_rope(Config, h, t - 1), hs) = [h \in 1 .. n |-> apply_rope(Config, hs[h], t - 1)]
  BY <1>1 DEF Map1, Vec, Eager
<1>4. ASSUME NEW h \in 1 .. n PROVE apply_rope(Config, hs[h], t - 1) \in Numbers(Config.head_dim)
  BY <1>1, RopeType
<1> QED BY <1>2, <1>3, <1>4 DEF hs

-----------------------------------------------------------------------------
(* Attention                                                                *)

\* The keys, or the values, of one position
KvHeads == [1 .. Config.n_kv_heads -> Numbers(Config.head_dim)]
\* The first t entries of keys or values are there.
Filled(kv, t) == \A s \in 1 .. t : kv[s] \in KvHeads
SameUpTo(f, g, t) == \A s \in 1 .. t : f[s] = g[s]

Scores(q, h, ks, t) == [s \in 1 .. t |-> Dot(ks[s][KvHead(h)], Scaled(InvSqrt(Config.head_dim), q))]
Weighted(p, h, vs, t, d) == [s \in 1 .. t |-> Mul(p[s], vs[s][KvHead(h)][d])]
\* The context of a head, element by element.
LEMMA ContextIs ==
  ASSUME NEW q, NEW h, NEW ks, NEW vs, NEW t \in Nat
  PROVE  Context(q, h, ks, vs, t)
           = [d \in 1 .. Config.head_dim |-> Total(Weighted(softmax(Scores(q, h, ks, t)), h, vs, t, d), t)]
<1> DEFINE f == [s \in 1 .. t |-> Dot(ks[s][KvHead(h)], Scaled(InvSqrt(Config.head_dim), q))]
           p == softmax(Eager(f))
           g == [d \in 1 .. Config.head_dim |-> Total([s \in 1 .. t |-> Mul(p[s], vs[s][KvHead(h)][d])], t)]
<1>1. Context(q, h, ks, vs, t) = Eager(g)
  BY DEF Context, Vec
<1>2. Eager(f) = f
  BY DEF Eager
<1> HIDE DEF f, p
<1>3. Eager(g) = g
  BY ConfigIs DEF Eager
<1>4. p = softmax(Scores(q, h, ks, t))
  BY <1>2 DEF p, f, Scores
<1> QED BY <1>1, <1>3, <1>4 DEF Weighted

\* It has the length of a head.
LEMMA ContextType ==
  ASSUME NEW q \in Numbers(Config.head_dim), NEW h \in 1 .. Config.n_q_heads, NEW t \in Nat \ {0},
         NEW ks, NEW vs, Filled(ks, t), Filled(vs, t)
  PROVE  Context(q, h, ks, vs, t) \in Numbers(Config.head_dim)
<1> DEFINE hd == Config.head_dim
           p == softmax(Scores(q, h, ks, t))
<1>1. Scaled(InvSqrt(hd), q) \in Numbers(hd)
  BY ConfigIs, DecodeAssumption, ScaledIs DEF NumbersOK
<1>2. ASSUME NEW s \in 1 .. t PROVE Dot(ks[s][KvHead(h)], Scaled(InvSqrt(hd), q)) \in Num
  <2>1. ks[s][KvHead(h)] \in Numbers(hd)
    BY KvHeadType DEF Filled, KvHeads
  <2> QED BY <1>1, <2>1, ConfigIs, DotType
<1>3. Scores(q, h, ks, t) \in Numbers(t)
  BY <1>2 DEF Scores, Numbers
<1>4. p \in Numbers(t)
  BY <1>3, SoftmaxType
<1> HIDE DEF p
<1>5. ASSUME NEW d \in 1 .. hd PROVE Total(Weighted(p, h, vs, t, d), t) \in Num
  <2>1. ASSUME NEW s \in 1 .. t PROVE Mul(p[s], vs[s][KvHead(h)][d]) \in Num
    <3>1. vs[s][KvHead(h)] \in Numbers(hd)
      BY KvHeadType DEF Filled, KvHeads
    <3> QED BY <1>4, <3>1, MulIs DEF Numbers
  <2>2. Weighted(p, h, vs, t, d) \in [1 .. t -> Num]
    BY <2>1 DEF Weighted
  <2> QED BY <2>2, TotalType
<1>6. Context(q, h, ks, vs, t) = [d \in 1 .. hd |-> Total(Weighted(p, h, vs, t, d), t)]
  BY ContextIs DEF p
<1> QED BY <1>5, <1>6 DEF Numbers

\* It depends on the keys and values of the first t positions only: causality.
LEMMA ContextSame ==
  ASSUME NEW q, NEW h, NEW t \in Nat, NEW ks, NEW vs, NEW ks2, NEW vs2, SameUpTo(ks, ks2, t), SameUpTo(vs, vs2, t)
  PROVE  Context(q, h, ks, vs, t) = Context(q, h, ks2, vs2, t)
<1>1. Scores(q, h, ks, t) = Scores(q, h, ks2, t)
  BY DEF Scores, SameUpTo
<1>2. \A p, d : Weighted(p, h, vs, t, d) = Weighted(p, h, vs2, t, d)
  BY DEF Weighted, SameUpTo
<1> DEFINE p == softmax(Scores(q, h, ks, t))
<1>3. Context(q, h, ks, vs, t) = [d \in 1 .. Config.head_dim |-> Total(Weighted(p, h, vs, t, d), t)]
  BY ContextIs
<1>4. Context(q, h, ks2, vs2, t) = [d \in 1 .. Config.head_dim |-> Total(Weighted(p, h, vs2, t, d), t)]
  BY <1>1, ContextIs
<1> HIDE DEF p
<1> QED BY <1>2, <1>3, <1>4

\* AttentionMix on the contexts of its heads
Outputs(x, li, o) ==
  Linear(Hadamard(o, Map1(Sigmoid, Project(x, "wgate", li, q_dim(Config)))),
         Matrix("wo", li, q_dim(Config), Config.d_model), Config.d_model)
\* The rotated query heads of a token, and the contexts they find
Queries(x, li, t) == RopeHeads(Project(x, "wq", li, q_dim(Config)), Config.n_q_heads, t)
Contexts(x, li, ks, vs, t) == [h \in 1 .. Config.n_q_heads |-> Context(Queries(x, li, t)[h], h, ks, vs, t)]

\* The output of attention from the contexts of its heads.
LEMMA AttentionMixIs ==
  ASSUME NEW x, NEW li, NEW ks, NEW vs, NEW t
  PROVE  AttentionMix(x, li, ks, vs, t) = Outputs(x, li, Concat(Contexts(x, li, ks, vs, t)))
<1> DEFINE f == [h \in 1 .. Config.n_q_heads |-> Context(Queries(x, li, t)[h], h, ks, vs, t)]
<1>1. AttentionMix(x, li, ks, vs, t) = Outputs(x, li, Concat(Eager(f)))
  BY DEF AttentionMix, Outputs, Queries, Vec
<1>2. Eager(f) = f
  BY ConfigIs DEF Eager
<1> QED BY <1>1, <1>2 DEF Contexts

\* The output of attention at position t depends on the first t keys and values only.
LEMMA AttentionMixSame ==
  ASSUME NEW x, NEW li, NEW t \in Nat, NEW ks, NEW vs, NEW ks2, NEW vs2,
         SameUpTo(ks, ks2, t), SameUpTo(vs, vs2, t)
  PROVE  AttentionMix(x, li, ks, vs, t) = AttentionMix(x, li, ks2, vs2, t)
<1>1. \A q, h : Context(q, h, ks, vs, t) = Context(q, h, ks2, vs2, t)
  BY ContextSame
<1>2. Contexts(x, li, ks, vs, t) = Contexts(x, li, ks2, vs2, t)
  BY <1>1 DEF Contexts
<1> QED BY <1>2, AttentionMixIs

\* The shapes of an attention layer
LEMMA AttentionShapes ==
  ASSUME NEW li \in Layers, is_attention_layer(Config, li)
  PROVE  /\ HasShape("wq", li, Config.d_model, q_dim(Config)) /\ HasShape("wk", li, Config.d_model, kv_dim(Config))
         /\ HasShape("wv", li, Config.d_model, kv_dim(Config)) /\ HasShape("wgate", li, Config.d_model, q_dim(Config))
         /\ HasShape("wo", li, q_dim(Config), Config.d_model)
BY DecodeAssumption DEF WeightsOK

\* The query has n_q_heads heads.
LEMMA QueriesType ==
  ASSUME NEW li \in Layers, is_attention_layer(Config, li), NEW x \in Numbers(Config.d_model),
         NEW t \in Nat, t - 1 \in Positions
  PROVE  Queries(x, li, t) \in [1 .. Config.n_q_heads -> Numbers(Config.head_dim)]
<1>1. Project(x, "wq", li, q_dim(Config)) \in Numbers(Config.n_q_heads * Config.head_dim)
  BY AttentionShapes, ProjectType, DimensionsAre
<1> QED BY <1>1, RopeHeadsAre, ConfigIs DEF Queries

\* Attention keeps the width of the residual stream.
LEMMA AttentionMixType ==
  ASSUME NEW li \in Layers, is_attention_layer(Config, li), NEW x \in Numbers(Config.d_model),
         NEW t \in Nat \ {0}, t - 1 \in Positions, NEW ks, NEW vs, Filled(ks, t), Filled(vs, t)
  PROVE  AttentionMix(x, li, ks, vs, t) \in Numbers(Config.d_model)
<1> DEFINE o == Concat(Contexts(x, li, ks, vs, t))
           g == Map1(Sigmoid, Project(x, "wgate", li, q_dim(Config)))
<1>1. \A h \in 1 .. Config.n_q_heads : Queries(x, li, t)[h] \in Numbers(Config.head_dim)
  BY QueriesType
<1>2. \A h \in 1 .. Config.n_q_heads : Context(Queries(x, li, t)[h], h, ks, vs, t) \in Numbers(Config.head_dim)
  BY <1>1, ContextType
<1>3. Contexts(x, li, ks, vs, t) \in [1 .. Config.n_q_heads -> Numbers(Config.head_dim)]
  BY <1>2 DEF Contexts
<1>4. o \in Numbers(q_dim(Config))
  BY <1>3, ConcatType, ConfigIs, DimensionsAre
<1>5. g \in Numbers(q_dim(Config))
  BY AttentionShapes, ProjectType, DimensionsAre, GatesAre
<1> HIDE DEF o, g
<1>6. Hadamard(o, g) \in Numbers(q_dim(Config))
  BY <1>4, <1>5, HadamardIs, DimensionsAre
<1>7. Matrix("wo", li, q_dim(Config), Config.d_model) \in Numbers(q_dim(Config) * Config.d_model)
  BY AttentionShapes, MatrixType, DimensionsAre, ConfigIs
<1>8. Linear(Hadamard(o, g), Matrix("wo", li, q_dim(Config), Config.d_model), Config.d_model) \in Numbers(Config.d_model)
  BY <1>6, <1>7, LinearType, DimensionsAre, ConfigIs
<1> QED BY <1>8, AttentionMixIs DEF Outputs, o, g

\* What a layer of the cache gets, and the layer's own result
KeyAt(x, li, t) == RopeHeads(Project(x, "wk", li, kv_dim(Config)), Config.n_kv_heads, t)
ValueAt(x, li)  == Heads(Project(x, "wv", li, kv_dim(Config)), Config.n_kv_heads, Config.head_dim)

WithRow(buffer, t, x) == [buffer EXCEPT ![t] = x]
Stored(c, li, ks, vs) == [c EXCEPT !.k[li] = ks, !.v[li] = vs]

\* attention_layer stores the rotated key and the value at its position, and
\* returns the mix on the buffers with them.
LEMMA AttentionLayerIs ==
  ASSUME NEW li \in Layers, is_attention_layer(Config, li), NEW x \in Numbers(Config.d_model), NEW c,
         c.pos \in Nat, c.pos \in Positions, NEW t, t = c.pos + 1,
         NEW ks, ks = WithRow(c.k[li], t, KeyAt(x, li, t)), NEW vs, vs = WithRow(c.v[li], t, ValueAt(x, li))
  PROVE  attention_layer(Config, x, c, li) = [out |-> AttentionMix(x, li, ks, vs, t), cache |-> Stored(c, li, ks, vs)]
<1> DEFINE hd == Config.head_dim
           at1 == c.pos + 1
           kh == Map1(LAMBDA h : apply_rope(Config, h, c.pos), Heads(Project(x, "wk", li, kv_dim(Config)), Config.n_kv_heads, hd))
           ks1 == [c.k[li] EXCEPT ![at1] = kh]
           vs1 == [c.v[li] EXCEPT ![at1] = ValueAt(x, li)]
           hs == Heads(Project(x, "wq", li, q_dim(Config)), Config.n_q_heads, hd)
           qh == Map1(LAMBDA h : Scaled(InvSqrt(hd), apply_rope(Config, h, c.pos)), hs)
           kv(h) == (h - 1) \div (Config.n_q_heads \div Config.n_kv_heads) + 1
           score(h) == Eager([s \in 1 .. at1 |-> Dot(ks1[s][kv(h)], qh[h])])
           context(h) == Eager([d \in 1 .. hd |-> Total([s \in 1 .. at1 |-> Mul(softmax(score(h))[s], vs1[s][kv(h)][d])], at1)])
           F == Eager([h \in 1 .. Config.n_q_heads |-> context(h)])
<1>1. attention_layer(Config, x, c, li) = [out |-> Outputs(x, li, Concat(F)), cache |-> [c EXCEPT !.k[li] = ks1, !.v[li] = vs1]]
  BY DEF attention_layer, Outputs, Vec, Project, ValueAt
<1>2. at1 \in Nat /\ at1 - 1 = c.pos
  OBVIOUS
<1> HIDE DEF at1
<1>3. kh = KeyAt(x, li, at1)
  <2> DEFINE p == Project(x, "wk", li, kv_dim(Config))
             ws == Heads(p, Config.n_kv_heads, hd)
  <2>1. p \in Numbers(Config.n_kv_heads * hd)
    BY AttentionShapes, ProjectType, DimensionsAre
  <2> HIDE DEF p
  <2>2. ws \in [1 .. Config.n_kv_heads -> Numbers(hd)]
    BY <2>1, HeadsAre, ConfigIs
  <2>3. at1 - 1 \in Positions
    BY <1>2
  <2>4. RopeHeads(p, Config.n_kv_heads, at1) = [h \in 1 .. Config.n_kv_heads |-> apply_rope(Config, ws[h], at1 - 1)]
    <3>1. Config.n_kv_heads \in Nat
      BY ConfigIs
    <3> QED BY <1>2, <2>1, <2>3, <3>1, RopeHeadsAre
  <2>5. kh = Map1(LAMBDA h : apply_rope(Config, h, c.pos), ws)
    BY DEF p
  <2> HIDE DEF ws, hd, kh, at1
  <2>6. kh = [h \in 1 .. Config.n_kv_heads |-> apply_rope(Config, ws[h], c.pos)]
    BY <2>2, <2>5, ConfigIs DEF Map1, Vec, Eager
  <2>7. kh = RopeHeads(p, Config.n_kv_heads, at1)
    BY <1>2, <2>4, <2>6
  <2> QED BY <2>7 DEF KeyAt, p
<1>4. hs \in [1 .. Config.n_q_heads -> Numbers(hd)]
  <2>1. Project(x, "wq", li, q_dim(Config)) \in Numbers(Config.n_q_heads * hd)
    BY AttentionShapes, ProjectType, DimensionsAre
  <2> QED BY <2>1, HeadsAre, ConfigIs
<1>5. Queries(x, li, at1) = [h \in 1 .. Config.n_q_heads |-> apply_rope(Config, hs[h], at1 - 1)]
  <2>1. Project(x, "wq", li, q_dim(Config)) \in Numbers(Config.n_q_heads * hd)
    BY AttentionShapes, ProjectType, DimensionsAre
  <2>2. at1 - 1 \in Positions
    BY <1>2
  <2> DEFINE p == Project(x, "wq", li, q_dim(Config))
  <2> HIDE DEF p
  <2>3. RopeHeads(p, Config.n_q_heads, at1)
          = [h \in 1 .. Config.n_q_heads |-> apply_rope(Config, Heads(p, Config.n_q_heads, hd)[h], at1 - 1)]
    <3>1. Config.n_q_heads \in Nat /\ p \in Numbers(Config.n_q_heads * hd)
      BY <2>1, ConfigIs DEF p
    <3> QED BY <1>2, <2>2, <3>1, RopeHeadsAre
  <2> QED BY <2>3 DEF Queries, p
<1>6. qh = [h \in 1 .. Config.n_q_heads |-> Scaled(InvSqrt(hd), apply_rope(Config, hs[h], c.pos))]
  <2> HIDE DEF hs, hd
  <2> QED BY <1>4, ConfigIs DEF Map1, Vec, Eager
<1> HIDE DEF hs, qh
<1>7. \A h \in 1 .. Config.n_q_heads : qh[h] = Scaled(InvSqrt(hd), Queries(x, li, at1)[h])
  BY <1>2, <1>5, <1>6
<1> HIDE DEF kh, ks1, vs1, at1
<1>8. ASSUME NEW h \in 1 .. Config.n_q_heads
      PROVE  context(h) = Context(Queries(x, li, at1)[h], h, ks1, vs1, at1)
  <2> DEFINE q == Queries(x, li, at1)[h]
             f == [s \in 1 .. at1 |-> Dot(ks1[s][kv(h)], qh[h])]
             g == [d \in 1 .. hd |-> Total([s \in 1 .. at1 |-> Mul(softmax(score(h))[s], vs1[s][kv(h)][d])], at1)]
  <2>1. kv(h) = KvHead(h)
    BY DEF KvHead
  <2>2. score(h) = f
    BY <1>2 DEF Eager
  <2>3. f = Scores(q, h, ks1, at1)
    BY <1>7, <2>1 DEF Scores
  <2> HIDE DEF f, score, kv, q
  <2>4. g = [d \in 1 .. hd |-> Total(Weighted(softmax(Scores(q, h, ks1, at1)), h, vs1, at1, d), at1)]
    BY <2>1, <2>2, <2>3 DEF Weighted
  <2>5. Context(q, h, ks1, vs1, at1) = [d \in 1 .. hd |-> Total(Weighted(softmax(Scores(q, h, ks1, at1)), h, vs1, at1, d), at1)]
    BY <1>2, ContextIs
  <2>6. context(h) = g
    BY ConfigIs DEF Eager
  <2> QED BY <2>4, <2>5, <2>6 DEF q
<1> HIDE DEF context
<1>9. F = [h \in 1 .. Config.n_q_heads |-> context(h)]
  BY ConfigIs DEF Eager
<1> HIDE DEF F
<1>10. F = Contexts(x, li, ks1, vs1, at1)
  BY <1>8, <1>9 DEF Contexts
<1>11. Outputs(x, li, Concat(F)) = AttentionMix(x, li, ks1, vs1, at1)
  BY <1>10, AttentionMixIs
<1>12. attention_layer(Config, x, c, li)
         = [out |-> AttentionMix(x, li, ks1, vs1, at1), cache |-> [c EXCEPT !.k[li] = ks1, !.v[li] = vs1]]
  BY <1>1, <1>11
<1>13. ks1 = ks /\ vs1 = vs /\ at1 = t
  BY <1>3 DEF ks1, vs1, at1, WithRow
<1> QED BY <1>12, <1>13 DEF Stored

-----------------------------------------------------------------------------
(* DeltaNet: the inputs of one token                                        *)

\* The channels of the convolution: query, key and value
Channels == 2 * dn_qk(Config) + dn_v(Config)
\* The convolution has a channel for every element of query, key and value.
LEMMA ChannelsAre ==
  /\ Channels \in Nat \ {0} /\ (dn_qk(Config) + dn_qk(Config)) + dn_v(Config) = Channels
  /\ dn_qk(Config) + dn_qk(Config) \in Nat
BY DimensionsAre DEF Channels

\* The weights of a DeltaNet layer.
LEMMA DeltaShapes ==
  ASSUME NEW li \in Layers, ~is_attention_layer(Config, li)
  PROVE  /\ HasShape("wq", li, Config.d_model, dn_qk(Config)) /\ HasShape("wk", li, Config.d_model, dn_qk(Config))
         /\ HasShape("wv", li, Config.d_model, dn_v(Config)) /\ HasShape("wgate", li, Config.d_model, dn_v(Config))
         /\ HasShape("wo", li, dn_v(Config), Config.d_model)
         /\ HasShape("walpha", li, Config.d_model, Config.dn_v_heads)
         /\ HasShape("wbeta", li, Config.d_model, Config.dn_v_heads)
         /\ HasShape("conv", li, Config.conv_k, Channels)
BY DecodeAssumption DEF WeightsOK, Channels

\* The input of the convolution has a number for every channel.
LEMMA InputsType ==
  ASSUME NEW li \in Layers, ~is_attention_layer(Config, li), NEW x \in Numbers(Config.d_model)
  PROVE  Inputs(x, li) \in Numbers(Channels)
<1> DEFINE a == Project(x, "wq", li, dn_qk(Config))
           b == Project(x, "wk", li, dn_qk(Config))
           c == Project(x, "wv", li, dn_v(Config))
<1>1. a \in Numbers(dn_qk(Config)) /\ b \in Numbers(dn_qk(Config)) /\ c \in Numbers(dn_v(Config))
  BY DeltaShapes, ProjectType, DimensionsAre
<1> HIDE DEF a, b, c
<1>2. a \o b \in Numbers(dn_qk(Config) + dn_qk(Config))
  BY <1>1, JoinType, DimensionsAre
<1>3. (a \o b) \o c \in Numbers((dn_qk(Config) + dn_qk(Config)) + dn_v(Config))
  BY <1>1, <1>2, JoinType, DimensionsAre, ChannelsAre
<1>4. Inputs(x, li) = (a \o b) \o c
  BY DEF Inputs, a, b, c
<1> QED BY <1>3, <1>4, ChannelsAre

\* The convolution of the last inputs, newest first
Hist(cats, t) == [j \in 1 .. Window(t) |-> cats[t - j + 1]]
\* What the convolution sums up for a channel
ConvTerms(hist, li, c) == [j \in 1 .. Len(hist) |-> Mul(Weight("conv", li, j - 1, c - 1), hist[j][c])]

\* The convolution sees at most conv_k inputs, and at least one.
LEMMA WindowIs ==
  ASSUME NEW t \in Nat
  PROVE  /\ Window(t) \in Nat /\ Window(t) <= t /\ Window(t) <= Config.conv_k
         /\ t # 0 => Window(t) # 0
BY ConfigIs DEF Window

\* The convolution over the inputs there are, channel by channel.
LEMMA ConvolvedIs ==
  ASSUME NEW li \in Layers, ~is_attention_layer(Config, li), NEW n \in Nat \ {0}, n <= Config.conv_k,
         NEW hist \in [1 .. n -> Numbers(Channels)]
  PROVE  /\ convolved(hist, li) = [c \in 1 .. Channels |-> Silu(Total(ConvTerms(hist, li, c), n))]
         /\ convolved(hist, li) \in Numbers(Channels)
<1> DEFINE f == [c \in 1 .. Channels |-> Silu(Total(ConvTerms(hist, li, c), n))]
<1>1. Len(hist) = n /\ Len(hist[1]) = Channels
  <2>1. hist[1] \in Numbers(Channels)
    OBVIOUS
  <2> QED BY <2>1, ChannelsAre DEF Numbers
<1>2. convolved(hist, li) = Eager(f)
  BY <1>1 DEF convolved, Vec, ConvTerms
<1>3. ASSUME NEW c \in 1 .. Channels PROVE Silu(Total(ConvTerms(hist, li, c), n)) \in Num
  <2>1. ASSUME NEW j \in 1 .. n PROVE Mul(Weight("conv", li, j - 1, c - 1), hist[j][c]) \in Num
    <3>1. j - 1 \in 0 .. Config.conv_k - 1 /\ c - 1 \in 0 .. Channels - 1
      BY ConfigIs, ChannelsAre
    <3>2. Weight("conv", li, j - 1, c - 1) \in Num
      BY <3>1, DeltaShapes DEF HasShape
    <3>3. hist[j][c] \in Num
      BY DEF Numbers
    <3> QED BY <3>2, <3>3, MulIs
  <2>2. ConvTerms(hist, li, c) \in [1 .. n -> Num]
    BY <1>1, <2>1 DEF ConvTerms
  <2> QED BY <2>2, TotalType, SpecialType
<1>4. f \in Numbers(Channels)
  BY <1>3 DEF Numbers
<1> HIDE DEF f
<1>5. Eager(f) = f
  BY <1>4, ChannelsAre DEF Eager, Numbers
<1> QED BY <1>2, <1>4, <1>5 DEF f

\* The uncached convolution is the one of the history.
LEMMA ActivatedIs ==
  ASSUME NEW li \in Layers, ~is_attention_layer(Config, li), NEW t \in Nat \ {0},
         NEW cats, \A s \in 1 .. t : cats[s] \in Numbers(Channels)
  PROVE  /\ Hist(cats, t) \in [1 .. Window(t) -> Numbers(Channels)]
         /\ Activated(cats, li, t) = convolved(Hist(cats, t), li)
         /\ Activated(cats, li, t) \in Numbers(Channels)
<1> DEFINE n == Window(t)   h == Hist(cats, t)
<1>1. n \in Nat \ {0} /\ n <= t /\ n <= Config.conv_k
  BY WindowIs
<1>2. h \in [1 .. n -> Numbers(Channels)]
  <2>1. \A j \in 1 .. n : t - j + 1 \in 1 .. t
    BY <1>1
  <2> HIDE DEF n
  <2> QED BY <2>1 DEF Hist, n
<1>3. Len(cats[t]) = Channels
  BY ChannelsAre DEF Numbers
<1> DEFINE f == [c \in 1 .. Channels |->
                   Silu(Total([j \in 1 .. n |-> Mul(Weight("conv", li, j - 1, c - 1), cats[t - j + 1][c])], n))]
<1>4. Activated(cats, li, t) = Eager(f)
  BY <1>3 DEF Activated, Vec
<1>5. convolved(h, li) = [c \in 1 .. Channels |-> Silu(Total(ConvTerms(h, li, c), n))] /\ convolved(h, li) \in Numbers(Channels)
  <2> HIDE DEF n, h
  <2> QED BY <1>1, <1>2, ConvolvedIs
<1>6. ASSUME NEW c \in 1 .. Channels
      PROVE  ConvTerms(h, li, c) = [j \in 1 .. n |-> Mul(Weight("conv", li, j - 1, c - 1), cats[t - j + 1][c])]
  <2>1. Len(h) = n
    BY <1>1, <1>2
  <2>2. \A j \in 1 .. n : h[j] = cats[t - j + 1]
    BY DEF Hist
  <2> HIDE DEF h, n
  <2> QED BY <2>1, <2>2 DEF ConvTerms
<1> HIDE DEF n, h
<1>7. f = convolved(h, li)
  BY <1>5, <1>6
<1> HIDE DEF f
<1>8. Eager(f) = f
  BY <1>5, <1>7, ChannelsAre DEF Eager, Numbers
<1> QED BY <1>2, <1>4, <1>5, <1>7, <1>8 DEF h, n

\* hist.insert(0, cat); del hist[conv_k:] is the history of one more input.
LEMMA RecentIs ==
  ASSUME NEW t \in Nat, NEW cats
  PROVE  Recent(cats[t + 1], Hist(cats, t), Config.conv_k) = Hist(cats, t + 1)
<1> DEFINE m == Window(t)   n == Window(t + 1)
           old == Hist(cats, t)
           all == <<cats[t + 1]>> \o old
<1>1. Config.conv_k \in Nat \ {0}
  BY ConfigIs
<1>2. m \in Nat /\ n \in Nat /\ n <= m + 1 /\ n = (IF m + 1 > Config.conv_k THEN Config.conv_k ELSE m + 1)
  BY <1>1 DEF Window
<1> DEFINE T == {cats[s] : s \in 1 .. t + 1}
<1>3. old \in Seq(T) /\ Len(old) = m /\ <<cats[t + 1]>> \in Seq(T) /\ Len(<<cats[t + 1]>>) = 1
  <2>1. \A j \in 1 .. m : t - j + 1 \in 1 .. t + 1
    BY WindowIs
  <2>2. old = [j \in 1 .. m |-> cats[t - j + 1]]
    BY DEF Hist
  <2> HIDE DEF m, old
  <2>3. \A j \in 1 .. m : cats[t - j + 1] \in T
    BY <2>1
  <2>4. cats[t + 1] \in T
    OBVIOUS
  <2> HIDE DEF T
  <2>5. old \in Seq(T) /\ Len(old) = m
    BY <1>2, <2>2, <2>3
  <2> QED BY <2>4, <2>5
<1>4. all \in Seq(T) /\ Len(all) = 1 + m
      /\ \A i \in 1 .. 1 + m : all[i] = IF i <= 1 THEN <<cats[t + 1]>>[i] ELSE old[i - 1]
  <2> HIDE DEF T, old, m
  <2> QED BY <1>3, ConcatProperties
<1>5. \A i \in 1 .. n : all[i] = cats[(t + 1) - i + 1]
  <2>1. ASSUME NEW i \in 1 .. n PROVE all[i] = cats[(t + 1) - i + 1]
    <3>1. i \in 1 .. 1 + m
      BY <1>2
    <3>2. CASE i = 1
      <4>1. all[1] = cats[t + 1] /\ (t + 1) - 1 + 1 = t + 1
        BY <1>4, <1>2
      <4> QED BY <3>2, <4>1
    <3>3. CASE i # 1
      <4>1. i - 1 \in 1 .. m /\ ~(i <= 1)
        BY <3>1, <3>3, <1>2
      <4>2. all[i] = old[i - 1]
        BY <1>4, <3>1, <4>1
      <4>3. old[i - 1] = cats[t - (i - 1) + 1]
        BY <4>1 DEF Hist
      <4>4. t - (i - 1) + 1 = (t + 1) - i + 1
        BY <3>1, <1>2
      <4> QED BY <4>2, <4>3, <4>4
    <3> QED BY <3>2, <3>3
  <2> QED BY <2>1
<1>6. Recent(cats[t + 1], old, Config.conv_k) = SubSeq(all, 1, n)
  <2>1. Recent(cats[t + 1], old, Config.conv_k) = SubSeq(all, 1, IF Len(all) > Config.conv_k THEN Config.conv_k ELSE Len(all))
    BY DEF Recent
  <2> HIDE DEF all, m, n
  <2>2. (IF Len(all) > Config.conv_k THEN Config.conv_k ELSE Len(all)) = n
    BY <1>1, <1>2, <1>4
  <2> QED BY <2>1, <2>2
<1> HIDE DEF all, old, m, n, T
<1>7. SubSeq(all, 1, n) = [i \in 1 .. n |-> all[i]]
  BY <1>2, <1>4
<1>8. SubSeq(all, 1, n) = Hist(cats, t + 1)
  BY <1>5, <1>7 DEF Hist, n
<1> QED BY <1>6, <1>8 DEF old

-----------------------------------------------------------------------------
(* DeltaNet: heads                                                          *)

\* The state of a head, a matrix of dn_head_dim x dn_head_dim
State == Numbers(Config.dn_head_dim * Config.dn_head_dim)

\* Heads of values that share a query and key head get a slice inside its part.
LEMMA SharedType ==
  ASSUME NEW act \in Numbers(Channels), NEW from \in {0, dn_qk(Config)}, NEW h \in 1 .. Config.dn_v_heads
  PROVE  Shared(act, from, h) \in Numbers(Config.dn_head_dim)
<1> DEFINE hd == Config.dn_head_dim
           i == (h - 1) \div (Config.dn_v_heads \div Config.dn_qk_heads)
           r == i * hd
<1>1. i \in 0 .. Config.dn_qk_heads - 1
  BY ConfigIs, GroupOf
<1>2. r \in Nat /\ r + hd <= dn_qk(Config)
  <2> DEFINE m == Config.dn_qk_heads
  <2>1. m \in Nat /\ hd \in Nat /\ hd \in 1 .. hd
    BY ConfigIs
  <2>2. dn_qk(Config) = m * hd
    BY DimensionsAre
  <2> HIDE DEF i, hd, m
  <2> QED BY <1>1, <2>1, <2>2, InRow DEF m
<1> HIDE DEF r
<1>3. from + r \in Nat /\ (from + r) + hd <= Channels
  BY <1>2, DimensionsAre, ConfigIs DEF Channels
<1>4. Slice(act, from + r, hd) \in Numbers(hd)
  <2> HIDE DEF hd
  <2>1. hd \in Nat
    BY ConfigIs DEF hd
  <2> QED BY <1>3, <2>1, ChannelsAre, SliceIs
<1> QED BY <1>4 DEF Shared, r

\* Query, key and value of a head have its length.
LEMMA PartsType ==
  ASSUME NEW act \in Numbers(Channels), NEW h \in 1 .. Config.dn_v_heads
  PROVE  /\ QueryOf(act, h) \in Numbers(Config.dn_head_dim)
         /\ KeyOf(act, h) \in Numbers(Config.dn_head_dim)
         /\ ValueOf(act, h) \in Numbers(Config.dn_head_dim)
<1>1. QueryOf(act, h) \in Numbers(Config.dn_head_dim)
  BY SharedType, UnitType, ConfigIs DEF QueryOf
<1>2. KeyOf(act, h) \in Numbers(Config.dn_head_dim)
  BY SharedType, UnitType, ConfigIs DEF KeyOf
<1> DEFINE hd == Config.dn_head_dim   m == Config.dn_v_heads
           r == (h - 1) * hd
<1>3. r \in Nat /\ r + hd <= dn_v(Config)
  <2>1. m \in Nat /\ hd \in Nat /\ hd \in 1 .. hd /\ h - 1 \in 0 .. m - 1
    BY ConfigIs
  <2>2. dn_v(Config) = m * hd
    BY DimensionsAre
  <2> HIDE DEF hd, m
  <2> QED BY <2>1, <2>2, InRow
<1> HIDE DEF r
<1>4. 2 * dn_qk(Config) + r \in Nat /\ (2 * dn_qk(Config) + r) + hd <= Channels
  BY <1>3, DimensionsAre, ConfigIs DEF Channels
<1>5. Slice(act, 2 * dn_qk(Config) + r, hd) \in Numbers(hd)
  <2> HIDE DEF hd
  <2>1. hd \in Nat
    BY ConfigIs DEF hd
  <2> QED BY <1>4, <2>1, ChannelsAre, SliceIs
<1> QED BY <1>1, <1>2, <1>5 DEF ValueOf, r

\* alpha and beta of a head are numbers.
LEMMA RateType ==
  ASSUME NEW li \in Layers, ~is_attention_layer(Config, li), NEW x \in Numbers(Config.d_model),
         NEW name \in {"walpha", "wbeta"}, NEW h \in 1 .. Config.dn_v_heads
  PROVE  Rate(x, name, li, h) \in Num
<1>1. HasShape(name, li, Config.d_model, Config.dn_v_heads)
  BY DeltaShapes
<1>2. Project(x, name, li, Config.dn_v_heads) \in Numbers(Config.dn_v_heads)
  BY <1>1, ProjectType, ConfigIs
<1>3. Project(x, name, li, Config.dn_v_heads)[h] \in Num
  BY <1>2 DEF Numbers
<1> QED BY <1>3, SpecialType DEF Rate

\* The state without caches is the one delta_rule returns, and its output the product
\* of that state with the query.
LEMMA CorrectedIs ==
  ASSUME NEW li \in Layers, ~is_attention_layer(Config, li), NEW x \in Numbers(Config.d_model),
         NEW act \in Numbers(Channels), NEW s \in State, NEW h \in 1 .. Config.dn_v_heads
  PROVE  /\ Corrected(s, act, x, li, h)
              = Rule(s, KeyOf(act, h), ValueOf(act, h), Rate(x, "walpha", li, h), Rate(x, "wbeta", li, h),
                     Config.dn_head_dim)
         /\ delta_rule(s, QueryOf(act, h), KeyOf(act, h), ValueOf(act, h), Rate(x, "walpha", li, h), Rate(x, "wbeta", li, h))
              = [state |-> Corrected(s, act, x, li, h),
                 out |-> Product(Corrected(s, act, x, li, h), QueryOf(act, h), Config.dn_head_dim, 1, Config.dn_head_dim, FALSE)]
         /\ Corrected(s, act, x, li, h) \in State
<1> DEFINE hd == Config.dn_head_dim   q == QueryOf(act, h)   k == KeyOf(act, h)   v == ValueOf(act, h)
           a == Rate(x, "walpha", li, h)   b == Rate(x, "wbeta", li, h)
<1>1. Corrected(s, act, x, li, h) = Rule(s, k, v, a, b, hd)
  BY DEF Corrected, Rule, Error
<1>2. hd \in Nat \ {0} /\ s \in Numbers(hd * hd) /\ q \in Numbers(hd) /\ k \in Numbers(hd) /\ v \in Numbers(hd)
      /\ a \in Num /\ b \in Num
  BY ConfigIs, PartsType, RateType DEF State
<1> HIDE DEF hd, q, k, v, a, b
<1>3. /\ delta_rule(s, q, k, v, a, b)
           = [state |-> Rule(s, k, v, a, b, hd), out |-> Product(Rule(s, k, v, a, b, hd), q, hd, 1, hd, FALSE)]
      /\ Rule(s, k, v, a, b, hd) \in Numbers(hd * hd)
  <2> SUFFICES /\ delta_rule(s, q, k, v, a, b)
                    = [state |-> Rule(s, k, v, a, b, hd), out |-> Product(Rule(s, k, v, a, b, hd), q, hd, 1, hd, FALSE)]
               /\ Rule(s, k, v, a, b, hd) \in Numbers(hd * hd)
    OBVIOUS
  <2>1. hd \in Nat \ {0} 
    BY <1>2
  <2>2. s \in Numbers(hd * hd) 
    BY <1>2
  <2>3. q \in Numbers(hd) 
    BY <1>2
  <2>4. k \in Numbers(hd) 
    BY <1>2
  <2>5. v \in Numbers(hd) 
    BY <1>2
  <2>6. a \in Num 
    BY <1>2
  <2>7. b \in Num 
    BY <1>2
  <2> DEFINE Fits(s_, q_, k_, v_, a_, b_) ==
         /\ delta_rule(s_, q_, k_, v_, a_, b_)
                    = [state |-> Rule(s_, k_, v_, a_, b_, hd), out |-> Product(Rule(s_, k_, v_, a_, b_, hd), q_, hd, 1, hd, FALSE)]
         /\ Rule(s_, k_, v_, a_, b_, hd) \in Numbers(hd * hd)
  <2>8. \A s_ \in Numbers(hd * hd), q_, k_, v_ \in Numbers(hd), a_, b_ \in Num : Fits(s_, q_, k_, v_, a_, b_)
    BY <2>1, DeltaRuleIs
  <2> HIDE DEF Fits
  <2>9. Fits(s, q, k, v, a, b)
    BY <2>1, <2>2, <2>3, <2>4, <2>5, <2>6, <2>7, <2>8
  <2> QED BY <2>9 DEF Fits
<1> QED BY <1>1, <1>3 DEF hd, q, k, v, a, b, State

\* The output of a DeltaNet layer from its heads
DeltaHeads(states, act) ==
  [h \in 1 .. Config.dn_v_heads |->
     Product(states[h], QueryOf(act, h), Config.dn_head_dim, 1, Config.dn_head_dim, FALSE)]
DeltaOutputs(x, li, o) ==
  Linear(Hadamard(o, Map1(Silu, Project(x, "wgate", li, dn_v(Config)))),
         Matrix("wo", li, dn_v(Config), Config.d_model), Config.d_model)

\* The output of DeltaNet from the outputs of its heads.
LEMMA DeltaMixIs ==
  ASSUME NEW x, NEW act, NEW states, NEW li
  PROVE  DeltaMix(x, act, states, li) = DeltaOutputs(x, li, Concat(DeltaHeads(states, act)))
<1> DEFINE f == [h \in 1 .. Config.dn_v_heads |->
                   Product(states[h], QueryOf(act, h), Config.dn_head_dim, 1, Config.dn_head_dim, FALSE)]
<1>1. DeltaMix(x, act, states, li) = DeltaOutputs(x, li, Concat(Eager(f)))
  BY DEF DeltaMix, DeltaOutputs, Vec
<1>2. Eager(f) = f
  BY ConfigIs DEF Eager
<1> QED BY <1>1, <1>2 DEF DeltaHeads

\* DeltaNet keeps the width of the residual stream.
LEMMA DeltaMixType ==
  ASSUME NEW li \in Layers, ~is_attention_layer(Config, li), NEW x \in Numbers(Config.d_model),
         NEW act \in Numbers(Channels), NEW states \in [1 .. Config.dn_v_heads -> State]
  PROVE  DeltaMix(x, act, states, li) \in Numbers(Config.d_model)
<1> DEFINE o == Concat(DeltaHeads(states, act))
           g == Map1(Silu, Project(x, "wgate", li, dn_v(Config)))
           hd == Config.dn_head_dim
<1>1. ASSUME NEW h \in 1 .. Config.dn_v_heads
      PROVE  Product(states[h], QueryOf(act, h), hd, 1, hd, FALSE) \in Numbers(hd)
  <2> DEFINE s == states[h]   q == QueryOf(act, h)
  <2>1. s \in Numbers(hd * hd) /\ q \in Numbers(hd) /\ hd \in Nat \ {0}
    BY PartsType, ConfigIs DEF State
  <2> HIDE DEF s, q, hd
  <2>2. Product(s, q, hd, 1, hd, FALSE) \in Numbers(hd)
    BY <2>1, MatVecIs
  <2> QED BY <2>2 DEF s, q
<1>2. DeltaHeads(states, act) \in [1 .. Config.dn_v_heads -> Numbers(hd)]
  BY <1>1 DEF DeltaHeads
<1>3. o \in Numbers(dn_v(Config))
  BY <1>2, ConcatType, ConfigIs, DimensionsAre
<1>4. g \in Numbers(dn_v(Config))
  BY DeltaShapes, ProjectType, DimensionsAre, GatesAre
<1> HIDE DEF o, g
<1>5. Hadamard(o, g) \in Numbers(dn_v(Config))
  BY <1>3, <1>4, HadamardIs, DimensionsAre
<1>6. Matrix("wo", li, dn_v(Config), Config.d_model) \in Numbers(dn_v(Config) * Config.d_model)
  BY DeltaShapes, MatrixType, DimensionsAre, ConfigIs
<1>7. Linear(Hadamard(o, g), Matrix("wo", li, dn_v(Config), Config.d_model), Config.d_model) \in Numbers(Config.d_model)
  BY <1>5, <1>6, LinearType, DimensionsAre, ConfigIs
<1> QED BY <1>7, DeltaMixIs DEF DeltaOutputs, o, g

-----------------------------------------------------------------------------
(* The DeltaNet layer with its caches                                       *)

\* The states after one token
NextStates(states, act, x, li) == [h \in 1 .. Config.dn_v_heads |-> Corrected(states[h], act, x, li, h)]
\* The table forward_token evaluates once
SiluTable == [z \in 0 .. P - 1 |-> Silu(z)]

\* A step of the recurrence keeps the shapes of the states.
LEMMA NextStatesType ==
  ASSUME NEW li \in Layers, ~is_attention_layer(Config, li), NEW x \in Numbers(Config.d_model),
         NEW act \in Numbers(Channels), NEW states \in [1 .. Config.dn_v_heads -> State]
  PROVE  NextStates(states, act, x, li) \in [1 .. Config.dn_v_heads -> State]
<1>1. \A h \in 1 .. Config.dn_v_heads : Corrected(states[h], act, x, li, h) \in State
  BY CorrectedIs
<1> QED BY <1>1 DEF NextStates

HeadsOf(states, act) ==
  [h \in 1 .. Config.dn_v_heads |-> [state |-> states[h], out |-> DeltaHeads(states, act)[h]]]

\* delta_heads of the reference are the next states and the outputs of all heads.
LEMMA DeltaHeadsAre ==
  ASSUME NEW li \in Layers, ~is_attention_layer(Config, li), NEW x \in Numbers(Config.d_model),
         NEW act \in Numbers(Channels), NEW states \in [1 .. Config.dn_v_heads -> State]
  PROVE  delta_heads(Config, x, act, states, li) = HeadsOf(NextStates(states, act, x, li), act)
<1> DEFINE n == Config.dn_v_heads
           pa == Project(x, "walpha", li, n)   pb == Project(x, "wbeta", li, n)
           alpha == Map1(Sigmoid, pa)   beta == Map1(Sigmoid, pb)
           rule(h) == delta_rule(states[h], QueryOf(act, h), KeyOf(act, h), ValueOf(act, h), alpha[h], beta[h])
           f == [h \in 1 .. n |-> rule(h)]
           next == NextStates(states, act, x, li)
<1>0. n \in Nat \ {0}
  BY ConfigIs
<1>1. delta_heads(Config, x, act, states, li) = Eager(f)
  BY DEF delta_heads, Vec, Project, QueryOf, KeyOf, ValueOf, Shared
<1>2. pa \in Numbers(n) /\ pb \in Numbers(n)
  BY DeltaShapes, ProjectType, ConfigIs
<1>3. \A h \in 1 .. n : alpha[h] = Rate(x, "walpha", li, h) /\ beta[h] = Rate(x, "wbeta", li, h)
  <2> HIDE DEF pa, pb, n
  <2>1. alpha = [i \in 1 .. n |-> Sigmoid(pa[i])] /\ beta = [i \in 1 .. n |-> Sigmoid(pb[i])]
    BY <1>0, <1>2, GatesAre
  <2> HIDE DEF alpha, beta
  <2>2. \A h \in 1 .. n : alpha[h] = Sigmoid(pa[h]) /\ beta[h] = Sigmoid(pb[h])
    BY <2>1
  <2> QED BY <2>2 DEF Rate, pa, pb, n
<1> HIDE DEF alpha, beta
<1>4. ASSUME NEW h \in 1 .. n
      PROVE  rule(h) = [state |-> next[h], out |-> DeltaHeads(next, act)[h]]
  <2>1. rule(h) = delta_rule(states[h], QueryOf(act, h), KeyOf(act, h), ValueOf(act, h),
                             Rate(x, "walpha", li, h), Rate(x, "wbeta", li, h))
    BY <1>3
  <2>2. next[h] = Corrected(states[h], act, x, li, h)
    BY DEF NextStates
  <2>3. DeltaHeads(next, act)[h] = Product(next[h], QueryOf(act, h), Config.dn_head_dim, 1, Config.dn_head_dim, FALSE)
    BY DEF DeltaHeads
  <2>4. states[h] \in State
    OBVIOUS
  <2>5. delta_rule(states[h], QueryOf(act, h), KeyOf(act, h), ValueOf(act, h),
                   Rate(x, "walpha", li, h), Rate(x, "wbeta", li, h))
          = [state |-> Corrected(states[h], act, x, li, h),
             out |-> Product(Corrected(states[h], act, x, li, h), QueryOf(act, h), Config.dn_head_dim, 1, Config.dn_head_dim, FALSE)]
    BY <2>4, CorrectedIs
  <2> HIDE DEF rule, next
  <2> QED BY <2>1, <2>2, <2>3, <2>5
<1> HIDE DEF rule, next
<1>5. Eager(f) = f
  BY <1>0 DEF Eager
<1>6. f = [h \in 1 .. n |-> [state |-> next[h], out |-> DeltaHeads(next, act)[h]]]
  BY <1>4
<1> QED BY <1>1, <1>5, <1>6 DEF next, n, HeadsOf

\* What deltanet_layer assigns
Recorded(c, li, hist, states) == [c EXCEPT !.conv[li] = hist, !.state[li] = states]

\* deltanet_layer records the last conv_k inputs and the next states, and its output
\* is DeltaMix of them.
LEMMA DeltaLayerIs ==
  ASSUME NEW li \in Layers, ~is_attention_layer(Config, li), NEW x \in Numbers(Config.d_model), NEW c,
         NEW hist, hist = Recent(Inputs(x, li), c.conv[li], Config.conv_k),
         NEW act \in Numbers(Channels), act = convolved(hist, li),
         c.state[li] \in [1 .. Config.dn_v_heads -> State],
         NEW next, next = NextStates(c.state[li], act, x, li)
  PROVE  deltanet_layer(Config, x, c, li, SiluTable)
           = [out |-> DeltaMix(x, act, next, li), cache |-> Recorded(c, li, hist, next)]
<1> DEFINE pg == Project(x, "wgate", li, dn_v(Config))
           gate == Map1(LAMBDA z : SiluTable[z], pg)
           heads == delta_heads(Config, x, act, c.state[li], li)
           o == [h \in DOMAIN heads |-> heads[h].out]
           ns == Map1(LAMBDA h : h.state, heads)
           n == Config.dn_v_heads
<1>1. deltanet_layer(Config, x, c, li, SiluTable)
        = [out |-> Linear(Hadamard(Concat(o), gate), Matrix("wo", li, dn_v(Config), Config.d_model), Config.d_model),
           cache |-> Recorded(c, li, hist, ns)]
  BY DEF deltanet_layer, Project, Inputs, Recorded
<1>2. pg \in Numbers(dn_v(Config))
  BY DeltaShapes, ProjectType, DimensionsAre
<1> HIDE DEF pg
<1>3. gate = Map1(Silu, pg)
  <2>1. gate = [i \in 1 .. dn_v(Config) |-> SiluTable[pg[i]]]
    BY <1>2, DimensionsAre DEF Map1, Vec, Eager, Numbers
  <2>2. Map1(Silu, pg) = [i \in 1 .. dn_v(Config) |-> Silu(pg[i])]
    BY <1>2, DimensionsAre, GatesAre
  <2>3. \A i \in 1 .. dn_v(Config) : SiluTable[pg[i]] = Silu(pg[i])
    BY <1>2 DEF Numbers, Num, SiluTable
  <2> HIDE DEF gate
  <2> QED BY <2>1, <2>2, <2>3
<1>4. heads = [h \in 1 .. n |-> [state |-> next[h], out |-> DeltaHeads(next, act)[h]]]
  <2>1. delta_heads(Config, x, act, c.state[li], li) = HeadsOf(NextStates(c.state[li], act, x, li), act)
    BY DeltaHeadsAre
  <2> QED BY <2>1 DEF HeadsOf
<1> HIDE DEF gate, heads
<1>5. o = DeltaHeads(next, act)
  <2>1. o = [h \in 1 .. n |-> DeltaHeads(next, act)[h]]
    BY <1>4
  <2>2. DeltaHeads(next, act) = [h \in 1 .. n |-> DeltaHeads(next, act)[h]]
    BY DEF DeltaHeads
  <2> QED BY <2>1, <2>2
<1>6. ns = next
  <2>0. n \in Nat
    BY ConfigIs
  <2> HIDE DEF n
  <2>1. Len(heads) = n
    BY <1>4, <2>0
  <2>2. ns = Eager([h \in 1 .. n |-> heads[h].state])
    BY <2>1 DEF Map1, Vec
  <2>3. ns = [h \in 1 .. n |-> heads[h].state]
    BY <2>0, <2>2 DEF Eager
  <2>4. next = [h \in 1 .. n |-> next[h]]
    BY DEF NextStates, n
  <2> HIDE DEF ns
  <2>5. \A h \in 1 .. n : heads[h].state = next[h]
    BY <1>4
  <2> QED BY <2>3, <2>4, <2>5
<1> HIDE DEF o, ns
<1>7. Linear(Hadamard(Concat(o), gate), Matrix("wo", li, dn_v(Config), Config.d_model), Config.d_model)
        = DeltaMix(x, act, next, li)
  BY <1>3, <1>5, DeltaMixIs DEF DeltaOutputs, pg
<1> QED BY <1>1, <1>6, <1>7

-----------------------------------------------------------------------------
(* Recursion up to n                                                        *)

\* Induction up to a bound.
LEMMA CountingTo ==
  ASSUME NEW n \in Nat, NEW S, 0 \in S, \A t \in 0 .. n - 1 : t \in S => t + 1 \in S
  PROVE  \A t \in 0 .. n : t \in S
<1> DEFINE T == {t \in Nat : t <= n => t \in S}
<1>1. 0 \in T
  OBVIOUS
<1>2. ASSUME NEW t \in Nat, t \in T PROVE t + 1 \in T
  BY <1>2
<1> HIDE DEF T
<1>3. \A t \in Nat : t \in T
  BY <1>1, <1>2, Counting
<1> QED BY <1>3 DEF T

\* A step for each index, and the recursion it defines
Steps(n, S) == [1 .. n -> [S -> S]]
Unfolds(g, n, S, a, F) == g \in [0 .. n -> S] /\ g[0] = a /\ \A t \in 1 .. n : g[t] = F[t][g[t - 1]]
\* A function defined by its value at 0 and by a step exists.
LEMMA RecursionExists ==
  ASSUME NEW n \in Nat, NEW S, NEW a \in S, NEW F \in Steps(n, S)
  PROVE  \E g : Unfolds(g, n, S, a, F)
<1> DEFINE UpTo(g, m) == g[0] = a /\ \A t \in 1 .. m : g[t] = F[t][g[t - 1]]
           M == {m \in Nat : m <= n => \E g \in [0 .. m -> S] : UpTo(g, m)}
<1>1. 0 \in M
  <2> DEFINE g == [j \in 0 .. 0 |-> a]
  <2>1. g \in [0 .. 0 -> S] /\ UpTo(g, 0)
    OBVIOUS
  <2> HIDE DEF g, UpTo
  <2> QED BY <2>1
<1>2. ASSUME NEW m \in Nat, m \in M PROVE m + 1 \in M
  <2>1. SUFFICES ASSUME m + 1 <= n PROVE \E h \in [0 .. m + 1 -> S] : UpTo(h, m + 1)
    OBVIOUS
  <2>2. PICK g \in [0 .. m -> S] : UpTo(g, m)
    BY <1>2, <2>1
  <2> DEFINE h == [j \in 0 .. m + 1 |-> IF j = m + 1 THEN F[m + 1][g[m]] ELSE g[j]]
  <2>3. F[m + 1] \in [S -> S] /\ g[m] \in S /\ F[m + 1][g[m]] \in S
    <3>1. m + 1 \in 1 .. n /\ m \in 0 .. m
      BY <2>1
    <3> QED BY <3>1 DEF Steps
  <2>4. h \in [0 .. m + 1 -> S]
    BY <2>3
  <2>5. h[0] = a
    BY <2>2
  <2>6. ASSUME NEW t \in 1 .. m + 1 PROVE h[t] = F[t][h[t - 1]]
    <3>1. CASE t = m + 1
      <4>1. t - 1 = m /\ h[t - 1] = g[m]
        BY <3>1
      <4> QED BY <3>1, <4>1
    <3>2. CASE t # m + 1
      <4>1. t \in 1 .. m /\ h[t] = g[t] /\ h[t - 1] = g[t - 1]
        BY <3>2
      <4> QED BY <2>2, <4>1
    <3> QED BY <3>1, <3>2
  <2> HIDE DEF h
  <2> QED BY <2>4, <2>5, <2>6
<1> HIDE DEF M
<1>3. n \in M
  BY <1>1, <1>2, Counting
<1> HIDE DEF UpTo
<1>4. \E g \in [0 .. n -> S] : UpTo(g, n)
  BY <1>3 DEF M
<1> QED BY <1>4 DEF UpTo, Unfolds

-----------------------------------------------------------------------------
(* Attention over a whole sequence                                          *)

\* The residual streams of n tokens, which fit in the positions
Rows(n) == [1 .. n -> Numbers(Config.d_model)]
\* n tokens stay inside the positions that RopeCos and RopeSin are given for.
Within(n) == \A t \in 1 .. n : t - 1 \in Positions

\* Key and value of a token have n_kv_heads heads.
LEMMA KeyAtType ==
  ASSUME NEW li \in Layers, is_attention_layer(Config, li), NEW x \in Numbers(Config.d_model),
         NEW t \in Nat, t - 1 \in Positions
  PROVE  KeyAt(x, li, t) \in KvHeads /\ ValueAt(x, li) \in KvHeads
<1>1. /\ Project(x, "wk", li, kv_dim(Config)) \in Numbers(Config.n_kv_heads * Config.head_dim)
      /\ Project(x, "wv", li, kv_dim(Config)) \in Numbers(Config.n_kv_heads * Config.head_dim)
  BY AttentionShapes, ProjectType, DimensionsAre
<1>2. KeyAt(x, li, t) \in KvHeads
  BY <1>1, RopeHeadsAre, ConfigIs DEF KeyAt, KvHeads
<1>3. ValueAt(x, li) \in KvHeads
  BY <1>1, HeadsAre, ConfigIs DEF ValueAt, KvHeads
<1> QED BY <1>2, <1>3

\* Keys and Values, token by token.
LEMMA KeysAre ==
  ASSUME NEW n \in Nat, NEW hs \in Rows(n), NEW li
  PROVE  /\ Keys(hs, li) = [t \in 1 .. n |-> KeyAt(hs[t], li, t)]
         /\ Values(hs, li) = [t \in 1 .. n |-> ValueAt(hs[t], li)]
<1>1. Len(hs) = n
  BY DEF Rows
<1>2. Keys(hs, li) = Eager([t \in 1 .. n |-> KeyAt(hs[t], li, t)])
  BY <1>1 DEF Keys, KeyAt, Vec
<1>3. Values(hs, li) = Eager([t \in 1 .. n |-> ValueAt(hs[t], li)])
  BY <1>1 DEF Values, ValueAt, Vec
<1> QED BY <1>2, <1>3 DEF Eager

\* Attention without caches, token by token.
LEMMA AttentionIs ==
  ASSUME NEW n \in Nat, NEW hs \in Rows(n), NEW li
  PROVE  Attention(hs, li) = [t \in 1 .. n |-> AttentionMix(hs[t], li, Keys(hs, li), Values(hs, li), t)]
<1>1. Len(hs) = n
  BY DEF Rows
<1>2. Attention(hs, li) = Eager([t \in 1 .. n |-> AttentionMix(hs[t], li, Keys(hs, li), Values(hs, li), t)])
  BY <1>1 DEF Attention, Vec
<1> QED BY <1>2 DEF Eager

\* It maps residual streams to residual streams.
LEMMA AttentionType ==
  ASSUME NEW li \in Layers, is_attention_layer(Config, li), NEW n \in Nat, NEW hs \in Rows(n), Within(n)
  PROVE  Attention(hs, li) \in Rows(n)
<1> DEFINE ks == Keys(hs, li)   vs == Values(hs, li)
<1>1. \A s \in 1 .. n : hs[s] \in Numbers(Config.d_model) /\ s \in Nat \ {0} /\ s - 1 \in Positions
  BY DEF Rows, Within
<1>2. \A s \in 1 .. n : KeyAt(hs[s], li, s) \in KvHeads /\ ValueAt(hs[s], li) \in KvHeads
  BY <1>1, KeyAtType
<1>3. \A s \in 1 .. n : ks[s] \in KvHeads /\ vs[s] \in KvHeads
  BY <1>2, KeysAre
<1> HIDE DEF ks, vs
<1>4. ASSUME NEW t \in 1 .. n PROVE AttentionMix(hs[t], li, ks, vs, t) \in Numbers(Config.d_model)
  <2>1. Filled(ks, t) /\ Filled(vs, t)
    BY <1>3 DEF Filled
  <2> QED BY <1>1, <2>1, AttentionMixType
<1>5. Attention(hs, li) = [t \in 1 .. n |-> AttentionMix(hs[t], li, ks, vs, t)]
  BY AttentionIs DEF ks, vs
<1> QED BY <1>4, <1>5 DEF Rows

\* A token attends to nothing after it.
LEMMA AttentionSame ==
  ASSUME NEW n \in Nat, NEW hs \in Rows(n), NEW m \in Nat, NEW gs \in Rows(m), NEW li,
         NEW t \in 1 .. n, t <= m, SameUpTo(hs, gs, t)
  PROVE  Attention(hs, li)[t] = Attention(gs, li)[t]
<1>1. SameUpTo(Keys(hs, li), Keys(gs, li), t) /\ SameUpTo(Values(hs, li), Values(gs, li), t)
  BY KeysAre DEF SameUpTo
<1>2. t \in Nat /\ t \in 1 .. m /\ hs[t] = gs[t]
  BY DEF SameUpTo
<1>3. AttentionMix(hs[t], li, Keys(hs, li), Values(hs, li), t) = AttentionMix(gs[t], li, Keys(gs, li), Values(gs, li), t)
  BY <1>1, <1>2, AttentionMixSame
<1>4. Attention(hs, li)[t] = AttentionMix(hs[t], li, Keys(hs, li), Values(hs, li), t)
  BY AttentionIs
<1>5. Attention(gs, li)[t] = AttentionMix(gs[t], li, Keys(gs, li), Values(gs, li), t)
  BY <1>2, AttentionIs
<1> QED BY <1>3, <1>4, <1>5

-----------------------------------------------------------------------------
(* DeltaNet over a whole sequence                                           *)

\* The parts of DeltaNet: inputs, activations, and the states after t tokens
Cats(hs, li) == Map1(LAMBDA x : Inputs(x, li), hs)
Acts(hs, li) == Vec(Len(hs), LAMBDA t : Activated(Cats(hs, li), li, t))
ZeroState == Vec(Config.dn_head_dim * Config.dn_head_dim, LAMBDA e : 0)
StatesAt(hs, li, t) == [h \in 1 .. Config.dn_v_heads |-> States(hs, Acts(hs, li), li, h)[t]]

\* The inputs of the convolution, token by token.
LEMMA CatsAre ==
  ASSUME NEW li \in Layers, ~is_attention_layer(Config, li), NEW n \in Nat, NEW hs \in Rows(n)
  PROVE  /\ Cats(hs, li) = [t \in 1 .. n |-> Inputs(hs[t], li)]
         /\ Cats(hs, li) \in [1 .. n -> Numbers(Channels)]
<1>1. Len(hs) = n
  BY DEF Rows
<1>2. Cats(hs, li) = Eager([t \in 1 .. n |-> Inputs(hs[t], li)])
  BY <1>1 DEF Cats, Map1, Vec
<1>3. Cats(hs, li) = [t \in 1 .. n |-> Inputs(hs[t], li)]
  BY <1>2 DEF Eager
<1>4. \A t \in 1 .. n : Inputs(hs[t], li) \in Numbers(Channels)
  BY InputsType DEF Rows
<1> QED BY <1>3, <1>4

\* The activations without caches are the convolution of the last inputs at each token.
LEMMA ActsAre ==
  ASSUME NEW li \in Layers, ~is_attention_layer(Config, li), NEW n \in Nat, NEW hs \in Rows(n)
  PROVE  /\ Acts(hs, li) = [t \in 1 .. n |-> convolved(Hist(Cats(hs, li), t), li)]
         /\ Acts(hs, li) \in [1 .. n -> Numbers(Channels)]
         /\ \A t \in 1 .. n : Hist(Cats(hs, li), t) \in [1 .. Window(t) -> Numbers(Channels)]
<1> DEFINE cats == Cats(hs, li)
<1>1. Len(hs) = n
  BY DEF Rows
<1>2. Acts(hs, li) = Eager([t \in 1 .. n |-> Activated(cats, li, t)])
  BY <1>1 DEF Acts, Vec
<1>3. \A s \in 1 .. n : cats[s] \in Numbers(Channels)
  BY CatsAre
<1> HIDE DEF cats
<1>4. ASSUME NEW t \in 1 .. n
      PROVE  /\ Activated(cats, li, t) = convolved(Hist(cats, t), li)
             /\ Activated(cats, li, t) \in Numbers(Channels)
             /\ Hist(cats, t) \in [1 .. Window(t) -> Numbers(Channels)]
  <2>1. t \in Nat \ {0} /\ \A s \in 1 .. t : cats[s] \in Numbers(Channels)
    BY <1>3
  <2> QED BY <2>1, ActivatedIs
<1>5. Acts(hs, li) = [t \in 1 .. n |-> Activated(cats, li, t)]
  BY <1>2 DEF Eager
<1> QED BY <1>4, <1>5 DEF cats

\* The convolution and the states after t tokens depend on no later one.
LEMMA HistSame ==
  ASSUME NEW t \in Nat, NEW f, NEW g, SameUpTo(f, g, t)
  PROVE  Hist(f, t) = Hist(g, t)
<1>1. Window(t) \in Nat /\ Window(t) <= t
  BY WindowIs
<1>2. \A j \in 1 .. Window(t) : t - j + 1 \in 1 .. t
  BY <1>1
<1>3. \A j \in 1 .. Window(t) : f[t - j + 1] = g[t - j + 1]
  BY <1>2 DEF SameUpTo
<1> QED BY <1>3 DEF Hist

\* Inputs, histories and activations of the first t tokens depend on those only.
LEMMA CatsSame ==
  ASSUME NEW li \in Layers, ~is_attention_layer(Config, li), NEW n \in Nat, NEW hs \in Rows(n),
         NEW m \in Nat, NEW gs \in Rows(m), NEW t \in Nat, t <= n, t <= m, SameUpTo(hs, gs, t)
  PROVE  /\ SameUpTo(Cats(hs, li), Cats(gs, li), t) /\ Hist(Cats(hs, li), t) = Hist(Cats(gs, li), t)
         /\ SameUpTo(Acts(hs, li), Acts(gs, li), t)
<1> DEFINE a == Cats(hs, li)   b == Cats(gs, li)
<1>1. \A s \in 1 .. t : s \in 1 .. n /\ s \in 1 .. m /\ hs[s] = gs[s]
  BY DEF SameUpTo
<1>2. \A s \in 1 .. t : a[s] = b[s]
  BY <1>1, CatsAre
<1> HIDE DEF a, b
<1>3. SameUpTo(a, b, t) /\ Hist(a, t) = Hist(b, t)
  BY <1>2, HistSame DEF SameUpTo
<1>4. ASSUME NEW s \in 1 .. t PROVE Acts(hs, li)[s] = Acts(gs, li)[s]
  <2>1. s \in Nat /\ SameUpTo(a, b, s)
    BY <1>2 DEF SameUpTo
  <2>2. Hist(a, s) = Hist(b, s)
    BY <2>1, HistSame
  <2>3. Acts(hs, li)[s] = convolved(Hist(a, s), li) /\ Acts(gs, li)[s] = convolved(Hist(b, s), li)
    BY <1>1, ActsAre DEF a, b
  <2> QED BY <2>2, <2>3
<1> QED BY <1>3, <1>4 DEF a, b, SameUpTo

\* The state before the first token is a state.
LEMMA ZeroStateType == ZeroState \in State
<1> DEFINE n == Config.dn_head_dim * Config.dn_head_dim
<1>1. n \in Nat
  BY ConfigIs
<1>2. 0 \in Num
  BY GoldenAssumption DEF Num
<1>3. ZeroState = Eager([e \in 1 .. n |-> 0])
  BY DEF ZeroState, Vec
<1> HIDE DEF n
<1>4. ZeroState = [e \in 1 .. n |-> 0]
  BY <1>1, <1>3 DEF Eager
<1>5. ZeroState \in Numbers(n)
  BY <1>2, <1>4 DEF Numbers
<1> QED BY <1>5 DEF State, n

\* The unrolled states satisfy their recursion.
LEMMA StatesAre ==
  ASSUME NEW li \in Layers, ~is_attention_layer(Config, li), NEW n \in Nat, NEW hs \in Rows(n),
         NEW acts \in [1 .. n -> Numbers(Channels)], NEW h \in 1 .. Config.dn_v_heads
  PROVE  /\ States(hs, acts, li, h) \in [0 .. n -> State]
         /\ States(hs, acts, li, h)[0] = ZeroState
         /\ \A t \in 1 .. n : States(hs, acts, li, h)[t] = Corrected(States(hs, acts, li, h)[t - 1], acts[t], hs[t], li, h)
<1> DEFINE Next1(s, t) == Corrected(s, acts[t], hs[t], li, h)
           F == [t \in 1 .. n |-> [s \in State |-> Next1(s, t)]]
           Is(c) == c = [t \in 0 .. n |-> IF t = 0 THEN ZeroState ELSE Corrected(c[t - 1], acts[t], hs[t], li, h)]
<1>0. Len(hs) = n
  BY DEF Rows
<1>1. \A t \in 1 .. n, s \in State : Next1(s, t) \in State
  BY CorrectedIs DEF Rows
<1> HIDE DEF Next1
<1>2. F \in [1 .. n -> [State -> State]]
  BY <1>1
<1>3. \A t \in 1 .. n, s \in State : F[t][s] = Next1(s, t)
  OBVIOUS
<1> HIDE DEF F
<1>4. PICK g \in [0 .. n -> State] : g[0] = ZeroState /\ \A t \in 1 .. n : g[t] = F[t][g[t - 1]]
  <2>1. F \in Steps(n, State)
    BY <1>2 DEF Steps
  <2>2. \E g : Unfolds(g, n, State, ZeroState, F)
    BY <2>1, ZeroStateType, RecursionExists
  <2> QED BY <2>2 DEF Unfolds
<1>5. \A t \in 1 .. n : g[t] = Next1(g[t - 1], t)
  <2>1. \A t \in 1 .. n : t - 1 \in 0 .. n
    OBVIOUS
  <2> QED BY <1>3, <1>4, <2>1
<1>6. Is(g)
  <2>1. \A t \in 0 .. n : g[t] = IF t = 0 THEN ZeroState ELSE Next1(g[t - 1], t)
    BY <1>4, <1>5
  <2>2. g = [t \in 0 .. n |-> IF t = 0 THEN ZeroState ELSE Next1(g[t - 1], t)]
    BY <1>4, <2>1
  <2> QED BY <2>2 DEF Next1
<1> DEFINE c == CHOOSE c : Is(c)
<1>7. States(hs, acts, li, h) = c
  BY <1>0 DEF States, ZeroState
<1>8. Is(c)
  BY <1>6
<1> HIDE DEF c
<1>9. c[0] = ZeroState /\ DOMAIN c = 0 .. n /\ \A t \in 1 .. n : c[t] = Next1(c[t - 1], t)
  BY <1>8 DEF Next1
<1> DEFINE S == {t \in Nat : c[t] \in State}
<1>10. \A t \in 0 .. n : t \in S
  <2>1. 0 \in S
    BY <1>9, ZeroStateType
  <2>2. ASSUME NEW t \in 0 .. n - 1, t \in S PROVE t + 1 \in S
    <3>1. t + 1 \in 1 .. n /\ (t + 1) - 1 = t /\ t + 1 \in Nat
      OBVIOUS
    <3>2. c[t + 1] = Next1(c[t], t + 1)
      BY <1>9, <3>1
    <3> QED BY <1>1, <2>2, <3>1, <3>2
  <2> HIDE DEF S
  <2> QED BY <2>1, <2>2, CountingTo
<1>11. c \in [0 .. n -> State]
  <2>1. c = [t \in 0 .. n |-> c[t]]
    BY <1>8
  <2> QED BY <1>10, <2>1
<1> QED BY <1>7, <1>9, <1>11 DEF Next1

\* The states of all heads after t tokens have their shapes.
LEMMA StatesAtType ==
  ASSUME NEW li \in Layers, ~is_attention_layer(Config, li), NEW n \in Nat, NEW hs \in Rows(n), NEW t \in 0 .. n
  PROVE  StatesAt(hs, li, t) \in [1 .. Config.dn_v_heads -> State]
<1>1. Acts(hs, li) \in [1 .. n -> Numbers(Channels)]
  BY ActsAre
<1>2. \A h \in 1 .. Config.dn_v_heads : States(hs, Acts(hs, li), li, h) \in [0 .. n -> State]
  BY <1>1, StatesAre
<1> QED BY <1>2 DEF StatesAt

\* One token moves all states of a layer on.
LEMMA StatesStep ==
  ASSUME NEW li \in Layers, ~is_attention_layer(Config, li), NEW n \in Nat, NEW hs \in Rows(n), NEW t \in 1 .. n
  PROVE  StatesAt(hs, li, t) = NextStates(StatesAt(hs, li, t - 1), Acts(hs, li)[t], hs[t], li)
<1> DEFINE acts == Acts(hs, li)
<1>1. acts \in [1 .. n -> Numbers(Channels)]
  BY ActsAre
<1> HIDE DEF acts
<1>2. \A h \in 1 .. Config.dn_v_heads :
        States(hs, acts, li, h)[t] = Corrected(States(hs, acts, li, h)[t - 1], acts[t], hs[t], li, h)
  BY <1>1, StatesAre
<1>3. \A h \in 1 .. Config.dn_v_heads : StatesAt(hs, li, t - 1)[h] = States(hs, acts, li, h)[t - 1]
  BY DEF StatesAt, acts
<1>4. StatesAt(hs, li, t) = [h \in 1 .. Config.dn_v_heads |-> States(hs, acts, li, h)[t]]
  BY DEF StatesAt, acts
<1>5. StatesAt(hs, li, t) = NextStates(StatesAt(hs, li, t - 1), acts[t], hs[t], li)
  BY <1>2, <1>3, <1>4 DEF NextStates
<1> QED BY <1>5 DEF acts

\* Before the first token they are 0.
LEMMA StatesZero ==
  ASSUME NEW li \in Layers, ~is_attention_layer(Config, li), NEW n \in Nat, NEW hs \in Rows(n)
  PROVE  StatesAt(hs, li, 0) = [h \in 1 .. Config.dn_v_heads |-> ZeroState]
<1>1. Acts(hs, li) \in [1 .. n -> Numbers(Channels)]
  BY ActsAre
<1>2. \A h \in 1 .. Config.dn_v_heads : States(hs, Acts(hs, li), li, h)[0] = ZeroState
  BY <1>1, StatesAre
<1> QED BY <1>2 DEF StatesAt

\* The states after t tokens depend on those t tokens only.
LEMMA StatesSame ==
  ASSUME NEW li \in Layers, ~is_attention_layer(Config, li), NEW n \in Nat, NEW hs \in Rows(n),
         NEW m \in Nat, NEW gs \in Rows(m), NEW t \in Nat, t <= n, t <= m, SameUpTo(hs, gs, t)
  PROVE  StatesAt(hs, li, t) = StatesAt(gs, li, t)
<1> DEFINE S == {s \in Nat : StatesAt(hs, li, s) = StatesAt(gs, li, s)}
<1>1. 0 \in S
  BY StatesZero
<1>2. ASSUME NEW s \in 0 .. t - 1, s \in S PROVE s + 1 \in S
  <2> DEFINE u == s + 1
  <2>1. u \in Nat /\ u \in 1 .. n /\ u \in 1 .. m /\ u \in 1 .. t /\ u - 1 = s
    OBVIOUS
  <2> HIDE DEF u
  <2>2. hs[u] = gs[u] /\ Acts(hs, li)[u] = Acts(gs, li)[u]
    BY <2>1, CatsSame DEF SameUpTo
  <2>3. StatesAt(hs, li, u) = NextStates(StatesAt(hs, li, s), Acts(hs, li)[u], hs[u], li)
    BY <2>1, StatesStep
  <2>4. StatesAt(gs, li, u) = NextStates(StatesAt(gs, li, s), Acts(gs, li)[u], gs[u], li)
    BY <2>1, StatesStep
  <2>5. StatesAt(hs, li, s) = StatesAt(gs, li, s)
    BY <1>2
  <2>6. u \in S
    BY <2>1, <2>2, <2>3, <2>4, <2>5
  <2> QED BY <2>6 DEF u
<1> HIDE DEF S
<1>3. t \in S
  <2>1. \A s \in 0 .. t : s \in S
    BY <1>1, <1>2, CountingTo
  <2> QED BY <2>1
<1> QED BY <1>3 DEF S

\* DeltaNet without caches, token by token.
LEMMA DeltaNetIs ==
  ASSUME NEW li \in Layers, ~is_attention_layer(Config, li), NEW n \in Nat, NEW hs \in Rows(n)
  PROVE  DeltaNet(hs, li) = [t \in 1 .. n |-> DeltaMix(hs[t], Acts(hs, li)[t], StatesAt(hs, li, t), li)]
<1> DEFINE acts == Acts(hs, li)
           f(t) == [h \in 1 .. Config.dn_v_heads |-> States(hs, acts, li, h)[t]]
           e(t) == Eager(f(t))
<1>1. Len(hs) = n
  BY DEF Rows
<1>2. DeltaNet(hs, li) = Eager([t \in 1 .. n |-> DeltaMix(hs[t], acts[t], e(t), li)])
  BY <1>1 DEF DeltaNet, Cats, Acts, Vec
<1>3. \A t : e(t) = f(t)
  <2>1. Config.dn_v_heads \in Nat
    BY ConfigIs
  <2> QED BY <2>1 DEF Eager
<1>4. \A t : f(t) = StatesAt(hs, li, t)
  BY DEF StatesAt
<1> HIDE DEF e, f, acts
<1>5. DeltaNet(hs, li) = [t \in 1 .. n |-> DeltaMix(hs[t], acts[t], e(t), li)]
  BY <1>2 DEF Eager
<1> QED BY <1>3, <1>4, <1>5 DEF acts

\* It maps residual streams to residual streams.
LEMMA DeltaNetType ==
  ASSUME NEW li \in Layers, ~is_attention_layer(Config, li), NEW n \in Nat, NEW hs \in Rows(n)
  PROVE  DeltaNet(hs, li) \in Rows(n)
<1>1. ASSUME NEW t \in 1 .. n
      PROVE  DeltaMix(hs[t], Acts(hs, li)[t], StatesAt(hs, li, t), li) \in Numbers(Config.d_model)
  <2>1. hs[t] \in Numbers(Config.d_model) /\ t \in 0 .. n
    BY DEF Rows
  <2>2. Acts(hs, li)[t] \in Numbers(Channels)
    BY ActsAre
  <2>3. StatesAt(hs, li, t) \in [1 .. Config.dn_v_heads -> State]
    BY <2>1, StatesAtType
  <2> QED BY <2>1, <2>2, <2>3, DeltaMixType
<1> QED BY <1>1, DeltaNetIs DEF Rows

\* Its output for a token depends on the tokens up to it only.
LEMMA DeltaNetSame ==
  ASSUME NEW li \in Layers, ~is_attention_layer(Config, li), NEW n \in Nat, NEW hs \in Rows(n),
         NEW m \in Nat, NEW gs \in Rows(m), NEW t \in 1 .. n, t <= m, SameUpTo(hs, gs, t)
  PROVE  DeltaNet(hs, li)[t] = DeltaNet(gs, li)[t]
<1>1. t \in Nat /\ t \in 1 .. m /\ t <= n /\ t \in 1 .. t
  OBVIOUS
<1>2. hs[t] = gs[t] /\ Acts(hs, li)[t] = Acts(gs, li)[t]
  BY <1>1, CatsSame DEF SameUpTo
<1>3. StatesAt(hs, li, t) = StatesAt(gs, li, t)
  BY <1>1, StatesSame
<1>4. DeltaNet(hs, li)[t] = DeltaMix(hs[t], Acts(hs, li)[t], StatesAt(hs, li, t), li)
  BY DeltaNetIs
<1>5. DeltaNet(gs, li)[t] = DeltaMix(gs[t], Acts(gs, li)[t], StatesAt(gs, li, t), li)
  BY <1>1, DeltaNetIs
<1> QED BY <1>2, <1>3, <1>4, <1>5

-----------------------------------------------------------------------------
(* A layer over a whole sequence                                            *)

\* The weights every layer has.
LEMMA LayerShapes ==
  ASSUME NEW li \in Layers
  PROVE  /\ WeightVector("norm1", li, Config.d_model) \in Numbers(Config.d_model)
         /\ WeightVector("norm2", li, Config.d_model) \in Numbers(Config.d_model)
         /\ HasShape("wg", li, Config.d_model, Config.d_ff) /\ HasShape("wu", li, Config.d_model, Config.d_ff)
         /\ HasShape("wd", li, Config.d_ff, Config.d_model)
<1>1. /\ HasShape("norm1", li, 1, Config.d_model) /\ HasShape("norm2", li, 1, Config.d_model)
      /\ HasShape("wg", li, Config.d_model, Config.d_ff) /\ HasShape("wu", li, Config.d_model, Config.d_ff)
      /\ HasShape("wd", li, Config.d_ff, Config.d_model)
  BY DecodeAssumption DEF WeightsOK
<1> QED BY <1>1, WeightVectorType, ConfigIs

\* rmsnorm with a layer's weight
Norm(x, name, li) == rmsnorm(x, WeightVector(name, li, Config.d_model))

\* The norm of a residual stream.
LEMMA NormType ==
  ASSUME NEW li \in Layers, NEW x \in Numbers(Config.d_model), NEW name \in {"norm1", "norm2"}
  PROVE  Norm(x, name, li) \in Numbers(Config.d_model)
BY LayerShapes, RmsnormType, ConfigIs DEF Norm

\* The feed-forward block keeps the width of the residual stream.
LEMMA FeedforwardType ==
  ASSUME NEW li \in Layers, NEW x \in Numbers(Config.d_model)
  PROVE  Feedforward(x, li) \in Numbers(Config.d_model)
<1> DEFINE up(name) == Project(x, name, li, Config.d_ff)
           g == Map1(Silu, up("wg"))
<1>1. up("wg") \in Numbers(Config.d_ff) /\ up("wu") \in Numbers(Config.d_ff)
  BY LayerShapes, ProjectType, ConfigIs
<1>2. g \in Numbers(Config.d_ff)
  BY <1>1, GatesAre, ConfigIs
<1> HIDE DEF g
<1>3. Hadamard(g, up("wu")) \in Numbers(Config.d_ff)
  BY <1>1, <1>2, HadamardIs, ConfigIs
<1>4. Matrix("wd", li, Config.d_ff, Config.d_model) \in Numbers(Config.d_ff * Config.d_model)
  BY LayerShapes, MatrixType, ConfigIs
<1>5. Linear(Hadamard(g, up("wu")), Matrix("wd", li, Config.d_ff, Config.d_model), Config.d_model) \in Numbers(Config.d_model)
  BY <1>3, <1>4, LinearType, ConfigIs
<1> QED BY <1>5 DEF Feedforward, g

\* mlp_block adds the feed-forward block of the normed stream.
LEMMA MlpBlockIs ==
  ASSUME NEW li \in Layers, NEW y \in Numbers(Config.d_model)
  PROVE  /\ mlp_block(Config, y, li) = Plus(y, Feedforward(Norm(y, "norm2", li), li))
         /\ mlp_block(Config, y, li) \in Numbers(Config.d_model)
<1>1. mlp_block(Config, y, li) = Plus(y, Feedforward(Norm(y, "norm2", li), li))
  BY DEF mlp_block, Feedforward, Norm, Project
<1>2. Feedforward(Norm(y, "norm2", li), li) \in Numbers(Config.d_model)
  BY NormType, FeedforwardType
<1> QED BY <1>1, <1>2, PlusIs, ConfigIs

\* The norms of all tokens, one by one.
LEMMA NormedIs ==
  ASSUME NEW li \in Layers, NEW n \in Nat, NEW xs \in Rows(n), NEW name \in {"norm1", "norm2"}
  PROVE  /\ Normed(xs, name, li) = [t \in 1 .. n |-> Norm(xs[t], name, li)]
         /\ Normed(xs, name, li) \in Rows(n)
<1>1. Len(xs) = n
  BY DEF Rows
<1>2. Normed(xs, name, li) = Eager([t \in 1 .. n |-> Norm(xs[t], name, li)])
  BY <1>1 DEF Normed, Norm, Map1, Vec
<1>3. Normed(xs, name, li) = [t \in 1 .. n |-> Norm(xs[t], name, li)]
  BY <1>2 DEF Eager
<1>4. \A t \in 1 .. n : Norm(xs[t], name, li) \in Numbers(Config.d_model)
  BY NormType DEF Rows
<1> QED BY <1>3, <1>4 DEF Rows

\* The sums of the streams of all tokens, one by one.
LEMMA SummedIs ==
  ASSUME NEW n \in Nat, NEW xs \in Rows(n), NEW ys \in Rows(n)
  PROVE  /\ Summed(xs, ys) = [t \in 1 .. n |-> Plus(xs[t], ys[t])]
         /\ Summed(xs, ys) \in Rows(n)
<1>1. Len(xs) = n
  BY DEF Rows
<1>2. Summed(xs, ys) = Eager([t \in 1 .. n |-> Plus(xs[t], ys[t])])
  BY <1>1 DEF Summed, Vec
<1>3. Summed(xs, ys) = [t \in 1 .. n |-> Plus(xs[t], ys[t])]
  BY <1>2 DEF Eager
<1>4. \A t \in 1 .. n : Plus(xs[t], ys[t]) \in Numbers(Config.d_model)
  BY PlusIs, ConfigIs DEF Rows
<1> QED BY <1>3, <1>4 DEF Rows

\* The second half of a layer is mlp_block of every token.
LEMMA FedForwardIs ==
  ASSUME NEW li \in Layers, NEW n \in Nat, NEW ys \in Rows(n)
  PROVE  /\ FedForward(ys, li) = [t \in 1 .. n |-> mlp_block(Config, ys[t], li)]
         /\ FedForward(ys, li) \in Rows(n)
<1> DEFINE hs == Normed(ys, "norm2", li)
           fs == Map1(LAMBDA x : Feedforward(x, li), hs)
<1>1. hs = [t \in 1 .. n |-> Norm(ys[t], "norm2", li)] /\ hs \in Rows(n)
  BY NormedIs
<1> HIDE DEF hs
<1>2. Len(hs) = n /\ \A t \in 1 .. n : hs[t] \in Numbers(Config.d_model) /\ ys[t] \in Numbers(Config.d_model)
  BY <1>1 DEF Rows
<1>3. fs = Eager([t \in 1 .. n |-> Feedforward(hs[t], li)])
  BY <1>2 DEF Map1, Vec
<1>4. fs = [t \in 1 .. n |-> Feedforward(hs[t], li)]
  BY <1>3 DEF Eager
<1>5. fs \in Rows(n)
  <2>1. \A t \in 1 .. n : Feedforward(hs[t], li) \in Numbers(Config.d_model)
    BY <1>2, FeedforwardType
  <2> HIDE DEF fs
  <2> QED BY <1>4, <2>1 DEF Rows
<1>6. FedForward(ys, li) = Summed(ys, fs)
  BY DEF FedForward, hs
<1> HIDE DEF fs
<1>7. FedForward(ys, li) = [t \in 1 .. n |-> Plus(ys[t], fs[t])] /\ FedForward(ys, li) \in Rows(n)
  BY <1>5, <1>6, SummedIs
<1>8. \A t \in 1 .. n : Plus(ys[t], fs[t]) = mlp_block(Config, ys[t], li)
  BY <1>1, <1>2, <1>4, MlpBlockIs
<1> QED BY <1>7, <1>8

\* Attention or DeltaNet, whichever the layer has.
LEMMA MixedType ==
  ASSUME NEW li \in Layers, NEW n \in Nat, NEW hs \in Rows(n), Within(n)
  PROVE  Mixed(hs, li) \in Rows(n)
BY AttentionType, DeltaNetType DEF Mixed

\* Either is causal.
LEMMA MixedSame ==
  ASSUME NEW li \in Layers, NEW n \in Nat, NEW hs \in Rows(n), NEW m \in Nat, NEW gs \in Rows(m),
         NEW t \in 1 .. n, t <= m, SameUpTo(hs, gs, t)
  PROVE  Mixed(hs, li)[t] = Mixed(gs, li)[t]
<1>1. CASE is_attention_layer(Config, li)
  BY <1>1, AttentionSame DEF Mixed
<1>2. CASE ~is_attention_layer(Config, li)
  BY <1>2, DeltaNetSame DEF Mixed
<1> QED BY <1>1, <1>2

\* Layer li, position by position
LEMMA LayerIs ==
  ASSUME NEW li \in Layers, NEW n \in Nat, NEW xs \in Rows(n), Within(n)
  PROVE  /\ Layer(xs, li)
              = [t \in 1 .. n |-> mlp_block(Config, Plus(xs[t], Mixed(Normed(xs, "norm1", li), li)[t]), li)]
         /\ Layer(xs, li) \in Rows(n)
<1> DEFINE ms == Mixed(Normed(xs, "norm1", li), li)
           ys == Summed(xs, ms)
<1>1. ms \in Rows(n)
  BY NormedIs, MixedType
<1> HIDE DEF ms
<1>2. ys = [t \in 1 .. n |-> Plus(xs[t], ms[t])] /\ ys \in Rows(n)
  BY <1>1, SummedIs
<1>3. Layer(xs, li) = FedForward(ys, li)
  BY DEF Layer, ms
<1> HIDE DEF ys
<1>4. Layer(xs, li) = [t \in 1 .. n |-> mlp_block(Config, ys[t], li)] /\ Layer(xs, li) \in Rows(n)
  BY <1>2, <1>3, FedForwardIs
<1>5. \A t \in 1 .. n : ys[t] = Plus(xs[t], ms[t])
  BY <1>2
<1>6. Layer(xs, li) = [t \in 1 .. n |-> mlp_block(Config, Plus(xs[t], ms[t]), li)]
  BY <1>4, <1>5
<1> QED BY <1>4, <1>6 DEF ms

\* A layer is causal: what it returns for the first t tokens depends on those only.
LEMMA LayerSame ==
  ASSUME NEW li \in Layers, NEW n \in Nat, NEW xs \in Rows(n), Within(n), NEW m \in Nat, NEW ys \in Rows(m), Within(m),
         NEW t \in Nat, t <= n, t <= m, SameUpTo(xs, ys, t)
  PROVE  /\ SameUpTo(Normed(xs, "norm1", li), Normed(ys, "norm1", li), t)
         /\ SameUpTo(Layer(xs, li), Layer(ys, li), t)
<1> DEFINE hs == Normed(xs, "norm1", li)   gs == Normed(ys, "norm1", li)
<1>1. \A s \in 1 .. t : s \in 1 .. n /\ s \in 1 .. m /\ xs[s] = ys[s]
  BY DEF SameUpTo
<1>2. hs \in Rows(n) /\ gs \in Rows(m) /\ \A s \in 1 .. t : hs[s] = gs[s]
  BY <1>1, NormedIs
<1> HIDE DEF hs, gs
<1>3. ASSUME NEW s \in 1 .. t PROVE Layer(xs, li)[s] = Layer(ys, li)[s]
  <2>1. s <= m /\ s \in 1 .. n /\ SameUpTo(hs, gs, s)
    BY <1>1, <1>2 DEF SameUpTo
  <2>2. Mixed(hs, li)[s] = Mixed(gs, li)[s]
    BY <1>2, <2>1, MixedSame
  <2>3. Layer(xs, li)[s] = mlp_block(Config, Plus(xs[s], Mixed(hs, li)[s]), li)
    BY <1>1, LayerIs DEF hs
  <2>4. Layer(ys, li)[s] = mlp_block(Config, Plus(ys[s], Mixed(gs, li)[s]), li)
    BY <1>1, LayerIs DEF gs
  <2> QED BY <1>1, <2>2, <2>3, <2>4
<1> QED BY <1>2, <1>3 DEF SameUpTo, hs, gs

-----------------------------------------------------------------------------
(* The residual streams of a whole sequence                                 *)

\* A sequence of n tokens
Tokens(n) == [1 .. n -> Token]

\* The embedding of a token has the width of the residual stream.
LEMMA EmbeddingType ==
  ASSUME NEW token \in Token
  PROVE  Embedding(Config, token) \in Numbers(Config.d_model)
<1> DEFINE d == Config.d_model
<1>1. d \in Nat
  BY ConfigIs
<1>2. \A i \in 1 .. d : Weight("embed", 0, token, i - 1) \in Num
  <2>1. HasShape("embed", 0, Config.vocab, d)
    BY DecodeAssumption DEF WeightsOK
  <2>2. token \in 0 .. Config.vocab - 1
    BY DEF Token
  <2>3. \A i \in 1 .. d : i - 1 \in 0 .. d - 1
    BY <1>1
  <2> QED BY <2>1, <2>2, <2>3 DEF HasShape
<1>3. Embedding(Config, token) = Eager([i \in 1 .. d |-> Weight("embed", 0, token, i - 1)])
  BY DEF Embedding, Vec
<1> HIDE DEF d
<1>4. Embedding(Config, token) = [i \in 1 .. d |-> Weight("embed", 0, token, i - 1)]
  BY <1>1, <1>3 DEF Eager
<1>5. Embedding(Config, token) \in Numbers(d)
  BY <1>2, <1>4 DEF Numbers
<1> QED BY <1>5 DEF d

\* The logits have one number per token of the vocabulary.
LEMMA LmHeadType ==
  ASSUME NEW x \in Numbers(Config.d_model)
  PROVE  lm_head(Config, x) \in Numbers(Config.vocab)
<1> DEFINE y == rmsnorm(x, WeightVector("final_norm", 0, Config.d_model))
           f == [t \in 1 .. Config.vocab |-> Dot(y, Embedding(Config, t - 1))]
<1>1. y \in Numbers(Config.d_model)
  <2>1. HasShape("final_norm", 0, 1, Config.d_model)
    BY DecodeAssumption DEF WeightsOK
  <2>2. WeightVector("final_norm", 0, Config.d_model) \in Numbers(Config.d_model)
    BY <2>1, WeightVectorType, ConfigIs
  <2> QED BY <2>2, RmsnormType, ConfigIs
<1>2. lm_head(Config, x) = Eager(f)
  BY DEF lm_head, Vec
<1> HIDE DEF y
<1>3. ASSUME NEW t \in 1 .. Config.vocab PROVE Dot(y, Embedding(Config, t - 1)) \in Num
  <2>1. t - 1 \in Token
    BY ConfigIs DEF Token
  <2>2. Embedding(Config, t - 1) \in Numbers(Config.d_model)
    BY <2>1, EmbeddingType
  <2> QED BY <1>1, <2>2, DotType, ConfigIs
<1>4. f \in Numbers(Config.vocab)
  BY <1>3 DEF Numbers
<1>5. Eager(f) = f
  BY ConfigIs DEF Eager
<1> QED BY <1>2, <1>4, <1>5

\* The streams before the first layer
Embedded(tokens) == Map1(LAMBDA token : Embedding(Config, token), tokens)
\* The residual streams before the first layer.
LEMMA EmbeddedIs ==
  ASSUME NEW n \in Nat, NEW tokens \in Tokens(n)
  PROVE  /\ Embedded(tokens) = [t \in 1 .. n |-> Embedding(Config, tokens[t])]
         /\ Embedded(tokens) \in Rows(n)
<1>1. Len(tokens) = n
  BY DEF Tokens
<1>2. Embedded(tokens) = Eager([t \in 1 .. n |-> Embedding(Config, tokens[t])])
  BY <1>1 DEF Embedded, Map1, Vec
<1>3. Embedded(tokens) = [t \in 1 .. n |-> Embedding(Config, tokens[t])]
  BY <1>2 DEF Eager
<1>4. \A t \in 1 .. n : Embedding(Config, tokens[t]) \in Numbers(Config.d_model)
  BY EmbeddingType DEF Tokens
<1> QED BY <1>3, <1>4 DEF Rows

\* The streams after each layer satisfy their recursion.
LEMMA StreamsAre ==
  ASSUME NEW n \in Nat, NEW tokens \in Tokens(n), Within(n)
  PROVE  /\ Streams(tokens) \in [0 .. Config.n_layers -> Rows(n)]
         /\ Streams(tokens)[0] = [t \in 1 .. n |-> Embedding(Config, tokens[t])]
         /\ \A li \in Layers : Streams(tokens)[li + 1] = Layer(Streams(tokens)[li], li)
<1> DEFINE k == Config.n_layers
           F == [j \in 1 .. k |-> [xs \in Rows(n) |-> Layer(xs, j - 1)]]
           Is(c) == c = [j \in 0 .. k |-> IF j = 0 THEN Embedded(tokens) ELSE Layer(c[j - 1], j - 1)]
<1>0. k \in Nat
  BY ConfigIs
<1>1. \A j \in 1 .. k, xs \in Rows(n) : Layer(xs, j - 1) \in Rows(n)
  <2>1. \A j \in 1 .. k : j - 1 \in Layers
    BY <1>0 DEF Layers
  <2> QED BY <2>1, LayerIs
<1>2. F \in Steps(k, Rows(n))
  BY <1>1 DEF Steps
<1>3. \A j \in 1 .. k, xs \in Rows(n) : F[j][xs] = Layer(xs, j - 1)
  OBVIOUS
<1> HIDE DEF F, k
<1>4. PICK g \in [0 .. k -> Rows(n)] : g[0] = Embedded(tokens) /\ \A j \in 1 .. k : g[j] = F[j][g[j - 1]]
  <2>1. Embedded(tokens) \in Rows(n)
    BY EmbeddedIs
  <2>2. \E g : Unfolds(g, k, Rows(n), Embedded(tokens), F)
    BY <1>0, <1>2, <2>1, RecursionExists
  <2> QED BY <2>2 DEF Unfolds
<1>5. \A j \in 1 .. k : g[j] = Layer(g[j - 1], j - 1)
  <2>1. \A j \in 1 .. k : j - 1 \in 0 .. k
    BY <1>0
  <2> QED BY <1>3, <1>4, <2>1
<1>6. Is(g)
  <2>1. \A j \in 0 .. k : g[j] = IF j = 0 THEN Embedded(tokens) ELSE Layer(g[j - 1], j - 1)
    BY <1>4, <1>5
  <2> QED BY <1>4, <2>1
<1> DEFINE c == CHOOSE c : Is(c)
<1>7. Streams(tokens) = c
  BY DEF Streams, Embedded, k
<1>8. Is(c)
  BY <1>6
<1> HIDE DEF c
<1>9. c[0] = Embedded(tokens) /\ \A j \in 1 .. k : c[j] = Layer(c[j - 1], j - 1)
  BY <1>0, <1>8
<1> DEFINE S == {j \in Nat : c[j] \in Rows(n)}
<1>10. \A j \in 0 .. k : j \in S
  <2>1. 0 \in S
    BY <1>9, EmbeddedIs
  <2>2. ASSUME NEW j \in 0 .. k - 1, j \in S PROVE j + 1 \in S
    <3>1. j + 1 \in 1 .. k /\ (j + 1) - 1 = j /\ j + 1 \in Nat
      BY <1>0
    <3>2. c[j + 1] = Layer(c[j], j)
      BY <1>9, <3>1
    <3>3. Layer(c[j], j) \in Rows(n)
      BY <1>1, <2>2, <3>1
    <3> QED BY <3>1, <3>2, <3>3
  <2> HIDE DEF S
  <2> QED BY <1>0, <2>1, <2>2, CountingTo
<1>11. c \in [0 .. k -> Rows(n)]
  <2>1. c = [j \in 0 .. k |-> c[j]]
    BY <1>8
  <2> QED BY <1>10, <2>1
<1>12. \A li \in Layers : c[li + 1] = Layer(c[li], li)
  <2>1. \A li \in Layers : li + 1 \in 1 .. k /\ (li + 1) - 1 = li
    BY <1>0 DEF Layers, k
  <2> QED BY <1>9, <2>1
<1> QED BY <1>7, <1>9, <1>11, <1>12, EmbeddedIs DEF k

\* The input of the mixer of layer li
Mixing(tokens, li) == Normed(Streams(tokens)[li], "norm1", li)

\* What a layer mixes is the norm of the streams before it.
LEMMA MixingType ==
  ASSUME NEW n \in Nat, NEW tokens \in Tokens(n), Within(n), NEW li \in Layers
  PROVE  /\ Streams(tokens)[li] \in Rows(n) /\ Mixing(tokens, li) \in Rows(n)
         /\ Mixing(tokens, li) = [t \in 1 .. n |-> Norm(Streams(tokens)[li][t], "norm1", li)]
<1>1. Streams(tokens)[li] \in Rows(n)
  <2>1. Streams(tokens) \in [0 .. Config.n_layers -> Rows(n)]
    BY StreamsAre
  <2>2. li \in 0 .. Config.n_layers
    BY ConfigIs DEF Layers
  <2> QED BY <2>1, <2>2
<1> QED BY <1>1, NormedIs DEF Mixing

\* No token changes the streams of those before it.
LEMMA StreamsSame ==
  ASSUME NEW n \in Nat, NEW a \in Tokens(n), Within(n), NEW m \in Nat, NEW b \in Tokens(m), Within(m),
         NEW t \in Nat, t <= n, t <= m, SameUpTo(a, b, t)
  PROVE  /\ \A j \in 0 .. Config.n_layers : SameUpTo(Streams(a)[j], Streams(b)[j], t)
         /\ \A li \in Layers : SameUpTo(Mixing(a, li), Mixing(b, li), t)
<1> DEFINE S == {j \in Nat : SameUpTo(Streams(a)[j], Streams(b)[j], t)}
<1>0. Config.n_layers \in Nat
  BY ConfigIs
<1>1. 0 \in S
  <2>1. \A s \in 1 .. t : s \in 1 .. n /\ s \in 1 .. m /\ a[s] = b[s]
    BY DEF SameUpTo
  <2>2. /\ Streams(a)[0] = [s \in 1 .. n |-> Embedding(Config, a[s])]
        /\ Streams(b)[0] = [s \in 1 .. m |-> Embedding(Config, b[s])]
    BY StreamsAre
  <2>3. \A s \in 1 .. t : Streams(a)[0][s] = Streams(b)[0][s]
    BY <2>1, <2>2
  <2> QED BY <2>3 DEF SameUpTo
<1>2. ASSUME NEW j \in 0 .. Config.n_layers - 1, j \in S
      PROVE  j + 1 \in S /\ SameUpTo(Mixing(a, j), Mixing(b, j), t)
  <2>1. j \in Layers
    BY DEF Layers
  <2>2. SameUpTo(Streams(a)[j], Streams(b)[j], t)
    BY <1>2
  <2>3. Streams(a)[j] \in Rows(n) /\ Streams(b)[j] \in Rows(m)
    BY <2>1, MixingType
  <2>4. /\ SameUpTo(Normed(Streams(a)[j], "norm1", j), Normed(Streams(b)[j], "norm1", j), t)
        /\ SameUpTo(Layer(Streams(a)[j], j), Layer(Streams(b)[j], j), t)
    BY <2>1, <2>2, <2>3, LayerSame
  <2>5. Streams(a)[j + 1] = Layer(Streams(a)[j], j) /\ Streams(b)[j + 1] = Layer(Streams(b)[j], j)
    BY <2>1, StreamsAre
  <2> QED BY <2>4, <2>5 DEF Mixing
<1> HIDE DEF S
<1>3. \A j \in 0 .. Config.n_layers : j \in S
  BY <1>0, <1>1, <1>2, CountingTo
<1>4. \A li \in Layers : SameUpTo(Mixing(a, li), Mixing(b, li), t)
  BY <1>0, <1>2, <1>3 DEF Layers
<1> QED BY <1>3, <1>4 DEF S

-----------------------------------------------------------------------------
(* Greedy choice                                                            *)

\* argmax returns a token, also without logits.
LEMMA ArgmaxType ==
  ASSUME NEW v, v = <<>> \/ v \in Numbers(Config.vocab)
  PROVE  argmax(v) \in Token
<1>0. Config.vocab \in Nat \ {0} /\ P \in Nat /\ P > 2
  BY ConfigIs, GoldenAssumption
<1>1. CASE v = <<>>
  <2>1. argmax(v) = 0
    BY <1>1 DEF argmax
  <2> QED BY <1>0, <2>1 DEF Token
<1>2. CASE v # <<>> /\ v \in Numbers(Config.vocab)
  <2> DEFINE n == Config.vocab
             Top(i) == \A j \in 1 .. n : Larger(v[i], v[j]) = v[i]
             First(i) == Top(i) /\ \A j \in 1 .. i - 1 : v[j] # v[i]
             height(i) == P - Signed(v[i])
  <2>1. Len(v) = n /\ \A i \in 1 .. n : v[i] \in Num
    BY <1>0, <1>2 DEF Numbers
  <2>2. \A i \in 1 .. n : height(i) \in Nat
    BY <1>0, <2>1 DEF Signed, Num, NegInf
  <2>3. \E i \in 1 .. n : \A j \in 1 .. n : height(i) <= height(j)
    <3> DEFINE S == {height(i) : i \in 1 .. n}
    <3> HIDE DEF height
    <3>1. S \subseteq Nat /\ S # {}
      BY <1>0, <2>2
    <3>2. PICK x \in S : \A y \in S : x <= y
      BY <3>1, LeastElement
    <3> QED BY <3>2
  <2>4. \E i \in 1 .. n : Top(i)
    <3>1. PICK i \in 1 .. n : \A j \in 1 .. n : height(i) <= height(j)
      BY <2>3
    <3>2. ASSUME NEW j \in 1 .. n PROVE Larger(v[i], v[j]) = v[i]
      <4>1. Signed(v[i]) \in Int /\ Signed(v[j]) \in Int
        BY <1>0, <2>1 DEF Signed, Num, NegInf
      <4>2. Signed(v[i]) >= Signed(v[j])
        BY <1>0, <3>1, <4>1
      <4> QED BY <4>2 DEF Larger
    <3> QED BY <3>2
  <2>5. \E i \in 1 .. n : First(i)
    <3> DEFINE S == {i \in 1 .. n : Top(i)}
    <3>1. S \subseteq Nat /\ S # {}
      BY <2>4
    <3>2. PICK i \in S : \A y \in S : i <= y
      BY <3>1, LeastElement
    <3>3. ASSUME NEW j \in 1 .. i - 1, v[j] = v[i] PROVE FALSE
      <4>0. i \in 1 .. n
        BY <3>2
      <4>1. j \in 1 .. n /\ ~(i <= j)
        BY <1>0, <4>0
      <4>2. Top(j)
        BY <3>2, <3>3
      <4> QED BY <3>2, <4>1, <4>2
    <3> QED BY <3>2, <3>3
  <2>6. argmax(v) = (CHOOSE i \in 1 .. n : First(i)) - 1
    BY <1>2, <2>1 DEF argmax
  <2> HIDE DEF First
  <2>7. (CHOOSE i \in 1 .. n : First(i)) \in 1 .. n
    BY <2>5
  <2> QED BY <1>0, <2>6, <2>7 DEF Token
<1> QED BY <1>1, <1>2

-----------------------------------------------------------------------------
(* One token through one layer                                              *)

\* A cache has these fields and no other.
HasFields(c) == c = [k |-> c.k, v |-> c.v, conv |-> c.conv, state |-> c.state, pos |-> c.pos]

\* A cache with buffers of max_seq positions
Shaped(c, max_seq) ==
  /\ HasFields(c)
  /\ DOMAIN c.k = Layers /\ c.k = [li \in Layers |-> c.k[li]]
  /\ DOMAIN c.v = Layers /\ c.v = [li \in Layers |-> c.v[li]]
  /\ DOMAIN c.conv = Layers /\ c.conv = [li \in Layers |-> c.conv[li]]
  /\ DOMAIN c.state = Layers /\ c.state = [li \in Layers |-> c.state[li]]
  /\ \A li \in Layers : /\ DOMAIN c.k[li] = 1 .. max_seq /\ c.k[li] = [t \in 1 .. max_seq |-> c.k[li][t]]
                        /\ DOMAIN c.v[li] = 1 .. max_seq /\ c.v[li] = [t \in 1 .. max_seq |-> c.v[li][t]]

\* What the cache of layer li holds after t of the tokens whose mixer inputs are hs
Holds(c, li, hs, t) ==
  IF is_attention_layer(Config, li)
  THEN SameUpTo(c.k[li], Keys(hs, li), t) /\ SameUpTo(c.v[li], Values(hs, li), t)
  ELSE c.conv[li] = Hist(Cats(hs, li), t) /\ c.state[li] = StatesAt(hs, li, t)

\* The caches c and d differ in layer li only.
OtherLayersKept(c, d, li) ==
  /\ d.pos = c.pos
  /\ \A lj \in Layers \ {li} :
       d.k[lj] = c.k[lj] /\ d.v[lj] = c.v[lj] /\ d.conv[lj] = c.conv[lj] /\ d.state[lj] = c.state[lj]

\* Storing keys and values leaves the other fields.
LEMMA BuffersReplaced ==
  ASSUME NEW c, HasFields(c), NEW a, NEW b
  PROVE  [c EXCEPT !.k = a, !.v = b] = [k |-> a, v |-> b, conv |-> c.conv, state |-> c.state, pos |-> c.pos]
<1> DEFINE F == {"k", "v", "conv", "state", "pos"}
           d == [c EXCEPT !.k = a, !.v = b]
           g == [f \in F |-> CASE f = "k" -> a [] f = "v" -> b [] f = "conv" -> c.conv [] f = "state" -> c.state [] f = "pos" -> c.pos]
<1>1. DOMAIN c = F
  <2>1. DOMAIN [k |-> c.k, v |-> c.v, conv |-> c.conv, state |-> c.state, pos |-> c.pos] = F
    OBVIOUS
  <2> QED BY <2>1 DEF HasFields
<1>2. d = [f \in F |-> d[f]]
  BY <1>1
<1>3. d.k = a /\ d.v = b /\ d.conv = c.conv /\ d.state = c.state /\ d.pos = c.pos
  BY <1>1
<1> HIDE DEF d
<1>4. d = g
  BY <1>2, <1>3
<1>5. [k |-> a, v |-> b, conv |-> c.conv, state |-> c.state, pos |-> c.pos] = g
  OBVIOUS
<1> QED BY <1>4, <1>5 DEF d

\* Recording a convolution history and states leaves the other fields.
LEMMA StatesReplaced ==
  ASSUME NEW c, HasFields(c), NEW a, NEW b
  PROVE  [c EXCEPT !.conv = a, !.state = b] = [k |-> c.k, v |-> c.v, conv |-> a, state |-> b, pos |-> c.pos]
<1> DEFINE F == {"k", "v", "conv", "state", "pos"}
           d == [c EXCEPT !.conv = a, !.state = b]
           g == [f \in F |-> CASE f = "k" -> c.k [] f = "v" -> c.v [] f = "conv" -> a [] f = "state" -> b [] f = "pos" -> c.pos]
<1>1. DOMAIN c = F
  <2>1. DOMAIN [k |-> c.k, v |-> c.v, conv |-> c.conv, state |-> c.state, pos |-> c.pos] = F
    OBVIOUS
  <2> QED BY <2>1 DEF HasFields
<1>2. d = [f \in F |-> d[f]]
  BY <1>1
<1>3. d.k = c.k /\ d.v = c.v /\ d.conv = a /\ d.state = b /\ d.pos = c.pos
  BY <1>1
<1> HIDE DEF d
<1>4. d = g
  BY <1>2, <1>3
<1>5. [k |-> c.k, v |-> c.v, conv |-> a, state |-> b, pos |-> c.pos] = g
  OBVIOUS
<1> QED BY <1>4, <1>5 DEF d

IsStored(d, c, li, t, ks, vs, kh, vh, max_seq) ==
  /\ Shaped(d, max_seq) /\ OtherLayersKept(c, d, li) /\ d.k[li] = ks /\ d.v[li] = vs
  /\ ks[t] = kh /\ vs[t] = vh
  /\ \A s \in 1 .. max_seq : s # t => ks[s] = c.k[li][s] /\ vs[s] = c.v[li][s]
\* Storing at position at1 writes that row of layer li and nothing else.
LEMMA StoredIs ==
  ASSUME NEW max_seq \in Nat, NEW c, Shaped(c, max_seq), NEW li \in Layers, NEW at1 \in 1 .. max_seq, NEW kh, NEW vh,
         NEW ks, ks = WithRow(c.k[li], at1, kh), NEW vs, vs = WithRow(c.v[li], at1, vh), NEW d, d = Stored(c, li, ks, vs)
  PROVE  IsStored(d, c, li, at1, ks, vs, kh, vh, max_seq)
<1> DEFINE newk == [c.k EXCEPT ![li] = ks]
           newv == [c.v EXCEPT ![li] = vs]
<1>1. /\ DOMAIN c.k[li] = 1 .. max_seq /\ DOMAIN c.v[li] = 1 .. max_seq
      /\ DOMAIN c.k = Layers /\ DOMAIN c.v = Layers
  BY DEF Shaped
<1>2. /\ ks = [t \in 1 .. max_seq |-> IF t = at1 THEN kh ELSE c.k[li][t]]
      /\ vs = [t \in 1 .. max_seq |-> IF t = at1 THEN vh ELSE c.v[li][t]]
  BY <1>1 DEF WithRow
<1>3. /\ ks[at1] = kh /\ vs[at1] = vh
      /\ \A t \in 1 .. max_seq : t # at1 => ks[t] = c.k[li][t] /\ vs[t] = c.v[li][t]
      /\ DOMAIN ks = 1 .. max_seq /\ ks = [t \in 1 .. max_seq |-> ks[t]]
      /\ DOMAIN vs = 1 .. max_seq /\ vs = [t \in 1 .. max_seq |-> vs[t]]
  BY <1>2
<1>4. /\ newk = [lj \in Layers |-> IF lj = li THEN ks ELSE c.k[lj]]
      /\ newv = [lj \in Layers |-> IF lj = li THEN vs ELSE c.v[lj]]
  BY <1>1
<1>5. d = [k |-> newk, v |-> newv, conv |-> c.conv, state |-> c.state, pos |-> c.pos]
  <2>1. d = [c EXCEPT !.k = newk, !.v = newv]
    BY DEF Stored
  <2>2. HasFields(c)
    BY DEF Shaped
  <2> HIDE DEF newk, newv
  <2>3. [c EXCEPT !.k = newk, !.v = newv] = [k |-> newk, v |-> newv, conv |-> c.conv, state |-> c.state, pos |-> c.pos]
    BY <2>2, BuffersReplaced
  <2> QED BY <2>1, <2>3
<1> HIDE DEF newk, newv
<1>6. /\ d.k = newk /\ d.v = newv /\ d.conv = c.conv /\ d.state = c.state /\ d.pos = c.pos
      /\ HasFields(d)
  BY <1>5 DEF HasFields
<1>7. d.k[li] = ks /\ d.v[li] = vs /\ \A lj \in Layers \ {li} : d.k[lj] = c.k[lj] /\ d.v[lj] = c.v[lj]
  BY <1>4, <1>6
<1>8. OtherLayersKept(c, d, li)
  BY <1>6, <1>7 DEF OtherLayersKept
<1>9. Shaped(d, max_seq)
  <2>1. /\ DOMAIN d.k = Layers /\ d.k = [lj \in Layers |-> d.k[lj]]
        /\ DOMAIN d.v = Layers /\ d.v = [lj \in Layers |-> d.v[lj]]
    BY <1>4, <1>6
  <2>2. /\ DOMAIN d.conv = Layers /\ d.conv = [lj \in Layers |-> d.conv[lj]]
        /\ DOMAIN d.state = Layers /\ d.state = [lj \in Layers |-> d.state[lj]]
    BY <1>6 DEF Shaped
  <2>3. ASSUME NEW lj \in Layers
        PROVE  /\ DOMAIN d.k[lj] = 1 .. max_seq /\ d.k[lj] = [t \in 1 .. max_seq |-> d.k[lj][t]]
               /\ DOMAIN d.v[lj] = 1 .. max_seq /\ d.v[lj] = [t \in 1 .. max_seq |-> d.v[lj][t]]
    <3>1. CASE lj = li
      BY <1>3, <1>7, <3>1
    <3>2. CASE lj # li
      <4>1. d.k[lj] = c.k[lj] /\ d.v[lj] = c.v[lj]
        BY <1>7, <3>2
      <4> QED BY <4>1 DEF Shaped
    <3> QED BY <3>1, <3>2
  <2> QED BY <1>6, <2>1, <2>2, <2>3 DEF Shaped
<1> QED BY <1>3, <1>7, <1>8, <1>9 DEF IsStored

\* Recording a layer's history and states changes nothing of another layer.
LEMMA RecordedIs ==
  ASSUME NEW max_seq \in Nat, NEW c, Shaped(c, max_seq), NEW li \in Layers, NEW hist, NEW states,
         NEW d, d = Recorded(c, li, hist, states)
  PROVE  Shaped(d, max_seq) /\ OtherLayersKept(c, d, li) /\ d.conv[li] = hist /\ d.state[li] = states
<1> DEFINE newc == [c.conv EXCEPT ![li] = hist]
           S == [c.state EXCEPT ![li] = states]
<1>1. DOMAIN c.conv = Layers /\ DOMAIN c.state = Layers
  BY DEF Shaped
<1>4. /\ newc = [lj \in Layers |-> IF lj = li THEN hist ELSE c.conv[lj]]
      /\ S = [lj \in Layers |-> IF lj = li THEN states ELSE c.state[lj]]
  BY <1>1
<1>5. d = [k |-> c.k, v |-> c.v, conv |-> newc, state |-> S, pos |-> c.pos]
  <2>1. d = [c EXCEPT !.conv = newc, !.state = S]
    BY DEF Recorded
  <2> HIDE DEF newc, S
  <2>2. [c EXCEPT !.conv = newc, !.state = S] = [k |-> c.k, v |-> c.v, conv |-> newc, state |-> S, pos |-> c.pos]
    BY StatesReplaced DEF Shaped
  <2> QED BY <2>1, <2>2
<1> HIDE DEF newc, S
<1>6. /\ d.k = c.k /\ d.v = c.v /\ d.conv = newc /\ d.state = S /\ d.pos = c.pos
      /\ HasFields(d)
  BY <1>5 DEF HasFields
<1>7. d.conv[li] = hist /\ d.state[li] = states
      /\ \A lj \in Layers \ {li} : d.conv[lj] = c.conv[lj] /\ d.state[lj] = c.state[lj]
  BY <1>4, <1>6
<1>8. OtherLayersKept(c, d, li)
  BY <1>6, <1>7 DEF OtherLayersKept
<1>9. Shaped(d, max_seq)
  <2>1. /\ DOMAIN d.conv = Layers /\ d.conv = [lj \in Layers |-> d.conv[lj]]
        /\ DOMAIN d.state = Layers /\ d.state = [lj \in Layers |-> d.state[lj]]
    BY <1>4, <1>6
  <2>2. /\ DOMAIN d.k = Layers /\ d.k = [lj \in Layers |-> d.k[lj]]
        /\ DOMAIN d.v = Layers /\ d.v = [lj \in Layers |-> d.v[lj]]
        /\ \A lj \in Layers : /\ DOMAIN d.k[lj] = 1 .. max_seq /\ d.k[lj] = [t \in 1 .. max_seq |-> d.k[lj][t]]
                              /\ DOMAIN d.v[lj] = 1 .. max_seq /\ d.v[lj] = [t \in 1 .. max_seq |-> d.v[lj][t]]
    BY <1>6 DEF Shaped
  <2> QED BY <1>6, <2>1, <2>2 DEF Shaped
<1> QED BY <1>7, <1>8, <1>9

\* What a layer is to do with the last of n tokens, mix being its result
Mixes(mix, c, li, hs, n, max_seq) ==
  /\ mix.out = Mixed(hs, li)[n]
  /\ Shaped(mix.cache, max_seq) /\ OtherLayersKept(c, mix.cache, li) /\ Holds(mix.cache, li, hs, n)

\* One cached step of attention: if the buffers hold the keys and values of the first
\* n - 1 tokens, the output is that of the whole sequence at n, and they then hold n.
LEMMA AttentionStep ==
  ASSUME NEW li \in Layers, is_attention_layer(Config, li), NEW n \in Nat \ {0}, NEW hs \in Rows(n), Within(n),
         NEW max_seq \in Nat, n <= max_seq, NEW c, Shaped(c, max_seq), c.pos = n - 1, Holds(c, li, hs, n - 1)
  PROVE  Mixes(attention_layer(Config, hs[n], c, li), c, li, hs, n, max_seq)
<1> DEFINE x == hs[n]
           kh == KeyAt(x, li, n)   vh == ValueAt(x, li)
           ks == WithRow(c.k[li], n, kh)
           vs == WithRow(c.v[li], n, vh)
           d  == Stored(c, li, ks, vs)
<1>1. x \in Numbers(Config.d_model) /\ n \in 1 .. n /\ n \in 1 .. max_seq
  BY DEF Rows
<1>2. c.pos \in Nat /\ c.pos \in Positions /\ c.pos + 1 = n
  BY <1>1 DEF Within
<1>3. attention_layer(Config, x, c, li) = [out |-> AttentionMix(x, li, ks, vs, n), cache |-> d]
  BY <1>1, <1>2, AttentionLayerIs
<1>11. ks = WithRow(c.k[li], n, kh) /\ vs = WithRow(c.v[li], n, vh) /\ d = Stored(c, li, ks, vs)
  OBVIOUS
<1> HIDE DEF kh, vh, ks, vs, d
<1>4. /\ Shaped(d, max_seq) /\ OtherLayersKept(c, d, li) /\ d.k[li] = ks /\ d.v[li] = vs
      /\ ks[n] = kh /\ vs[n] = vh
      /\ \A t \in 1 .. max_seq : t # n => ks[t] = c.k[li][t] /\ vs[t] = c.v[li][t]
  <2>1. IsStored(d, c, li, n, ks, vs, kh, vh, max_seq)
    BY <1>1, <1>11, StoredIs
  <2> QED BY <2>1 DEF IsStored
<1>5. SameUpTo(ks, Keys(hs, li), n) /\ SameUpTo(vs, Values(hs, li), n)
  <2>1. SameUpTo(c.k[li], Keys(hs, li), n - 1) /\ SameUpTo(c.v[li], Values(hs, li), n - 1)
    BY DEF Holds
  <2>2. Keys(hs, li)[n] = kh /\ Values(hs, li)[n] = vh
    BY <1>1, KeysAre DEF kh, vh
  <2>3. ASSUME NEW t \in 1 .. n PROVE ks[t] = Keys(hs, li)[t] /\ vs[t] = Values(hs, li)[t]
    <3>1. CASE t = n
      BY <1>4, <2>2, <3>1
    <3>2. CASE t # n
      <4>1. t \in 1 .. n - 1 /\ t \in 1 .. max_seq
        BY <3>2
      <4> QED BY <1>4, <2>1, <3>2, <4>1 DEF SameUpTo
    <3> QED BY <3>1, <3>2
  <2> QED BY <2>3 DEF SameUpTo
<1>6. AttentionMix(x, li, ks, vs, n) = AttentionMix(x, li, Keys(hs, li), Values(hs, li), n)
  BY <1>5, AttentionMixSame
<1>7. Mixed(hs, li)[n] = AttentionMix(x, li, Keys(hs, li), Values(hs, li), n)
  BY <1>1, AttentionIs DEF Mixed
<1>8. Holds(d, li, hs, n)
  BY <1>4, <1>5 DEF Holds
<1> DEFINE mix == attention_layer(Config, x, c, li)
<1>9. mix.out = Mixed(hs, li)[n] /\ mix.cache = d
  BY <1>3, <1>6, <1>7
<1> HIDE DEF mix
<1>10. Mixes(mix, c, li, hs, n, max_seq)
  BY <1>4, <1>8, <1>9 DEF Mixes
<1> QED BY <1>10 DEF mix

\* One cached step of DeltaNet: the same, of the history and the states.
LEMMA DeltaStep ==
  ASSUME NEW li \in Layers, ~is_attention_layer(Config, li), NEW n \in Nat \ {0}, NEW hs \in Rows(n),
         NEW max_seq \in Nat, NEW c, Shaped(c, max_seq), Holds(c, li, hs, n - 1)
  PROVE  Mixes(deltanet_layer(Config, hs[n], c, li, SiluTable), c, li, hs, n, max_seq)
<1> DEFINE x == hs[n]   cats == Cats(hs, li)
           hist == Hist(cats, n)
           act == convolved(hist, li)
           next == NextStates(c.state[li], act, x, li)
           d == Recorded(c, li, hist, next)
<1>1. x \in Numbers(Config.d_model) /\ n \in 1 .. n /\ n - 1 \in 0 .. n /\ n - 1 \in Nat /\ (n - 1) + 1 = n
  BY DEF Rows
<1>2. c.conv[li] = Hist(cats, n - 1) /\ c.state[li] = StatesAt(hs, li, n - 1)
  BY DEF Holds
<1>3. cats[n] = Inputs(x, li)
  BY <1>1, CatsAre
<1> HIDE DEF cats
<1>4. hist = Recent(Inputs(x, li), c.conv[li], Config.conv_k)
  <2>1. Recent(cats[(n - 1) + 1], Hist(cats, n - 1), Config.conv_k) = Hist(cats, (n - 1) + 1)
    BY <1>1, RecentIs
  <2> QED BY <1>1, <1>2, <1>3, <2>1
<1>5. act = Acts(hs, li)[n] /\ act \in Numbers(Channels)
  BY <1>1, ActsAre DEF cats
<1>6. c.state[li] \in [1 .. Config.dn_v_heads -> State]
  BY <1>1, <1>2, StatesAtType
<1> HIDE DEF hist
<1>7. deltanet_layer(Config, x, c, li, SiluTable) = [out |-> DeltaMix(x, act, next, li), cache |-> d]
  BY <1>1, <1>4, <1>5, <1>6, DeltaLayerIs
<1>8. next = StatesAt(hs, li, n)
  BY <1>1, <1>2, <1>5, StatesStep
<1> HIDE DEF act, next
<1>9. /\ Shaped(d, max_seq) /\ OtherLayersKept(c, d, li) /\ d.conv[li] = hist /\ d.state[li] = next
  BY RecordedIs
<1> HIDE DEF d
<1>10. Holds(d, li, hs, n)
  BY <1>8, <1>9 DEF Holds, hist, cats
<1>11. Mixed(hs, li)[n] = DeltaMix(x, act, next, li)
  BY <1>1, <1>5, <1>8, DeltaNetIs DEF Mixed
<1> DEFINE mix == deltanet_layer(Config, x, c, li, SiluTable)
<1>12. mix.out = Mixed(hs, li)[n] /\ mix.cache = d
  BY <1>7, <1>11
<1> HIDE DEF mix
<1>13. Mixes(mix, c, li, hs, n, max_seq)
  BY <1>9, <1>10, <1>12 DEF Mixes
<1> QED BY <1>13 DEF mix

-----------------------------------------------------------------------------
(* One token through all layers                                             *)

\* The cache after t tokens, and between layer j - 1 and layer j of the nth token
CacheHolds(c, tokens, t, max_seq) ==
  /\ Shaped(c, max_seq) /\ \A li \in Layers : Holds(c, li, Mixing(tokens, li), t)
Reaches(s, tokens, n, j, max_seq) ==
  /\ s.x = Streams(tokens)[j][n] /\ Shaped(s.cache, max_seq) /\ s.cache.pos = n - 1
  /\ \A li \in Layers : Holds(s.cache, li, Mixing(tokens, li), IF li < j THEN n ELSE n - 1)

\* One cached step of whichever mixer the layer has.
LEMMA MixStep ==
  ASSUME NEW li \in Layers, NEW n \in Nat \ {0}, NEW hs \in Rows(n), Within(n),
         NEW max_seq \in Nat, n <= max_seq, NEW c, Shaped(c, max_seq), c.pos = n - 1, Holds(c, li, hs, n - 1)
  PROVE  Mixes(IF is_attention_layer(Config, li) THEN attention_layer(Config, hs[n], c, li)
               ELSE deltanet_layer(Config, hs[n], c, li, SiluTable), c, li, hs, n, max_seq)
<1>1. CASE is_attention_layer(Config, li)
  BY <1>1, AttentionStep
<1>2. CASE ~is_attention_layer(Config, li)
  BY <1>2, DeltaStep
<1> QED BY <1>1, <1>2

\* layer_step is the mixer on the normed stream, then mlp_block.
LEMMA LayerStepIs ==
  ASSUME NEW s, NEW li
  PROVE  LET h == Norm(s.x, "norm1", li)
             mix == IF is_attention_layer(Config, li) THEN attention_layer(Config, h, s.cache, li)
                    ELSE deltanet_layer(Config, h, s.cache, li, SiluTable)
         IN  layer_step(Config, s, li, SiluTable)
               = [x |-> mlp_block(Config, Plus(s.x, mix.out), li), cache |-> mix.cache]
BY DEF layer_step, Norm

\* If the layers below have computed the stream of token n and hold n tokens, so has
\* and does the next one.
LEMMA LayerReaches ==
  ASSUME NEW n \in Nat \ {0}, NEW tokens \in Tokens(n), Within(n), NEW max_seq \in Nat, n <= max_seq,
         NEW j \in Layers, NEW s, Reaches(s, tokens, n, j, max_seq)
  PROVE  Reaches(layer_step(Config, s, j, SiluTable), tokens, n, j + 1, max_seq)
<1> DEFINE hs == Mixing(tokens, j)   xs == Streams(tokens)[j]
           c == s.cache
           h == Norm(s.x, "norm1", j)
           mix == IF is_attention_layer(Config, j) THEN attention_layer(Config, h, c, j)
                  ELSE deltanet_layer(Config, h, c, j, SiluTable)
           next == layer_step(Config, s, j, SiluTable)
<1>0. j \in Nat /\ n \in 1 .. n /\ \A li \in Layers : li \in Nat
  BY DEF Layers
<1>1. xs \in Rows(n) /\ hs \in Rows(n) /\ hs[n] = Norm(xs[n], "norm1", j)
  BY <1>0, MixingType
<1>2. s.x = xs[n] /\ Shaped(c, max_seq) /\ c.pos = n - 1 /\ Holds(c, j, hs, n - 1)
  BY <1>0 DEF Reaches
<1>3. h = hs[n]
  BY <1>1, <1>2
<1>4. next = [x |-> mlp_block(Config, Plus(s.x, mix.out), j), cache |-> mix.cache]
  BY LayerStepIs
<1> HIDE DEF hs, xs, h
<1>5. Mixes(mix, c, j, hs, n, max_seq)
  <2>1. Mixes(IF is_attention_layer(Config, j) THEN attention_layer(Config, hs[n], c, j)
              ELSE deltanet_layer(Config, hs[n], c, j, SiluTable), c, j, hs, n, max_seq)
    <3> HIDE DEF c
    <3> QED BY <1>1, <1>2, MixStep
  <2> QED BY <1>3, <2>1
<1> HIDE DEF mix, next
<1>6. mix.out = Mixed(hs, j)[n] /\ Shaped(mix.cache, max_seq) /\ OtherLayersKept(c, mix.cache, j)
      /\ Holds(mix.cache, j, hs, n)
  BY <1>5 DEF Mixes
<1>7. next.x = Streams(tokens)[j + 1][n]
  <2>1. Streams(tokens)[j + 1] = Layer(xs, j)
    BY StreamsAre DEF xs
  <2>2. Layer(xs, j)[n] = mlp_block(Config, Plus(xs[n], Mixed(hs, j)[n]), j)
    BY <1>0, <1>1, LayerIs DEF hs, Mixing, xs
  <2> QED BY <1>2, <1>4, <1>6, <2>1, <2>2
<1>8. next.cache = mix.cache
  BY <1>4
<1>9. ASSUME NEW li \in Layers
      PROVE  Holds(mix.cache, li, Mixing(tokens, li), IF li < j + 1 THEN n ELSE n - 1)
  <2>1. CASE li = j
    BY <1>0, <1>6, <2>1 DEF hs
  <2>2. CASE li # j
    <3>1. Holds(c, li, Mixing(tokens, li), IF li < j THEN n ELSE n - 1)
      BY DEF Reaches
    <3>2. (li < j) <=> (li < j + 1)
      BY <1>0, <2>2
    <3>3. /\ mix.cache.k[li] = c.k[li] /\ mix.cache.v[li] = c.v[li]
          /\ mix.cache.conv[li] = c.conv[li] /\ mix.cache.state[li] = c.state[li]
      BY <1>6, <2>2 DEF OtherLayersKept
    <3> QED BY <3>1, <3>2, <3>3 DEF Holds
  <2> QED BY <2>1, <2>2
<1>10. mix.cache.pos = n - 1
  BY <1>2, <1>6 DEF OtherLayersKept
<1>11. Reaches(next, tokens, n, j + 1, max_seq)
  BY <1>6, <1>7, <1>8, <1>9, <1>10 DEF Reaches
<1> QED BY <1>11 DEF next

\* forward_with and the recursive function it is computed by
IsAfter(g, token, c) ==
  g = [j \in 0 .. Config.n_layers |->
         IF j = 0 THEN [x |-> Embedding(Config, token), cache |-> c]
         ELSE layer_step(Config, g[j - 1], j - 1, SiluTable)]

\* The layers of forward_token satisfy their recursion.
LEMMA ForwardUnfolds ==
  ASSUME NEW token, NEW c
  PROVE  \E g : /\ IsAfter(g, token, c)
                /\ forward_token(Config, token, c)
                     = [logits |-> lm_head(Config, g[Config.n_layers].x), cache |-> g[Config.n_layers].cache]
<1> DEFINE k == Config.n_layers
           a == [x |-> Embedding(Config, token), cache |-> c]
           Step(s, j) == layer_step(Config, s, j - 1, SiluTable)
           UpTo(g, m) == \A j \in 0 .. m : g[j] = IF j = 0 THEN a ELSE Step(g[j - 1], j)
           S == {m \in Nat : \E g : UpTo(g, m)}
<1>0. k \in Nat
  BY ConfigIs
<1> HIDE DEF k, a, Step
<1>1. 0 \in S
  <2>1. UpTo([j \in 0 .. 0 |-> a], 0)
    OBVIOUS
  <2> QED BY <2>1
<1>2. ASSUME NEW m \in Nat, m \in S PROVE m + 1 \in S
  <2>1. PICK g : UpTo(g, m)
    BY <1>2
  <2> DEFINE h == [j \in 0 .. m + 1 |-> IF j = m + 1 THEN Step(g[m], m + 1) ELSE g[j]]
  <2>2. ASSUME NEW j \in 0 .. m + 1 PROVE h[j] = IF j = 0 THEN a ELSE Step(h[j - 1], j)
    <3>1. CASE j = m + 1
      <4>1. j - 1 = m /\ j # 0 /\ m \in 0 .. m + 1 /\ m # m + 1
        BY <3>1
      <4>2. h[j - 1] = g[m] /\ h[j] = Step(g[m], j)
        BY <3>1, <4>1
      <4> QED BY <4>1, <4>2
    <3>2. CASE j # m + 1
      <4>1. j \in 0 .. m /\ h[j] = g[j] /\ (j # 0 => h[j - 1] = g[j - 1])
        BY <3>2
      <4> QED BY <2>1, <4>1
    <3> QED BY <3>1, <3>2
  <2> HIDE DEF h
  <2>3. UpTo(h, m + 1)
    BY <2>2
  <2> QED BY <2>3
<1> HIDE DEF S
<1>3. k \in S
  BY <1>0, <1>1, <1>2, Counting
<1>4. PICK g : UpTo(g, k)
  BY <1>3 DEF S
<1> DEFINE h == [j \in 0 .. k |-> g[j]]
           Is(f) == f = [j \in 0 .. k |-> IF j = 0 THEN a ELSE Step(f[j - 1], j)]
<1>5. Is(h)
  <2>1. ASSUME NEW j \in 0 .. k PROVE h[j] = IF j = 0 THEN a ELSE Step(h[j - 1], j)
    <3>1. j # 0 => j - 1 \in 0 .. k
      BY <1>0
    <3> QED BY <1>4, <3>1
  <2> HIDE DEF UpTo
  <2> QED BY <2>1
<1> DEFINE f == CHOOSE f : Is(f)
<1>6. Is(f)
  BY <1>5
<1>7. forward_token(Config, token, c) = [logits |-> lm_head(Config, f[k].x), cache |-> f[k].cache]
  BY DEF forward_token, forward_with, SiluTable, k, a, Step
<1> HIDE DEF f
<1>8. IsAfter(f, token, c)
  BY <1>6 DEF IsAfter, k, a, Step
<1> QED BY <1>7, <1>8 DEF k

\* forward_token on a cache of the tokens before: the logits of the whole sequence, and the cache of all.
LEMMA ForwardIs ==
  ASSUME NEW n \in Nat \ {0}, NEW tokens \in Tokens(n), Within(n), NEW max_seq \in Nat, n <= max_seq,
         NEW c, c.pos = n - 1, CacheHolds(c, tokens, n - 1, max_seq), NEW f, f = forward_token(Config, tokens[n], c)
  PROVE  /\ f.logits = Uncached(tokens) /\ f.logits \in Numbers(Config.vocab)
         /\ f.cache.pos = n - 1 /\ CacheHolds(f.cache, tokens, n, max_seq)
<1> DEFINE k == Config.n_layers   token == tokens[n]
<1>0. k \in Nat /\ n \in 1 .. n /\ \A li \in Layers : li \in Nat /\ li < k
  BY ConfigIs DEF Layers
<1>1. PICK g : IsAfter(g, token, c) /\ forward_token(Config, token, c) = [logits |-> lm_head(Config, g[k].x), cache |-> g[k].cache]
  BY ForwardUnfolds
<1>2. /\ g[0] = [x |-> Embedding(Config, token), cache |-> c]
      /\ \A j \in 0 .. k - 1 : g[j + 1] = layer_step(Config, g[j], j, SiluTable)
  <2>1. g = [j \in 0 .. k |-> IF j = 0 THEN [x |-> Embedding(Config, token), cache |-> c]
                              ELSE layer_step(Config, g[j - 1], j - 1, SiluTable)]
    BY <1>1 DEF IsAfter
  <2>2. \A j \in 0 .. k - 1 : j + 1 \in 0 .. k /\ (j + 1) - 1 = j /\ j + 1 # 0
    BY <1>0
  <2>3. g[0] = [x |-> Embedding(Config, token), cache |-> c]
    BY <1>0, <2>1
  <2> QED BY <2>1, <2>2, <2>3
<1> DEFINE S == {j \in Nat : Reaches(g[j], tokens, n, j, max_seq)}
<1>3. 0 \in S
  <2>1. Streams(tokens)[0] = [t \in 1 .. n |-> Embedding(Config, tokens[t])]
    BY StreamsAre
  <2>2. g[0].x = Streams(tokens)[0][n] /\ g[0].cache = c
    BY <1>0, <1>2, <2>1
  <2>3. Shaped(c, max_seq) /\ \A li \in Layers : Holds(c, li, Mixing(tokens, li), n - 1)
    BY DEF CacheHolds
  <2>4. \A li \in Layers : (IF li < 0 THEN n ELSE n - 1) = n - 1
    BY <1>0
  <2>5. Reaches(g[0], tokens, n, 0, max_seq)
    BY <2>2, <2>3, <2>4 DEF Reaches
  <2> QED BY <2>5
<1>4. ASSUME NEW j \in 0 .. k - 1, j \in S PROVE j + 1 \in S
  <2>1. j \in Layers /\ j + 1 \in Nat
    BY DEF Layers
  <2>2. Reaches(layer_step(Config, g[j], j, SiluTable), tokens, n, j + 1, max_seq)
    BY <1>4, <2>1, LayerReaches
  <2> QED BY <1>2, <2>1, <2>2
<1> HIDE DEF S
<1>5. k \in S
  <2>1. \A j \in 0 .. k : j \in S
    <3> HIDE DEF k
    <3> QED BY <1>0, <1>3, <1>4, CountingTo
  <2> QED BY <1>0, <2>1
<1>6. Reaches(g[k], tokens, n, k, max_seq)
  BY <1>5 DEF S
<1>7. f.logits = lm_head(Config, g[k].x) /\ f.cache = g[k].cache
  BY <1>1
<1>8. /\ g[k].x = Streams(tokens)[k][n] /\ Shaped(g[k].cache, max_seq) /\ g[k].cache.pos = n - 1
      /\ \A li \in Layers : Holds(g[k].cache, li, Mixing(tokens, li), n)
  BY <1>0, <1>6 DEF Reaches
<1>9. f.logits = Uncached(tokens)
  <2>1. Len(tokens) = n
    BY DEF Tokens
  <2> QED BY <1>7, <1>8, <2>1 DEF Uncached
<1>10. f.logits \in Numbers(Config.vocab)
  <2>1. Streams(tokens) \in [0 .. k -> Rows(n)]
    BY StreamsAre
  <2>2. Streams(tokens)[k][n] \in Numbers(Config.d_model)
    BY <1>0, <2>1 DEF Rows
  <2> QED BY <1>7, <1>8, <2>2, LmHeadType
<1> QED BY <1>7, <1>8, <1>9, <1>10 DEF CacheHolds

-----------------------------------------------------------------------------
(* The caches between two calls of forward_token                            *)

\* A prefix of a sequence stays inside the positions of the sequence.
LEMMA PositionsAre ==
  ASSUME NEW length \in Lengths, NEW n \in Nat, n <= length
  PROVE  length \in Nat /\ Within(n)
<1>1. length \in Nat
  <2>1. PICK prompt \in Prompts, m \in NewTokens : length = Len(prompt) + m
    BY DEF Lengths
  <2>2. prompt \in Seq(Token) /\ m \in Nat
    BY DecodeAssumption
  <2> QED BY <2>1, <2>2
<1>2. \A t \in 1 .. n : t - 1 \in 0 .. length - 1
  BY <1>1
<1> QED BY <1>1, <1>2 DEF Positions, Within

\* What a layer's cache holds of t tokens depends on those only.
LEMMA HoldsSame ==
  ASSUME NEW li \in Layers, NEW n \in Nat, NEW hs \in Rows(n), NEW m \in Nat, NEW gs \in Rows(m),
         NEW t \in Nat, t <= n, t <= m, SameUpTo(hs, gs, t), NEW c, Holds(c, li, hs, t)
  PROVE  Holds(c, li, gs, t)
<1>1. CASE is_attention_layer(Config, li)
  <2>1. \A s \in 1 .. t : s \in 1 .. n /\ s \in 1 .. m /\ hs[s] = gs[s]
    BY DEF SameUpTo
  <2>2. \A s \in 1 .. t : Keys(hs, li)[s] = Keys(gs, li)[s] /\ Values(hs, li)[s] = Values(gs, li)[s]
    BY <2>1, KeysAre
  <2> QED BY <1>1, <2>2 DEF Holds, SameUpTo
<1>2. CASE ~is_attention_layer(Config, li)
  <2>1. Hist(Cats(hs, li), t) = Hist(Cats(gs, li), t)
    BY <1>2, CatsSame
  <2>2. StatesAt(hs, li, t) = StatesAt(gs, li, t)
    BY <1>2, StatesSame
  <2> QED BY <1>2, <2>1, <2>2 DEF Holds
<1> QED BY <1>1, <1>2

\* So does what the whole cache holds.
LEMMA CacheHoldsSame ==
  ASSUME NEW n \in Nat, NEW a \in Tokens(n), Within(n), NEW m \in Nat, NEW b \in Tokens(m), Within(m),
         NEW t \in Nat, t <= n, t <= m, SameUpTo(a, b, t), NEW c, NEW max_seq, CacheHolds(c, a, t, max_seq)
  PROVE  CacheHolds(c, b, t, max_seq)
<1>1. ASSUME NEW li \in Layers PROVE Holds(c, li, Mixing(b, li), t)
  <2>1. Mixing(a, li) \in Rows(n) /\ Mixing(b, li) \in Rows(m)
    BY MixingType
  <2>2. SameUpTo(Mixing(a, li), Mixing(b, li), t)
    BY StreamsSame
  <2>3. Holds(c, li, Mixing(a, li), t)
    BY DEF CacheHolds
  <2> QED BY <2>1, <2>2, <2>3, HoldsSame
<1> QED BY <1>1 DEF CacheHolds

\* cache.pos += 1 changes nothing but pos.
LEMMA AdvanceIs ==
  ASSUME NEW c, HasFields(c)
  PROVE  /\ Advance(c).pos = c.pos + 1 /\ HasFields(Advance(c))
         /\ Advance(c).k = c.k /\ Advance(c).v = c.v /\ Advance(c).conv = c.conv /\ Advance(c).state = c.state
<1> DEFINE F == {"k", "v", "conv", "state", "pos"}
           d == [c EXCEPT !.pos = c.pos + 1]
           r == [k |-> d.k, v |-> d.v, conv |-> d.conv, state |-> d.state, pos |-> d.pos]
<1>1. DOMAIN c = F
  <2>1. DOMAIN [k |-> c.k, v |-> c.v, conv |-> c.conv, state |-> c.state, pos |-> c.pos] = F
    OBVIOUS
  <2> QED BY <2>1 DEF HasFields
<1>2. Advance(c) = d
  BY DEF Advance
<1>3. d.k = c.k /\ d.v = c.v /\ d.conv = c.conv /\ d.state = c.state /\ d.pos = c.pos + 1
  BY <1>1
<1>4. d = [f \in F |-> d[f]]
  BY <1>1
<1> HIDE DEF d
<1>5. r = [f \in F |-> d[f]]
  OBVIOUS
<1>6. HasFields(d)
  BY <1>4, <1>5 DEF HasFields
<1> QED BY <1>2, <1>3, <1>6

\* The caches hold what they held.
LEMMA AdvanceHolds ==
  ASSUME NEW tokens, NEW t, NEW max_seq, NEW c, CacheHolds(c, tokens, t, max_seq)
  PROVE  CacheHolds(Advance(c), tokens, t, max_seq) /\ Advance(c).pos = c.pos + 1
<1> DEFINE d == Advance(c)
<1>1. HasFields(c)
  BY DEF CacheHolds, Shaped
<1>2. d.pos = c.pos + 1 /\ HasFields(d) /\ d.k = c.k /\ d.v = c.v /\ d.conv = c.conv /\ d.state = c.state
  BY <1>1, AdvanceIs
<1> HIDE DEF d
<1>3. Shaped(d, max_seq)
  BY <1>2 DEF CacheHolds, Shaped
<1>4. \A li \in Layers : Holds(d, li, Mixing(tokens, li), t)
  BY <1>2 DEF CacheHolds, Holds
<1>5. CacheHolds(d, tokens, t, max_seq)
  BY <1>3, <1>4 DEF CacheHolds
<1> QED BY <1>2, <1>5 DEF d

\* Model.init_cache
LEMMA CachesHold ==
  ASSUME NEW max_seq \in Nat, NEW tokens \in Tokens(0)
  PROVE  CacheHolds(Caches(Config, max_seq), tokens, 0, max_seq) /\ Caches(Config, max_seq).pos = 0
<1> DEFINE row == Vec(Config.n_kv_heads, LAMBDA h : Vec(Config.head_dim, LAMBDA d : Stale))
           empty == Vec(max_seq, LAMBDA t : row)
           zero == Vec(Config.dn_v_heads, LAMBDA h : ZeroState)
           c == Caches(Config, max_seq)
           none(x) == [li \in 0 .. Config.n_layers - 1 |-> x]
<1>1. c = [k |-> none(empty), v |-> none(empty), conv |-> none(<<>>), state |-> none(zero), pos |-> 0]
  BY DEF Caches, ZeroState
<1> HIDE DEF row, c, zero
<1>2. empty = [t \in 1 .. max_seq |-> row]
  <2>1. empty = Eager([t \in 1 .. max_seq |-> row])
    BY DEF Vec
  <2> QED BY <2>1 DEF Eager
<1> HIDE DEF empty
<1>3. zero = [h \in 1 .. Config.dn_v_heads |-> ZeroState]
  <2>1. zero = Eager([h \in 1 .. Config.dn_v_heads |-> ZeroState])
    BY DEF zero, Vec
  <2>2. Config.dn_v_heads \in Nat
    BY ConfigIs
  <2> QED BY <2>1, <2>2 DEF Eager
<1>4. /\ c.k = [li \in Layers |-> empty] /\ c.v = [li \in Layers |-> empty] /\ c.conv = [li \in Layers |-> <<>>]
      /\ c.state = [li \in Layers |-> zero] /\ c.pos = 0
  BY <1>1 DEF Layers
<1>5. Shaped(c, max_seq)
  <2>1. HasFields(c)
    BY <1>1 DEF HasFields
  <2>2. \A li \in Layers : c.k[li] = empty /\ c.v[li] = empty
    BY <1>4
  <2> QED BY <1>2, <1>4, <2>1, <2>2 DEF Shaped
<1>6. ASSUME NEW li \in Layers PROVE Holds(c, li, Mixing(tokens, li), 0)
  <2> DEFINE hs == Mixing(tokens, li)
  <2>1. Within(0)
    BY DEF Within
  <2>2. hs \in Rows(0)
    BY <2>1, MixingType
  <2> HIDE DEF hs
  <2>3. CASE is_attention_layer(Config, li)
    BY <2>3 DEF Holds, SameUpTo, hs
  <2>4. CASE ~is_attention_layer(Config, li)
    <3>1. StatesAt(hs, li, 0) = zero
      BY <1>3, <2>2, <2>4, StatesZero
    <3>2. Hist(Cats(hs, li), 0) = <<>>
      <4>1. Window(0) = 0
        BY ConfigIs DEF Window
      <4> QED BY <4>1 DEF Hist
    <3> QED BY <1>4, <2>4, <3>1, <3>2 DEF Holds, hs
  <2> QED BY <2>3, <2>4
<1>7. CacheHolds(c, tokens, 0, max_seq)
  BY <1>5, <1>6 DEF CacheHolds
<1> QED BY <1>4, <1>7 DEF c

-----------------------------------------------------------------------------
(* The inductive invariant                                                  *)

\* The tokens the caches have seen, and the size of the buffers
Position == IF at = "prefill" THEN fed ELSE Len(out)
Seen == SubSeq(out, 1, Position)
MaxSeq == Len(out) + n_new

\* The caches hold, for every layer, the keys and values, the last inputs of the
\* convolution and the states of the tokens seen, as computed over them as a whole;
\* the logits are those of these tokens.
DecodeInv ==
  /\ at \in {"prefill", "decode", "done"} /\ n_new \in Nat /\ (at = "done" => n_new = 0)
  /\ out \in Seq(Token) /\ MaxSeq \in Lengths /\ fed \in 0 .. Len(out)
  /\ cache.pos = Position /\ CacheHolds(cache, Seen, Position, MaxSeq)
  /\ IF Position = 0 THEN logits = <<>> ELSE logits = Uncached(Seen) /\ logits \in Numbers(Config.vocab)

\* The first n tokens of a sequence.
LEMMA PrefixIs ==
  ASSUME NEW s \in Seq(Token), NEW n \in 0 .. Len(s)
  PROVE  /\ SubSeq(s, 1, n) \in Tokens(n) /\ \A i \in 1 .. n : SubSeq(s, 1, n)[i] = s[i]
<1>1. SubSeq(s, 1, n) = [i \in 1 .. n |-> s[i]]
  OBVIOUS
<1>2. \A i \in 1 .. n : s[i] \in Token
  OBVIOUS
<1> QED BY <1>1, <1>2 DEF Tokens

\* One call of forward_token: t tokens seen before, s the sequence with the next.
LEMMA ForwardStep ==
  ASSUME NEW s \in Seq(Token), NEW t \in Nat, t < Len(s), NEW max_seq \in Lengths, Len(s) <= max_seq,
         NEW c, c.pos = t, CacheHolds(c, SubSeq(s, 1, t), t, max_seq),
         NEW f, f = forward_token(Config, s[t + 1], c)
  PROVE  /\ f.logits = Uncached(SubSeq(s, 1, t + 1)) /\ f.logits \in Numbers(Config.vocab)
         /\ Advance(f.cache).pos = t + 1 /\ CacheHolds(Advance(f.cache), SubSeq(s, 1, t + 1), t + 1, max_seq)
<1> DEFINE n == t + 1   a == SubSeq(s, 1, t)   b == SubSeq(s, 1, n)
<1>1. n \in Nat \ {0} /\ n - 1 = t /\ n \in 0 .. Len(s) /\ t \in 0 .. Len(s) /\ t <= n /\ t <= t /\ n \in 1 .. n
  OBVIOUS
<1>2. max_seq \in Nat /\ n <= max_seq /\ t <= max_seq
  <2>1. max_seq \in Nat
    BY <1>1, PositionsAre
  <2> QED BY <1>1, <2>1
<1>3. Within(n) /\ Within(t)
  BY <1>1, <1>2, PositionsAre
<1> HIDE DEF n
<1>4. a \in Tokens(t) /\ b \in Tokens(n) /\ (\A i \in 1 .. t : a[i] = s[i]) /\ (\A i \in 1 .. n : b[i] = s[i])
  BY <1>1, PrefixIs
<1> HIDE DEF a, b
<1>5. SameUpTo(a, b, t) /\ b[n] = s[n]
  BY <1>1, <1>4 DEF SameUpTo
<1>6. CacheHolds(c, a, t, max_seq)
  BY DEF a
<1>7. CacheHolds(c, b, n - 1, max_seq)
  BY <1>1, <1>3, <1>4, <1>5, <1>6, CacheHoldsSame
<1>8. c.pos = n - 1 /\ f = forward_token(Config, b[n], c)
  BY <1>1, <1>5 DEF n
<1>9. /\ f.logits = Uncached(b) /\ f.logits \in Numbers(Config.vocab)
      /\ f.cache.pos = n - 1 /\ CacheHolds(f.cache, b, n, max_seq)
  BY <1>1, <1>2, <1>3, <1>4, <1>7, <1>8, ForwardIs
<1>10. CacheHolds(Advance(f.cache), b, n, max_seq) /\ Advance(f.cache).pos = (n - 1) + 1
  <2> DEFINE d == f.cache
  <2>1. d.pos = n - 1 /\ CacheHolds(d, b, n, max_seq)
    BY <1>9
  <2> HIDE DEF d
  <2>2. CacheHolds(Advance(d), b, n, max_seq) /\ Advance(d).pos = d.pos + 1
    BY <2>1, AdvanceHolds
  <2> QED BY <2>1, <2>2 DEF d
<1>11. (n - 1) + 1 = n
  BY <1>1
<1> QED BY <1>9, <1>10, <1>11 DEF b, n

\* The new caches hold nothing.
LEMMA DecodeInit == Init => DecodeInv
<1> SUFFICES ASSUME NEW prompt \in Prompts, NEW n \in NewTokens, InitWith(prompt, n) PROVE DecodeInv
  BY DEF Init
<1>1. prompt \in Seq(Token) /\ n \in Nat /\ Len(prompt) \in Nat /\ Len(prompt) + n \in Nat /\ Len(prompt) + n \in Lengths
  BY DecodeAssumption DEF Lengths
<1>2. at = "prefill" /\ n_new = n /\ fed = 0 /\ out = prompt /\ logits = <<>> /\ cache = Caches(Config, Len(prompt) + n)
  BY DEF InitWith
<1>3. SubSeq(prompt, 1, 0) \in Tokens(0)
  BY <1>1, PrefixIs
<1>4. /\ CacheHolds(Caches(Config, Len(prompt) + n), SubSeq(prompt, 1, 0), 0, Len(prompt) + n)
      /\ Caches(Config, Len(prompt) + n).pos = 0
  BY <1>1, <1>3, CachesHold
<1>5. Position = 0 /\ Seen = SubSeq(prompt, 1, 0) /\ MaxSeq = Len(prompt) + n
  BY <1>2 DEF Position, Seen, MaxSeq
<1> QED BY <1>1, <1>2, <1>4, <1>5 DEF DecodeInv

\* Every step of generate keeps the invariant.
LEMMA DecodeNext == DecodeInv /\ [Next]_vars => DecodeInv'
<1> SUFFICES ASSUME DecodeInv, [Next]_vars PROVE DecodeInv'
  OBVIOUS
<1>0. /\ at \in {"prefill", "decode", "done"} /\ n_new \in Nat /\ (at = "done" => n_new = 0)
      /\ out \in Seq(Token) /\ MaxSeq \in Lengths /\ fed \in 0 .. Len(out) /\ Len(out) \in Nat
      /\ cache.pos = Position /\ CacheHolds(cache, Seen, Position, MaxSeq)
      /\ IF Position = 0 THEN logits = <<>> ELSE logits = Uncached(Seen) /\ logits \in Numbers(Config.vocab)
  BY DEF DecodeInv
<1>1. CASE Prefill
  <2>1. at = "prefill" /\ fed < Len(out) /\ fed' = fed + 1 /\ at' = at /\ n_new' = n_new /\ out' = out
        /\ logits' = forward_token(Config, out[fed + 1], cache).logits
        /\ cache' = Advance(forward_token(Config, out[fed + 1], cache).cache)
    BY <1>1 DEF Prefill, Forward
  <2>2. Position = fed /\ Seen = SubSeq(out, 1, fed) /\ Len(out) <= MaxSeq /\ fed \in Nat
    BY <1>0, <2>1 DEF Position, Seen, MaxSeq
  <2>3. /\ logits' = Uncached(SubSeq(out, 1, fed + 1)) /\ logits' \in Numbers(Config.vocab)
        /\ cache'.pos = fed + 1 /\ CacheHolds(cache', SubSeq(out, 1, fed + 1), fed + 1, MaxSeq)
    BY <1>0, <2>1, <2>2, ForwardStep
  <2>4. Position' = fed + 1 /\ Seen' = SubSeq(out, 1, fed + 1) /\ MaxSeq' = MaxSeq
    BY <2>1 DEF Position, Seen, MaxSeq
  <2>5. fed' \in 0 .. Len(out') /\ fed + 1 # 0
    BY <1>0, <2>1
  <2> QED BY <1>0, <2>1, <2>3, <2>4, <2>5 DEF DecodeInv
<1>2. CASE Prefilled
  <2>1. at = "prefill" /\ fed = Len(out) /\ at' = "decode" /\ n_new' = n_new /\ fed' = fed /\ out' = out
        /\ logits' = logits /\ cache' = cache
    BY <1>2 DEF Prefilled
  <2>2. Position' = Position /\ Seen' = Seen /\ MaxSeq' = MaxSeq
    BY <2>1 DEF Position, Seen, MaxSeq
  <2> QED BY <1>0, <2>1, <2>2 DEF DecodeInv
<1>3. CASE Generate
  <2> DEFINE token == argmax(logits)   s == Append(out, token)   t == Len(out)
  <2>1. at = "decode" /\ n_new > 0 /\ out' = s /\ n_new' = n_new - 1 /\ at' = at /\ fed' = fed
        /\ logits' = forward_token(Config, token, cache).logits
        /\ cache' = Advance(forward_token(Config, token, cache).cache)
    BY <1>3 DEF Generate, Forward
  <2>2. token \in Token
    BY <1>0, ArgmaxType
  <2> HIDE DEF token
  <2>3. s \in Seq(Token) /\ Len(s) = t + 1 /\ s[t + 1] = token /\ t \in Nat /\ t < Len(s) /\ SubSeq(s, 1, t) = SubSeq(out, 1, t)
        /\ Len(s) <= MaxSeq
    BY <1>0, <2>1, <2>2 DEF MaxSeq
  <2>4. Position = t /\ Seen = SubSeq(s, 1, t)
    BY <2>1, <2>3 DEF Position, Seen
  <2>5. MaxSeq' = MaxSeq
    BY <1>0, <2>1, <2>3 DEF MaxSeq
  <2> HIDE DEF s
  <2>6. /\ logits' = Uncached(SubSeq(s, 1, t + 1)) /\ logits' \in Numbers(Config.vocab)
        /\ cache'.pos = t + 1 /\ CacheHolds(cache', SubSeq(s, 1, t + 1), t + 1, MaxSeq)
    BY <1>0, <2>1, <2>3, <2>4, ForwardStep
  <2>7. Position' = t + 1 /\ Seen' = SubSeq(s, 1, t + 1)
    BY <2>1, <2>3 DEF Position, Seen
  <2>8. fed' \in 0 .. Len(out') /\ t + 1 # 0 /\ n_new' \in Nat
    BY <1>0, <2>1, <2>3
  <2> QED BY <1>0, <2>1, <2>3, <2>5, <2>6, <2>7, <2>8 DEF DecodeInv
<1>4. CASE Return
  <2>1. at = "decode" /\ n_new = 0 /\ at' = "done" /\ n_new' = n_new /\ fed' = fed /\ out' = out
        /\ logits' = logits /\ cache' = cache
    BY <1>4 DEF Return
  <2>2. Position' = Position /\ Seen' = Seen /\ MaxSeq' = MaxSeq
    BY <2>1 DEF Position, Seen, MaxSeq
  <2> QED BY <1>0, <2>1, <2>2 DEF DecodeInv
<1>5. CASE UNCHANGED vars
  BY <1>0, <1>5 DEF vars, DecodeInv, Position, Seen, MaxSeq
<1> QED BY <1>1, <1>2, <1>3, <1>4, <1>5 DEF Next

\* The logits of the last forward_token are those of the whole sequence.
LEMMA DecodeInvMatches == DecodeInv => DecodeMatchesPrefill
<1> SUFFICES ASSUME DecodeInv PROVE DecodeMatchesPrefill
  OBVIOUS
<1>1. cache.pos = Position /\ Shaped(cache, MaxSeq) /\ n_new \in Nat /\ Len(out) \in Nat /\ fed \in 0 .. Len(out)
      /\ (Position # 0 => logits = Uncached(Seen))
  BY DEF DecodeInv, CacheHolds
<1>2. ASSUME n_new > 0 \/ (at = "prefill" /\ fed < Len(out)), NEW li \in Layers
      PROVE  cache.pos + 1 \in DOMAIN cache.k[li]
  <2>1. DOMAIN cache.k[li] = 1 .. MaxSeq
    BY <1>1 DEF Shaped
  <2>2. Position + 1 \in 1 .. Len(out) + n_new
    BY <1>1, <1>2 DEF Position
  <2> QED BY <1>1, <2>1, <2>2 DEF MaxSeq
<1> QED BY <1>1, <1>2 DEF DecodeMatchesPrefill, Position, Seen, Layers

\* Greedy decoding with caches computes the logits of the whole sequence, after every
\* step, for every configuration, every model and all prompts; and the next position
\* is within the buffers as long as a token is to come.
THEOREM DecodeCorrect == Spec => []DecodeMatchesPrefill
BY DecodeInit, DecodeNext, DecodeInvMatches, PTL DEF Spec

-----------------------------------------------------------------------------
(* The server: settings                                                     *)

\* The settings of a job are settings, and none of them is None.
LEMMA OwnIsSetting ==
  ASSUME NEW j \in Job
  PROVE  Server!Own(j) \in Server!Setting /\ Server!Own(j) # None /\ Payload[j] \in Server!Setting /\ Environ0 \in Server!Setting
BY ServerAssumption DEF Server!SettingsOK, Server!Own, Server!Overlay, Server!Setting

\* Overlaying is closed on settings.
LEMMA OverlayIsSetting ==
  ASSUME NEW e \in Server!Setting, NEW s \in Server!Setting
  PROVE  Server!Overlay(e, s) \in Server!Setting
BY DEF Server!Overlay, Server!Setting

\* os.environ.update(changed) gives the process the settings of the job.
LEMMA EnterOverlay ==
  ASSUME NEW j \in Job
  PROVE  Server!Overlay(Environ0, Server!Own(j)) = Server!Own(j)
<1>1. \A k \in Key : (IF Server!Own(j)[k] # Unset THEN Server!Own(j)[k] ELSE Environ0[k]) = Server!Own(j)[k]
  BY DEF Server!Own, Server!Overlay
<1>2. Server!Own(j) = [k \in Key |-> Server!Own(j)[k]]
  BY OwnIsSetting DEF Server!Setting
<1>3. Server!Overlay(Environ0, Server!Own(j)) = [k \in Key |-> Server!Own(j)[k]]
  BY <1>1 DEF Server!Overlay
<1> QED BY <1>2, <1>3

\* The finally clause of _temporary_env undoes the update, including the
\* variables that were not set.
LEMMA LeaveRestores ==
  ASSUME NEW j \in Job
  PROVE  Server!Restored(Server!Own(j), Server!Own(j), Environ0) = Environ0
<1>1. \A k \in Key : (IF Server!Own(j)[k] # Unset THEN Environ0[k] ELSE Server!Own(j)[k]) = Environ0[k]
  BY DEF Server!Own, Server!Overlay
<1>2. Environ0 = [k \in Key |-> Environ0[k]]
  BY ServerAssumption DEF Server!SettingsOK, Server!Setting
<1>3. Server!Restored(Server!Own(j), Server!Own(j), Environ0) = [k \in Key |-> Environ0[k]]
  BY <1>1 DEF Server!Restored
<1> QED BY <1>2, <1>3

-----------------------------------------------------------------------------
(* The server: the inductive invariant                                      *)

Inside(j) == place[j] \in {"build", "leave"}
InThread  == {"env", "enter", "build", "leave", "summarize", "simulate", "collect", "succeed", "fail"}

\* The place of a job determines its status, and an unended job is the active one.
PlaceInv ==
  \A j \in Job :
    /\ place[j] = "new" <=> status[j] = "none"
    /\ place[j] \in {"created", "lost", "begin"} <=> status[j] = "queued"
    /\ place[j] \in InThread <=> status[j] = "running"
    /\ status[j] \in Server!Unended => active_job_id = j

\* What the variables of a job hold at each place.
SettingsInv ==
  \A j \in Job :
    /\ place[j] \in {"enter", "build", "leave", "simulate", "collect"} => env[j] = Server!Own(j)
    /\ Inside(j) => saved[j] = Environ0 /\ environ = Server!Own(j)
    /\ place[j] = "summarize" => run[j] = Server!Own(j)
    /\ place[j] = "collect" => run_json = Server!Own(j)
    /\ run[j] \in {None, Server!Own(j)} /\ result[j] \in {None, Server!Own(j)}
    /\ place[j] = "succeed" \/ status[j] = "succeeded" => result[j] = Server!Own(j)

\* The environment is the server's own when no job is inside.
EnvironInv == (\A j \in Job : ~Inside(j)) => environ = Environ0

\* A handler that has read "succeeded" finds the result, now or later.
ReaderInv ==
  \A r \in Reader :
    /\ whole[r] => reading[r] # None
    /\ reading[r] # None /\ body[r].status = "succeeded" =>
         /\ status[reading[r]] = "succeeded"
         /\ whole[r] => body[r].result = Server!Own(reading[r])

ServerInv == Server!TypeOK /\ PlaceInv /\ SettingsInv /\ EnvironInv /\ ReaderInv

-----------------------------------------------------------------------------
(* One lemma per action                                                     *)

\* A new job becomes the active one; the one before has ended.
LEMMA CreatePreserves ==
  ASSUME ServerInv, NEW j \in Job, Server!Create(j)
  PROVE  ServerInv'
<1> USE ServerAssumption DEF ServerInv, Server!Goto, Server!job, Server!reader
<1>1. Server!TypeOK'
  BY OwnIsSetting, OverlayIsSetting DEF Server!Create, Server!Free, Server!TypeOK, Server!Places,
     Server!Statuses, Server!Maybe, Server!SettingsOK
<1>2. PlaceInv'
  BY DEF Server!Create, Server!Free, Server!TypeOK, PlaceInv, InThread, Server!Unended, Server!Places,
     Server!Statuses
<1>3. SettingsInv'
  BY OwnIsSetting, EnterOverlay, LeaveRestores DEF Server!Create, Server!TypeOK, PlaceInv, SettingsInv,
     EnvironInv, Inside, InThread, Server!Unended, Server!Places, Server!Statuses
<1>4. EnvironInv'
  BY OwnIsSetting, EnterOverlay, LeaveRestores DEF Server!Create, Server!TypeOK, PlaceInv, SettingsInv,
     EnvironInv, Inside, InThread, Server!Unended
<1>5. ReaderInv'
  BY OwnIsSetting DEF Server!Create, Server!TypeOK, PlaceInv, SettingsInv, ReaderInv, InThread,
     Server!Unended, Server!Places, Server!Statuses, Server!Maybe
<1> QED BY <1>1, <1>2, <1>3, <1>4, <1>5

\* The thread starts, or the job is left behind, still the active one.
LEMMA StartThreadPreserves ==
  ASSUME ServerInv, NEW j \in Job, Server!StartThread(j)
  PROVE  ServerInv'
<1> USE ServerAssumption DEF ServerInv, Server!Goto, Server!job, Server!reader
<1>1. Server!TypeOK'
  BY OwnIsSetting, OverlayIsSetting DEF Server!StartThread, Server!TypeOK, Server!Places,
     Server!Statuses, Server!Maybe, Server!SettingsOK
<1>2. PlaceInv'
  BY DEF Server!StartThread, Server!TypeOK, PlaceInv, InThread, Server!Unended, Server!Places,
     Server!Statuses
<1>3. SettingsInv'
  BY OwnIsSetting, EnterOverlay, LeaveRestores DEF Server!StartThread, Server!TypeOK, PlaceInv,
     SettingsInv, EnvironInv, Inside, InThread, Server!Unended, Server!Places, Server!Statuses
<1>4. EnvironInv'
  BY OwnIsSetting, EnterOverlay, LeaveRestores DEF Server!StartThread, Server!TypeOK, PlaceInv,
     SettingsInv, EnvironInv, Inside, InThread, Server!Unended
<1>5. ReaderInv'
  BY OwnIsSetting DEF Server!StartThread, Server!TypeOK, PlaceInv, SettingsInv, ReaderInv, InThread,
     Server!Unended, Server!Places, Server!Statuses, Server!Maybe
<1> QED BY <1>1, <1>2, <1>3, <1>4, <1>5

\* The job runs.
LEMMA BeginPreserves ==
  ASSUME ServerInv, NEW j \in Job, Server!Begin(j)
  PROVE  ServerInv'
<1> USE ServerAssumption DEF ServerInv, Server!Goto, Server!job, Server!reader
<1>1. Server!TypeOK'
  BY OwnIsSetting, OverlayIsSetting DEF Server!Begin, Server!TypeOK, Server!Places, Server!Statuses,
     Server!Maybe, Server!SettingsOK
<1>2. PlaceInv'
  BY DEF Server!Begin, Server!TypeOK, PlaceInv, InThread, Server!Unended, Server!Places, Server!Statuses
<1>3. SettingsInv'
  BY OwnIsSetting, EnterOverlay, LeaveRestores DEF Server!Begin, Server!TypeOK, PlaceInv, SettingsInv,
     EnvironInv, Inside, InThread, Server!Unended, Server!Places, Server!Statuses
<1>4. EnvironInv'
  BY OwnIsSetting, EnterOverlay, LeaveRestores DEF Server!Begin, Server!TypeOK, PlaceInv, SettingsInv,
     EnvironInv, Inside, InThread, Server!Unended
<1>5. ReaderInv'
  BY OwnIsSetting DEF Server!Begin, Server!TypeOK, PlaceInv, SettingsInv, ReaderInv, InThread,
     Server!Unended, Server!Places, Server!Statuses, Server!Maybe
<1> QED BY <1>1, <1>2, <1>3, <1>4, <1>5

\* The environment is the server's own when the settings of the request are laid over it.
LEMMA JobEnvPreserves ==
  ASSUME ServerInv, NEW j \in Job, Server!JobEnv(j)
  PROVE  ServerInv'
<1> USE ServerAssumption DEF ServerInv, Server!Goto, Server!job, Server!reader
<1>1. Server!TypeOK'
  BY OwnIsSetting, OverlayIsSetting DEF Server!JobEnv, Server!TypeOK, Server!Places, Server!Statuses,
     Server!Maybe, Server!SettingsOK
<1>2. PlaceInv'
  BY DEF Server!JobEnv, Server!TypeOK, PlaceInv, InThread, Server!Unended, Server!Places, Server!Statuses
<1>3. environ = Environ0
  BY DEF Server!JobEnv, Server!TypeOK, PlaceInv, EnvironInv, Inside, InThread, Server!Unended
<1>4. SettingsInv'
  BY <1>3, OwnIsSetting DEF Server!Own, Server!JobEnv, Server!TypeOK, PlaceInv, SettingsInv,
     EnvironInv, Inside, InThread, Server!Unended, Server!Places, Server!Statuses
<1>5. EnvironInv'
  BY OwnIsSetting, EnterOverlay, LeaveRestores DEF Server!JobEnv, Server!TypeOK, PlaceInv, SettingsInv,
     EnvironInv, Inside, InThread, Server!Unended
<1>6. ReaderInv'
  BY OwnIsSetting DEF Server!JobEnv, Server!TypeOK, PlaceInv, SettingsInv, ReaderInv, InThread,
     Server!Unended, Server!Places, Server!Statuses, Server!Maybe
<1> QED BY <1>1, <1>2, <1>4, <1>5, <1>6

\* The process now has the settings of the job.
LEMMA EnterEnvPreserves ==
  ASSUME ServerInv, NEW j \in Job, Server!EnterEnv(j)
  PROVE  ServerInv'
<1> USE ServerAssumption DEF ServerInv, Server!Goto, Server!job, Server!reader
<1>1. Server!TypeOK'
  BY OwnIsSetting, OverlayIsSetting DEF Server!EnterEnv, SettingsInv, Server!TypeOK, Server!Places,
     Server!Statuses, Server!Maybe, Server!SettingsOK
<1>2. PlaceInv'
  BY DEF Server!EnterEnv, Server!TypeOK, PlaceInv, InThread, Server!Unended, Server!Places,
     Server!Statuses
<1>3. SettingsInv'
  BY OwnIsSetting, EnterOverlay, LeaveRestores DEF Server!EnterEnv, Server!TypeOK, PlaceInv,
     SettingsInv, EnvironInv, Inside, InThread, Server!Unended, Server!Places, Server!Statuses
<1>4. EnvironInv'
  BY OwnIsSetting, EnterOverlay, LeaveRestores DEF Server!EnterEnv, Server!TypeOK, PlaceInv,
     SettingsInv, EnvironInv, Inside, InThread, Server!Unended
<1>5. ReaderInv'
  BY OwnIsSetting DEF Server!EnterEnv, Server!TypeOK, PlaceInv, SettingsInv, ReaderInv, InThread,
     Server!Unended, Server!Places, Server!Statuses, Server!Maybe
<1> QED BY <1>1, <1>2, <1>3, <1>4, <1>5

\* The builder reads the settings of the job.
LEMMA BuildPreserves ==
  ASSUME ServerInv, NEW j \in Job, Server!Build(j)
  PROVE  ServerInv'
<1> USE ServerAssumption DEF ServerInv, Server!Goto, Server!job, Server!reader
<1>1. Server!TypeOK'
  BY OwnIsSetting, OverlayIsSetting DEF Server!Build, Server!TypeOK, Server!Places, Server!Statuses,
     Server!Maybe, Server!SettingsOK
<1>2. PlaceInv'
  BY DEF Server!Build, Server!TypeOK, PlaceInv, InThread, Server!Unended, Server!Places, Server!Statuses
<1>3. SettingsInv'
  BY OwnIsSetting, EnterOverlay, LeaveRestores DEF Server!Build, Server!TypeOK, PlaceInv, SettingsInv,
     EnvironInv, Inside, InThread, Server!Unended, Server!Places, Server!Statuses
<1>4. EnvironInv'
  BY OwnIsSetting, EnterOverlay, LeaveRestores DEF Server!Build, Server!TypeOK, PlaceInv, SettingsInv,
     EnvironInv, Inside, InThread, Server!Unended
<1>5. ReaderInv'
  BY OwnIsSetting DEF Server!Build, Server!TypeOK, PlaceInv, SettingsInv, ReaderInv, InThread,
     Server!Unended, Server!Places, Server!Statuses, Server!Maybe
<1> QED BY <1>1, <1>2, <1>3, <1>4, <1>5

\* The environment is the server's own again.
LEMMA LeaveEnvPreserves ==
  ASSUME ServerInv, NEW j \in Job, Server!LeaveEnv(j)
  PROVE  ServerInv'
<1> USE ServerAssumption DEF ServerInv, Server!Goto, Server!job, Server!reader
<1>1. Server!TypeOK'
  BY OwnIsSetting, LeaveRestores DEF Server!LeaveEnv, SettingsInv, Inside, Server!TypeOK,
     Server!Places, Server!Statuses, Server!Maybe, Server!SettingsOK
<1>2. PlaceInv'
  BY DEF Server!LeaveEnv, Server!TypeOK, PlaceInv, InThread, Server!Unended, Server!Places,
     Server!Statuses
<1>3. SettingsInv'
  BY OwnIsSetting, EnterOverlay, LeaveRestores DEF Server!LeaveEnv, Server!TypeOK, PlaceInv,
     SettingsInv, EnvironInv, Inside, InThread, Server!Unended, Server!Places, Server!Statuses
<1>4. EnvironInv'
  BY OwnIsSetting, EnterOverlay, LeaveRestores DEF Server!LeaveEnv, Server!TypeOK, PlaceInv,
     SettingsInv, EnvironInv, Inside, InThread, Server!Unended
<1>5. ReaderInv'
  BY OwnIsSetting DEF Server!LeaveEnv, Server!TypeOK, PlaceInv, SettingsInv, ReaderInv, InThread,
     Server!Unended, Server!Places, Server!Statuses, Server!Maybe
<1> QED BY <1>1, <1>2, <1>3, <1>4, <1>5

\* The result is the bundle.
LEMMA SummarizePreserves ==
  ASSUME ServerInv, NEW j \in Job, Server!Summarize(j)
  PROVE  ServerInv'
<1> USE ServerAssumption DEF ServerInv, Server!Goto, Server!job, Server!reader
<1>1. Server!TypeOK'
  BY OwnIsSetting, OverlayIsSetting DEF Server!Summarize, Server!TypeOK, Server!Places,
     Server!Statuses, Server!Maybe, Server!SettingsOK
<1>2. PlaceInv'
  BY DEF Server!Summarize, Server!TypeOK, PlaceInv, InThread, Server!Unended, Server!Places,
     Server!Statuses
<1>3. SettingsInv'
  BY OwnIsSetting, EnterOverlay, LeaveRestores DEF Server!Summarize, Server!TypeOK, PlaceInv,
     SettingsInv, EnvironInv, Inside, InThread, Server!Unended, Server!Places, Server!Statuses
<1>4. EnvironInv'
  BY OwnIsSetting, EnterOverlay, LeaveRestores DEF Server!Summarize, Server!TypeOK, PlaceInv,
     SettingsInv, EnvironInv, Inside, InThread, Server!Unended
<1>5. ReaderInv'
  BY OwnIsSetting DEF Server!Summarize, Server!TypeOK, PlaceInv, SettingsInv, ReaderInv, InThread,
     Server!Unended, Server!Places, Server!Statuses, Server!Maybe
<1> QED BY <1>1, <1>2, <1>3, <1>4, <1>5

\* The child leaves a bundle of this job.
LEMMA SimulatePreserves ==
  ASSUME ServerInv, NEW j \in Job, Server!Simulate(j)
  PROVE  ServerInv'
<1> USE ServerAssumption DEF ServerInv, Server!Goto, Server!job, Server!reader
<1>1. Server!TypeOK'
  BY OwnIsSetting, OverlayIsSetting DEF Server!Simulate, Server!TypeOK, Server!Places, Server!Statuses,
     Server!Maybe, Server!SettingsOK
<1>2. PlaceInv'
  BY DEF Server!Simulate, Server!TypeOK, PlaceInv, InThread, Server!Unended, Server!Places,
     Server!Statuses
<1>3. SettingsInv'
  BY OwnIsSetting, EnterOverlay, LeaveRestores DEF Server!Simulate, Server!TypeOK, PlaceInv,
     SettingsInv, EnvironInv, Inside, InThread, Server!Unended, Server!Places, Server!Statuses
<1>4. EnvironInv'
  BY OwnIsSetting, EnterOverlay, LeaveRestores DEF Server!Simulate, Server!TypeOK, PlaceInv,
     SettingsInv, EnvironInv, Inside, InThread, Server!Unended
<1>5. ReaderInv'
  BY OwnIsSetting DEF Server!Simulate, Server!TypeOK, PlaceInv, SettingsInv, ReaderInv, InThread,
     Server!Unended, Server!Places, Server!Statuses, Server!Maybe
<1> QED BY <1>1, <1>2, <1>3, <1>4, <1>5

\* The bundle in the build directory is that of the job.
LEMMA CollectPreserves ==
  ASSUME ServerInv, NEW j \in Job, Server!Collect(j)
  PROVE  ServerInv'
<1> USE ServerAssumption DEF ServerInv, Server!Goto, Server!job, Server!reader
<1>1. Server!TypeOK'
  BY OwnIsSetting, OverlayIsSetting DEF Server!Collect, Server!TypeOK, Server!Places, Server!Statuses,
     Server!Maybe, Server!SettingsOK
<1>2. PlaceInv'
  BY DEF Server!Collect, Server!TypeOK, PlaceInv, InThread, Server!Unended, Server!Places,
     Server!Statuses
<1>3. SettingsInv'
  BY OwnIsSetting, EnterOverlay, LeaveRestores DEF Server!Collect, Server!TypeOK, PlaceInv,
     SettingsInv, EnvironInv, Inside, InThread, Server!Unended, Server!Places, Server!Statuses
<1>4. EnvironInv'
  BY OwnIsSetting, EnterOverlay, LeaveRestores DEF Server!Collect, Server!TypeOK, PlaceInv,
     SettingsInv, EnvironInv, Inside, InThread, Server!Unended
<1>5. ReaderInv'
  BY OwnIsSetting DEF Server!Collect, Server!TypeOK, PlaceInv, SettingsInv, ReaderInv, InThread,
     Server!Unended, Server!Places, Server!Statuses, Server!Maybe
<1> QED BY <1>1, <1>2, <1>3, <1>4, <1>5

\* Success is announced behind the result.
LEMMA SucceedPreserves ==
  ASSUME ServerInv, NEW j \in Job, Server!Succeed(j)
  PROVE  ServerInv'
<1> USE ServerAssumption DEF ServerInv, Server!Goto, Server!job, Server!reader
<1>1. Server!TypeOK'
  BY OwnIsSetting, OverlayIsSetting DEF Server!Succeed, Server!TypeOK, Server!Places, Server!Statuses,
     Server!Maybe, Server!SettingsOK
<1>2. PlaceInv'
  BY DEF Server!Succeed, Server!TypeOK, PlaceInv, InThread, Server!Unended, Server!Places,
     Server!Statuses
<1>3. SettingsInv'
  BY OwnIsSetting, EnterOverlay, LeaveRestores DEF Server!Succeed, Server!TypeOK, PlaceInv,
     SettingsInv, EnvironInv, Inside, InThread, Server!Unended, Server!Places, Server!Statuses
<1>4. EnvironInv'
  BY OwnIsSetting, EnterOverlay, LeaveRestores DEF Server!Succeed, Server!TypeOK, PlaceInv,
     SettingsInv, EnvironInv, Inside, InThread, Server!Unended
<1>5. ReaderInv'
  BY OwnIsSetting DEF Server!Succeed, Server!TypeOK, PlaceInv, SettingsInv, ReaderInv, InThread,
     Server!Unended, Server!Places, Server!Statuses, Server!Maybe
<1> QED BY <1>1, <1>2, <1>3, <1>4, <1>5

\* A failed job announces no result.
LEMMA FailPreserves ==
  ASSUME ServerInv, NEW j \in Job, Server!Fail(j)
  PROVE  ServerInv'
<1> USE ServerAssumption DEF ServerInv, Server!Goto, Server!job, Server!reader
<1>1. Server!TypeOK'
  BY OwnIsSetting, OverlayIsSetting DEF Server!Fail, Server!TypeOK, Server!Places, Server!Statuses,
     Server!Maybe, Server!SettingsOK
<1>2. PlaceInv'
  BY DEF Server!Fail, Server!TypeOK, PlaceInv, InThread, Server!Unended, Server!Places, Server!Statuses
<1>3. SettingsInv'
  BY OwnIsSetting, EnterOverlay, LeaveRestores DEF Server!Fail, Server!TypeOK, PlaceInv, SettingsInv,
     EnvironInv, Inside, InThread, Server!Unended, Server!Places, Server!Statuses
<1>4. EnvironInv'
  BY OwnIsSetting, EnterOverlay, LeaveRestores DEF Server!Fail, Server!TypeOK, PlaceInv, SettingsInv,
     EnvironInv, Inside, InThread, Server!Unended
<1>5. ReaderInv'
  BY OwnIsSetting DEF Server!Fail, Server!TypeOK, PlaceInv, SettingsInv, ReaderInv, InThread,
     Server!Unended, Server!Places, Server!Statuses, Server!Maybe
<1> QED BY <1>1, <1>2, <1>3, <1>4, <1>5

\* The error follows.
LEMMA ExplainPreserves ==
  ASSUME ServerInv, NEW j \in Job, Server!Explain(j)
  PROVE  ServerInv'
<1> USE ServerAssumption DEF ServerInv, Server!Goto, Server!job, Server!reader
<1>1. Server!TypeOK'
  BY OwnIsSetting, OverlayIsSetting DEF Server!Explain, Server!TypeOK, Server!Places, Server!Statuses,
     Server!Maybe, Server!SettingsOK
<1>2. PlaceInv'
  BY DEF Server!Explain, Server!TypeOK, PlaceInv, InThread, Server!Unended, Server!Places,
     Server!Statuses
<1>3. SettingsInv'
  BY OwnIsSetting, EnterOverlay, LeaveRestores DEF Server!Explain, Server!TypeOK, PlaceInv,
     SettingsInv, EnvironInv, Inside, InThread, Server!Unended, Server!Places, Server!Statuses
<1>4. EnvironInv'
  BY OwnIsSetting, EnterOverlay, LeaveRestores DEF Server!Explain, Server!TypeOK, PlaceInv,
     SettingsInv, EnvironInv, Inside, InThread, Server!Unended
<1>5. ReaderInv'
  BY OwnIsSetting DEF Server!Explain, Server!TypeOK, PlaceInv, SettingsInv, ReaderInv, InThread,
     Server!Unended, Server!Places, Server!Statuses, Server!Maybe
<1> QED BY <1>1, <1>2, <1>3, <1>4, <1>5

\* Another job's place is left alone.
LEMMA FinishPreserves ==
  ASSUME ServerInv, NEW j \in Job, Server!Finish(j)
  PROVE  ServerInv'
<1> USE ServerAssumption DEF ServerInv, Server!Goto, Server!job, Server!reader
<1>1. Server!TypeOK'
  BY OwnIsSetting, OverlayIsSetting DEF Server!Finish, Server!Released, Server!TypeOK, Server!Places,
     Server!Statuses, Server!Maybe, Server!SettingsOK
<1>2. PlaceInv'
  BY DEF Server!Finish, Server!Released, Server!TypeOK, PlaceInv, InThread, Server!Unended,
     Server!Places, Server!Statuses
<1>3. SettingsInv'
  BY OwnIsSetting, EnterOverlay, LeaveRestores DEF Server!Finish, Server!TypeOK, PlaceInv, SettingsInv,
     EnvironInv, Inside, InThread, Server!Unended, Server!Places, Server!Statuses
<1>4. EnvironInv'
  BY OwnIsSetting, EnterOverlay, LeaveRestores DEF Server!Finish, Server!TypeOK, PlaceInv, SettingsInv,
     EnvironInv, Inside, InThread, Server!Unended
<1>5. ReaderInv'
  BY OwnIsSetting DEF Server!Finish, Server!TypeOK, PlaceInv, SettingsInv, ReaderInv, InThread,
     Server!Unended, Server!Places, Server!Statuses, Server!Maybe
<1> QED BY <1>1, <1>2, <1>3, <1>4, <1>5

-----------------------------------------------------------------------------
(* Handlers and the whole                                                   *)

\* Reading disturbs no job, and what a handler has read stays true.
LEMMA ReadPreserves ==
  ASSUME ServerInv, NEW r \in Reader, Server!ReadResult(r) \/ \E j \in Job : Server!ReadStatus(r, j)
  PROVE  ServerInv'
<1> USE ServerAssumption DEF ServerInv, Server!job
<1>1. UNCHANGED <<status, result, error, place, env, saved, run, active_job_id, environ, run_json>>
  BY DEF Server!ReadResult, Server!ReadStatus
<1>2. Server!TypeOK'
  <2>1. CASE Server!ReadResult(r)
    <3>1. reading[r] \in Job /\ result[reading[r]] \in Server!Maybe /\ body[r].status \in Server!Statuses
      BY <2>1 DEF Server!ReadResult, Server!TypeOK
    <3> QED BY <2>1, <3>1, <1>1 DEF Server!ReadResult, Server!TypeOK
  <2>2. ASSUME NEW j \in Job, Server!ReadStatus(r, j) PROVE Server!TypeOK'
    <3>1. status[j] \in Server!Statuses /\ None \in Server!Maybe
      BY DEF Server!TypeOK, Server!Maybe
    <3> QED BY <2>2, <3>1, <1>1 DEF Server!ReadStatus, Server!TypeOK
  <2> QED BY <2>1, <2>2
<1>3. PlaceInv' /\ SettingsInv' /\ EnvironInv'
  BY <1>1 DEF PlaceInv, SettingsInv, EnvironInv, Inside
<1>4. ReaderInv'
  <2>1. CASE Server!ReadResult(r)
    BY <2>1, <1>1, OwnIsSetting DEF Server!ReadResult, ReaderInv, SettingsInv, Server!TypeOK,
       Server!SettingsOK
  <2>2. ASSUME NEW j \in Job, Server!ReadStatus(r, j) PROVE ReaderInv'
    BY <2>2, <1>1 DEF Server!ReadStatus, ReaderInv, Server!TypeOK, Server!SettingsOK
  <2> QED BY <2>1, <2>2
<1> QED BY <1>2, <1>3, <1>4

\* Nothing has been started.
LEMMA ServerInitInv == Server!Init => ServerInv
<1> SUFFICES ASSUME Server!Init PROVE ServerInv
  OBVIOUS
<1>1. Server!TypeOK
  BY ServerAssumption DEF Server!Init, Server!TypeOK, Server!Places, Server!Statuses, Server!Maybe,
     Server!SettingsOK
<1>2. PlaceInv /\ SettingsInv /\ EnvironInv /\ ReaderInv
  BY ServerAssumption DEF Server!Init, PlaceInv, SettingsInv, EnvironInv, ReaderInv, Inside, InThread,
     Server!Unended, Server!SettingsOK
<1> QED BY <1>1, <1>2 DEF ServerInv

\* Every step keeps the invariant.
LEMMA ServerNextInv == ServerInv /\ [Server!Next]_Server!vars => ServerInv'
<1> SUFFICES ASSUME ServerInv, [Server!Next]_Server!vars PROVE ServerInv'
  OBVIOUS
<1>1. ASSUME NEW j \in Job, Server!Create(j) \/ Server!StartThread(j) PROVE ServerInv'
  BY <1>1, CreatePreserves, StartThreadPreserves
<1>2. ASSUME NEW j \in Job, Server!Thread(j) PROVE ServerInv'
  BY <1>2, BeginPreserves, JobEnvPreserves, EnterEnvPreserves, BuildPreserves, LeaveEnvPreserves,
     SummarizePreserves, SimulatePreserves, CollectPreserves, SucceedPreserves, FailPreserves,
     ExplainPreserves, FinishPreserves DEF Server!Thread
<1>3. ASSUME NEW r \in Reader, (\E j \in Job : Server!ReadStatus(r, j)) \/ Server!ReadResult(r) PROVE ServerInv'
  BY <1>3, ReadPreserves
<1>4. CASE UNCHANGED Server!vars
  BY <1>4 DEF Server!vars, Server!job, Server!reader, ServerInv, Server!TypeOK, PlaceInv, SettingsInv,
     EnvironInv, ReaderInv, Inside
<1> QED BY <1>1, <1>2, <1>3, <1>4 DEF Server!Next

\* The invariant holds throughout.
THEOREM ServerInvariant == Server!Spec => []ServerInv
BY ServerInitInv, ServerNextInv, PTL DEF Server!Spec

\* The fields of jobs, of the server and of handlers keep their types.
THEOREM ServerTypeCorrect == Server!Spec => []Server!TypeOK
<1>1. ServerInv => Server!TypeOK
  BY DEF ServerInv
<1> QED BY <1>1, ServerInvariant, PTL

\* start_job's check of the active job suffices: however many requests come in,
\* and although a job ends before its finally clause has run, there are never
\* two unended jobs.
THEOREM AtMostOneJob == Server!Spec => []OneJobAtATime
<1>1. ServerInv => OneJobAtATime
  BY DEF ServerInv, PlaceInv, OneJobAtATime, Server!OneJobAtATime
<1> QED BY <1>1, ServerInvariant, PTL

\* _temporary_env isolates jobs: a builder sees the settings of its own request
\* over the server's environment, which is as it was when no job is inside.
THEOREM OwnSettings == Server!Spec => []BuildSeesOwnSettings
<1>1. ServerInv => BuildSeesOwnSettings
  BY DEF ServerInv, SettingsInv, EnvironInv, BuildSeesOwnSettings, Server!BuildSeesOwnSettings, Inside
<1> QED BY <1>1, ServerInvariant, PTL

\* to_json needs no lock: a response that says succeeded carries the result.
THEOREM ResultWithSuccess == Server!Spec => []SucceededHasResult
<1>1. ServerInv => SucceededHasResult
  BY DEF ServerInv, ReaderInv, SucceededHasResult, Server!SucceededHasResult
<1> QED BY <1>1, ServerInvariant, PTL

-----------------------------------------------------------------------------
(* The smoke runtime                                                        *)

Loading == {"clear", "program", "a", "b", "start"}
MainSteps   == Smoke!Ended \cup Loading \cup {"poll", "read"}
Memory  == [Smoke!Region -> [1 .. Words -> Programs \cup Tile \cup {"blank"}]]
Launch  == [by : Proc \cup {Smoke!Nobody}, memory : Memory]

CardTypeOK ==
  /\ opts \in [Proc -> Smoke!Files] /\ step \in [Proc -> MainSteps] /\ word \in Nat
  /\ passed \in [Proc -> BOOLEAN] /\ idle_at_attach \in [Proc -> BOOLEAN]
  /\ chip \in {"idle", "run", "halt", "error"} /\ unit_error \in BOOLEAN
  /\ memory \in Memory /\ launched \in Launch /\ computed \in Launch
  /\ ran \in [Proc -> Launch]

\* The first n words of region x of memory m are those of the files of p.
Loaded(m, p, x, n) == \A w \in 1 .. Words : w <= n => m[x][w] = opts[p][x]
LoadedAll(m, p) == \A x \in Smoke!Region : Loaded(m, p, x, Words)

\* One process is on the card at a time, and the loop index is in its range.
ActiveInv ==
  /\ \A p, q \in Proc : step[p] \notin Smoke!Ended /\ step[q] \notin Smoke!Ended => p = q
  /\ \A p \in Proc : step[p] \in Smoke!Region => word \in 1 .. Words
  /\ \A p \in Proc : passed[p] => step[p] = "passed"

\* Until a process starts the chip, which it found idle, it stays idle: what the
\* process has written so far is there.
LoadInv ==
  \A p \in Proc : idle_at_attach[p] =>
    /\ step[p] \in Loading => ~Smoke!Busy
    /\ step[p] = "program" => Loaded(memory, p, "program", word - 1)
    /\ step[p] = "a" => Loaded(memory, p, "program", Words) /\ Loaded(memory, p, "a", word - 1)
    /\ step[p] = "b" => /\ Loaded(memory, p, "program", Words) /\ Loaded(memory, p, "a", Words)
                      /\ Loaded(memory, p, "b", word - 1)
    /\ step[p] = "start" => LoadedAll(memory, p)

\* From then on the last launch is its own, and C is of that launch when the chip
\* has halted.
RunInv ==
  /\ \A p \in Proc : idle_at_attach[p] /\ step[p] \in {"poll", "read"} =>
       launched.by = p /\ LoadedAll(launched.memory, p)
  /\ \A p \in Proc : step[p] = "read" /\ idle_at_attach[p] => chip = "halt"
  /\ chip = "halt" => computed = launched
  /\ \A p \in Proc : passed[p] /\ idle_at_attach[p] => ran[p].by = p /\ LoadedAll(ran[p].memory, p)

CardInv == CardTypeOK /\ ActiveInv /\ LoadInv /\ RunInv

-----------------------------------------------------------------------------
(* Initially and at a step                                                  *)

\* Nobody is on the card.
LEMMA CardInitInv == Smoke!Init => CardInv
<1> SUFFICES ASSUME Smoke!Init PROVE CardInv
  OBVIOUS
<1>1. Smoke!Blank \in Memory
  BY DEF Smoke!Blank, Memory
<1>2. CardTypeOK
  BY <1>1 DEF Smoke!Init, CardTypeOK, MainSteps, Smoke!Ended, Launch, Smoke!Nothing
<1>3. ActiveInv /\ LoadInv /\ RunInv
  BY DEF Smoke!Init, ActiveInv, LoadInv, RunInv, Smoke!Ended, Loading, Smoke!Region
<1> QED BY <1>2, <1>3 DEF CardInv

\* A process goes from one step to another: the moves of all processes but p are
\* those of before.
LEMMA ProcessMoved ==
  ASSUME NEW p \in Proc, NEW s, NEW t, CardTypeOK, Smoke!Goto(p, s, t), t \in MainSteps
  PROVE  /\ step[p] = s /\ step'[p] = t /\ step' \in [Proc -> MainSteps]
         /\ \A q \in Proc \ {p} : step'[q] = step[q]
BY DEF CardTypeOK, Smoke!Goto

\* Attaching needs the card free.
LEMMA AttachPreserves ==
  ASSUME CardInv, NEW p \in Proc, Smoke!Attach(p)
  PROVE  CardInv'
<1>1. /\ step[p] = "new" /\ step'[p] = "clear" /\ step' \in [Proc -> MainSteps]
      /\ \A q \in Proc \ {p} : step'[q] = step[q]
  BY ProcessMoved DEF CardInv, Smoke!Attach, MainSteps, Loading
<1>2. CardTypeOK'
  BY <1>1 DEF CardInv, CardTypeOK, Smoke!Attach, Smoke!card, Smoke!Busy
<1>3. \A q \in Proc : idle_at_attach'[q] = IF q = p THEN ~Smoke!Busy ELSE idle_at_attach[q]
  BY DEF CardInv, CardTypeOK, Smoke!Attach
<1>4. ActiveInv'
  BY <1>1 DEF CardInv, ActiveInv, Smoke!Attach, Smoke!Ended, Smoke!Region
<1>5. LoadInv'
  <2>1. UNCHANGED <<opts, word, memory, chip>>
    BY DEF Smoke!Attach, Smoke!card
  <2>2. \A q \in Proc : step[q] \in Smoke!Ended
    BY DEF Smoke!Attach
  <2> QED BY <1>1, <1>3, <2>1, <2>2 DEF LoadInv, Loading, Smoke!Busy, Smoke!Ended
<1>6. RunInv'
  BY <1>1, <1>3 DEF CardInv, RunInv, ActiveInv, Smoke!Attach, Smoke!card, LoadedAll, Loaded
<1> QED BY <1>2, <1>4, <1>5, <1>6 DEF CardInv

\* Before the first word nothing has been written.
LEMMA ClearCountersPreserves ==
  ASSUME Smoke!ConstantsOK, CardInv, NEW p \in Proc, Smoke!ClearCounters(p)
  PROVE  CardInv'
<1>1. /\ step[p] = "clear" /\ step'[p] = "program" /\ step' \in [Proc -> MainSteps]
      /\ \A q \in Proc \ {p} : step'[q] = step[q]
  BY ProcessMoved DEF CardInv, Smoke!ClearCounters, MainSteps, Loading
<1>2. CardTypeOK'
  BY <1>1 DEF CardInv, CardTypeOK, Smoke!ClearCounters, Smoke!card
<1>3. ActiveInv'
  BY <1>1 DEF Smoke!ConstantsOK, CardInv, ActiveInv, Smoke!ClearCounters, Smoke!Ended, Smoke!Region
<1>4. LoadInv'
  <2>1. \A q \in Proc \ {p} : step[q] \in Smoke!Ended
    BY <1>1 DEF CardInv, ActiveInv, Smoke!Ended
  <2>2. word' = 1 /\ UNCHANGED <<opts, idle_at_attach, memory, chip>>
    BY DEF Smoke!ClearCounters, Smoke!card
  <2> QED BY <1>1, <2>1, <2>2 DEF CardInv, LoadInv, Loading, Loaded, LoadedAll, Smoke!Busy, Smoke!Ended
<1>5. RunInv'
  BY <1>1 DEF CardInv, RunInv, Smoke!ClearCounters, Smoke!card, LoadedAll, Loaded
<1> QED BY <1>2, <1>3, <1>4, <1>5 DEF CardInv

-----------------------------------------------------------------------------
(* Loading                                                                  *)

\* A word that is not refused extends what has been written of its region, and
\* leaves the other regions alone.
LEMMA WrittenExtends ==
  ASSUME CardInv, NEW p \in Proc, NEW what \in Smoke!Region, ~Smoke!Busy, word \in 1 .. Words,
         Loaded(memory, p, what, word - 1), memory' = Smoke!Written(what, opts[p][what]), UNCHANGED opts
  PROVE  /\ Loaded(memory', p, what, word)
         /\ \A x \in Smoke!Region \ {what} : memory'[x] = memory[x]
<1>1. memory' = [memory EXCEPT ![what][word] = opts[p][what]]
  BY DEF Smoke!Written
<1>2. \A x \in Smoke!Region : memory[x] \in [1 .. Words -> Programs \cup Tile \cup {"blank"}]
  BY DEF CardInv, CardTypeOK, Memory
<1>3. memory'[what] = [memory[what] EXCEPT ![word] = opts[p][what]]
  BY <1>1 DEF CardInv, CardTypeOK, Memory
<1>4. \A w \in 1 .. Words : memory'[what][w] = IF w = word THEN opts[p][what] ELSE memory[what][w]
  BY <1>2, <1>3
<1>5. Loaded(memory', p, what, word)
  BY <1>4 DEF Loaded
<1> QED BY <1>1, <1>5 DEF CardInv, CardTypeOK, Memory

\* What a poke stores is a word, or nothing.
LEMMA WrittenType ==
  ASSUME CardTypeOK, NEW p \in Proc, NEW what \in Smoke!Region, word \in 1 .. Words
  PROVE  Smoke!Written(what, opts[p][what]) \in Memory
<1>1. opts[p][what] \in Programs \cup Tile
  BY DEF CardTypeOK, Smoke!Files
<1>2. [memory EXCEPT ![what][word] = opts[p][what]] \in Memory
  BY <1>1 DEF CardTypeOK, Memory
<1> QED BY <1>2 DEF Smoke!Written, CardTypeOK

\* Poking a word of a region: the parts of the invariant that do not depend on
\* which one.
LEMMA PokeStep ==
  ASSUME Smoke!ConstantsOK, CardInv, NEW p \in Proc, NEW what \in Smoke!Region, NEW there \in MainSteps \ Smoke!Ended,
         there # "poll", there # "read", there \in Smoke!Region \cup {"start"}, Smoke!PokeWord(p, what, there)
  PROVE  /\ CardTypeOK' /\ ActiveInv' /\ RunInv'
         /\ \A q \in Proc \ {p} : step[q] \in Smoke!Ended /\ step'[q] = step[q]
         /\ UNCHANGED <<opts, idle_at_attach, chip>>
         /\ \/ word < Words /\ word' = word + 1 /\ step'[p] = what
            \/ word = Words /\ word' = 1 /\ step'[p] = there
<1>0. step[p] = what /\ word \in 1 .. Words /\ Words \in Nat /\ Words > 0
  BY DEF Smoke!ConstantsOK, CardInv, ActiveInv, Smoke!PokeWord
<1>1. \/ word < Words /\ word' = word + 1 /\ step' = step
      \/ word = Words /\ word' = 1 /\ step' = [step EXCEPT ![p] = there]
  BY <1>0 DEF Smoke!PokeWord, Smoke!Goto
<1>2. step' \in [Proc -> MainSteps] /\ \A q \in Proc \ {p} : step'[q] = step[q]
  BY <1>1 DEF CardInv, CardTypeOK
<1>3. step'[p] \in {what, there}
  BY <1>0, <1>1 DEF CardInv, CardTypeOK
<1>4. \A q \in Proc \ {p} : step[q] \in Smoke!Ended
  BY <1>0 DEF CardInv, ActiveInv, Smoke!Region, Smoke!Ended
<1>5. memory' \in Memory
  BY <1>0, WrittenType DEF CardInv, Smoke!PokeWord
<1>6. UNCHANGED <<opts, passed, idle_at_attach, ran, chip, unit_error, launched, computed>>
  BY DEF Smoke!PokeWord
<1>7. CardTypeOK'
  BY <1>0, <1>1, <1>2, <1>5, <1>6 DEF CardInv, CardTypeOK
<1>8. ActiveInv'
  BY <1>0, <1>1, <1>2, <1>3, <1>4, <1>6 DEF CardInv, ActiveInv, CardTypeOK, Smoke!Region, Smoke!Ended
<1>9. RunInv'
  BY <1>0, <1>2, <1>3, <1>6 DEF CardInv, RunInv, Smoke!Region, LoadedAll, Loaded
<1>10. \/ word < Words /\ word' = word + 1 /\ step'[p] = what
       \/ word = Words /\ word' = 1 /\ step'[p] = there
  BY <1>0, <1>1 DEF CardInv, CardTypeOK
<1> QED BY <1>2, <1>4, <1>6, <1>7, <1>8, <1>9, <1>10

\* Nothing is owned before the first word.
LEMMA LoadedNothing ==
  ASSUME Smoke!ConstantsOK, NEW m, NEW p, NEW x
  PROVE  Loaded(m, p, x, 0)
BY DEF Smoke!ConstantsOK, Loaded

\* load_program_hex
LEMMA ProgramPreserves ==
  ASSUME Smoke!ConstantsOK, CardInv, NEW p \in Proc, Smoke!PokeWord(p, "program", "a")
  PROVE  CardInv'
<1>1. /\ CardTypeOK' /\ ActiveInv' /\ RunInv'
      /\ \A q \in Proc \ {p} : step[q] \in Smoke!Ended /\ step'[q] = step[q]
      /\ UNCHANGED <<opts, idle_at_attach, chip>>
      /\ \/ word < Words /\ word' = word + 1 /\ step'[p] = "program"
         \/ word = Words /\ word' = 1 /\ step'[p] = "a"
  BY PokeStep DEF Smoke!Region, MainSteps, Loading, Smoke!Ended
<1>2. ASSUME idle_at_attach[p]
      PROVE  ~Smoke!Busy /\ Loaded(memory', p, "program", word)
  <2>1. ~Smoke!Busy /\ Loaded(memory, p, "program", word - 1) /\ word \in 1 .. Words
    BY <1>2 DEF CardInv, LoadInv, ActiveInv, Smoke!PokeWord, Loading, Smoke!Region
  <2> QED BY <2>1, WrittenExtends DEF Smoke!PokeWord, Smoke!Region
<1>3. ASSUME idle_at_attach[p]
      PROVE  /\ step'[p] = "program" => Loaded(memory', p, "program", word' - 1)
             /\ step'[p] = "a" => Loaded(memory', p, "program", Words) /\ Loaded(memory', p, "a", word' - 1)
  <2>1. CASE word < Words /\ word' = word + 1 /\ step'[p] = "program"
    BY <1>2, <1>3, <2>1 DEF CardInv, CardTypeOK
  <2>2. CASE word = Words /\ word' = 1 /\ step'[p] = "a"
    BY <1>2, <1>3, <2>2, LoadedNothing
  <2> QED BY <1>1, <2>1, <2>2
<1>4. step'[p] \in {"program", "a"}
  BY <1>1
<1>5. LoadInv'
  BY <1>1, <1>2, <1>3, <1>4 DEF LoadInv, Loading, Smoke!Busy, Smoke!Ended, Loaded
<1> QED BY <1>1, <1>5 DEF CardInv

\* write_hbm of the first operand
LEMMA APreserves ==
  ASSUME Smoke!ConstantsOK, CardInv, NEW p \in Proc, Smoke!PokeWord(p, "a", "b")
  PROVE  CardInv'
<1>1. /\ CardTypeOK' /\ ActiveInv' /\ RunInv'
      /\ \A q \in Proc \ {p} : step[q] \in Smoke!Ended /\ step'[q] = step[q]
      /\ UNCHANGED <<opts, idle_at_attach, chip>>
      /\ \/ word < Words /\ word' = word + 1 /\ step'[p] = "a"
         \/ word = Words /\ word' = 1 /\ step'[p] = "b"
  BY PokeStep DEF Smoke!Region, MainSteps, Loading, Smoke!Ended
<1>2. ASSUME idle_at_attach[p]
      PROVE  ~Smoke!Busy /\ Loaded(memory', p, "a", word) /\ Loaded(memory', p, "program", Words)
  <2>1. ~Smoke!Busy /\ Loaded(memory, p, "a", word - 1) /\ word \in 1 .. Words /\ Loaded(memory, p, "program", Words)
    BY <1>2 DEF CardInv, LoadInv, ActiveInv, Smoke!PokeWord, Loading, Smoke!Region
  <2>2. /\ Loaded(memory', p, "a", word)
        /\ \A x \in Smoke!Region \ {"a"} : memory'[x] = memory[x]
    BY <2>1, WrittenExtends DEF Smoke!PokeWord, Smoke!Region
  <2> QED BY <2>1, <2>2 DEF Loaded, Smoke!Region
<1>3. ASSUME idle_at_attach[p]
      PROVE  /\ step'[p] = "a" => Loaded(memory', p, "program", Words) /\ Loaded(memory', p, "a", word' - 1)
             /\ step'[p] = "b" => /\ Loaded(memory', p, "program", Words) /\ Loaded(memory', p, "a", Words)
                                  /\ Loaded(memory', p, "b", word' - 1)
  <2>1. CASE word < Words /\ word' = word + 1 /\ step'[p] = "a"
    BY <1>2, <1>3, <2>1 DEF CardInv, CardTypeOK
  <2>2. CASE word = Words /\ word' = 1 /\ step'[p] = "b"
    BY <1>2, <1>3, <2>2, LoadedNothing DEF LoadedAll, Smoke!Region
  <2> QED BY <1>1, <2>1, <2>2
<1>4. step'[p] \in {"a", "b"}
  BY <1>1
<1>5. LoadInv'
  BY <1>1, <1>2, <1>3, <1>4 DEF LoadInv, Loading, Smoke!Busy, Smoke!Ended, Loaded, LoadedAll
<1> QED BY <1>1, <1>5 DEF CardInv

\* write_hbm of the second operand
LEMMA BPreserves ==
  ASSUME Smoke!ConstantsOK, CardInv, NEW p \in Proc, Smoke!PokeWord(p, "b", "start")
  PROVE  CardInv'
<1>1. /\ CardTypeOK' /\ ActiveInv' /\ RunInv'
      /\ \A q \in Proc \ {p} : step[q] \in Smoke!Ended /\ step'[q] = step[q]
      /\ UNCHANGED <<opts, idle_at_attach, chip>>
      /\ \/ word < Words /\ word' = word + 1 /\ step'[p] = "b"
         \/ word = Words /\ word' = 1 /\ step'[p] = "start"
  BY PokeStep DEF Smoke!Region, MainSteps, Loading, Smoke!Ended
<1>2. ASSUME idle_at_attach[p]
      PROVE  /\ ~Smoke!Busy /\ Loaded(memory', p, "b", word)
             /\ Loaded(memory', p, "program", Words) /\ Loaded(memory', p, "a", Words)
  <2>1. /\ ~Smoke!Busy /\ Loaded(memory, p, "b", word - 1) /\ word \in 1 .. Words
        /\ Loaded(memory, p, "program", Words) /\ Loaded(memory, p, "a", Words)
    BY <1>2 DEF CardInv, LoadInv, ActiveInv, Smoke!PokeWord, Loading, Smoke!Region
  <2>2. /\ Loaded(memory', p, "b", word)
        /\ \A x \in Smoke!Region \ {"b"} : memory'[x] = memory[x]
    BY <2>1, WrittenExtends DEF Smoke!PokeWord, Smoke!Region
  <2> QED BY <2>1, <2>2 DEF Loaded, Smoke!Region
<1>3. ASSUME idle_at_attach[p]
      PROVE  /\ step'[p] = "b" => /\ Loaded(memory', p, "program", Words) /\ Loaded(memory', p, "a", Words)
                                  /\ Loaded(memory', p, "b", word' - 1)
             /\ step'[p] = "start" => LoadedAll(memory', p)
  <2>1. CASE word < Words /\ word' = word + 1 /\ step'[p] = "b"
    BY <1>2, <1>3, <2>1 DEF CardInv, CardTypeOK
  <2>2. CASE word = Words /\ word' = 1 /\ step'[p] = "start"
    BY <1>2, <1>3, <2>2, LoadedNothing DEF LoadedAll, Smoke!Region
  <2> QED BY <1>1, <2>1, <2>2
<1>4. step'[p] \in {"b", "start"}
  BY <1>1
<1>5. LoadInv'
  BY <1>1, <1>2, <1>3, <1>4 DEF LoadInv, Loading, Smoke!Busy, Smoke!Ended, Loaded, LoadedAll
<1> QED BY <1>1, <1>5 DEF CardInv

-----------------------------------------------------------------------------
(* Running                                                                  *)

\* The chip takes what is in memory, which is what the process has written.
LEMMA StartPreserves ==
  ASSUME CardInv, NEW p \in Proc, Smoke!Start(p)
  PROVE  CardInv'
<1>1. /\ step[p] = "start" /\ step'[p] = "poll" /\ step' \in [Proc -> MainSteps]
      /\ \A q \in Proc \ {p} : step'[q] = step[q]
  BY ProcessMoved DEF CardInv, Smoke!Start, MainSteps
<1>2. \A q \in Proc \ {p} : step[q] \in Smoke!Ended
  BY <1>1 DEF CardInv, ActiveInv, Smoke!Ended
<1>3. UNCHANGED <<opts, word, passed, idle_at_attach, ran, unit_error, memory, product, computed>>
  BY DEF Smoke!Start
<1>4. \/ Smoke!Busy /\ UNCHANGED <<chip, launched>>
      \/ ~Smoke!Busy /\ chip' = "run" /\ launched' = [by |-> p, memory |-> memory]
  BY DEF Smoke!Start
<1>5. CardTypeOK'
  BY <1>1, <1>3, <1>4 DEF CardInv, CardTypeOK, Launch
<1>6. ActiveInv'
  BY <1>1, <1>2, <1>3 DEF CardInv, ActiveInv, Smoke!Ended, Smoke!Region
<1>7. LoadInv'
  BY <1>1, <1>2, <1>3 DEF LoadInv, Loading, Smoke!Ended
<1>8. idle_at_attach[p] => ~Smoke!Busy /\ LoadedAll(memory, p)
  BY <1>1 DEF CardInv, LoadInv, Loading
<1>9. RunInv'
  <2>1. idle_at_attach[p] => launched'.by = p /\ LoadedAll(launched'.memory, p)
    BY <1>4, <1>8
  <2>2. chip' = "halt" => computed' = launched'
    BY <1>3, <1>4 DEF CardInv, RunInv, Smoke!Busy
  <2> QED BY <1>1, <1>2, <1>3, <2>1, <2>2 DEF CardInv, RunInv, Smoke!Ended, LoadedAll, Loaded
<1> QED BY <1>5, <1>6, <1>7, <1>9 DEF CardInv

\* The chip is read only when it has halted.
LEMMA PollPreserves ==
  ASSUME CardInv, NEW p \in Proc, Smoke!Poll(p)
  PROVE  CardInv'
<1>1. /\ step[p] = "poll" /\ step'[p] \in {"failed", "read"} /\ step' \in [Proc -> MainSteps]
      /\ \A q \in Proc \ {p} : step'[q] = step[q]
      /\ step'[p] = "read" => chip = "halt"
  <2>1. Smoke!Verdict \in {"failed", "read", "poll"} /\ (Smoke!Verdict = "read" => chip = "halt")
    BY DEF Smoke!Verdict
  <2>2. CASE Smoke!Verdict # "poll" /\ Smoke!Goto(p, "poll", Smoke!Verdict)
    BY <2>1, <2>2, ProcessMoved DEF CardInv, MainSteps, Smoke!Ended
  <2>3. CASE Smoke!Verdict = "poll" /\ Smoke!TimeUp /\ Smoke!Goto(p, "poll", "failed")
    BY <2>3, ProcessMoved DEF CardInv, MainSteps, Smoke!Ended
  <2> QED BY <2>2, <2>3 DEF Smoke!Poll
<1>2. UNCHANGED <<opts, word, passed, idle_at_attach, ran, Smoke!card>>
  BY DEF Smoke!Poll
<1>3. CardTypeOK'
  BY <1>1, <1>2 DEF CardInv, CardTypeOK, Smoke!card
<1>4. ActiveInv'
  BY <1>1, <1>2 DEF CardInv, ActiveInv, Smoke!Ended, Smoke!Region
<1>5. LoadInv'
  BY <1>1, <1>2 DEF CardInv, LoadInv, Loading, Smoke!card, Smoke!Busy, Loaded, LoadedAll
<1>6. RunInv'
  BY <1>1, <1>2 DEF CardInv, RunInv, Smoke!card, Loaded, LoadedAll
<1> QED BY <1>3, <1>4, <1>5, <1>6 DEF CardInv

\* A process that passes has read the C of the last launch.
LEMMA ComparePreserves ==
  ASSUME CardInv, NEW p \in Proc, Smoke!Compare(p)
  PROVE  CardInv'
<1>1. /\ step[p] = "read" /\ step'[p] \in {"failed", "passed"} /\ step' \in [Proc -> MainSteps]
      /\ \A q \in Proc \ {p} : step'[q] = step[q]
  <2>1. Smoke!Goto(p, "read", "passed") \/ Smoke!Goto(p, "read", "failed")
    BY DEF Smoke!Compare
  <2> QED BY <2>1, ProcessMoved DEF CardInv, MainSteps, Smoke!Ended
<1>2. UNCHANGED <<opts, word, idle_at_attach, Smoke!card>>
  BY DEF Smoke!Compare
<1>3. \/ /\ step'[p] = "passed"
         /\ passed' = [passed EXCEPT ![p] = TRUE] /\ ran' = [ran EXCEPT ![p] = computed]
      \/ UNCHANGED <<passed, ran>>
  <2>1. CASE Smoke!Goto(p, "read", "passed") /\ passed' = [passed EXCEPT ![p] = TRUE]
             /\ ran' = [ran EXCEPT ![p] = computed]
    BY <2>1, ProcessMoved DEF CardInv, MainSteps, Smoke!Ended
  <2> QED BY <2>1 DEF Smoke!Compare
<1>4. CardTypeOK'
  BY <1>1, <1>2, <1>3 DEF CardInv, CardTypeOK, Smoke!card
<1>5. ActiveInv'
  BY <1>1, <1>2, <1>3 DEF CardInv, CardTypeOK, ActiveInv, Smoke!Ended, Smoke!Region
<1>6. LoadInv'
  BY <1>1, <1>2 DEF CardInv, LoadInv, Loading, Smoke!card, Smoke!Busy, Loaded, LoadedAll
<1>7. RunInv'
  <2>1. idle_at_attach[p] => computed.by = p /\ LoadedAll(computed.memory, p)
    BY <1>1 DEF CardInv, RunInv
  <2>2. \A q \in Proc : passed'[q] /\ idle_at_attach[q] => ran'[q].by = q /\ LoadedAll(ran'[q].memory, q)
    BY <1>3, <2>1 DEF CardInv, CardTypeOK, RunInv
  <2> QED BY <1>1, <1>2, <2>2 DEF CardInv, RunInv, Smoke!card, Loaded, LoadedAll
<1> QED BY <1>4, <1>5, <1>6, <1>7 DEF CardInv

\* A process that dies leaves the card as it is.
LEMMA DiePreserves ==
  ASSUME CardInv, NEW p \in Proc, Smoke!Die(p)
  PROVE  CardInv'
<1>1. /\ step[p] \notin Smoke!Ended /\ step'[p] = "failed" /\ step' \in [Proc -> MainSteps]
      /\ \A q \in Proc \ {p} : step'[q] = step[q]
  BY DEF CardInv, CardTypeOK, Smoke!Die, MainSteps, Smoke!Ended
<1>2. UNCHANGED <<opts, word, passed, idle_at_attach, ran, Smoke!card>>
  BY DEF Smoke!Die
<1>3. CardTypeOK'
  BY <1>1, <1>2 DEF CardInv, CardTypeOK, Smoke!card
<1>4. ActiveInv'
  BY <1>1, <1>2 DEF CardInv, ActiveInv, Smoke!Ended, Smoke!Region
<1>5. LoadInv'
  BY <1>1, <1>2 DEF CardInv, LoadInv, Loading, Smoke!card, Smoke!Busy, Loaded, LoadedAll
<1>6. RunInv'
  BY <1>1, <1>2 DEF CardInv, RunInv, Smoke!card, Loaded, LoadedAll
<1> QED BY <1>3, <1>4, <1>5, <1>6 DEF CardInv

\* The chip ends a run of the last launch.
LEMMA ChipPreserves ==
  ASSUME CardInv, Smoke!Chip
  PROVE  CardInv'
<1>1. /\ Smoke!Busy /\ UNCHANGED <<Smoke!host, memory, launched>> /\ unit_error' \in BOOLEAN
      /\ \/ chip' = "halt" /\ computed' = launched
         \/ chip' = "error" /\ UNCHANGED computed
  BY DEF CardInv, CardTypeOK, Smoke!Chip, Smoke!Halt, Smoke!Fault
<1>2. CardTypeOK'
  BY <1>1 DEF CardInv, CardTypeOK, Smoke!host
<1>3. ActiveInv'
  BY <1>1 DEF CardInv, ActiveInv, Smoke!host
<1>4. LoadInv'
  BY <1>1 DEF CardInv, LoadInv, Smoke!host, Smoke!Busy, Loaded, LoadedAll
<1>5. RunInv'
  <2>1. \A p \in Proc : ~(step[p] = "read" /\ idle_at_attach[p])
    BY <1>1 DEF CardInv, RunInv, Smoke!Busy
  <2> QED BY <1>1, <2>1 DEF CardInv, RunInv, Smoke!host, Loaded, LoadedAll
<1> QED BY <1>2, <1>3, <1>4, <1>5 DEF CardInv

-----------------------------------------------------------------------------
(* The theorem                                                              *)

\* Every step keeps the invariant.
LEMMA CardNextInv ==
  ASSUME Smoke!ConstantsOK
  PROVE  CardInv /\ [Smoke!Next]_Smoke!vars => CardInv'
<1> SUFFICES ASSUME CardInv, [Smoke!Next]_Smoke!vars PROVE CardInv'
  OBVIOUS
<1>1. CASE Smoke!Chip
  BY <1>1, ChipPreserves
<1>2. ASSUME NEW p \in Proc, Smoke!Attach(p) \/ Smoke!Die(p) PROVE CardInv'
  BY <1>2, AttachPreserves, DiePreserves
<1>3. ASSUME NEW p \in Proc, Smoke!Main(p) PROVE CardInv'
  BY <1>3, ClearCountersPreserves, ProgramPreserves, APreserves, BPreserves, StartPreserves,
     PollPreserves, ComparePreserves DEF Smoke!Main
<1>4. CASE UNCHANGED Smoke!vars
  BY <1>4 DEF Smoke!vars, Smoke!host, Smoke!card, CardInv, CardTypeOK, ActiveInv, LoadInv, RunInv,
     Smoke!Busy, Loaded, LoadedAll
<1> QED BY <1>1, <1>2, <1>3, <1>4 DEF Smoke!Next

\* "vTPU F2 smoke PASS" of a process that found the chip idle is about its own
\* program, operands and run, however many processes before it gave up or died.
THEOREM PassCorrect == Smoke!Spec => []PassIsOwnRun
<1>1. CardInv => PassIsOwnRun
  BY CardAssumption DEF CardInv, RunInv, PassIsOwnRun, Smoke!PassIsOwnRun, LoadedAll, Loaded,
     Smoke!ConstantsOK
<1> QED BY <1>1, CardInitInv, CardNextInv, CardAssumption, PTL DEF Smoke!Spec

-----------------------------------------------------------------------------
(* What a run of a program needs                                            *)

\* A run of the program of a job
RunSpec(j) == Start(j) /\ [][RunNext]_runVars

\* A command that conflicts with a later instruction is waited for in between, or
\* by the later instruction itself.
Fenced(c) ==
  \A p, q \in 1 .. Len(c) :
    p < q /\ Async(c[p]) /\ Conflict(c[p], c[q]) => \E k \in p + 1 .. q : WaitsFor(c[k], c[p])

\* The inductive invariant of a run: no issued instruction has waited for a
\* command that is open.
IssueInv ==
  /\ Len(job.code) \in Nat /\ Fenced(job.code)
  /\ pc \in Nat \ {0}
  /\ open \subseteq 1 .. pc - 1
  /\ \A p \in open : /\ Async(job.code[p])
                     /\ \A k \in p + 1 .. pc - 1 : ~WaitsFor(job.code[k], job.code[p])

\* What waits for what depends on the job only.
LEMMA SameJob ==
  ASSUME job' = job
  PROVE  Fenced(job.code) = Fenced(job.code)' /\ \A k, i : WaitsFor(k, i) <=> WaitsFor(k, i)'
<1>1. \A k, i : WaitsFor(k, i) <=> WaitsFor(k, i)'
  BY DEF WaitsFor, WaitsForCore, Fast
<1>2. Fenced(job.code) = Fenced(job.code)'
  BY <1>1 DEF Fenced
<1> QED BY <1>1, <1>2

\* The issue of an instruction preserves the invariant.
LEMMA IssuePreserves ==
  ASSUME IssueInv, [RunNext]_runVars
  PROVE  IssueInv'
<1>1. CASE Issue
  <2>1. job' = job /\ pc' = pc + 1 /\ pc <= Len(job.code)
    BY <1>1 DEF Issue
  <2>2. \A k, i : WaitsFor(k, i) <=> WaitsFor(k, i)'
    BY <2>1, SameJob
  <2>3. Len(job.code)' \in Nat /\ Fenced(job.code)'
    BY <2>1, SameJob DEF IssueInv
  <2>4. open' = StillOpen(job.code[pc]) \cup (IF Async(job.code[pc]) THEN {pc} ELSE {})
    BY <1>1 DEF Issue
  <2>5. ASSUME NEW p \in open'
        PROVE  /\ p \in 1 .. pc /\ Async(job.code[p])
               /\ \A k \in p + 1 .. pc : ~WaitsFor(job.code[k], job.code[p])
    <3>1. CASE p \in StillOpen(job.code[pc])
      <4>1. p \in open /\ ~WaitsFor(job.code[pc], job.code[p])
        BY <3>1 DEF StillOpen
      <4>2. p \in 1 .. pc - 1 /\ Async(job.code[p])
            /\ \A k \in p + 1 .. pc - 1 : ~WaitsFor(job.code[k], job.code[p])
        BY <4>1 DEF IssueInv
      <4>3. ASSUME NEW k \in p + 1 .. pc PROVE k = pc \/ k \in p + 1 .. pc - 1
        BY <4>2 DEF IssueInv
      <4> QED BY <4>1, <4>2, <4>3 DEF IssueInv
    <3>2. CASE p = pc /\ Async(job.code[pc])
      BY <3>2 DEF IssueInv
    <3> QED BY <2>4, <2>5, <3>1, <3>2
  <2>6. pc' \in Nat \ {0} /\ pc' - 1 = pc
    BY <2>1 DEF IssueInv
  <2>7. \A p \in open' : Async(job.code[p])'
    BY <2>1, <2>5 DEF Async
  <2> HIDE DEF Issue
  <2> QED BY <2>1, <2>2, <2>3, <2>5, <2>6, <2>7 DEF IssueInv
<1>2. CASE UNCHANGED runVars
  <2>1. job' = job /\ pc' = pc /\ open' = open
    BY <1>2 DEF runVars
  <2>2. \A k, i : WaitsFor(k, i) <=> WaitsFor(k, i)'
    BY <2>1, SameJob
  <2>3. Fenced(job.code)'
    BY <2>1, SameJob DEF IssueInv
  <2>4. \A p \in open' : Async(job.code[p])'
    BY <2>1 DEF IssueInv, Async
  <2> QED BY <2>1, <2>2, <2>3, <2>4 DEF IssueInv
<1> QED BY <1>1, <1>2 DEF RunNext

\* In the invariant no open command conflicts with the next instruction.
LEMMA IssueInvSafe ==
  ASSUME IssueInv
  PROVE  NoConflictInFlight
<1>1. SUFFICES ASSUME ~Halted, NEW p \in StillOpen(job.code[pc])
               PROVE  ~Conflict(job.code[p], job.code[pc])
  BY DEF NoConflictInFlight
<1>2. pc \in 1 .. Len(job.code)
  BY <1>1 DEF IssueInv, Halted
<1>3. p \in open /\ ~WaitsFor(job.code[pc], job.code[p])
  BY <1>1 DEF StillOpen
<1>4. /\ p \in 1 .. Len(job.code) /\ p < pc /\ Async(job.code[p])
      /\ \A k \in p + 1 .. pc - 1 : ~WaitsFor(job.code[k], job.code[p])
  BY <1>2, <1>3 DEF IssueInv
<1>5. \A k \in p + 1 .. pc : ~WaitsFor(job.code[k], job.code[p])
  <2>1. ASSUME NEW k \in p + 1 .. pc PROVE k = pc \/ k \in p + 1 .. pc - 1
    BY <1>2, <1>4
  <2> QED BY <1>3, <1>4, <2>1
<1>6. Fenced(job.code)
  BY DEF IssueInv
<1> HIDE DEF Conflict
<1> QED BY <1>2, <1>4, <1>5, <1>6 DEF Fenced

\* A program whose fences separate every two commands that conflict never has
\* two of them in flight, whatever the speed of the units.
THEOREM FencedIsEnough ==
  ASSUME NEW j
  PROVE  RunSpec(j) /\ Len(j.code) \in Nat /\ Fenced(j.code) => []NoConflictInFlight
<1>1. Start(j) /\ Len(j.code) \in Nat /\ Fenced(j.code) => IssueInv
  BY DEF Start, IssueInv
<1>2. IssueInv /\ [RunNext]_runVars => IssueInv'
  BY IssuePreserves
<1>3. IssueInv => NoConflictInFlight
  BY IssueInvSafe
<1> QED BY <1>1, <1>2, <1>3, PTL DEF RunSpec

-----------------------------------------------------------------------------
(* Programs built from parts                                                *)

IsSeq(c) == \E S : c \in Seq(S)

\* The parts of a program one after the other
LEMMA Joined ==
  ASSUME NEW c, NEW d, IsSeq(c), IsSeq(d)
  PROVE  /\ IsSeq(c \o d) /\ Len(c \o d) = Len(c) + Len(d)
         /\ \A p \in 1 .. Len(c) + Len(d) : (c \o d)[p] = IF p <= Len(c) THEN c[p] ELSE d[p - Len(c)]
<1>1. PICK S, T : c \in Seq(S) /\ d \in Seq(T)
  BY DEF IsSeq
<1> DEFINE U == S \cup T
<1>2. c \in Seq(U) /\ d \in Seq(U)
  BY <1>1
<1> HIDE DEF U
<1>3. c \o d \in Seq(U)
  BY <1>2, ConcatProperties
<1>4. Len(c \o d) = Len(c) + Len(d)
  BY <1>2, ConcatProperties
<1>5. \A p \in 1 .. Len(c) + Len(d) : (c \o d)[p] = IF p <= Len(c) THEN c[p] ELSE d[p - Len(c)]
  BY <1>2, ConcatProperties
<1> QED BY <1>3, <1>4, <1>5 DEF IsSeq

\* A sequence has a length.
LEMMA HasLen ==
  ASSUME NEW c, IsSeq(c)
  PROVE  Len(c) \in Nat
<1>1. PICK S : c \in Seq(S)
  BY DEF IsSeq
<1> QED BY <1>1

\* A function on 1 .. n is a sequence.
LEMMA ListIsSeq ==
  ASSUME NEW n \in Nat, NEW f, f = [i \in 1 .. n |-> f[i]]
  PROVE  IsSeq(f) /\ Len(f) = n
<1> DEFINE S == {f[i] : i \in 1 .. n}
<1>1. f \in [1 .. n -> S]
  BY Zenon
<1> HIDE DEF S
<1>2. f \in Seq(S) /\ Len(f) = n
  BY <1>1
<1> QED BY <1>2 DEF IsSeq

\* Every command that is issued is waited for before the end.
Drained(c) ==
  \A p \in 1 .. Len(c) : Async(c[p]) => \E k \in p + 1 .. Len(c) : WaitsFor(c[k], c[p])

\* A part of a program that is fenced whatever comes before and after it
Clean(c) == IsSeq(c) /\ Fenced(c) /\ Drained(c)

\* Clean parts make a clean program.
LEMMA CleanJoined ==
  ASSUME NEW c, NEW d, Clean(c), Clean(d)
  PROVE  Clean(c \o d)
<1> DEFINE e == c \o d   m == Len(c)   n == Len(d)
<1>1. /\ IsSeq(e) /\ Len(e) = m + n /\ m \in Nat /\ n \in Nat
      /\ \A p \in 1 .. m + n : e[p] = IF p <= m THEN c[p] ELSE d[p - m]
  BY Joined, HasLen DEF Clean
<1> HIDE DEF e
<1>2. \A p \in 1 .. m : e[p] = c[p]
  BY <1>1
<1>3. \A p \in 1 .. n : m + p \in 1 .. m + n /\ e[m + p] = d[p]
  BY <1>1
<1>4. ASSUME NEW p \in 1 .. m, Async(e[p]) PROVE \E k \in p + 1 .. m : WaitsFor(e[k], e[p])
  <2>1. PICK k \in p + 1 .. m : WaitsFor(c[k], c[p])
    BY <1>2, <1>4 DEF Clean, Drained
  <2>2. k \in 1 .. m
    BY <1>1, <2>1
  <2> QED BY <1>2, <2>1, <2>2
<1>5. ASSUME NEW p \in 1 .. n, NEW q \in 1 .. n, \E k \in p + 1 .. q : WaitsFor(d[k], d[p])
      PROVE  \E k \in m + p + 1 .. m + q : WaitsFor(e[k], e[m + p])
  <2>1. PICK k \in p + 1 .. q : WaitsFor(d[k], d[p])
    BY <1>5
  <2>2. k \in 1 .. n /\ m + k \in m + p + 1 .. m + q
    BY <1>1, <2>1
  <2> QED BY <1>3, <2>1, <2>2
<1>6. ASSUME NEW p \in 1 .. m + n, p > m PROVE p - m \in 1 .. n /\ p = m + (p - m)
  BY <1>1, <1>6
<1>7. Drained(e)
  <2>1. SUFFICES ASSUME NEW p \in 1 .. m + n, Async(e[p])
                 PROVE  \E k \in p + 1 .. m + n : WaitsFor(e[k], e[p])
    BY <1>1 DEF Drained
  <2>2. CASE p <= m
    <3>1. PICK k \in p + 1 .. m : WaitsFor(e[k], e[p])
      BY <1>1, <1>4, <2>1, <2>2
    <3>2. k \in p + 1 .. m + n
      BY <1>1, <3>1
    <3> QED BY <3>1, <3>2
  <2>3. CASE p > m
    <3> DEFINE r == p - m
    <3>1. r \in 1 .. n /\ p = m + r /\ e[p] = d[r] /\ n \in 1 .. n
      BY <1>1, <1>3, <1>6, <2>3
    <3> HIDE DEF r
    <3>2. \E k \in r + 1 .. n : WaitsFor(d[k], d[r])
      BY <2>1, <3>1 DEF Clean, Drained
    <3> QED BY <1>5, <3>1, <3>2
  <2> QED BY <1>1, <2>2, <2>3
<1>8. Fenced(e)
  <2>1. SUFFICES ASSUME NEW p \in 1 .. m + n, NEW q \in 1 .. m + n,
                        p < q, Async(e[p]), Conflict(e[p], e[q])
                 PROVE  \E k \in p + 1 .. q : WaitsFor(e[k], e[p])
    BY <1>1 DEF Fenced
  <2>2. CASE p <= m /\ q <= m
    <3>1. p \in 1 .. m /\ q \in 1 .. m
      BY <1>1, <2>2
    <3>2. PICK k \in p + 1 .. q : WaitsFor(c[k], c[p])
      BY <1>2, <2>1, <3>1 DEF Clean, Fenced
    <3>3. k \in 1 .. m
      BY <1>1, <3>1, <3>2
    <3> QED BY <1>2, <3>1, <3>2, <3>3
  <2>3. CASE p <= m /\ q > m
    <3>1. PICK k \in p + 1 .. m : WaitsFor(e[k], e[p])
      BY <1>1, <1>4, <2>1, <2>3
    <3>2. k \in p + 1 .. q
      BY <1>1, <2>3, <3>1
    <3> QED BY <3>1, <3>2
  <2>4. CASE p > m
    <3> DEFINE r == p - m   s == q - m
    <3>1. /\ r \in 1 .. n /\ p = m + r /\ e[p] = d[r]
          /\ s \in 1 .. n /\ q = m + s /\ e[q] = d[s] /\ r < s
      <4>1. q > m
        BY <1>1, <2>1, <2>4
      <4> QED BY <1>1, <1>3, <1>6, <2>1, <2>4, <4>1
    <3> HIDE DEF r, s
    <3>2. \E k \in r + 1 .. s : WaitsFor(d[k], d[r])
      BY <2>1, <3>1 DEF Clean, Fenced
    <3> QED BY <1>5, <3>1, <3>2
  <2> QED BY <1>1, <2>2, <2>3, <2>4
<1> QED BY <1>1, <1>7, <1>8 DEF Clean, e

-----------------------------------------------------------------------------
(* Commands that the next instruction waits for                             *)

\* An instruction that moves a tile, as a builder lists it
Moves(i) == i.op \in DmaOpcodes \cup {LOAD, RESERVE}
\* The instruction k after i waits for i, wherever the data are.
Follows(k, i) ==
  IF Moves(i) THEN Moves(k) \/ (k.op = BARRIER /\ Bit(k.imm0, 0))
  ELSE ~Moves(k) /\ WaitsFor(k, i)

\* Every command is followed by an instruction that waits for it.
Guarded(c) ==
  /\ IsSeq(c)
  /\ \A p \in 1 .. Len(c) :
       Moves(c[p]) \/ c[p].op \in TensorOps => p + 1 <= Len(c) /\ Follows(c[p + 1], c[p])

\* Guarded parts make a guarded program.
LEMMA GuardedJoined ==
  ASSUME NEW c, NEW d, Guarded(c), Guarded(d)
  PROVE  Guarded(c \o d)
<1> DEFINE e == c \o d   m == Len(c)   n == Len(d)
<1>1. /\ IsSeq(e) /\ Len(e) = m + n /\ m \in Nat /\ n \in Nat
      /\ \A p \in 1 .. m + n : e[p] = IF p <= m THEN c[p] ELSE d[p - m]
  BY Joined, HasLen DEF Guarded
<1> HIDE DEF e
<1>2. SUFFICES ASSUME NEW p \in 1 .. m + n, Moves(e[p]) \/ e[p].op \in TensorOps
               PROVE  p + 1 <= m + n /\ Follows(e[p + 1], e[p])
  BY <1>1 DEF Guarded, e
<1>3. CASE p <= m
  <2>1. p \in 1 .. m /\ e[p] = c[p]
    BY <1>1, <1>3
  <2>2. p + 1 <= m /\ Follows(c[p + 1], c[p])
    BY <1>2, <2>1 DEF Guarded
  <2>3. p + 1 \in 1 .. m + n /\ e[p + 1] = c[p + 1]
    BY <1>1, <2>1, <2>2
  <2> QED BY <1>1, <2>1, <2>2, <2>3
<1>4. CASE p > m
  <2> DEFINE r == p - m
  <2>1. r \in 1 .. n /\ e[p] = d[r]
    BY <1>1, <1>4
  <2> HIDE DEF r
  <2>2. r + 1 <= n /\ Follows(d[r + 1], d[r])
    BY <1>2, <2>1 DEF Guarded
  <2>3. p + 1 \in 1 .. m + n /\ p + 1 > m /\ p + 1 - m = r + 1
    BY <1>1, <1>4, <2>1, <2>2 DEF r
  <2>4. e[p + 1] = d[r + 1]
    BY <1>1, <2>3
  <2> QED BY <2>1, <2>2, <2>3, <2>4
<1> QED BY <1>1, <1>3, <1>4

\* The code a builder emits for its items: a transfer for each load and reservation.
Refines(c, items) ==
  /\ IsSeq(c) /\ IsSeq(items) /\ Len(c) = Len(items)
  /\ \A p \in 1 .. Len(c) : IF items[p].op \in {LOAD, RESERVE} THEN c[p].op \in DmaOpcodes
                            ELSE c[p] = items[p]

\* The opcodes are different numbers.
LEMMA OpcodesAre ==
  /\ DmaOpcodes = {1, 2, 3} /\ TensorOps = {4, 5, 6, 10}
  /\ LOAD = -1 /\ RESERVE = -2 /\ BARRIER = 7 /\ HALT = 255
BY DEF DmaOpcodes, LOAD_TILE, STORE_TILE, DMA_COPY, TensorOps, MATMUL, VECTOR_OP, REDUCE, CLEAR,
       LOAD, RESERVE, BARRIER, HALT

\* The code of guarded items is clean.
LEMMA GuardedIsClean ==
  ASSUME NEW c, NEW items, Guarded(items), Refines(c, items)
  PROVE  Clean(c)
<1> DEFINE n == Len(c)
<1>1. IsSeq(c) /\ n \in Nat /\ Len(items) = n
  BY HasLen DEF Refines
<1>2. ASSUME NEW p \in 1 .. n, Async(c[p]) PROVE p + 1 <= n /\ WaitsFor(c[p + 1], c[p])
  <2>1. Moves(items[p]) \/ items[p].op \in TensorOps
    BY <1>2 DEF Refines, Async, Moves
  <2>2. p + 1 <= n /\ Follows(items[p + 1], items[p])
    BY <1>1, <2>1 DEF Guarded
  <2>3. p + 1 \in 1 .. n
    BY <1>1, <2>2
  <2>4. CASE Moves(items[p])
    <3>1. c[p].op \in DmaOpcodes
      BY <2>4 DEF Refines, Moves
    <3>2. CASE Moves(items[p + 1])
      <4>1. c[p + 1].op \in DmaOpcodes
        BY <2>3, <3>2 DEF Refines, Moves
      <4> QED BY <2>2, <3>1, <4>1 DEF WaitsFor
    <3>3. CASE items[p + 1].op = BARRIER /\ Bit(items[p + 1].imm0, 0)
      <4>1. c[p + 1] = items[p + 1]
        BY <2>3, <3>3, OpcodesAre DEF Refines
      <4> QED BY <2>2, <3>1, <3>3, <4>1 DEF WaitsFor, BarrierCovers
    <3> QED BY <2>2, <2>4, <3>2, <3>3 DEF Follows
  <2>5. CASE ~Moves(items[p])
    <3>1. ~Moves(items[p + 1]) /\ WaitsFor(items[p + 1], items[p])
      BY <2>2, <2>5 DEF Follows
    <3>2. c[p] = items[p] /\ c[p + 1] = items[p + 1]
      BY <2>3, <2>5, <3>1 DEF Refines, Moves
    <3> QED BY <2>2, <3>1, <3>2
  <2> QED BY <2>4, <2>5
<1>3. ASSUME NEW p \in 1 .. n, NEW q \in 1 .. n, p < q, Async(c[p])
      PROVE  \E k \in p + 1 .. q : WaitsFor(c[k], c[p])
  <2>1. p + 1 \in p + 1 .. q
    BY <1>3
  <2> QED BY <1>2, <1>3, <2>1
<1>4. Fenced(c)
  BY <1>3 DEF Fenced
<1>5. Drained(c)
  <2>1. ASSUME NEW p \in 1 .. n, Async(c[p]) PROVE p < n /\ n \in 1 .. n
    BY <1>1, <1>2, <2>1
  <2> QED BY <1>3, <2>1 DEF Drained
<1> QED BY <1>1, <1>4, <1>5 DEF Clean

\* So is guarded code without loads and reservations.
LEMMA GuardedCode ==
  ASSUME NEW c, Guarded(c), \A p \in 1 .. Len(c) : c[p].op \notin {LOAD, RESERVE}
  PROVE  Clean(c)
<1>1. Refines(c, c)
  BY DEF Refines, Guarded
<1> QED BY <1>1, GuardedIsClean

\* The tensors of a builder's items have sizes.
Sized(items) ==
  \A p \in 1 .. Len(items) :
    /\ items[p].op = LOAD => items[p].w * Len(items[p].v) \in Nat
    /\ items[p].op = RESERVE => items[p].n \in Nat

\* A MATMUL on bf16 operands of TensorCore 0
IsProduct(i) == i.op = MATMUL /\ i.target = TC0 /\ Bit(i.flags, BF16)

\* Items that are guarded and have sizes
Tidy(c) == Guarded(c) /\ Sized(c)

\* A program for all MXUs of TensorCore 0
ForAllMxus(i) == IF i.op = MATMUL THEN [i EXCEPT !.target = TC0AllMxus] ELSE i
Retarget(c) == [p \in DOMAIN c |-> ForAllMxus(c[p])]

\* The instructions of a retargeted program
LEMMA RetargetIs ==
  ASSUME NEW c, IsSeq(c)
  PROVE  /\ IsSeq(Retarget(c)) /\ Len(Retarget(c)) = Len(c)
         /\ \A p \in 1 .. Len(c) : Retarget(c)[p] = ForAllMxus(c[p])
<1>1. Len(c) \in Nat /\ DOMAIN c = 1 .. Len(c)
  <2>1. PICK S : c \in Seq(S)
    BY DEF IsSeq
  <2> QED BY <2>1
<1> DEFINE f == Retarget(c)   n == Len(c)
<1>2. f = [p \in 1 .. n |-> ForAllMxus(c[p])]
  BY <1>1 DEF Retarget
<1>3. f = [p \in 1 .. n |-> f[p]] /\ \A p \in 1 .. n : f[p] = ForAllMxus(c[p])
  BY <1>2
<1> HIDE DEF f, n
<1>4. IsSeq(f) /\ Len(f) = n
  BY <1>1, <1>3, ListIsSeq DEF n
<1> QED BY <1>3, <1>4 DEF f, n

\* Programs are retargeted part by part.
LEMMA RetargetJoined ==
  ASSUME NEW c, NEW d, IsSeq(c), IsSeq(d)
  PROVE  Retarget(c \o d) = Retarget(c) \o Retarget(d)
<1> DEFINE e == c \o d   f == Retarget(c)   g == Retarget(d)   l == Retarget(e)   r == f \o g
           m == Len(c)   n == Len(d)
<1>1. /\ IsSeq(e) /\ Len(e) = m + n /\ m \in Nat /\ n \in Nat
      /\ \A p \in 1 .. m + n : e[p] = IF p <= m THEN c[p] ELSE d[p - m]
  BY Joined, HasLen
<1> HIDE DEF e
<1>2. /\ IsSeq(f) /\ Len(f) = m /\ \A p \in 1 .. m : f[p] = ForAllMxus(c[p])
      /\ IsSeq(g) /\ Len(g) = n /\ \A p \in 1 .. n : g[p] = ForAllMxus(d[p])
      /\ IsSeq(l) /\ Len(l) = m + n /\ \A p \in 1 .. m + n : l[p] = ForAllMxus(e[p])
  BY <1>1, RetargetIs
<1> HIDE DEF f, g, l
<1>3. IsSeq(r) /\ Len(r) = m + n /\ \A p \in 1 .. m + n : r[p] = IF p <= m THEN f[p] ELSE g[p - m]
  BY <1>2, Joined
<1> HIDE DEF r
<1>4. ASSUME NEW p \in 1 .. m + n PROVE l[p] = r[p]
  <2>1. CASE p <= m
    <3>1. p \in 1 .. m
      BY <1>1, <2>1
    <3> QED BY <1>1, <1>2, <1>3, <2>1, <3>1
  <2>2. CASE ~(p <= m)
    <3>1. p - m \in 1 .. n
      BY <1>1, <2>2
    <3> QED BY <1>1, <1>2, <1>3, <2>2, <3>1
  <2> QED BY <2>1, <2>2
<1>5. PICK S, T : l \in Seq(S) /\ r \in Seq(T)
  BY <1>2, <1>3 DEF IsSeq
<1>6. l \in Seq(S \cup T) /\ r \in Seq(S \cup T)
  BY <1>5
<1>7. l = r
  BY <1>2, <1>3, <1>4, <1>6, SeqEqual
<1> QED BY <1>7 DEF l, e, r, f, g

\* What a program and all its parts may be
Kinds == {"clean", "items", "products", "either"}
Good(kind, c) ==
  CASE kind = "clean" -> Clean(c)
    [] kind = "items" -> Tidy(c)
    [] kind = "either" -> Clean(c) /\ Clean(Retarget(c))
    [] kind = "products" -> IsSeq(c) /\ \A p \in 1 .. Len(c) : IsProduct(c[p])

\* Good parts make a good program.
LEMMA GoodJoined ==
  ASSUME NEW kind \in Kinds, NEW c, NEW d, Good(kind, c), Good(kind, d)
  PROVE  Good(kind, c \o d)
<1> DEFINE e == c \o d   m == Len(c)   n == Len(d)
<1>1. CASE kind = "clean"
  BY <1>1, CleanJoined DEF Good
<1>5. CASE kind = "either"
  <2>1. Clean(c) /\ Clean(d) /\ Clean(Retarget(c)) /\ Clean(Retarget(d))
    BY <1>5 DEF Good
  <2>2. Retarget(c \o d) = Retarget(c) \o Retarget(d)
    BY <2>1, RetargetJoined DEF Clean
  <2>3. Clean(c \o d) /\ Clean(Retarget(c \o d))
    BY <2>1, <2>2, CleanJoined
  <2> QED BY <1>5, <2>3 DEF Good
<1>2. ASSUME IsSeq(c), IsSeq(d)
      PROVE  /\ IsSeq(e) /\ Len(e) = m + n
             /\ \A p \in 1 .. m + n : (\E q \in 1 .. m : e[p] = c[q]) \/ (\E q \in 1 .. n : e[p] = d[q])
  <2>1. /\ IsSeq(e) /\ Len(e) = m + n /\ m \in Nat /\ n \in Nat
        /\ \A p \in 1 .. m + n : e[p] = IF p <= m THEN c[p] ELSE d[p - m]
    BY <1>2, Joined, HasLen
  <2> HIDE DEF e
  <2>2. ASSUME NEW p \in 1 .. m + n PROVE (p <= m => p \in 1 .. m) /\ (~(p <= m) => p - m \in 1 .. n)
    BY <2>1
  <2> QED BY <2>1, <2>2
<1> HIDE DEF e
<1>3. CASE kind = "items"
  <2>1. Guarded(e)
    BY <1>3, GuardedJoined DEF Good, Tidy, e
  <2>2. IsSeq(c) /\ IsSeq(d) /\ Sized(c) /\ Sized(d)
    BY <1>3 DEF Good, Tidy, Guarded
  <2>3. Sized(e)
    BY <1>2, <2>2 DEF Sized
  <2> QED BY <1>3, <2>1, <2>3 DEF Good, Tidy, e
<1>4. CASE kind = "products"
  <2>1. IsSeq(c) /\ IsSeq(d) /\ (\A p \in 1 .. m : IsProduct(c[p])) /\ (\A p \in 1 .. n : IsProduct(d[p]))
    BY <1>4 DEF Good
  <2>2. IsSeq(e) /\ \A p \in 1 .. Len(e) : IsProduct(e[p])
    BY <1>2, <2>1
  <2> QED BY <1>4, <2>2 DEF Good, e
<1> QED BY <1>1, <1>3, <1>4, <1>5 DEF Kinds

\* The empty program is good.
LEMMA GoodEmpty ==
  ASSUME NEW kind \in Kinds
  PROVE  Good(kind, <<>>)
<1>1. IsSeq(<<>>) /\ Len(<<>>) = 0
  <2>1. <<>> \in Seq({})
    OBVIOUS
  <2> QED BY <2>1 DEF IsSeq
<1>2. \A p : p \notin 1 .. 0
  OBVIOUS
<1>3. IsSeq(Retarget(<<>>)) /\ Len(Retarget(<<>>)) = 0
  BY <1>1, RetargetIs
<1> QED BY <1>1, <1>2, <1>3 DEF Kinds, Good, Clean, Fenced, Drained, Tidy, Guarded, Sized

\* A loop of good bodies is good.
LEMMA GoodConcat ==
  ASSUME NEW kind \in Kinds, NEW n \in Nat, NEW seqs, Len(seqs) = n,
         \A m \in 1 .. n : Good(kind, seqs[m])
  PROVE  Good(kind, Concat(seqs))
<1>1. PICK g : IsConcat(g, seqs) /\ Concat(seqs) = g[n]
  BY ConcatIs
<1> DEFINE S == {m \in Nat : m <= n => Good(kind, g[m])}
<1>2. 0 \in S
  <2>1. g[0] = <<>>
    BY <1>1 DEF IsConcat
  <2> QED BY <2>1, GoodEmpty
<1>3. ASSUME NEW m \in Nat, m \in S PROVE m + 1 \in S
  <2>1. SUFFICES ASSUME m + 1 <= n PROVE Good(kind, g[m + 1])
    OBVIOUS
  <2>2. g[m + 1] = g[m] \o seqs[m + 1]
    BY <1>1, <2>1 DEF IsConcat
  <2>3. Good(kind, g[m]) /\ Good(kind, seqs[m + 1])
    BY <1>3, <2>1
  <2> QED BY <2>2, <2>3, GoodJoined
<1> HIDE DEF S
<1>4. n \in S
  BY <1>2, <1>3, Counting
<1> QED BY <1>1, <1>4 DEF S

-----------------------------------------------------------------------------
(* The code of a builder                                                    *)

\* The item x of the code for the item i of the builder
Becomes(x, i) == IF i.op \in {LOAD, RESERVE} THEN x.op \in DmaOpcodes ELSE x = i

\* What one item becomes
LEMMA EmitIs ==
  ASSUME NEW i, NEW cursor \in Nat, i.op = LOAD => i.w * Len(i.v) \in Nat,
         i.op = RESERVE => i.n \in Nat
  PROVE  /\ Emit(i, cursor).cursor \in Nat
         /\ \E x : Emit(i, cursor).code = <<x>> /\ Becomes(x, i)
<1> DEFINE off == align_up(cursor, 64)
<1>1. off \in Nat
  BY DEF align_up, Ceil
<1> HIDE DEF off
<1>2. \A d, s, l : dma_copy(d, s, l).op \in DmaOpcodes
  BY DEF dma_copy, dma_as, Instr, DmaOpcodes
<1>3. CASE i.op = LOAD
  <2> DEFINE x == dma_copy(V0(i.vmem), H(off), i.w * Len(i.v))
  <2>1. Emit(i, cursor).code = <<x>> /\ Emit(i, cursor).cursor = off + i.w * Len(i.v)
    <3>1. Emit(i, cursor) = [code |-> <<x>>, image |-> {Block(off, i.w, i.v)}, outs |-> {},
                             cursor |-> off + i.w * Len(i.v)]
      BY <1>3, OpcodesAre DEF Emit, off
    <3> HIDE DEF x
    <3> QED BY <3>1
  <2>2. x.op \in DmaOpcodes
    BY <1>2
  <2> HIDE DEF x
  <2>3. off + i.w * Len(i.v) \in Nat
    <3> DEFINE b == i.w * Len(i.v)
    <3>1. b \in Nat
      BY <1>3
    <3> HIDE DEF b
    <3>2. off + b \in Nat
      BY <1>1, <3>1
    <3> QED BY <3>2 DEF b
  <2> QED BY <1>3, <2>1, <2>2, <2>3 DEF Becomes
<1>4. CASE i.op = RESERVE
  <2> DEFINE x == dma_copy(H(off), V0(i.vmem), 4 * i.n)
  <2>1. Emit(i, cursor).code = <<x>> /\ Emit(i, cursor).cursor = off + 4 * i.n
    BY <1>4, OpcodesAre DEF Emit, off
  <2>2. x.op \in DmaOpcodes
    BY <1>2
  <2> HIDE DEF x
  <2> QED BY <1>1, <1>4, <2>1, <2>2 DEF Becomes
<1>5. CASE i.op \notin {LOAD, RESERVE}
  <2>1. Emit(i, cursor).code = <<i>> /\ Emit(i, cursor).cursor = cursor
    BY <1>5 DEF Emit
  <2> QED BY <1>5, <2>1 DEF Becomes
<1> QED BY <1>3, <1>4, <1>5

\* The halves of a part
Triples(n) == (1 .. n) \X (1 .. n) \X Nat
Halves(g, lo, hi, cursor) ==
  LET l == g[<<lo, Mid(lo, hi), cursor>>]
      h == g[<<Mid(lo, hi) + 1, hi, l.cursor>>]
  IN  [code |-> l.code \o h.code, image |-> l.image \cup h.image,
       outs |-> l.outs \cup h.outs, cursor |-> h.cursor]
\* g has the parts of at most d + 1 items.
BuiltTo(g, items, n, d) ==
  \A lo, hi \in 1 .. n, cursor \in Nat :
    hi - lo <= d =>
      /\ g[<<lo, hi, cursor>>] = IF lo >= hi THEN Emit(items[lo], cursor) ELSE Halves(g, lo, hi, cursor)
      /\ g[<<lo, hi, cursor>>].cursor \in Nat

\* The parts of all lengths exist: by induction on the length.
LEMMA BuildExists ==
  ASSUME NEW n \in Nat, NEW items, Len(items) = n, Sized(items)
  PROVE  \A d \in Nat : \E g : BuiltTo(g, items, n, d)
<1> DEFINE S == {d \in Nat : \E g : BuiltTo(g, items, n, d)}
<1>1. 0 \in S
  <2> DEFINE g == [r \in Triples(n) |-> Emit(items[r[1]], r[3])]
  <2>1. ASSUME NEW lo \in 1 .. n, NEW hi \in 1 .. n, NEW cursor \in Nat
        PROVE  g[<<lo, hi, cursor>>] = Emit(items[lo], cursor) /\ Emit(items[lo], cursor).cursor \in Nat
    <3>1. g[<<lo, hi, cursor>>] = Emit(items[lo], cursor)
      BY DEF Triples
    <3>2. Emit(items[lo], cursor).cursor \in Nat
      BY EmitIs DEF Sized
    <3> QED BY <3>1, <3>2
  <2> HIDE DEF g
  <2>2. BuiltTo(g, items, n, 0)
    BY <2>1 DEF BuiltTo
  <2> QED BY <2>2
<1>2. ASSUME NEW d \in Nat, d \in S PROVE d + 1 \in S
  <2>1. PICK g : BuiltTo(g, items, n, d)
    BY <1>2
  <2> DEFINE h == [r \in Triples(n) |-> IF r[2] - r[1] <= d THEN g[r] ELSE Halves(g, r[1], r[2], r[3])]
  <2>2. ASSUME NEW lo \in 1 .. n, NEW hi \in 1 .. n, NEW cursor \in Nat, hi - lo <= d
        PROVE  h[<<lo, hi, cursor>>] = g[<<lo, hi, cursor>>]
    BY <2>2 DEF Triples
  <2>3. ASSUME NEW lo \in 1 .. n, NEW hi \in 1 .. n, NEW cursor \in Nat, hi - lo = d + 1
        PROVE  h[<<lo, hi, cursor>>] = Halves(g, lo, hi, cursor)
    BY <2>3 DEF Triples
  <2> HIDE DEF h
  <2>4. ASSUME NEW lo \in 1 .. n, NEW hi \in 1 .. n, NEW cursor \in Nat, hi - lo <= d + 1, lo < hi
        PROVE  Halves(h, lo, hi, cursor) = Halves(g, lo, hi, cursor) /\ Halves(g, lo, hi, cursor).cursor \in Nat
    <3> DEFINE m == Mid(lo, hi)   c == g[<<lo, m, cursor>>].cursor
    <3>0. m \in Nat /\ lo <= m /\ m < hi
      BY <2>4, MidIs
    <3>1. m \in 1 .. n /\ m + 1 \in 1 .. n /\ m - lo <= d /\ hi - (m + 1) <= d
      BY <2>4, <3>0
    <3> HIDE DEF m
    <3>2. c \in Nat
      BY <2>1, <3>1 DEF BuiltTo
    <3>3. h[<<lo, m, cursor>>] = g[<<lo, m, cursor>>]
      BY <2>2, <3>1
    <3>4. h[<<m + 1, hi, c>>] = g[<<m + 1, hi, c>>] /\ g[<<m + 1, hi, c>>].cursor \in Nat
      BY <2>1, <2>2, <3>1, <3>2 DEF BuiltTo
    <3> QED BY <3>3, <3>4 DEF Halves, m
  <2>5. ASSUME NEW lo \in 1 .. n, NEW hi \in 1 .. n, NEW cursor \in Nat, hi - lo <= d + 1
        PROVE  /\ h[<<lo, hi, cursor>>] = IF lo >= hi THEN Emit(items[lo], cursor) ELSE Halves(h, lo, hi, cursor)
               /\ h[<<lo, hi, cursor>>].cursor \in Nat
    <3>1. CASE hi - lo <= d
      <4>1. /\ g[<<lo, hi, cursor>>] = IF lo >= hi THEN Emit(items[lo], cursor) ELSE Halves(g, lo, hi, cursor)
            /\ g[<<lo, hi, cursor>>].cursor \in Nat
        BY <2>1, <3>1 DEF BuiltTo
      <4> QED BY <2>2, <2>4, <2>5, <3>1, <4>1
    <3>2. CASE hi - lo = d + 1
      BY <2>3, <2>4, <3>2
    <3> QED BY <2>5, <3>1, <3>2
  <2>6. BuiltTo(h, items, n, d + 1)
    BY <2>5 DEF BuiltTo
  <2> QED BY <2>6
<1> HIDE DEF S
<1>3. \A d \in Nat : d \in S
  BY <1>1, <1>2, Counting
<1> QED BY <1>3 DEF S

\* The recursive function of Build
IsBuild(part, items) ==
  part = [r \in (1 .. Len(items)) \X (1 .. Len(items)) \X Nat |->
            IF r[1] >= r[2] THEN Emit(items[r[1]], r[3])
            ELSE LET mid == (r[1] + r[2]) \div 2
                     l == part[<<r[1], mid, r[3]>>]
                     h == part[<<mid + 1, r[2], l.cursor>>]
                 IN  [code |-> l.code \o h.code, image |-> l.image \cup h.image,
                      outs |-> l.outs \cup h.outs, cursor |-> h.cursor]]

\* What Build is: the whole of the items' parts.
LEMMA BuildIs ==
  ASSUME NEW n \in Nat \ {0}, NEW items, Len(items) = n, Sized(items)
  PROVE  \E g : BuiltTo(g, items, n, n) /\ Build(items) = g[<<1, n, 0>>]
<1>1. PICK g : BuiltTo(g, items, n, n)
  BY BuildExists
<1> DEFINE h == [r \in Triples(n) |-> g[r]]
           F(r) == IF r[1] >= r[2] THEN Emit(items[r[1]], r[3]) ELSE Halves(h, r[1], r[2], r[3])
<1>2. \A lo, hi \in 1 .. n, cursor \in Nat : h[<<lo, hi, cursor>>] = g[<<lo, hi, cursor>>]
  BY DEF Triples
<1>3. h = [r \in Triples(n) |-> h[r]]
  OBVIOUS
<1> HIDE DEF h
<1>4. ASSUME NEW lo \in 1 .. n, NEW hi \in 1 .. n, NEW cursor \in Nat
      PROVE  h[<<lo, hi, cursor>>] = F(<<lo, hi, cursor>>)
  <2>1. g[<<lo, hi, cursor>>] = IF lo >= hi THEN Emit(items[lo], cursor) ELSE Halves(g, lo, hi, cursor)
    BY <1>1 DEF BuiltTo
  <2>2. CASE lo < hi
    <3> DEFINE m == Mid(lo, hi)   c == g[<<lo, m, cursor>>].cursor
    <3>0. m \in Nat /\ lo <= m /\ m < hi
      BY <2>2, MidIs
    <3>1. m \in 1 .. n /\ m + 1 \in 1 .. n /\ m - lo <= n
      BY <3>0
    <3> HIDE DEF m
    <3>2. c \in Nat
      BY <1>1, <3>1 DEF BuiltTo
    <3>3. h[<<lo, m, cursor>>] = g[<<lo, m, cursor>>] /\ h[<<m + 1, hi, c>>] = g[<<m + 1, hi, c>>]
      BY <1>2, <3>1, <3>2
    <3>4. Halves(h, lo, hi, cursor) = Halves(g, lo, hi, cursor)
      BY <3>3 DEF Halves, m
    <3>5. F(<<lo, hi, cursor>>) = Halves(h, lo, hi, cursor)
      BY <2>2
    <3> QED BY <1>2, <2>1, <2>2, <3>4, <3>5
  <2>3. CASE lo >= hi
    BY <1>2, <2>1, <2>3
  <2> QED BY <2>2, <2>3
<1>5. h = [r \in Triples(n) |-> F(r)]
  <2>1. ASSUME NEW r \in Triples(n) PROVE h[r] = F(r)
    <3>1. PICK lo \in 1 .. n, hi \in 1 .. n, cursor \in Nat : r = <<lo, hi, cursor>>
      BY DEF Triples
    <3> QED BY <1>4, <3>1
  <2> HIDE DEF F
  <2> QED BY <1>3, <2>1
<1>6. IsBuild(h, items)
  BY <1>5 DEF IsBuild, Triples, Halves, Mid
<1> DEFINE part == CHOOSE f : IsBuild(f, items)
<1>7. IsBuild(part, items)
  BY <1>6
<1>8. Build(items) = part[<<1, n, 0>>]
  BY DEF Build, IsBuild
<1> HIDE DEF part
<1> DEFINE G(r) == IF r[1] >= r[2] THEN Emit(items[r[1]], r[3]) ELSE Halves(part, r[1], r[2], r[3])
<1>9. part = [r \in Triples(n) |-> G(r)]
  BY <1>7 DEF IsBuild, Triples, Halves, Mid
<1>10. ASSUME NEW lo \in 1 .. n, NEW hi \in 1 .. n, NEW cursor \in Nat
       PROVE  part[<<lo, hi, cursor>>] =
                IF lo >= hi THEN Emit(items[lo], cursor) ELSE Halves(part, lo, hi, cursor)
  <2>1. <<lo, hi, cursor>> \in Triples(n)
    BY DEF Triples
  <2> HIDE DEF G
  <2>2. part[<<lo, hi, cursor>>] = G(<<lo, hi, cursor>>)
    BY <1>9, <2>1
  <2> QED BY <2>2 DEF G
<1> DEFINE S == {d \in Nat : \A lo, hi \in 1 .. n, cursor \in Nat :
                               hi - lo <= d => part[<<lo, hi, cursor>>].cursor \in Nat}
<1>11. 0 \in S
  <2>1. ASSUME NEW lo \in 1 .. n, NEW cursor \in Nat PROVE Emit(items[lo], cursor).cursor \in Nat
    BY EmitIs DEF Sized
  <2> QED BY <1>10, <2>1
<1>12. ASSUME NEW d \in Nat, d \in S PROVE d + 1 \in S
  <2>1. SUFFICES ASSUME NEW lo \in 1 .. n, NEW hi \in 1 .. n, NEW cursor \in Nat, hi - lo <= d + 1
                 PROVE  part[<<lo, hi, cursor>>].cursor \in Nat
    OBVIOUS
  <2>2. CASE lo >= hi
    <3>1. Emit(items[lo], cursor).cursor \in Nat
      BY EmitIs DEF Sized
    <3> QED BY <1>10, <2>2, <3>1
  <2>3. CASE lo < hi
    <3> DEFINE m == Mid(lo, hi)   c == part[<<lo, m, cursor>>].cursor
    <3>0. m \in Nat /\ lo <= m /\ m < hi
      BY <2>3, MidIs
    <3>1. m \in 1 .. n /\ m + 1 \in 1 .. n /\ m - lo <= d /\ hi - (m + 1) <= d
      BY <2>1, <3>0
    <3> HIDE DEF m
    <3>2. c \in Nat
      BY <1>12, <3>1
    <3>3. part[<<m + 1, hi, c>>].cursor \in Nat
      BY <1>12, <3>1, <3>2
    <3>4. part[<<lo, hi, cursor>>] = Halves(part, lo, hi, cursor)
      BY <1>10, <2>3
    <3> QED BY <3>3, <3>4 DEF Halves, m
  <2> QED BY <2>2, <2>3
<1> HIDE DEF S
<1>13. n \in S
  BY <1>11, <1>12, Counting
<1>14. BuiltTo(part, items, n, n)
  BY <1>10, <1>13 DEF BuiltTo, S
<1> QED BY <1>8, <1>14

\* The builder emits one instruction for each item.
LEMMA BuildRefines ==
  ASSUME NEW n \in Nat \ {0}, NEW items, Len(items) = n, IsSeq(items), Sized(items)
  PROVE  Refines(Build(items).code, items)
<1>1. PICK g : BuiltTo(g, items, n, n) /\ Build(items) = g[<<1, n, 0>>]
  BY BuildIs
<1> DEFINE Part(code, lo, hi) ==
             /\ IsSeq(code) /\ Len(code) = hi - lo + 1
             /\ \A p \in 1 .. hi - lo + 1 : Becomes(code[p], items[lo + p - 1])
           S == {d \in Nat : \A lo, hi \in 1 .. n, cursor \in Nat :
                               lo <= hi /\ hi - lo <= d => Part(g[<<lo, hi, cursor>>].code, lo, hi)}
<1>2. ASSUME NEW lo \in 1 .. n, NEW hi \in 1 .. n, NEW cursor \in Nat, lo = hi
      PROVE  Part(g[<<lo, hi, cursor>>].code, lo, hi)
  <2>1. g[<<lo, hi, cursor>>] = Emit(items[lo], cursor)
    <3>1. lo >= hi /\ hi - lo <= n
      BY <1>2
    <3> QED BY <1>1, <3>1 DEF BuiltTo
  <2>2. PICK x : Emit(items[lo], cursor).code = <<x>> /\ Becomes(x, items[lo])
    BY EmitIs DEF Sized
  <2>3. IsSeq(<<x>>)
    <3>1. <<x>> \in Seq({x})
      OBVIOUS
    <3> QED BY <3>1 DEF IsSeq
  <2>4. Len(<<x>>) = 1 /\ <<x>>[1] = x /\ hi - lo + 1 = 1
    BY <1>2
  <2>5. ASSUME NEW p \in 1 .. 1 PROVE Becomes(<<x>>[p], items[lo + p - 1])
    <3>1. p = 1 /\ lo + p - 1 = lo
      OBVIOUS
    <3> QED BY <2>2, <2>4, <3>1
  <2> QED BY <2>1, <2>2, <2>3, <2>4, <2>5
<1> HIDE DEF Part
<1>3. 0 \in S
  BY <1>2
<1>4. ASSUME NEW d \in Nat, d \in S PROVE d + 1 \in S
  <2>1. SUFFICES ASSUME NEW lo \in 1 .. n, NEW hi \in 1 .. n, NEW cursor \in Nat, lo < hi, hi - lo <= d + 1
                 PROVE  Part(g[<<lo, hi, cursor>>].code, lo, hi)
    BY <1>2
  <2> DEFINE m == Mid(lo, hi)   l == g[<<lo, m, cursor>>]   h == g[<<m + 1, hi, l.cursor>>]
             a == l.code   b == h.code   e == a \o b
  <2>0. m \in Nat /\ lo <= m /\ m < hi
    BY <2>1, MidIs
  <2>2. m \in 1 .. n /\ m + 1 \in 1 .. n /\ lo <= m /\ m < hi /\ m - lo <= d /\ hi - (m + 1) <= d
    BY <2>0, <2>1
  <2>3. l.cursor \in Nat
    BY <1>1, <2>2 DEF BuiltTo
  <2>4. Part(a, lo, m) /\ Part(b, m + 1, hi)
    BY <1>4, <2>2, <2>3
  <2>5. g[<<lo, hi, cursor>>].code = e
    <3>1. ~(lo >= hi) /\ hi - lo <= n
      BY <2>1
    <3>2. g[<<lo, hi, cursor>>] = Halves(g, lo, hi, cursor)
      BY <1>1, <3>1 DEF BuiltTo
    <3>3. Halves(g, lo, hi, cursor).code = e
      BY DEF Halves
    <3> QED BY <3>2, <3>3
  <2> HIDE DEF a, b, m
  <2>6. /\ IsSeq(e) /\ Len(e) = Len(a) + Len(b)
        /\ \A p \in 1 .. Len(a) + Len(b) : e[p] = IF p <= Len(a) THEN a[p] ELSE b[p - Len(a)]
    BY <2>4, Joined DEF Part
  <2> HIDE DEF e
  <2>7. Len(a) = m - lo + 1 /\ Len(b) = hi - m /\ Len(a) + Len(b) = hi - lo + 1
    BY <2>2, <2>4 DEF Part
  <2>8. ASSUME NEW p \in 1 .. hi - lo + 1 PROVE Becomes(e[p], items[lo + p - 1])
    <3>1. CASE p <= m - lo + 1
      <4>1. p \in 1 .. m - lo + 1 /\ e[p] = a[p]
        BY <2>2, <2>6, <2>7, <3>1
      <4> QED BY <2>4, <4>1 DEF Part
    <3>2. CASE p > m - lo + 1
      <4> DEFINE q == p - (m - lo + 1)
      <4>1. q \in 1 .. hi - (m + 1) + 1 /\ e[p] = b[q] /\ (m + 1) + q - 1 = lo + p - 1
        BY <2>2, <2>6, <2>7, <3>2
      <4> HIDE DEF q
      <4> QED BY <2>4, <4>1 DEF Part
    <3> QED BY <2>2, <3>1, <3>2
  <2> QED BY <2>5, <2>6, <2>7, <2>8 DEF Part
<1> HIDE DEF S
<1>5. n \in S
  BY <1>3, <1>4, Counting
<1>6. Part(Build(items).code, 1, n)
  <2>1. 1 \in 1 .. n /\ n \in 1 .. n /\ n - 1 <= n
    OBVIOUS
  <2>2. Part(g[<<1, n, 0>>].code, 1, n)
    BY <1>5, <2>1 DEF S
  <2> QED BY <1>1, <2>2
<1>7. n - 1 + 1 = n /\ \A p \in 1 .. n : 1 + p - 1 = p
  OBVIOUS
<1> QED BY <1>6, <1>7 DEF Refines, Becomes, Part

\* Tidy parts make tidy items.
LEMMA TidyJoined ==
  ASSUME NEW c, NEW d, Tidy(c), Tidy(d)
  PROVE  Tidy(c \o d)
<1>1. "items" \in Kinds /\ Good("items", c) /\ Good("items", d)
  BY DEF Kinds, Good
<1>2. Good("items", c \o d)
  BY <1>1, GoodJoined
<1> QED BY <1>2 DEF Good

\* So does a loop of them.
LEMMA TidyConcat ==
  ASSUME NEW n \in Nat, NEW seqs, Len(seqs) = n, \A m \in 1 .. n : Tidy(seqs[m])
  PROVE  Tidy(Concat(seqs))
<1>1. "items" \in Kinds /\ \A m \in 1 .. n : Good("items", seqs[m])
  BY DEF Kinds, Good
<1>2. Good("items", Concat(seqs))
  BY <1>1, GoodConcat
<1> QED BY <1>2 DEF Good

\* A list of known length as a vector
LEMMA VecLen ==
  ASSUME NEW n \in Nat, NEW f, f = [i \in 1 .. n |-> f[i]]
  PROVE  IsSeq(Eager(f)) /\ Len(Eager(f)) = n
<1>1. IsSeq(f) /\ Len(f) = n
  BY ListIsSeq
<1>2. IsSeq(<<>>) /\ Len(<<>>) = 0
  <2>1. <<>> \in Seq({})
    OBVIOUS
  <2> QED BY <2>1 DEF IsSeq
<1> QED BY <1>1, <1>2, Joined DEF Eager

\* The instructions of the kernels
LaneOps == {MATMUL, VECTOR_OP, REDUCE}
KernelCode(c) == IsSeq(c) /\ \A p \in 1 .. Len(c) : c[p].op \in LaneOps

\* The opcodes of the instructions that the builders make
LEMMA OpsAre ==
  /\ \A dst, a, b, m, n, k, options : MM(dst, a, b, m, n, k, options).op = MATMUL
  /\ \A dst, s0, n, op : V(dst, s0, n, op).op = VECTOR_OP
  /\ \A dst, s0, n, op, s1 : V2(dst, s0, n, op, s1).op = VECTOR_OP
  /\ \A dst, src, n, op : R(dst, src, n, op).op = REDUCE
  /\ \A dst, n : clear(dst, n).op = CLEAR
  /\ \A dst, src, n : dma_copy(dst, src, n).op = DMA_COPY
  /\ \A mask : barrier(mask).op = BARRIER
  /\ halt.op = HALT
BY DEF MM, matmul, V, vector_op, V2, R, reduce_op, clear, dma_copy, dma_as, barrier, halt, Instr

\* What the barriers of the builders wait for
LEMMA BarriersAre ==
  /\ Bit(barrier(DMA).imm0, 0)
  /\ \A i : i.op \in TensorOps => /\ WaitsFor(barrier(MXU), i) /\ WaitsFor(barrier(LocalUnits), i)
                                  /\ WaitsFor(barrier(ALL_LOCAL), i) /\ WaitsFor(barrier(VPU), i)
  /\ \A i : i.op \in DmaOpcodes => WaitsFor(barrier(DMA), i)
<1>1. /\ barrier(DMA).imm0 = 1 /\ barrier(MXU).imm0 = 2 /\ barrier(VPU).imm0 = 4
      /\ barrier(LocalUnits).imm0 = 14 /\ barrier(ALL_LOCAL).imm0 = 64
  BY DEF barrier, Instr, DMA, MXU, VPU, REDUCE_UNIT, LocalUnits, ALL_LOCAL, Half
<1>2. Bit(1, 0)
  BY DEF Bit
<1>3. Bit(2, 1) /\ Bit(14, 1)
  BY DEF Bit
<1>4. Bit(4, 2)
  <2>1. 2 ^ 2 = 4
    OBVIOUS
  <2> QED BY <2>1 DEF Bit
<1>5. Bit(64, 6)
  <2>1. 2 ^ 6 = 64
    OBVIOUS
  <2> QED BY <2>1 DEF Bit
<1>6. \A i : i.op \in TensorOps => i.op \notin DmaOpcodes
  BY OpcodesAre
<1>7. \A mask : barrier(mask).op = BARRIER
  BY OpsAre
<1> QED BY <1>1, <1>2, <1>3, <1>4, <1>5, <1>6, <1>7 DEF WaitsFor, BarrierCovers

\* _sync_kernel of any kernel is tidy.
LEMMA SyncTidy ==
  ASSUME NEW program, KernelCode(program)
  PROVE  Tidy(sync_kernel(program))
<1> DEFINE n == Len(program)
           F == [i \in DOMAIN program |->
                   IF program[i].op \in {MATMUL, VECTOR_OP, REDUCE}
                   THEN <<program[i], barrier(LocalUnits)>> ELSE <<program[i]>>]
<1>1. n \in Nat /\ DOMAIN program = 1 .. n
  <2>1. PICK S : program \in Seq(S)
    BY DEF KernelCode, IsSeq
  <2> QED BY <2>1
<1>2. ASSUME NEW m \in 1 .. n PROVE Tidy(F[m])
  <2> DEFINE i == program[m]   b == barrier(LocalUnits)
  <2>1. F[m] = <<i, b>> /\ i.op \in TensorOps
    BY <1>1 DEF KernelCode, LaneOps, TensorOps
  <2>2. WaitsFor(b, i) /\ b.op = BARRIER
    BY <2>1, BarriersAre, OpsAre
  <2> HIDE DEF i, b
  <2>3. IsSeq(<<i, b>>)
    <3>1. <<i, b>> \in Seq({i, b})
      OBVIOUS
    <3> QED BY <3>1 DEF IsSeq
  <2>4. ~Moves(i) /\ ~Moves(b) /\ b.op \notin TensorOps /\ i.op \notin {LOAD, RESERVE} /\ b.op \notin {LOAD, RESERVE}
    BY <2>1, <2>2, OpcodesAre DEF Moves
  <2>5. Len(<<i, b>>) = 2 /\ <<i, b>>[1] = i /\ <<i, b>>[2] = b /\ \A p \in 1 .. 2 : p = 1 \/ p = 2
    OBVIOUS
  <2>6. Guarded(<<i, b>>)
    BY <2>2, <2>3, <2>4, <2>5 DEF Guarded, Follows
  <2>7. Sized(<<i, b>>)
    BY <2>4, <2>5 DEF Sized
  <2> QED BY <2>1, <2>6, <2>7 DEF Tidy
<1>3. Len(F) = n
  BY <1>1
<1>4. sync_kernel(program) = Concat(F)
  BY DEF sync_kernel
<1> HIDE DEF F
<1> QED BY <1>1, <1>2, <1>3, <1>4, TidyConcat

\* A kernel of one instruction
LEMMA SyncedTidy ==
  ASSUME NEW i, i.op \in LaneOps
  PROVE  Tidy(Synced(i))
<1>1. KernelCode(<<i>>)
  <2>1. <<i>> \in Seq({i}) /\ Len(<<i>>) = 1 /\ <<i>>[1] = i /\ \A p \in 1 .. 1 : p = 1
    OBVIOUS
  <2> QED BY <2>1 DEF KernelCode, IsSeq
<1> QED BY <1>1, SyncTidy DEF Synced

\* Pieces of kernels are kernels.
LEMMA KernelJoined ==
  ASSUME NEW c, NEW d, KernelCode(c), KernelCode(d)
  PROVE  KernelCode(c \o d)
<1> DEFINE e == c \o d   m == Len(c)   n == Len(d)
<1>1. /\ IsSeq(e) /\ Len(e) = m + n /\ m \in Nat /\ n \in Nat
      /\ \A p \in 1 .. m + n : e[p] = IF p <= m THEN c[p] ELSE d[p - m]
  BY Joined, HasLen DEF KernelCode
<1> HIDE DEF e
<1>2. ASSUME NEW p \in 1 .. m + n PROVE e[p].op \in LaneOps
  <2>1. (p <= m => p \in 1 .. m) /\ (~(p <= m) => p - m \in 1 .. n)
    BY <1>1
  <2> QED BY <1>1, <2>1 DEF KernelCode
<1> QED BY <1>1, <1>2 DEF KernelCode, e

\* Kernel instructions in a sequence are a kernel.
LEMMA KernelFrom ==
  ASSUME NEW S, NEW c \in Seq(S), \A x \in S : x.op \in LaneOps
  PROVE  KernelCode(c)
<1>1. \A p \in 1 .. Len(c) : c[p] \in S
  OBVIOUS
<1> QED BY <1>1 DEF KernelCode, IsSeq

\* One kernel instruction
LEMMA KernelOf1 ==
  ASSUME NEW a1,
         \A x \in {a1} : x.op \in LaneOps
  PROVE  KernelCode(<<a1>>)
<1> DEFINE S == {a1}
<1>1. <<a1>> \in Seq(S)
  OBVIOUS
<1> HIDE DEF S
<1>2. \A x \in S : x.op \in LaneOps
  BY DEF S
<1> QED BY <1>1, <1>2, KernelFrom

\* Two kernel instructions in a row
LEMMA KernelOf2 ==
  ASSUME NEW a1, NEW a2,
         \A x \in {a1, a2} : x.op \in LaneOps
  PROVE  KernelCode(<<a1, a2>>)
<1> DEFINE S == {a1, a2}
<1>1. <<a1, a2>> \in Seq(S)
  OBVIOUS
<1> HIDE DEF S
<1>2. \A x \in S : x.op \in LaneOps
  BY DEF S
<1> QED BY <1>1, <1>2, KernelFrom

\* Three kernel instructions in a row
LEMMA KernelOf3 ==
  ASSUME NEW a1, NEW a2, NEW a3,
         \A x \in {a1, a2, a3} : x.op \in LaneOps
  PROVE  KernelCode(<<a1, a2, a3>>)
<1> DEFINE S == {a1, a2, a3}
<1>1. <<a1, a2, a3>> \in Seq(S)
  OBVIOUS
<1> HIDE DEF S
<1>2. \A x \in S : x.op \in LaneOps
  BY DEF S
<1> QED BY <1>1, <1>2, KernelFrom

\* Five kernel instructions in a row
LEMMA KernelOf5 ==
  ASSUME NEW a1, NEW a2, NEW a3, NEW a4, NEW a5,
         \A x \in {a1, a2, a3, a4, a5} : x.op \in LaneOps
  PROVE  KernelCode(<<a1, a2, a3, a4, a5>>)
<1> DEFINE S == {a1, a2, a3, a4, a5}
<1>1. <<a1, a2, a3, a4, a5>> \in Seq(S)
  OBVIOUS
<1> HIDE DEF S
<1>2. \A x \in S : x.op \in LaneOps
  BY DEF S
<1> QED BY <1>1, <1>2, KernelFrom

\* Six kernel instructions in a row
LEMMA KernelOf6 ==
  ASSUME NEW a1, NEW a2, NEW a3, NEW a4, NEW a5, NEW a6,
         \A x \in {a1, a2, a3, a4, a5, a6} : x.op \in LaneOps
  PROVE  KernelCode(<<a1, a2, a3, a4, a5, a6>>)
<1> DEFINE S == {a1, a2, a3, a4, a5, a6}
<1>1. <<a1, a2, a3, a4, a5, a6>> \in Seq(S)
  OBVIOUS
<1> HIDE DEF S
<1>2. \A x \in S : x.op \in LaneOps
  BY DEF S
<1> QED BY <1>1, <1>2, KernelFrom

\* Nine kernel instructions in a row
LEMMA KernelOf9 ==
  ASSUME NEW a1, NEW a2, NEW a3, NEW a4, NEW a5, NEW a6, NEW a7, NEW a8, NEW a9,
         \A x \in {a1, a2, a3, a4, a5, a6, a7, a8, a9} : x.op \in LaneOps
  PROVE  KernelCode(<<a1, a2, a3, a4, a5, a6, a7, a8, a9>>)
<1> DEFINE S == {a1, a2, a3, a4, a5, a6, a7, a8, a9}
<1>1. <<a1, a2, a3, a4, a5, a6, a7, a8, a9>> \in Seq(S)
  OBVIOUS
<1> HIDE DEF S
<1>2. \A x \in S : x.op \in LaneOps
  BY DEF S
<1> QED BY <1>1, <1>2, KernelFrom

\* Thirteen kernel instructions in a row
LEMMA KernelOf13 ==
  ASSUME NEW a1, NEW a2, NEW a3, NEW a4, NEW a5, NEW a6, NEW a7, NEW a8, NEW a9,
         NEW a10, NEW a11, NEW a12, NEW a13,
         \A x \in {a1, a2, a3, a4, a5, a6, a7, a8, a9, a10, a11, a12, a13} : x.op \in LaneOps
  PROVE  KernelCode(<<a1, a2, a3, a4, a5, a6, a7, a8, a9, a10, a11, a12, a13>>)
<1> DEFINE S == {a1, a2, a3, a4, a5, a6, a7, a8, a9, a10, a11, a12, a13}
<1>1. <<a1, a2, a3, a4, a5, a6, a7, a8, a9, a10, a11, a12, a13>> \in Seq(S)
  OBVIOUS
<1> HIDE DEF S
<1>2. \A x \in S : x.op \in LaneOps
  BY DEF S
<1> QED BY <1>1, <1>2, KernelFrom

\* The kernels of kernels.py are kernels, for every layout.
LEMMA KernelsAre ==
  ASSUME NEW L
  PROVE  /\ KernelCode(rmsnorm_program(L)) /\ KernelCode(softmax_program(L)) /\ KernelCode(rope_program(L))
         /\ KernelCode(swiglu_program(L)) /\ KernelCode(attention_head_program(L))
         /\ KernelCode(l2norm_program(L)) /\ KernelCode(gated_deltanet_step_program(L))
<1>1. /\ \A dst, a, b, m, n, k, options : MM(dst, a, b, m, n, k, options).op \in LaneOps
      /\ \A dst, s0, n, op : V(dst, s0, n, op).op \in LaneOps
      /\ \A dst, s0, n, op, s1 : V2(dst, s0, n, op, s1).op \in LaneOps
      /\ \A dst, src, n, op : R(dst, src, n, op).op \in LaneOps
  BY OpsAre DEF LaneOps
<1>2. ASSUME NEW M PROVE KernelCode(rmsnorm_program(M))
  BY <1>1, KernelOf6 DEF rmsnorm_program
<1>3. ASSUME NEW M PROVE KernelCode(softmax_program(M))
  BY <1>1, KernelOf9 DEF softmax_program
<1>4. ASSUME NEW M PROVE KernelCode(rope_program(M))
  BY <1>1, KernelOf5 DEF rope_program
<1>5. ASSUME NEW M PROVE KernelCode(swiglu_program(M))
  BY <1>1, KernelOf6 DEF swiglu_program
<1>6. ASSUME NEW M PROVE KernelCode(l2norm_program(M))
  BY <1>1, KernelOf3 DEF l2norm_program
<1>7. ASSUME NEW M PROVE KernelCode(gated_deltanet_step_program(M))
  BY <1>1, KernelOf13 DEF gated_deltanet_step_program
<1>8. KernelCode(attention_head_program(L))
  BY <1>1, <1>3, KernelOf1, KernelOf2, KernelJoined DEF attention_head_program
<1> QED BY <1>2, <1>3, <1>4, <1>5, <1>6, <1>7, <1>8

-----------------------------------------------------------------------------
(* The parts of the artifacts                                               *)

\* Two pairs make a row of four.
LEMMA PairsJoined ==
  ASSUME NEW l, NEW b, NEW m, NEW c
  PROVE  <<l, b>> \o <<m, c>> = <<l, b, m, c>>
<1> DEFINE S == {l, b, m, c}   x == <<l, b>> \o <<m, c>>   y == <<l, b, m, c>>
<1>1. <<l, b>> \in Seq(S) /\ <<m, c>> \in Seq(S) /\ y \in Seq(S) /\ Len(y) = 4
      /\ Len(<<l, b>>) = 2 /\ Len(<<m, c>>) = 2
  OBVIOUS
<1>2. x \in Seq(S) /\ Len(x) = 4
  BY <1>1, ConcatProperties
<1>3. \A p \in 1 .. 4 : x[p] = IF p <= 2 THEN <<l, b>>[p] ELSE <<m, c>>[p - 2]
  BY <1>1, ConcatProperties
<1>4. \A p \in 1 .. 4 : x[p] = y[p]
  BY <1>3
<1> HIDE DEF x, y, S
<1>5. x = y
  BY <1>1, <1>2, <1>4, SeqEqual
<1> QED BY <1>5 DEF x, y

\* A tensor with a size, for an item that loads or reserves one
HasSize(i) ==
  /\ i.op = LOAD => i.w * Len(i.v) \in Nat
  /\ i.op = RESERVE => i.n \in Nat

\* Transfers up to a barrier for the DMA engine are tidy.
LEMMA TidyMoves ==
  ASSUME NEW n \in Nat, NEW c, IsSeq(c), Len(c) = n + 1, c[n + 1] = barrier(DMA),
         \A p \in 1 .. n : Moves(c[p]) /\ HasSize(c[p])
  PROVE  Tidy(c)
<1>1. ~Moves(c[n + 1]) /\ c[n + 1].op \notin TensorOps /\ c[n + 1].op = BARRIER /\ Bit(c[n + 1].imm0, 0)
  BY OpsAre, BarriersAre, OpcodesAre DEF Moves
<1>2. \A p \in 1 .. n + 1 : p = n + 1 \/ p \in 1 .. n
  OBVIOUS
<1>3. ASSUME NEW p \in 1 .. n PROVE Follows(c[p + 1], c[p])
  <2>1. p + 1 = n + 1 \/ p + 1 \in 1 .. n
    OBVIOUS
  <2> QED BY <1>1, <2>1 DEF Follows
<1>4. Guarded(c)
  <2>1. \A p \in 1 .. n : p + 1 <= n + 1
    OBVIOUS
  <2> QED BY <1>1, <1>2, <1>3, <2>1 DEF Guarded
<1>5. Sized(c)
  BY <1>1, <1>2, OpcodesAre DEF Sized, HasSize
<1> QED BY <1>4, <1>5 DEF Tidy

\* A command of a TensorCore and a barrier that waits for it
LEMMA TidyCommand ==
  ASSUME NEW i, NEW b, i.op \in TensorOps, b.op = BARRIER, WaitsFor(b, i)
  PROVE  Tidy(<<i, b>>)
<1>1. /\ <<i, b>> \in Seq({i, b}) /\ Len(<<i, b>>) = 2 /\ <<i, b>>[1] = i /\ <<i, b>>[2] = b
      /\ \A p \in 1 .. 2 : p = 1 \/ p = 2
  OBVIOUS
<1>2. ~Moves(i) /\ ~Moves(b) /\ b.op \notin TensorOps /\ i.op \notin {LOAD, RESERVE} /\ b.op \notin {LOAD, RESERVE}
  BY OpcodesAre DEF Moves
<1>3. IsSeq(<<i, b>>)
  BY <1>1 DEF IsSeq
<1>4. Guarded(<<i, b>>)
  BY <1>1, <1>2, <1>3 DEF Guarded, Follows
<1>5. Sized(<<i, b>>)
  BY <1>1, <1>2 DEF Sized
<1> QED BY <1>4, <1>5 DEF Tidy

\* A load and its barrier
LEMMA TidyLoad ==
  ASSUME NEW a, NEW w \in Nat, NEW v, Len(v) \in Nat
  PROVE  Tidy(<<Load(a, w, v), barrier(DMA)>>)
<1> DEFINE x == Load(a, w, v)   b == barrier(DMA)   c == <<x, b>>
<1>1. Moves(x) /\ HasSize(x)
  <2>1. x.op = LOAD /\ x.w = w /\ x.v = v
    BY DEF Load
  <2> HIDE DEF x
  <2>2. w * Len(v) \in Nat
    OBVIOUS
  <2> QED BY <2>1, <2>2, OpcodesAre DEF Moves, HasSize
<1> HIDE DEF x, b
<1>2. c \in Seq({x, b}) /\ Len(c) = 1 + 1 /\ c[1] = x /\ c[1 + 1] = b /\ \A p \in 1 .. 1 : p = 1
  OBVIOUS
<1>3. IsSeq(c)
  BY <1>2 DEF IsSeq
<1> HIDE DEF c
<1>4. Tidy(c)
  BY <1>1, <1>2, <1>3, TidyMoves DEF b
<1> QED BY <1>4 DEF c, x, b

\* Tiles of a length: as many as it takes, none longer than it.
LEMMA TilesAre ==
  ASSUME NEW n \in Nat, NEW t \in Nat \ {0}
  PROVE  /\ Ceil(n, t) \in Nat /\ DOMAIN tiles(n, t) = 1 .. Ceil(n, t)
         /\ \A i \in 1 .. Ceil(n, t) : /\ tiles(n, t)[i].stop - tiles(n, t)[i].start \in Nat
                                       /\ tiles(n, t)[i].start \in Nat /\ tiles(n, t)[i].stop \in Nat
<1> DEFINE q == Ceil(n, t)
<1>1. q \in Nat /\ q * t <= n + t - 1
  <2> DEFINE a == n + t - 1
  <2>1. a \in Nat
    OBVIOUS
  <2> HIDE DEF a
  <2>2. a \div t \in Nat /\ (a \div t) * t <= a
    BY <2>1
  <2> QED BY <2>2 DEF Ceil, a
<1>2. ASSUME NEW i \in 1 .. q
      PROVE  (i - 1) * t \in Nat /\ (i - 1) * t <= n /\ i * t \in Nat /\ (i - 1) * t <= i * t
  <2>1. i * t <= q * t
    <3>1. \E d \in Nat : q = i + d
      <4>1. q - i \in Nat /\ q = i + (q - i)
        BY <1>1
      <4> QED BY <4>1
    <3>2. PICK d \in Nat : q = i + d
      BY <3>1
    <3>3. (i + d) * t = i * t + d * t /\ d * t \in Nat /\ i * t \in Nat
      BY <1>1
    <3> QED BY <3>2, <3>3
  <2>2. (i - 1) * t = i * t - t /\ i * t \in Nat
    BY <1>1
  <2>3. i - 1 \in Nat
    BY <1>1
  <2>4. (i - 1) * t \in Nat
    BY <2>3
  <2> QED BY <1>1, <2>1, <2>2, <2>4
<1> HIDE DEF q
<1>3. tiles(n, t) = [i \in 1 .. q |-> [start |-> (i - 1) * t, stop |-> IF i * t < n THEN i * t ELSE n]]
  BY DEF tiles, q
<1>4. ASSUME NEW i \in 1 .. q
      PROVE  /\ tiles(n, t)[i].start = (i - 1) * t
             /\ tiles(n, t)[i].stop = IF i * t < n THEN i * t ELSE n
  BY <1>3
<1>5. ASSUME NEW i \in 1 .. q
      PROVE  /\ tiles(n, t)[i].stop - tiles(n, t)[i].start \in Nat
             /\ tiles(n, t)[i].start \in Nat /\ tiles(n, t)[i].stop \in Nat
  <2> DEFINE a == (i - 1) * t   b == i * t
  <2>1. a \in Nat /\ a <= n /\ b \in Nat /\ a <= b
    BY <1>2
  <2>2. tiles(n, t)[i].start = a /\ tiles(n, t)[i].stop = IF b < n THEN b ELSE n
    BY <1>4
  <2> HIDE DEF a, b
  <2> QED BY <2>1, <2>2
<1> QED BY <1>1, <1>3, <1>5 DEF q

\* A linear layer by its tiles is tidy, for every shape and tile.
LEMMA LinearTidy ==
  ASSUME NEW weight, NEW k \in Nat, NEW n \in Nat, NEW a, NEW res, NEW addr, NEW t \in Nat \ {0}
  PROVE  Tidy(linear_tiled(weight, k, n, a, res, addr, t))
<1> DEFINE tn == tiles(n, t)   tk == tiles(k, t)
           Tensor(y, x) == Vec((x.stop - x.start) * (y.stop - y.start), LAMBDA e :
                             weight[(x.start + (e - 1) \div (y.stop - y.start)) * n + y.start
                                      + ((e - 1) % (y.stop - y.start)) + 1])
           Mm(y, x) == MM(res + y.start * 4, a + x.start * 2, addr, 1, y.stop - y.start, x.stop - x.start,
                          IF x.start # 0 THEN {"accumulate"} ELSE {})
           Tile4(y, x) == <<Load(addr, 2, Tensor(y, x)), barrier(DMA), Mm(y, x), barrier(MXU)>>
           Row(y) == Concat([x \in DOMAIN tk |-> Tile4(tn[y], tk[x])])
<1>1. linear_tiled(weight, k, n, a, res, addr, t) = Concat([y \in DOMAIN tn |-> Row(y)])
  BY DEF linear_tiled
<1>2. ASSUME NEW y \in 1 .. Ceil(n, t), NEW x \in 1 .. Ceil(k, t) PROVE Tidy(Tile4(tn[y], tk[x]))
  <2> DEFINE l == Load(addr, 2, Tensor(tn[y], tk[x]))   b == barrier(DMA)   m == Mm(tn[y], tk[x])   c == barrier(MXU)
  <2>1. Tidy(<<l, b>>)
    <3> DEFINE z == (tk[x].stop - tk[x].start) * (tn[y].stop - tn[y].start)
               f == [e \in 1 .. z |->
                       weight[(tk[x].start + (e - 1) \div (tn[y].stop - tn[y].start)) * n + tn[y].start
                                      + ((e - 1) % (tn[y].stop - tn[y].start)) + 1]]
    <3>1. z \in Nat
      <4> DEFINE u == tk[x].stop - tk[x].start   v == tn[y].stop - tn[y].start
      <4>1. u \in Nat /\ v \in Nat
        BY TilesAre
      <4> HIDE DEF u, v
      <4>2. u * v \in Nat
        BY <4>1
      <4> QED BY <4>2 DEF u, v
    <3>2. Tensor(tn[y], tk[x]) = Eager(f)
      BY DEF Vec
    <3>3. f = [e \in 1 .. z |-> f[e]]
      OBVIOUS
    <3> HIDE DEF f, z
    <3>4. Len(Eager(f)) = z
      BY <3>1, <3>3, VecLen
    <3> QED BY <3>1, <3>2, <3>4, TidyLoad
  <2>2. Tidy(<<m, c>>)
    <3>1. m.op \in TensorOps /\ c.op = BARRIER /\ WaitsFor(c, m)
      <4>1. m.op = MATMUL
        BY OpsAre
      <4>2. m.op \in TensorOps
        BY <4>1 DEF TensorOps
      <4> HIDE DEF m
      <4> QED BY <4>2, OpsAre, BarriersAre
    <3> HIDE DEF m, c
    <3> QED BY <3>1, TidyCommand
  <2> HIDE DEF l, b, m, c
  <2>3. <<l, b>> \o <<m, c>> = <<l, b, m, c>>
    BY PairsJoined
  <2>4. Tidy(<<l, b, m, c>>)
    BY <2>1, <2>2, <2>3, TidyJoined
  <2> QED BY <2>4 DEF l, b, m, c
<1> HIDE DEF Tile4
<1>3. ASSUME NEW y \in 1 .. Ceil(n, t) PROVE Tidy(Row(y))
  <2> DEFINE f == [x \in DOMAIN tk |-> Tile4(tn[y], tk[x])]
  <2>1. Len(f) = Ceil(k, t) /\ Ceil(k, t) \in Nat /\ \A x \in 1 .. Ceil(k, t) : f[x] = Tile4(tn[y], tk[x])
    <3>1. DOMAIN tk = 1 .. Ceil(k, t) /\ Ceil(k, t) \in Nat
      BY TilesAre
    <3> HIDE DEF tk, tn
    <3> QED BY <3>1
  <2>2. \A x \in 1 .. Ceil(k, t) : Tidy(f[x])
    BY <1>2, <2>1
  <2> HIDE DEF f
  <2>3. Tidy(Concat(f))
    BY <2>1, <2>2, TidyConcat
  <2> QED BY <2>3 DEF f
<1> HIDE DEF Row
<1> DEFINE g == [y \in DOMAIN tn |-> Row(y)]
<1>4. Len(g) = Ceil(n, t) /\ Ceil(n, t) \in Nat /\ \A y \in 1 .. Ceil(n, t) : g[y] = Row(y)
  <2>1. DOMAIN tn = 1 .. Ceil(n, t) /\ Ceil(n, t) \in Nat
    BY TilesAre
  <2> HIDE DEF tn
  <2> QED BY <2>1
<1>5. \A y \in 1 .. Ceil(n, t) : Tidy(g[y])
  BY <1>3, <1>4
<1> HIDE DEF g
<1>6. Tidy(Concat(g))
  BY <1>4, <1>5, TidyConcat
<1> QED BY <1>1, <1>6 DEF g

-----------------------------------------------------------------------------
(* The full-token artifact                                                  *)

\* The dimensions of a model that its token program depends on
Dimensions(cfg) ==
  \A f \in {"n_layers", "d_model", "d_ff", "vocab", "n_q_heads", "n_kv_heads", "head_dim",
            "dn_v_heads", "dn_qk_heads", "dn_head_dim"} : cfg[f] \in Nat

\* The widths of the tensors of a model
LEMMA WidthsAre ==
  ASSUME NEW cfg, Dimensions(cfg)
  PROVE  /\ {cfg.n_layers, cfg.d_model, cfg.d_ff, cfg.vocab, cfg.n_q_heads, cfg.n_kv_heads,
             cfg.head_dim, cfg.dn_v_heads} \subseteq Nat
         /\ {q_dim(cfg), kv_dim(cfg), dn_qk(cfg), dn_v(cfg)} \subseteq Nat
<1>1. /\ cfg.n_layers \in Nat /\ cfg.d_model \in Nat /\ cfg.d_ff \in Nat /\ cfg.vocab \in Nat
      /\ cfg.n_q_heads \in Nat /\ cfg.n_kv_heads \in Nat /\ cfg.head_dim \in Nat
      /\ cfg.dn_v_heads \in Nat /\ cfg.dn_qk_heads \in Nat /\ cfg.dn_head_dim \in Nat
  BY DEF Dimensions
<1>2. \A a \in Nat, b \in Nat : a * b \in Nat
  OBVIOUS
<1>3. q_dim(cfg) \in Nat /\ kv_dim(cfg) \in Nat /\ dn_qk(cfg) \in Nat /\ dn_v(cfg) \in Nat
  BY <1>1, <1>2 DEF q_dim, kv_dim, dn_qk, dn_v
<1> QED BY <1>1, <1>3

\* The small kernels between the layers
LEMMA StepsTidy ==
  /\ \A src, dst, n : Tidy(quantize(src, dst, n))
  /\ \A dst, s0, s1, n : Tidy(add(dst, s0, s1, n)) /\ Tidy(fmul(dst, s0, s1, n))
  /\ \A a, n : Tidy(sigmoid_inplace(a, n)) /\ Tidy(fsilu(a, n))
  /\ \A dst, src, n, one : Tidy(scale_copy(dst, src, n, one))
<1>1. /\ \A dst, s0, n, op : V(dst, s0, n, op).op \in LaneOps
      /\ \A dst, s0, n, op, s1 : V2(dst, s0, n, op, s1).op \in LaneOps
  BY OpsAre DEF LaneOps
<1>2. /\ \A dst, s0, n, op : Tidy(Synced(V(dst, s0, n, op)))
      /\ \A dst, s0, n, op, s1 : Tidy(Synced(V2(dst, s0, n, op, s1)))
  BY <1>1, SyncedTidy
<1> QED BY <1>2 DEF quantize, add, fmul, sigmoid_inplace, fsilu, scale_copy

\* A vector with its load and its barrier
LEMMA VectorTidy ==
  ASSUME NEW name, NEW li, NEW n \in Nat, NEW a
  PROVE  Tidy(load_f32(WeightVector(name, li, n), a)) /\ Len(WeightVector(name, li, n)) \in Nat
<1> DEFINE f == [i \in 1 .. n |-> Weight(name, li, 0, i - 1)]
<1>1. WeightVector(name, li, n) = Eager(f)
  BY DEF WeightVector, Vec
<1>2. f = [i \in 1 .. n |-> f[i]]
  OBVIOUS
<1> HIDE DEF f
<1>3. Len(Eager(f)) = n
  BY <1>2, VecLen
<1> QED BY <1>1, <1>3, TidyLoad DEF load_f32, F32

\* rmsnorm of a weight vector
LEMMA NormTidy ==
  ASSUME NEW name, NEW li, NEW n \in Nat, NEW x, NEW y, NEW w, NEW inv_h, NEW eps, NEW scratch, NEW h
  PROVE  Tidy(rmsnorm_items(WeightVector(name, li, n), x, y, w, inv_h, eps, scratch, h))
<1>1. \A L : Tidy(sync_kernel(rmsnorm_program(L)))
  BY KernelsAre, SyncTidy
<1> QED BY <1>1, VectorTidy, TidyJoined DEF rmsnorm_items

\* A projection
LEMMA ProjTidy ==
  ASSUME NEW name, NEW li, NEW k \in Nat, NEW n \in Nat, NEW a, NEW res, NEW t \in Nat \ {0}
  PROVE  Tidy(proj_items(name, li, k, n, a, res, t))
BY LinearTidy DEF proj_items

\* The rotation of a head
LEMMA RopeTidy ==
  ASSUME NEW cfg, NEW x
  PROVE  Tidy(rope_items(cfg, x))
BY KernelsAre, SyncTidy DEF rope_items

\* A key and value head
LEMMA KvHeadTidy ==
  ASSUME NEW cfg, NEW kh
  PROVE  Tidy(kv_head_items(cfg, kh))
BY StepsTidy, RopeTidy, TidyJoined DEF kv_head_items

\* A query head
LEMMA QHeadTidy ==
  ASSUME NEW cfg, NEW qh
  PROVE  Tidy(q_head_items(cfg, qh))
<1>1. \A L : Tidy(sync_kernel(attention_head_program(L)))
  BY KernelsAre, SyncTidy
<1> QED BY <1>1, StepsTidy, RopeTidy, TidyJoined DEF q_head_items

\* A DeltaNet head
LEMMA DnHeadTidy ==
  ASSUME NEW cfg, NEW h
  PROVE  Tidy(dn_head_items(cfg, h))
<1>1. \A L : Tidy(sync_kernel(l2norm_program(L))) /\ Tidy(sync_kernel(gated_deltanet_step_program(L)))
  BY KernelsAre, SyncTidy
<1>2. \A dst, n : Tidy(<<clear(dst, n), barrier(ALL_LOCAL)>>)
  <2>1. \A dst, n : clear(dst, n).op \in TensorOps
    BY OpsAre DEF TensorOps
  <2> QED BY <2>1, OpsAre, BarriersAre, TidyCommand
<1> QED BY <1>1, <1>2, StepsTidy, TidyJoined DEF dn_head_items

\* CLEARs of one VMEM wait for each other.
LEMMA ClearsTidy ==
  ASSUME NEW a1, NEW n1, NEW a2, NEW n2, NEW a3, NEW n3, NEW a4, NEW n4
  PROVE  Tidy(<<clear(V0(a1), n1), clear(V0(a2), n2), clear(V0(a3), n3), clear(V0(a4), n4),
                barrier(ALL_LOCAL)>>)
<1> DEFINE x1 == clear(V0(a1), n1)   x2 == clear(V0(a2), n2)   x3 == clear(V0(a3), n3)
           x4 == clear(V0(a4), n4)   b == barrier(ALL_LOCAL)   c == <<x1, x2, x3, x4, b>>
<1>1. \A i \in {x1, x2, x3, x4} : i.op = CLEAR /\ i.flags = VMEM0
  BY DEF clear, Instr, V0, Ref
<1>2. b.op = BARRIER /\ \A i : i.op \in TensorOps => WaitsFor(b, i)
  BY OpsAre, BarriersAre
<1> HIDE DEF x1, x2, x3, x4, b
<1>3. \A i \in {x1, x2, x3, x4} : /\ ~Moves(i) /\ i.op \in TensorOps /\ i.op \notin {LOAD, RESERVE}
                                 /\ Cores(i) = {VMEM0 % 8}
  BY <1>1, OpcodesAre DEF Moves, TensorOps, Cores
<1>4. \A i, k \in {x1, x2, x3, x4} : WaitsFor(k, i)
  BY <1>1, <1>3 DEF WaitsFor, WaitsForCore
<1>5. ~Moves(b) /\ b.op \notin TensorOps /\ b.op \notin {LOAD, RESERVE}
  BY <1>2, OpcodesAre DEF Moves
<1>6. /\ c \in Seq({x1, x2, x3, x4, b}) /\ Len(c) = 5
      /\ c[1] = x1 /\ c[2] = x2 /\ c[3] = x3 /\ c[4] = x4 /\ c[5] = b
      /\ \A p \in 1 .. 5 : p = 1 \/ p = 2 \/ p = 3 \/ p = 4 \/ p = 5
  OBVIOUS
<1> HIDE DEF c
<1>7. IsSeq(c)
  BY <1>6 DEF IsSeq
<1>8. ASSUME NEW p \in 1 .. 5, Moves(c[p]) \/ c[p].op \in TensorOps
      PROVE  p + 1 <= 5 /\ Follows(c[p + 1], c[p])
  <2>1. p # 5
    BY <1>5, <1>6, <1>8
  <2>2. /\ p + 1 \in 1 .. 5 /\ c[p] \in {x1, x2, x3, x4} /\ c[p + 1] \in {x1, x2, x3, x4, b}
    BY <1>6, <2>1
  <2> QED BY <1>2, <1>3, <1>4, <1>5, <2>2 DEF Follows
<1>9. Guarded(c)
  BY <1>6, <1>7, <1>8 DEF Guarded
<1>10. Sized(c)
  BY <1>3, <1>5, <1>6 DEF Sized
<1> QED BY <1>9, <1>10 DEF Tidy, c, x1, x2, x3, x4, b

\* The attention mixer
LEMMA AttentionTidy ==
  ASSUME NEW cfg, Dimensions(cfg), NEW li, NEW t \in Nat \ {0}
  PROVE  Tidy(attention_items(cfg, li, t))
<1>1. \A kh : Tidy(kv_head_items(cfg, kh))
  BY KvHeadTidy
<1>2. \A qh : Tidy(q_head_items(cfg, qh))
  BY QHeadTidy
<1>3. Tidy(Loop(cfg.n_kv_heads, LAMBDA kh : kv_head_items(cfg, kh)))
  <2> DEFINE f == [i \in 1 .. cfg.n_kv_heads |-> kv_head_items(cfg, i - 1)]
  <2>1. cfg.n_kv_heads \in Nat
    BY WidthsAre
  <2>2. Len(f) = cfg.n_kv_heads /\ \A m \in 1 .. cfg.n_kv_heads : Tidy(f[m])
    BY <1>1, <2>1
  <2> HIDE DEF f
  <2>3. Tidy(Concat(f))
    BY <2>1, <2>2, TidyConcat
  <2> QED BY <2>3 DEF Loop, f
<1>4. Tidy(Loop(cfg.n_q_heads, LAMBDA qh : q_head_items(cfg, qh)))
  <2> DEFINE f == [i \in 1 .. cfg.n_q_heads |-> q_head_items(cfg, i - 1)]
  <2>1. cfg.n_q_heads \in Nat
    BY WidthsAre
  <2>2. Len(f) = cfg.n_q_heads /\ \A m \in 1 .. cfg.n_q_heads : Tidy(f[m])
    BY <1>2, <2>1
  <2> HIDE DEF f
  <2>3. Tidy(Concat(f))
    BY <2>1, <2>2, TidyConcat
  <2> QED BY <2>3 DEF Loop, f
<1>5. \A name, a, res : /\ Tidy(proj_items(name, li, cfg.d_model, q_dim(cfg), a, res, t))
                        /\ Tidy(proj_items(name, li, cfg.d_model, kv_dim(cfg), a, res, t))
                        /\ Tidy(proj_items(name, li, q_dim(cfg), cfg.d_model, a, res, t))
  BY WidthsAre, ProjTidy
<1> QED BY <1>3, <1>4, <1>5, ClearsTidy, StepsTidy, TidyJoined DEF attention_items

\* The DeltaNet mixer
LEMMA DeltaTidy ==
  ASSUME NEW cfg, Dimensions(cfg), NEW li, NEW t \in Nat \ {0}
  PROVE  Tidy(deltanet_items(cfg, li, t))
<1>1. \A h : Tidy(dn_head_items(cfg, h))
  BY DnHeadTidy
<1>2. Tidy(Loop(cfg.dn_v_heads, LAMBDA h : dn_head_items(cfg, h)))
  <2> DEFINE f == [i \in 1 .. cfg.dn_v_heads |-> dn_head_items(cfg, i - 1)]
  <2>1. cfg.dn_v_heads \in Nat
    BY WidthsAre
  <2>2. Len(f) = cfg.dn_v_heads /\ \A m \in 1 .. cfg.dn_v_heads : Tidy(f[m])
    BY <1>1, <2>1
  <2> HIDE DEF f
  <2>3. Tidy(Concat(f))
    BY <2>1, <2>2, TidyConcat
  <2> QED BY <2>3 DEF Loop, f
<1>3. \A name, a, res : /\ Tidy(proj_items(name, li, cfg.d_model, dn_qk(cfg), a, res, t))
                        /\ Tidy(proj_items(name, li, cfg.d_model, dn_v(cfg), a, res, t))
                        /\ Tidy(proj_items(name, li, cfg.d_model, cfg.dn_v_heads, a, res, t))
                        /\ Tidy(proj_items(name, li, dn_v(cfg), cfg.d_model, a, res, t))
  BY WidthsAre, ProjTidy
<1>4. \A a : Tidy(load_f32(WeightVector("conv", li, 2 * dn_qk(cfg) + dn_v(cfg)), a))
  <2>1. 2 * dn_qk(cfg) + dn_v(cfg) \in Nat
    <3>1. dn_qk(cfg) \in Nat /\ dn_v(cfg) \in Nat
      BY WidthsAre
    <3> QED BY <3>1
  <2> QED BY <2>1, VectorTidy
<1> QED BY <1>2, <1>3, <1>4, StepsTidy, TidyJoined DEF deltanet_items

\* The SwiGLU of a layer
LEMMA MlpTidy ==
  ASSUME NEW cfg, Dimensions(cfg), NEW li, NEW t \in Nat \ {0}
  PROVE  Tidy(mlp_items(cfg, li, t))
<1>1. \A name, a, res : /\ Tidy(proj_items(name, li, cfg.d_model, cfg.d_ff, a, res, t))
                        /\ Tidy(proj_items(name, li, cfg.d_ff, cfg.d_model, a, res, t))
  BY WidthsAre, ProjTidy
<1> QED BY <1>1, StepsTidy, TidyJoined DEF mlp_items

\* A layer
LEMMA LayerTidy ==
  ASSUME NEW cfg, Dimensions(cfg), NEW li, NEW t \in Nat \ {0}
  PROVE  Tidy(token_layer(cfg, li, t))
<1>1. \A name, x, y, w, inv_h, eps, scratch :
        Tidy(rmsnorm_items(WeightVector(name, li, cfg.d_model), x, y, w, inv_h, eps, scratch, cfg.d_model))
  BY WidthsAre, NormTidy
<1> QED BY <1>1, AttentionTidy, DeltaTidy, MlpTidy, StepsTidy, TidyJoined DEF token_layer

\* The loads of the constants and of the embedding
LEMMA TokenInitTidy ==
  ASSUME NEW cfg, Dimensions(cfg), NEW token
  PROVE  Tidy(token_init(cfg, token))
<1> DEFINE f == [i \in 1 .. cfg.d_model |-> Weight("embed", 0, token, i - 1)]
           ones == [i \in 1 .. cfg.head_dim |-> 1]   zeros == [i \in 1 .. cfg.head_dim |-> 0]
           x1 == Load(A.X, 4, Embedding(cfg, token))   x2 == Load(A.INV_H, 4, <<OneOver(cfg.d_model)>>)
           x3 == Load(A.EPS, 4, <<RmsEps>>)   x4 == Load(A.ONE, 4, <<1>>)   x5 == Load(A.NEG_ONE, 4, <<Neg(1)>>)
           x6 == Load(A.COS, 4, Vec(cfg.head_dim, LAMBDA i : 1))
           x7 == Load(A.SIN, 4, Vec(cfg.head_dim, LAMBDA i : 0))
           x8 == Load(A.MASK, 4, <<0, NegInf>>)   x9 == Load(A.ONES2, 4, <<1, 1>>)
           b == barrier(DMA)
           c == <<x1, x2, x3, x4, x5, x6, x7, x8, x9, b>>
<1>1. cfg.d_model \in Nat /\ cfg.head_dim \in Nat
  BY WidthsAre
<1>2. Len(Embedding(cfg, token)) = cfg.d_model
  <2>1. f = [i \in 1 .. cfg.d_model |-> f[i]] /\ Embedding(cfg, token) = Eager(f)
    BY DEF Embedding, Vec
  <2> HIDE DEF f
  <2> QED BY <1>1, <2>1, VecLen
<1>3. Len(Vec(cfg.head_dim, LAMBDA i : 1)) = cfg.head_dim
  <2>1. ones = [i \in 1 .. cfg.head_dim |-> ones[i]] /\ Vec(cfg.head_dim, LAMBDA i : 1) = Eager(ones)
    BY DEF Vec
  <2> HIDE DEF ones
  <2> QED BY <1>1, <2>1, VecLen
<1>4. Len(Vec(cfg.head_dim, LAMBDA i : 0)) = cfg.head_dim
  <2>1. zeros = [i \in 1 .. cfg.head_dim |-> zeros[i]] /\ Vec(cfg.head_dim, LAMBDA i : 0) = Eager(zeros)
    BY DEF Vec
  <2> HIDE DEF zeros
  <2> QED BY <1>1, <2>1, VecLen
<1>5. ASSUME NEW a, NEW v, Len(v) \in Nat PROVE Moves(Load(a, 4, v)) /\ HasSize(Load(a, 4, v))
  <2>1. Load(a, 4, v).op = LOAD /\ Load(a, 4, v).w = 4 /\ Load(a, 4, v).v = v
    BY DEF Load
  <2>2. 4 * Len(v) \in Nat
    BY <1>5
  <2> QED BY <2>1, <2>2, OpcodesAre DEF Moves, HasSize
<1>6. /\ Moves(x1) /\ HasSize(x1) /\ Moves(x6) /\ HasSize(x6) /\ Moves(x7) /\ HasSize(x7)
  BY <1>1, <1>2, <1>3, <1>4, <1>5
<1>7. /\ \A y : Moves(Load(A.INV_H, 4, <<y>>)) /\ HasSize(Load(A.INV_H, 4, <<y>>))
      /\ \A a, y : Moves(Load(a, 4, <<y>>)) /\ HasSize(Load(a, 4, <<y>>))
      /\ \A a, y, z : Moves(Load(a, 4, <<y, z>>)) /\ HasSize(Load(a, 4, <<y, z>>))
  <2>1. \A y, z : Len(<<y>>) = 1 /\ Len(<<y, z>>) = 2
    OBVIOUS
  <2> QED BY <1>5, <2>1
<1>8. \A x \in {x1, x2, x3, x4, x5, x6, x7, x8, x9} : Moves(x) /\ HasSize(x)
  BY <1>6, <1>7
<1>9. token_init(cfg, token) = c
  BY DEF token_init
<1> HIDE DEF x1, x2, x3, x4, x5, x6, x7, x8, x9, b
<1>10. /\ c \in Seq({x1, x2, x3, x4, x5, x6, x7, x8, x9, b}) /\ Len(c) = 9 + 1 /\ c[9 + 1] = b
       /\ \A p \in 1 .. 9 : c[p] \in {x1, x2, x3, x4, x5, x6, x7, x8, x9}
  OBVIOUS
<1> HIDE DEF c
<1>11. IsSeq(c)
  BY <1>10 DEF IsSeq
<1>12. Tidy(c)
  BY <1>8, <1>10, <1>11, TidyMoves DEF b
<1> QED BY <1>9, <1>12

\* A builder's program is clean if its items are tidy.
LEMMA BuildClean ==
  ASSUME NEW items, Tidy(items), items # <<>>
  PROVE  Clean(Build(items).code)
<1>1. IsSeq(items)
  BY DEF Tidy, Guarded
<1>2. Len(items) \in Nat \ {0}
  <2>1. PICK S : items \in Seq(S)
    BY <1>1 DEF IsSeq
  <2> QED BY <2>1
<1>3. Refines(Build(items).code, items)
  BY <1>1, <1>2, BuildRefines DEF Tidy
<1> QED BY <1>3, GuardedIsClean DEF Tidy

\* Something behind a sequence makes it nonempty.
LEMMA NotEmpty ==
  ASSUME NEW c, NEW d, IsSeq(c), IsSeq(d), Len(d) > 0
  PROVE  c \o d # <<>>
<1>1. Len(c \o d) = Len(c) + Len(d) /\ Len(c) \in Nat /\ Len(d) \in Nat
  BY Joined, HasLen
<1>2. Len(<<>>) = 0
  OBVIOUS
<1> QED BY <1>1, <1>2

-----------------------------------------------------------------------------
(* The other artifacts                                                      *)

\* A tidy program without loads and reservations is clean.
LEMMA TidyCode ==
  ASSUME NEW c, Tidy(c), \A p \in 1 .. Len(c) : c[p].op \notin {LOAD, RESERVE}
  PROVE  Clean(c)
BY GuardedCode DEF Tidy

\* A command of a TensorCore and a barrier that waits for it make a clean part.
LEMMA CleanCommand ==
  ASSUME NEW i, NEW b, i.op \in TensorOps, b.op = BARRIER, WaitsFor(b, i)
  PROVE  Clean(<<i, b>>)
<1>1. Tidy(<<i, b>>)
  BY TidyCommand
<1>2. Len(<<i, b>>) = 2 /\ <<i, b>>[1] = i /\ <<i, b>>[2] = b /\ \A p \in 1 .. 2 : p = 1 \/ p = 2
  OBVIOUS
<1>3. i.op \notin {LOAD, RESERVE} /\ b.op \notin {LOAD, RESERVE}
  BY OpcodesAre
<1> QED BY <1>1, <1>2, <1>3, TidyCode

\* _sync_kernel of any kernel is a clean part.
LEMMA SyncClean ==
  ASSUME NEW program, KernelCode(program)
  PROVE  Clean(sync_kernel(program))
<1> DEFINE n == Len(program)
           F == [i \in DOMAIN program |->
                   IF program[i].op \in {MATMUL, VECTOR_OP, REDUCE}
                   THEN <<program[i], barrier(LocalUnits)>> ELSE <<program[i]>>]
<1>1. n \in Nat /\ DOMAIN program = 1 .. n
  <2>1. PICK S : program \in Seq(S)
    BY DEF KernelCode, IsSeq
  <2> QED BY <2>1
<1>2. ASSUME NEW m \in 1 .. n PROVE Clean(F[m])
  <2>1. F[m] = <<program[m], barrier(LocalUnits)>> /\ program[m].op \in TensorOps
    BY <1>1 DEF KernelCode, LaneOps, TensorOps
  <2> HIDE DEF F
  <2> QED BY <2>1, BarriersAre, OpsAre, CleanCommand
<1>3. Len(F) = n /\ sync_kernel(program) = Concat(F)
  BY <1>1 DEF sync_kernel
<1> HIDE DEF F
<1>4. "clean" \in Kinds /\ \A m \in 1 .. n : Good("clean", F[m])
  BY <1>2 DEF Kinds, Good
<1>5. Good("clean", Concat(F))
  BY <1>1, <1>3, <1>4, GoodConcat
<1> QED BY <1>3, <1>5 DEF Good

\* The transfer of a result, its barrier and the end of a program
LEMMA TailTidy ==
  ASSUME NEW x, Moves(x), HasSize(x)
  PROVE  Tidy(<<x, barrier(DMA), halt>>)
<1> DEFINE b == barrier(DMA)   h == halt   c == <<x, b, h>>
<1>1. x.op \notin TensorOps
  BY OpcodesAre DEF Moves
<1>2. /\ b.op = BARRIER /\ Bit(b.imm0, 0) /\ h.op = HALT
      /\ ~Moves(b) /\ ~Moves(h) /\ b.op \notin TensorOps \cup {LOAD, RESERVE}
      /\ h.op \notin TensorOps \cup {LOAD, RESERVE}
  BY OpsAre, BarriersAre, OpcodesAre DEF Moves
<1> HIDE DEF b, h
<1>3. /\ c \in Seq({x, b, h}) /\ Len(c) = 3 /\ c[1] = x /\ c[2] = b /\ c[3] = h
      /\ \A p \in 1 .. 3 : p = 1 \/ p = 2 \/ p = 3
  OBVIOUS
<1> HIDE DEF c
<1>4. IsSeq(c)
  BY <1>3 DEF IsSeq
<1>5. Follows(b, x)
  BY <1>2 DEF Follows
<1>6. Guarded(c)
  BY <1>2, <1>3, <1>4, <1>5 DEF Guarded
<1>7. Sized(c)
  BY <1>2, <1>3 DEF Sized, HasSize
<1> QED BY <1>6, <1>7 DEF Tidy, c, b, h

\* Something tidy behind tidy items makes them a program.
LEMMA TidyEnd ==
  ASSUME NEW c, NEW d, Tidy(c), Tidy(d), Len(d) > 0
  PROVE  Tidy(c \o d) /\ c \o d # <<>>
BY TidyJoined, NotEmpty DEF Tidy, Guarded

\* The end of an artifact
LEMMA EndTidy ==
  ASSUME NEW a, NEW n \in Nat
  PROVE  Tidy(<<Reserve(a, n), barrier(DMA), halt>>) /\ Len(<<Reserve(a, n), barrier(DMA), halt>>) = 3
<1>1. Moves(Reserve(a, n)) /\ HasSize(Reserve(a, n))
  BY OpcodesAre DEF Reserve, Moves, HasSize
<1> QED BY <1>1, TailTidy

\* The program of the full-token artifact is clean, for every model and tile.
LEMMA TokenClean ==
  ASSUME NEW cfg, Dimensions(cfg), NEW token, NEW t \in Nat \ {0}
  PROVE  Clean(Build(tiny_full_token_items(cfg, token, t)).code)
<1>1. \A name, li, x, y, w, inv_h, eps, scratch :
        Tidy(rmsnorm_items(WeightVector(name, li, cfg.d_model), x, y, w, inv_h, eps, scratch, cfg.d_model))
  BY WidthsAre, NormTidy
<1>2. Tidy(Loop(cfg.n_layers, LAMBDA li : token_layer(cfg, li, t)))
  <2> DEFINE f == [i \in 1 .. cfg.n_layers |-> token_layer(cfg, i - 1, t)]
  <2>1. cfg.n_layers \in Nat
    BY WidthsAre
  <2>2. Len(f) = cfg.n_layers /\ \A m \in 1 .. cfg.n_layers : Tidy(f[m])
    BY <2>1, LayerTidy
  <2> HIDE DEF f
  <2>3. Tidy(Concat(f))
    BY <2>1, <2>2, TidyConcat
  <2> QED BY <2>3 DEF Loop, f
<1>3. \A weight, a, res, addr : Tidy(linear_tiled(weight, cfg.d_model, cfg.vocab, a, res, addr, t))
  BY WidthsAre, LinearTidy
<1>4. /\ Tidy(<<Reserve(A.CAT, cfg.vocab), barrier(DMA), halt>>)
      /\ Len(<<Reserve(A.CAT, cfg.vocab), barrier(DMA), halt>>) > 0
  BY WidthsAre, EndTidy
<1>5. /\ Tidy(tiny_full_token_items(cfg, token, t))
      /\ tiny_full_token_items(cfg, token, t) # <<>>
  BY <1>1, <1>2, <1>3, <1>4, TokenInitTidy, StepsTidy, TidyJoined, TidyEnd DEF tiny_full_token_items
<1> QED BY <1>5, BuildClean

\* A slice of the MLP of a checkpoint
LEMMA RealMlpClean ==
  ASSUME NEW x, Len(x) \in Nat, NEW mid \in Nat, NEW out_dim \in Nat, NEW t \in Nat \ {0}
  PROVE  Clean(Build(real_mlp_items(x, mid, out_dim, t)).code)
<1>1. \A weight, a, res, addr :
        /\ Tidy(linear_tiled(weight, Len(x), mid, a, res, addr, t))
        /\ Tidy(linear_tiled(weight, mid, out_dim, a, res, addr, t))
  BY LinearTidy
<1>2. /\ Tidy(<<Reserve(40960, out_dim), barrier(DMA), halt>>)
      /\ Len(<<Reserve(40960, out_dim), barrier(DMA), halt>>) > 0
  BY EndTidy
<1>3. Tidy(<<Load(32768, 2, x), barrier(DMA)>>)
  BY TidyLoad
<1>4. /\ Tidy(real_mlp_items(x, mid, out_dim, t))
      /\ real_mlp_items(x, mid, out_dim, t) # <<>>
  BY <1>1, <1>2, <1>3, StepsTidy, TidyJoined, TidyEnd DEF real_mlp_items
<1> QED BY <1>4, BuildClean

\* Selected logits of a hidden state
LEMMA RealLmHeadClean ==
  ASSUME NEW hidden, Len(hidden) \in Nat, NEW n \in Nat
  PROVE  Clean(Build(real_lm_head_items(hidden, n)).code)
<1> DEFINE k == Len(hidden)   weight == EmbeddingTransposed(k, n)
           f == [e \in 1 .. k * n |-> Weight("embed", 0, (e - 1) % n, (e - 1) \div n)]
           x1 == Load(0, 2, hidden)   x2 == Load(8192, 2, weight)   x3 == barrier(DMA)
           x4 == MM(32768, 0, 8192, 1, n, k, {})   x5 == barrier(MXU)   x6 == Reserve(32768, n)
           x7 == barrier(DMA)   x8 == halt
           c == <<x1, x2, x3, x4, x5, x6, x7, x8>>
<1>1. Len(weight) \in Nat
  <2>1. k * n \in Nat
    OBVIOUS
  <2>2. f = [i \in 1 .. k * n |-> f[i]] /\ weight = Eager(f)
    BY DEF EmbeddingTransposed, Vec
  <2> HIDE DEF f, weight
  <2> QED BY <2>1, <2>2, VecLen
<1> HIDE DEF weight
<1>2. /\ Moves(x1) /\ HasSize(x1) /\ Moves(x2) /\ HasSize(x2)
  <2>1. \A a, v : Load(a, 2, v).op = LOAD /\ Load(a, 2, v).w = 2 /\ Load(a, 2, v).v = v
    BY DEF Load
  <2>2. 2 * Len(hidden) \in Nat /\ 2 * Len(weight) \in Nat
    BY <1>1
  <2> QED BY <2>1, <2>2, OpcodesAre DEF Moves, HasSize
<1>3. Moves(x6) /\ HasSize(x6)
  BY OpcodesAre DEF Reserve, Moves, HasSize
<1>4. /\ x3.op = BARRIER /\ Bit(x3.imm0, 0) /\ x5.op = BARRIER /\ x8.op = HALT
      /\ x4.op \in TensorOps /\ WaitsFor(x5, x4)
  <2>1. x4.op \in TensorOps
    BY OpsAre DEF TensorOps
  <2>2. WaitsFor(x5, x4)
    BY <2>1, BarriersAre
  <2>3. x3.op = BARRIER /\ x5.op = BARRIER /\ x8.op = HALT
    BY OpsAre
  <2> QED BY <2>1, <2>2, <2>3, BarriersAre
<1>5. real_lm_head_items(hidden, n) = c /\ x7 = x3
  BY DEF real_lm_head_items, weight
<1> HIDE DEF x1, x2, x3, x4, x5, x6, x7, x8
<1>6. /\ c \in Seq({x1, x2, x3, x4, x5, x6, x7, x8}) /\ Len(c) = 8 /\ c # <<>>
      /\ c[1] = x1 /\ c[2] = x2 /\ c[3] = x3 /\ c[4] = x4 /\ c[5] = x5 /\ c[6] = x6
      /\ c[7] = x7 /\ c[8] = x8
      /\ \A p \in 1 .. 8 : p = 1 \/ p = 2 \/ p = 3 \/ p = 4 \/ p = 5 \/ p = 6 \/ p = 7 \/ p = 8
  OBVIOUS
<1> HIDE DEF c
<1>7. IsSeq(c)
  BY <1>6 DEF IsSeq
<1>8. /\ ~Moves(x3) /\ ~Moves(x4) /\ ~Moves(x5) /\ ~Moves(x8)
      /\ x3.op \notin TensorOps /\ x5.op \notin TensorOps /\ x8.op \notin TensorOps
  BY <1>4, OpcodesAre DEF Moves
<1>9. Follows(x2, x1) /\ Follows(x3, x2) /\ Follows(x5, x4) /\ Follows(x7, x6)
  BY <1>2, <1>3, <1>4, <1>5, <1>8 DEF Follows
<1>10. Guarded(c)
  BY <1>5, <1>6, <1>7, <1>8, <1>9 DEF Guarded
<1>11. HasSize(x3) /\ HasSize(x4) /\ HasSize(x5) /\ HasSize(x8)
  BY <1>8 DEF HasSize, Moves
<1>12. Sized(c)
  <2>1. \A p \in 1 .. 8 : HasSize(c[p])
    BY <1>2, <1>3, <1>5, <1>6, <1>11
  <2> QED BY <1>6, <2>1 DEF Sized, HasSize
<1> QED BY <1>5, <1>6, <1>10, <1>12, BuildClean DEF Tidy

\* A kernel and halt
LEMMA KernelClean ==
  ASSUME NEW program, KernelCode(program)
  PROVE  Clean(sync_kernel(program) \o <<halt>>)
<1>1. IsSeq(<<halt>>) /\ Len(<<halt>>) = 1 /\ <<halt>>[1].op = HALT
  <2>1. <<halt>> \in Seq({halt})
    OBVIOUS
  <2> QED BY <2>1, OpsAre DEF IsSeq
<1>2. Tidy(<<halt>>)
  BY <1>1, OpcodesAre DEF Tidy, Guarded, Sized, Moves
<1>3. Clean(<<halt>>)
  BY <1>1, <1>2, OpcodesAre, TidyCode
<1> QED BY <1>3, SyncClean, CleanJoined

\* A loop of kernels is a kernel.
LEMMA KernelConcat ==
  ASSUME NEW n \in Nat, NEW seqs, Len(seqs) = n, \A m \in 1 .. n : KernelCode(seqs[m])
  PROVE  KernelCode(Concat(seqs))
<1>1. PICK g : IsConcat(g, seqs) /\ Concat(seqs) = g[n]
  BY ConcatIs
<1> DEFINE S == {m \in Nat : m <= n => KernelCode(g[m])}
<1>2. 0 \in S
  <2>1. KernelCode(<<>>)
    <3>1. <<>> \in Seq({}) /\ Len(<<>>) = 0
      OBVIOUS
    <3> QED BY <3>1 DEF KernelCode, IsSeq
  <2>2. g[0] = <<>>
    BY <1>1 DEF IsConcat
  <2> QED BY <2>1, <2>2
<1>3. ASSUME NEW m \in Nat, m \in S PROVE m + 1 \in S
  <2>1. SUFFICES ASSUME m + 1 <= n PROVE KernelCode(g[m + 1])
    OBVIOUS
  <2>2. g[m + 1] = g[m] \o seqs[m + 1]
    BY <1>1, <2>1 DEF IsConcat
  <2>3. KernelCode(g[m]) /\ KernelCode(seqs[m + 1])
    BY <1>3, <2>1
  <2> QED BY <2>2, <2>3, KernelJoined
<1> HIDE DEF S
<1>4. n \in S
  BY <1>2, <1>3, Counting
<1> QED BY <1>1, <1>4 DEF S

\* The causal convolution is a kernel, for every number of taps.
LEMMA ConvIs ==
  ASSUME NEW L, Len(L.taps_x) \in Nat \ {0}
  PROVE  KernelCode(conv1d_causal_program(L))
<1> DEFINE f == [i \in 1 .. Len(L.taps_x) - 1 |->
                   <<V2(L.tmp, L.taps_w[i - 1 + 2], L.c, FMUL, L.taps_x[i - 1 + 2]),
                     V2(L.acc, L.acc, L.c, FADD, L.tmp)>>]
           n == Len(L.taps_x) - 1
<1>1. /\ \A dst, s0, k, op : V(dst, s0, k, op).op \in LaneOps
      /\ \A dst, s0, k, op, s1 : V2(dst, s0, k, op, s1).op \in LaneOps
  BY OpsAre DEF LaneOps
<1>2. n \in Nat /\ Len(f) = n
  OBVIOUS
<1>3. \A i \in 1 .. n : KernelCode(f[i])
  BY <1>1, KernelOf2
<1>4. KernelCode(<<V2(L.acc, L.taps_w[1], L.c, FMUL, L.taps_x[1])>>) /\ KernelCode(<<V(L.out, L.acc, L.c, FSILU)>>)
  BY <1>1, KernelOf1
<1>5. conv1d_causal_program(L) = <<V2(L.acc, L.taps_w[1], L.c, FMUL, L.taps_x[1])>> \o Concat(f)
                                 \o <<V(L.out, L.acc, L.c, FSILU)>>
  BY DEF conv1d_causal_program, Loop
<1> HIDE DEF f, n
<1>6. KernelCode(Concat(f))
  BY <1>2, <1>3, KernelConcat
<1> QED BY <1>4, <1>5, <1>6, KernelJoined

\* The SwiGLU workload
LEMMA SwigluClean ==
  ASSUME NEW k, NEW n
  PROVE  Clean(swiglu_workload(k, n))
<1> DEFINE L == [x_bf16 |-> 0, wg_bf16 |-> 64, wu_bf16 |-> 256, wd_bf16 |-> 512, gate |-> 1024,
                 up |-> 1280, h |-> 1536, h_bf16 |-> 1792, out |-> 2048, k |-> k, n |-> n]
           load(addr, count) == dma_copy(V0(addr), H(addr), count * 2)
           x1 == load(L.x_bf16, k)   x2 == load(L.wg_bf16, k * n)   x3 == load(L.wu_bf16, k * n)
           x4 == load(L.wd_bf16, n * k)   b == barrier(DMA)   s == dma_copy(H(1024), V0(L.out), k * 4)
           c == <<x1, x2, x3, x4, b>>   d == <<s, b, halt>>
<1>1. swiglu_workload(k, n) = c \o sync_kernel(swiglu_program(L)) \o d
  BY DEF swiglu_workload
<1>2. \A dst, src, m : /\ Moves(dma_copy(dst, src, m)) /\ HasSize(dma_copy(dst, src, m))
                       /\ dma_copy(dst, src, m).op \notin {LOAD, RESERVE}
  <2>1. \A dst, src, m : dma_copy(dst, src, m).op = DMA_COPY
    BY OpsAre
  <2>2. DMA_COPY \in DmaOpcodes
    BY DEF DmaOpcodes
  <2> QED BY <2>1, <2>2, OpcodesAre DEF Moves, HasSize
<1>3. Clean(sync_kernel(swiglu_program(L)))
  BY KernelsAre, SyncClean
<1>4. \A x \in {x1, x2, x3, x4, s} : Moves(x) /\ HasSize(x) /\ x.op \notin {LOAD, RESERVE}
  BY <1>2
<1>5. b.op \notin {LOAD, RESERVE} /\ halt.op \notin {LOAD, RESERVE}
  BY OpsAre, OpcodesAre
<1> HIDE DEF x1, x2, x3, x4, s, b, L
<1>6. Clean(c)
  <2>1. /\ c \in Seq({x1, x2, x3, x4, b}) /\ Len(c) = 4 + 1 /\ c[4 + 1] = b
        /\ \A p \in 1 .. 4 : c[p] \in {x1, x2, x3, x4}
        /\ \A p \in 1 .. 5 : c[p] \in {x1, x2, x3, x4, b}
    OBVIOUS
  <2> HIDE DEF c
  <2>2. IsSeq(c)
    BY <2>1 DEF IsSeq
  <2>3. \A p \in 1 .. 4 : Moves(c[p]) /\ HasSize(c[p])
    BY <1>4, <2>1
  <2>4. Tidy(c)
    BY <2>1, <2>2, <2>3, TidyMoves DEF b
  <2> QED BY <1>4, <1>5, <2>1, <2>4, TidyCode
<1>7. Clean(d)
  <2>1. Tidy(d)
    BY <1>4, TailTidy DEF b
  <2>2. Len(d) = 3 /\ \A p \in 1 .. 3 : d[p] \in {s, b, halt}
    OBVIOUS
  <2> HIDE DEF d
  <2> QED BY <1>4, <1>5, <2>1, <2>2, TidyCode
<1> HIDE DEF c, d
<1> QED BY <1>1, <1>3, <1>6, <1>7, CleanJoined

-----------------------------------------------------------------------------
(* The stream of products of a token                                        *)

\* MM makes a product of bf16 operands.
LEMMA ProductIs ==
  \A dst, a, b, m, n, k, options : IsProduct(MM(dst, a, b, m, n, k, options))
<1> SUFFICES ASSUME NEW dst, NEW a, NEW b, NEW m, NEW n, NEW k, NEW options
             PROVE  IsProduct(MM(dst, a, b, m, n, k, options))
  OBVIOUS
<1> DEFINE i == MM(dst, a, b, m, n, k, options)
<1>1. i.op = MATMUL /\ i.target = TC0
  BY DEF MM, matmul, Instr
<1>2. 2 ^ 0 = 1 /\ 2 ^ 2 = 4 /\ 2 ^ 3 = 8 /\ 2 ^ 5 = 32
  OBVIOUS
<1>3. \A c : Flag(0, c) \in {0, 1} /\ Flag(2, c) \in {0, 4}
  BY <1>2 DEF Flag
<1>4. Flag(3, TRUE) = 8 /\ \A c : c => Flag(5, c) = 32
  BY <1>2 DEF Flag
<1>5. \E x \in {0, 1}, y \in {0, 4} : i.flags = 8 + x + 32 + y
  <2> DEFINE x == Flag(0, "accumulate" \in {"bf16"} \cup options)
             y == Flag(2, "transpose_b" \in {"bf16"} \cup options)
             z == Flag(5, "bf16" \in {"bf16"} \cup options)
  <2>1. i.flags = Flag(3, TRUE) + x + z + y
    BY DEF MM, matmul, Instr, SIGNED, ACCUMULATE, BF16, TRANSPOSE_B
  <2>2. x \in {0, 1} /\ y \in {0, 4}
    BY <1>3
  <2>3. z = 32
    BY <1>4
  <2> HIDE DEF x, y, z, i
  <2> QED BY <1>4, <2>1, <2>2, <2>3
<1> HIDE DEF i
<1>6. Bit(i.flags, BF16)
  BY <1>2, <1>5 DEF Bit, BF16
<1> QED BY <1>1, <1>6 DEF IsProduct, i

\* The products of one linear layer
LEMMA StreamLinear ==
  ASSUME NEW k \in Nat, NEW n \in Nat, NEW t \in Nat \ {0}
  PROVE  Good("products", stream_linear(k, n, t))
<1> DEFINE tn == tiles(n, t)   tk == tiles(k, t)
           M(y, x) == MM(StreamC, StreamA, StreamB, 1, tn[y].stop - tn[y].start, tk[x].stop - tk[x].start,
                         IF tk[x].start # 0 THEN {"accumulate"} ELSE {})
           f == [y \in DOMAIN tn |-> [x \in DOMAIN tk |-> M(y, x)]]
<1>1. \A x, y : IsProduct(M(y, x))
  BY ProductIs
<1>2. DOMAIN tn = 1 .. Ceil(n, t) /\ DOMAIN tk = 1 .. Ceil(k, t) /\ Ceil(n, t) \in Nat /\ Ceil(k, t) \in Nat
  BY TilesAre
<1>3. stream_linear(k, n, t) = Concat(f)
  BY DEF stream_linear
<1> HIDE DEF tn, tk, M
<1>4. Len(f) = Ceil(n, t)
  BY <1>2
<1>5. ASSUME NEW y \in 1 .. Ceil(n, t) PROVE Good("products", f[y])
  <2> DEFINE r == [x \in 1 .. Ceil(k, t) |-> M(y, x)]
  <2>1. f[y] = r
    BY <1>2
  <2>2. IsSeq(r) /\ Len(r) = Ceil(k, t)
    <3>1. r = [x \in 1 .. Ceil(k, t) |-> r[x]]
      OBVIOUS
    <3> HIDE DEF r
    <3> QED BY <1>2, <3>1, ListIsSeq
  <2>3. \A x \in 1 .. Ceil(k, t) : IsProduct(r[x])
    BY <1>1
  <2> QED BY <2>1, <2>2, <2>3 DEF Good
<1> HIDE DEF f
<1>6. Good("products", Concat(f))
  BY <1>2, <1>4, <1>5, GoodConcat DEF Kinds
<1> QED BY <1>3, <1>6

\* The products of the states
LEMMA StreamStates ==
  ASSUME NEW cfg, cfg.dn_v_heads \in Nat, NEW t
  PROVE  Good("products", deltanet_state_ops(cfg, t))
<1> DEFINE n == cfg.dn_v_heads
           a == MM(0, StreamA, StreamB, t, 1, t, {})   b == MM(0, StreamA, StreamB, t, t, 1, {})
           s == <<a, b, a>>   f == [i \in 1 .. n |-> s]
<1>1. IsProduct(a) /\ IsProduct(b)
  BY ProductIs
<1>2. deltanet_state_ops(cfg, t) = Concat(f)
  BY DEF deltanet_state_ops, Loop
<1> HIDE DEF a, b
<1>3. Good("products", s)
  <2>1. s \in Seq({a, b}) /\ Len(s) = 3 /\ \A p \in 1 .. 3 : s[p] \in {a, b}
    OBVIOUS
  <2> HIDE DEF s
  <2> QED BY <1>1, <2>1 DEF Good, IsSeq
<1> HIDE DEF s
<1>4. n \in Nat /\ Len(f) = n /\ \A m \in 1 .. n : f[m] = s
  OBVIOUS
<1> HIDE DEF f
<1>5. Good("products", Concat(f))
  BY <1>3, <1>4, GoodConcat DEF Kinds
<1> QED BY <1>2, <1>5

\* The products of a layer
LEMMA StreamLayer ==
  ASSUME NEW cfg, Dimensions(cfg), NEW li, NEW t \in Nat \ {0}
  PROVE  Good("products", stream_layer(cfg, li, t))
<1>1. /\ cfg.d_model \in Nat /\ cfg.d_ff \in Nat /\ q_dim(cfg) \in Nat /\ kv_dim(cfg) \in Nat
      /\ dn_qk(cfg) \in Nat /\ dn_v(cfg) \in Nat /\ cfg.dn_v_heads \in Nat
  BY WidthsAre
<1>2. \A k \in Nat, n \in Nat : Good("products", stream_linear(k, n, t))
  BY StreamLinear
<1>3. Good("products", deltanet_state_ops(cfg, t))
  BY <1>1, StreamStates
<1>4. \A c, d : Good("products", c) /\ Good("products", d) => Good("products", c \o d)
  BY GoodJoined DEF Kinds
<1> QED BY <1>1, <1>2, <1>3, <1>4 DEF stream_layer

\* A program followed by another
Then(c, d) == c \o d

\* The parts of a program in any grouping
LEMMA Regrouped ==
  ASSUME NEW c, NEW d, NEW e, IsSeq(c), IsSeq(d), IsSeq(e)
  PROVE  Then(Then(c, d), e) = Then(c, Then(d, e))
<1>1. PICK S, T, U : c \in Seq(S) /\ d \in Seq(T) /\ e \in Seq(U)
  BY DEF IsSeq
<1> DEFINE V3 == S \cup T \cup U
<1>2. c \in Seq(V3) /\ d \in Seq(V3) /\ e \in Seq(V3)
  BY <1>1
<1> HIDE DEF V3
<1>3. (c \o d) \o e = c \o (d \o e)
  BY <1>2, ConcatAssociative
<1> QED BY <1>3 DEF Then

\* Five parts of a program, the inner three taken together
LEMMA FiveParts ==
  ASSUME NEW s, NEW l, NEW v, NEW w, NEW x, IsSeq(s), IsSeq(l), IsSeq(v), IsSeq(w), IsSeq(x)
  PROVE  Then(Then(Then(s, l), v), Then(w, x)) = Then(s, Then(Then(Then(l, v), w), x))
<1>1. \A c, d : IsSeq(c) /\ IsSeq(d) => IsSeq(Then(c, d))
  BY Joined DEF Then
<1> QED BY <1>1, Regrouped

\* Products up to a barrier are a clean part where one array executes them.
LEMMA ProductsClean ==
  ASSUME NEW c, Good("products", c), job.bf16 # "arrays"
  PROVE  Clean(c \o <<barrier(MXU)>>)
<1> DEFINE b == barrier(MXU)   n == Len(c)   e == c \o <<b>>
<1>1. IsSeq(c) /\ n \in Nat /\ \A p \in 1 .. n : IsProduct(c[p])
  BY HasLen DEF Good
<1>2. IsSeq(<<b>>) /\ Len(<<b>>) = 1 /\ <<b>>[1] = b
  <2>1. <<b>> \in Seq({b})
    OBVIOUS
  <2> QED BY <2>1 DEF IsSeq
<1>3. IsSeq(e) /\ Len(e) = n + 1 /\ \A p \in 1 .. n + 1 : e[p] = IF p <= n THEN c[p] ELSE <<b>>[p - n]
  BY <1>1, <1>2, Joined
<1>4. b.op = BARRIER
  BY OpsAre
<1>5. \A i : i.op \in TensorOps => WaitsFor(b, i)
  BY BarriersAre
<1> HIDE DEF b, e
<1>6. e[n + 1] = b /\ \A p \in 1 .. n : e[p] = c[p]
  BY <1>1, <1>2, <1>3
<1>7. \A p \in 1 .. n : IsProduct(e[p]) /\ e[p].op = MATMUL /\ e[p].op \in TensorOps
  BY <1>1, <1>6 DEF IsProduct, TensorOps
<1>8. \A i, k : IsProduct(i) /\ IsProduct(k) => WaitsFor(k, i)
  <2>1. MATMUL \in TensorOps /\ MATMUL # CLEAR
    BY DEF TensorOps, MATMUL, CLEAR
  <2>2. ASSUME NEW i, NEW k, IsProduct(i), IsProduct(k)
        PROVE  Fast(k) /\ i.op \in TensorOps /\ Cores(i) \subseteq Cores(k)
    BY <2>1, <2>2 DEF IsProduct, Fast, Cores
  <2> QED BY <2>2 DEF WaitsFor, WaitsForCore
<1>9. /\ b.op \notin TensorOps \cup {LOAD, RESERVE} /\ ~Moves(b)
      /\ \A p \in 1 .. n : ~Moves(e[p]) /\ e[p].op \notin {LOAD, RESERVE}
  BY <1>4, <1>7, OpcodesAre DEF Moves
<1>10. ASSUME NEW p \in 1 .. n PROVE Follows(e[p + 1], e[p])
  <2>1. CASE p = n
    BY <1>5, <1>6, <1>7, <1>9, <2>1 DEF Follows
  <2>2. CASE p < n
    <3>1. p + 1 \in 1 .. n
      BY <1>1, <2>2
    <3> QED BY <1>7, <1>8, <1>9, <3>1 DEF Follows
  <2> QED BY <1>1, <2>1, <2>2
<1>11. \A p \in 1 .. n + 1 : p = n + 1 \/ p \in 1 .. n
  BY <1>1
<1>12. Guarded(e)
  BY <1>1, <1>3, <1>6, <1>9, <1>10, <1>11 DEF Guarded
<1>13. \A p \in 1 .. Len(e) : e[p].op \notin {LOAD, RESERVE}
  BY <1>3, <1>6, <1>9, <1>11
<1> QED BY <1>12, <1>13, GuardedCode DEF e, b

\* The stream of a token is clean where one array executes the products.
LEMMA StreamClean ==
  ASSUME NEW cfg, Dimensions(cfg), NEW t \in Nat \ {0}, job.bf16 # "arrays"
  PROVE  Clean(token_stream(cfg, t))
<1> DEFINE x1 == dma_copy(V0(StreamA), H(0), cfg.d_model * 2)   x2 == dma_copy(V0(StreamB), H(0), t * t * 2)
           x3 == dma_copy(H(65536), V0(StreamC), 4 * 4)
           start == <<x1, x2, barrier(DMA)>>   end == <<x3, barrier(DMA), halt>>
           loop == Loop(cfg.n_layers, LAMBDA li : stream_layer(cfg, li, t))
           last == stream_linear(cfg.d_model, cfg.vocab, t)
<1>1. token_stream(cfg, t) = start \o loop \o last \o <<barrier(MXU), x3, barrier(DMA), halt>>
  BY DEF token_stream
<1>2. Good("products", last)
  BY WidthsAre, StreamLinear
<1>4. "products" \in Kinds
  BY DEF Kinds
<1>6. Good("products", loop)
  <2> DEFINE f == [i \in 1 .. cfg.n_layers |-> stream_layer(cfg, i - 1, t)]
  <2>1. cfg.n_layers \in Nat
    BY WidthsAre
  <2>2. Len(f) = cfg.n_layers /\ \A m \in 1 .. cfg.n_layers : Good("products", f[m])
    BY <2>1, StreamLayer
  <2> HIDE DEF f
  <2>3. Good("products", Concat(f))
    BY <1>4, <2>1, <2>2, GoodConcat
  <2> QED BY <2>3 DEF Loop, f
<1>7. Good("products", loop \o last)
  BY <1>2, <1>4, <1>6, WidthsAre, GoodJoined
<1>8. \A dst, src, m : /\ Moves(dma_copy(dst, src, m)) /\ HasSize(dma_copy(dst, src, m))
                       /\ dma_copy(dst, src, m).op \notin {LOAD, RESERVE}
  <2>1. \A dst, src, m : dma_copy(dst, src, m).op = DMA_COPY
    BY OpsAre
  <2>2. DMA_COPY \in DmaOpcodes
    BY DEF DmaOpcodes
  <2> QED BY <2>1, <2>2, OpcodesAre DEF Moves, HasSize
<1>9. \A x \in {x1, x2, x3} : Moves(x) /\ HasSize(x) /\ x.op \notin {LOAD, RESERVE}
  BY <1>8
<1>10. barrier(DMA).op \notin {LOAD, RESERVE} /\ halt.op \notin {LOAD, RESERVE}
  BY OpsAre, OpcodesAre
<1> HIDE DEF x1, x2, x3, loop, last
<1>11. Clean(start)
  <2> DEFINE y == barrier(DMA)
  <2>1. /\ start \in Seq({x1, x2, y}) /\ Len(start) = 2 + 1 /\ start[2 + 1] = y
        /\ \A p \in 1 .. 2 : start[p] \in {x1, x2}
        /\ \A p \in 1 .. 3 : start[p] \in {x1, x2, y}
    OBVIOUS
  <2> HIDE DEF start, y
  <2>2. IsSeq(start)
    BY <2>1 DEF IsSeq
  <2>3. \A p \in 1 .. 2 : Moves(start[p]) /\ HasSize(start[p])
    BY <1>9, <2>1
  <2>4. Tidy(start)
    BY <2>1, <2>2, <2>3, TidyMoves DEF y
  <2> QED BY <1>9, <1>10, <2>1, <2>4, TidyCode DEF y
<1>12. Clean(end)
  <2>1. Tidy(end)
    BY <1>9, TailTidy
  <2> DEFINE y == barrier(DMA)   z == halt
  <2>2. Len(end) = 3 /\ \A p \in 1 .. 3 : end[p] \in {x3, y, z}
    <3> HIDE DEF y, z
    <3>1. Len(<<x3, y, z>>) = 3 /\ \A p \in 1 .. 3 : <<x3, y, z>>[p] \in {x3, y, z}
      OBVIOUS
    <3> QED BY <3>1 DEF y, z
  <2> HIDE DEF end
  <2> QED BY <1>9, <1>10, <2>1, <2>2, TidyCode
<1>13. <<barrier(MXU), x3, barrier(DMA), halt>> = <<barrier(MXU)>> \o end
  <2> DEFINE w == barrier(MXU)   y == barrier(DMA)   z == halt
  <2> HIDE DEF w, y, z
  <2>1. <<w, x3, y, z>> = <<w>> \o <<x3, y, z>>
    <3> DEFINE S == {w, x3, y, z}   l == <<w, x3, y, z>>   r == <<w>> \o <<x3, y, z>>
    <3>1. /\ l \in Seq(S) /\ Len(l) = 4
          /\ <<w>> \in Seq(S) /\ Len(<<w>>) = 1 /\ <<x3, y, z>> \in Seq(S) /\ Len(<<x3, y, z>>) = 3
      OBVIOUS
    <3>2. r \in Seq(S) /\ Len(r) = 4
      BY <3>1, ConcatProperties
    <3>3. \A p \in 1 .. 4 : l[p] = r[p]
      <4>1. r[1] = w /\ r[2] = x3 /\ r[3] = y /\ r[4] = z
        BY <3>1, ConcatProperties
      <4>2. \A p \in 1 .. 4 : p = 1 \/ p = 2 \/ p = 3 \/ p = 4
        OBVIOUS
      <4> QED BY <4>1, <4>2
    <3> HIDE DEF S, l, r
    <3>4. l = r
      BY <3>1, <3>2, <3>3, SeqEqual
    <3> QED BY <3>4 DEF l, r
  <2> QED BY <2>1 DEF w, y, z
<1> DEFINE q == <<barrier(MXU)>>   p == loop \o last
<1>14. Clean(p \o q)
  BY <1>7, ProductsClean
<1>15. IsSeq(start) /\ IsSeq(end) /\ IsSeq(loop) /\ IsSeq(last) /\ IsSeq(q) /\ IsSeq(p)
  <2>1. IsSeq(loop) /\ IsSeq(last) /\ IsSeq(p)
    BY <1>2, <1>6, <1>7, WidthsAre DEF Good
  <2>2. IsSeq(q)
    <3> DEFINE w == barrier(MXU)
    <3> HIDE DEF w
    <3>1. <<w>> \in Seq({w})
      OBVIOUS
    <3> QED BY <3>1 DEF IsSeq, w
  <2> QED BY <1>11, <1>12, <2>1, <2>2 DEF Clean
<1> HIDE DEF start, end, q
<1>16. token_stream(cfg, t) = start \o ((p \o q) \o end)
  <2>1. start \o loop \o last \o (q \o end) = start \o (((loop \o last) \o q) \o end)
    <3> HIDE DEF p, loop, last
    <3>1. Then(Then(Then(start, loop), last), Then(q, end)) = Then(start, Then(Then(Then(loop, last), q), end))
      BY <1>15, FiveParts
    <3> QED BY Zenon, <3>1 DEF Then
  <2>2. token_stream(cfg, t) = start \o loop \o last \o (q \o end)
    BY Zenon, <1>1, <1>13 DEF q
  <2> QED BY Zenon, <2>1, <2>2
<1> HIDE DEF p
<1> QED BY <1>11, <1>12, <1>14, <1>16, CleanJoined

-----------------------------------------------------------------------------
(* The programs of programs.py: a CLEAR may be in flight with a MATMUL      *)

\* Instruction p of c is waited for by a later one, before any that conflicts with it.
Safe(c, p) ==
  \E w \in p + 1 .. Len(c) : WaitsFor(c[w], c[p]) /\ \A q \in p + 1 .. w - 1 : ~Conflict(c[p], c[q])

\* A program of safe commands is clean.
LEMMA SafeIsClean ==
  ASSUME NEW c, IsSeq(c), \A p \in 1 .. Len(c) : Async(c[p]) => Safe(c, p)
  PROVE  Clean(c)
<1>1. Len(c) \in Nat
  BY HasLen
<1>2. Drained(c)
  BY DEF Drained, Safe
<1>3. Fenced(c)
  <2>1. SUFFICES ASSUME NEW p \in 1 .. Len(c), NEW q \in 1 .. Len(c), p < q, Async(c[p]), Conflict(c[p], c[q])
                 PROVE  \E k \in p + 1 .. q : WaitsFor(c[k], c[p])
    BY DEF Fenced
  <2>2. PICK w \in p + 1 .. Len(c) : WaitsFor(c[w], c[p]) /\ \A r \in p + 1 .. w - 1 : ~Conflict(c[p], c[r])
    BY <2>1 DEF Safe
  <2>3. ~(q \in p + 1 .. w - 1)
    BY <2>1, <2>2
  <2>4. w \in p + 1 .. q
    BY <1>1, <2>1, <2>2, <2>3
  <2> QED BY <2>2, <2>4
<1> QED BY <1>2, <1>3 DEF Clean

\* What the next instruction waits for is safe.
LEMMA NextIsSafe ==
  ASSUME NEW c, NEW p \in Nat, p + 1 <= Len(c), Len(c) \in Nat, WaitsFor(c[p + 1], c[p])
  PROVE  Safe(c, p)
BY DEF Safe

\* A command in front of a clean program that waits for it
LEMMA CommandFirst ==
  ASSUME NEW x, NEW c, Clean(c), NEW k \in 1 .. Len(c), WaitsFor(c[k], x),
         \A q \in 1 .. k - 1 : ~Conflict(x, c[q])
  PROVE  Clean(<<x>> \o c)
<1> DEFINE e == <<x>> \o c   n == Len(c)
<1>1. IsSeq(c) /\ n \in Nat
  BY HasLen DEF Clean
<1>2. IsSeq(<<x>>) /\ Len(<<x>>) = 1 /\ <<x>>[1] = x
  <2>1. <<x>> \in Seq({x})
    OBVIOUS
  <2> QED BY <2>1 DEF IsSeq
<1>3. /\ IsSeq(e) /\ Len(e) = 1 + n
      /\ \A p \in 1 .. 1 + n : e[p] = IF p <= 1 THEN <<x>>[p] ELSE c[p - 1]
  BY <1>1, <1>2, Joined
<1> HIDE DEF e
<1>4. e[1] = x /\ \A p \in 1 .. n : e[p + 1] = c[p]
  BY <1>1, <1>2, <1>3
<1> HIDE DEF n
<1>5. k + 1 \in 2 .. n + 1 /\ WaitsFor(e[k + 1], e[1])
  BY <1>1, <1>4 DEF n
<1>6. ASSUME NEW p \in 1 .. n, NEW q \in 1 .. n, \E r \in p + 1 .. q : WaitsFor(c[r], c[p])
      PROVE  \E r \in p + 2 .. q + 1 : WaitsFor(e[r], e[p + 1])
  <2>1. PICK r \in p + 1 .. q : WaitsFor(c[r], c[p])
    BY <1>6
  <2>2. r \in 1 .. n /\ r + 1 \in p + 2 .. q + 1
    BY <1>1, <2>1
  <2> QED BY <1>4, <2>1, <2>2
<1>7. \A p \in 1 .. n + 1 : p = 1 \/ (p - 1 \in 1 .. n /\ p = (p - 1) + 1)
  BY <1>1
<1>8. Drained(e)
  <2>1. SUFFICES ASSUME NEW p \in 1 .. n + 1, Async(e[p])
                 PROVE  \E r \in p + 1 .. n + 1 : WaitsFor(e[r], e[p])
    BY <1>1, <1>3 DEF Drained
  <2>2. CASE p = 1
    BY <1>5, <2>2
  <2>3. CASE p # 1
    <3> DEFINE o == p - 1
    <3>1. o \in 1 .. n /\ p = o + 1 /\ n \in 1 .. n /\ e[p] = c[o]
      BY <1>1, <1>4, <1>7, <2>3
    <3> HIDE DEF o
    <3>2. \E r \in o + 1 .. n : WaitsFor(c[r], c[o])
      BY <2>1, <3>1 DEF Clean, Drained, n
    <3>3. \E r \in o + 2 .. n + 1 : WaitsFor(e[r], e[o + 1])
      BY <1>6, <3>1, <3>2
    <3> QED BY <3>1, <3>3
  <2> QED BY <2>2, <2>3
<1>9. Fenced(e)
  <2>1. SUFFICES ASSUME NEW p \in 1 .. n + 1, NEW q \in 1 .. n + 1, p < q, Async(e[p]), Conflict(e[p], e[q])
                 PROVE  \E r \in p + 1 .. q : WaitsFor(e[r], e[p])
    <3>1. Len(e) = n + 1
      BY <1>1, <1>3
    <3> QED BY <3>1 DEF Fenced
  <2> DEFINE s == q - 1
  <2>2. s \in 1 .. n /\ q = s + 1 /\ e[q] = c[s]
    BY <1>1, <1>4, <1>7, <2>1
  <2> HIDE DEF s
  <2>3. CASE p = 1
    <3>1. ~(s \in 1 .. k - 1)
      BY <1>4, <2>1, <2>2, <2>3
    <3>2. k + 1 \in 2 .. q
      BY <1>1, <2>2, <3>1
    <3> QED BY <1>5, <2>3, <3>2
  <2>4. CASE p # 1
    <3> DEFINE o == p - 1
    <3>1. o \in 1 .. n /\ p = o + 1 /\ e[p] = c[o]
      BY <1>1, <1>4, <1>7, <2>4
    <3>2. o < s
      BY <2>1, <2>2, <1>1
    <3> HIDE DEF o
    <3>3. \E r \in o + 1 .. s : WaitsFor(c[r], c[o])
      BY <2>1, <2>2, <3>1, <3>2 DEF Clean, Fenced, n
    <3>4. \E r \in o + 2 .. s + 1 : WaitsFor(e[r], e[o + 1])
      BY <1>6, <2>2, <3>1, <3>3
    <3> QED BY <2>2, <3>1, <3>4
  <2> QED BY <2>3, <2>4
<1> QED BY <1>3, <1>8, <1>9 DEF Clean, e

-----------------------------------------------------------------------------
(* What the commands of the programs read and write                         *)

\* Two ranges of bytes of one memory without a common byte
Apart(a, n, b, m) == a + n <= b \/ b + m <= a

\* The memories of the targets
LEMMA TargetsAre ==
  Vmems(TC0) = {VMEM0} /\ Vmems(TC0AllMxus) = {VMEM0} /\ Vmems(TC1) = {VMEM1}
<1>1. 2 ^ 4 = 16 /\ 2 ^ 5 = 32
  OBVIOUS
<1>2. /\ Bit(16, 4) /\ ~Bit(16, 5) /\ Bit(31, 4) /\ ~Bit(31, 5) /\ ~Bit(32, 4) /\ Bit(32, 5)
  BY <1>1 DEF Bit
<1> QED BY <1>2 DEF Vmems, VMEM0, VMEM1, TC0, TC0AllMxus, TC1

\* A MATMUL of int8 operands that does not accumulate
LEMMA MatmulIs ==
  ASSUME NEW i, NEW space, i.op = MATMUL, ~Bit(i.flags, BF16), ~Bit(i.flags, ACCUMULATE),
         Vmems(i.target) = {space}
  PROVE  /\ Reads(i) = {Span(space, i.src0, Parts(i) * i.imm0 * i.imm2, 1),
                        Span(space, i.src1, Parts(i) * i.imm2 * i.imm1, 1)}
         /\ Writes(i) = {Span(space, i.dst, Parts(i) * i.imm0 * i.imm1, 4)}
<1> DEFINE x == Parts(i) * i.imm0 * i.imm2   y == Parts(i) * i.imm2 * i.imm1
           z == Parts(i) * i.imm0 * i.imm1
           S(loc, l, w) == {Span(s, loc, l, w) : s \in Vmems(i.target)}
<1>1. OperandWidth(i) = 1
  BY DEF OperandWidth
<1>2. i.op \notin DmaOpcodes /\ i.op \notin {CLEAR, VECTOR_OP, REDUCE}
  BY DEF DmaOpcodes, LOAD_TILE, STORE_TILE, DMA_COPY, MATMUL, CLEAR, VECTOR_OP, REDUCE
<1>3. Reads(i) = S(i.src0, x, OperandWidth(i)) \cup S(i.src1, y, OperandWidth(i))
                 \cup (IF Bit(i.flags, ACCUMULATE) THEN S(i.dst, z, 4) ELSE {})
  BY <1>2 DEF Reads
<1>4. Writes(i) = S(i.dst, z, 4)
  BY <1>2 DEF Writes
<1>5. \A loc, l, w : S(loc, l, w) = {Span(space, loc, l, w)}
  OBVIOUS
<1> HIDE DEF S, x, y, z
<1>6. Reads(i) = {Span(space, i.src0, x, 1), Span(space, i.src1, y, 1)}
  BY <1>1, <1>3, <1>5
<1> QED BY <1>4, <1>5, <1>6 DEF x, y, z

\* What the MATMUL of a tile reads
LEMMA TileReads ==
  ASSUME NEW dst, NEW a, NEW b, NEW t \in Nat, NEW options, options = {}, NEW target, NEW space, Vmems(target) = {space}
  PROVE  Reads(matmul(dst, a, b, t, t, t, target, options)) = {Span(space, a, t * t, 1), Span(space, b, t * t, 1)}
<1> DEFINE i == matmul(dst, a, b, t, t, t, target, options)
<1>1. 2 ^ 0 = 1 /\ 2 ^ 3 = 8 /\ 2 ^ 5 = 32 /\ 2 ^ 7 = 128
  OBVIOUS
<1>2. i.flags = 8
  BY <1>1 DEF matmul, Instr, Flag, SIGNED, ACCUMULATE, BF16, TRANSPOSE_B
<1>3. /\ i.op = MATMUL /\ i.target = target /\ i.dst = dst /\ i.src0 = a /\ i.src1 = b
      /\ i.imm0 = t /\ i.imm1 = t /\ i.imm2 = t
  BY DEF matmul, Instr
<1> HIDE DEF i
<1>4. ~Bit(i.flags, SPLIT_2X2) /\ ~Bit(i.flags, BF16) /\ ~Bit(i.flags, ACCUMULATE)
  BY <1>1, <1>2 DEF Bit, SPLIT_2X2, BF16, ACCUMULATE
<1>5. Parts(i) * t * t = t * t
  BY <1>4 DEF Parts
<1>6. Reads(i) = {Span(space, a, t * t, 1), Span(space, b, t * t, 1)}
  BY <1>3, <1>4, <1>5, MatmulIs
<1> QED BY <1>6 DEF i

\* What it writes
LEMMA TileWrites ==
  ASSUME NEW dst, NEW a, NEW b, NEW t \in Nat, NEW options, options = {}, NEW target, NEW space, Vmems(target) = {space}
  PROVE  Writes(matmul(dst, a, b, t, t, t, target, options)) = {Span(space, dst, t * t, 4)}
<1> DEFINE i == matmul(dst, a, b, t, t, t, target, options)
<1>1. 2 ^ 0 = 1 /\ 2 ^ 3 = 8 /\ 2 ^ 5 = 32 /\ 2 ^ 7 = 128
  OBVIOUS
<1>2. i.flags = 8
  BY <1>1 DEF matmul, Instr, Flag, SIGNED, ACCUMULATE, BF16, TRANSPOSE_B
<1>3. /\ i.op = MATMUL /\ i.target = target /\ i.dst = dst /\ i.src0 = a /\ i.src1 = b
      /\ i.imm0 = t /\ i.imm1 = t /\ i.imm2 = t
  BY DEF matmul, Instr
<1> HIDE DEF i
<1>4. ~Bit(i.flags, SPLIT_2X2) /\ ~Bit(i.flags, BF16) /\ ~Bit(i.flags, ACCUMULATE)
  BY <1>1, <1>2 DEF Bit, SPLIT_2X2, BF16, ACCUMULATE
<1>5. Parts(i) * t * t = t * t
  BY <1>4 DEF Parts
<1>6. Writes(i) = {Span(space, dst, t * t, 4)}
  BY <1>3, <1>4, <1>5, MatmulIs
<1> QED BY <1>6 DEF i

\* What the MATMUL of the four partitions reads
LEMMA SplitReads ==
  ASSUME NEW dst, NEW a, NEW b, NEW t \in Nat, NEW options, options = {}, NEW target, NEW space,
         Vmems(target) = {space}
  PROVE  Reads(split_matmul(dst, a, b, t, t, t, target, options))
           = {Span(space, a, 4 * t * t, 1), Span(space, b, 4 * t * t, 1)}
<1> DEFINE i == split_matmul(dst, a, b, t, t, t, target, options)
<1>1. 2 ^ 0 = 1 /\ 2 ^ 3 = 8 /\ 2 ^ 5 = 32 /\ 2 ^ 7 = 128
  OBVIOUS
<1>2. i.flags = 136
  BY <1>1 DEF split_matmul, matmul, Instr, Flag, SIGNED, ACCUMULATE, BF16, TRANSPOSE_B, SPLIT_2X2
<1>3. /\ i.op = MATMUL /\ i.target = target /\ i.dst = dst /\ i.src0 = a /\ i.src1 = b
      /\ i.imm0 = t /\ i.imm1 = t /\ i.imm2 = t
  BY DEF split_matmul, matmul, Instr
<1> HIDE DEF i
<1>4. Bit(i.flags, SPLIT_2X2) /\ ~Bit(i.flags, BF16) /\ ~Bit(i.flags, ACCUMULATE)
  BY <1>1, <1>2 DEF Bit, SPLIT_2X2, BF16, ACCUMULATE
<1>5. Parts(i) * t * t = 4 * t * t
  BY <1>4 DEF Parts
<1>6. Reads(i) = {Span(space, a, 4 * t * t, 1), Span(space, b, 4 * t * t, 1)}
  BY <1>3, <1>4, <1>5, MatmulIs
<1> QED BY <1>6 DEF i

\* A CLEAR
LEMMA ClearIs ==
  ASSUME NEW space \in {VMEM0, VMEM1}, NEW a, NEW n
  PROVE  LET i == clear(Ref(space, a), n) IN
         i.op = CLEAR /\ Reads(i) = {} /\ Writes(i) = {Span(space, a, n, 1)}
<1> DEFINE i == clear(Ref(space, a), n)
<1>1. i.op = CLEAR /\ i.flags = space /\ i.dst = a /\ i.imm0 = n
  BY DEF clear, Instr, Ref
<1>2. space % 8 = space
  BY DEF VMEM0, VMEM1
<1>3. i.op \notin DmaOpcodes /\ i.op \notin {MATMUL, VECTOR_OP, REDUCE}
  BY <1>1 DEF DmaOpcodes, LOAD_TILE, STORE_TILE, DMA_COPY, MATMUL, CLEAR, VECTOR_OP, REDUCE
<1> HIDE DEF i
<1>4. Reads(i) = {}
  BY <1>3 DEF Reads
<1>5. Writes(i) = {Span(space, a, n, 1)}
  BY <1>1, <1>2, <1>3 DEF Writes
<1> QED BY <1>1, <1>4, <1>5 DEF i

\* A transfer
LEMMA DmaIs ==
  ASSUME NEW ds \in {HBM, CMEM, VMEM0, VMEM1}, NEW da \in Nat,
         NEW ss \in {HBM, CMEM, VMEM0, VMEM1}, NEW sa \in Nat, NEW n
  PROVE  LET i == dma_copy(Ref(ds, da), Ref(ss, sa), n) IN
         /\ i.op \in DmaOpcodes
         /\ Reads(i) = {Span(ss, sa, n, 1)} /\ Writes(i) = {Span(ds, da, n, 1)}
<1> DEFINE i == dma_copy(Ref(ds, da), Ref(ss, sa), n)
<1>1. /\ i.op = DMA_COPY /\ i.flags = ss + 8 * ds /\ i.dst = da % Half /\ i.src0 = sa % Half
      /\ i.imm0 = n /\ i.imm1 = da \div Half /\ i.imm2 = sa \div Half
  BY DEF dma_copy, dma_as, Instr, Ref, pack_dma_flags
<1>2. ss \in 0 .. 3 /\ ds \in 0 .. 3
  BY DEF HBM, CMEM, VMEM0, VMEM1
<1>3. (ss + 8 * ds) % 8 = ss /\ ((ss + 8 * ds) \div 8) % 8 = ds
  BY <1>2
<1>4. \A x \in Nat : (x \div Half) * Half + (x % Half) = x
  BY DEF Half
<1> HIDE DEF i
<1>5. DmaSrc(i) = Ref(ss, sa) /\ DmaDst(i) = Ref(ds, da)
  BY <1>1, <1>3, <1>4 DEF DmaSrc, DmaDst, unpack_dma_flags
<1>6. i.op \in DmaOpcodes /\ i.op \notin {MATMUL, CLEAR, VECTOR_OP, REDUCE}
  BY <1>1 DEF DmaOpcodes, LOAD_TILE, STORE_TILE, DMA_COPY, MATMUL, CLEAR, VECTOR_OP, REDUCE
<1>7. Reads(i) = {Span(ss, sa, n, 1)}
  BY <1>1, <1>5, <1>6 DEF Reads, Ref
<1>8. Writes(i) = {Span(ds, da, n, 1)}
  BY <1>1, <1>5, <1>6 DEF Writes, Ref
<1> QED BY <1>6, <1>7, <1>8 DEF i

\* A CLEAR and a MATMUL of other operands into the cleared tile
LEMMA ClearUnderMatmul ==
  ASSUME NEW i, NEW k, NEW space, NEW a \in Nat, NEW n \in Nat,
         NEW x \in Nat, NEW y \in Nat, NEW p \in Nat, NEW q \in Nat,
         i.op = CLEAR, k.op = MATMUL, Reads(i) = {}, Writes(i) = {Span(space, a, n, 1)},
         Reads(k) = {Span(space, x, p, 1), Span(space, y, q, 1)}, Apart(x, p, a, n), Apart(y, q, a, n)
  PROVE  ~Conflict(i, k)
<1>1. ~Overlap(Writes(i), Reads(k))
  BY DEF Overlap, Span, Apart
<1>2. ~Overlap(Writes(k), Reads(i))
  BY DEF Overlap
<1> QED BY <1>1, <1>2 DEF Conflict

\* Commands that work in different memories
LEMMA OtherMemory ==
  ASSUME NEW i, NEW k, NEW x, NEW y, x # y,
         \A s \in Reads(i) \cup Writes(i) : s.space = x, \A s \in Reads(k) \cup Writes(k) : s.space = y
  PROVE  ~Conflict(i, k)
BY DEF Conflict, Overlap

\* What waits for what in the programs
LEMMA WaitsAre ==
  /\ \A i, k : i.op \in DmaOpcodes /\ k.op \in DmaOpcodes => WaitsFor(k, i)
  /\ \A i : i.op \in DmaOpcodes => WaitsFor(barrier(DMA), i)
  /\ \A i : i.op \in TensorOps => WaitsFor(barrier(MXU), i) /\ WaitsFor(barrier(VPU), i)
  /\ \A m : ~Async(barrier(m))
  /\ ~Async(halt)
<1>1. \A i, k : i.op \in DmaOpcodes /\ k.op \in DmaOpcodes => WaitsFor(k, i)
  BY DEF WaitsFor
<1>2. ~Async(halt) /\ \A m : ~Async(barrier(m))
  BY OpsAre, OpcodesAre DEF Async
<1> QED BY <1>1, <1>2, BarriersAre

\* The layout of a single tile: neither operand overlaps the result.
Fits(L) ==
  /\ L.vmem_a \in Nat /\ L.vmem_b \in Nat /\ L.vmem_c \in Nat /\ L.tile \in Nat /\ L.result_bytes \in Nat
  /\ Apart(L.vmem_a, L.tile * L.tile, L.vmem_c, L.result_bytes)
  /\ Apart(L.vmem_b, L.tile * L.tile, L.vmem_c, L.result_bytes)

\* The MATMUL of the tile of a layout
LEMMA TileOf ==
  ASSUME NEW L, L.tile \in Nat, NEW options, options = {}, NEW target, NEW space, Vmems(target) = {space}
  PROVE  Reads(Tile_(L, target, options))
           = {Span(space, L.vmem_a, L.tile * L.tile, 1), Span(space, L.vmem_b, L.tile * L.tile, 1)}
<1> DEFINE d == L.vmem_c   a == L.vmem_a   b == L.vmem_b   t == L.tile
<1>1. t \in Nat
  OBVIOUS
<1>2. Tile_(L, target, options) = matmul(d, a, b, t, t, t, target, options)
  BY DEF Tile_
<1> HIDE DEF d, a, b, t
<1>3. Reads(matmul(d,a,b,t,t,t,target,options)) = {Span(space, a, t * t, 1), Span(space, b, t * t, 1)}
  BY TileReads, <1>1
<1> QED BY <1>2, <1>3 DEF a, b, t

\* What it writes
LEMMA TileOfWrites ==
  ASSUME NEW L, L.tile \in Nat, NEW options, options = {}, NEW target, NEW space, Vmems(target) = {space}
  PROVE  Writes(Tile_(L, target, options)) = {Span(space, L.vmem_c, L.tile * L.tile, 4)}
<1> DEFINE d == L.vmem_c   a == L.vmem_a   b == L.vmem_b   t == L.tile
<1>1. t \in Nat
  OBVIOUS
<1>2. Tile_(L, target, options) = matmul(d, a, b, t, t, t, target, options)
  BY DEF Tile_
<1> HIDE DEF d, a, b, t
<1>3. Writes(matmul(d,a,b,t,t,t,target,options)) = {Span(space, d, t * t, 4)}
  BY TileWrites, <1>1
<1> QED BY <1>2, <1>3 DEF d, t

\* The CLEAR of the result may be in flight with the MATMUL.
LEMMA TileOverClear ==
  ASSUME NEW L, Fits(L), NEW space \in {VMEM0, VMEM1}, NEW target, Vmems(target) = {space}, NEW options, options = {}
  PROVE  ~Conflict(clear(Ref(space, L.vmem_c), L.result_bytes), Tile_(L, target, options))
<1> DEFINE i == clear(Ref(space, L.vmem_c), L.result_bytes)   k == Tile_(L, target, options)   n == L.tile * L.tile
<1>1. i.op = CLEAR /\ Reads(i) = {} /\ Writes(i) = {Span(space, L.vmem_c, L.result_bytes, 1)}
  BY ClearIs
<1>2. k.op = MATMUL
  BY DEF Tile_, matmul, Instr
<1>3. Reads(k) = {Span(space, L.vmem_a, n, 1), Span(space, L.vmem_b, n, 1)}
  BY TileOf DEF Fits
<1>4. n \in Nat /\ Apart(L.vmem_a, n, L.vmem_c, L.result_bytes) /\ Apart(L.vmem_b, n, L.vmem_c, L.result_bytes)
  BY DEF Fits
<1> HIDE DEF i, k, n
<1>5. ~Conflict(i, k)
  BY <1>1, <1>2, <1>3, <1>4, ClearUnderMatmul DEF Fits
<1> QED BY <1>5 DEF i, k

\* The opcodes of the builders' commands
LEMMA BuildersAre ==
  /\ \A dst, src, n : dma_copy(dst, src, n).op \in DmaOpcodes
  /\ \A dst, n : clear(dst, n).op \in TensorOps
  /\ \A dst, a, b, m, n, k, target, options : matmul(dst, a, b, m, n, k, target, options).op \in TensorOps
  /\ \A dst, a, b, m, n, k, target, options : split_matmul(dst, a, b, m, n, k, target, options).op \in TensorOps
  /\ \A dst, a, b, n, op, target, imm : vector_op(dst, a, b, n, op, target, imm).op \in TensorOps
<1>1. /\ \A dst, a, b, m, n, k, target, options : matmul(dst, a, b, m, n, k, target, options).op = MATMUL
      /\ \A dst, a, b, m, n, k, target, options : split_matmul(dst, a, b, m, n, k, target, options).op = MATMUL
      /\ \A dst, a, b, n, op, target, imm : vector_op(dst, a, b, n, op, target, imm).op = VECTOR_OP
  BY DEF matmul, split_matmul, vector_op, Instr
<1>2. (\A dst, src, n : dma_copy(dst, src, n).op = DMA_COPY) /\ (\A dst, n : clear(dst, n).op = CLEAR)
  BY OpsAre
<1>3. {MATMUL, VECTOR_OP, CLEAR} \subseteq TensorOps /\ DMA_COPY \in DmaOpcodes
  BY DEF TensorOps, DmaOpcodes
<1> QED BY <1>1, <1>2, <1>3

\* matmul_16_program
LEMMA Matmul16Clean ==
  ASSUME NEW L, Fits(L)
  PROVE  Clean(matmul_16_program(L))
<1> DEFINE x1 == dma_copy(V0(L.vmem_a), H(L.hbm_a), L.tile_bytes)
           x2 == dma_copy(V0(L.vmem_b), H(L.hbm_b), L.tile_bytes)
           x3 == barrier(DMA)   x4 == clear(V0(L.vmem_c), L.result_bytes)   x5 == Tile_(L, TC0, {})
           x6 == barrier(MXU)   x7 == dma_copy(H(L.hbm_c), V0(L.vmem_c), L.result_bytes)
           x8 == barrier(DMA)   x9 == halt
           c == <<x1, x2, x3, x4, x5, x6, x7, x8, x9>>
<1>1. matmul_16_program(L) = c
  BY DEF matmul_16_program
<1>2. /\ x1.op \in DmaOpcodes /\ x2.op \in DmaOpcodes /\ x7.op \in DmaOpcodes
      /\ x4.op \in TensorOps /\ x5.op \in TensorOps
  BY BuildersAre DEF Tile_
<1>3. ~Conflict(x4, x5)
  BY TileOverClear, TargetsAre DEF V0
<1>4. /\ WaitsFor(x2, x1) /\ WaitsFor(x3, x2) /\ WaitsFor(x6, x4) /\ WaitsFor(x6, x5) /\ WaitsFor(x8, x7)
      /\ ~Async(x3) /\ ~Async(x6) /\ ~Async(x8) /\ ~Async(x9)
  BY <1>2, WaitsAre
<1> HIDE DEF x1, x2, x3, x4, x5, x6, x7, x8, x9
<1>5. /\ c \in Seq({x1, x2, x3, x4, x5, x6, x7, x8, x9}) /\ Len(c) = 9
      /\ c[1] = x1 /\ c[2] = x2 /\ c[3] = x3 /\ c[4] = x4 /\ c[5] = x5 /\ c[6] = x6 /\ c[7] = x7
      /\ c[8] = x8 /\ c[9] = x9
      /\ \A p \in 1 .. 9 : p = 1 \/ p = 2 \/ p = 3 \/ p = 4 \/ p = 5 \/ p = 6 \/ p = 7 \/ p = 8 \/ p = 9
  OBVIOUS
<1> HIDE DEF c
<1>6. IsSeq(c)
  BY <1>5 DEF IsSeq
<1>7. Safe(c, 1) /\ Safe(c, 2) /\ Safe(c, 5) /\ Safe(c, 7)
  BY <1>4, <1>5, NextIsSafe
<1>8. Safe(c, 4)
  <2>1. 6 \in 4 + 1 .. Len(c) /\ \A q \in 4 + 1 .. 6 - 1 : q = 5
    BY <1>5
  <2> QED BY <1>3, <1>4, <1>5, <2>1 DEF Safe
<1>9. \A p \in 1 .. Len(c) : Async(c[p]) => Safe(c, p)
  BY <1>4, <1>5, <1>7, <1>8
<1> QED BY <1>1, <1>6, <1>9, SafeIsClean

\* The same for a MATMUL that is not of a layout's tile
LEMMA MatmulOverClear ==
  ASSUME NEW dst, NEW a \in Nat, NEW b \in Nat, NEW t \in Nat, NEW y \in Nat, NEW n \in Nat, NEW options, options = {},
         Apart(a, t * t, y, n), Apart(b, t * t, y, n)
  PROVE  ~Conflict(clear(V0(y), n), matmul(dst, a, b, t, t, t, TC0, options))
<1> DEFINE i == clear(V0(y), n)   k == matmul(dst, a, b, t, t, t, TC0, options)   s == t * t
<1>1. i.op = CLEAR /\ Reads(i) = {} /\ Writes(i) = {Span(VMEM0, y, n, 1)}
  BY ClearIs DEF V0
<1>2. k.op = MATMUL
  BY DEF matmul, Instr
<1>3. Reads(k) = {Span(VMEM0, a, s, 1), Span(VMEM0, b, s, 1)}
  BY TileReads, TargetsAre
<1>4. s \in Nat /\ Apart(a, s, y, n) /\ Apart(b, s, y, n)
  OBVIOUS
<1> HIDE DEF i, k, s
<1>5. ~Conflict(i, k)
  BY <1>1, <1>2, <1>3, <1>4, ClearUnderMatmul
<1> QED BY <1>5 DEF i, k

\* The same for the MATMUL of the four partitions
LEMMA SplitOverClear ==
  ASSUME NEW dst, NEW a \in Nat, NEW b \in Nat, NEW t \in Nat, NEW y \in Nat, NEW n \in Nat, NEW options, options = {},
         Apart(a, 4 * t * t, y, n), Apart(b, 4 * t * t, y, n)
  PROVE  ~Conflict(clear(V0(y), n), split_matmul(dst, a, b, t, t, t, TC0, options))
<1> DEFINE i == clear(V0(y), n)   k == split_matmul(dst, a, b, t, t, t, TC0, options)   s == 4 * t * t
<1>1. i.op = CLEAR /\ Reads(i) = {} /\ Writes(i) = {Span(VMEM0, y, n, 1)}
  BY ClearIs DEF V0
<1>2. k.op = MATMUL
  BY DEF split_matmul, matmul, Instr
<1>3. Reads(k) = {Span(VMEM0, a, s, 1), Span(VMEM0, b, s, 1)}
  BY SplitReads, TargetsAre
<1>4. s \in Nat /\ Apart(a, s, y, n) /\ Apart(b, s, y, n)
  OBVIOUS
<1> HIDE DEF i, k, s
<1>5. ~Conflict(i, k)
  BY <1>1, <1>2, <1>3, <1>4, ClearUnderMatmul
<1> QED BY <1>5 DEF i, k

\* A command two instructions before the one that waits for it
LEMMA SecondIsSafe ==
  ASSUME NEW c, NEW p \in Nat, p + 2 <= Len(c), Len(c) \in Nat, WaitsFor(c[p + 2], c[p]), ~Conflict(c[p], c[p + 1])
  PROVE  Safe(c, p)
<1>1. p + 2 \in p + 1 .. Len(c) /\ \A q \in p + 1 .. p + 2 - 1 : q = p + 1
  OBVIOUS
<1> QED BY <1>1 DEF Safe

\* split_matmul_8_program: the operands end before the result.
LEMMA Split8Clean ==
  ASSUME NEW t \in Nat, 4 * t * t <= 512
  PROVE  Clean(split_matmul_8_program(t))
<1> DEFINE options == {}   s == 4 * t * t   n == 4 * t * t * 4
           x1 == dma_copy(V0(0), H(0), s)
           x2 == dma_copy(V0(512), H(512), s)
           x3 == barrier(DMA)   x4 == clear(V0(1024), n)
           x5 == split_matmul(1024, 0, 512, t, t, t, TC0, options)
           x6 == barrier(MXU)   x7 == dma_copy(H(1024), V0(1024), n)
           x8 == barrier(DMA)   x9 == halt
           c == <<x1, x2, x3, x4, x5, x6, x7, x8, x9>>
<1>1. split_matmul_8_program(t) = c
  BY DEF split_matmul_8_program
<1>2. /\ x1.op \in DmaOpcodes /\ x2.op \in DmaOpcodes /\ x7.op \in DmaOpcodes
      /\ x4.op \in TensorOps /\ x5.op \in TensorOps
  BY BuildersAre
<1>3. ~Conflict(x4, x5)
  <2>1. n \in Nat /\ Apart(0, 4 * t * t, 1024, n) /\ Apart(512, 4 * t * t, 1024, n) /\ options = {}
    BY DEF Apart
  <2> HIDE DEF n, options
  <2> QED BY <2>1, SplitOverClear
<1>4. /\ WaitsFor(x2, x1) /\ WaitsFor(x3, x2) /\ WaitsFor(x6, x4) /\ WaitsFor(x6, x5) /\ WaitsFor(x8, x7)
      /\ ~Async(x3) /\ ~Async(x6) /\ ~Async(x8) /\ ~Async(x9)
  BY <1>2, WaitsAre
<1> HIDE DEF x1, x2, x3, x4, x5, x6, x7, x8, x9
<1>5. /\ c \in Seq({x1, x2, x3, x4, x5, x6, x7, x8, x9}) /\ Len(c) = 9
      /\ c[1] = x1 /\ c[2] = x2 /\ c[3] = x3 /\ c[4] = x4 /\ c[5] = x5 /\ c[6] = x6 /\ c[7] = x7
      /\ c[8] = x8 /\ c[9] = x9
      /\ \A p \in 1 .. 9 : p = 1 \/ p = 2 \/ p = 3 \/ p = 4 \/ p = 5 \/ p = 6 \/ p = 7 \/ p = 8 \/ p = 9
  OBVIOUS
<1> HIDE DEF c
<1>6. IsSeq(c)
  BY <1>5 DEF IsSeq
<1>7. Safe(c, 1) /\ Safe(c, 2) /\ Safe(c, 5) /\ Safe(c, 7)
  BY <1>4, <1>5, NextIsSafe
<1>8. Safe(c, 4)
  BY <1>3, <1>4, <1>5, SecondIsSafe
<1>9. \A p \in 1 .. Len(c) : Async(c[p]) => Safe(c, p)
  BY <1>4, <1>5, <1>7, <1>8
<1> QED BY <1>1, <1>6, <1>9, SafeIsClean

\* matmul_128_program: every command is waited for by the next instruction.
LEMMA Matmul128Clean ==
  ASSUME NEW a
  PROVE  Clean(matmul_128_program(a))
<1> DEFINE x1 == dma_copy(V0(0), H(0), a * a)   x2 == dma_copy(V0(16384), H(16384), a * a)
           x3 == barrier(DMA)   x4 == matmul(32768, 0, 16384, a, a, a, TC0, {})
           x5 == barrier(MXU)   x6 == halt
           c == <<x1, x2, x3, x4, x5, x6>>
<1>1. matmul_128_program(a) = c
  BY DEF matmul_128_program
<1>2. x1.op \in DmaOpcodes /\ x2.op \in DmaOpcodes /\ x4.op \in TensorOps
  BY BuildersAre
<1>3. /\ WaitsFor(x2, x1) /\ WaitsFor(x3, x2) /\ WaitsFor(x5, x4)
      /\ ~Async(x3) /\ ~Async(x5) /\ ~Async(x6)
  BY <1>2, WaitsAre
<1> HIDE DEF x1, x2, x3, x4, x5, x6
<1>4. /\ c \in Seq({x1, x2, x3, x4, x5, x6}) /\ Len(c) = 6
      /\ c[1] = x1 /\ c[2] = x2 /\ c[3] = x3 /\ c[4] = x4 /\ c[5] = x5 /\ c[6] = x6
      /\ \A p \in 1 .. 6 : p = 1 \/ p = 2 \/ p = 3 \/ p = 4 \/ p = 5 \/ p = 6
  OBVIOUS
<1> HIDE DEF c
<1>5. IsSeq(c)
  BY <1>4 DEF IsSeq
<1>6. Safe(c, 1) /\ Safe(c, 2) /\ Safe(c, 4)
  BY <1>3, <1>4, NextIsSafe
<1>7. \A p \in 1 .. Len(c) : Async(c[p]) => Safe(c, p)
  BY <1>3, <1>4, <1>6
<1> QED BY <1>1, <1>5, <1>7, SafeIsClean

\* mlp_single_tile_program: the operands end before the result.
LEMMA MlpTileClean ==
  ASSUME NEW t \in Nat, t * t <= 256
  PROVE  Clean(mlp_single_tile_program(t))
<1> DEFINE options == {}   n == t * t * 4
           x1 == dma_copy(V0(0), H(0), t * t)   x2 == dma_copy(V0(256), H(256), t * t)
           x3 == dma_copy(V0(1536), H(512), n)   x4 == barrier(DMA)   x5 == clear(V0(512), n)
           x6 == matmul(512, 0, 256, t, t, t, TC0, options)   x7 == barrier(MXU)
           x8 == vector_op(512, 512, 1536, t * t, VADD, TC0, 0)   x9 == barrier(VPU)
           x10 == vector_op(512, 512, 0, t * t, VRELU, TC0, 0)   x11 == barrier(VPU)
           x12 == dma_copy(H(1536), V0(512), n)   x13 == barrier(DMA)   x14 == halt
           c == <<x1, x2, x3, x4, x5, x6, x7, x8, x9, x10, x11, x12, x13, x14>>
<1>1. mlp_single_tile_program(t) = c
  BY DEF mlp_single_tile_program
<1>2. /\ x1.op \in DmaOpcodes /\ x2.op \in DmaOpcodes /\ x3.op \in DmaOpcodes /\ x12.op \in DmaOpcodes
      /\ x5.op \in TensorOps /\ x6.op \in TensorOps /\ x8.op \in TensorOps /\ x10.op \in TensorOps
  BY BuildersAre
<1>3. ~Conflict(x5, x6)
  <2>1. n \in Nat /\ Apart(0, t * t, 512, n) /\ Apart(256, t * t, 512, n) /\ options = {}
    BY DEF Apart
  <2> HIDE DEF n, options
  <2> QED BY <2>1, MatmulOverClear
<1>4. /\ WaitsFor(x2, x1) /\ WaitsFor(x3, x2) /\ WaitsFor(x4, x3) /\ WaitsFor(x7, x5) /\ WaitsFor(x7, x6)
      /\ WaitsFor(x9, x8) /\ WaitsFor(x11, x10) /\ WaitsFor(x13, x12)
      /\ ~Async(x4) /\ ~Async(x7) /\ ~Async(x9) /\ ~Async(x11) /\ ~Async(x13) /\ ~Async(x14)
  BY <1>2, WaitsAre
<1> HIDE DEF x1, x2, x3, x4, x5, x6, x7, x8, x9, x10, x11, x12, x13, x14
<1>5. /\ c \in Seq({x1, x2, x3, x4, x5, x6, x7, x8, x9, x10, x11, x12, x13, x14}) /\ Len(c) = 14
      /\ c[1] = x1 /\ c[2] = x2 /\ c[3] = x3 /\ c[4] = x4 /\ c[5] = x5 /\ c[6] = x6 /\ c[7] = x7
      /\ c[8] = x8 /\ c[9] = x9 /\ c[10] = x10 /\ c[11] = x11 /\ c[12] = x12 /\ c[13] = x13 /\ c[14] = x14
      /\ \A p \in 1 .. 14 : \/ p = 1 \/ p = 2 \/ p = 3 \/ p = 4 \/ p = 5 \/ p = 6 \/ p = 7 \/ p = 8 \/ p = 9
                            \/ p = 10 \/ p = 11 \/ p = 12 \/ p = 13 \/ p = 14
  OBVIOUS
<1> HIDE DEF c
<1>6. IsSeq(c)
  BY <1>5 DEF IsSeq
<1>7. Safe(c, 1) /\ Safe(c, 2) /\ Safe(c, 3) /\ Safe(c, 6) /\ Safe(c, 8) /\ Safe(c, 10) /\ Safe(c, 12)
  BY <1>4, <1>5, NextIsSafe
<1>8. Safe(c, 5)
  BY <1>3, <1>4, <1>5, SecondIsSafe
<1>9. \A p \in 1 .. Len(c) : Async(c[p]) => Safe(c, p)
  BY <1>4, <1>5, <1>7, <1>8
<1> QED BY <1>1, <1>6, <1>9, SafeIsClean

\* cmem_staged_matmul_16_program
LEMMA CmemStagedClean ==
  ASSUME NEW L, Fits(L)
  PROVE  Clean(cmem_staged_matmul_16_program(L))
<1> DEFINE options == {}
           x1 == dma_copy(Ref(CMEM, 0), H(L.hbm_a), L.tile_bytes)
           x2 == dma_copy(Ref(CMEM, 256), H(L.hbm_b), L.tile_bytes)
           x3 == dma_copy(V0(L.vmem_a), Ref(CMEM, 0), L.tile_bytes)
           x4 == dma_copy(V0(L.vmem_b), Ref(CMEM, 256), L.tile_bytes)
           x5 == barrier(DMA)   x6 == clear(V0(L.vmem_c), L.result_bytes)   x7 == Tile_(L, TC0AllMxus, options)
           x8 == barrier(MXU)   x9 == dma_copy(H(L.hbm_c), V0(L.vmem_c), L.result_bytes)
           x10 == barrier(DMA)   x11 == halt
           c == <<x1, x2, x3, x4, x5, x6, x7, x8, x9, x10, x11>>
<1>1. cmem_staged_matmul_16_program(L) = c
  BY DEF cmem_staged_matmul_16_program
<1>2. /\ x1.op \in DmaOpcodes /\ x2.op \in DmaOpcodes /\ x3.op \in DmaOpcodes /\ x4.op \in DmaOpcodes
      /\ x9.op \in DmaOpcodes /\ x6.op \in TensorOps /\ x7.op \in TensorOps
  BY BuildersAre DEF Tile_
<1>3. ~Conflict(x6, x7)
  <2>1. options = {}
    OBVIOUS
  <2> HIDE DEF options
  <2> QED BY <2>1, TileOverClear, TargetsAre DEF V0
<1>4. /\ WaitsFor(x2, x1) /\ WaitsFor(x3, x2) /\ WaitsFor(x4, x3) /\ WaitsFor(x5, x4) /\ WaitsFor(x8, x6)
      /\ WaitsFor(x8, x7) /\ WaitsFor(x10, x9)
      /\ ~Async(x5) /\ ~Async(x8) /\ ~Async(x10) /\ ~Async(x11)
  BY <1>2, WaitsAre
<1> HIDE DEF x1, x2, x3, x4, x5, x6, x7, x8, x9, x10, x11
<1>5. /\ c \in Seq({x1, x2, x3, x4, x5, x6, x7, x8, x9, x10, x11}) /\ Len(c) = 11
      /\ c[1] = x1 /\ c[2] = x2 /\ c[3] = x3 /\ c[4] = x4 /\ c[5] = x5 /\ c[6] = x6 /\ c[7] = x7
      /\ c[8] = x8 /\ c[9] = x9 /\ c[10] = x10 /\ c[11] = x11
      /\ \A p \in 1 .. 11 : \/ p = 1 \/ p = 2 \/ p = 3 \/ p = 4 \/ p = 5 \/ p = 6 \/ p = 7 \/ p = 8
                            \/ p = 9 \/ p = 10 \/ p = 11
  OBVIOUS
<1> HIDE DEF c
<1>6. IsSeq(c)
  BY <1>5 DEF IsSeq
<1>7. Safe(c, 1) /\ Safe(c, 2) /\ Safe(c, 3) /\ Safe(c, 4) /\ Safe(c, 7) /\ Safe(c, 9)
  BY <1>4, <1>5, NextIsSafe
<1>8. Safe(c, 6)
  BY <1>3, <1>4, <1>5, SecondIsSafe
<1>9. \A p \in 1 .. Len(c) : Async(c[p]) => Safe(c, p)
  BY <1>4, <1>5, <1>7, <1>8
<1> QED BY <1>1, <1>6, <1>9, SafeIsClean

\* The CLEARs and the MATMULs of two TensorCores do not conflict.
LEMMA CoresApart ==
  ASSUME NEW L, Fits(L), NEW options, options = {}
  PROVE  /\ ~Conflict(clear(V0(L.vmem_c), L.result_bytes), clear(V1(L.vmem_c), L.result_bytes))
         /\ ~Conflict(clear(V0(L.vmem_c), L.result_bytes), Tile_(L, TC0, options))
         /\ ~Conflict(clear(V0(L.vmem_c), L.result_bytes), Tile_(L, TC1, options))
         /\ ~Conflict(clear(V1(L.vmem_c), L.result_bytes), Tile_(L, TC0, options))
         /\ ~Conflict(clear(V1(L.vmem_c), L.result_bytes), Tile_(L, TC1, options))
         /\ ~Conflict(Tile_(L, TC0, options), Tile_(L, TC1, options))
<1> DEFINE c0 == clear(V0(L.vmem_c), L.result_bytes)   c1 == clear(V1(L.vmem_c), L.result_bytes)
           m0 == Tile_(L, TC0, options)   m1 == Tile_(L, TC1, options)
<1>1. VMEM0 # VMEM1
  BY DEF VMEM0, VMEM1
<1>2. \A s \in Reads(c0) \cup Writes(c0) : s.space = VMEM0
  BY ClearIs DEF V0, Span
<1>3. \A s \in Reads(c1) \cup Writes(c1) : s.space = VMEM1
  BY ClearIs DEF V1, Span
<1>4. ASSUME NEW target, NEW space, Vmems(target) = {space}
      PROVE  \A s \in Reads(Tile_(L, target, options)) \cup Writes(Tile_(L, target, options)) : s.space = space
  <2>1. L.tile \in Nat
    BY DEF Fits
  <2>2. Reads(Tile_(L, target, options)) = {Span(space, L.vmem_a, L.tile * L.tile, 1),
                                         Span(space, L.vmem_b, L.tile * L.tile, 1)}
    BY <1>4, <2>1, TileOf
  <2>3. Writes(Tile_(L, target, options)) = {Span(space, L.vmem_c, L.tile * L.tile, 4)}
    BY <1>4, <2>1, TileOfWrites
  <2>4. \A loc, n, w : Span(space, loc, n, w).space = space
    BY DEF Span
  <2> QED BY <2>2, <2>3, <2>4
<1>5. (\A s \in Reads(m0) \cup Writes(m0) : s.space = VMEM0) /\ (\A s \in Reads(m1) \cup Writes(m1) : s.space = VMEM1)
  BY <1>4, TargetsAre
<1>6. ~Conflict(c0, m0) /\ ~Conflict(c1, m1)
  BY TileOverClear, TargetsAre DEF V0, V1
<1> HIDE DEF c0, c1, m0, m1
<1>7. ~Conflict(c0, c1) /\ ~Conflict(c0, m1) /\ ~Conflict(c1, m0) /\ ~Conflict(m0, m1)
  BY <1>1, <1>2, <1>3, <1>5, OtherMemory
<1> QED BY <1>6, <1>7 DEF c0, c1, m0, m1

\* split_output_two_tc_matmul_program: the two TensorCores work in their own VMEMs.
LEMMA SplitOutputClean ==
  ASSUME NEW L, Fits(L)
  PROVE  Clean(split_output_two_tc_matmul_program(L))
<1> DEFINE options == {}
           x1 == dma_copy(V0(L.vmem_a), H(L.hbm_a), L.tile_bytes)
           x2 == dma_copy(V1(L.vmem_a), H(L.hbm_a), L.tile_bytes)
           x3 == dma_copy(V0(L.vmem_b), H(L.hbm_b0), L.tile_bytes)
           x4 == dma_copy(V1(L.vmem_b), H(L.hbm_b1), L.tile_bytes)
           x5 == barrier(DMA)
           x6 == clear(V0(L.vmem_c), L.result_bytes)   x7 == clear(V1(L.vmem_c), L.result_bytes)
           x8 == Tile_(L, TC0, options)   x9 == Tile_(L, TC1, options)   x10 == barrier(MXU)
           x11 == dma_copy(H(L.hbm_c0), V0(L.vmem_c), L.result_bytes)
           x12 == dma_copy(H(L.hbm_c1), V1(L.vmem_c), L.result_bytes)
           x13 == barrier(DMA)   x14 == halt
           c == <<x1, x2, x3, x4, x5, x6, x7, x8, x9, x10, x11, x12, x13, x14>>
<1>1. split_output_two_tc_matmul_program(L) = c
  BY DEF split_output_two_tc_matmul_program
<1>2. /\ x1.op \in DmaOpcodes /\ x2.op \in DmaOpcodes /\ x3.op \in DmaOpcodes /\ x4.op \in DmaOpcodes
      /\ x11.op \in DmaOpcodes /\ x12.op \in DmaOpcodes
      /\ x6.op \in TensorOps /\ x7.op \in TensorOps /\ x8.op \in TensorOps /\ x9.op \in TensorOps
  BY BuildersAre DEF Tile_
<1>3. /\ ~Conflict(x6, x7) /\ ~Conflict(x6, x8) /\ ~Conflict(x6, x9)
      /\ ~Conflict(x7, x8) /\ ~Conflict(x7, x9) /\ ~Conflict(x8, x9)
  <2>1. options = {}
    OBVIOUS
  <2> HIDE DEF options
  <2> QED BY <2>1, CoresApart
<1>4. /\ WaitsFor(x2, x1) /\ WaitsFor(x3, x2) /\ WaitsFor(x4, x3) /\ WaitsFor(x5, x4) /\ WaitsFor(x10, x6)
      /\ WaitsFor(x10, x7) /\ WaitsFor(x10, x8) /\ WaitsFor(x10, x9) /\ WaitsFor(x12, x11) /\ WaitsFor(x13, x12)
      /\ ~Async(x5) /\ ~Async(x10) /\ ~Async(x13) /\ ~Async(x14)
  BY <1>2, WaitsAre
<1> HIDE DEF x1, x2, x3, x4, x5, x6, x7, x8, x9, x10, x11, x12, x13, x14
<1>5. /\ c \in Seq({x1, x2, x3, x4, x5, x6, x7, x8, x9, x10, x11, x12, x13, x14}) /\ Len(c) = 14
      /\ c[1] = x1 /\ c[2] = x2 /\ c[3] = x3 /\ c[4] = x4 /\ c[5] = x5 /\ c[6] = x6 /\ c[7] = x7
      /\ c[8] = x8 /\ c[9] = x9 /\ c[10] = x10 /\ c[11] = x11 /\ c[12] = x12 /\ c[13] = x13 /\ c[14] = x14
      /\ \A p \in 1 .. 14 : \/ p = 1 \/ p = 2 \/ p = 3 \/ p = 4 \/ p = 5 \/ p = 6 \/ p = 7 \/ p = 8 \/ p = 9
                            \/ p = 10 \/ p = 11 \/ p = 12 \/ p = 13 \/ p = 14
  OBVIOUS
<1> HIDE DEF c
<1>6. IsSeq(c)
  BY <1>5 DEF IsSeq
<1>7. Safe(c, 1) /\ Safe(c, 2) /\ Safe(c, 3) /\ Safe(c, 4) /\ Safe(c, 9) /\ Safe(c, 11) /\ Safe(c, 12)
  <2>1. Safe(c, 1) /\ Safe(c, 2) /\ Safe(c, 3) /\ Safe(c, 4)
    BY <1>4, <1>5, NextIsSafe
  <2>2. Safe(c, 9)
    BY <1>4, <1>5, NextIsSafe
  <2>3. Safe(c, 11)
    BY <1>4, <1>5, NextIsSafe
  <2>4. Safe(c, 12)
    BY <1>4, <1>5, NextIsSafe
  <2> QED BY <2>1, <2>2, <2>3, <2>4
<1>8. Safe(c, 8)
  BY <1>3, <1>4, <1>5, SecondIsSafe
<1>9. Safe(c, 6) /\ Safe(c, 7)
  <2>1. 10 \in 6 + 1 .. Len(c) /\ \A q \in 6 + 1 .. 10 - 1 : q = 7 \/ q = 8 \/ q = 9
    BY <1>5
  <2>2. 10 \in 7 + 1 .. Len(c) /\ \A q \in 7 + 1 .. 10 - 1 : q = 8 \/ q = 9
    BY <1>5
  <2>3. Safe(c, 6)
    BY <1>3, <1>4, <1>5, <2>1 DEF Safe
  <2>4. Safe(c, 7)
    BY <1>3, <1>4, <1>5, <2>2 DEF Safe
  <2> QED BY <2>3, <2>4
<1>10. \A p \in 1 .. Len(c) : Async(c[p]) => Safe(c, p)
  BY <1>4, <1>5, <1>7, <1>8, <1>9
<1> QED BY <1>1, <1>6, <1>10, SafeIsClean

\* What becomes of the instructions of the tiled program
LEMMA Retargeted ==
  /\ \A i : i.op # MATMUL => ForAllMxus(i) = i
  /\ \A L, options : ForAllMxus(Tile_(L, TC0, options)) = Tile_(L, TC0AllMxus, options)
  /\ \A i : i.op \in DmaOpcodes \cup {CLEAR, BARRIER, HALT} => i.op # MATMUL
<1>1. \A i : i.op # MATMUL => ForAllMxus(i) = i
  BY DEF ForAllMxus
<1>2. \A L, options : ForAllMxus(Tile_(L, TC0, options)) = Tile_(L, TC0AllMxus, options)
  <2>1. \A f, x, y, d, a, b, m, n, k :
          [Instr(MATMUL, f, x, d, a, b, m, n, k) EXCEPT !.target = y] = Instr(MATMUL, f, y, d, a, b, m, n, k)
    BY DEF Instr
  <2>2. \A f, x, d, a, b, m, n, k : Instr(MATMUL, f, x, d, a, b, m, n, k).op = MATMUL
    BY DEF Instr
  <2>3. \A f, d, a, b, m, n, k :
          ForAllMxus(Instr(MATMUL, f, TC0, d, a, b, m, n, k)) = Instr(MATMUL, f, TC0AllMxus, d, a, b, m, n, k)
    BY <2>1, <2>2 DEF ForAllMxus
  <2>4. SUFFICES ASSUME NEW L, NEW options PROVE ForAllMxus(Tile_(L, TC0, options)) = Tile_(L, TC0AllMxus, options)
    OBVIOUS
  <2> DEFINE f == Flag(SIGNED, TRUE) + Flag(ACCUMULATE, "accumulate" \in options)
                    + Flag(BF16, "bf16" \in options) + Flag(TRANSPOSE_B, "transpose_b" \in options)
             I(x) == Instr(MATMUL, f, x, L.vmem_c, L.vmem_a, L.vmem_b, L.tile, L.tile, L.tile)
  <2>5. \A x : Tile_(L, x, options) = I(x)
    BY DEF Tile_, matmul
  <2> HIDE DEF f
  <2>6. ForAllMxus(I(TC0)) = I(TC0AllMxus)
    BY <2>3
  <2> HIDE DEF I
  <2> QED BY <2>5, <2>6
<1> QED BY <1>1, <1>2 DEF DmaOpcodes, LOAD_TILE, STORE_TILE, DMA_COPY, MATMUL, CLEAR, BARRIER, HALT

\* Two transfers, a barrier, a command and a barrier
LEMMA FiveClean ==
  ASSUME NEW x1, NEW x2, NEW x4, x1.op \in DmaOpcodes, x2.op \in DmaOpcodes, x4.op \in TensorOps
  PROVE  /\ Clean(<<x1, x2, barrier(DMA), x4, barrier(MXU)>>)
         /\ Len(<<x1, x2, barrier(DMA), x4, barrier(MXU)>>) = 5
<1> DEFINE x3 == barrier(DMA)   x5 == barrier(MXU)   c == <<x1, x2, x3, x4, x5>>
<1>1. WaitsFor(x2, x1) /\ WaitsFor(x3, x2) /\ WaitsFor(x5, x4) /\ ~Async(x3) /\ ~Async(x5)
  BY WaitsAre
<1> HIDE DEF x3, x5
<1>2. /\ c \in Seq({x1, x2, x3, x4, x5}) /\ Len(c) = 5
      /\ c[1] = x1 /\ c[2] = x2 /\ c[3] = x3 /\ c[4] = x4 /\ c[5] = x5
      /\ \A p \in 1 .. 5 : p = 1 \/ p = 2 \/ p = 3 \/ p = 4 \/ p = 5
  OBVIOUS
<1> HIDE DEF c
<1>3. IsSeq(c)
  BY <1>2 DEF IsSeq
<1>4. Safe(c, 1) /\ Safe(c, 2) /\ Safe(c, 4)
  BY <1>1, <1>2, NextIsSafe
<1>5. \A p \in 1 .. Len(c) : Async(c[p]) => Safe(c, p)
  BY <1>1, <1>2, <1>4
<1>6. Clean(c)
  BY <1>3, <1>5, SafeIsClean
<1> QED BY <1>2, <1>6 DEF c, x3, x5

\* The instructions of one step of the tiled program
StepOf(x1, x2, x4) == <<x1, x2, barrier(DMA), x4, barrier(MXU)>>

\* A step is clean for one MXU and for all.
LEMMA StepEither ==
  ASSUME NEW x1, NEW x2, x1.op \in DmaOpcodes, x2.op \in DmaOpcodes, NEW L, NEW options
  PROVE  /\ Good("either", StepOf(x1, x2, Tile_(L, TC0, options)))
         /\ Retarget(StepOf(x1, x2, Tile_(L, TC0, options))) = StepOf(x1, x2, Tile_(L, TC0AllMxus, options))
<1> DEFINE m == Tile_(L, TC0, options)   n == Tile_(L, TC0AllMxus, options)   b == barrier(DMA)   e == barrier(MXU)
           c == <<x1, x2, b, m, e>>   d == <<x1, x2, b, n, e>>
<1>1. m.op \in TensorOps /\ n.op \in TensorOps
  BY BuildersAre DEF Tile_
<1>2. Clean(c) /\ Clean(d)
  BY <1>1, FiveClean
<1>3. ForAllMxus(x1) = x1 /\ ForAllMxus(x2) = x2 /\ ForAllMxus(m) = n
  BY Retargeted
<1>4. ForAllMxus(b) = b /\ ForAllMxus(e) = e
  BY OpsAre, Retargeted
<1> HIDE DEF m, n, b, e
<1>5. DOMAIN c = 1 .. 5 /\ c[1] = x1 /\ c[2] = x2 /\ c[3] = b /\ c[4] = m /\ c[5] = e
  OBVIOUS
<1>6. d = [p \in 1 .. 5 |-> d[p]] /\ d[1] = x1 /\ d[2] = x2 /\ d[3] = b /\ d[4] = n /\ d[5] = e
      /\ \A p \in 1 .. 5 : p = 1 \/ p = 2 \/ p = 3 \/ p = 4 \/ p = 5
  OBVIOUS
<1> HIDE DEF c, d
<1>7. \A p \in 1 .. 5 : d[p] = ForAllMxus(c[p])
  BY <1>3, <1>4, <1>5, <1>6
<1>8. Retarget(c) = d
  BY <1>5, <1>6, <1>7 DEF Retarget
<1> QED BY <1>2, <1>8 DEF Good, StepOf, c, d, m, n, b, e

\* A loop starts with the code of its first iteration.
LEMMA LoopStarts ==
  ASSUME NEW n \in Nat \ {0}, NEW seqs, Len(seqs) = n, \A m \in 1 .. n : IsSeq(seqs[m])
  PROVE  /\ IsSeq(Concat(seqs)) /\ Len(seqs[1]) <= Len(Concat(seqs))
         /\ \A q \in 1 .. Len(seqs[1]) : Concat(seqs)[q] = seqs[1][q]
<1>1. PICK g : IsConcat(g, seqs) /\ Concat(seqs) = g[n]
  BY ConcatIs
<1> DEFINE l == Len(seqs[1])
           S == {m \in Nat : m + 1 <= n => /\ IsSeq(g[m + 1]) /\ l <= Len(g[m + 1])
                                           /\ \A q \in 1 .. l : g[m + 1][q] = seqs[1][q]}
<1>2. \A m \in 0 .. n - 1 : g[m + 1] = g[m] \o seqs[m + 1]
  BY <1>1 DEF IsConcat
<1>3. IsSeq(seqs[1]) /\ l \in Nat
  BY HasLen
<1>4. 0 \in S
  <2>1. IsSeq(<<>>) /\ Len(<<>>) = 0
    <3>1. <<>> \in Seq({})
      OBVIOUS
    <3> QED BY <3>1 DEF IsSeq
  <2>2. g[0] = <<>>
    BY <1>1 DEF IsConcat
  <2>3. g[1] = <<>> \o seqs[1]
    <3>1. 0 \in 0 .. n - 1 /\ 0 + 1 = 1
      OBVIOUS
    <3>2. g[0 + 1] = g[0] \o seqs[0 + 1]
      BY <1>2, <3>1, Zenon
    <3> QED BY <2>2, <3>1, <3>2
  <2> DEFINE z == <<>>
  <2> HIDE DEF z
  <2>4. IsSeq(z \o seqs[1]) /\ Len(z \o seqs[1]) = 0 + l /\ \A q \in 1 .. 0 + l : (z \o seqs[1])[q] = seqs[1][q - 0]
    BY <1>3, <2>1, Joined DEF z
  <2>5. IsSeq(g[1]) /\ l <= Len(g[1]) /\ \A q \in 1 .. l : g[1][q] = seqs[1][q]
    BY <1>3, <2>3, <2>4 DEF z
  <2> QED BY <2>5
<1>5. ASSUME NEW m \in Nat, m \in S PROVE m + 1 \in S
  <2>1. SUFFICES ASSUME m + 1 + 1 <= n
                 PROVE  /\ IsSeq(g[m + 1 + 1]) /\ l <= Len(g[m + 1 + 1])
                        /\ \A q \in 1 .. l : g[m + 1 + 1][q] = seqs[1][q]
    OBVIOUS
  <2> DEFINE c == g[m + 1]   d == seqs[m + 1 + 1]
  <2>2. g[m + 1 + 1] = c \o d
    <3>1. m + 1 \in 0 .. n - 1
      BY <2>1
    <3> QED BY <1>2, <3>1, Zenon
  <2>3. IsSeq(c) /\ l <= Len(c) /\ (\A q \in 1 .. l : c[q] = seqs[1][q]) /\ IsSeq(d)
    BY <1>5, <2>1
  <2> HIDE DEF c, d
  <2>4. /\ IsSeq(c \o d) /\ Len(c \o d) = Len(c) + Len(d) /\ Len(c) \in Nat /\ Len(d) \in Nat
        /\ \A q \in 1 .. Len(c) + Len(d) : (c \o d)[q] = IF q <= Len(c) THEN c[q] ELSE d[q - Len(c)]
    BY <2>3, Joined, HasLen
  <2>5. \A q \in 1 .. l : q \in 1 .. Len(c) + Len(d) /\ q <= Len(c)
    BY <1>3, <2>3, <2>4
  <2> QED BY <1>3, <2>2, <2>3, <2>4, <2>5
<1> HIDE DEF S
<1>6. n - 1 \in S
  BY <1>4, <1>5, Counting
<1> QED BY <1>1, <1>6 DEF S

\* A CLEAR and a transfer from HBM to other bytes
LEMMA ClearThenLoad ==
  ASSUME NEW y \in Nat, NEW n \in Nat, NEW a \in Nat, NEW h \in Nat, NEW s \in Nat, Apart(a, s, y, n)
  PROVE  ~Conflict(clear(V0(y), n), dma_copy(V0(a), H(h), s))
<1> DEFINE i == clear(V0(y), n)   k == dma_copy(V0(a), H(h), s)
<1>1. i.op = CLEAR /\ Reads(i) = {} /\ Writes(i) = {Span(VMEM0, y, n, 1)}
  BY ClearIs DEF V0
<1>2. Reads(k) = {Span(HBM, h, s, 1)} /\ Writes(k) = {Span(VMEM0, a, s, 1)}
  BY DmaIs DEF V0, H
<1>3. HBM # VMEM0
  BY DEF HBM, VMEM0
<1> HIDE DEF i, k
<1>4. ~Overlap(Writes(i), Reads(k))
  BY <1>1, <1>2, <1>3 DEF Overlap, Span
<1>5. ~Overlap(Writes(k), Reads(i))
  BY <1>1 DEF Overlap
<1>6. ~Overlap(Writes(i), Writes(k))
  BY <1>1, <1>2 DEF Overlap, Span, Apart
<1>7. ~Conflict(i, k)
  BY <1>4, <1>5, <1>6 DEF Conflict
<1> QED BY <1>7 DEF i, k

\* A barrier touches no memory.
LEMMA BarrierTouchesNothing ==
  ASSUME NEW i, NEW mask
  PROVE  ~Conflict(i, barrier(mask))
<1> DEFINE k == barrier(mask)
<1>1. k.op \notin DmaOpcodes \cup {MATMUL, VECTOR_OP, REDUCE, CLEAR}
  BY OpsAre DEF DmaOpcodes, LOAD_TILE, STORE_TILE, DMA_COPY, MATMUL, CLEAR, VECTOR_OP, REDUCE, BARRIER
<1> HIDE DEF k
<1>2. Reads(k) = {}
  BY <1>1 DEF Reads
<1>3. Writes(k) = {}
  BY <1>1 DEF Writes
<1> QED BY <1>2, <1>3 DEF Conflict, Overlap, k

\* The layout of a tiled product: the operands' tiles end before the result's.
TiledFits(L) ==
  /\ Fits(L) /\ L.tile # 0 /\ L.tile_bytes = L.tile * L.tile
  /\ L.hbm_a \in Nat /\ L.hbm_b \in Nat
  /\ L.m \in Nat /\ L.n \in Nat /\ L.k \in Nat /\ L.tile <= L.k

\* The CLEAR of a result, which the barrier of the first step waits for
LEMMA ClearedFirst ==
  ASSUME NEW L, TiledFits(L), NEW ha \in Nat, NEW hb \in Nat, NEW target, Vmems(target) = {VMEM0},
         NEW options, options = {}, NEW s, Clean(s), 5 <= Len(s),
         s[1] = dma_copy(V0(L.vmem_a), H(ha), L.tile_bytes),
         s[2] = dma_copy(V0(L.vmem_b), H(hb), L.tile_bytes),
         s[3] = barrier(DMA), s[4] = Tile_(L, target, options), s[5] = barrier(MXU)
  PROVE  Clean(<<clear(V0(L.vmem_c), L.result_bytes)>> \o s)
<1> DEFINE x == clear(V0(L.vmem_c), L.result_bytes)
<1>1. ~Conflict(x, s[1]) /\ ~Conflict(x, s[2])
  <2>1. L.tile \in Nat /\ L.tile_bytes = L.tile * L.tile
    BY DEF TiledFits, Fits
  <2>2. L.tile_bytes \in Nat
    BY <2>1
  <2>3. /\ L.vmem_c \in Nat /\ L.result_bytes \in Nat /\ L.vmem_a \in Nat /\ L.vmem_b \in Nat
        /\ Apart(L.vmem_a, L.tile_bytes, L.vmem_c, L.result_bytes)
        /\ Apart(L.vmem_b, L.tile_bytes, L.vmem_c, L.result_bytes)
    BY <2>1 DEF TiledFits, Fits
  <2> DEFINE y == L.vmem_c   n == L.result_bytes   a == L.vmem_a   b == L.vmem_b   z == L.tile_bytes
  <2>4. y \in Nat /\ n \in Nat /\ a \in Nat /\ b \in Nat /\ z \in Nat /\ Apart(a, z, y, n) /\ Apart(b, z, y, n)
    BY <2>2, <2>3
  <2> HIDE DEF y, n, a, b, z, x
  <2>5. ~Conflict(clear(V0(y), n), dma_copy(V0(a), H(ha), z)) /\ ~Conflict(clear(V0(y), n), dma_copy(V0(b), H(hb), z))
    BY <2>4, ClearThenLoad
  <2> QED BY <2>5 DEF x, y, n, a, b, z
<1>2. ~Conflict(x, s[3])
  BY BarrierTouchesNothing
<1>3. ~Conflict(x, s[4])
  BY TileOverClear DEF V0, TiledFits
<1>4. WaitsFor(s[5], x)
  BY BuildersAre, WaitsAre
<1> HIDE DEF x
<1>5. Len(s) \in Nat
  BY HasLen DEF Clean
<1>6. 5 \in 1 .. Len(s) /\ \A q \in 1 .. 5 - 1 : q = 1 \/ q = 2 \/ q = 3 \/ q = 4
  BY <1>5
<1>7. \A q \in 1 .. 5 - 1 : ~Conflict(x, s[q])
  BY <1>1, <1>2, <1>3, <1>6
<1>8. Clean(<<x>> \o s)
  BY <1>4, <1>6, <1>7, CommandFirst
<1> QED BY <1>8 DEF x

\* An instruction that is no MATMUL stays.
LEMMA OneStays ==
  ASSUME NEW x, x.op # MATMUL
  PROVE  IsSeq(<<x>>) /\ Retarget(<<x>>) = <<x>>
<1>1. <<x>> \in Seq({x}) /\ DOMAIN <<x>> = 1 .. 1 /\ <<x>>[1] = x /\ <<x>> = [p \in 1 .. 1 |-> <<x>>[p]]
      /\ \A p \in 1 .. 1 : p = 1
  OBVIOUS
<1> DEFINE c == <<x>>
<1> HIDE DEF c
<1>2. c \in Seq({x}) /\ DOMAIN c = 1 .. 1 /\ c[1] = x /\ c = [p \in 1 .. 1 |-> c[p]]
  BY <1>1 DEF c
<1>3. \A p \in 1 .. 1 : ForAllMxus(c[p]) = c[p]
  BY <1>1, <1>2, Retargeted
<1>4. Retarget(c) = c
  BY <1>2, <1>3 DEF Retarget
<1> QED BY <1>2, <1>4 DEF c, IsSeq

\* One output tile of the tiled program
LEMMA OutputEither ==
  ASSUME NEW L, TiledFits(L), NEW ha \in Nat, NEW hb \in Nat, NEW options, options = {}, NEW n \in Nat \ {0},
         NEW seqs, Len(seqs) = n, \A m \in 1 .. n : Good("either", seqs[m]),
         seqs[1] = StepOf(dma_copy(V0(L.vmem_a), H(ha), L.tile_bytes),
                          dma_copy(V0(L.vmem_b), H(hb), L.tile_bytes), Tile_(L, TC0, options)),
         NEW tail, Good("either", tail)
  PROVE  Good("either", <<clear(V0(L.vmem_c), L.result_bytes)>> \o Concat(seqs) \o tail)
<1> DEFINE x == clear(V0(L.vmem_c), L.result_bytes)   s == Concat(seqs)   t == Retarget(s)   f == seqs[1]
           x1 == dma_copy(V0(L.vmem_a), H(ha), L.tile_bytes)
           x2 == dma_copy(V0(L.vmem_b), H(hb), L.tile_bytes)
           x4 == Tile_(L, TC0, options)   y4 == Tile_(L, TC0AllMxus, options)   b == barrier(DMA)   e == barrier(MXU)
<1>1. Clean(s) /\ Clean(t)
  <2>1. Good("either", s)
    BY GoodConcat DEF Kinds
  <2> QED BY <2>1 DEF Good
<1>2. \A m \in 1 .. n : IsSeq(seqs[m])
  BY DEF Good, Clean
<1>3. IsSeq(s) /\ Len(f) <= Len(s) /\ \A q \in 1 .. Len(f) : s[q] = f[q]
  BY <1>2, LoopStarts
<1>4. Retarget(f) = StepOf(x1, x2, y4)
  <2>1. x1.op \in DmaOpcodes /\ x2.op \in DmaOpcodes
    BY BuildersAre
  <2> QED BY <2>1, StepEither
<1>5. IsSeq(f) /\ \A q \in 1 .. Len(f) : Retarget(f)[q] = ForAllMxus(f[q])
  BY <1>2, RetargetIs
<1>6. Len(t) = Len(s) /\ \A q \in 1 .. Len(s) : t[q] = ForAllMxus(s[q])
  BY <1>3, RetargetIs
<1>7. f = StepOf(x1, x2, x4)
  OBVIOUS
<1> HIDE DEF s, t, f, x1, x2, x4, y4
<1>8. Len(f) = 5 /\ f[1] = x1 /\ f[2] = x2 /\ f[3] = b /\ f[4] = x4 /\ f[5] = e
  BY <1>7 DEF StepOf
<1>9. /\ Retarget(f)[1] = x1 /\ Retarget(f)[2] = x2 /\ Retarget(f)[3] = b /\ Retarget(f)[4] = y4
      /\ Retarget(f)[5] = e
  BY <1>4 DEF StepOf
<1> HIDE DEF b, e
<1>10. Len(s) \in Nat /\ 5 <= Len(s) /\ \A q \in 1 .. 5 : q \in 1 .. Len(s)
  BY <1>3, <1>8, HasLen
<1>11. s[1] = x1 /\ s[2] = x2 /\ s[3] = b /\ s[4] = x4 /\ s[5] = e
  BY <1>3, <1>8
<1>12. t[1] = x1 /\ t[2] = x2 /\ t[3] = b /\ t[4] = y4 /\ t[5] = e
  <2>1. \A q \in 1 .. 5 : t[q] = Retarget(f)[q]
    BY <1>3, <1>5, <1>6, <1>8, <1>10
  <2> QED BY <1>9, <2>1
<1>13. Clean(<<x>> \o s)
  BY <1>1, <1>10, <1>11, ClearedFirst, TargetsAre DEF x1, x2, x4, b, e
<1>14. Clean(<<x>> \o t)
  <2>1. 5 <= Len(t) /\ Vmems(TC0AllMxus) = {VMEM0}
    BY <1>6, <1>10, TargetsAre
  <2>2. /\ t[1] = dma_copy(V0(L.vmem_a), H(ha), L.tile_bytes) /\ t[2] = dma_copy(V0(L.vmem_b), H(hb), L.tile_bytes)
        /\ t[3] = barrier(DMA) /\ t[4] = Tile_(L, TC0AllMxus, options) /\ t[5] = barrier(MXU)
    BY <1>12 DEF x1, x2, y4, b, e
  <2> QED BY <1>1, <2>1, <2>2, ClearedFirst
<1>15. IsSeq(<<x>>) /\ Retarget(<<x>>) = <<x>>
  <2>1. x.op # MATMUL
    BY OpsAre, Retargeted
  <2> HIDE DEF x
  <2> QED BY <2>1, OneStays
<1> DEFINE o == <<x>>
<1> HIDE DEF x, o
<1>16. Retarget(o \o s) = o \o t
  BY <1>3, <1>15, RetargetJoined DEF t, o
<1>17. Good("either", o \o s)
  BY <1>13, <1>14, <1>16 DEF Good, o
<1>18. Good("either", o \o s \o tail)
  BY <1>17, GoodJoined DEF Kinds
<1> QED BY <1>18 DEF o, x, s

\* Where a packed tile is
LEMMA PackedIs ==
  ASSUME NEW row \in Nat, NEW col \in Nat, NEW per_row \in Nat, NEW bytes \in Nat, NEW base \in Nat
  PROVE  packed_tile_offset(row, col, per_row, bytes, base) \in Nat
<1>1. row * per_row \in Nat
  OBVIOUS
<1>2. row * per_row + col \in Nat
  BY <1>1
<1>3. (row * per_row + col) * bytes \in Nat
  BY <1>2
<1> QED BY <1>3 DEF packed_tile_offset

\* The end of an output tile
LEMMA StoreEither ==
  ASSUME NEW x, x.op \in DmaOpcodes
  PROVE  Good("either", <<x, barrier(DMA)>>)
<1> DEFINE b == barrier(DMA)   c == <<x, b>>
<1>1. WaitsFor(b, x) /\ ~Async(b)
  BY WaitsAre
<1>2. ForAllMxus(x) = x /\ ForAllMxus(b) = b
  BY OpsAre, Retargeted
<1> HIDE DEF b
<1>3. /\ c \in Seq({x, b}) /\ Len(c) = 2 /\ DOMAIN c = 1 .. 2 /\ c[1] = x /\ c[2] = b
      /\ c = [p \in 1 .. 2 |-> c[p]] /\ \A p \in 1 .. 2 : p = 1 \/ p = 2
  OBVIOUS
<1> HIDE DEF c
<1>4. Safe(c, 1)
  BY <1>1, <1>3, NextIsSafe
<1>5. IsSeq(c) /\ \A p \in 1 .. Len(c) : Async(c[p]) => Safe(c, p)
  BY <1>1, <1>3, <1>4 DEF IsSeq
<1>6. Clean(c)
  BY <1>5, SafeIsClean
<1>7. \A p \in 1 .. 2 : ForAllMxus(c[p]) = c[p]
  BY <1>2, <1>3
<1>8. Retarget(c) = c
  BY <1>3, <1>7 DEF Retarget
<1> QED BY <1>6, <1>8 DEF Good, c, b

\* The end of the program
LEMMA HaltEither == Good("either", <<halt>>)
<1> DEFINE c == <<halt>>
<1>1. IsSeq(c) /\ Retarget(c) = c
  BY OpsAre, Retargeted, OneStays
<1>2. Len(c) = 1 /\ c[1] = halt /\ \A p \in 1 .. 1 : p = 1
  OBVIOUS
<1>3. ~Async(halt)
  BY WaitsAre
<1> HIDE DEF c
<1>4. Clean(c)
  BY <1>1, <1>2, <1>3, SafeIsClean
<1> QED BY <1>1, <1>4 DEF Good, c

\* matmul_tiled_packed_program and multi_mxu_tiled_matmul_program, for every shape
LEMMA TiledClean ==
  ASSUME NEW L, TiledFits(L)
  PROVE  Clean(matmul_tiled_packed_program(L)) /\ Clean(multi_mxu_tiled_matmul_program(L))
<1> DEFINE mt == L.m \div L.tile   nt == L.n \div L.tile   kt == L.k \div L.tile
           O(ki) == IF ki # 0 THEN {"accumulate"} ELSE {}
           HA(mi, ki) == packed_tile_offset(mi, ki, kt, L.tile_bytes, L.hbm_a)
           HB(ki, ni) == packed_tile_offset(ki, ni, nt, L.tile_bytes, L.hbm_b)
           LoadA(mi, ki) == dma_copy(V0(L.vmem_a), H(HA(mi, ki)), L.tile_bytes)
           LoadB(ki, ni) == dma_copy(V0(L.vmem_b), H(HB(ki, ni)), L.tile_bytes)
           one(mi, ni, ki) == StepOf(LoadA(mi, ki), LoadB(ki, ni), Tile_(L, TC0, O(ki)))
           ones(mi, ni) == [i \in 1 .. kt |-> one(mi, ni, i - 1)]
           store(mi, ni) == dma_copy(H(packed_tile_offset(mi, ni, nt, L.result_bytes, L.hbm_c)),
                                     V0(L.vmem_c), L.result_bytes)
           output(mi, ni) == <<clear(V0(L.vmem_c), L.result_bytes)>> \o Concat(ones(mi, ni))
                             \o <<store(mi, ni), barrier(DMA)>>
           row(mi) == [i \in 1 .. nt |-> output(mi, i - 1)]
           all == [i \in 1 .. mt |-> Concat(row(i - 1))]
           program == Concat(all) \o <<halt>>
<1>1. matmul_tiled_packed_program(L) = program
  BY DEF matmul_tiled_packed_program, Loop, StepOf
<1>2. mt \in Nat /\ nt \in Nat /\ kt \in Nat \ {0}
  <2>1. L.tile \in Nat \ {0} /\ L.m \in Nat /\ L.n \in Nat /\ L.k \in Nat /\ L.tile <= L.k
    BY DEF TiledFits, Fits
  <2>2. \A x \in Nat, t \in Nat \ {0} : x \div t \in Nat /\ (t <= x => x \div t # 0)
    OBVIOUS
  <2> QED BY <2>1, <2>2
<1>3. L.tile_bytes \in Nat /\ L.hbm_a \in Nat /\ L.hbm_b \in Nat
  <2>1. L.tile \in Nat /\ L.tile_bytes = L.tile * L.tile /\ L.hbm_a \in Nat /\ L.hbm_b \in Nat
    BY DEF TiledFits, Fits
  <2> QED BY <2>1
<1> HIDE DEF mt, nt, kt
<1>4. ASSUME NEW mi \in Nat, NEW ni \in Nat PROVE Good("either", output(mi, ni))
  <2> DEFINE seqs == ones(mi, ni)   options == O(0)   ha == HA(mi, 0)   hb == HB(0, ni)
             tail == <<store(mi, ni), barrier(DMA)>>
  <2>1. Len(seqs) = kt /\ seqs[1] = one(mi, ni, 0) /\ \A m \in 1 .. kt : seqs[m] = one(mi, ni, m - 1)
    <3> HIDE DEF one
    <3> QED BY <1>2
  <2>2. \A m \in 1 .. kt : Good("either", seqs[m])
    <3>1. \A ki : LoadA(mi, ki).op \in DmaOpcodes /\ LoadB(ki, ni).op \in DmaOpcodes
      BY BuildersAre
    <3> HIDE DEF LoadA, LoadB, O
    <3>2. \A ki : Good("either", one(mi, ni, ki))
      BY <3>1, StepEither
    <3> HIDE DEF ones, one
    <3> QED BY <2>1, <3>2
  <2>3. ha \in Nat /\ hb \in Nat /\ options = {}
    BY <1>2, <1>3, PackedIs
  <2>4. Good("either", tail)
    <3>1. store(mi, ni).op \in DmaOpcodes
      BY BuildersAre
    <3> HIDE DEF store
    <3> QED BY <3>1, StoreEither
  <2>5. seqs[1] = StepOf(dma_copy(V0(L.vmem_a), H(ha), L.tile_bytes),
                         dma_copy(V0(L.vmem_b), H(hb), L.tile_bytes), Tile_(L, TC0, options))
    <3> HIDE DEF seqs, ha, hb, options
    <3> QED BY <2>1 DEF ha, hb, options
  <2> HIDE DEF seqs, ha, hb, options, tail
  <2>6. Good("either", <<clear(V0(L.vmem_c), L.result_bytes)>> \o Concat(seqs) \o tail)
    BY <1>2, <2>1, <2>2, <2>3, <2>4, <2>5, OutputEither
  <2> QED BY <2>6 DEF seqs, tail
<1> HIDE DEF output
<1>5. ASSUME NEW mi \in Nat PROVE Good("either", Concat(row(mi)))
  <2> DEFINE seqs == row(mi)
  <2>1. Len(seqs) = nt /\ \A m \in 1 .. nt : seqs[m] = output(mi, m - 1) /\ m - 1 \in Nat
    BY <1>2
  <2> HIDE DEF seqs
  <2>2. \A m \in 1 .. nt : Good("either", seqs[m])
    BY <1>4, <2>1
  <2>3. Good("either", Concat(seqs))
    BY <1>2, <2>1, <2>2, GoodConcat DEF Kinds
  <2> QED BY <2>3 DEF seqs
<1> HIDE DEF row
<1>6. Good("either", Concat(all))
  <2>1. Len(all) = mt /\ \A m \in 1 .. mt : all[m] = Concat(row(m - 1)) /\ m - 1 \in Nat
    BY <1>2
  <2> HIDE DEF all
  <2>2. \A m \in 1 .. mt : Good("either", all[m])
    BY <1>5, <2>1
  <2> QED BY <1>2, <2>1, <2>2, GoodConcat DEF Kinds
<1> HIDE DEF all
<1>7. Good("either", program)
  BY <1>6, HaltEither, GoodJoined DEF Kinds
<1> HIDE DEF program
<1>8. multi_mxu_tiled_matmul_program(L) = Retarget(program)
  BY <1>1 DEF multi_mxu_tiled_matmul_program, Retarget, ForAllMxus
<1> QED BY <1>1, <1>7, <1>8 DEF Good

-----------------------------------------------------------------------------
(* No program of the builders has two conflicting commands in flight       *)

\* A job whose program is clean runs without a conflict.
LEMMA CleanIsSafe ==
  ASSUME NEW j
  PROVE  RunSpec(j) /\ Clean(j.code) => []NoConflictInFlight
<1>1. Clean(j.code) => Len(j.code) \in Nat /\ Fenced(j.code)
  BY HasLen DEF Clean
<1>2. RunSpec(j) /\ Len(j.code) \in Nat /\ Fenced(j.code) => []NoConflictInFlight
  BY FencedIsEnough
<1> QED BY <1>1, <1>2, PTL

\* programs.py: every program, in every layout whose operands end before or start
\* after the result and for every shape of a tiled product, keeps conflicting
\* commands apart.  A CLEAR and the MATMUL behind it, which follow each other without a
\* barrier in six places, are no conflict by the definition of Conflict.
THEOREM ProgramsSafe ==
  ASSUME NEW j, NEW L,
         \/ Fits(L) /\ j.code \in {matmul_16_program(L), cmem_staged_matmul_16_program(L),
                                   split_output_two_tc_matmul_program(L)}
         \/ TiledFits(L) /\ j.code \in {matmul_tiled_packed_program(L), multi_mxu_tiled_matmul_program(L)}
         \/ \E a : j.code = matmul_128_program(a)
         \/ \E t \in 0 .. 11 : j.code = split_matmul_8_program(t)
         \/ \E t \in 0 .. 16 : j.code = mlp_single_tile_program(t)
  PROVE  RunSpec(j) => []NoConflictInFlight
<1>1. \A t \in 0 .. 11 : t * t <= 121
  OBVIOUS
<1>2. \A t \in 0 .. 16 : t * t <= 256
  OBVIOUS
<1>3. Start(j) => Clean(j.code)
  <2>1. CASE Fits(L) /\ j.code \in {matmul_16_program(L), cmem_staged_matmul_16_program(L),
                                    split_output_two_tc_matmul_program(L)}
    BY <2>1, Matmul16Clean, CmemStagedClean, SplitOutputClean
  <2>2. CASE TiledFits(L) /\ j.code \in {matmul_tiled_packed_program(L), multi_mxu_tiled_matmul_program(L)}
    BY <2>2, TiledClean
  <2>3. CASE \E a : j.code = matmul_128_program(a)
    BY <2>3, Matmul128Clean
  <2>4. CASE \E t \in 0 .. 11 : j.code = split_matmul_8_program(t)
    <3>1. PICK t \in 0 .. 11 : j.code = split_matmul_8_program(t)
      BY <2>4
    <3>2. t \in Nat /\ 4 * t * t <= 512
      BY <1>1
    <3> QED BY <3>1, <3>2, Split8Clean
  <2>5. CASE \E t \in 0 .. 16 : j.code = mlp_single_tile_program(t)
    <3>1. PICK t \in 0 .. 16 : j.code = mlp_single_tile_program(t)
      BY <2>5
    <3>2. t \in Nat /\ t * t <= 256
      BY <1>2
    <3> QED BY <3>1, <3>2, MlpTileClean
  <2> QED BY <2>1, <2>2, <2>3, <2>4, <2>5
<1>4. RunSpec(j) /\ Clean(j.code) => []NoConflictInFlight
  BY CleanIsSafe
<1> QED BY <1>3, <1>4, PTL DEF RunSpec

\* kernels.py: with the barrier of _sync_kernel behind every instruction no kernel,
\* whatever its layout, has a conflict in flight.
THEOREM KernelsSafe ==
  ASSUME NEW j, NEW L, NEW kernel,
         \/ kernel \in {rmsnorm_program(L), softmax_program(L), rope_program(L), swiglu_program(L),
                        attention_head_program(L), l2norm_program(L), gated_deltanet_step_program(L)}
         \/ kernel = conv1d_causal_program(L) /\ Len(L.taps_x) \in Nat \ {0},
         j.code = sync_kernel(kernel) \o <<halt>>
  PROVE  RunSpec(j) => []NoConflictInFlight
<1>1. KernelCode(kernel)
  BY KernelsAre, ConvIs
<1>2. Start(j) => Clean(j.code)
  BY <1>1, KernelClean
<1>3. RunSpec(j) /\ Clean(j.code) => []NoConflictInFlight
  BY CleanIsSafe
<1> QED BY <1>2, <1>3, PTL DEF RunSpec

\* rtl_artifacts.py: no artifact, for any dimensions of the model and any tile,
\* has a conflict in flight; the token stream needs the one array of
\* FAST_BF16_MXU, which it is built for.
THEOREM ArtifactsSafe ==
  ASSUME NEW j,
         \/ \E k, n : j.code = swiglu_workload(k, n)
         \/ \E cfg, token, t : /\ Dimensions(cfg) /\ t \in Nat \ {0}
                               /\ j.code = Build(tiny_full_token_items(cfg, token, t)).code
         \/ \E hidden, n : Len(hidden) \in Nat /\ n \in Nat /\ j.code = Build(real_lm_head_items(hidden, n)).code
         \/ \E x, mid, out_dim, t : /\ Len(x) \in Nat /\ mid \in Nat /\ out_dim \in Nat /\ t \in Nat \ {0}
                                    /\ j.code = Build(real_mlp_items(x, mid, out_dim, t)).code
         \/ \E cfg, t : /\ Dimensions(cfg) /\ t \in Nat \ {0} /\ j.bf16 # "arrays"
                        /\ j.code = token_stream(cfg, t)
  PROVE  RunSpec(j) => []NoConflictInFlight
<1>1. Start(j) => Clean(j.code)
  <2>1. CASE \E k, n : j.code = swiglu_workload(k, n)
    BY <2>1, SwigluClean
  <2>2. CASE \E cfg, token, t : /\ Dimensions(cfg) /\ t \in Nat \ {0}
                                /\ j.code = Build(tiny_full_token_items(cfg, token, t)).code
    BY <2>2, TokenClean
  <2>3. CASE \E hidden, n : Len(hidden) \in Nat /\ n \in Nat /\ j.code = Build(real_lm_head_items(hidden, n)).code
    BY <2>3, RealLmHeadClean
  <2>4. CASE \E x, mid, out_dim, t : /\ Len(x) \in Nat /\ mid \in Nat /\ out_dim \in Nat /\ t \in Nat \ {0}
                                     /\ j.code = Build(real_mlp_items(x, mid, out_dim, t)).code
    BY <2>4, RealMlpClean
  <2>5. CASE \E cfg, t : /\ Dimensions(cfg) /\ t \in Nat \ {0} /\ j.bf16 # "arrays"
                         /\ j.code = token_stream(cfg, t)
    BY <2>5, StreamClean DEF Start
  <2> QED BY <2>1, <2>2, <2>3, <2>4, <2>5
<1>2. RunSpec(j) /\ Clean(j.code) => []NoConflictInFlight
  BY CleanIsSafe
<1> QED BY <1>1, <1>2, PTL DEF RunSpec
=============================================================================
