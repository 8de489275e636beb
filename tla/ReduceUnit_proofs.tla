-------------------------- MODULE ReduceUnit_proofs --------------------------
(***************************************************************************)
(* Proofs about ReduceUnit, for any memory, any width of a word, any       *)
(* commands, any circuits and any writes of the other ports: an accepted   *)
(* reduction never faults and leaves in every group's word what the golden *)
(* model's recursion over the group computes.                              *)
(***************************************************************************)
EXTENDS ReduceUnit, TLAPS, WellFoundedInduction

USE ClientAssumption

-----------------------------------------------------------------------------
(* Numbers                                                                 *)

\* A nonempty set of naturals has a least element.
LEMMA LeastElement ==
  ASSUME NEW S, S \subseteq Nat, S # {}
  PROVE  \E x \in S : \A y \in S : x <= y
<1>1. PICK x \in S : \A y \in S : ~(<<y, x>> \in OpToRel(<, Nat))
  BY NatLessThanWellFounded, WFMin
<1>2. \A y \in S : ~(y < x)
  BY <1>1, S \subseteq Nat DEF OpToRel
<1>3. x \in Nat /\ \A y \in S : y \in Nat
  BY S \subseteq Nat
<1> QED BY <1>2, <1>3

LEMMA Division ==
  ASSUME NEW M \in Nat \ {0}, NEW x \in Int
  PROVE  x \div M \in Int /\ x % M \in 0 .. M - 1 /\ x = M * (x \div M) + (x % M)
OBVIOUS

\* The remainder is the one number of its range that differs by a multiple.
LEMMA Remainder ==
  ASSUME NEW M \in Nat \ {0}, NEW q \in Int, NEW r \in 0 .. M - 1
  PROVE  (M * q + r) % M = r /\ (M * q + r) \div M = q
<1> DEFINE x == M * q + r
<1>1. x \in Int
  OBVIOUS
<1>2. PICK p \in Int, s \in 0 .. M - 1 : x = M * p + s /\ p = x \div M /\ s = x % M
  <2>1. x \div M \in Int /\ x % M \in 0 .. M - 1 /\ x = M * (x \div M) + (x % M)
    BY <1>1, Division
  <2> QED BY <2>1
<1> HIDE DEF x
<1>3. M * (q - p) = s - r
  BY <1>2 DEF x
<1>4. ~(q - p >= 1)
  <2> SUFFICES ASSUME q - p >= 1 PROVE FALSE
    OBVIOUS
  <2>1. M * (q - p) >= M * 1
    BY <1>2
  <2> QED BY <1>2, <1>3, <2>1
<1>5. ~(q - p <= -1)
  <2> SUFFICES ASSUME q - p <= -1 PROVE FALSE
    OBVIOUS
  <2>1. M * (q - p) <= M * (-1)
    BY <1>2
  <2> QED BY <1>2, <1>3, <2>1
<1>6. q = p
  BY <1>2, <1>4, <1>5
<1> QED BY <1>2, <1>3, <1>6 DEF x

\* Wrapping yields a word, keeps words, and may come before an addition.
LEMMA WrapFacts ==
  /\ 0 \in Word
  /\ \A x \in Int : Wrap(x) \in Word
  /\ \A x \in Word : Wrap(x) = x
  /\ \A x, y \in Int : Wrap(Wrap(x) + y) = Wrap(x + y)
<1> DEFINE M == 2 * Half
<1>1. M \in Nat \ {0} /\ Half \in Nat /\ M = 2 * Half
  OBVIOUS
<1> HIDE DEF M
<1>2. \A x : Wrap(x) = ((x + Half) % M) - Half
  BY DEF Wrap, M
<1>3. \A x \in Int : Wrap(x) \in Word
  BY <1>1, <1>2 DEF Word
<1>4. ASSUME NEW x \in Word PROVE Wrap(x) = x
  <2>1. x + Half \in 0 .. M - 1 /\ x \in Int
    BY <1>1 DEF Word
  <2>2. (M * 0 + (x + Half)) % M = x + Half
    BY <1>1, <2>1, Remainder
  <2>3. M * 0 + (x + Half) = x + Half
    BY <1>1, <2>1
  <2>4. (x + Half) % M = x + Half
    BY <2>2, <2>3
  <2> QED BY <1>1, <1>2, <2>1, <2>4
<1>5. ASSUME NEW x \in Int, NEW y \in Int PROVE Wrap(Wrap(x) + y) = Wrap(x + y)
  <2>1. PICK p \in Int, r \in 0 .. M - 1 : x + Half = M * p + r /\ Wrap(x) = r - Half
    <3> DEFINE z == x + Half
    <3>1. z \in Int
      BY <1>1
    <3>2. z \div M \in Int /\ z % M \in 0 .. M - 1 /\ z = M * (z \div M) + (z % M)
      BY <1>1, <3>1, Division
    <3> QED BY <1>2, <3>2
  <2>2. PICK q \in Int, s \in 0 .. M - 1 : x + y + Half = M * q + s /\ Wrap(x + y) = s - Half
    <3> DEFINE z == x + y + Half
    <3>1. z \in Int
      BY <1>1
    <3>2. z \div M \in Int /\ z % M \in 0 .. M - 1 /\ z = M * (z \div M) + (z % M)
      BY <1>1, <3>1, Division
    <3> QED BY <1>2, <3>2
  <2>3. Wrap(x) + y + Half = M * (q - p) + s
    <3>1. M * (q - p) = M * q - M * p
      BY <1>1
    <3>2. M * q \in Int /\ M * p \in Int
      BY <1>1
    <3> QED BY <1>1, <2>1, <2>2, <3>1, <3>2
  <2>4. (M * (q - p) + s) % M = s
    <3>1. q - p \in Int
      BY <2>1, <2>2
    <3> QED BY <1>1, <2>2, <3>1, Remainder
  <2> QED BY <1>2, <2>2, <2>3, <2>4
<1>6. 0 \in Word
  BY <1>1 DEF Word
<1> QED BY <1>3, <1>4, <1>5, <1>6

-----------------------------------------------------------------------------
(* Commands                                                                *)

\* The fields of a command have their types.
LEMMA CommandFields ==
  ASSUME ConstantsOK, NEW c \in Cmds
  PROVE  /\ c \in Cmd /\ c.op \in 0 .. 255 /\ c.length \in Nat /\ c.columns \in Nat
         /\ c.src \in Nat /\ c.dst \in Nat
BY DEF ConstantsOK, Cmd

\* What the check at accept says of a command it lets pass.
LEMMA LegalSays ==
  ASSUME ConstantsOK, NEW c \in Cmds, Legal(c)
  PROVE  /\ c.op \in 0 .. 10 /\ c.length \in Nat \ {0}
         /\ ~IsAll(c.op) => c.columns \in Nat \ {0} /\ c.length % c.columns = 0
         /\ c.dst % 4 = 0 /\ c.src % 4 = 0
         /\ c.src + 4 * c.length <= 4 * Words /\ c.dst + 4 * OutWords(c) <= 4 * Words
<1>1. Verdict(c) = "NONE"
  BY DEF Legal
<1>2. ShapeOK(c)
  BY <1>1 DEF Verdict
<1>3. c.dst % 4 = 0 /\ c.src % 4 = 0
  BY <1>1, <1>2 DEF Verdict
<1>4. RangeOK(c.src, c.length) /\ RangeOK(c.dst, OutWords(c))
  BY <1>1, <1>2, <1>3 DEF Verdict
<1> QED BY <1>2, <1>3, <1>4, CommandFields DEF ShapeOK, RangeOK

\* Which element of its group an element is.
Pos(c, i) == IF IsAll(c.op) THEN i ELSE IF IsRow(c.op) THEN i % c.columns ELSE i \div c.columns

\* Rows and columns of a command that has both.
LEMMA Shape ==
  ASSUME ConstantsOK, NEW c \in Cmds, Legal(c), ~IsAll(c.op)
  PROVE  /\ c.columns \in Nat \ {0} /\ Rows(c) \in Nat \ {0} /\ c.length = Rows(c) * c.columns
         /\ IsRow(c.op) \/ IsCol(c.op)
<1>1. c.columns \in Nat \ {0} /\ c.length % c.columns = 0 /\ c.length \in Nat \ {0} /\ c.op \in 0 .. 10
  BY LegalSays
<1>2. Rows(c) = c.length \div c.columns
  BY <1>1 DEF Rows
<1>3. Rows(c) \in Int /\ c.length = c.columns * Rows(c)
  <2> DEFINE l == c.length
             k == c.columns
  <2>1. l \in Int /\ k \in Nat \ {0} /\ l % k = 0 /\ Rows(c) = l \div k
    BY <1>1, <1>2
  <2> HIDE DEF l, k
  <2>2. l \div k \in Int /\ l % k \in 0 .. k - 1 /\ l = k * (l \div k) + (l % k)
    BY <2>1, Division
  <2>3. Rows(c) \in Int /\ l = k * Rows(c)
    BY <2>1, <2>2
  <2> QED BY <2>3 DEF l, k
<1> DEFINE k == c.columns
           r == Rows(c)
<1>4. r > 0
  <2> SUFFICES ASSUME r <= 0 PROVE FALSE
    BY <1>3
  <2>1. k * r <= k * 0
    BY <1>1, <1>3
  <2> QED BY <1>1, <1>3, <2>1
<1>5. c.length = Rows(c) * c.columns
  BY <1>1, <1>3
<1> QED BY <1>1, <1>3, <1>4, <1>5 DEF IsAll, IsRow, IsCol

\* The place of an element in a table and back.
LEMMA Table ==
  ASSUME NEW rows \in Nat \ {0}, NEW cols \in Nat \ {0}
  PROVE  /\ \A i \in 0 .. rows * cols - 1 :
              /\ i \div cols \in 0 .. rows - 1 /\ i % cols \in 0 .. cols - 1
              /\ (i \div cols) * cols + (i % cols) = i
         /\ \A row \in 0 .. rows - 1, col \in 0 .. cols - 1 :
              /\ row * cols + col \in 0 .. rows * cols - 1
              /\ (row * cols + col) \div cols = row /\ (row * cols + col) % cols = col
         /\ \A row, other \in 0 .. rows - 1, col \in 0 .. cols - 1 :
              row < other => row * cols + col < other * cols + col
<1>1. ASSUME NEW i \in 0 .. rows * cols - 1
      PROVE  /\ i \div cols \in 0 .. rows - 1 /\ i % cols \in 0 .. cols - 1
             /\ (i \div cols) * cols + (i % cols) = i
  <2>1. PICK q \in Int, r \in 0 .. cols - 1 : i = cols * q + r /\ q = i \div cols /\ r = i % cols
    <3>1. i \in Int
      OBVIOUS
    <3>2. i \div cols \in Int /\ i % cols \in 0 .. cols - 1 /\ i = cols * (i \div cols) + (i % cols)
      BY <3>1, Division
    <3> QED BY <3>2
  <2>2. i \in Nat /\ rows * cols \in Nat /\ i < rows * cols
    OBVIOUS
  <2>3. q >= 0
    <3> SUFFICES ASSUME q <= -1 PROVE FALSE
      BY <2>1
    <3>1. cols * q <= cols * (-1)
      BY <2>1
    <3> QED BY <2>1, <2>2, <3>1
  <2>4. q < rows
    <3> SUFFICES ASSUME q >= rows PROVE FALSE
      BY <2>1
    <3>1. cols * q >= cols * rows
      BY <2>1
    <3> QED BY <2>1, <2>2, <3>1
  <2>5. q * cols + r = i
    BY <2>1
  <2> QED BY <2>1, <2>3, <2>4, <2>5
<1>2. ASSUME NEW row \in 0 .. rows - 1, NEW col \in 0 .. cols - 1
      PROVE  /\ row * cols + col \in 0 .. rows * cols - 1
             /\ (row * cols + col) \div cols = row /\ (row * cols + col) % cols = col
  <2>1. row * cols + cols <= rows * cols /\ row * cols >= 0 /\ row * cols \in Int
    <3>1. (rows - 1 - row) * cols >= 0
      OBVIOUS
    <3>2. (rows - 1 - row) * cols = rows * cols - cols - row * cols
      OBVIOUS
    <3> QED BY <3>1, <3>2
  <2>2. row * cols + col \in 0 .. rows * cols - 1
    BY <2>1
  <2>3. (cols * row + col) % cols = col /\ (cols * row + col) \div cols = row
    BY Remainder
  <2>4. cols * row = row * cols
    OBVIOUS
  <2> QED BY <2>2, <2>3, <2>4
<1>3. ASSUME NEW row \in 0 .. rows - 1, NEW other \in 0 .. rows - 1, NEW col \in 0 .. cols - 1,
             row < other
      PROVE  row * cols + col < other * cols + col
  <2>1. (other - row) * cols >= 1 * cols
    BY <1>3
  <2>2. (other - row) * cols = other * cols - row * cols /\ other * cols \in Int /\ row * cols \in Int
    OBVIOUS
  <2> QED BY <2>1, <2>2
<1> QED BY <1>1, <1>2, <1>3

\* The groups partition the elements, each in buffer order.
LEMMA GroupFacts ==
  ASSUME ConstantsOK, NEW c \in Cmds, Legal(c)
  PROVE  /\ c.length \in Nat \ {0} /\ OutWords(c) \in Nat \ {0} /\ GroupSize(c) \in Nat \ {0}
         /\ \A i \in 0 .. c.length - 1 :
              /\ OutIndex(c, i) \in 0 .. OutWords(c) - 1 /\ Pos(c, i) \in 0 .. GroupSize(c) - 1
              /\ Member(c, OutIndex(c, i), Pos(c, i)) = i
              /\ FirstInGroup(c, i) <=> Pos(c, i) = 0
         /\ \A j \in 0 .. OutWords(c) - 1, n \in 0 .. GroupSize(c) - 1 :
              /\ Member(c, j, n) \in 0 .. c.length - 1
              /\ OutIndex(c, Member(c, j, n)) = j /\ Pos(c, Member(c, j, n)) = n
         /\ \A j \in 0 .. OutWords(c) - 1 : \A n, k \in 0 .. GroupSize(c) - 1 :
              n < k => Member(c, j, n) < Member(c, j, k)
<1>0. c.length \in Nat \ {0}
  BY LegalSays
<1>1. CASE IsAll(c.op)
  BY <1>0, <1>1 DEF OutWords, GroupSize, OutIndex, Pos, Member, FirstInGroup
<1>2. CASE ~IsAll(c.op)
  <2> DEFINE k == c.columns
             r == Rows(c)
             l == c.length
  <2>1. k \in Nat \ {0} /\ r \in Nat \ {0} /\ l = r * k /\ l = k * r /\ l \in Nat \ {0}
    BY <1>0, <1>2, Shape
  <2>2. CASE IsRow(c.op)
    <3>1. /\ OutWords(c) = r /\ GroupSize(c) = k
          /\ \A i : OutIndex(c, i) = i \div k /\ Pos(c, i) = i % k
          /\ \A i : FirstInGroup(c, i) <=> i % k = 0
          /\ \A j, n : Member(c, j, n) = j * k + n
      BY <1>2, <2>2 DEF OutWords, GroupSize, OutIndex, Pos, Member, FirstInGroup
    <3> HIDE DEF k, r, l
    <3>2. \A i \in 0 .. r * k - 1 :
            i \div k \in 0 .. r - 1 /\ i % k \in 0 .. k - 1 /\ (i \div k) * k + (i % k) = i
      BY <2>1, Table, ZenonT(30)
    <3>3. \A j \in 0 .. r - 1, n \in 0 .. k - 1 :
            /\ j * k + n \in 0 .. r * k - 1
            /\ (j * k + n) \div k = j /\ (j * k + n) % k = n
      BY <2>1, Table
    <3>4. \A j \in 0 .. r - 1 : \A n, o \in 0 .. k - 1 : n < o => j * k + n < j * k + o
      <4> TAKE j \in 0 .. r - 1
      <4>1. j * k \in Int
        BY <2>1
      <4> QED BY <4>1, <2>1
    <3>5. \A i \in 0 .. l - 1 :
              /\ OutIndex(c, i) \in 0 .. OutWords(c) - 1 /\ Pos(c, i) \in 0 .. GroupSize(c) - 1
              /\ Member(c, OutIndex(c, i), Pos(c, i)) = i
              /\ FirstInGroup(c, i) <=> Pos(c, i) = 0
      <4> TAKE i \in 0 .. l - 1
      <4> DEFINE o == i \div k
                 p == i % k
      <4>1. /\ OutIndex(c, i) = o /\ Pos(c, i) = p /\ (FirstInGroup(c, i) <=> p = 0)
            /\ Member(c, o, p) = o * k + p
        BY <3>1, Zenon
      <4>2. /\ o \in 0 .. OutWords(c) - 1 /\ p \in 0 .. GroupSize(c) - 1
            /\ o * k + p = i
        BY <2>1, <3>1, <3>2, Zenon
      <4> QED BY <4>1, <4>2, Zenon
    <3>6. \A j \in 0 .. OutWords(c) - 1, n \in 0 .. GroupSize(c) - 1 :
              /\ Member(c, j, n) \in 0 .. l - 1
              /\ OutIndex(c, Member(c, j, n)) = j /\ Pos(c, Member(c, j, n)) = n
      BY <2>1, <3>1, <3>3
    <3>7. \A j \in 0 .. OutWords(c) - 1 : \A n, o \in 0 .. GroupSize(c) - 1 :
              n < o => Member(c, j, n) < Member(c, j, o)
      BY <3>1, <3>4
    <3> QED BY <2>1, <3>1, <3>5, <3>6, <3>7 DEF l
  <2>3. CASE ~IsRow(c.op)
    <3>1. /\ OutWords(c) = k /\ GroupSize(c) = r
          /\ \A i : OutIndex(c, i) = i % k /\ Pos(c, i) = i \div k
          /\ \A i : FirstInGroup(c, i) <=> i \div k = 0
          /\ \A j, n : Member(c, j, n) = n * k + j
      BY <1>2, <2>3 DEF OutWords, GroupSize, OutIndex, Pos, Member, FirstInGroup
    <3> HIDE DEF k, r, l
    <3>2. \A i \in 0 .. r * k - 1 :
            i \div k \in 0 .. r - 1 /\ i % k \in 0 .. k - 1 /\ (i \div k) * k + (i % k) = i
      BY <2>1, Table, ZenonT(30)
    <3>3. \A n \in 0 .. r - 1, j \in 0 .. k - 1 :
            /\ n * k + j \in 0 .. r * k - 1
            /\ (n * k + j) \div k = n /\ (n * k + j) % k = j
      BY <2>1, Table
    <3>4. \A n, o \in 0 .. r - 1, j \in 0 .. k - 1 : n < o => n * k + j < o * k + j
      BY <2>1, Table
    <3>5. \A i \in 0 .. l - 1 :
              /\ OutIndex(c, i) \in 0 .. OutWords(c) - 1 /\ Pos(c, i) \in 0 .. GroupSize(c) - 1
              /\ Member(c, OutIndex(c, i), Pos(c, i)) = i
              /\ FirstInGroup(c, i) <=> Pos(c, i) = 0
      <4> TAKE i \in 0 .. l - 1
      <4> DEFINE o == i % k
                 p == i \div k
      <4>1. /\ OutIndex(c, i) = o /\ Pos(c, i) = p /\ (FirstInGroup(c, i) <=> p = 0)
            /\ Member(c, o, p) = p * k + o
        BY <3>1, Zenon
      <4>2. /\ o \in 0 .. OutWords(c) - 1 /\ p \in 0 .. GroupSize(c) - 1
            /\ p * k + o = i
        BY <2>1, <3>1, <3>2, Zenon
      <4> QED BY <4>1, <4>2, Zenon
    <3>6. \A j \in 0 .. OutWords(c) - 1, n \in 0 .. GroupSize(c) - 1 :
              /\ Member(c, j, n) \in 0 .. l - 1
              /\ OutIndex(c, Member(c, j, n)) = j /\ Pos(c, Member(c, j, n)) = n
      BY <2>1, <3>1, <3>3
    <3>7. \A j \in 0 .. OutWords(c) - 1 : \A n, o \in 0 .. GroupSize(c) - 1 :
              n < o => Member(c, j, n) < Member(c, j, o)
      BY <3>1, <3>4
    <3> QED BY <2>1, <3>1, <3>5, <3>6, <3>7 DEF l
  <2> QED BY <2>2, <2>3
<1> QED BY <1>1, <1>2

\* An element comes before another of its group exactly if it is before it in
\* the buffer.
LEMMA GroupOrder ==
  ASSUME ConstantsOK, NEW c \in Cmds, Legal(c),
         NEW i \in 0 .. c.length - 1, NEW k \in 0 .. c.length - 1,
         OutIndex(c, i) = OutIndex(c, k)
  PROVE  k < i <=> Pos(c, k) < Pos(c, i)
<1> DEFINE j == OutIndex(c, i)
<1>1. /\ j \in 0 .. OutWords(c) - 1
      /\ Pos(c, i) \in 0 .. GroupSize(c) - 1 /\ Pos(c, k) \in 0 .. GroupSize(c) - 1
      /\ Member(c, j, Pos(c, i)) = i /\ Member(c, j, Pos(c, k)) = k
      /\ GroupSize(c) \in Nat
  BY GroupFacts
<1> HIDE DEF j
<1>2. \A n, o \in 0 .. GroupSize(c) - 1 : n < o => Member(c, j, n) < Member(c, j, o)
  BY <1>1, GroupFacts
<1>3. Pos(c, k) < Pos(c, i) => k < i
  BY <1>1, <1>2
<1>4. Pos(c, i) < Pos(c, k) => i < k
  BY <1>1, <1>2
<1> QED BY <1>1, <1>3, <1>4

\* Every element and every group's word is an aligned word of the memory.
LEMMA WordsInRange ==
  ASSUME ConstantsOK, NEW c \in Cmds, Legal(c)
  PROVE  /\ \A i \in 0 .. c.length - 1 :
              /\ Src(c, i) \in Nat /\ Src(c, i) % 4 = 0
              /\ Src(c, i) \div 4 = c.src \div 4 + i /\ Src(c, i) \div 4 \in Addr
              /\ c.src \div 4 + i \in Addr
         /\ \A j \in 0 .. OutWords(c) - 1 :
              /\ Dst(c, j) \in Nat /\ Dst(c, j) % 4 = 0
              /\ Dst(c, j) \div 4 = c.dst \div 4 + j /\ Dst(c, j) \div 4 \in Addr
<1>1. /\ c.length \in Nat /\ c.src \in Nat /\ c.dst \in Nat /\ OutWords(c) \in Nat
      /\ c.dst % 4 = 0 /\ c.src % 4 = 0
      /\ c.src + 4 * c.length <= 4 * Words /\ c.dst + 4 * OutWords(c) <= 4 * Words
  BY LegalSays, CommandFields, GroupFacts
<1>2. ASSUME NEW base \in Nat, base % 4 = 0, NEW n \in Nat, base + 4 * n <= 4 * Words,
             NEW i \in 0 .. n - 1
      PROVE  /\ base + 4 * i \in Nat /\ (base + 4 * i) % 4 = 0
             /\ (base + 4 * i) \div 4 = base \div 4 + i /\ base \div 4 + i \in Addr
  BY <1>2 DEF Addr
<1>3. ASSUME NEW i \in 0 .. c.length - 1
      PROVE  /\ Src(c, i) \in Nat /\ Src(c, i) % 4 = 0
             /\ Src(c, i) \div 4 = c.src \div 4 + i /\ Src(c, i) \div 4 \in Addr
             /\ c.src \div 4 + i \in Addr
  <2>1. /\ c.src + 4 * i \in Nat /\ (c.src + 4 * i) % 4 = 0
        /\ (c.src + 4 * i) \div 4 = c.src \div 4 + i /\ c.src \div 4 + i \in Addr
    BY <1>1, <1>2, ZenonT(30)
  <2>2. Src(c, i) = c.src + 4 * i
    BY DEF Src
  <2> QED BY <2>1, <2>2, Zenon
<1>4. ASSUME NEW j \in 0 .. OutWords(c) - 1
      PROVE  /\ Dst(c, j) \in Nat /\ Dst(c, j) % 4 = 0
             /\ Dst(c, j) \div 4 = c.dst \div 4 + j /\ Dst(c, j) \div 4 \in Addr
  <2>1. /\ c.dst + 4 * j \in Nat /\ (c.dst + 4 * j) % 4 = 0
        /\ (c.dst + 4 * j) \div 4 = c.dst \div 4 + j /\ c.dst \div 4 + j \in Addr
    BY <1>1, <1>2, ZenonT(30)
  <2>2. Dst(c, j) = c.dst + 4 * j
    BY DEF Dst
  <2> QED BY <2>1, <2>2, Zenon
<1> QED BY <1>3, <1>4

-----------------------------------------------------------------------------
(* What the golden model has made of a group after its first elements      *)

Elem(c, m, i) == m[c.src \div 4 + i]
Value(c, m, j, n) == Elem(c, m, Member(c, j, n))

\* One step of the golden model's recursion, before the sum is wrapped.
Step(c, prior, value) ==
  IF IsFp(c.op) THEN Fp(IF IsMax(c.op) THEN "MAX" ELSE "ADD", prior, Addend(c.op, value))
  ELSE prior + value

\* g is that recursion on elements 0 .. n of group j.
Chain(c, m, j, n, g) ==
  /\ g = [k \in 0 .. n |-> g[k]]
  /\ g[0] = Addend(c.op, Value(c, m, j, 0))
  /\ \A k \in 1 .. n : g[k] = Step(c, g[k - 1], Value(c, m, j, k))

TheChain(c, m, j, n) == CHOOSE g : Chain(c, m, j, n, g)

\* v is the greatest of elements 0 .. n of group j.
IsGreatest(c, m, j, n, v) ==
  /\ v \in {Value(c, m, j, k) : k \in 0 .. n}
  /\ \A k \in 0 .. n : v >= Value(c, m, j, k)

SoFar(c, m, j, n) ==
  IF IsFp(c.op) THEN TheChain(c, m, j, n)[n]
  ELSE IF IsMax(c.op) THEN CHOOSE v : IsGreatest(c, m, j, n, v)
  ELSE Wrap(TheChain(c, m, j, n)[n])

\* The elements of a group are words of the memory.
LEMMA ValueIsWord ==
  ASSUME ConstantsOK, NEW c \in Cmds, Legal(c), NEW m \in [Addr -> Word],
         NEW j \in 0 .. OutWords(c) - 1, NEW n \in 0 .. GroupSize(c) - 1
  PROVE  Value(c, m, j, n) \in Word /\ Value(c, m, j, n) \in Int
<1>1. Member(c, j, n) \in 0 .. c.length - 1
  BY GroupFacts
<1>2. c.src \div 4 + Member(c, j, n) \in Addr
  BY <1>1, WordsInRange
<1>3. Value(c, m, j, n) \in Word
  BY <1>2 DEF Value, Elem
<1> QED BY <1>3 DEF Word

\* Circuits, sums and maxima of words are words.
LEMMA CombineIsWord ==
  ASSUME ConstantsOK, NEW c \in Cmds, NEW x \in Word, NEW y \in Word
  PROVE  Combine(c.op, x, y) \in Word /\ Addend(c.op, y) \in Word
<1>1. Addend(c.op, y) \in Word
  BY DEF Addend, ConstantsOK
<1>2. CASE IsFp(c.op)
  BY <1>1, <1>2 DEF Combine, ConstantsOK
<1>3. CASE ~IsFp(c.op)
  <2>1. x \in Int /\ y \in Int
    BY DEF Word
  <2>2. x + y \in Int
    BY <2>1
  <2>3. Wrap(x + y) \in Word
    BY <2>2, WrapFacts
  <2> QED BY <1>1, <1>3, <2>3 DEF Combine
<1> QED BY <1>2, <1>3

LEMMA ChainExists ==
  ASSUME NEW c, NEW m, NEW j, NEW n \in Nat
  PROVE  \E g : Chain(c, m, j, n, g)
<1> DEFINE Missing == {k \in Nat : ~\E g : Chain(c, m, j, k, g)}
<1>1. SUFFICES ASSUME Missing # {} PROVE FALSE
  OBVIOUS
<1>2. PICK k \in Missing : \A l \in Missing : k <= l
  <2>1. Missing \subseteq Nat
    OBVIOUS
  <2> HIDE DEF Missing
  <2> QED BY <1>1, <2>1, LeastElement
<1>3. k \in Nat /\ ~\E g : Chain(c, m, j, k, g)
  BY <1>2
<1>4. CASE k = 0
  <2> DEFINE g == [i \in 0 .. 0 |-> Addend(c.op, Value(c, m, j, 0))]
  <2>1. Chain(c, m, j, 0, g)
    BY DEF Chain
  <2> QED BY <1>3, <1>4, <2>1
<1>5. CASE k # 0
  <2>1. k - 1 \in Nat /\ k - 1 \notin Missing
    BY <1>2, <1>3, <1>5
  <2>2. PICK g : Chain(c, m, j, k - 1, g)
    BY <2>1
  <2> DEFINE h == [i \in 0 .. k |-> IF i = k THEN Step(c, g[k - 1], Value(c, m, j, k)) ELSE g[i]]
  <2>3. \A i \in 0 .. k : h[i] = IF i = k THEN Step(c, g[k - 1], Value(c, m, j, k)) ELSE g[i]
    OBVIOUS
  <2>4. h = [i \in 0 .. k |-> h[i]]
    OBVIOUS
  <2> HIDE DEF h
  <2>5. h[0] = Addend(c.op, Value(c, m, j, 0))
    <3>1. 0 \in 0 .. k /\ 0 # k
      BY <1>3, <1>5
    <3>2. h[0] = g[0]
      BY <2>3, <3>1
    <3> QED BY <2>2, <3>2 DEF Chain
  <2>6. ASSUME NEW i \in 1 .. k PROVE h[i] = Step(c, h[i - 1], Value(c, m, j, i))
    <3>1. i \in 0 .. k /\ i - 1 \in 0 .. k /\ i - 1 # k
      BY <1>3
    <3>2. h[i - 1] = g[i - 1]
      BY <2>3, <3>1
    <3>3. CASE i = k
      BY <2>3, <3>1, <3>2, <3>3
    <3>4. CASE i # k
      <4>1. i \in 1 .. k - 1
        BY <1>3, <3>4
      <4>2. g[i] = Step(c, g[i - 1], Value(c, m, j, i))
        BY <2>2, <4>1 DEF Chain
      <4>3. h[i] = g[i]
        BY <2>3, <3>1, <3>4
      <4> QED BY <3>2, <4>2, <4>3
    <3> QED BY <3>3, <3>4
  <2>7. Chain(c, m, j, k, h)
    BY <2>4, <2>5, <2>6 DEF Chain
  <2> QED BY <1>3, <2>7
<1> QED BY <1>4, <1>5

\* Two chains over the same elements agree as far as both go.
LEMMA ChainUnique ==
  ASSUME NEW c, NEW m, NEW w, NEW j, NEW n \in Nat, NEW l \in Nat, NEW g, NEW h,
         Chain(c, m, j, n, g), Chain(c, w, j, l, h), n <= l,
         \A k \in 0 .. n : Value(c, w, j, k) = Value(c, m, j, k)
  PROVE  \A k \in 0 .. n : h[k] = g[k]
<1> DEFINE Differ == {k \in 0 .. n : h[k] # g[k]}
<1>1. SUFFICES ASSUME Differ # {} PROVE FALSE
  OBVIOUS
<1>2. PICK k \in Differ : \A i \in Differ : k <= i
  <2>1. Differ \subseteq Nat
    OBVIOUS
  <2> HIDE DEF Differ
  <2> QED BY <1>1, <2>1, LeastElement
<1>3. k \in 0 .. n /\ h[k] # g[k]
  BY <1>2
<1>4. k # 0
  BY <1>3 DEF Chain
<1>5. k \in 1 .. n /\ k \in 1 .. l /\ k - 1 \in 0 .. n /\ k - 1 \notin Differ
  BY <1>2, <1>3, <1>4
<1>6. h[k - 1] = g[k - 1]
  BY <1>5
<1>7. Value(c, w, j, k) = Value(c, m, j, k)
  BY <1>3
<1>8. g[k] = Step(c, g[k - 1], Value(c, m, j, k)) /\ h[k] = Step(c, h[k - 1], Value(c, w, j, k))
  BY <1>5 DEF Chain
<1> QED BY <1>3, <1>6, <1>7, <1>8

LEMMA TheChainIsOne ==
  ASSUME NEW c, NEW m, NEW j, NEW n \in Nat
  PROVE  Chain(c, m, j, n, TheChain(c, m, j, n))
BY ChainExists DEF TheChain

\* What a chain holds: words of the circuits, or unwrapped sums.
LEMMA ChainTypes ==
  ASSUME ConstantsOK, NEW c \in Cmds, Legal(c), NEW m \in [Addr -> Word],
         NEW j \in 0 .. OutWords(c) - 1, NEW n \in 0 .. GroupSize(c) - 1,
         NEW g, Chain(c, m, j, n, g)
  PROVE  \A k \in 0 .. n : IF IsFp(c.op) THEN g[k] \in Word ELSE g[k] \in Int
<1> DEFINE Right(x) == IF IsFp(c.op) THEN x \in Word ELSE x \in Int
           Wrong == {k \in 0 .. n : ~Right(g[k])}
<1>0. n \in Nat /\ GroupSize(c) \in Nat
  BY GroupFacts
<1>1. SUFFICES ASSUME Wrong # {} PROVE FALSE
  OBVIOUS
<1>2. PICK k \in Wrong : \A i \in Wrong : k <= i
  <2>1. Wrong \subseteq Nat
    BY <1>0
  <2> HIDE DEF Wrong
  <2> QED BY <1>1, <2>1, LeastElement
<1>3. k \in 0 .. n /\ ~Right(g[k])
  BY <1>2
<1>4. ASSUME NEW i \in 0 .. n
      PROVE  Value(c, m, j, i) \in Word /\ Value(c, m, j, i) \in Int
             /\ Addend(c.op, Value(c, m, j, i)) \in Word
  <2>1. i \in 0 .. GroupSize(c) - 1
    BY <1>0
  <2>2. Value(c, m, j, i) \in Word /\ Value(c, m, j, i) \in Int
    BY <2>1, ValueIsWord
  <2> QED BY <2>2, CombineIsWord
<1>5. Right(Addend(c.op, Value(c, m, j, 0)))
  <2>1. 0 \in 0 .. n
    BY <1>0
  <2> QED BY <1>4, <2>1 DEF Word
<1>6. k # 0
  BY <1>3, <1>5 DEF Chain
<1>7. k \in 1 .. n /\ k - 1 \in 0 .. n /\ k - 1 \notin Wrong
  BY <1>0, <1>2, <1>3, <1>6
<1>8. Right(g[k - 1])
  BY <1>7
<1>9. g[k] = Step(c, g[k - 1], Value(c, m, j, k))
  BY <1>7 DEF Chain
<1>10. Right(g[k])
  <2>1. CASE IsFp(c.op)
    <3>1. g[k - 1] \in Word /\ Addend(c.op, Value(c, m, j, k)) \in Word
      BY <1>3, <1>4, <1>8, <2>1
    <3> QED BY <1>9, <2>1, <3>1 DEF Step, ConstantsOK
  <2>2. CASE ~IsFp(c.op)
    <3>1. g[k - 1] \in Int /\ Value(c, m, j, k) \in Int
      BY <1>3, <1>4, <1>8, <2>2
    <3> QED BY <1>9, <2>2, <3>1 DEF Step
  <2> QED BY <2>1, <2>2
<1> QED BY <1>3, <1>10

\* Of finitely many words there is one greatest.
LEMMA GreatestExists ==
  ASSUME ConstantsOK, NEW c \in Cmds, Legal(c), NEW m \in [Addr -> Word],
         NEW j \in 0 .. OutWords(c) - 1, NEW n \in 0 .. GroupSize(c) - 1
  PROVE  \E v : IsGreatest(c, m, j, n, v)
<1> DEFINE Missing == {k \in 0 .. n : ~\E v : IsGreatest(c, m, j, k, v)}
<1>0. n \in Nat /\ GroupSize(c) \in Nat /\ \A i \in 0 .. n : Value(c, m, j, i) \in Int
  BY GroupFacts, ValueIsWord
<1>1. SUFFICES ASSUME Missing # {} PROVE FALSE
  BY <1>0
<1>2. PICK k \in Missing : \A i \in Missing : k <= i
  <2>1. Missing \subseteq Nat
    BY <1>0
  <2> HIDE DEF Missing
  <2> QED BY <1>1, <2>1, LeastElement
<1>3. k \in 0 .. n /\ ~\E v : IsGreatest(c, m, j, k, v)
  BY <1>2
<1>4. CASE k = 0
  <2>1. IsGreatest(c, m, j, 0, Value(c, m, j, 0))
    BY <1>0 DEF IsGreatest
  <2> QED BY <1>3, <1>4, <2>1
<1>5. CASE k # 0
  <2>1. k - 1 \in 0 .. n /\ k - 1 \notin Missing
    BY <1>0, <1>2, <1>3, <1>5
  <2>2. PICK v : IsGreatest(c, m, j, k - 1, v)
    BY <2>1
  <2> DEFINE new == Value(c, m, j, k)
             all(i) == Value(c, m, j, i)
  <2>3. v \in Int /\ new \in Int
    BY <1>0, <1>3, <2>1, <2>2 DEF IsGreatest
  <2>4. CASE new > v
    <3>1. \A i \in 0 .. k : new >= all(i)
      <4> TAKE i \in 0 .. k
      <4>1. i = k \/ i \in 0 .. k - 1
        BY <1>0, <1>3
      <4>2. all(i) \in Int
        BY <1>0, <1>3
      <4> QED BY <2>2, <2>3, <2>4, <4>1, <4>2 DEF IsGreatest
    <3>2. new \in {all(i) : i \in 0 .. k}
      BY <1>0, <1>3
    <3>3. IsGreatest(c, m, j, k, new)
      BY <3>1, <3>2 DEF IsGreatest
    <3> QED BY <1>3, <3>3
  <2>5. CASE ~(new > v)
    <3>1. \A i \in 0 .. k : v >= all(i)
      <4> TAKE i \in 0 .. k
      <4>1. i = k \/ i \in 0 .. k - 1
        BY <1>0, <1>3
      <4> QED BY <2>2, <2>3, <2>5, <4>1 DEF IsGreatest
    <3>2. v \in {all(i) : i \in 0 .. k}
      BY <1>0, <1>3, <2>2 DEF IsGreatest
    <3>3. IsGreatest(c, m, j, k, v)
      BY <3>1, <3>2 DEF IsGreatest
    <3> QED BY <1>3, <3>3
  <2> QED BY <2>4, <2>5
<1> QED BY <1>4, <1>5

LEMMA GreatestUnique ==
  ASSUME ConstantsOK, NEW c \in Cmds, Legal(c), NEW m \in [Addr -> Word],
         NEW j \in 0 .. OutWords(c) - 1, NEW n \in 0 .. GroupSize(c) - 1,
         NEW u, NEW v, IsGreatest(c, m, j, n, u), IsGreatest(c, m, j, n, v)
  PROVE  u = v /\ u \in Word
<1>0. \A i \in 0 .. n : Value(c, m, j, i) \in Int /\ Value(c, m, j, i) \in Word
  BY GroupFacts, ValueIsWord
<1>1. PICK k, l \in 0 .. n : u = Value(c, m, j, k) /\ v = Value(c, m, j, l)
  BY DEF IsGreatest
<1>2. u >= v /\ v >= u
  BY <1>1 DEF IsGreatest
<1> QED BY <1>0, <1>1, <1>2

\* What SoFar stands for in each kind of operation.
LEMMA SoFarIs ==
  ASSUME ConstantsOK, NEW c \in Cmds, Legal(c), NEW m \in [Addr -> Word],
         NEW j \in 0 .. OutWords(c) - 1, NEW n \in 0 .. GroupSize(c) - 1
  PROVE  /\ SoFar(c, m, j, n) \in Word
         /\ \A g : Chain(c, m, j, n, g) =>
              /\ IsFp(c.op) => SoFar(c, m, j, n) = g[n]
              /\ ~IsFp(c.op) /\ ~IsMax(c.op) => SoFar(c, m, j, n) = Wrap(g[n])
         /\ \A v : IsGreatest(c, m, j, n, v) =>
              (~IsFp(c.op) /\ IsMax(c.op) => SoFar(c, m, j, n) = v)
<1> DEFINE s == SoFar(c, m, j, n)
           t == TheChain(c, m, j, n)
<1>0. n \in Nat
  BY GroupFacts
<1>1. Chain(c, m, j, n, t)
  BY <1>0, TheChainIsOne
<1>2. IF IsFp(c.op) THEN t[n] \in Word ELSE t[n] \in Int
  <2>1. n \in 0 .. n
    BY <1>0
  <2> HIDE DEF t
  <2> QED BY <1>1, <2>1, ChainTypes
<1>3. IsGreatest(c, m, j, n, CHOOSE v : IsGreatest(c, m, j, n, v))
  BY GreatestExists
<1>4. (CHOOSE v : IsGreatest(c, m, j, n, v)) \in Word
  BY <1>3, GreatestUnique
<1>5. /\ IsFp(c.op) => s = t[n]
      /\ ~IsFp(c.op) /\ ~IsMax(c.op) => s = Wrap(t[n])
      /\ ~IsFp(c.op) /\ IsMax(c.op) => s = CHOOSE v : IsGreatest(c, m, j, n, v)
  BY DEF SoFar
<1>6. s \in Word
  <2>1. ~IsFp(c.op) => Wrap(t[n]) \in Word
    BY <1>2, WrapFacts
  <2> QED BY <1>2, <1>4, <1>5, <2>1
<1>7. ASSUME NEW g, Chain(c, m, j, n, g) PROVE g[n] = t[n]
  <2>1. n \in 0 .. n /\ n <= n
    BY <1>0
  <2> HIDE DEF t
  <2>2. \A k \in 0 .. n : g[k] = t[k]
    BY <1>0, <1>1, <1>7, <2>1, ChainUnique
  <2> QED BY <2>1, <2>2
<1>8. ASSUME NEW v, IsGreatest(c, m, j, n, v)
      PROVE  v = CHOOSE u : IsGreatest(c, m, j, n, u)
  BY <1>3, <1>8, GreatestUnique
<1> QED BY <1>5, <1>6, <1>7, <1>8

\* After the first element: what it contributes.
LEMMA SoFarFirst ==
  ASSUME ConstantsOK, NEW c \in Cmds, Legal(c), NEW m \in [Addr -> Word],
         NEW j \in 0 .. OutWords(c) - 1
  PROVE  SoFar(c, m, j, 0) = Addend(c.op, Value(c, m, j, 0))
<1> DEFINE v == Value(c, m, j, 0)
<1>0. 0 \in 0 .. GroupSize(c) - 1
  BY GroupFacts
<1>1. v \in Int /\ v \in Word
  BY <1>0, ValueIsWord
<1>2. PICK g : Chain(c, m, j, 0, g)
  BY ChainExists
<1>3. g[0] = Addend(c.op, v)
  BY <1>2 DEF Chain
<1>4. ~IsFp(c.op) => Addend(c.op, v) = v
  BY DEF IsFp, Addend, FSUMSQ_ALL
<1>5. IsGreatest(c, m, j, 0, v)
  BY <1>1 DEF IsGreatest
<1>6. Wrap(v) = v
  BY <1>1, WrapFacts
<1> QED BY <1>0, <1>2, <1>3, <1>4, <1>5, <1>6, SoFarIs

\* After one element more: what Combine makes of it.
LEMMA SoFarNext ==
  ASSUME ConstantsOK, NEW c \in Cmds, Legal(c), NEW m \in [Addr -> Word],
         NEW j \in 0 .. OutWords(c) - 1, NEW n \in 1 .. GroupSize(c) - 1
  PROVE  SoFar(c, m, j, n) = Combine(c.op, SoFar(c, m, j, n - 1), Value(c, m, j, n))
<1> DEFINE v == Value(c, m, j, n)
           s == SoFar(c, m, j, n - 1)
<1>0. /\ n \in Nat /\ n - 1 \in Nat /\ n \in 0 .. GroupSize(c) - 1 /\ n - 1 \in 0 .. GroupSize(c) - 1
      /\ n - 1 <= n /\ n - 1 \in 0 .. n - 1 /\ n \in 1 .. n /\ GroupSize(c) \in Nat
  BY GroupFacts
<1>1. v \in Int /\ v \in Word
  BY <1>0, ValueIsWord
<1>2. PICK g : Chain(c, m, j, n - 1, g)
  BY <1>0, ChainExists
<1>3. PICK h : Chain(c, m, j, n, h)
  BY <1>0, ChainExists
<1>4. h[n - 1] = g[n - 1]
  BY <1>0, <1>2, <1>3, ChainUnique
<1>5. h[n] = Step(c, g[n - 1], v)
  BY <1>0, <1>3, <1>4 DEF Chain
<1>6. IF IsFp(c.op) THEN g[n - 1] \in Word ELSE g[n - 1] \in Int
  BY <1>0, <1>2, ChainTypes
<1>7. CASE IsFp(c.op)
  <2>1. SoFar(c, m, j, n) = h[n] /\ s = g[n - 1]
    BY <1>0, <1>2, <1>3, <1>7, SoFarIs
  <2> QED BY <1>5, <1>7, <2>1 DEF Step, Combine
<1>8. CASE ~IsFp(c.op) /\ ~IsMax(c.op)
  <2>1. SoFar(c, m, j, n) = Wrap(h[n]) /\ s = Wrap(g[n - 1])
    BY <1>0, <1>2, <1>3, <1>8, SoFarIs
  <2>2. Wrap(Wrap(g[n - 1]) + v) = Wrap(g[n - 1] + v)
    BY <1>1, <1>6, <1>8, WrapFacts
  <2> QED BY <1>5, <1>8, <2>1, <2>2 DEF Step, Combine
<1>9. CASE ~IsFp(c.op) /\ IsMax(c.op)
  <2>1. PICK u : IsGreatest(c, m, j, n - 1, u)
    BY <1>0, GreatestExists
  <2>2. s = u /\ u \in Word /\ u \in Int
    <3>1. u \in Word
      BY <1>0, <2>1, GreatestUnique
    <3> QED BY <1>0, <1>9, <2>1, <3>1, SoFarIs DEF Word
  <2> DEFINE big == IF v > u THEN v ELSE u
  <2>3. \A k \in 0 .. n : Value(c, m, j, k) \in Int
    <3> TAKE k \in 0 .. n
    <3>1. k \in 0 .. GroupSize(c) - 1
      BY <1>0
    <3> QED BY <3>1, ValueIsWord
  <2>4. \A k \in 0 .. n : big >= Value(c, m, j, k)
    <3> TAKE k \in 0 .. n
    <3>1. Value(c, m, j, k) \in Int /\ (k = n \/ k \in 0 .. n - 1)
      BY <1>0, <2>3
    <3> QED BY <1>1, <2>1, <2>2, <3>1 DEF IsGreatest
  <2>5. big \in {Value(c, m, j, k) : k \in 0 .. n}
    <3>1. u \in {Value(c, m, j, k) : k \in 0 .. n}
      BY <1>0, <2>1 DEF IsGreatest
    <3>2. n \in 0 .. n
      BY <1>0
    <3> QED BY <3>1, <3>2
  <2>6. IsGreatest(c, m, j, n, big)
    BY <2>4, <2>5 DEF IsGreatest
  <2>7. SoFar(c, m, j, n) = big
    BY <1>0, <1>9, <2>6, SoFarIs
  <2> QED BY <1>9, <2>2, <2>7 DEF Combine
<1> QED BY <1>7, <1>8, <1>9

\* After the whole group: the golden model's reduction.
LEMMA SoFarLast ==
  ASSUME ConstantsOK, NEW c \in Cmds, Legal(c), NEW m \in [Addr -> Word],
         NEW j \in 0 .. OutWords(c) - 1
  PROVE  SoFar(c, m, j, GroupSize(c) - 1) = GoldenReduction(c, m, j)
<1> DEFINE last == GroupSize(c) - 1
           val(n) == Value(c, m, j, n)
           SumBody(f) == [n \in 0 .. last |-> IF n = 0 THEN val(0) ELSE f[n - 1] + val(n)]
           FpBody(f)  == [n \in 0 .. last |->
                            IF n = 0 THEN Addend(c.op, val(0))
                            ELSE Fp(IF IsMax(c.op) THEN "MAX" ELSE "ADD", f[n - 1], Addend(c.op, val(n)))]
           sum == CHOOSE f : f = SumBody(f)
           fp == CHOOSE f : f = FpBody(f)
<1>0. last \in Nat /\ last \in 0 .. GroupSize(c) - 1
  BY GroupFacts
<1>1. PICK g : Chain(c, m, j, last, g)
  BY <1>0, ChainExists
<1> HIDE DEF last
<1>2. CASE IsFp(c.op)
  <2>1. \A n \in 0 .. last : g[n] = FpBody(g)[n]
    <3> TAKE n \in 0 .. last
    <3>1. CASE n = 0
      BY <1>1, <3>1 DEF Chain
    <3>2. CASE n # 0
      <4>1. n \in 1 .. last
        BY <1>0, <3>2
      <4> QED BY <1>1, <1>2, <3>2, <4>1 DEF Chain, Step
    <3> QED BY <3>1, <3>2
  <2>2. g = FpBody(g)
    <3>1. g = [n \in 0 .. last |-> g[n]]
      BY <1>1 DEF Chain
    <3> QED BY <2>1, <3>1
  <2>3. fp = FpBody(fp)
    <3> HIDE DEF FpBody
    <3> QED BY <2>2
  <2>4. Chain(c, m, j, last, fp)
    <3> HIDE DEF fp
    <3>1. \A n \in 0 .. last : fp[n] = IF n = 0 THEN Addend(c.op, val(0))
                                       ELSE Step(c, fp[n - 1], val(n))
      BY <1>2, <2>3 DEF Step
    <3>2. 0 \in 0 .. last /\ \A n \in 1 .. last : n \in 0 .. last /\ n # 0
      BY <1>0
    <3>3. fp = [n \in 0 .. last |-> fp[n]]
      BY <2>3
    <3> QED BY <3>1, <3>2, <3>3 DEF Chain
  <2>5. SoFar(c, m, j, last) = fp[last]
    <3> HIDE DEF fp
    <3> QED BY <1>0, <1>2, <2>4, SoFarIs
  <2>6. GoldenReduction(c, m, j) = fp[last]
    BY <1>2 DEF GoldenReduction, Value, Elem, last
  <2> QED BY <2>5, <2>6 DEF last
<1>3. CASE ~IsFp(c.op) /\ ~IsMax(c.op)
  <2>0. Addend(c.op, val(0)) = val(0)
    BY <1>3 DEF IsFp, Addend, FSUMSQ_ALL
  <2>1. \A n \in 0 .. last : g[n] = SumBody(g)[n]
    <3> TAKE n \in 0 .. last
    <3>1. CASE n = 0
      BY <1>1, <2>0, <3>1 DEF Chain
    <3>2. CASE n # 0
      <4>1. n \in 1 .. last
        BY <1>0, <3>2
      <4> QED BY <1>1, <1>3, <3>2, <4>1 DEF Chain, Step
    <3> QED BY <3>1, <3>2
  <2>2. g = SumBody(g)
    <3>1. g = [n \in 0 .. last |-> g[n]]
      BY <1>1 DEF Chain
    <3> QED BY <2>1, <3>1
  <2>3. sum = SumBody(sum)
    <3> HIDE DEF SumBody
    <3> QED BY <2>2
  <2>4. Chain(c, m, j, last, sum)
    <3> HIDE DEF sum
    <3>1. \A n \in 0 .. last : sum[n] = IF n = 0 THEN Addend(c.op, val(0))
                                        ELSE Step(c, sum[n - 1], val(n))
      BY <1>3, <2>0, <2>3 DEF Step
    <3>2. 0 \in 0 .. last /\ \A n \in 1 .. last : n \in 0 .. last /\ n # 0
      BY <1>0
    <3>3. sum = [n \in 0 .. last |-> sum[n]]
      BY <2>3
    <3> QED BY <3>1, <3>2, <3>3 DEF Chain
  <2>5. SoFar(c, m, j, last) = Wrap(sum[last])
    <3> HIDE DEF sum
    <3> QED BY <1>0, <1>3, <2>4, SoFarIs
  <2>6. GoldenReduction(c, m, j) = Wrap(sum[last])
    BY <1>3 DEF GoldenReduction, Value, Elem, last
  <2> QED BY <2>5, <2>6 DEF last
<1>4. CASE ~IsFp(c.op) /\ IsMax(c.op)
  <2> DEFINE Best(v) == /\ v \in {val(n) : n \in 0 .. last} /\ \A n \in 0 .. last : v >= val(n)
             best == CHOOSE v \in {val(n) : n \in 0 .. last} : \A n \in 0 .. last : v >= val(n)
  <2>1. \A v : IsGreatest(c, m, j, last, v) <=> Best(v)
    BY DEF IsGreatest
  <2>2. \E v : Best(v)
    BY <1>0, <2>1, GreatestExists
  <2>3. Best(best)
    BY <2>2
  <2>4. IsGreatest(c, m, j, last, best)
    <3> HIDE DEF best
    <3> QED BY <2>1, <2>3
  <2>5. SoFar(c, m, j, last) = best
    <3> HIDE DEF best
    <3> QED BY <1>0, <1>4, <2>4, SoFarIs
  <2>6. GoldenReduction(c, m, j) = best
    BY <1>4 DEF GoldenReduction, Value, Elem, last
  <2> QED BY <2>5, <2>6 DEF last
<1> QED BY <1>2, <1>3, <1>4

\* The golden model looks at the group's elements and at no other word.
LEMMA SoFarLooks ==
  ASSUME ConstantsOK, NEW c \in Cmds, Legal(c),
         NEW m \in [Addr -> Word], NEW w \in [Addr -> Word],
         NEW j \in 0 .. OutWords(c) - 1, NEW n \in 0 .. GroupSize(c) - 1,
         \A k \in 0 .. n : Value(c, w, j, k) = Value(c, m, j, k)
  PROVE  SoFar(c, w, j, n) = SoFar(c, m, j, n)
<1>0. n \in Nat /\ n \in 0 .. n /\ n <= n
  BY GroupFacts
<1>1. PICK g : Chain(c, m, j, n, g)
  BY <1>0, ChainExists
<1>2. PICK h : Chain(c, w, j, n, h)
  BY <1>0, ChainExists
<1>3. h[n] = g[n]
  BY <1>0, <1>1, <1>2, ChainUnique
<1>4. PICK v : IsGreatest(c, m, j, n, v)
  BY GreatestExists
<1>5. IsGreatest(c, w, j, n, v)
  BY <1>4 DEF IsGreatest
<1> QED BY <1>1, <1>2, <1>3, <1>4, <1>5, SoFarIs

-----------------------------------------------------------------------------
(* The memory while a command runs                                         *)

WordOf(c, i) == Dst(c, OutIndex(c, i)) \div 4

\* Of the first e elements, element i is the last of its group.
Latest(c, e, i) == \A k \in i + 1 .. e - 1 : OutIndex(c, k) # OutIndex(c, i)

\* m is m0 with the partial results of the first e elements in their words.
MemOK(c, m0, m, e) ==
  /\ \A a \in Addr : (\A i \in 0 .. e - 1 : WordOf(c, i) # a) => m[a] = m0[a]
  /\ \A i \in 0 .. e - 1 :
       Latest(c, e, i) => m[WordOf(c, i)] = SoFar(c, m0, OutIndex(c, i), Pos(c, i))

\* The words of two groups are two words.
LEMMA WordsApart ==
  ASSUME ConstantsOK, NEW c \in Cmds, Legal(c)
  PROVE  /\ \A i \in 0 .. c.length - 1 : WordOf(c, i) \in Addr /\ WordOf(c, i) \in Outputs(c)
         /\ \A i, k \in 0 .. c.length - 1 :
              WordOf(c, i) = WordOf(c, k) => OutIndex(c, i) = OutIndex(c, k)
<1>1. ASSUME NEW i \in 0 .. c.length - 1
      PROVE  /\ OutIndex(c, i) \in 0 .. OutWords(c) - 1 /\ OutIndex(c, i) \in Int
             /\ WordOf(c, i) = c.dst \div 4 + OutIndex(c, i) /\ WordOf(c, i) \in Addr
             /\ WordOf(c, i) \in Outputs(c)
  <2>1. OutIndex(c, i) \in 0 .. OutWords(c) - 1
    BY GroupFacts
  <2> QED BY <2>1, WordsInRange DEF WordOf, Outputs
<1>2. c.dst \div 4 \in Int
  BY CommandFields
<1>3. ASSUME NEW i \in 0 .. c.length - 1, NEW k \in 0 .. c.length - 1, WordOf(c, i) = WordOf(c, k)
    PROVE  OutIndex(c, i) = OutIndex(c, k)
  <2> DEFINE d == c.dst \div 4
             x == OutIndex(c, i)
             y == OutIndex(c, k)
  <2>1. d + x = d + y
    BY <1>1, <1>3
  <2>2. d \in Int /\ x \in Int /\ y \in Int
    BY <1>1, <1>2
  <2> HIDE DEF d, x, y
  <2>3. x = y
    BY <2>1, <2>2
  <2> QED BY <2>3 DEF x, y
<1> QED BY <1>1, <1>3

\* No element is no change.
LEMMA MemStart ==
  ASSUME NEW c, NEW m
  PROVE  MemOK(c, m, m, 0)
BY DEF MemOK

\* Writing a group's partial result after element i.
LEMMA MemWrites ==
  ASSUME ConstantsOK, NEW c \in Cmds, Legal(c), NEW m0, NEW m \in [Addr -> Word],
         NEW i \in 0 .. c.length - 1, NEW e \in 0 .. i, IsAll(c.op) \/ e = i,
         MemOK(c, m0, m, e)
  PROVE  MemOK(c, m0, [m EXCEPT ![WordOf(c, i)] = SoFar(c, m0, OutIndex(c, i), Pos(c, i))], i + 1)
<1> DEFINE w == [m EXCEPT ![WordOf(c, i)] = SoFar(c, m0, OutIndex(c, i), Pos(c, i))]
<1>0. c.length \in Nat /\ i \in Nat /\ e \in Nat /\ WordOf(c, i) \in Addr
  BY GroupFacts, WordsApart
<1>1. /\ w[WordOf(c, i)] = SoFar(c, m0, OutIndex(c, i), Pos(c, i))
      /\ \A a \in Addr : a # WordOf(c, i) => w[a] = m[a]
  BY <1>0
<1> HIDE DEF w
<1>2. ASSUME NEW a \in Addr, \A k \in 0 .. (i + 1) - 1 : WordOf(c, k) # a
      PROVE  w[a] = m0[a]
  <2>1. a # WordOf(c, i)
    BY <1>0, <1>2
  <2>2. \A k \in 0 .. e - 1 : WordOf(c, k) # a
    BY <1>0, <1>2
  <2> QED BY <1>1, <2>1, <2>2 DEF MemOK
<1>3. ASSUME NEW k \in 0 .. (i + 1) - 1, Latest(c, i + 1, k)
      PROVE  w[WordOf(c, k)] = SoFar(c, m0, OutIndex(c, k), Pos(c, k))
  <2>1. k \in 0 .. c.length - 1 /\ WordOf(c, k) \in Addr
    BY <1>0, WordsApart
  <2>2. CASE OutIndex(c, k) = OutIndex(c, i)
    <3>1. i \notin k + 1 .. (i + 1) - 1
      BY <1>3, <2>2 DEF Latest
    <3>2. k = i
      BY <1>0, <3>1
    <3> QED BY <1>1, <3>2
  <2>3. CASE OutIndex(c, k) # OutIndex(c, i)
    <3>1. ~IsAll(c.op)
      BY <2>3 DEF OutIndex
    <3>2. k # i /\ e = i
      BY <2>3, <3>1
    <3>3. k \in 0 .. e - 1 /\ \A l \in k + 1 .. e - 1 : l \in k + 1 .. (i + 1) - 1
      BY <1>0, <3>2
    <3>4. Latest(c, e, k)
      BY <1>3, <3>3 DEF Latest
    <3>5. m[WordOf(c, k)] = SoFar(c, m0, OutIndex(c, k), Pos(c, k))
      BY <3>3, <3>4 DEF MemOK
    <3>6. WordOf(c, k) # WordOf(c, i)
      BY <2>1, <2>3, WordsApart
    <3> QED BY <1>1, <2>1, <3>5, <3>6
  <2> QED BY <2>2, <2>3
<1>4. MemOK(c, m0, w, i + 1)
  BY <1>2, <1>3 DEF MemOK
<1> QED BY <1>4 DEF w

\* An element that no destination runs ahead of is still what it was.
LEMMA MemElement ==
  ASSUME ConstantsOK, NEW c \in Cmds, Legal(c), NoForwardOverlap(c), NEW m0, NEW m,
         NEW i \in 0 .. c.length - 1, NEW e \in 0 .. i, IsAll(c.op) => e = 0,
         MemOK(c, m0, m, e)
  PROVE  m[Src(c, i) \div 4] = Elem(c, m0, i)
<1>0. c.length \in Nat /\ i \in Nat /\ e \in Nat
  BY GroupFacts
<1>1. Src(c, i) \in Nat /\ Src(c, i) % 4 = 0 /\ Src(c, i) \div 4 \in Addr
      /\ Src(c, i) \div 4 = c.src \div 4 + i
  BY WordsInRange
<1>2. ASSUME NEW k \in 0 .. e - 1 PROVE WordOf(c, k) # Src(c, i) \div 4
  <2>1. k \in 0 .. c.length - 1 /\ k < i /\ ~IsAll(c.op)
    BY <1>0
  <2> DEFINE d == Dst(c, OutIndex(c, k))
             s == Src(c, i)
  <2>2. d # s
    BY <2>1 DEF NoForwardOverlap
  <2>3. OutIndex(c, k) \in 0 .. OutWords(c) - 1
    BY <2>1, GroupFacts
  <2>4. d \in Nat /\ d % 4 = 0
    BY <2>3, WordsInRange
  <2> HIDE DEF d, s
  <2>5. s \in Nat /\ s % 4 = 0
    BY <1>1 DEF s
  <2>6. d \div 4 # s \div 4
    BY <2>2, <2>4, <2>5
  <2> QED BY <2>6 DEF d, s, WordOf
<1>3. m[Src(c, i) \div 4] = m0[Src(c, i) \div 4]
  BY <1>1, <1>2 DEF MemOK
<1> QED BY <1>1, <1>3 DEF Elem

\* The word a row or column reduction reads back holds the group's previous result.
LEMMA MemPrior ==
  ASSUME ConstantsOK, NEW c \in Cmds, Legal(c), NEW m0, NEW m,
         NEW i \in 0 .. c.length - 1, ~FirstInGroup(c, i), MemOK(c, m0, m, i)
  PROVE  /\ Pos(c, i) \in 1 .. GroupSize(c) - 1
         /\ m[WordOf(c, i)] = SoFar(c, m0, OutIndex(c, i), Pos(c, i) - 1)
<1> DEFINE j == OutIndex(c, i)
           n == Pos(c, i)
           k == Member(c, j, n - 1)
<1>1. /\ j \in 0 .. OutWords(c) - 1 /\ n \in 1 .. GroupSize(c) - 1 /\ n - 1 \in 0 .. GroupSize(c) - 1
      /\ c.length \in Nat /\ i \in Nat /\ GroupSize(c) \in Nat
  BY GroupFacts
<1>2. k \in 0 .. c.length - 1 /\ OutIndex(c, k) = j /\ Pos(c, k) = n - 1
  BY <1>1, GroupFacts
<1> HIDE DEF k
<1>3. k < i
  BY <1>1, <1>2, GroupOrder
<1>4. Latest(c, i, k)
  <2> SUFFICES ASSUME NEW l \in k + 1 .. i - 1, OutIndex(c, l) = OutIndex(c, k) PROVE FALSE
    BY DEF Latest
  <2>1. l \in 0 .. c.length - 1 /\ k < l /\ l < i
    BY <1>1, <1>2
  <2>2. Pos(c, k) < Pos(c, l)
    BY <1>2, <2>1, GroupOrder
  <2>3. Pos(c, l) < Pos(c, i)
    BY <1>2, <2>1, GroupOrder
  <2>4. Pos(c, l) \in Int
    BY <2>1, GroupFacts
  <2> QED BY <1>1, <1>2, <2>2, <2>3, <2>4
<1>5. k \in 0 .. i - 1
  BY <1>1, <1>2, <1>3
<1>6. m[WordOf(c, k)] = SoFar(c, m0, OutIndex(c, k), Pos(c, k))
  BY <1>4, <1>5 DEF MemOK
<1>7. WordOf(c, k) = WordOf(c, i)
  BY <1>2 DEF WordOf
<1> QED BY <1>1, <1>2, <1>6, <1>7

\* After all elements the memory is the golden model's.
LEMMA MemEnd ==
  ASSUME ConstantsOK, NEW c \in Cmds, Legal(c),
         NEW m0 \in [Addr -> Word], NEW m \in [Addr -> Word], MemOK(c, m0, m, c.length)
  PROVE  m = GoldenReduce(c, m0)
<1>0. c.length \in Nat /\ OutWords(c) \in Nat /\ GroupSize(c) \in Nat \ {0} /\ c.dst \div 4 \in Int
  BY GroupFacts, CommandFields
<1>1. ASSUME NEW a \in Addr
      PROVE  m[a] = IF a - c.dst \div 4 \in 0 .. OutWords(c) - 1
                    THEN GoldenReduction(c, m0, a - c.dst \div 4) ELSE m0[a]
  <2> DEFINE j == a - c.dst \div 4
             last == GroupSize(c) - 1
             k == Member(c, j, last)
  <2>0. a \in Int
    BY DEF Addr
  <2>1. CASE j \in 0 .. OutWords(c) - 1
    <3>1. last \in 0 .. GroupSize(c) - 1
      BY <1>0
    <3>2. k \in 0 .. c.length - 1 /\ OutIndex(c, k) = j /\ Pos(c, k) = last
      BY <2>1, <3>1, GroupFacts
    <3> HIDE DEF k
    <3>3. Latest(c, c.length, k)
      <4> SUFFICES ASSUME NEW l \in k + 1 .. c.length - 1, OutIndex(c, l) = OutIndex(c, k)
                   PROVE  FALSE
        BY DEF Latest
      <4>1. l \in 0 .. c.length - 1 /\ k < l
        BY <1>0, <3>2
      <4>2. Pos(c, k) < Pos(c, l)
        BY <3>2, <4>1, GroupOrder
      <4>3. Pos(c, l) \in 0 .. GroupSize(c) - 1
        BY <4>1, GroupFacts
      <4> QED BY <1>0, <3>2, <4>2, <4>3
    <3>4. m[WordOf(c, k)] = SoFar(c, m0, j, last)
      BY <3>2, <3>3 DEF MemOK
    <3>5. WordOf(c, k) = a
      <4> HIDE DEF j
      <4>1. WordOf(c, k) = c.dst \div 4 + j
        BY <2>1, <3>2, WordsInRange DEF WordOf
      <4> QED BY <1>0, <2>0, <4>1 DEF j
    <3>6. SoFar(c, m0, j, last) = GoldenReduction(c, m0, j)
      BY <2>1, SoFarLast
    <3> QED BY <2>1, <3>4, <3>5, <3>6
  <2>2. CASE j \notin 0 .. OutWords(c) - 1
    <3>1. ASSUME NEW i \in 0 .. c.length - 1 PROVE WordOf(c, i) # a
      <4>1. OutIndex(c, i) \in 0 .. OutWords(c) - 1
        BY GroupFacts
      <4>2. WordOf(c, i) = c.dst \div 4 + OutIndex(c, i)
        BY <4>1, WordsInRange DEF WordOf
      <4> QED BY <1>0, <2>0, <2>2, <4>1, <4>2
    <3> QED BY <2>2, <3>1 DEF MemOK
  <2> QED BY <2>1, <2>2
<1> QED BY <1>1 DEF GoldenReduce

\* A write outside the footprint turns m0 into w0 and m into w.
Outside(c, m0, m, w0, w) ==
  /\ m0 \in [Addr -> Word] /\ m \in [Addr -> Word] /\ w0 \in [Addr -> Word] /\ w \in [Addr -> Word]
  /\ \E a \in Addr \ (Inputs(c) \cup Outputs(c)) :
       w[a] = w0[a] /\ \A b \in Addr : b # a => w0[b] = m0[b] /\ w[b] = m[b]

LEMMA MemCommutes ==
  ASSUME ConstantsOK, NEW c \in Cmds, Legal(c), NEW e \in 0 .. c.length,
         NEW m0, NEW m, NEW w0, NEW w, Outside(c, m0, m, w0, w)
  PROVE  /\ MemOK(c, m0, m, e) => MemOK(c, w0, w, e)
         /\ \A i \in 0 .. c.length - 1 : Elem(c, w0, i) = Elem(c, m0, i)
         /\ \A j \in 0 .. OutWords(c) - 1, n \in 0 .. GroupSize(c) - 1 :
              SoFar(c, w0, j, n) = SoFar(c, m0, j, n)
<1> PICK a \in Addr \ (Inputs(c) \cup Outputs(c)) :
      w[a] = w0[a] /\ \A b \in Addr : b # a => w0[b] = m0[b] /\ w[b] = m[b]
  BY DEF Outside
<1> USE DEF Outside
<1>0. c.length \in Nat /\ GroupSize(c) \in Nat
  BY GroupFacts
<1>1. ASSUME NEW i \in 0 .. c.length - 1 PROVE Elem(c, w0, i) = Elem(c, m0, i)
  <2>1. Src(c, i) \div 4 \in Inputs(c)
    BY DEF Inputs
  <2>2. c.src \div 4 + i \in Addr /\ c.src \div 4 + i # a
    BY <2>1, WordsInRange
  <2> QED BY <2>2 DEF Elem
<1>2. ASSUME NEW j \in 0 .. OutWords(c) - 1, NEW n \in 0 .. GroupSize(c) - 1
      PROVE  SoFar(c, w0, j, n) = SoFar(c, m0, j, n)
  <2>1. ASSUME NEW k \in 0 .. n PROVE Value(c, w0, j, k) = Value(c, m0, j, k)
    <3>1. k \in 0 .. GroupSize(c) - 1
      BY <1>0
    <3>2. Member(c, j, k) \in 0 .. c.length - 1
      BY <3>1, GroupFacts
    <3> QED BY <1>1, <3>2 DEF Value
  <2> QED BY <2>1, SoFarLooks
<1>3. ASSUME MemOK(c, m0, m, e) PROVE MemOK(c, w0, w, e)
  <2>1. ASSUME NEW b \in Addr, \A i \in 0 .. e - 1 : WordOf(c, i) # b
        PROVE  w[b] = w0[b]
    <3>1. m[b] = m0[b]
      BY <1>3, <2>1 DEF MemOK
    <3> QED BY <3>1
  <2>2. ASSUME NEW i \in 0 .. e - 1, Latest(c, e, i)
        PROVE  w[WordOf(c, i)] = SoFar(c, w0, OutIndex(c, i), Pos(c, i))
    <3>1. i \in 0 .. c.length - 1
      BY <1>0
    <3>2. WordOf(c, i) \in Addr /\ WordOf(c, i) # a
      BY <3>1, WordsApart
    <3>3. OutIndex(c, i) \in 0 .. OutWords(c) - 1 /\ Pos(c, i) \in 0 .. GroupSize(c) - 1
      BY <3>1, GroupFacts
    <3>4. SoFar(c, w0, OutIndex(c, i), Pos(c, i)) = SoFar(c, m0, OutIndex(c, i), Pos(c, i))
      BY <1>2, <3>3
    <3>5. m[WordOf(c, i)] = SoFar(c, m0, OutIndex(c, i), Pos(c, i))
      BY <1>3, <2>2 DEF MemOK
    <3> QED BY <3>2, <3>4, <3>5
  <2> QED BY <2>1, <2>2 DEF MemOK
<1> QED BY <1>1, <1>2, <1>3

-----------------------------------------------------------------------------
(* The inductive invariant                                                 *)

Active == state_q \notin {"IDLE", "ERROR"}
AtOut  == state_q \in {"READ_PRIOR_REQ", "READ_PRIOR_WAIT", "WRITE_REQ", "WRITE_WAIT"}

\* An active command passed the check, its element exists, a whole-buffer
\* reduction writes after its last element only, and a group's word is read
\* back only when it was written before.
CommandOK ==
  Active =>
    /\ cmd_q \in Cmds /\ Legal(cmd_q) /\ index_q \in 0 .. cmd_q.length - 1
    /\ state_q = "DONE" \/ (IsAll(cmd_q.op) /\ AtOut) => index_q = cmd_q.length - 1
    /\ AtOut => write_addr_q = Dst(cmd_q, OutIndex(cmd_q, index_q))
    /\ state_q \in {"READ_PRIOR_REQ", "READ_PRIOR_WAIT"} =>
         ~IsAll(cmd_q.op) /\ ~FirstInGroup(cmd_q, index_q)

\* The request register holds the access of the state it waits in.
PortOK ==
  /\ vmem_req_q.valid =>
       \/ state_q = "READ_VALUE_REQ" /\ vmem_req_q = ReadOf(Src(cmd_q, index_q))
       \/ state_q = "READ_PRIOR_REQ" /\ vmem_req_q = ReadOf(write_addr_q)
       \/ state_q = "WRITE_REQ" /\ vmem_req_q = WriteOf(write_addr_q, write_value_q)
  /\ ~vmem_resp.error

\* Elements whose write has taken effect.
Written == IF state_q \in {"WRITE_WAIT", "DONE"} THEN index_q + 1
           ELSE IF IsAll(cmd_q.op) THEN 0 ELSE index_q

Group == OutIndex(cmd_q, index_q)
Place == Pos(cmd_q, index_q)

\* The memory holds the partial results of the elements written so far, and
\* the registers hold the current element and its group's partial results.
DataOK ==
  Active /\ NoForwardOverlap(cmd_q) =>
    /\ MemOK(cmd_q, mem0, mem, Written)
    /\ state_q = "READ_VALUE_WAIT" => vmem_resp.rdata = Elem(cmd_q, mem0, index_q)
    /\ state_q \in {"READ_PRIOR_REQ", "READ_PRIOR_WAIT"} => value_q = Elem(cmd_q, mem0, index_q)
    /\ state_q = "READ_PRIOR_WAIT" => vmem_resp.rdata = SoFar(cmd_q, mem0, Group, Place - 1)
    /\ state_q = "WRITE_REQ" => write_value_q = SoFar(cmd_q, mem0, Group, Place)
    /\ IsAll(cmd_q.op) /\ state_q \in {"READ_VALUE_REQ", "READ_VALUE_WAIT"} /\ index_q > 0 =>
         acc_q = SoFar(cmd_q, mem0, 0, index_q - 1)

IInv == TypeOK /\ CommandOK /\ PortOK /\ DataOK

-----------------------------------------------------------------------------
(* The invariant holds initially and is preserved                          *)

LEMMA InitIInv == ASSUME ConstantsOK PROVE Init => IInv
<1> SUFFICES ASSUME NEW memory \in [Addr -> Word], InitWith(memory) PROVE IInv
  BY DEF Init
<1>1. 0 \in Word
  BY WrapFacts
<1>2. TypeOK
  BY <1>1 DEF InitWith, PortInit, NoReq, NoResp, TypeOK, States, PortTypeOK, Cmd
<1>3. ~Active
  BY DEF InitWith, Active
<1>4. PortOK
  BY DEF InitWith, PortInit, NoReq, NoResp, PortOK
<1> QED BY <1>2, <1>3, <1>4 DEF IInv, CommandOK, DataOK

\* The accesses an active command drives have an access's type, and the memory
\* can serve them.
LEMMA Accesses ==
  ASSUME ConstantsOK, TypeOK, CommandOK, Active
  PROVE  /\ ReadOf(Src(cmd_q, index_q)) \in [valid : BOOLEAN, write : BOOLEAN, addr : Nat, wdata : Word]
         /\ Serviceable(ReadOf(Src(cmd_q, index_q)))
         /\ AtOut =>
              /\ ReadOf(write_addr_q) \in [valid : BOOLEAN, write : BOOLEAN, addr : Nat, wdata : Word]
              /\ WriteOf(write_addr_q, write_value_q)
                   \in [valid : BOOLEAN, write : BOOLEAN, addr : Nat, wdata : Word]
              /\ Serviceable(ReadOf(write_addr_q))
              /\ Serviceable(WriteOf(write_addr_q, write_value_q))
              /\ write_addr_q \div 4 = WordOf(cmd_q, index_q)
<1>1. cmd_q \in Cmds /\ Legal(cmd_q) /\ index_q \in 0 .. cmd_q.length - 1
  BY DEF CommandOK
<1>2. 0 \in Word /\ write_value_q \in Word
  BY WrapFacts DEF TypeOK
<1>3. /\ Src(cmd_q, index_q) \in Nat /\ Src(cmd_q, index_q) % 4 = 0
      /\ Src(cmd_q, index_q) \div 4 \in Addr
  BY <1>1, WordsInRange
<1>4. AtOut => /\ write_addr_q \in Nat /\ write_addr_q % 4 = 0 /\ write_addr_q \div 4 \in Addr
               /\ write_addr_q \div 4 = WordOf(cmd_q, index_q)
  <2> SUFFICES ASSUME AtOut
               PROVE  /\ write_addr_q \in Nat /\ write_addr_q % 4 = 0 /\ write_addr_q \div 4 \in Addr
                      /\ write_addr_q \div 4 = WordOf(cmd_q, index_q)
    OBVIOUS
  <2>1. write_addr_q = Dst(cmd_q, OutIndex(cmd_q, index_q))
    BY DEF CommandOK
  <2>2. OutIndex(cmd_q, index_q) \in 0 .. OutWords(cmd_q) - 1
    BY <1>1, GroupFacts
  <2> QED BY <1>1, <2>1, <2>2, WordsInRange DEF WordOf
<1> QED BY <1>2, <1>3, <1>4 DEF ReadOf, WriteOf, Serviceable

\* A request in the register is one the memory can serve.
LEMMA RequestServiceable ==
  ASSUME ConstantsOK, TypeOK, CommandOK, PortOK, vmem_req_q.valid
  PROVE  Serviceable(vmem_req_q)
BY Accesses DEF PortOK, Active, AtOut

\* What a granted request leaves.
LEMMA GrantLeaves ==
  ASSUME ConstantsOK, IInv, NEW state, NEW waiting, Grant(state, waiting)
  PROVE  /\ vmem_req_q' = NoReq /\ vmem_resp'.valid /\ ~vmem_resp'.error
         /\ vmem_resp' \in [valid : BOOLEAN, error : BOOLEAN, rdata : Word]
         /\ ~vmem_req_q.write => /\ vmem_resp'.rdata = mem[vmem_req_q.addr \div 4]
                                 /\ mem' = mem
         /\ vmem_req_q.write => mem' = [mem EXCEPT ![vmem_req_q.addr \div 4] = vmem_req_q.wdata]
         /\ mem' \in [Addr -> Word] /\ mem0' = mem0
<1>1. Serviceable(vmem_req_q)
  BY RequestServiceable DEF IInv, Grant
<1>2. vmem_req_q.addr \div 4 \in Addr /\ mem \in [Addr -> Word] /\ vmem_req_q.wdata \in Word
  BY <1>1 DEF Serviceable, IInv, TypeOK, PortTypeOK
<1>3. 0 \in Word
  BY WrapFacts
<1> QED BY <1>1, <1>2, <1>3 DEF Grant

LEMMA AcceptKeeps ==
  ASSUME ConstantsOK, IInv, NEW c \in Cmds, Accept(c)
  PROVE  IInv'
<1> USE DEF IInv
<1>1. /\ state_q = "IDLE" /\ state_q' = "READ_VALUE_REQ" /\ cmd_q' = c /\ index_q' = 0 /\ Legal(c)
      /\ mem0' = mem /\ mem' = mem
  BY DEF Accept
<1>2. ~vmem_req_q.valid
  BY <1>1 DEF PortOK
<1>3. c.length \in Nat \ {0} /\ c \in Cmd /\ 0 \in Word
  BY <1>1, LegalSays, CommandFields, WrapFacts
<1>4. TypeOK'
  BY <1>1, <1>3 DEF Accept, TypeOK, States, PortTypeOK
<1>5. CommandOK'
  BY <1>1, <1>3 DEF CommandOK, AtOut
<1>6. PortOK'
  BY <1>2 DEF Accept, PortOK
<1>7. MemOK(cmd_q', mem0', mem', Written')
  <2>1. Written' = 0
    BY <1>1 DEF Written
  <2> QED BY <1>1, <2>1, MemStart
<1>8. DataOK'
  BY <1>1, <1>7 DEF DataOK
<1> QED BY <1>4, <1>5, <1>6, <1>8

LEMMA RejectKeeps ==
  ASSUME ConstantsOK, IInv, NEW c \in Cmds, Reject(c)
  PROVE  IInv'
<1> USE DEF IInv
<1>1. /\ state_q = "IDLE" /\ state_q' = "ERROR"
      /\ UNCHANGED <<cmd_q, index_q, acc_q, value_q, write_value_q, write_addr_q, port>>
  BY DEF Reject
<1>2. ~vmem_req_q.valid
  BY <1>1 DEF PortOK
<1>3. TypeOK'
  BY <1>1 DEF Reject, TypeOK, States, PortTypeOK, port
<1>4. ~Active'
  BY <1>1 DEF Active
<1>5. PortOK'
  BY <1>1, <1>2 DEF PortOK, port
<1> QED BY <1>3, <1>4, <1>5 DEF CommandOK, DataOK

\* A request of the current state goes into the register.
LEMMA DriveKeeps ==
  ASSUME ConstantsOK, IInv, UNCHANGED unit, NEW request,
         \/ Drive("READ_VALUE_REQ", request) /\ request = ReadOf(Src(cmd_q, index_q))
         \/ Drive("READ_PRIOR_REQ", request) /\ request = ReadOf(write_addr_q)
         \/ Drive("WRITE_REQ", request) /\ request = WriteOf(write_addr_q, write_value_q)
  PROVE  IInv'
<1> USE DEF IInv
<1>1. /\ state_q \in {"READ_VALUE_REQ", "READ_PRIOR_REQ", "WRITE_REQ"} /\ vmem_req_q' = request
      /\ UNCHANGED <<state_q, vmem_resp, mem, mem0, unit>>
  BY DEF Drive
<1>2. Active /\ (state_q \in {"READ_PRIOR_REQ", "WRITE_REQ"} => AtOut)
  BY <1>1 DEF Active, AtOut
<1>3. vmem_req_q' \in [valid : BOOLEAN, write : BOOLEAN, addr : Nat, wdata : Word]
  BY <1>1, <1>2, Accesses DEF Drive
<1>4. TypeOK'
  BY <1>1, <1>3 DEF TypeOK, PortTypeOK, unit
<1>5. CommandOK'
  BY <1>1 DEF CommandOK, Active, AtOut, unit
<1>6. PortOK'
  BY <1>1 DEF PortOK, Drive, unit
<1>7. DataOK'
  BY <1>1 DEF DataOK, Active, Written, Group, Place, unit
<1> QED BY <1>4, <1>5, <1>6, <1>7

LEMMA ReadValueReqKeeps ==
  ASSUME ConstantsOK, IInv, ReadValueReq
  PROVE  IInv'
<1> USE DEF IInv
<1>1. CASE Drive("READ_VALUE_REQ", ReadOf(Src(cmd_q, index_q)))
  BY <1>1, DriveKeeps DEF ReadValueReq
<1>2. CASE Grant("READ_VALUE_REQ", "READ_VALUE_WAIT")
  <2>1. /\ state_q = "READ_VALUE_REQ" /\ state_q' = "READ_VALUE_WAIT" /\ vmem_req_q.valid
        /\ UNCHANGED <<cmd_q, index_q, acc_q, value_q, write_value_q, write_addr_q, accepted>>
    BY <1>2 DEF Grant, ReadValueReq, unit
  <2>2. vmem_req_q = ReadOf(Src(cmd_q, index_q))
    BY <2>1 DEF PortOK
  <2>3. /\ vmem_req_q' = NoReq /\ ~vmem_resp'.error /\ mem' = mem /\ mem0' = mem0
        /\ vmem_resp' \in [valid : BOOLEAN, error : BOOLEAN, rdata : Word]
        /\ vmem_resp'.rdata = mem[Src(cmd_q, index_q) \div 4]
    BY <1>2, <2>2, GrantLeaves DEF ReadOf
  <2>4. TypeOK'
    BY <2>1, <2>3, WrapFacts DEF TypeOK, PortTypeOK, States, NoReq
  <2>5. CommandOK'
    BY <2>1 DEF CommandOK, Active, AtOut
  <2>6. PortOK'
    BY <2>3 DEF PortOK, NoReq
  <2>7. DataOK'
    <3>1. SUFFICES ASSUME NoForwardOverlap(cmd_q) PROVE DataOK'
      BY <2>1 DEF DataOK
    <3>2. /\ cmd_q \in Cmds /\ Legal(cmd_q) /\ index_q \in 0 .. cmd_q.length - 1
          /\ index_q \in Nat
      BY <2>1 DEF CommandOK, Active, TypeOK
    <3>3. /\ MemOK(cmd_q, mem0, mem, Written) /\ Written' = Written
          /\ Written = IF IsAll(cmd_q.op) THEN 0 ELSE index_q
      BY <2>1, <3>1 DEF DataOK, Active, Written
    <3>4. Written \in 0 .. index_q /\ (IsAll(cmd_q.op) => Written = 0)
      BY <3>2, <3>3
    <3>5. vmem_resp'.rdata = Elem(cmd_q, mem0, index_q)
      BY <2>3, <3>1, <3>2, <3>3, <3>4, MemElement
    <3>6. IsAll(cmd_q.op) /\ index_q > 0 => acc_q = SoFar(cmd_q, mem0, 0, index_q - 1)
      BY <2>1, <3>1 DEF DataOK, Active
    <3> QED BY <2>1, <2>3, <3>3, <3>5, <3>6 DEF DataOK
  <2> QED BY <2>4, <2>5, <2>6, <2>7
<1> QED BY <1>1, <1>2 DEF ReadValueReq

LEMMA ReadPriorReqKeeps ==
  ASSUME ConstantsOK, IInv, ReadPriorReq
  PROVE  IInv'
<1> USE DEF IInv
<1>1. CASE Drive("READ_PRIOR_REQ", ReadOf(write_addr_q))
  BY <1>1, DriveKeeps DEF ReadPriorReq
<1>2. CASE Grant("READ_PRIOR_REQ", "READ_PRIOR_WAIT")
  <2>1. /\ state_q = "READ_PRIOR_REQ" /\ state_q' = "READ_PRIOR_WAIT" /\ vmem_req_q.valid
        /\ UNCHANGED <<cmd_q, index_q, acc_q, value_q, write_value_q, write_addr_q, accepted>>
    BY <1>2 DEF Grant, ReadPriorReq, unit
  <2>2. vmem_req_q = ReadOf(write_addr_q)
    BY <2>1 DEF PortOK
  <2>3. /\ vmem_req_q' = NoReq /\ ~vmem_resp'.error /\ mem' = mem /\ mem0' = mem0
        /\ vmem_resp' \in [valid : BOOLEAN, error : BOOLEAN, rdata : Word]
        /\ vmem_resp'.rdata = mem[write_addr_q \div 4]
    BY <1>2, <2>2, GrantLeaves DEF ReadOf
  <2>4. TypeOK'
    BY <2>1, <2>3, WrapFacts DEF TypeOK, PortTypeOK, States, NoReq
  <2>5. CommandOK'
    BY <2>1 DEF CommandOK, Active, AtOut
  <2>6. PortOK'
    BY <2>3 DEF PortOK, NoReq
  <2>7. DataOK'
    <3>1. SUFFICES ASSUME NoForwardOverlap(cmd_q) PROVE DataOK'
      BY <2>1 DEF DataOK
    <3>2. /\ cmd_q \in Cmds /\ Legal(cmd_q) /\ index_q \in 0 .. cmd_q.length - 1
          /\ ~IsAll(cmd_q.op) /\ ~FirstInGroup(cmd_q, index_q)
      BY <2>1 DEF CommandOK, Active
    <3>3. /\ MemOK(cmd_q, mem0, mem, Written) /\ Written' = Written /\ Written = index_q
          /\ value_q = Elem(cmd_q, mem0, index_q)
      BY <2>1, <3>1, <3>2 DEF DataOK, Active, Written
    <3>4. write_addr_q \div 4 = WordOf(cmd_q, index_q)
      BY <2>1, Accesses DEF Active, AtOut
    <3>5. vmem_resp'.rdata = SoFar(cmd_q, mem0, Group, Place - 1)
      BY <2>3, <3>2, <3>3, <3>4, MemPrior DEF Group, Place
    <3>6. Group' = Group /\ Place' = Place
      BY <2>1 DEF Group, Place
    <3> QED BY <2>1, <2>3, <3>3, <3>5, <3>6 DEF DataOK
  <2> QED BY <2>4, <2>5, <2>6, <2>7
<1> QED BY <1>1, <1>2 DEF ReadPriorReq

LEMMA WriteReqKeeps ==
  ASSUME ConstantsOK, IInv, WriteReq
  PROVE  IInv'
<1> USE DEF IInv
<1>1. CASE Drive("WRITE_REQ", WriteOf(write_addr_q, write_value_q))
  BY <1>1, DriveKeeps DEF WriteReq
<1>2. CASE Grant("WRITE_REQ", "WRITE_WAIT")
  <2>1. /\ state_q = "WRITE_REQ" /\ state_q' = "WRITE_WAIT" /\ vmem_req_q.valid
        /\ UNCHANGED <<cmd_q, index_q, acc_q, value_q, write_value_q, write_addr_q, accepted>>
    BY <1>2 DEF Grant, WriteReq, unit
  <2>2. vmem_req_q = WriteOf(write_addr_q, write_value_q)
    BY <2>1 DEF PortOK
  <2>3. /\ vmem_req_q' = NoReq /\ ~vmem_resp'.error /\ mem0' = mem0
        /\ vmem_resp' \in [valid : BOOLEAN, error : BOOLEAN, rdata : Word]
        /\ mem' = [mem EXCEPT ![write_addr_q \div 4] = write_value_q]
        /\ mem' \in [Addr -> Word]
    BY <1>2, <2>2, GrantLeaves DEF WriteOf
  <2>4. TypeOK'
    BY <2>1, <2>3, WrapFacts DEF TypeOK, PortTypeOK, States, NoReq
  <2>5. CommandOK'
    BY <2>1 DEF CommandOK, Active, AtOut
  <2>6. PortOK'
    BY <2>3 DEF PortOK, NoReq
  <2>7. DataOK'
    <3>1. SUFFICES ASSUME NoForwardOverlap(cmd_q) PROVE DataOK'
      BY <2>1 DEF DataOK
    <3>2. /\ cmd_q \in Cmds /\ Legal(cmd_q) /\ index_q \in 0 .. cmd_q.length - 1
          /\ index_q \in Nat /\ mem \in [Addr -> Word]
      BY <2>1 DEF CommandOK, Active, TypeOK, PortTypeOK
    <3>3. /\ MemOK(cmd_q, mem0, mem, Written)
          /\ Written = IF IsAll(cmd_q.op) THEN 0 ELSE index_q
          /\ write_value_q = SoFar(cmd_q, mem0, Group, Place)
      BY <2>1, <3>1 DEF DataOK, Active, Written
    <3>4. Written \in 0 .. index_q /\ (IsAll(cmd_q.op) \/ Written = index_q)
      BY <3>2, <3>3
    <3>5. write_addr_q \div 4 = WordOf(cmd_q, index_q)
      BY <2>1, Accesses DEF Active, AtOut
    <3>6. mem' = [mem EXCEPT ![WordOf(cmd_q, index_q)] =
                   SoFar(cmd_q, mem0, OutIndex(cmd_q, index_q), Pos(cmd_q, index_q))]
      BY <2>3, <3>3, <3>5 DEF Group, Place
    <3>7. MemOK(cmd_q, mem0, mem', index_q + 1)
      BY <3>2, <3>3, <3>4, <3>6, MemWrites
    <3>8. Written' = index_q + 1
      BY <2>1 DEF Written
    <3> QED BY <2>1, <2>3, <3>7, <3>8 DEF DataOK
  <2> QED BY <2>4, <2>5, <2>6, <2>7
<1> QED BY <1>1, <1>2 DEF WriteReq

\* In a whole-buffer reduction the elements are the only group.
LEMMA WholeBuffer ==
  ASSUME ConstantsOK, NEW c \in Cmds, Legal(c), IsAll(c.op), NEW i \in 0 .. c.length - 1, NEW m
  PROVE  /\ OutIndex(c, i) = 0 /\ Pos(c, i) = i /\ 0 \in 0 .. OutWords(c) - 1
         /\ GroupSize(c) = c.length /\ Value(c, m, 0, i) = Elem(c, m, i)
BY DEF OutIndex, Pos, OutWords, GroupSize, Value, Member

LEMMA AccumulateKeeps ==
  ASSUME ConstantsOK, IInv, Accumulate
  PROVE  IInv'
<1> USE DEF IInv
<1> DEFINE last  == index_q = cmd_q.length - 1
           total == IF index_q = 0 THEN Addend(cmd_q.op, vmem_resp.rdata)
                    ELSE Combine(cmd_q.op, acc_q, vmem_resp.rdata)
<1>1. /\ state_q = "READ_VALUE_WAIT" /\ state_q' = (IF last THEN "WRITE_REQ" ELSE "READ_VALUE_REQ")
      /\ IsAll(cmd_q.op) /\ value_q' = vmem_resp.rdata /\ acc_q' = total /\ vmem_resp' = NoResp
      /\ last => write_addr_q' = cmd_q.dst /\ write_value_q' = total /\ index_q' = index_q
      /\ ~last => index_q' = index_q + 1 /\ UNCHANGED <<write_addr_q, write_value_q>>
      /\ UNCHANGED <<cmd_q, accepted, vmem_req_q, mem, mem0>>
  BY DEF Accumulate, Answered, PortOK
<1>2. /\ cmd_q \in Cmds /\ Legal(cmd_q) /\ index_q \in 0 .. cmd_q.length - 1
      /\ index_q \in Nat /\ cmd_q.length \in Nat /\ cmd_q.dst \in Nat
  BY <1>1, CommandFields DEF CommandOK, Active, TypeOK
<1>3. ~vmem_req_q.valid
  BY <1>1 DEF PortOK
<1>4. total \in Word /\ vmem_resp.rdata \in Word /\ 0 \in Word
  <2>1. vmem_resp.rdata \in Word /\ acc_q \in Word
    BY DEF TypeOK, PortTypeOK
  <2> QED BY <1>2, <2>1, CombineIsWord, WrapFacts
<1>5. OutIndex(cmd_q, index_q) = 0 /\ Pos(cmd_q, index_q) = index_q
  BY <1>1, <1>2, WholeBuffer
<1> HIDE DEF total
<1>6. TypeOK'
  BY <1>1, <1>2, <1>4 DEF TypeOK, PortTypeOK, States, NoResp
<1>7. CommandOK'
  BY <1>1, <1>2, <1>5 DEF CommandOK, Active, AtOut, Dst
<1>8. PortOK'
  BY <1>1, <1>3 DEF PortOK, NoResp
<1>9. DataOK'
  <2>1. SUFFICES ASSUME NoForwardOverlap(cmd_q) PROVE DataOK'
    BY <1>1 DEF DataOK
  <2>2. /\ MemOK(cmd_q, mem0, mem, 0) /\ vmem_resp.rdata = Elem(cmd_q, mem0, index_q)
        /\ index_q > 0 => acc_q = SoFar(cmd_q, mem0, 0, index_q - 1)
    BY <1>1, <2>1 DEF DataOK, Active, Written
  <2>3. /\ 0 \in 0 .. OutWords(cmd_q) - 1 /\ GroupSize(cmd_q) = cmd_q.length
        /\ Value(cmd_q, mem0, 0, index_q) = vmem_resp.rdata
    BY <1>1, <1>2, <2>2, WholeBuffer
  <2>4. mem0 \in [Addr -> Word]
    BY DEF TypeOK, PortTypeOK
  <2>5. total = SoFar(cmd_q, mem0, 0, index_q)
    <3>1. CASE index_q = 0
      BY <1>2, <2>3, <2>4, <3>1, SoFarFirst DEF total
    <3>2. CASE index_q # 0
      <4>1. index_q \in 1 .. GroupSize(cmd_q) - 1 /\ index_q > 0
        BY <1>2, <2>3, <3>2
      <4>2. SoFar(cmd_q, mem0, 0, index_q) =
              Combine(cmd_q.op, SoFar(cmd_q, mem0, 0, index_q - 1), Value(cmd_q, mem0, 0, index_q))
        BY <1>2, <2>3, <2>4, <4>1, SoFarNext
      <4> QED BY <2>2, <2>3, <3>2, <4>1, <4>2 DEF total
    <3> QED BY <3>1, <3>2
  <2>6. Written' = 0
    BY <1>1 DEF Written
  <2>7. CASE last
    <3>1. Group' = 0 /\ Place' = index_q
      BY <1>1, <1>5, <2>7 DEF Group, Place
    <3> QED BY <1>1, <2>2, <2>5, <2>6, <2>7, <3>1 DEF DataOK
  <2>8. CASE ~last
    <3>1. index_q' - 1 = index_q
      BY <1>1, <1>2, <2>8
    <3> QED BY <1>1, <2>2, <2>5, <2>6, <2>8, <3>1 DEF DataOK
  <2> QED BY <2>7, <2>8
<1> QED BY <1>6, <1>7, <1>8, <1>9

LEMMA SelectKeeps ==
  ASSUME ConstantsOK, IInv, Select
  PROVE  IInv'
<1> USE DEF IInv
<1> DEFINE first == FirstInGroup(cmd_q, index_q)
<1>1. /\ state_q = "READ_VALUE_WAIT" /\ state_q' = (IF first THEN "WRITE_REQ" ELSE "READ_PRIOR_REQ")
      /\ ~IsAll(cmd_q.op) /\ value_q' = vmem_resp.rdata /\ vmem_resp' = NoResp
      /\ write_addr_q' = Dst(cmd_q, OutIndex(cmd_q, index_q))
      /\ write_value_q' = IF first THEN vmem_resp.rdata ELSE write_value_q
      /\ UNCHANGED <<cmd_q, index_q, acc_q, accepted, vmem_req_q, mem, mem0>>
  BY DEF Select, Answered, PortOK
<1>2. /\ cmd_q \in Cmds /\ Legal(cmd_q) /\ index_q \in 0 .. cmd_q.length - 1
      /\ index_q \in Nat
  BY <1>1 DEF CommandOK, Active, TypeOK
<1>3. ~vmem_req_q.valid
  BY <1>1 DEF PortOK
<1>4. vmem_resp.rdata \in Word /\ 0 \in Word
  BY WrapFacts DEF TypeOK, PortTypeOK
<1>5. /\ OutIndex(cmd_q, index_q) \in 0 .. OutWords(cmd_q) - 1
      /\ Pos(cmd_q, index_q) \in 0 .. GroupSize(cmd_q) - 1
      /\ Member(cmd_q, OutIndex(cmd_q, index_q), Pos(cmd_q, index_q)) = index_q
      /\ first => Pos(cmd_q, index_q) = 0
  BY <1>2, GroupFacts
<1>6. Dst(cmd_q, OutIndex(cmd_q, index_q)) \in Nat
  BY <1>2, <1>5, WordsInRange
<1>7. TypeOK'
  BY <1>1, <1>4, <1>6 DEF TypeOK, PortTypeOK, States, NoResp
<1>8. CommandOK'
  BY <1>1, <1>2 DEF CommandOK, Active, AtOut
<1>9. PortOK'
  BY <1>1, <1>3 DEF PortOK, NoResp
<1>10. DataOK'
  <2>1. SUFFICES ASSUME NoForwardOverlap(cmd_q) PROVE DataOK'
    BY <1>1 DEF DataOK
  <2>2. /\ MemOK(cmd_q, mem0, mem, Written) /\ vmem_resp.rdata = Elem(cmd_q, mem0, index_q)
        /\ Written' = Written
    BY <1>1, <2>1 DEF DataOK, Active, Written
  <2>3. Group' = OutIndex(cmd_q, index_q) /\ Place' = Pos(cmd_q, index_q)
    BY <1>1 DEF Group, Place
  <2>4. CASE first
    <3>1. mem0 \in [Addr -> Word]
      BY DEF TypeOK, PortTypeOK
    <3>2. Value(cmd_q, mem0, Group', 0) = vmem_resp.rdata /\ Place' = 0
      BY <1>5, <2>2, <2>3, <2>4 DEF Value
    <3>3. Addend(cmd_q.op, vmem_resp.rdata) = vmem_resp.rdata
      BY <1>1 DEF Addend, IsAll, FSUMSQ_ALL
    <3>4. write_value_q' = SoFar(cmd_q, mem0, Group', Place')
      BY <1>1, <1>2, <1>5, <2>3, <2>4, <3>1, <3>2, <3>3, SoFarFirst
    <3> QED BY <1>1, <2>2, <2>4, <3>4 DEF DataOK
  <2>5. CASE ~first
    BY <1>1, <2>2, <2>5 DEF DataOK
  <2> QED BY <2>4, <2>5
<1> QED BY <1>7, <1>8, <1>9, <1>10

LEMMA ReadPriorWaitKeeps ==
  ASSUME ConstantsOK, IInv, ReadPriorWait
  PROVE  IInv'
<1> USE DEF IInv
<1>1. /\ state_q = "READ_PRIOR_WAIT" /\ state_q' = "WRITE_REQ" /\ vmem_resp' = NoResp
      /\ write_value_q' = Combine(cmd_q.op, vmem_resp.rdata, value_q)
      /\ UNCHANGED <<cmd_q, index_q, acc_q, value_q, write_addr_q, accepted, vmem_req_q, mem, mem0>>
  BY DEF ReadPriorWait, Answered, PortOK
<1>2. /\ cmd_q \in Cmds /\ Legal(cmd_q) /\ index_q \in 0 .. cmd_q.length - 1
      /\ ~IsAll(cmd_q.op) /\ ~FirstInGroup(cmd_q, index_q)
  BY <1>1 DEF CommandOK, Active
<1>3. ~vmem_req_q.valid
  BY <1>1 DEF PortOK
<1>4. vmem_resp.rdata \in Word /\ value_q \in Word /\ 0 \in Word
  BY WrapFacts DEF TypeOK, PortTypeOK
<1>5. write_value_q' \in Word
  BY <1>1, <1>2, <1>4, CombineIsWord
<1>6. TypeOK'
  BY <1>1, <1>4, <1>5 DEF TypeOK, PortTypeOK, States, NoResp
<1>7. CommandOK'
  BY <1>1 DEF CommandOK, Active, AtOut
<1>8. PortOK'
  BY <1>1, <1>3 DEF PortOK, NoResp
<1>9. DataOK'
  <2>1. SUFFICES ASSUME NoForwardOverlap(cmd_q) PROVE DataOK'
    BY <1>1 DEF DataOK
  <2>2. /\ MemOK(cmd_q, mem0, mem, Written) /\ Written' = Written
        /\ value_q = Elem(cmd_q, mem0, index_q)
        /\ vmem_resp.rdata = SoFar(cmd_q, mem0, Group, Place - 1)
    BY <1>1, <2>1 DEF DataOK, Active, Written
  <2>3. /\ Group \in 0 .. OutWords(cmd_q) - 1 /\ Place \in 1 .. GroupSize(cmd_q) - 1
        /\ Member(cmd_q, Group, Place) = index_q
    BY <1>2, GroupFacts DEF Group, Place
  <2>4. Value(cmd_q, mem0, Group, Place) = value_q
    BY <2>2, <2>3 DEF Value
  <2>5. mem0 \in [Addr -> Word]
    BY DEF TypeOK, PortTypeOK
  <2>6. SoFar(cmd_q, mem0, Group, Place) =
          Combine(cmd_q.op, SoFar(cmd_q, mem0, Group, Place - 1), Value(cmd_q, mem0, Group, Place))
    BY <1>2, <2>3, <2>5, SoFarNext
  <2>7. Group' = Group /\ Place' = Place
    BY <1>1 DEF Group, Place
  <2> QED BY <1>1, <2>2, <2>4, <2>6, <2>7 DEF DataOK
<1> QED BY <1>6, <1>7, <1>8, <1>9

LEMMA WriteWaitKeeps ==
  ASSUME ConstantsOK, IInv, WriteWait
  PROVE  IInv'
<1> USE DEF IInv
<1> DEFINE last == cmd_q.op <= 1 \/ index_q = cmd_q.length - 1
<1>1. /\ state_q = "WRITE_WAIT" /\ state_q' = (IF last THEN "DONE" ELSE "READ_VALUE_REQ")
      /\ vmem_resp' = NoResp /\ index_q' = IF last THEN index_q ELSE index_q + 1
      /\ UNCHANGED <<cmd_q, acc_q, value_q, write_value_q, write_addr_q, accepted,
                     vmem_req_q, mem, mem0>>
  BY DEF WriteWait, Answered, PortOK
<1>2. /\ cmd_q \in Cmds /\ Legal(cmd_q) /\ index_q \in 0 .. cmd_q.length - 1
      /\ index_q \in Nat /\ cmd_q.length \in Nat /\ cmd_q.op \in 0 .. 10
      /\ IsAll(cmd_q.op) => index_q = cmd_q.length - 1
  BY <1>1, LegalSays DEF CommandOK, Active, AtOut, TypeOK
<1>3. last => index_q = cmd_q.length - 1
  BY <1>2 DEF IsAll
<1>4. ~vmem_req_q.valid
  BY <1>1 DEF PortOK
<1>5. TypeOK'
  <2>1. 0 \in Word
    BY WrapFacts
  <2> QED BY <1>1, <1>2, <2>1 DEF TypeOK, PortTypeOK, States, NoResp
<1>6. CommandOK'
  BY <1>1, <1>2, <1>3 DEF CommandOK, Active, AtOut
<1>7. PortOK'
  BY <1>1, <1>4 DEF PortOK, NoResp
<1>8. DataOK'
  <2>1. SUFFICES ASSUME NoForwardOverlap(cmd_q) PROVE DataOK'
    BY <1>1 DEF DataOK
  <2>2. MemOK(cmd_q, mem0, mem, index_q + 1)
    BY <1>1, <2>1 DEF DataOK, Active, Written
  <2>3. CASE last
    <3>1. Written' = index_q + 1
      BY <1>1, <2>3 DEF Written
    <3> QED BY <1>1, <2>2, <2>3, <3>1 DEF DataOK
  <2>4. CASE ~last
    <3>1. ~IsAll(cmd_q.op)
      BY <1>2, <2>4
    <3>2. Written' = index_q + 1
      BY <1>1, <2>4, <3>1 DEF Written
    <3> QED BY <1>1, <2>2, <2>4, <3>1, <3>2 DEF DataOK
  <2> QED BY <2>3, <2>4
<1> QED BY <1>5, <1>6, <1>7, <1>8

LEMMA DoneKeeps ==
  ASSUME IInv, Done
  PROVE  IInv'
<1> USE DEF IInv
<1>1. state_q = "DONE" /\ state_q' = "IDLE" /\ UNCHANGED <<port, unit>>
  BY DEF Done
<1>2. TypeOK'
  BY <1>1 DEF TypeOK, PortTypeOK, States, port, unit
<1>3. ~Active'
  BY <1>1 DEF Active
<1>4. PortOK'
  BY <1>1 DEF PortOK, port
<1> QED BY <1>2, <1>3, <1>4 DEF CommandOK, DataOK

LEMMA OtherPortKeeps ==
  ASSUME ConstantsOK, IInv, OtherPort
  PROVE  IInv'
<1> USE DEF IInv
<1>1. PICK a \in Addr \ (Inputs(cmd_q) \cup Outputs(cmd_q)), v \in Values :
        /\ mem' = [mem EXCEPT ![a] = v] /\ mem0' = [mem0 EXCEPT ![a] = v]
        /\ UNCHANGED <<state_q, vmem_req_q, vmem_resp>>
  BY DEF OtherPort, OtherPortWrites
<1>2. /\ UNCHANGED <<cmd_q, index_q, acc_q, value_q, write_value_q, write_addr_q, accepted>>
      /\ v \in Word
  BY DEF OtherPort, unit
<1>3. TypeOK'
  BY <1>1, <1>2 DEF TypeOK, PortTypeOK
<1>4. CommandOK'
  BY <1>1, <1>2 DEF CommandOK, Active, AtOut
<1>5. PortOK'
  BY <1>1, <1>2 DEF PortOK
<1>6. DataOK'
  <2>1. SUFFICES ASSUME Active, NoForwardOverlap(cmd_q) PROVE DataOK'
    BY <1>1, <1>2 DEF DataOK, Active
  <2>2. /\ cmd_q \in Cmds /\ Legal(cmd_q) /\ index_q \in 0 .. cmd_q.length - 1
        /\ index_q \in Nat /\ cmd_q.length \in Nat
        /\ state_q \in {"READ_PRIOR_REQ", "READ_PRIOR_WAIT"} =>
             ~IsAll(cmd_q.op) /\ ~FirstInGroup(cmd_q, index_q)
    BY <2>1, LegalSays DEF CommandOK, TypeOK
  <2>3. Written \in 0 .. cmd_q.length /\ Written' = Written /\ Group' = Group /\ Place' = Place
    BY <1>1, <1>2, <2>2 DEF Written, Group, Place
  <2>4. /\ Group \in 0 .. OutWords(cmd_q) - 1 /\ Place \in 0 .. GroupSize(cmd_q) - 1
        /\ state_q = "READ_PRIOR_WAIT" => Place - 1 \in 0 .. GroupSize(cmd_q) - 1
    <3>1. /\ Group \in 0 .. OutWords(cmd_q) - 1 /\ Place \in 0 .. GroupSize(cmd_q) - 1
          /\ Place = 0 => FirstInGroup(cmd_q, index_q)
          /\ GroupSize(cmd_q) \in Nat
      BY <2>2, GroupFacts DEF Group, Place
    <3> QED BY <2>2, <3>1
  <2>5. IsAll(cmd_q.op) /\ index_q > 0 =>
          0 \in 0 .. OutWords(cmd_q) - 1 /\ index_q - 1 \in 0 .. GroupSize(cmd_q) - 1
    BY <2>2, WholeBuffer
  <2>6. /\ mem \in [Addr -> Word] /\ mem0 \in [Addr -> Word]
        /\ mem' \in [Addr -> Word] /\ mem0' \in [Addr -> Word] /\ mem'[a] = mem0'[a]
        /\ \A b \in Addr : b # a => mem0'[b] = mem0[b] /\ mem'[b] = mem[b]
    BY <1>1, <1>2 DEF TypeOK, PortTypeOK
  <2>7. /\ MemOK(cmd_q, mem0, mem, Written) => MemOK(cmd_q, mem0', mem', Written)
        /\ \A i \in 0 .. cmd_q.length - 1 : Elem(cmd_q, mem0', i) = Elem(cmd_q, mem0, i)
        /\ \A j \in 0 .. OutWords(cmd_q) - 1, n \in 0 .. GroupSize(cmd_q) - 1 :
             SoFar(cmd_q, mem0', j, n) = SoFar(cmd_q, mem0, j, n)
    <3>1. Outside(cmd_q, mem0, mem, mem0', mem')
      BY <1>1, <2>6 DEF Outside
    <3> QED BY <2>2, <2>3, <3>1, MemCommutes
  <2>8. /\ MemOK(cmd_q, mem0, mem, Written)
        /\ state_q = "READ_VALUE_WAIT" => vmem_resp.rdata = Elem(cmd_q, mem0, index_q)
        /\ state_q \in {"READ_PRIOR_REQ", "READ_PRIOR_WAIT"} => value_q = Elem(cmd_q, mem0, index_q)
        /\ state_q = "READ_PRIOR_WAIT" => vmem_resp.rdata = SoFar(cmd_q, mem0, Group, Place - 1)
        /\ state_q = "WRITE_REQ" => write_value_q = SoFar(cmd_q, mem0, Group, Place)
        /\ IsAll(cmd_q.op) /\ state_q \in {"READ_VALUE_REQ", "READ_VALUE_WAIT"} /\ index_q > 0 =>
             acc_q = SoFar(cmd_q, mem0, 0, index_q - 1)
    BY <2>1 DEF DataOK
  <2>9. /\ MemOK(cmd_q, mem0', mem', Written')
        /\ state_q = "READ_VALUE_WAIT" => vmem_resp.rdata = Elem(cmd_q, mem0', index_q)
        /\ state_q \in {"READ_PRIOR_REQ", "READ_PRIOR_WAIT"} => value_q = Elem(cmd_q, mem0', index_q)
        /\ state_q = "READ_PRIOR_WAIT" => vmem_resp.rdata = SoFar(cmd_q, mem0', Group', Place' - 1)
        /\ state_q = "WRITE_REQ" => write_value_q = SoFar(cmd_q, mem0', Group', Place')
        /\ IsAll(cmd_q.op) /\ state_q \in {"READ_VALUE_REQ", "READ_VALUE_WAIT"} /\ index_q > 0 =>
             acc_q = SoFar(cmd_q, mem0', 0, index_q - 1)
    BY <2>2, <2>3, <2>4, <2>5, <2>7, <2>8
  <2> QED BY <1>1, <1>2, <2>9 DEF DataOK
<1> QED BY <1>3, <1>4, <1>5, <1>6

LEMMA NextIInv == ASSUME ConstantsOK PROVE IInv /\ [Next]_vars => IInv'
<1> SUFFICES ASSUME IInv, [Next]_vars PROVE IInv'
  OBVIOUS
<1>1. CASE \E c \in Cmds : Accept(c) \/ Reject(c)
  BY <1>1, AcceptKeeps, RejectKeeps
<1>2. CASE ReadValueReq
  BY <1>2, ReadValueReqKeeps
<1>3. CASE Accumulate
  BY <1>3, AccumulateKeeps
<1>4. CASE Select
  BY <1>4, SelectKeeps
<1>5. CASE ReadPriorReq
  BY <1>5, ReadPriorReqKeeps
<1>6. CASE ReadPriorWait
  BY <1>6, ReadPriorWaitKeeps
<1>7. CASE WriteReq
  BY <1>7, WriteReqKeeps
<1>8. CASE WriteWait
  BY <1>8, WriteWaitKeeps
<1>9. CASE Done
  BY <1>9, DoneKeeps
<1>10. CASE OtherPort
  BY <1>10, OtherPortKeeps
<1>11. CASE UNCHANGED vars
  BY <1>11
  DEF vars, port, unit, IInv, TypeOK, PortTypeOK, CommandOK, PortOK, DataOK, Active, AtOut,
      Written, Group, Place
<1> QED
  BY <1>1, <1>2, <1>3, <1>4, <1>5, <1>6, <1>7, <1>8, <1>9, <1>10, <1>11 DEF Next, UnitStep, Rest

-----------------------------------------------------------------------------
(* Theorems                                                                *)

\* IInv is an invariant: registers, request and partial results agree in every state.
THEOREM Invariant == ASSUME ConstantsOK PROVE Spec => []IInv
<1>1. Init => IInv
  BY InitIInv
<1>2. IInv /\ [Next]_vars => IInv'
  BY NextIInv
<1> QED BY <1>1, <1>2, PTL DEF Spec

\* Every register of reduce_unit keeps its type: partial results stay words.
THEOREM TypeCorrect == ASSUME ConstantsOK PROVE Spec => []TypeOK
<1>1. Spec => []IInv
  BY Invariant
<1>2. IInv => TypeOK
  BY DEF IInv
<1> QED BY <1>1, <1>2, PTL

\* A finished reduction leaves exactly the golden model's reduction of every
\* group, for any lengths, shapes and widths, unless a destination word is
\* written before an element it covers is read.
THEOREM GoldenResult == ASSUME ConstantsOK PROVE Spec => []MatchesGolden
<1>1. Spec => []IInv
  BY Invariant
<1>2. IInv => MatchesGolden
  <2>1. SUFFICES ASSUME IInv, state_q = "DONE", NoForwardOverlap(cmd_q)
                 PROVE  mem = GoldenReduce(cmd_q, mem0)
    BY DEF MatchesGolden
  <2>2. /\ MemOK(cmd_q, mem0, mem, index_q + 1) /\ index_q = cmd_q.length - 1
        /\ cmd_q \in Cmds /\ Legal(cmd_q) /\ mem \in [Addr -> Word] /\ mem0 \in [Addr -> Word]
    BY <2>1 DEF IInv, TypeOK, PortTypeOK, DataOK, CommandOK, Active, Written
  <2>3. index_q + 1 = cmd_q.length
    BY <2>2, LegalSays
  <2> QED BY <2>2, <2>3, MemEnd
<1> QED BY <1>1, <1>2, PTL

\* The check at accept covers every access, the partial results included: no
\* response of the VMEM to an accepted reduction carries an error.
THEOREM NoFaults == ASSUME ConstantsOK PROVE Spec => []NeverFaults
<1>1. Spec => []IInv
  BY Invariant
<1>2. IInv => NeverFaults
  BY RequestServiceable DEF IInv, PortOK, NeverFaults
<1> QED BY <1>1, <1>2, PTL
=============================================================================
