-------------------------- MODULE DmaEngine_proofs --------------------------
(***************************************************************************)
(* Proofs about DmaEngine, for any memories, commands and HBM latency and  *)
(* any grants: the engine implements the word-at-a-time copy of DmaCopy,   *)
(* no access leaves its memory, and a finished command has left what the   *)
(* golden model leaves.                                                    *)
(***************************************************************************)
EXTENDS DmaEngine, TLAPS

-----------------------------------------------------------------------------
(* Addresses                                                                *)

\* The addition of 32-bit numbers wraps at most once.
LEMMA WrapsOnce ==
  ASSUME NEW A \in Nat, A > 0, NEW x \in Nat, x >= A
  PROVE  x % A <= x - A
OBVIOUS

\* A multiple of four is four times its quarter.
LEMMA Quarter ==
  ASSUME NEW n \in Nat, n % 4 = 0
  PROVE  n \div 4 \in Nat /\ n = 4 * (n \div 4)
OBVIOUS

\* The range check lets no sum pass that has wrapped.
LEMMA NoWrap ==
  ASSUME ConstantsOK, NEW s \in Space, NEW addr \in 0 .. AddrMod - 1, NEW len \in 0 .. AddrMod - 1,
         Copy!RangeOK(s, addr, len)
  PROVE  addr + len <= Bytes[s]
<1>1. AddrMod \in Nat \ {0} /\ Bytes[s] \in Nat
  BY DEF ConstantsOK, Copy!SizesOK
<1>2. (addr + len) % AddrMod <= Bytes[s] /\ (addr + len) % AddrMod >= addr
  BY DEF Copy!RangeOK
<1>3. CASE addr + len < AddrMod
  <2>1. (addr + len) % AddrMod = addr + len
    BY <1>1, <1>3
  <2> QED BY <1>2, <2>1
<1>4. CASE addr + len >= AddrMod
  <2>1. (addr + len) % AddrMod <= addr + len - AddrMod
    <3>1. addr + len \in Nat /\ AddrMod > 0
      BY <1>1
    <3> QED BY <1>1, <1>4, <3>1, WrapsOnce
  <2>2. (addr + len) % AddrMod \in Int
    BY <1>1
  <2> QED BY <1>1, <1>2, <2>1, <2>2
<1> QED BY <1>1, <1>3, <1>4

\* A command that passes the checks of ST_IDLE
Legal(c) == c \in Cmds /\ Copy!Verdict(c) = "NONE"

\* What the checks say of it.
LEMMA LegalSays ==
  ASSUME ConstantsOK, NEW c, Legal(c)
  PROVE  /\ c.src \in Space /\ c.dst \in Space
         /\ c.from \in Nat /\ c.to \in Nat /\ c.len \in Nat
         /\ c.from % 4 = 0 /\ c.to % 4 = 0 /\ c.len % 4 = 0
         /\ Bytes[c.src] \in Nat /\ Bytes[c.dst] \in Nat
         /\ Bytes[c.src] % 4 = 0 /\ Bytes[c.dst] % 4 = 0
         /\ c.from + c.len <= Bytes[c.src] /\ c.to + c.len <= Bytes[c.dst]
<1>1. Copy!IsCmd(c) /\ c \in Cmds
  BY DEF ConstantsOK, Legal
<1>2. /\ Copy!ValidSpaces(c) /\ Copy!Aligned(c)
      /\ Copy!RangeOK(c.src, c.from, c.len) /\ Copy!RangeOK(c.dst, c.to, c.len)
  BY DEF Legal, Copy!Verdict
<1>3. c.src \in Space /\ c.dst \in Space
  BY <1>2 DEF Copy!ValidSpaces
<1>4. /\ c.from \in 0 .. AddrMod - 1 /\ c.to \in 0 .. AddrMod - 1 /\ c.len \in 0 .. AddrMod - 1
  BY <1>1 DEF Copy!IsCmd
<1>5. AddrMod \in Nat /\ \A s \in Space : Bytes[s] \in Nat /\ Bytes[s] % 4 = 0
  BY DEF ConstantsOK, Copy!SizesOK
<1>6. c.from + c.len <= Bytes[c.src] /\ c.to + c.len <= Bytes[c.dst]
  BY <1>2, <1>3, <1>4, NoWrap
<1> QED BY <1>2, <1>3, <1>4, <1>5, <1>6 DEF Copy!Aligned

\* Every word of it is at an address of its memory.
LEMMA WordInRange ==
  ASSUME ConstantsOK, NEW c, Legal(c), NEW k \in 0 .. Copy!WordCount(c) - 1
  PROVE  /\ Copy!WordCount(c) \in Nat /\ c.len = 4 * Copy!WordCount(c)
         /\ c.from + 4 * k \in Nat /\ (c.from + 4 * k) \div 4 = Copy!Source(c, k)
         /\ c.to + 4 * k \in Nat /\ (c.to + 4 * k) \div 4 = Copy!Target(c, k)
         /\ Copy!Source(c, k) \in Copy!WordAddr(c.src)
         /\ Copy!Target(c, k) \in Copy!WordAddr(c.dst)
<1>1. /\ c.from \in Nat /\ c.to \in Nat /\ c.len \in Nat
      /\ c.from % 4 = 0 /\ c.to % 4 = 0 /\ c.len % 4 = 0
      /\ Bytes[c.src] \in Nat /\ Bytes[c.dst] \in Nat
      /\ Bytes[c.src] % 4 = 0 /\ Bytes[c.dst] % 4 = 0
      /\ c.from + c.len <= Bytes[c.src] /\ c.to + c.len <= Bytes[c.dst]
  BY LegalSays
<1>2. Copy!WordCount(c) \in Nat /\ c.len = 4 * Copy!WordCount(c)
  BY <1>1, Quarter DEF Copy!WordCount
<1>3. k \in Nat /\ 4 * k + 4 <= c.len
  BY <1>2
<1> HIDE DEF Copy!WordCount
<1>4. (c.from + 4 * k) \div 4 = Copy!Source(c, k) /\ (c.to + 4 * k) \div 4 = Copy!Target(c, k)
  BY <1>1, <1>3 DEF Copy!Source, Copy!Target
<1>5. Copy!Source(c, k) \in Copy!WordAddr(c.src)
  BY <1>1, <1>3 DEF Copy!Source, Copy!WordAddr
<1>6. Copy!Target(c, k) \in Copy!WordAddr(c.dst)
  BY <1>1, <1>3 DEF Copy!Target, Copy!WordAddr
<1> QED BY <1>1, <1>2, <1>3, <1>4, <1>5, <1>6

-----------------------------------------------------------------------------
(* The inductive invariant                                                  *)

Active == st \in {"READ_REQ", "READ_WAIT", "WRITE_REQ", "WRITE_WAIT"}
Index  == offset \div 4   \* number of the word at work

ReadNow  == Read(cmd.from + offset)
WriteNow == Write(cmd.to + offset, data)

\* The command at work is legal and the offset is that of one of its words.
CommandInv ==
  /\ Active \/ st = "DONE" => Legal(cmd)
  /\ Active => Index \in 0 .. Copy!WordCount(cmd) - 1 /\ offset = 4 * Index

\* One request is at the ports at a time: in a register of the engine, in the HBM
\* or answered; it is the one its state has made; and the HBM says it is ready
\* exactly when it takes one.
PortInv ==
  /\ hbm.ready = ~hbm.busy
  /\ \A s \in Space : \/ req[s] = NoReq
                      \/ st = "READ_REQ" /\ s = cmd.src /\ req[s] = ReadNow
                      \/ st = "WRITE_REQ" /\ s = cmd.dst /\ req[s] = WriteNow
  /\ \A s \in Space : resp[s].valid => \/ st = "READ_WAIT" /\ s = cmd.src
                                       \/ st = "WRITE_WAIT" /\ s = cmd.dst
  /\ hbm.busy => /\ \A s \in Space : ~resp[s].valid
                 /\ \/ st = "READ_WAIT" /\ cmd.src = Hbm /\ hbm.req = ReadNow
                    \/ st = "WRITE_WAIT" /\ cmd.dst = Hbm /\ hbm.req = WriteNow

\* The word at work is on its way unchanged.
DataInv ==
  LET word == mem[cmd.src][Copy!Source(cmd, Index)]
  IN  /\ st = "READ_WAIT" /\ resp[cmd.src].valid => resp[cmd.src].rdata = word
      /\ st = "WRITE_REQ" => data = word
      /\ st = "WRITE_WAIT" /\ ~resp[cmd.dst].valid => data = word

\* Memory m has still to become g by copying the words K of command c.
Agrees(g, m, c, K) ==
  /\ \A k \in K : g[c.dst][Copy!Target(c, k)] = m[c.src][Copy!Source(c, k)]
  /\ \A s \in Space : \A a \in Copy!WordAddr(s) :
       (s = c.dst => \A k \in K : a # Copy!Target(c, k)) => g[s][a] = m[s][a]

\* The words not yet copied are all that is missing to the golden model's memory.
Left == IF st = "DONE" THEN {} ELSE Copied .. Copy!WordCount(cmd) - 1
GoldenInv == Active \/ st = "DONE" => ForwardOverlap(cmd) \/ Agrees(golden, mem, cmd, Left)

IInv == TypeOK /\ CommandInv /\ PortInv /\ DataInv /\ GoldenInv

-----------------------------------------------------------------------------
(* Copying                                                                  *)

\* Copying a word leaves one word less to copy.
LEMMA MovedAgrees ==
  ASSUME ConstantsOK, NEW c, Legal(c), ~ForwardOverlap(c), NEW g, NEW m, Copy!IsMemory(m),
         NEW k \in 0 .. Copy!WordCount(c) - 1, Agrees(g, m, c, k .. Copy!WordCount(c) - 1)
  PROVE  Agrees(g, Copy!Moved(m, c, k), c, k + 1 .. Copy!WordCount(c) - 1)
<1> DEFINE N == Copy!WordCount(c)
           new == Copy!Moved(m, c, k)
<1>1. /\ N \in Nat /\ c.len = 4 * N /\ c.src \in Space /\ c.dst \in Space
      /\ c.from \in Nat /\ c.to \in Nat /\ c.from % 4 = 0 /\ c.to % 4 = 0
  BY LegalSays, WordInRange
<1>2. /\ DOMAIN m = Space
      /\ \A s \in Space : m[s] \in [Copy!WordAddr(s) -> Word]
  BY DEF Copy!IsMemory
<1>3. \A j \in 0 .. N - 1 : /\ Copy!Source(c, j) \in Copy!WordAddr(c.src)
                            /\ Copy!Target(c, j) \in Copy!WordAddr(c.dst)
  BY WordInRange
<1>4. \A s \in Space : \A a \in Copy!WordAddr(s) :
        new[s][a] = IF s = c.dst /\ a = Copy!Target(c, k) THEN m[c.src][Copy!Source(c, k)] ELSE m[s][a]
  BY <1>1, <1>2, <1>3 DEF Copy!Moved
<1>5. ASSUME NEW j \in k + 1 .. N - 1
      PROVE  g[c.dst][Copy!Target(c, j)] = new[c.src][Copy!Source(c, j)]
  <2>1. j \in k .. N - 1 /\ j \in 0 .. N - 1
    BY <1>1
  <2>2. ~(c.src = c.dst /\ Copy!Source(c, j) = Copy!Target(c, k))
    <3>1. SUFFICES ASSUME c.src = c.dst, Copy!Source(c, j) = Copy!Target(c, k) PROVE FALSE
      OBVIOUS
    <3>2. c.from \div 4 + j = c.to \div 4 + k /\ j > k /\ j < N /\ k >= 0
      BY <1>1, <2>1, <3>1 DEF Copy!Source, Copy!Target
    <3>3. c.from = 4 * (c.from \div 4) /\ c.to = 4 * (c.to \div 4)
      BY <1>1, Quarter
    <3>4. c.from < c.to /\ c.to < c.from + c.len
      BY <1>1, <3>2, <3>3
    <3> QED BY <3>1, <3>4 DEF ForwardOverlap
  <2>3. new[c.src][Copy!Source(c, j)] = m[c.src][Copy!Source(c, j)]
    BY <1>1, <1>3, <1>4, <2>1, <2>2
  <2> QED BY <2>1, <2>3 DEF Agrees
<1>6. ASSUME NEW s \in Space, NEW a \in Copy!WordAddr(s),
             s = c.dst => \A j \in k + 1 .. N - 1 : a # Copy!Target(c, j)
      PROVE  g[s][a] = new[s][a]
  <2>1. CASE s = c.dst /\ a = Copy!Target(c, k)
    <3>1. k \in k .. N - 1
      BY <1>1
    <3> QED BY <1>4, <2>1, <3>1 DEF Agrees
  <2>2. CASE ~(s = c.dst /\ a = Copy!Target(c, k))
    <3>1. s = c.dst => \A j \in k .. N - 1 : a # Copy!Target(c, j)
      BY <1>1, <1>6, <2>2
    <3> QED BY <1>4, <2>2, <3>1 DEF Agrees
  <2> QED BY <2>1, <2>2
<1> QED BY <1>5, <1>6 DEF Agrees

\* At accept every word is to be copied.
LEMMA GoldenAgrees ==
  ASSUME ConstantsOK, NEW c, Legal(c), NEW m, Copy!IsMemory(m)
  PROVE  /\ Agrees(GoldenWrite(m, c), m, c, 0 .. Copy!WordCount(c) - 1)
         /\ Copy!IsMemory(GoldenWrite(m, c))
<1> DEFINE N == Copy!WordCount(c)
           g == GoldenWrite(m, c)
<1>1. /\ c.src \in Space /\ c.dst \in Space /\ GoldenInRange(c)
      /\ c.from \in Nat /\ c.to \in Nat /\ c.len \in Nat
  BY LegalSays DEF GoldenInRange
<1>2. N \in Nat
  BY <1>1, LegalSays, Quarter DEF Copy!WordCount
<1>3. /\ m = [s \in Space |-> m[s]]
      /\ \A s \in Space : m[s] \in [Copy!WordAddr(s) -> Word]
  BY DEF Copy!IsMemory
<1>4. \A j \in 0 .. N - 1 : /\ Copy!Source(c, j) \in Copy!WordAddr(c.src)
                            /\ Copy!Target(c, j) \in Copy!WordAddr(c.dst)
  BY WordInRange
<1> DEFINE row == [a \in Copy!WordAddr(c.dst) |->
                     IF a \in Copy!Target(c, 0) .. Copy!Target(c, N - 1)
                     THEN m[c.src][Copy!Source(c, a - Copy!Target(c, 0))] ELSE m[c.dst][a]]
<1>5. g = [m EXCEPT ![c.dst] = row]
  BY <1>1 DEF GoldenWrite
<1>6. ASSUME NEW a \in Copy!WordAddr(c.dst)
      PROVE  /\ a \in Copy!Target(c, 0) .. Copy!Target(c, N - 1) <=>
                  a - Copy!Target(c, 0) \in 0 .. N - 1
             /\ \A k \in 0 .. N - 1 : a = Copy!Target(c, k) <=> k = a - Copy!Target(c, 0)
  <2>1. a \in Int /\ c.to \div 4 \in Int
    BY <1>1 DEF Copy!WordAddr
  <2> QED BY <1>2, <2>1 DEF Copy!Target
<1>7. ASSUME NEW k \in 0 .. N - 1
      PROVE  g[c.dst][Copy!Target(c, k)] = m[c.src][Copy!Source(c, k)]
  <2>1. g[c.dst][Copy!Target(c, k)] = row[Copy!Target(c, k)]
    BY <1>1, <1>3, <1>5
  <2>2. Copy!Target(c, k) - Copy!Target(c, 0) = k
    BY <1>4, <1>6
  <2> QED BY <1>4, <1>6, <2>1, <2>2
<1>8. ASSUME NEW s \in Space, NEW a \in Copy!WordAddr(s),
             s = c.dst => \A k \in 0 .. N - 1 : a # Copy!Target(c, k)
      PROVE  g[s][a] = m[s][a]
  <2>1. CASE s = c.dst
    <3>1. a \notin Copy!Target(c, 0) .. Copy!Target(c, N - 1)
      BY <1>6, <1>8, <2>1
    <3>2. g[s][a] = row[a]
      BY <1>1, <1>3, <1>5, <2>1
    <3> QED BY <2>1, <3>1, <3>2
  <2>2. CASE s # c.dst
    BY <1>3, <1>5, <2>2
  <2> QED BY <2>1, <2>2
<1>9. row \in [Copy!WordAddr(c.dst) -> Word]
  <2>1. ASSUME NEW a \in Copy!WordAddr(c.dst) PROVE row[a] \in Word
    <3>1. CASE a \in Copy!Target(c, 0) .. Copy!Target(c, N - 1)
      BY <1>1, <1>3, <1>4, <1>6, <3>1
    <3>2. CASE a \notin Copy!Target(c, 0) .. Copy!Target(c, N - 1)
      BY <1>1, <1>3, <3>2
    <3> QED BY <3>1, <3>2
  <2> QED BY <2>1
<1>10. Copy!IsMemory(g)
  <2> HIDE DEF row
  <2> QED BY <1>1, <1>3, <1>5, <1>9 DEF Copy!IsMemory
<1> QED BY <1>7, <1>8, <1>10 DEF Agrees

-----------------------------------------------------------------------------
(* One edge of the memories                                                 *)

\* The address of the word at work, its place in the memories, and the types of
\* the requests for it.
LEMMA WordAtWork ==
  ASSUME ConstantsOK, IInv, Active
  PROVE  /\ Legal(cmd) /\ cmd.src \in Space /\ cmd.dst \in Space
         /\ Index \in 0 .. Copy!WordCount(cmd) - 1 /\ offset = 4 * Index
         /\ Copy!WordCount(cmd) \in Nat /\ cmd.len = 4 * Copy!WordCount(cmd)
         /\ cmd.from + offset \in Nat /\ (cmd.from + offset) \div 4 = Copy!Source(cmd, Index)
         /\ cmd.to + offset \in Nat /\ (cmd.to + offset) \div 4 = Copy!Target(cmd, Index)
         /\ Copy!Source(cmd, Index) \in Copy!WordAddr(cmd.src)
         /\ Copy!Target(cmd, Index) \in Copy!WordAddr(cmd.dst)
<1>1. Legal(cmd) /\ Index \in 0 .. Copy!WordCount(cmd) - 1 /\ offset = 4 * Index
  BY DEF IInv, CommandInv
<1> HIDE DEF Index, Active
<1>2. cmd.src \in Space /\ cmd.dst \in Space
  BY <1>1, LegalSays
<1> QED BY <1>1, <1>2, WordInRange

\* The edges at which a read, or a write, takes effect.
Reading(grant) == \/ st = "READ_REQ" /\ cmd.src # Hbm /\ grant /\ req[cmd.src].valid
                  \/ st = "READ_WAIT" /\ cmd.src = Hbm /\ hbm.busy /\ hbm.left = 0
Writing(grant) == \/ st = "WRITE_REQ" /\ cmd.dst # Hbm /\ grant /\ req[cmd.dst].valid
                  \/ st = "WRITE_WAIT" /\ cmd.dst = Hbm /\ hbm.busy /\ hbm.left = 0

\* At any edge at most one request takes effect: that of the word at work.
LEMMA Effects ==
  ASSUME ConstantsOK, IInv, NEW grant \in BOOLEAN
  PROVE  /\ ~(Reading(grant) /\ Writing(grant))
         /\ Reading(grant) => \A s \in Space : s = cmd.src => Effect(s, grant) = ReadNow
         /\ Writing(grant) => \A s \in Space : s = cmd.dst => Effect(s, grant) = WriteNow
         /\ \A s \in Space :
              ~(Reading(grant) /\ s = cmd.src) /\ ~(Writing(grant) /\ s = cmd.dst) =>
                ~Effect(s, grant).valid /\ ~Effect(s, grant).write
<1>1. ~(Reading(grant) /\ Writing(grant))
  BY DEF Reading, Writing
<1>2. \A s \in Space : \/ req[s] = NoReq
                       \/ st = "READ_REQ" /\ s = cmd.src /\ req[s] = ReadNow
                       \/ st = "WRITE_REQ" /\ s = cmd.dst /\ req[s] = WriteNow
  BY DEF IInv, PortInv
<1>3. hbm.busy => \/ st = "READ_WAIT" /\ cmd.src = Hbm /\ hbm.req = ReadNow
                  \/ st = "WRITE_WAIT" /\ cmd.dst = Hbm /\ hbm.req = WriteNow
  BY DEF IInv, PortInv
<1>4. ~NoReq.valid /\ ~NoReq.write
  BY DEF NoReq
<1>5. ASSUME NEW s \in Space, Reading(grant), s = cmd.src PROVE Effect(s, grant) = ReadNow
  BY <1>2, <1>3, <1>4, <1>5 DEF Effect, Reading
<1>6. ASSUME NEW s \in Space, Writing(grant), s = cmd.dst PROVE Effect(s, grant) = WriteNow
  BY <1>2, <1>3, <1>4, <1>6 DEF Effect, Writing
<1>7. ASSUME NEW s \in Space, ~(Reading(grant) /\ s = cmd.src), ~(Writing(grant) /\ s = cmd.dst)
      PROVE  ~Effect(s, grant).valid /\ ~Effect(s, grant).write
  <2>1. CASE s = Hbm
    BY <1>3, <1>4, <1>7, <2>1 DEF Effect, Reading, Writing
  <2>2. CASE s # Hbm
    <3>1. CASE req[s] = NoReq
      BY <1>4, <2>2, <3>1 DEF Effect
    <3>2. CASE req[s] # NoReq
      <4>1. req[s].valid
        BY <1>2, <3>2 DEF ReadNow, WriteNow, Read, Write
      <4>2. ~grant
        BY <1>2, <1>7, <2>2, <3>2, <4>1 DEF Reading, Writing
      <4> QED BY <1>4, <2>2, <4>2 DEF Effect
    <3> QED BY <3>1, <3>2
  <2> QED BY <2>1, <2>2
<1> QED BY <1>1, <1>5, <1>6, <1>7

Answer(p, w) == [s \in Space |-> IF s = p THEN [valid |-> TRUE, rdata |-> w] ELSE NoResp]

\* A read is answered with the word at work.
LEMMA ReadingEdge ==
  ASSUME ConstantsOK, IInv, NEW grant \in BOOLEAN, MemoryStep(grant), Reading(grant)
  PROVE  mem' = mem /\ resp' = Answer(cmd.src, mem[cmd.src][Copy!Source(cmd, Index)])
<1>1. Active
  BY DEF Reading, Active
<1>2. /\ cmd.src \in Space /\ (cmd.from + offset) \div 4 = Copy!Source(cmd, Index)
  BY <1>1, WordAtWork
<1>3. /\ Effect(cmd.src, grant) = ReadNow
      /\ \A s \in Space \ {cmd.src} : ~Effect(s, grant).valid /\ ~Effect(s, grant).write
  BY <1>2, Effects
<1>4. ReadNow.valid /\ ~ReadNow.write /\ ReadNow.addr = cmd.from + offset
  BY DEF ReadNow, Read
<1>5. mem = [s \in Space |-> mem[s]]
  BY DEF IInv, TypeOK, Copy!IsMemory
<1>6. mem' = [s \in Space |-> mem[s]]
  BY <1>3, <1>4 DEF MemoryStep
<1>7. resp' = Answer(cmd.src, mem[cmd.src][Copy!Source(cmd, Index)])
  BY <1>2, <1>3, <1>4 DEF MemoryStep, Answer
<1> QED BY <1>5, <1>6, <1>7

\* A write copies the word at work.
LEMMA WritingEdge ==
  ASSUME ConstantsOK, IInv, NEW grant \in BOOLEAN, MemoryStep(grant), Writing(grant)
  PROVE  mem' = [mem EXCEPT ![cmd.dst][Copy!Target(cmd, Index)] = data] /\ resp' = Answer(cmd.dst, NoData)
<1>1. Active
  BY DEF Writing, Active
<1>2. /\ cmd.dst \in Space /\ (cmd.to + offset) \div 4 = Copy!Target(cmd, Index)
  BY <1>1, WordAtWork
<1>3. /\ Effect(cmd.dst, grant) = WriteNow
      /\ \A s \in Space \ {cmd.dst} : ~Effect(s, grant).valid /\ ~Effect(s, grant).write
  BY <1>2, Effects
<1>4. /\ WriteNow.valid /\ WriteNow.write /\ WriteNow.addr = cmd.to + offset /\ WriteNow.wdata = data
  BY DEF WriteNow, Write
<1>5. mem = [s \in Space |-> mem[s]]
  BY DEF IInv, TypeOK, Copy!IsMemory
<1>6. mem' = [s \in Space |->
        IF s = cmd.dst THEN [mem[s] EXCEPT ![Copy!Target(cmd, Index)] = data] ELSE mem[s]]
  BY <1>2, <1>3, <1>4 DEF MemoryStep
<1>7. resp' = Answer(cmd.dst, NoData)
  BY <1>2, <1>3, <1>4 DEF MemoryStep, Answer
<1> QED BY <1>2, <1>5, <1>6, <1>7

\* Nothing else happens to the memories.
LEMMA QuietEdge ==
  ASSUME ConstantsOK, IInv, NEW grant \in BOOLEAN, MemoryStep(grant), ~Reading(grant), ~Writing(grant)
  PROVE  mem' = mem /\ resp' = [s \in Space |-> NoResp]
<1>1. \A s \in Space : ~Effect(s, grant).valid /\ ~Effect(s, grant).write
  BY Effects
<1>2. mem = [s \in Space |-> mem[s]]
  BY DEF IInv, TypeOK, Copy!IsMemory
<1>3. mem' = [s \in Space |-> mem[s]]
  BY <1>1 DEF MemoryStep
<1>4. resp' = [s \in Space |-> NoResp]
  BY <1>1 DEF MemoryStep
<1> QED BY <1>2, <1>3, <1>4

\* The HBM takes a request when it says it is ready, and keeps it until the answer.
LEMMA HbmEdge ==
  ASSUME ConstantsOK, IInv, HbmStep
  PROVE  /\ hbm' \in [busy : BOOLEAN, ready : BOOLEAN, left : 0 .. Latency,
                      req : [valid : BOOLEAN, write : BOOLEAN, addr : Nat, wdata : Word \cup {NoData}]]
         /\ hbm'.ready = ~hbm'.busy
         /\ ~hbm.busy => (hbm'.busy <=> req[Hbm].valid) /\ (hbm'.busy => hbm'.req = req[Hbm])
         /\ hbm.busy => (hbm'.busy <=> hbm.left # 0) /\ (hbm'.busy => hbm'.req = hbm.req)
<1> DEFINE T == [busy : BOOLEAN, ready : BOOLEAN, left : 0 .. Latency,
                 req : [valid : BOOLEAN, write : BOOLEAN, addr : Nat, wdata : Word \cup {NoData}]]
<1>1. /\ hbm \in T /\ Latency \in 0 .. Latency /\ hbm.left \in 0 .. Latency
      /\ req[Hbm] \in [valid : BOOLEAN, write : BOOLEAN, addr : Nat, wdata : Word \cup {NoData}]
  BY DEF IInv, TypeOK, ConstantsOK
<1>2. CASE ~hbm.busy /\ req[Hbm].valid
  <2>1. hbm' = [busy |-> TRUE, ready |-> FALSE, left |-> Latency, req |-> req[Hbm]]
    BY <1>2 DEF HbmStep
  <2>2. hbm' \in T
    BY <1>1, <2>1
  <2>3. hbm'.busy = TRUE /\ hbm'.ready = FALSE /\ hbm'.req = req[Hbm]
    BY <2>1
  <2> QED BY <1>2, <2>2, <2>3
<1>3. CASE hbm.busy /\ hbm.left = 0
  <2>1. hbm' = [hbm EXCEPT !.busy = FALSE, !.ready = TRUE]
    BY <1>3 DEF HbmStep
  <2> QED BY <1>1, <1>3, <2>1
<1>4. CASE hbm.busy /\ hbm.left > 0
  <2>1. hbm' = [hbm EXCEPT !.ready = FALSE, !.left = @ - 1]
    BY <1>1, <1>4 DEF HbmStep
  <2>2. hbm.left - 1 \in 0 .. Latency /\ hbm.left # 0
    BY <1>1, <1>4
  <2>3. hbm' \in T /\ hbm'.busy = TRUE /\ hbm'.ready = FALSE /\ hbm'.req = hbm.req
    BY <1>1, <1>4, <2>1, <2>2
  <2> QED BY <1>4, <2>2, <2>3
<1>5. CASE ~hbm.busy /\ ~req[Hbm].valid
  <2>1. hbm' = [hbm EXCEPT !.ready = TRUE]
    BY <1>5 DEF HbmStep
  <2> QED BY <1>1, <1>5, <2>1
<1>6. hbm.left = 0 \/ hbm.left > 0
  BY <1>1
<1> QED BY <1>2, <1>3, <1>4, <1>5, <1>6

\* The word a write stores is the one the abstract copy moves.
LEMMA WritingMoves ==
  ASSUME ConstantsOK, IInv, NEW grant \in BOOLEAN, MemoryStep(grant), Writing(grant)
  PROVE  mem' = Copy!Moved(mem, cmd, Index) /\ resp' = Answer(cmd.dst, NoData)
<1>1. cmd.dst \in Space
  BY WordAtWork DEF Writing, Active
<1>2. data = mem[cmd.src][Copy!Source(cmd, Index)]
  BY <1>1 DEF Writing, IInv, PortInv, DataInv
<1> QED BY <1>2, WritingEdge DEF Copy!Moved

Requests  == [valid : BOOLEAN, write : BOOLEAN, addr : Nat, wdata : Word \cup {NoData}]
Responses == [valid : BOOLEAN, rdata : Word \cup {NoData}]

\* Memories and responses keep their types.
LEMMA MemoryTypes ==
  ASSUME ConstantsOK, IInv, NEW grant \in BOOLEAN, MemoryStep(grant)
  PROVE  /\ Copy!IsMemory(mem)' /\ resp' \in [Space -> Responses]
         /\ hbm' \in [busy : BOOLEAN, ready : BOOLEAN, left : 0 .. Latency, req : Requests]
         /\ hbm'.ready = ~hbm'.busy
<1>1. /\ mem = [s \in Space |-> mem[s]]
      /\ \A s \in Space : mem[s] \in [Copy!WordAddr(s) -> Word]
  BY DEF IInv, TypeOK, Copy!IsMemory
<1>2. NoResp \in Responses /\ [valid |-> TRUE, rdata |-> NoData] \in Responses
  BY DEF NoResp, Responses
<1>3. hbm' \in [busy : BOOLEAN, ready : BOOLEAN, left : 0 .. Latency, req : Requests]
  BY HbmEdge DEF MemoryStep, Requests
<1>4. hbm'.ready = ~hbm'.busy
  BY HbmEdge DEF MemoryStep
<1>5. CASE Reading(grant)
  <2>1. /\ mem' = mem /\ resp' = Answer(cmd.src, mem[cmd.src][Copy!Source(cmd, Index)])
    BY <1>5, ReadingEdge
  <2>2. mem[cmd.src][Copy!Source(cmd, Index)] \in Word
    BY <1>1, <1>5, WordAtWork DEF Reading, Active
  <2>3. resp' \in [Space -> Responses]
    BY <1>2, <2>1, <2>2 DEF Answer, Responses
  <2>4. Copy!IsMemory(mem)'
    BY <2>1 DEF IInv, TypeOK, Copy!IsMemory, Copy!WordAddr
  <2> QED BY <1>3, <1>4, <2>3, <2>4
<1>6. CASE Writing(grant)
  <2>1. /\ mem' = Copy!Moved(mem, cmd, Index) /\ resp' = Answer(cmd.dst, NoData)
    BY <1>6, WritingMoves
  <2>2. /\ mem[cmd.src][Copy!Source(cmd, Index)] \in Word
        /\ cmd.dst \in Space /\ Copy!Target(cmd, Index) \in Copy!WordAddr(cmd.dst)
    BY <1>1, <1>6, WordAtWork DEF Writing, Active
  <2>3. resp' \in [Space -> Responses]
    BY <1>2, <2>1 DEF Answer
  <2>4. /\ mem' = [s \in Space |-> mem'[s]]
        /\ \A s \in Space : mem'[s] \in [Copy!WordAddr(s) -> Word]
    BY <1>1, <2>1, <2>2 DEF Copy!Moved
  <2>5. Copy!IsMemory(mem)'
    BY <2>4 DEF Copy!IsMemory, Copy!WordAddr
  <2> QED BY <1>3, <1>4, <2>3, <2>5
<1>7. CASE ~Reading(grant) /\ ~Writing(grant)
  <2>1. mem' = mem /\ resp' = [s \in Space |-> NoResp]
    BY <1>7, QuietEdge
  <2>2. Copy!IsMemory(mem)'
    BY <2>1 DEF IInv, TypeOK, Copy!IsMemory, Copy!WordAddr
  <2> QED BY <1>2, <1>3, <1>4, <2>1, <2>2
<1> QED BY <1>5, <1>6, <1>7

\* Between commands nothing happens to the memories and the HBM is free.
LEMMA RestingEdge ==
  ASSUME ConstantsOK, IInv, NEW grant \in BOOLEAN, MemoryStep(grant), ~Active
  PROVE  mem' = mem /\ resp' = [s \in Space |-> NoResp] /\ ~hbm'.busy
<1>1. ~Reading(grant) /\ ~Writing(grant)
  BY DEF Reading, Writing, Active
<1>2. ~hbm.busy /\ ~req[Hbm].valid
  BY DEF IInv, PortInv, Active, NoReq, ConstantsOK
<1>3. ~hbm'.busy
  BY <1>2, HbmEdge DEF MemoryStep
<1> QED BY <1>1, <1>3, QuietEdge

-----------------------------------------------------------------------------
(* The invariant                                                            *)

\* Reset finds nothing in flight.
LEMMA InitIInv ==
  ASSUME ConstantsOK
  PROVE  Init => IInv
<1> SUFFICES ASSUME Init PROVE IInv
  OBVIOUS
<1>1. Legal(cmd)
  BY DEF ConstantsOK, Init, Legal
<1>2. NoReq \in Requests /\ NoResp \in Responses /\ 0 \in 0 .. Latency /\ 0 \in 0 .. MaxCmds
  BY DEF NoReq, NoResp, Requests, Responses, ConstantsOK
<1>3. cmd.len \in Nat
  BY <1>1, LegalSays
<1>4. TypeOK
  BY <1>1, <1>2, <1>3 DEF Init, TypeOK, NoReqs, Requests, Responses, Legal, ConstantsOK
<1>5. CommandInv /\ DataInv /\ GoldenInv
  BY DEF Init, CommandInv, DataInv, GoldenInv, Active
<1>6. PortInv
  BY <1>2 DEF Init, PortInv, NoReqs, NoReq, NoResp
<1> QED BY <1>4, <1>5, <1>6 DEF IInv

\* An accepted command starts at its first word; the golden model has copied all.
LEMMA AcceptKeeps ==
  ASSUME ConstantsOK, IInv, NEW grant \in BOOLEAN, MemoryStep(grant), NEW c \in Cmds, Accept(c)
  PROVE  IInv'
<1>1. /\ st = "IDLE" /\ cmd' = c /\ offset' = 0 /\ data' = data /\ req' = NoReqs
      /\ golden' = GoldenWrite(mem, c) /\ accepted' = accepted + 1 /\ accepted < MaxCmds
      /\ st' = IF c.len = 0 THEN "DONE" ELSE "READ_REQ"
  BY DEF Accept
<1>2. Legal(c)
  BY DEF Accept, Legal
<1>3. mem' = mem /\ resp' = [s \in Space |-> NoResp] /\ ~hbm'.busy
  BY <1>1, RestingEdge DEF Active
<1>4. /\ Copy!IsMemory(mem)' /\ resp' \in [Space -> Responses]
      /\ hbm' \in [busy : BOOLEAN, ready : BOOLEAN, left : 0 .. Latency, req : Requests]
      /\ hbm'.ready = ~hbm'.busy
  BY MemoryTypes
<1>5. /\ c.len \in Nat /\ c.len % 4 = 0 /\ Copy!WordCount(c) \in Nat /\ c.len = 4 * Copy!WordCount(c)
  BY <1>2, LegalSays, Quarter DEF Copy!WordCount
<1>6. /\ Agrees(GoldenWrite(mem, c), mem, c, 0 .. Copy!WordCount(c) - 1)
      /\ Copy!IsMemory(GoldenWrite(mem, c))
  BY <1>2, GoldenAgrees DEF IInv, TypeOK
<1>7. TypeOK'
  <2>1. Copy!IsMemory(golden)'
    BY <1>1, <1>6 DEF Copy!IsMemory, Copy!WordAddr
  <2>2. NoReqs \in [Space -> Requests]
    BY DEF NoReqs, NoReq, Requests
  <2>3. accepted' \in 0 .. MaxCmds
    BY <1>1 DEF IInv, TypeOK, ConstantsOK
  <2> QED BY <1>1, <1>4, <1>5, <2>1, <2>2, <2>3 DEF IInv, TypeOK, Requests, Responses
<1>8. CommandInv'
  <2>1. Index' = 0
    BY <1>1 DEF Index
  <2>2. c.len # 0 => 0 \in 0 .. Copy!WordCount(c) - 1
    BY <1>5
  <2>3. (Copy!WordCount(cmd))' = Copy!WordCount(c)
    BY <1>1 DEF Copy!WordCount
  <2> QED BY <1>1, <1>2, <2>1, <2>2, <2>3 DEF CommandInv, Legal, Active
<1>9. PortInv'
  BY <1>1, <1>3, <1>4 DEF PortInv, NoReqs, NoResp
<1>10. DataInv'
  BY <1>1 DEF DataInv
<1>11. GoldenInv'
  <2>1. Left' = 0 .. Copy!WordCount(c) - 1
    <3>1. CASE c.len = 0
      BY <1>1, <1>5, <3>1 DEF Left
    <3>2. CASE c.len # 0
      BY <1>1, <3>2 DEF Left, Copied, Phase, Copy!WordCount
    <3> QED BY <3>1, <3>2
  <2>2. Agrees(golden', mem', cmd', Left')
    BY <1>1, <1>3, <1>6, <2>1
  <2> QED BY <2>2 DEF GoldenInv, Agrees
<1> QED BY <1>7, <1>8, <1>9, <1>10, <1>11 DEF IInv

\* Between commands the registers of the last one stay.
LEMMA RestKeeps ==
  ASSUME ConstantsOK, IInv, NEW grant \in BOOLEAN, MemoryStep(grant),
         (\E c \in Cmds : Reject(c)) \/ NoCommand \/ Done
  PROVE  IInv'
<1>1. /\ ~Active /\ st' \in {"IDLE", "ERROR"} /\ req' = NoReqs
      /\ UNCHANGED <<cmd, offset, data, golden>>
      /\ accepted' \in 0 .. MaxCmds
  BY DEF Reject, NoCommand, Done, Active, IInv, TypeOK, ConstantsOK
<1>2. mem' = mem /\ resp' = [s \in Space |-> NoResp] /\ ~hbm'.busy
  BY <1>1, RestingEdge
<1>3. /\ Copy!IsMemory(mem)' /\ resp' \in [Space -> Responses]
      /\ hbm' \in [busy : BOOLEAN, ready : BOOLEAN, left : 0 .. Latency, req : Requests]
      /\ hbm'.ready = ~hbm'.busy
  BY MemoryTypes
<1>4. TypeOK'
  <2>1. Copy!IsMemory(golden)'
    BY <1>1 DEF IInv, TypeOK, Copy!IsMemory, Copy!WordAddr
  <2>2. NoReqs \in [Space -> Requests]
    BY DEF NoReqs, NoReq, Requests
  <2> QED BY <1>1, <1>3, <2>1, <2>2 DEF IInv, TypeOK, Requests, Responses
<1>5. CommandInv' /\ DataInv' /\ GoldenInv'
  BY <1>1 DEF CommandInv, DataInv, GoldenInv, Active
<1>6. PortInv'
  BY <1>1, <1>2, <1>3 DEF PortInv, NoReqs, NoResp
<1> QED BY <1>4, <1>5, <1>6 DEF IInv

\* Within a word the command, its offset and the golden memory stay.
LEMMA WithinWord ==
  ASSUME ConstantsOK, IInv, NEW grant \in BOOLEAN, MemoryStep(grant), Active, Active',
         UNCHANGED <<cmd, offset, golden, accepted>>,
         data' \in Word \cup {NoData}, req' \in [Space -> Requests]
  PROVE  /\ TypeOK' /\ CommandInv'
         /\ Index' = Index /\ (Copy!WordCount(cmd))' = Copy!WordCount(cmd)
         /\ (Copy!Source(cmd, Index))' = Copy!Source(cmd, Index)
         /\ ReadNow' = ReadNow /\ (data' = data => WriteNow' = WriteNow)
         /\ mem' = mem /\ Copied' = Copied => GoldenInv'
         /\ NoReqs \in [Space -> Requests]
<1>1. /\ Copy!IsMemory(mem)' /\ resp' \in [Space -> Responses]
      /\ hbm' \in [busy : BOOLEAN, ready : BOOLEAN, left : 0 .. Latency, req : Requests]
  BY MemoryTypes
<1>2. /\ Index' = Index /\ (Copy!WordCount(cmd))' = Copy!WordCount(cmd)
      /\ (Copy!Source(cmd, Index))' = Copy!Source(cmd, Index)
      /\ ReadNow' = ReadNow /\ (data' = data => WriteNow' = WriteNow)
  BY DEF Index, Copy!WordCount, Copy!Source, ReadNow, WriteNow, Read, Write
<1>3. TypeOK'
  <2>1. Copy!IsMemory(golden)'
    BY DEF IInv, TypeOK, Copy!IsMemory, Copy!WordAddr
  <2> QED BY <1>1, <2>1 DEF IInv, TypeOK, Requests, Responses, Active
<1>4. CommandInv'
  BY <1>2 DEF IInv, CommandInv, Legal, Active
<1>5. ASSUME mem' = mem, Copied' = Copied PROVE GoldenInv'
  <2>1. Left' = Left
    BY <1>2, <1>5 DEF Left, Active
  <2> QED BY <1>5, <2>1 DEF IInv, GoldenInv, Agrees, ForwardOverlap, Active
<1>6. NoReqs \in [Space -> Requests]
  BY DEF NoReqs, NoReq, Requests
<1> QED BY <1>2, <1>3, <1>4, <1>5, <1>6

\* READ_REQ raises the request and leaves when the memory takes it.
LEMMA ReadReqKeeps ==
  ASSUME ConstantsOK, IInv, NEW grant \in BOOLEAN, MemoryStep(grant), ReadReq(grant)
  PROVE  IInv'
<1>1. /\ st = "READ_REQ" /\ Active /\ ~Writing(grant)
      /\ UNCHANGED <<cmd, offset, data, golden, accepted>>
  BY DEF ReadReq, Active, Writing
<1>2. /\ cmd.src \in Space /\ cmd.from + offset \in Nat /\ Hbm \in Space
  BY <1>1, WordAtWork DEF ConstantsOK
<1>3. /\ ~hbm.busy /\ hbm.ready
      /\ \A s \in Space : req[s] = NoReq \/ (s = cmd.src /\ req[s] = ReadNow)
      /\ \A s \in Space : ~resp[s].valid
      /\ ~NoReq.valid /\ ReadNow.valid
  BY <1>1 DEF IInv, PortInv, NoReq, ReadNow, Read
<1>4. /\ hbm'.busy <=> req[Hbm].valid
      /\ hbm'.busy => hbm'.req = req[Hbm]
      /\ hbm'.ready = ~hbm'.busy
  BY <1>3, HbmEdge DEF MemoryStep
<1>5. /\ data' \in Word \cup {NoData} /\ req \in [Space -> Requests] /\ ReadNow \in Requests
  BY <1>1, <1>2 DEF IInv, TypeOK, Requests, ReadNow, Read, ConstantsOK
<1>6. Copied = Index
  BY <1>1 DEF Copied, Phase, Index, IInv, TypeOK
<1>7. CASE req[cmd.src].valid /\ Ready(cmd.src, grant)
  <2>1. st' = "READ_WAIT" /\ req' = NoReqs /\ Active'
    BY <1>1, <1>7 DEF ReadReq, Active
  <2>2. req[cmd.src] = ReadNow
    BY <1>2, <1>3, <1>7
  <2>3. NoReqs \in [Space -> Requests]
    BY DEF NoReqs, NoReq, Requests
  <2>4. /\ TypeOK' /\ CommandInv'
        /\ (Copy!Source(cmd, Index))' = Copy!Source(cmd, Index) /\ ReadNow' = ReadNow
        /\ mem' = mem /\ Copied' = Copied => GoldenInv' /\ Index' = Index
    BY <1>1, <1>5, <2>1, <2>3, WithinWord
  <2>5. CASE cmd.src = Hbm
    <3>1. mem' = mem /\ resp' = [s \in Space |-> NoResp]
      BY <1>1, <2>5, QuietEdge DEF Reading
    <3>2. PortInv'
      BY <1>1, <1>2, <1>4, <2>1, <2>2, <2>4, <2>5, <3>1 DEF PortInv, NoReqs, NoResp
    <3>3. DataInv'
      BY <1>1, <1>2, <2>1, <3>1 DEF DataInv, NoResp
    <3>4. Copied' = Copied
      BY <1>1, <1>6, <2>1, <2>4 DEF Copied, Phase, Index, IInv, TypeOK
    <3> QED BY <2>4, <3>1, <3>2, <3>3, <3>4 DEF IInv
  <2>6. CASE cmd.src # Hbm
    <3>1. Reading(grant)
      BY <1>1, <1>7, <2>6 DEF Reading, Ready
    <3>2. mem' = mem /\ resp' = Answer(cmd.src, mem[cmd.src][Copy!Source(cmd, Index)])
      BY <3>1, ReadingEdge
    <3>3. ~hbm'.busy
      BY <1>2, <1>3, <1>4, <2>6
    <3>4. PortInv'
      BY <1>1, <1>2, <1>4, <2>1, <3>2, <3>3 DEF PortInv, NoReqs, Answer, NoResp
    <3>5. DataInv'
      BY <1>1, <1>2, <2>1, <2>4, <3>2 DEF DataInv, Answer
    <3>6. Copied' = Copied
      BY <1>1, <1>6, <2>1, <2>4 DEF Copied, Phase, Index, IInv, TypeOK
    <3> QED BY <2>4, <3>2, <3>4, <3>5, <3>6 DEF IInv
  <2> QED BY <2>5, <2>6
<1>8. CASE ~(req[cmd.src].valid /\ Ready(cmd.src, grant))
  <2>1. st' = st /\ req' = [req EXCEPT ![cmd.src] = ReadNow] /\ Active'
    BY <1>1, <1>8 DEF ReadReq, Active, ReadNow
  <2>2. req' \in [Space -> Requests]
    BY <1>2, <1>5, <2>1
  <2>3. /\ TypeOK' /\ CommandInv' /\ ReadNow' = ReadNow
        /\ mem' = mem /\ Copied' = Copied => GoldenInv' /\ Index' = Index
    BY <1>1, <1>5, <2>1, <2>2, WithinWord
  <2>4. ~Reading(grant) /\ ~req[Hbm].valid
    BY <1>1, <1>2, <1>3, <1>8 DEF Reading, Ready
  <2>5. mem' = mem /\ resp' = [s \in Space |-> NoResp]
    BY <1>1, <2>4, QuietEdge
  <2>6. PortInv'
    BY <1>1, <1>2, <1>3, <1>4, <1>5, <2>1, <2>3, <2>4, <2>5 DEF PortInv, NoResp
  <2>7. DataInv'
    BY <1>1, <2>1 DEF DataInv
  <2>8. Copied' = Copied
    BY <1>1, <1>6, <2>1, <2>3 DEF Copied, Phase, Index, IInv, TypeOK
  <2> QED BY <2>3, <2>5, <2>6, <2>7, <2>8 DEF IInv
<1> QED BY <1>7, <1>8

\* READ_WAIT drops the request and takes the word when it is answered.
LEMMA ReadWaitKeeps ==
  ASSUME ConstantsOK, IInv, NEW grant \in BOOLEAN, MemoryStep(grant), ReadWait
  PROVE  IInv'
<1> DEFINE word == mem[cmd.src][Copy!Source(cmd, Index)]
<1>1. /\ st = "READ_WAIT" /\ Active /\ Active' /\ ~Writing(grant) /\ req' = NoReqs
      /\ UNCHANGED <<cmd, offset, golden, accepted>>
  BY DEF ReadWait, Active, Writing
<1>2. cmd.src \in Space /\ Hbm \in Space /\ NoReqs \in [Space -> Requests]
  BY <1>1, WordAtWork DEF ConstantsOK, NoReqs, NoReq, Requests
<1>3. /\ \A s \in Space : req[s] = NoReq /\ ~NoReq.valid
      /\ \A s \in Space : resp[s].valid => s = cmd.src
      /\ hbm.busy => cmd.src = Hbm /\ hbm.req = ReadNow /\ ~resp[cmd.src].valid
  BY <1>1, <1>2 DEF IInv, PortInv, NoReq
<1>4. /\ hbm'.busy <=> hbm.busy /\ hbm.left # 0
      /\ hbm'.busy => hbm'.req = ReadNow
      /\ hbm'.ready = ~hbm'.busy
  BY <1>2, <1>3, HbmEdge DEF MemoryStep
<1>5. Copied = Index
  BY <1>1 DEF Copied, Phase, Index, IInv, TypeOK
<1>6. CASE resp[cmd.src].valid
  <2>1. /\ st' = "WRITE_REQ" /\ data' = resp[cmd.src].rdata
    BY <1>6 DEF ReadWait
  <2>2. data' \in Word \cup {NoData} /\ data' = word
    BY <1>1, <1>2, <1>6, <2>1 DEF IInv, TypeOK, DataInv
  <2>3. mem' = mem /\ resp' = [s \in Space |-> NoResp] /\ ~hbm'.busy
    BY <1>1, <1>3, <1>4, <1>6, QuietEdge DEF Reading
  <2>4. /\ TypeOK' /\ CommandInv' /\ (Copy!Source(cmd, Index))' = Copy!Source(cmd, Index)
        /\ mem' = mem /\ Copied' = Copied => GoldenInv' /\ Index' = Index
    BY <1>1, <1>2, <2>2, WithinWord
  <2>5. PortInv'
    BY <1>1, <1>4, <2>1, <2>3 DEF PortInv, NoReqs, NoResp
  <2>6. DataInv'
    BY <1>1, <2>1, <2>2, <2>3, <2>4 DEF DataInv
  <2>7. Copied' = Copied
    BY <1>1, <1>5, <2>1, <2>4 DEF Copied, Phase, Index, IInv, TypeOK
  <2> QED BY <2>3, <2>4, <2>5, <2>6, <2>7 DEF IInv
<1>7. CASE ~resp[cmd.src].valid
  <2>1. st' = st /\ data' = data
    BY <1>7 DEF ReadWait
  <2>2. data' \in Word \cup {NoData}
    BY <2>1 DEF IInv, TypeOK
  <2>3. /\ TypeOK' /\ CommandInv' /\ (Copy!Source(cmd, Index))' = Copy!Source(cmd, Index)
        /\ ReadNow' = ReadNow
        /\ mem' = mem /\ Copied' = Copied => GoldenInv' /\ Index' = Index
    BY <1>1, <1>2, <2>2, WithinWord
  <2>4. Copied' = Copied
    BY <1>1, <1>5, <2>1, <2>3 DEF Copied, Phase, Index, IInv, TypeOK
  <2>5. CASE Reading(grant)
    <3>1. mem' = mem /\ resp' = Answer(cmd.src, word)
      BY <2>5, ReadingEdge
    <3>2. ~hbm'.busy
      BY <1>1, <1>4, <2>5 DEF Reading
    <3>3. PortInv'
      BY <1>1, <1>2, <1>4, <2>1, <3>1, <3>2 DEF PortInv, NoReqs, Answer, NoResp
    <3>4. DataInv'
      BY <1>1, <1>2, <2>1, <2>3, <3>1 DEF DataInv, Answer
    <3> QED BY <2>3, <2>4, <3>1, <3>3, <3>4 DEF IInv
  <2>6. CASE ~Reading(grant)
    <3>1. mem' = mem /\ resp' = [s \in Space |-> NoResp]
      BY <1>1, <2>6, QuietEdge
    <3>2. PortInv'
      BY <1>1, <1>2, <1>3, <1>4, <2>1, <2>3, <3>1 DEF PortInv, NoReqs, NoResp
    <3>3. DataInv'
      BY <1>1, <1>2, <2>1, <3>1 DEF DataInv, NoResp
    <3> QED BY <2>3, <2>4, <3>1, <3>2, <3>3 DEF IInv
  <2> QED BY <2>5, <2>6
<1> QED BY <1>6, <1>7

\* A write that takes effect leaves one word less to copy.
LEMMA CopiedWord ==
  ASSUME ConstantsOK, IInv, NEW grant \in BOOLEAN, MemoryStep(grant), Writing(grant),
         st' = "WRITE_WAIT", UNCHANGED <<cmd, offset, golden>>, Copied = Index
  PROVE  Copied' = Index + 1 /\ GoldenInv'
<1>1. Active /\ st # "DONE"
  BY DEF Writing, Active
<1>2. /\ Legal(cmd) /\ cmd.dst \in Space /\ Index \in 0 .. Copy!WordCount(cmd) - 1
  BY <1>1, WordAtWork
<1>3. mem' = Copy!Moved(mem, cmd, Index) /\ resp' = Answer(cmd.dst, NoData)
  BY WritingMoves
<1>4. Copied' = Index + 1
  <2>1. resp'[cmd'.dst].valid
    BY <1>2, <1>3 DEF Answer
  <2>2. Phase' = "COPY"
    BY DEF Phase
  <2> QED BY <2>1, <2>2 DEF Copied, Index
<1>5. GoldenInv'
  <2>1. SUFFICES ASSUME ~ForwardOverlap(cmd)
                 PROVE  Agrees(golden, mem', cmd, Index + 1 .. Copy!WordCount(cmd) - 1)
    <3>1. Left' = Index + 1 .. Copy!WordCount(cmd) - 1
      BY <1>4 DEF Left, Copy!WordCount
    <3> QED BY <3>1 DEF GoldenInv, Agrees, ForwardOverlap
  <2>2. Agrees(golden, mem, cmd, Index .. Copy!WordCount(cmd) - 1)
    BY <1>1, <2>1 DEF IInv, GoldenInv, Left
  <2> QED BY <1>2, <1>3, <2>1, <2>2, MovedAgrees DEF IInv, TypeOK
<1> QED BY <1>4, <1>5

\* WRITE_REQ raises the request and leaves when the memory takes it.
LEMMA WriteReqKeeps ==
  ASSUME ConstantsOK, IInv, NEW grant \in BOOLEAN, MemoryStep(grant), WriteReq(grant)
  PROVE  IInv'
<1>1. /\ st = "WRITE_REQ" /\ Active /\ ~Reading(grant)
      /\ UNCHANGED <<cmd, offset, data, golden, accepted>>
  BY DEF WriteReq, Active, Reading
<1>2. /\ cmd.src \in Space /\ cmd.dst \in Space /\ cmd.to + offset \in Nat /\ Hbm \in Space
  BY <1>1, WordAtWork DEF ConstantsOK
<1>3. /\ ~hbm.busy /\ hbm.ready
      /\ \A s \in Space : req[s] = NoReq \/ (s = cmd.dst /\ req[s] = WriteNow)
      /\ \A s \in Space : ~resp[s].valid
      /\ ~NoReq.valid /\ WriteNow.valid
  BY <1>1 DEF IInv, PortInv, NoReq, WriteNow, Write
<1>4. /\ hbm'.busy <=> req[Hbm].valid
      /\ hbm'.busy => hbm'.req = req[Hbm]
      /\ hbm'.ready = ~hbm'.busy
  BY <1>3, HbmEdge DEF MemoryStep
<1>5. /\ data \in Word \cup {NoData} /\ req \in [Space -> Requests] /\ WriteNow \in Requests
      /\ data = mem[cmd.src][Copy!Source(cmd, Index)]
  BY <1>1, <1>2 DEF IInv, TypeOK, Requests, WriteNow, Write, DataInv
<1>6. Copied = Index
  BY <1>1 DEF Copied, Phase, Index, IInv, TypeOK
<1>7. CASE req[cmd.dst].valid /\ Ready(cmd.dst, grant)
  <2>1. st' = "WRITE_WAIT" /\ req' = NoReqs /\ Active'
    BY <1>1, <1>7 DEF WriteReq, Active
  <2>2. req[cmd.dst] = WriteNow
    BY <1>2, <1>3, <1>7
  <2>3. NoReqs \in [Space -> Requests]
    BY DEF NoReqs, NoReq, Requests
  <2>4. /\ TypeOK' /\ CommandInv' /\ (Copy!Source(cmd, Index))' = Copy!Source(cmd, Index)
        /\ WriteNow' = WriteNow
        /\ mem' = mem /\ Copied' = Copied => GoldenInv' /\ Index' = Index
    BY <1>1, <1>5, <2>1, <2>3, WithinWord
  <2>5. CASE cmd.dst = Hbm
    <3>1. mem' = mem /\ resp' = [s \in Space |-> NoResp]
      BY <1>1, <2>5, QuietEdge DEF Writing
    <3>2. PortInv'
      BY <1>1, <1>2, <1>4, <2>1, <2>2, <2>4, <2>5, <3>1 DEF PortInv, NoReqs, NoResp
    <3>3. DataInv'
      BY <1>1, <1>5, <2>1, <2>4, <3>1 DEF DataInv
    <3>4. Copied' = Copied
      BY <1>1, <1>2, <1>6, <2>1, <2>4, <3>1 DEF Copied, Phase, Index, NoResp
    <3> QED BY <2>4, <3>1, <3>2, <3>3, <3>4 DEF IInv
  <2>6. CASE cmd.dst # Hbm
    <3>1. Writing(grant)
      BY <1>1, <1>7, <2>6 DEF Writing, Ready
    <3>2. resp' = Answer(cmd.dst, NoData)
      BY <3>1, WritingEdge
    <3>3. ~hbm'.busy
      BY <1>2, <1>3, <1>4, <2>6
    <3>4. PortInv'
      BY <1>1, <1>2, <1>4, <2>1, <3>2, <3>3 DEF PortInv, NoReqs, Answer, NoResp
    <3>5. DataInv'
      BY <1>1, <1>2, <2>1, <3>2 DEF DataInv, Answer
    <3>6. GoldenInv'
      BY <1>1, <1>6, <2>1, <3>1, CopiedWord
    <3> QED BY <2>4, <3>4, <3>5, <3>6 DEF IInv
  <2> QED BY <2>5, <2>6
<1>8. CASE ~(req[cmd.dst].valid /\ Ready(cmd.dst, grant))
  <2>1. st' = st /\ req' = [req EXCEPT ![cmd.dst] = WriteNow] /\ Active'
    BY <1>1, <1>8 DEF WriteReq, Active, WriteNow
  <2>2. req' \in [Space -> Requests]
    BY <1>2, <1>5, <2>1
  <2>3. /\ TypeOK' /\ CommandInv' /\ WriteNow' = WriteNow
        /\ (Copy!Source(cmd, Index))' = Copy!Source(cmd, Index)
        /\ mem' = mem /\ Copied' = Copied => GoldenInv' /\ Index' = Index
    BY <1>1, <1>5, <2>1, <2>2, WithinWord
  <2>4. ~Writing(grant) /\ ~req[Hbm].valid
    BY <1>1, <1>2, <1>3, <1>8 DEF Writing, Ready
  <2>5. mem' = mem /\ resp' = [s \in Space |-> NoResp]
    BY <1>1, <2>4, QuietEdge
  <2>6. PortInv'
    BY <1>1, <1>2, <1>3, <1>4, <1>5, <2>1, <2>3, <2>4, <2>5 DEF PortInv, NoResp
  <2>7. DataInv'
    BY <1>1, <1>5, <2>1, <2>3, <2>5 DEF DataInv
  <2>8. Copied' = Copied
    BY <1>1, <1>6, <2>1, <2>3 DEF Copied, Phase, Index, IInv, TypeOK
  <2> QED BY <2>3, <2>5, <2>6, <2>7, <2>8 DEF IInv
<1> QED BY <1>7, <1>8

\* WRITE_WAIT goes on to the next word, or ends, when the write is answered.
LEMMA WriteWaitKeeps ==
  ASSUME ConstantsOK, IInv, NEW grant \in BOOLEAN, MemoryStep(grant), WriteWait
  PROVE  IInv'
<1> DEFINE N == Copy!WordCount(cmd)
<1>1. /\ st = "WRITE_WAIT" /\ Active /\ ~Reading(grant) /\ req' = NoReqs
      /\ UNCHANGED <<cmd, data, golden, accepted>>
  BY DEF WriteWait, Active, Reading
<1>2. /\ cmd.src \in Space /\ cmd.dst \in Space /\ Hbm \in Space /\ Legal(cmd)
      /\ NoReqs \in [Space -> Requests] /\ data \in Word \cup {NoData}
      /\ Index \in 0 .. N - 1 /\ offset = 4 * Index /\ N \in Nat /\ cmd.len = 4 * N
  BY <1>1, WordAtWork DEF ConstantsOK, NoReqs, NoReq, Requests, IInv, TypeOK
<1>3. /\ \A s \in Space : req[s] = NoReq /\ ~NoReq.valid
      /\ \A s \in Space : resp[s].valid => s = cmd.dst
      /\ hbm.busy => cmd.dst = Hbm /\ hbm.req = WriteNow /\ ~resp[cmd.dst].valid
  BY <1>1, <1>2 DEF IInv, PortInv, NoReq
<1>4. /\ hbm'.busy <=> hbm.busy /\ hbm.left # 0
      /\ hbm'.busy => hbm'.req = WriteNow
      /\ hbm'.ready = ~hbm'.busy
  BY <1>2, <1>3, HbmEdge DEF MemoryStep
<1>5. CASE ~resp[cmd.dst].valid
  <2>1. st' = st /\ offset' = offset /\ Active'
    BY <1>1, <1>5 DEF WriteWait, Active
  <2>2. /\ TypeOK' /\ CommandInv' /\ (Copy!Source(cmd, Index))' = Copy!Source(cmd, Index)
        /\ WriteNow' = WriteNow
        /\ mem' = mem /\ Copied' = Copied => GoldenInv' /\ Index' = Index
    BY <1>1, <1>2, <2>1, WithinWord
  <2>3. Copied = Index
    BY <1>1, <1>2, <1>5 DEF Copied, Phase, Index
  <2>4. data = mem[cmd.src][Copy!Source(cmd, Index)]
    BY <1>1, <1>5 DEF IInv, DataInv
  <2>5. CASE Writing(grant)
    <3>1. resp' = Answer(cmd.dst, NoData)
      BY <2>5, WritingEdge
    <3>2. ~hbm'.busy
      BY <1>1, <1>4, <2>5 DEF Writing
    <3>3. PortInv'
      BY <1>1, <1>2, <1>4, <2>1, <3>1, <3>2 DEF PortInv, NoReqs, Answer, NoResp
    <3>4. DataInv'
      BY <1>1, <1>2, <2>1, <3>1 DEF DataInv, Answer
    <3>5. GoldenInv'
      BY <1>1, <2>1, <2>3, <2>5, CopiedWord
    <3> QED BY <2>2, <3>3, <3>4, <3>5 DEF IInv
  <2>6. CASE ~Writing(grant)
    <3>1. mem' = mem /\ resp' = [s \in Space |-> NoResp]
      BY <1>1, <2>6, QuietEdge
    <3>2. PortInv'
      BY <1>1, <1>2, <1>3, <1>4, <2>1, <2>2, <3>1 DEF PortInv, NoReqs, NoResp
    <3>3. DataInv'
      BY <1>1, <2>1, <2>2, <2>4, <3>1 DEF DataInv
    <3>4. Copied' = Copied
      BY <1>1, <1>2, <2>1, <2>2, <2>3, <3>1 DEF Copied, Phase, Index, NoResp
    <3> QED BY <2>2, <3>1, <3>2, <3>3, <3>4 DEF IInv
  <2> QED BY <2>5, <2>6
<1>6. CASE resp[cmd.dst].valid
  <2>1. ~Writing(grant) /\ ~hbm'.busy
    BY <1>1, <1>3, <1>4, <1>6 DEF Writing
  <2>2. mem' = mem /\ resp' = [s \in Space |-> NoResp]
    BY <1>1, <2>1, QuietEdge
  <2>3. Left = Index + 1 .. N - 1
    BY <1>1, <1>6 DEF Left, Copied, Phase, Index
  <2>4. /\ \/ st' = "DONE" /\ offset' = offset /\ Index + 1 = N
           \/ st' = "READ_REQ" /\ offset' = 4 * (Index + 1) /\ Index + 1 < N
    BY <1>2, <1>6 DEF WriteWait
  <2>5. TypeOK'
    <3>1. /\ Copy!IsMemory(mem)' /\ resp' \in [Space -> Responses]
          /\ hbm' \in [busy : BOOLEAN, ready : BOOLEAN, left : 0 .. Latency, req : Requests]
      BY MemoryTypes
    <3>2. Copy!IsMemory(golden)'
      BY <1>1 DEF IInv, TypeOK, Copy!IsMemory, Copy!WordAddr
    <3>3. offset' \in 0 .. cmd'.len /\ offset' % 4 = 0 /\ offset' # cmd'.len
      BY <1>1, <1>2, <2>4
    <3> QED BY <1>1, <1>2, <2>4, <3>1, <3>2, <3>3 DEF IInv, TypeOK, Requests, Responses
  <2>6. PortInv'
    BY <1>1, <1>4, <2>1, <2>2, <2>4 DEF PortInv, NoReqs, NoResp
  <2>7. DataInv'
    BY <2>4 DEF DataInv
  <2>8. (Copy!WordCount(cmd))' = N
    BY <1>1 DEF Copy!WordCount
  <2>9. CASE st' = "DONE"
    <3>1. CommandInv'
      BY <1>1, <1>2, <2>9 DEF CommandInv, Legal, Active
    <3>2. Left' = Left
      <4>1. Left' = {} /\ Index + 1 = N
        BY <2>4, <2>9 DEF Left
      <4>2. Index + 1 .. N - 1 = {}
        BY <1>2, <4>1
      <4> QED BY <2>3, <4>1, <4>2
    <3>3. GoldenInv'
      BY <1>1, <2>2, <3>2 DEF IInv, GoldenInv, Agrees, ForwardOverlap
    <3> QED BY <2>5, <2>6, <2>7, <3>1, <3>3 DEF IInv
  <2>10. CASE st' = "READ_REQ"
    <3>1. Index' = Index + 1 /\ Index + 1 \in 0 .. N - 1
      BY <1>2, <2>4, <2>10 DEF Index
    <3>2. CommandInv'
      BY <1>1, <1>2, <2>4, <2>8, <2>10, <3>1 DEF CommandInv, Legal, Active
    <3>3. Left' = Left
      BY <1>2, <2>3, <2>8, <2>10, <3>1 DEF Left, Copied, Phase, Index
    <3>4. GoldenInv'
      BY <1>1, <2>2, <3>3 DEF IInv, GoldenInv, Agrees, ForwardOverlap
    <3> QED BY <2>5, <2>6, <2>7, <3>2, <3>4 DEF IInv
  <2> QED BY <2>4, <2>9, <2>10
<1> QED BY <1>5, <1>6

\* Every edge keeps the invariant.
LEMMA NextIInv ==
  ASSUME ConstantsOK
  PROVE  IInv /\ [Next]_vars => IInv'
<1> SUFFICES ASSUME IInv, [Next]_vars PROVE IInv'
  OBVIOUS
<1>1. ASSUME NEW grant \in BOOLEAN, Edge(grant) PROVE IInv'
  <2>1. EngineStep(grant) /\ MemoryStep(grant)
    BY <1>1 DEF Edge
  <2>2. ASSUME NEW c \in Cmds, Accept(c) PROVE IInv'
    BY <2>1, <2>2, AcceptKeeps
  <2>3. CASE (\E c \in Cmds : Reject(c)) \/ NoCommand \/ Done
    BY <2>1, <2>3, RestKeeps
  <2>4. CASE ReadReq(grant)
    BY <2>1, <2>4, ReadReqKeeps
  <2>5. CASE ReadWait
    BY <2>1, <2>5, ReadWaitKeeps
  <2>6. CASE WriteReq(grant)
    BY <2>1, <2>6, WriteReqKeeps
  <2>7. CASE WriteWait
    BY <2>1, <2>7, WriteWaitKeeps
  <2> QED BY <2>1, <2>2, <2>3, <2>4, <2>5, <2>6, <2>7 DEF EngineStep
<1>2. CASE UNCHANGED vars
  <2>1. /\ Copy!IsMemory(mem)' /\ Copy!IsMemory(golden)'
    BY <1>2 DEF vars, IInv, TypeOK, Copy!IsMemory, Copy!WordAddr
  <2>2. TypeOK'
    BY <1>2, <2>1 DEF vars, IInv, TypeOK
  <2>3. CommandInv' /\ PortInv'
    BY <1>2 DEF vars, IInv, CommandInv, PortInv, Active, Index, Legal, ReadNow, WriteNow, Read, Write,
                Copy!WordCount
  <2>4. DataInv'
    BY <1>2 DEF vars, IInv, DataInv, Index, Copy!Source
  <2>5. Left' = Left
    BY <1>2 DEF vars, Left, Copied, Phase, Copy!WordCount
  <2>6. GoldenInv'
    BY <1>2, <2>5 DEF vars, IInv, GoldenInv, Agrees, ForwardOverlap, Active
  <2> QED BY <2>2, <2>3, <2>4, <2>6 DEF IInv
<1> QED BY <1>1, <1>2 DEF Next

-----------------------------------------------------------------------------
(* Refinement                                                               *)

\* A step of the abstract copy, or none.
CopyStep == Copy!CopyNext(Cmds) \/ UNCHANGED Copy!copyVars

\* A step within a word copies it when its write takes effect, and is no step
\* otherwise.
LEMMA WithinWordCopies ==
  ASSUME ConstantsOK, IInv, NEW grant \in BOOLEAN, MemoryStep(grant), Active, Active',
         UNCHANGED <<cmd, offset>>, Copied = Index,
         IF Writing(grant) THEN st' = "WRITE_WAIT" ELSE Copied' = Copied
  PROVE  CopyStep
<1>1. /\ cmd.dst \in Space /\ Index \in 0 .. Copy!WordCount(cmd) - 1 /\ Copy!WordCount(cmd) \in Nat
  BY WordAtWork
<1>2. Phase = "COPY" /\ Phase' = "COPY"
  BY DEF Active, Phase
<1>3. CASE Writing(grant)
  <2>1. mem' = Copy!Moved(mem, cmd, Copied) /\ resp' = Answer(cmd.dst, NoData) /\ st' = "WRITE_WAIT"
    BY <1>3, WritingMoves
  <2>2. resp'[cmd'.dst].valid
    BY <1>1, <2>1 DEF Answer
  <2>3. Copied' = Copied + 1
    BY <1>2, <2>1, <2>2 DEF Copied, Index
  <2>4. Copied < Copy!WordCount(cmd)
    BY <1>1
  <2> QED BY <1>2, <2>1, <2>3, <2>4 DEF CopyStep, Copy!CopyNext, Copy!CopyWord
<1>4. CASE ~Writing(grant)
  <2>1. mem' = mem
    BY <1>4, ReadingEdge, QuietEdge
  <2> QED BY <1>2, <1>4, <2>1 DEF CopyStep, Copy!copyVars
<1> QED BY <1>3, <1>4

\* Every edge is a step of the abstract copy or none.
LEMMA EdgeCopies ==
  ASSUME ConstantsOK, IInv, NEW grant \in BOOLEAN, Edge(grant)
  PROVE  CopyStep
<1>1. EngineStep(grant) /\ MemoryStep(grant)
  BY DEF Edge
<1>2. ASSUME ~Active PROVE mem' = mem /\ Copied = 0
  BY <1>1, <1>2, RestingEdge DEF Active, Copied, Phase, IInv, TypeOK
<1>3. ASSUME Active, st # "WRITE_WAIT" PROVE Copied = Index
  BY <1>3 DEF Active, Copied, Phase, Index, IInv, TypeOK
<1>4. ASSUME NEW c \in Cmds, Accept(c) PROVE CopyStep
  <2>1. mem' = mem /\ Phase = "IDLE" /\ cmd' = c /\ Copy!Verdict(c) = "NONE"
    BY <1>2, <1>4 DEF Accept, Active, Phase
  <2>2. Phase' = IF cmd'.len = 0 THEN "DONE" ELSE "COPY"
    BY <1>4 DEF Accept, Phase
  <2>3. Copied' = 0
    BY <1>4 DEF Accept, Copied, Phase
  <2> QED BY <2>1, <2>2, <2>3 DEF CopyStep, Copy!CopyNext, Copy!Accept
<1>5. ASSUME NEW c \in Cmds, Reject(c) PROVE CopyStep
  <2>1. mem' = mem /\ Phase = "IDLE" /\ Phase' = "ERROR" /\ cmd' = cmd
    BY <1>2, <1>5 DEF Reject, Active, Phase
  <2>2. Copied = 0 /\ Copied' = 0
    BY <1>2, <1>5, <2>1 DEF Reject, Active, Copied
  <2> QED BY <2>1, <2>2 DEF CopyStep, Copy!CopyNext, Copy!Reject
<1>6. CASE NoCommand
  <2>1. mem' = mem /\ cmd' = cmd /\ Phase' = Phase /\ Phase # "COPY"
    BY <1>2, <1>6 DEF NoCommand, Active, Phase
  <2>2. Copied' = Copied
    BY <2>1 DEF Copied
  <2> QED BY <2>1, <2>2 DEF CopyStep, Copy!copyVars
<1>7. CASE Done
  <2>1. mem' = mem /\ cmd' = cmd /\ Phase = "DONE" /\ Phase' = "IDLE"
    BY <1>2, <1>7 DEF Done, Active, Phase
  <2>2. Copied = 0 /\ Copied' = 0
    BY <2>1 DEF Copied
  <2> QED BY <2>1, <2>2 DEF CopyStep, Copy!CopyNext, Copy!Rearm
<1>8. CASE ReadReq(grant) \/ ReadWait
  <2>1. /\ Active /\ Active' /\ UNCHANGED <<cmd, offset>> /\ ~Writing(grant)
        /\ st # "WRITE_WAIT" /\ st' \in {"READ_REQ", "READ_WAIT", "WRITE_REQ"}
    BY <1>8 DEF ReadReq, ReadWait, Active, Writing
  <2>2. Copied = Index
    BY <1>3, <2>1
  <2>3. Copied' = Index
    BY <2>1, WordAtWork DEF Copied, Phase, Index
  <2> QED BY <1>1, <2>1, <2>2, <2>3, WithinWordCopies
<1>9. CASE WriteReq(grant)
  <2>1. /\ st = "WRITE_REQ" /\ Active /\ Active' /\ UNCHANGED <<cmd, offset>>
        /\ st' \in {"WRITE_REQ", "WRITE_WAIT"} /\ cmd.dst \in Space /\ Index \in Int
    BY <1>9, WordAtWork DEF WriteReq, Active
  <2>2. Copied = Index
    BY <1>3, <2>1
  <2>3. CASE Writing(grant)
    <3>1. st' = "WRITE_WAIT"
      BY <1>9, <2>1, <2>3 DEF WriteReq, Writing, Ready
    <3> QED BY <1>1, <2>1, <2>2, <2>3, <3>1, WithinWordCopies
  <2>4. CASE ~Writing(grant)
    <3>1. resp' = [s \in Space |-> NoResp]
      BY <1>1, <2>1, <2>4, QuietEdge DEF Reading
    <3>2. Copied' = Index
      BY <2>1, <3>1 DEF Copied, Phase, Index, NoResp
    <3> QED BY <1>1, <2>1, <2>2, <2>4, <3>2, WithinWordCopies
  <2> QED BY <2>3, <2>4
<1>10. CASE WriteWait
  <2>1. /\ st = "WRITE_WAIT" /\ Active /\ cmd' = cmd /\ Phase = "COPY" /\ ~Reading(grant)
    BY <1>10 DEF WriteWait, Active, Phase, Reading
  <2>2. /\ cmd.dst \in Space /\ Index \in 0 .. Copy!WordCount(cmd) - 1 /\ offset = 4 * Index
        /\ Copy!WordCount(cmd) \in Nat /\ cmd.len = 4 * Copy!WordCount(cmd)
    BY <2>1, WordAtWork
  <2>3. CASE ~resp[cmd.dst].valid
    <3>1. Active' /\ UNCHANGED <<cmd, offset>> /\ st' = "WRITE_WAIT" /\ Copied = Index
      BY <1>10, <2>1, <2>2, <2>3 DEF WriteWait, Active, Copied, Index
    <3>2. CASE Writing(grant)
      BY <1>1, <2>1, <3>1, <3>2, WithinWordCopies
    <3>3. CASE ~Writing(grant)
      <4>1. resp' = [s \in Space |-> NoResp]
        BY <1>1, <2>1, <3>3, QuietEdge
      <4>2. Copied' = Index
        BY <2>2, <3>1, <4>1 DEF Copied, Phase, Index, NoResp
      <4> QED BY <1>1, <2>1, <3>1, <3>3, <4>2, WithinWordCopies
    <3> QED BY <3>2, <3>3
  <2>4. CASE resp[cmd.dst].valid
    <3>1. mem' = mem
      <4>1. ~Writing(grant)
        BY <2>1, <2>2, <2>4 DEF Writing, IInv, PortInv
      <4> QED BY <1>1, <2>1, <4>1, QuietEdge
    <3>2. Copied = Index + 1
      BY <2>1, <2>4 DEF Copied, Index
    <3>3. CASE offset + 4 >= cmd.len
      <4>1. st' = "DONE"
        BY <1>10, <2>4, <3>3 DEF WriteWait
      <4>2. Phase' = "DONE" /\ Copied' = 0
        BY <4>1 DEF Phase, Copied
      <4>3. Copied = Copy!WordCount(cmd)
        BY <2>2, <3>2, <3>3
      <4> QED BY <2>1, <3>1, <4>2, <4>3 DEF CopyStep, Copy!CopyNext, Copy!Finish
    <3>4. CASE ~(offset + 4 >= cmd.len)
      <4>1. st' = "READ_REQ" /\ offset' = offset + 4
        BY <1>10, <2>4, <3>4 DEF WriteWait
      <4>2. Phase' = "COPY" /\ Copied' = Index + 1
        BY <2>2, <4>1 DEF Phase, Copied
      <4> QED BY <2>1, <3>1, <3>2, <4>2 DEF CopyStep, Copy!copyVars
    <3> QED BY <3>3, <3>4
  <2> QED BY <2>3, <2>4
<1> QED BY <1>1, <1>4, <1>5, <1>6, <1>7, <1>8, <1>9, <1>10 DEF EngineStep

-----------------------------------------------------------------------------
(* Theorems                                                                 *)

\* IInv is an invariant: the ports, the HBM and the memories agree on the word at
\* work in every state.
THEOREM Invariant ==
  ASSUME ConstantsOK
  PROVE  Spec => []IInv
<1> QED BY InitIInv, NextIInv, PTL DEF Spec

\* Every register of the engine and of the memories keeps its type.
THEOREM TypeCorrect ==
  ASSUME ConstantsOK
  PROVE  Spec => []TypeOK
<1>1. IInv => TypeOK
  BY DEF IInv
<1> QED BY <1>1, Invariant, PTL

\* The range check of 32-bit sums covers every access of a command, wherever its
\* ranges end: the error responses of the memories are unreachable.
THEOREM AccessesInRange ==
  ASSUME ConstantsOK
  PROVE  Spec => []AccessInRange
<1>1. IInv => AccessInRange
  <2> SUFFICES ASSUME IInv, NEW s \in Space
               PROVE  /\ req[s].valid => req[s].addr \div 4 \in Copy!WordAddr(s)
                      /\ hbm.busy => hbm.req.addr \div 4 \in Copy!WordAddr(Hbm)
    BY DEF AccessInRange
  <2>1. /\ \/ ~req[s].valid
           \/ Active /\ s = cmd.src /\ req[s].addr = cmd.from + offset
           \/ Active /\ s = cmd.dst /\ req[s].addr = cmd.to + offset
        /\ \/ ~hbm.busy
           \/ Active /\ cmd.src = Hbm /\ hbm.req.addr = cmd.from + offset
           \/ Active /\ cmd.dst = Hbm /\ hbm.req.addr = cmd.to + offset
    BY DEF IInv, PortInv, Active, NoReq, ReadNow, WriteNow, Read, Write
  <2> QED BY <2>1, WordAtWork
<1> QED BY <1>1, Invariant, PTL

\* A finished command has left in every memory what the golden model's
\* read-all-then-write copy leaves, unless it copies forwards onto itself.
THEOREM GoldenResult ==
  ASSUME ConstantsOK
  PROVE  Spec => []MatchesGolden
<1>1. IInv => MatchesGolden
  <2> SUFFICES ASSUME IInv, st = "DONE", ~ForwardOverlap(cmd)
               PROVE  mem = golden
    BY DEF MatchesGolden
  <2>1. \A s \in Space : \A a \in Copy!WordAddr(s) : golden[s][a] = mem[s][a]
    BY DEF IInv, GoldenInv, Agrees, Left
  <2>2. /\ mem = [s \in Space |-> mem[s]] /\ golden = [s \in Space |-> golden[s]]
        /\ \A s \in Space : /\ mem[s] \in [Copy!WordAddr(s) -> Word]
                            /\ golden[s] \in [Copy!WordAddr(s) -> Word]
    BY DEF IInv, TypeOK, Copy!IsMemory
  <2>3. ASSUME NEW s \in Space PROVE golden[s] = mem[s]
    <3>1. /\ mem[s] \in [Copy!WordAddr(s) -> Word] /\ golden[s] \in [Copy!WordAddr(s) -> Word]
          /\ \A a \in Copy!WordAddr(s) : golden[s][a] = mem[s][a]
      BY <2>1, <2>2
    <3> QED BY <3>1
  <2> QED BY <2>2, <2>3
<1> QED BY <1>1, Invariant, PTL

\* The engine and its memories implement the word-at-a-time copy: whatever the
\* latency and the grants, no word is lost, duplicated, taken from another address
\* or written early.
THEOREM ImplementsCopy ==
  ASSUME ConstantsOK
  PROVE  Spec => Implements
<1>1. IInv /\ [Next]_vars => [Copy!CopyNext(Cmds)]_(Copy!copyVars)
  <2>1. CASE UNCHANGED vars
    BY <2>1 DEF vars, Copy!copyVars, Phase, Copied
  <2>2. ASSUME IInv, NEW grant \in BOOLEAN, Edge(grant) PROVE [Copy!CopyNext(Cmds)]_(Copy!copyVars)
    BY <2>2, EdgeCopies DEF CopyStep
  <2> QED BY <2>1, <2>2 DEF Next
<1> QED BY <1>1, Invariant, PTL DEF Spec, Implements
=============================================================================
