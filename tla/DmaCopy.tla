------------------------------ MODULE DmaCopy ------------------------------
(***************************************************************************)
(* What the DMA engine promises, without its ports: a command is rejected  *)
(* or its words are moved one at a time, in address order, each by reading *)
(* the current contents of memory.                                         *)
(***************************************************************************)
EXTENDS Integers

CONSTANTS
  Space,      \* memory spaces a DMA command may name
  Bytes,      \* Bytes[s]: size of space s (HBM_BYTES, CMEM_BYTES, VMEM_BYTES)
  AddrMod,    \* 2^32: width of the address adder
  Word        \* values of a 32-bit memory word

WordAddr(s) == 0 .. (Bytes[s] \div 4) - 1
IsMemory(m) == /\ m = [s \in Space |-> m[s]]
               /\ \A s \in Space : m[s] \in [WordAddr(s) -> Word]

\* dma_cmd_t; a space outside Space stands for INFEED, OUTFEED and the
\* unused encodings.
IsCmd(c) == /\ DOMAIN c = {"src", "dst", "from", "to", "len"}
            /\ c.from \in 0 .. AddrMod - 1 /\ c.to \in 0 .. AddrMod - 1
            /\ c.len \in 0 .. AddrMod - 1

\* What the constants must be; assumed by the module that instantiates this one.
SizesOK ==
  /\ AddrMod \in Nat \ {0} /\ AddrMod % 4 = 0
  /\ \A s \in Space : Bytes[s] \in Nat /\ Bytes[s] % 4 = 0 /\ Bytes[s] <= AddrMod

-----------------------------------------------------------------------------
(* Command check, in the order of ST_IDLE                                  *)

ValidSpaces(c) == c.src \in Space /\ c.dst \in Space
Aligned(c) == c.from % 4 = 0 /\ c.to % 4 = 0 /\ c.len % 4 = 0

RangeOKNoWrapCheck(s, addr, len) == (addr + len) % AddrMod <= Bytes[s]

\* The sum is a 32-bit sum; the second test rejects one that wrapped.
RangeOK(s, addr, len) ==
  LET sum == (addr + len) % AddrMod IN sum <= Bytes[s] /\ sum >= addr

Verdict(c) == CASE ~ValidSpaces(c) -> "UNSUPPORTED"
                [] ValidSpaces(c) /\ ~Aligned(c) -> "UNALIGNED"
                [] ValidSpaces(c) /\ Aligned(c) /\
                     ~(RangeOK(c.src, c.from, c.len) /\ RangeOK(c.dst, c.to, c.len)) -> "BAD_ADDR"
                [] OTHER -> "NONE"

WordCount(c) == c.len \div 4
Source(c, k) == c.from \div 4 + k
Target(c, k) == c.to \div 4 + k

\* memory with word k of command c copied
Moved(m, c, k) ==
  [m EXCEPT ![c.dst][Target(c, k)] = m[c.src][Source(c, k)]]

-----------------------------------------------------------------------------
VARIABLES phase, cmd, copied, mem

copyVars == <<phase, cmd, copied, mem>>

Accept(Cmds) ==
  /\ phase = "IDLE"
  /\ cmd' \in Cmds /\ Verdict(cmd') = "NONE" /\ copied' = 0
  /\ phase' = IF cmd'.len = 0 THEN "DONE" ELSE "COPY"
  /\ UNCHANGED mem

Reject ==
  /\ phase = "IDLE" /\ phase' = "ERROR"
  /\ UNCHANGED <<cmd, copied, mem>>

CopyWord ==
  /\ phase = "COPY" /\ copied < WordCount(cmd)
  /\ mem' = Moved(mem, cmd, copied)
  /\ copied' = copied + 1
  /\ UNCHANGED <<phase, cmd>>

Finish ==
  /\ phase = "COPY" /\ copied = WordCount(cmd)
  /\ phase' = "DONE" /\ copied' = 0
  /\ UNCHANGED <<cmd, mem>>

Rearm ==
  /\ phase = "DONE" /\ phase' = "IDLE"
  /\ UNCHANGED <<cmd, copied, mem>>

CopyNext(Cmds) == Accept(Cmds) \/ Reject \/ CopyWord \/ Finish \/ Rearm
=============================================================================
