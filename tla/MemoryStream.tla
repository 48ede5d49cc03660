---------------------------- MODULE MemoryStream ----------------------------
(***************************************************************************)
(* CMemoryStreamT (inc/StreamImpl.h), the IStream in memory that messages  *)
(* and attachments are built in, over its two allocators.  Each call runs  *)
(* under the object's lock (StreamLock), or on one thread, and is one      *)
(* step.  The model is of the release build: a debug build allocates what  *)
(* is asked for.                                                           *)
(*                                                                         *)
(* block is the memory that _pbData points to; block.size is its real      *)
(* size and cbData the size the stream believes it has.  written and lent  *)
(* are history: the positions whose byte a client has stored, and how much *)
(* memory the address from the last GetMemoryInfo was said to have.        *)
(***************************************************************************)
EXTENDS Integers, Sequences

CONSTANTS
  Byte, Zero,      (* what clients store, and what is in cleared memory    *)
  Junk,            (* the content of memory fresh from CoTaskMemAlloc      *)
  M,               (* ULONG_MAX + 1                                        *)
  MinAlloc, Slack, (* 0x1000 and 0x100000 in _EnsureBufferSize             *)
  Heaps,           (* the allocators the stream may have: "Com", "Virtual" *)
  OutOfMemory,     (* those that may fail                                  *)
  Counts,          (* sizes and lengths clients ask for                    *)
  Moves,           (* distances they seek                                  *)
  Texts,           (* sequences of bytes they write                        *)
  Buffers,         (* sizes of the buffer that CopyTo may get              *)
  AnyRead          (* do they read at a position without memory behind it? *)

ULONG   == 0 .. M - 1
Content == Byte \cup {Zero, Junk}
Block   == UNION {[size : {n}, byte : [0 .. n - 1 -> Content]] : n \in ULONG}
HResult == {"S_OK", "E_OUTOFMEMORY", "STG_E_INVALIDFUNCTION",
            "STG_E_INVALIDPOINTER"}

ASSUME WidthAssumption == /\ M \in Nat /\ MinAlloc \in ULONG /\ Slack \in ULONG
                          /\ MinAlloc > 0
ASSUME ByteAssumption  == Junk \notin Byte \cup {Zero}
ASSUME HeapAssumption  == /\ Heaps \subseteq {"Com", "Virtual"}
                          /\ OutOfMemory \subseteq Heaps
ASSUME CallAssumption  == /\ Counts \subseteq Nat /\ Moves \subseteq Int
                          /\ Texts \subseteq Seq(Byte)
                          /\ \A t \in Texts : Len(t) \in ULONG
                          /\ Buffers \subseteq Nat \ {0}
                          /\ AnyRead \in BOOLEAN

VARIABLES heap, block, cbData, cbSize, pos, written, lent, stray, ret

vars == <<heap, block, cbData, cbSize, pos, written, lent, stray, ret>>

Least(x, y)    == IF x < y THEN x ELSE y
Greatest(x, y) == IF x > y THEN x ELSE y

Returns(op, hr, count, data) ==
  ret' = [op |-> op, hr |-> hr, count |-> count, data |-> data]

Init ==
  /\ heap \in Heaps
  /\ block = [size |-> 0, byte |-> [i \in {} |-> Junk]]
  /\ cbData = 0 /\ cbSize = 0 /\ pos = 0
  /\ written = {} /\ lent = 0 /\ stray = FALSE
  /\ ret = [op |-> "", hr |-> "S_OK", count |-> 0, data |-> <<>>]
-----------------------------------------------------------------------------
(***************************************************************************)
(* The allocators.  Both free the block when the new size is 0.  When      *)
(* there is no memory CoTaskMemRealloc returns NULL and leaves the block,  *)
(* VirtualMemHeap returns the block it was given.                          *)
(***************************************************************************)
MovedWithoutCopy(n) ==    (* mutant: the old contents stay behind *)
  [size |-> n,
   byte |-> [i \in 0 .. n - 1 |-> IF heap = "Virtual" THEN Zero ELSE Junk]]

Moved(n) ==
  [size |-> n,
   byte |-> [i \in 0 .. n - 1 |->
               IF i < Least(block.size, n) THEN block.byte[i]
               ELSE IF heap = "Virtual" THEN Zero ELSE Junk]]

MemReallocate(n) ==
  {[null |-> n = 0, block |-> Moved(n)]} \cup
  IF n > 0 /\ heap \in OutOfMemory
  THEN {[null |-> heap = "Com" \/ block.size = 0, block |-> block]}
  ELSE {}

Growth ==
  Greatest(Least((2 * cbData) % M, (cbData + cbData \div 4 + Slack) % M),
           MinAlloc)

WantedByGrowth(n) ==    (* mutant: growth alone, though more was asked for *)
  IF n > cbData THEN Growth ELSE n

Wanted(n) == IF n > cbData THEN Greatest(n, Growth) ELSE n

KeepsBlock(n) == n <= cbData /\ n > cbData \div 4

(* What a helper leaves behind and returns. *)
Unchanged(hr) ==
  [hr |-> hr, block |-> block, cbData |-> cbData, cbSize |-> cbSize]

_EnsureBufferSize(n) ==
  IF KeepsBlock(n)
  THEN {Unchanged("S_OK")}
  ELSE {IF new.null /\ Wanted(n) > 0
        THEN [Unchanged("E_OUTOFMEMORY") EXCEPT !.block = new.block]
        ELSE [Unchanged("S_OK") EXCEPT !.block = new.block,
                                       !.cbData = Wanted(n)]
          : new \in MemReallocate(Wanted(n))}

(* The size changes before the memory, which is only ever given back here. *)
_SetSize(n) ==
  IF n \notin ULONG
  THEN {Unchanged("E_OUTOFMEMORY")}
  ELSE {[o EXCEPT !.cbSize = n] :
          o \in IF n < cbData THEN _EnsureBufferSize(n)
                              ELSE {Unchanged("S_OK")}}

Becomes(o) == block' = o.block /\ cbData' = o.cbData /\ cbSize' = o.cbSize
-----------------------------------------------------------------------------
(***************************************************************************)
(* _Read copies what the block has and fills the rest of the size with     *)
(* zeros, from the offset cbData - _iPosCur of the caller's buffer on.     *)
(* stray says that a step touched memory outside the block, or in front of *)
(* the caller's buffer.                                                    *)
(***************************************************************************)
Delivered(iPosNew) ==
  [i \in 1 .. iPosNew - pos |->
     IF pos + i <= Least(Least(iPosNew, cbData), block.size)
     THEN block.byte[pos + i - 1] ELSE Zero]

Strays(from, to) ==
  LET backed == Least(to, cbData)
  IN  \/ backed > from /\ backed > block.size
      \/ to > backed /\ backed < from

Read(cb) ==
  LET iPosNew == Least(IF pos + cb >= M THEN M - 1 ELSE pos + cb, cbSize)
  IN  /\ AnyRead \/ pos <= Least(cbSize, cbData)
      /\ Returns("Read", "S_OK", (iPosNew - pos) % M, Delivered(iPosNew))
      /\ stray' = (stray \/ Strays(pos, iPosNew))
      /\ pos' = iPosNew
      /\ UNCHANGED <<heap, block, cbData, cbSize, written, lent>>

(***************************************************************************)
(* CopyTo reads whole buffers, also when fewer bytes are to be copied, and *)
(* then gives up with the position moved.  The Write of the other stream   *)
(* may fail in any round.  The lock, which is kept then, is the matter of  *)
(* StreamLock.                                                             *)
(***************************************************************************)
cbTotal(cb) == Least(cb % M, (cbSize - pos) % M)

CopyTo(cb) ==
  /\ AnyRead \/ (pos <= cbSize /\ cbSize <= cbData)
  /\ \E cbBuff \in Buffers, rounds \in 0 .. cbTotal(cb) :
       LET iPos(k)   == IF k = 0 THEN pos ELSE Least(pos + k * cbBuff, cbSize)
           cbRead(k) == (iPos(k) - pos) % M
       IN  /\ IF rounds = 0 THEN cbTotal(cb) = 0
                            ELSE cbRead(rounds - 1) < cbTotal(cb)
           /\ pos' = iPos(rounds)
           /\ \/ /\ cbRead(rounds) > cbTotal(cb)
                 /\ Returns("CopyTo", "STG_E_INVALIDPOINTER", 0, <<>>)
              \/ /\ rounds > 0 /\ cbRead(rounds) <= cbTotal(cb)
                 /\ Returns("CopyTo", "E_OUTOFMEMORY", 0, <<>>)
              \/ /\ cbRead(rounds) = cbTotal(cb)
                 /\ Returns("CopyTo", "S_OK", cbTotal(cb), Delivered(pos'))
           /\ stray' = (\/ stray
                        \/ \E k \in 1 .. rounds : Strays(iPos(k - 1), iPos(k))
                        \/ /\ rounds > 0 /\ pos > cbSize
                           /\ ret'.hr # "STG_E_INVALIDPOINTER")
  /\ UNCHANGED <<heap, block, cbData, cbSize, written, lent>>

(* A stream copied into itself reads into its own block, from the position on
   and without making room; the counts are not returned. *)
CopyToSelf(cb) ==
  LET iPosNew == Least(pos + cbTotal(cb), cbSize)
  IN  /\ AnyRead \/ (pos <= cbSize /\ cbSize <= cbData)
      /\ Returns("CopyToSelf", "S_OK", 0, <<>>)
      /\ stray' = (\/ stray \/ Strays(pos, iPosNew)
                   \/ iPosNew > cbData /\ iPosNew > block.size)
      /\ pos' = iPosNew
      /\ UNCHANGED <<heap, block, cbData, cbSize, written, lent>>

Stored(b, p, data) ==
  [b EXCEPT !.byte = [i \in DOMAIN @ |->
     IF i - p + 1 \in 1 .. Len(data) THEN data[i - p + 1] ELSE @[i]]]

(* Room is made for the bytes first.  The count returned is always cb. *)
Write(data) ==
  LET cb      == Len(data)
      iPosNew == pos + cb
      Room    == IF iPosNew >= M THEN {Unchanged("STG_E_INVALIDFUNCTION")}
                 ELSE IF iPosNew > cbData THEN _EnsureBufferSize(iPosNew)
                 ELSE {Unchanged("S_OK")}
  IN  \E o \in Room :
        /\ Returns("Write", o.hr, cb, <<>>)
        /\ \/ /\ o.hr # "S_OK"
              /\ Becomes(o)
              /\ UNCHANGED <<pos, written, stray>>
           \/ /\ o.hr = "S_OK"
              /\ block' = Stored(o.block, pos, data)
              /\ cbData' = o.cbData
              /\ cbSize' = Greatest(cbSize, iPosNew)
              /\ pos' = iPosNew
              /\ written' = written \cup pos .. iPosNew - 1
              /\ stray' = (stray \/ (cb > 0 /\ iPosNew > o.block.size))
        /\ lent' = 0
        /\ UNCHANGED heap

SetSize(n) ==
  \E o \in _SetSize(n) :
    /\ Returns("SetSize", o.hr, 0, <<>>)
    /\ Becomes(o)
    /\ written' = written \cap 0 .. o.cbSize - 1
    /\ lent' = 0
    /\ UNCHANGED <<heap, pos, stray>>

(***************************************************************************)
(* The new position is computed in 64 unsigned bits, so one before the     *)
(* beginning is a huge one, which _SetSize refuses.  One behind the end    *)
(* sets the size first.                                                    *)
(***************************************************************************)
SeekTo(p) ==
  \E o \in IF p \in 0 .. cbSize THEN {Unchanged("S_OK")} ELSE _SetSize(p) :
    /\ Returns("Seek", o.hr, 0, <<>>)
    /\ Becomes(o)
    /\ pos' = IF o.hr = "S_OK" THEN p ELSE pos
    /\ lent' = IF p \in 0 .. cbSize THEN lent ELSE 0
    /\ UNCHANGED <<heap, written, stray>>

Seek(move) == \E iPosStart \in {0, pos, cbSize} : SeekTo(iPosStart + move)

SeekFromElsewhere ==
  /\ Returns("Seek", "STG_E_INVALIDFUNCTION", 0, <<>>)
  /\ UNCHANGED <<heap, block, cbData, cbSize, pos, written, lent, stray>>

GetMemoryInfoAsIs ==    (* mutant: the block does not grow to the size *)
  /\ Returns("GetMemoryInfo", "S_OK", 0, <<>>)
  /\ lent' = cbSize
  /\ UNCHANGED <<heap, block, cbData, cbSize, pos, written, stray>>

(* The size may be larger than the block: the block grows before its address
   and the size are given out. *)
GetMemoryInfo ==
  \E o \in _EnsureBufferSize(Greatest(cbData, cbSize)) :
    /\ Returns("GetMemoryInfo", o.hr, 0, <<>>)
    /\ Becomes(o)
    /\ lent' = IF o.hr = "S_OK" THEN cbSize ELSE 0
    /\ UNCHANGED <<heap, pos, written, stray>>

(* A client stores bytes at the lent address, as the decoder does. *)
Fill(data) ==
  /\ Len(data) <= lent
  /\ Returns("Fill", "S_OK", 0, <<>>)
  /\ block' = Stored(block, 0, data)
  /\ written' = written \cup 0 .. Len(data) - 1
  /\ stray' = (stray \/ Len(data) > block.size)
  /\ UNCHANGED <<heap, cbData, cbSize, pos, lent>>

Next ==
  \/ \E cb \in Counts : Read(cb) \/ CopyTo(cb) \/ CopyToSelf(cb) \/ SetSize(cb)
  \/ \E data \in Texts : Write(data) \/ Fill(data)
  \/ \E move \in Moves : Seek(move)
  \/ SeekFromElsewhere
  \/ GetMemoryInfo

Spec == Init /\ [][Next]_vars
-----------------------------------------------------------------------------
TypeOK ==
  /\ heap \in Heaps
  /\ block \in Block
  /\ cbData \in ULONG /\ cbSize \in ULONG /\ pos \in ULONG
  /\ written \subseteq 0 .. cbSize - 1
  /\ lent \in 0 .. cbSize
  /\ stray \in BOOLEAN
  /\ ret.hr \in HResult /\ ret.count \in ULONG /\ ret.data \in Seq(Content)

(* No call reads or writes outside the block or the caller's buffer, and Read
   reports as many bytes as it delivered: the pointer arithmetic of _Read and
   Write is right for every history of calls. *)
StaysInBuffers ==
  /\ ~stray
  /\ ret.op = "Read" => ret.count = Len(ret.data)

(* "We're about to give out a memory address and range so make sure the
   current size is actually backed up by memory" (GetMemoryInfo): all of the
   range that was given out is memory of the block. *)
LentMemoryIsBacked == lent <= block.size

(* The bytes a client has stored, by Write or through the lent address, are
   the contents, through every growth and shrinking of the block. *)
Contents ==
  [i \in 1 .. cbSize |->
     IF i - 1 \in written /\ i <= block.size THEN block.byte[i - 1] ELSE Junk]

File == INSTANCE ByteStream
          WITH file <- Contents, at <- pos, Undef <- Junk, Counts <- ULONG,
               ret <- [op |-> ret.op, hr |-> ret.hr, data |-> ret.data]

(* Whatever the allocators do, the clients see a file of bytes. *)
IsAFile == File!Spec
=============================================================================
