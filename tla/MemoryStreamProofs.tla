------------------------- MODULE MemoryStreamProofs -------------------------
(***************************************************************************)
(* For every width of a size, every growth policy and every client:        *)
(* CMemoryStreamT keeps its types.  If its allocator reports that it       *)
(* failed, and no client reads at a position without memory behind it,     *)
(* then no call leaves its buffers, lent memory is there, and a client     *)
(* cannot tell it from a file of bytes.                                    *)
(***************************************************************************)
EXTENDS MemoryStream, TLAPS

(* The two conditions that CMemoryStreamT needs and does not establish. *)
Reliable == "Virtual" \notin OutOfMemory /\ ~AnyRead

(* The stream knows the size of its block, so whatever was lent or stored is
   in it. *)
Backed ==
  /\ cbData = block.size
  /\ lent <= block.size
  /\ \A i \in written : i < block.size
  /\ StaysInBuffers

IInv == TypeOK /\ (Reliable => Backed)

Outcome == [hr : HResult, block : Block, cbData : ULONG, cbSize : ULONG]

(* All that the allocators, and the helpers on top of them, guarantee of the
   block they leave behind when n bytes are asked for. *)
Keeps(b, n) ==
  \A i \in 0 .. block.size - 1 :
    i < n => i < b.size /\ b.byte[i] = block.byte[i]
-----------------------------------------------------------------------------
LEMMA ModRange == ASSUME NEW x \in Int, NEW m \in Nat, m > 0
                  PROVE  x % m \in 0 .. m - 1
  OBVIOUS

LEMMA ModSmall == ASSUME NEW m \in Nat, NEW x \in 0 .. m - 1
                  PROVE  x % m = x
  OBVIOUS

LEMMA Wider == ASSUME NEW x \in Nat, NEW y \in Nat, x <= y
               PROVE  0 .. x - 1 \subseteq 0 .. y - 1
  OBVIOUS

LEMMA ULONGRange == M \in Nat /\ M > 0 /\ ULONG \subseteq Nat
                      /\ \A n \in Nat : n < M => n \in ULONG
  BY WidthAssumption DEF ULONG

LEMMA BlockFields ==
  ASSUME NEW b \in Block
  PROVE  /\ b.size \in ULONG
         /\ b.byte \in [0 .. b.size - 1 -> Content]
         /\ b = [size |-> b.size, byte |-> b.byte]
  <1>1. PICK n \in ULONG : b \in [size : {n}, byte : [0 .. n - 1 -> Content]]
    BY DEF Block
  <1>2. QED
    BY <1>1

LEMMA NewBlock ==
  ASSUME NEW n \in ULONG, NEW f \in [0 .. n - 1 -> Content]
  PROVE  [size |-> n, byte |-> f] \in Block
  <1>1. [size |-> n, byte |-> f]
          \in [size : {n}, byte : [0 .. n - 1 -> Content]]
    OBVIOUS
  <1>2. QED
    BY <1>1 DEF Block

(* Storing bytes changes what a block holds and not how large it is. *)
LEMMA StoredBlock ==
  ASSUME NEW b \in Block, NEW p \in Nat, NEW data \in Seq(Byte)
  PROVE  Stored(b, p, data) \in Block /\ Stored(b, p, data).size = b.size
  <1> DEFINE f == [i \in DOMAIN b.byte |->
                     IF i - p + 1 \in 1 .. Len(data) THEN data[i - p + 1]
                                                     ELSE b.byte[i]]
  <1>1. /\ b.size \in ULONG
        /\ b.byte \in [0 .. b.size - 1 -> Content]
        /\ b = [size |-> b.size, byte |-> b.byte]
    BY BlockFields
  <1>2. \A i \in 1 .. Len(data) : data[i] \in Byte
    OBVIOUS
  <1>3. f \in [0 .. b.size - 1 -> Content]
    BY <1>1, <1>2 DEF Content
  <1>4. Stored(b, p, data) = [size |-> b.size, byte |-> f]
    BY <1>1, SMTT(30) DEF Stored
  <1>5. [size |-> b.size, byte |-> f] \in Block
    BY <1>1, <1>3, NewBlock
  <1>6. QED
    BY <1>4, <1>5
-----------------------------------------------------------------------------
LEMMA MovedBlock ==
  ASSUME TypeOK, NEW n \in ULONG
  PROVE  Moved(n) \in Block /\ Moved(n).size = n /\ Keeps(Moved(n), n)
  <1>1. /\ block.size \in Nat /\ n \in Nat
        /\ block.byte \in [0 .. block.size - 1 -> Content]
    BY BlockFields, ULONGRange DEF TypeOK
  <1> DEFINE f == [i \in 0 .. n - 1 |->
                     IF i < Least(block.size, n) THEN block.byte[i]
                     ELSE IF heap = "Virtual" THEN Zero ELSE Junk]
  <1>2. Moved(n) = [size |-> n, byte |-> f]
    BY DEF Moved
  <1>3. f \in [0 .. n - 1 -> Content]
    <2> SUFFICES ASSUME NEW i \in 0 .. n - 1 PROVE f[i] \in Content
      OBVIOUS
    <2>1. i < Least(block.size, n) => block.byte[i] \in Content
      BY <1>1 DEF Least
    <2>2. Zero \in Content /\ Junk \in Content
      BY DEF Content
    <2>3. f[i] = IF i < Least(block.size, n) THEN block.byte[i]
                 ELSE IF heap = "Virtual" THEN Zero ELSE Junk
      OBVIOUS
    <2> HIDE DEF f
    <2>4. QED
      BY <2>1, <2>2, <2>3
  <1>4. [size |-> n, byte |-> f] \in Block
    BY <1>3, NewBlock
  <1>5. Keeps(Moved(n), n)
    <2> SUFFICES ASSUME NEW i \in 0 .. block.size - 1, i < n
                 PROVE  i < n /\ f[i] = block.byte[i]
      BY <1>2 DEF Keeps
    <2>1. i \in 0 .. n - 1 /\ i < Least(block.size, n)
      BY <1>1 DEF Least
    <2>2. QED
      BY <2>1
  <1>6. QED
    BY <1>2, <1>4, <1>5

LEMMA ReallocatedBlock ==
  ASSUME TypeOK, NEW n \in ULONG, NEW new \in MemReallocate(n)
  PROVE  /\ new.block \in Block
         /\ Keeps(new.block, n)
         /\ Reliable => new.block.size = (IF new.null /\ n > 0 THEN block.size
                                                              ELSE n)
  <1>1. CASE new = [null |-> n = 0, block |-> Moved(n)]
    <2>1. new.block = Moved(n) /\ (new.null <=> n = 0)
      BY <1>1
    <2>2. n \in Nat
      BY ULONGRange
    <2>3. QED
      BY <2>1, <2>2, MovedBlock
  <1>2. CASE /\ n > 0 /\ heap \in OutOfMemory
             /\ new = [null |-> heap = "Com" \/ block.size = 0, block |-> block]
    <2>1. new.block = block /\ (new.null <=> heap = "Com" \/ block.size = 0)
      BY <1>2
    <2>2. block \in Block /\ heap \in Heaps
      BY DEF TypeOK
    <2>3. Reliable => heap = "Com"
      BY <1>2, <2>2, HeapAssumption DEF Reliable
    <2>4. Keeps(block, n)
      BY BlockFields, <2>2, ULONGRange DEF Keeps
    <2>5. QED
      BY <1>2, <2>1, <2>2, <2>3, <2>4
  <1>3. QED
    BY <1>1, <1>2 DEF MemReallocate

LEMMA WantedSize ==
  ASSUME TypeOK, NEW n \in ULONG
  PROVE  Wanted(n) \in ULONG /\ Wanted(n) >= n
  <1>1. /\ cbData \in Nat /\ n \in Nat /\ Slack \in Nat /\ MinAlloc \in ULONG
        /\ MinAlloc \in Nat /\ cbData \div 4 \in Nat
    BY ULONGRange, WidthAssumption DEF TypeOK
  <1>2. /\ (2 * cbData) % M \in ULONG
        /\ (cbData + cbData \div 4 + Slack) % M \in ULONG
    BY <1>1, ModRange, ULONGRange DEF ULONG
  <1>3. Growth \in ULONG
    BY <1>1, <1>2 DEF Growth, Least, Greatest
  <1>4. QED
    BY <1>1, <1>3, ULONGRange DEF Wanted, Greatest
-----------------------------------------------------------------------------
LEMMA UnchangedOutcome ==
  ASSUME TypeOK, NEW hr \in HResult
  PROVE  Unchanged(hr) \in Outcome
  BY DEF Unchanged, Outcome, TypeOK

(* _EnsureBufferSize keeps the contents, and with an allocator that reports
   its failures cbData stays the size of the block. *)
LEMMA EnsuredBuffer ==
  ASSUME TypeOK, NEW n \in ULONG, NEW o \in _EnsureBufferSize(n)
  PROVE  /\ o \in Outcome
         /\ o.hr \in {"S_OK", "E_OUTOFMEMORY"}
         /\ o.cbSize = cbSize
         /\ Keeps(o.block, n)
         /\ o.hr = "S_OK" => o.cbData >= n
         /\ Reliable /\ cbData = block.size => o.cbData = o.block.size
  <1> USE DEF HResult
  <1>1. n \in Nat /\ cbData \in Nat /\ block \in Block /\ block.size \in Nat
    BY ULONGRange, BlockFields DEF TypeOK
  <1>2. CASE KeepsBlock(n)
    <2>1. o = Unchanged("S_OK")
      BY <1>2 DEF _EnsureBufferSize
    <2>2. o \in Outcome
      BY <2>1, UnchangedOutcome
    <2>3. Keeps(block, n)
      BY <1>1 DEF Keeps
    <2>4. QED
      BY <1>1, <1>2, <2>1, <2>2, <2>3 DEF Unchanged, KeepsBlock
  <1>3. CASE ~KeepsBlock(n)
    <2> DEFINE k == Wanted(n)
    <2>1. PICK new \in MemReallocate(k) :
            o = IF new.null /\ k > 0
                THEN [Unchanged("E_OUTOFMEMORY") EXCEPT !.block = new.block]
                ELSE [Unchanged("S_OK") EXCEPT !.block = new.block,
                                               !.cbData = k]
      BY <1>3 DEF _EnsureBufferSize
    <2>2. k \in ULONG /\ k \in Nat /\ k >= n
      BY WantedSize, ULONGRange
    <2>3. /\ new.block \in Block
          /\ Keeps(new.block, k)
          /\ Reliable => new.block.size = (IF new.null /\ k > 0 THEN block.size
                                                               ELSE k)
      BY <2>1, <2>2, ReallocatedBlock
    <2>4. Keeps(new.block, n)
      BY <1>1, <2>2, <2>3 DEF Keeps
    <2>5. CASE new.null /\ k > 0
      <3>1. o = [hr |-> "E_OUTOFMEMORY", block |-> new.block,
                 cbData |-> cbData, cbSize |-> cbSize]
        BY <2>1, <2>5 DEF Unchanged
      <3>2. QED
        BY <2>3, <2>4, <2>5, <3>1 DEF Outcome, TypeOK
    <2>6. CASE ~(new.null /\ k > 0)
      <3>1. o = [hr |-> "S_OK", block |-> new.block,
                 cbData |-> k, cbSize |-> cbSize]
        BY <2>1, <2>6 DEF Unchanged
      <3>2. QED
        BY <2>2, <2>3, <2>4, <2>6, <3>1 DEF Outcome, TypeOK
    <2>7. QED
      BY <2>5, <2>6
  <1>4. QED
    BY <1>2, <1>3

LEMMA ResizedBuffer ==
  ASSUME TypeOK, NEW n \in Int, NEW o \in _SetSize(n)
  PROVE  /\ o \in Outcome
         /\ o.hr \in {"S_OK", "E_OUTOFMEMORY"}
         /\ o.cbSize = (IF n \in ULONG THEN n ELSE cbSize)
         /\ o.hr = "S_OK" => n \in ULONG
         /\ Keeps(o.block, o.cbSize)
         /\ Reliable /\ cbData = block.size => o.cbData = o.block.size
  <1> USE DEF HResult
  <1>1. block \in Block /\ block.size \in Nat /\ cbSize \in Nat
    BY ULONGRange, BlockFields DEF TypeOK
  <1>2. Keeps(block, cbSize) /\ (n \in ULONG => Keeps(block, n))
    BY <1>1, ULONGRange DEF Keeps
  <1>3. CASE n \notin ULONG
    <2>1. o = Unchanged("E_OUTOFMEMORY")
      BY <1>3 DEF _SetSize
    <2>2. o \in Outcome
      BY <2>1, UnchangedOutcome
    <2>3. QED
      BY <1>2, <1>3, <2>1, <2>2 DEF Unchanged
  <1>4. CASE n \in ULONG
    <2>1. PICK e \in IF n < cbData THEN _EnsureBufferSize(n)
                                   ELSE {Unchanged("S_OK")} :
            o = [e EXCEPT !.cbSize = n]
      BY <1>4 DEF _SetSize
    <2>2. /\ e \in Outcome
          /\ e.hr \in {"S_OK", "E_OUTOFMEMORY"}
          /\ Keeps(e.block, n)
          /\ Reliable /\ cbData = block.size => e.cbData = e.block.size
      <3>1. CASE n < cbData
        BY <1>4, <2>1, <3>1, EnsuredBuffer
      <3>2. CASE ~(n < cbData)
        <4>1. e = Unchanged("S_OK") /\ e \in Outcome
          BY <2>1, <3>2, UnchangedOutcome
        <4>2. QED
          BY <1>2, <1>4, <4>1 DEF Unchanged
      <3>3. QED
        BY <3>1, <3>2
    <2>3. o = [hr |-> e.hr, block |-> e.block, cbData |-> e.cbData, cbSize |-> n]
      BY <2>1, <2>2 DEF Outcome
    <2>4. QED
      BY <1>4, <2>2, <2>3 DEF Outcome
  <1>5. QED
    BY <1>3, <1>4
-----------------------------------------------------------------------------
LEMMA InitIInv == Init => IInv
  <1> SUFFICES ASSUME Init PROVE IInv
    OBVIOUS
  <1>1. 0 \in ULONG
    BY ULONGRange
  <1>2. [i \in {} |-> Junk] \in [0 .. 0 - 1 -> Content]
    OBVIOUS
  <1>3. block \in Block /\ block.size = 0
    BY <1>1, <1>2, NewBlock DEF Init
  <1>4. ret = [op |-> "", hr |-> "S_OK", count |-> 0, data |-> <<>>]
    BY DEF Init
  <1>5. ret.hr \in HResult /\ ret.count \in ULONG /\ ret.data \in Seq(Content)
    <2>1. ret.hr = "S_OK" /\ ret.count = 0
      BY <1>4
    <2>2. ret.data = <<>>
      BY <1>4
    <2>3. ret.data \in Seq(Content)
      BY <2>2
    <2>4. QED
      BY <1>1, <2>1, <2>3 DEF HResult
  <1>6. /\ heap \in Heaps /\ cbData = 0 /\ cbSize = 0 /\ pos = 0
        /\ written = {} /\ lent = 0
    BY DEF Init
  <1>7. stray \in BOOLEAN /\ ~stray
    BY Zenon DEF Init
  <1>8. TypeOK
    BY <1>1, <1>3, <1>5, <1>6, <1>7 DEF TypeOK
  <1>9. StaysInBuffers
    BY <1>4, <1>7, Zenon DEF StaysInBuffers
  <1>10. Backed
    BY <1>3, <1>6, <1>9 DEF Backed
  <1>11. QED
    BY <1>8, <1>10 DEF IInv

(* What Read and CopyTo deliver, and how much of it. *)
LEMMA DeliveredBytes ==
  ASSUME TypeOK, NEW iPosNew \in ULONG
  PROVE  /\ Delivered(iPosNew) \in Seq(Content)
         /\ pos <= iPosNew => Len(Delivered(iPosNew)) = iPosNew - pos
  <1> DEFINE backed == Least(iPosNew, cbData)
             data   == [i \in 1 .. iPosNew - pos |->
                          IF pos + i <= Least(backed, block.size)
                          THEN block.byte[pos + i - 1] ELSE Zero]
  <1>1. /\ pos \in Nat /\ cbData \in Nat /\ iPosNew \in Nat /\ block.size \in Nat
        /\ block.byte \in [0 .. block.size - 1 -> Content]
    BY BlockFields, ULONGRange DEF TypeOK, ULONG
  <1>2. backed \in Nat
    BY <1>1 DEF Least
  <1>3. data \in Seq(Content)
    <2>1. ASSUME NEW i \in 1 .. iPosNew - pos PROVE data[i] \in Content
      <3>1. pos + i <= Least(backed, block.size) => block.byte[pos + i - 1] \in Content
        BY <1>1, <1>2 DEF Least
      <3>2. Zero \in Content
        BY DEF Content
      <3>3. data[i] = IF pos + i <= Least(backed, block.size)
                      THEN block.byte[pos + i - 1] ELSE Zero
        OBVIOUS
      <3> HIDE DEF data
      <3>4. QED
        BY <3>1, <3>2, <3>3
    <2>2. PICK n \in Nat : 1 .. iPosNew - pos = 1 .. n
      <3>1. CASE iPosNew >= pos
        <4>1. iPosNew - pos \in Nat
          BY <1>1, <3>1
        <4>2. QED
          BY <4>1
      <3>2. CASE iPosNew < pos
        <4>1. 1 .. iPosNew - pos = 1 .. 0
          BY <1>1, <3>2
        <4>2. QED
          BY <4>1
      <3>3. QED
        BY <1>1, <3>1, <3>2
    <2>3. data \in [1 .. n -> Content]
      BY <2>1, <2>2
    <2> HIDE DEF data
    <2>4. QED
      BY <2>3
  <1>4. pos <= iPosNew => Len(data) = iPosNew - pos
    BY <1>1
  <1>5. Delivered(iPosNew) = data
    BY DEF Delivered
  <1>6. QED
    BY <1>3, <1>4, <1>5

(* Between two positions with memory behind them nothing strays. *)
LEMMA BackedSteps ==
  ASSUME NEW from \in Nat, NEW to \in Nat, from <= to, from <= cbData,
         cbData \in Nat, cbData = block.size
  PROVE  ~Strays(from, to)
  BY DEF Strays, Least

LEMMA ReadStep ==
  ASSUME IInv, NEW cb \in Nat, Read(cb)
  PROVE  IInv'
  <1> DEFINE iPosNew == Least(IF pos + cb >= M THEN M - 1 ELSE pos + cb, cbSize)
  <1>1. /\ M \in Nat /\ M > 0 /\ pos \in Nat /\ pos < M
        /\ cbSize \in Nat /\ cbSize < M /\ cbData \in Nat
        /\ block.size \in Nat
    BY BlockFields, ULONGRange DEF IInv, TypeOK, ULONG
  <1>2. iPosNew \in ULONG /\ iPosNew \in Nat
    BY <1>1, ULONGRange DEF Least
  <1>3. /\ Delivered(iPosNew) \in Seq(Content)
        /\ pos <= iPosNew => Len(Delivered(iPosNew)) = iPosNew - pos
    BY <1>2, DeliveredBytes DEF IInv
  <1>4. ret' = [op |-> "Read", hr |-> "S_OK",
                count |-> (iPosNew - pos) % M, data |-> Delivered(iPosNew)]
    BY DEF Read, Returns
  <1>5. (iPosNew - pos) % M \in ULONG
    <2>1. iPosNew - pos \in Int
      BY <1>1, <1>2
    <2> HIDE DEF iPosNew
    <2>2. QED
      BY <1>1, <2>1, ModRange DEF ULONG
  <1>6. TypeOK'
    <2>1. stray' \in BOOLEAN
      BY DEF Read, IInv, TypeOK
    <2>2. QED
      BY <1>2, <1>3, <1>4, <1>5, <2>1 DEF Read, IInv, TypeOK, HResult
  <1>7. ASSUME Reliable PROVE Backed'
    <2>1. Backed /\ pos <= cbSize /\ pos <= cbData
      BY <1>1, <1>7 DEF IInv, Reliable, Read, Least
    <2>2. pos <= iPosNew
      BY <1>1, <2>1 DEF Least
    <2>3. ~stray'
      <3>1. ~Strays(pos, iPosNew)
        BY <1>1, <1>2, <2>1, <2>2, BackedSteps DEF Backed
      <3>2. ~stray
        BY <2>1 DEF Backed, StaysInBuffers
      <3>3. stray' = (stray \/ Strays(pos, iPosNew))
        BY DEF Read
      <3>4. QED
        BY <3>1, <3>2, <3>3
    <2>4. ret'.count = Len(ret'.data)
      <3>1. iPosNew - pos \in 0 .. M - 1
        BY <1>1, <1>2, <2>2, ULONGRange DEF ULONG
      <3>2. (iPosNew - pos) % M = iPosNew - pos
        BY <1>1, <3>1, ModSmall
      <3>3. Len(Delivered(iPosNew)) = iPosNew - pos
        BY <1>3, <2>2
      <3>4. QED
        BY <1>4, <3>2, <3>3
    <2>5. QED
      BY <2>1, <2>3, <2>4 DEF Read, Backed, StaysInBuffers
  <1>8. QED
    BY <1>6, <1>7 DEF IInv, Reliable

(* A call other than Read returns no bytes. *)
LEMMA QuietReturn ==
  ASSUME NEW op \in STRING, op # "Read", NEW hr \in HResult,
         NEW count \in ULONG, NEW r,
         r = [op |-> op, hr |-> hr, count |-> count, data |-> <<>>]
  PROVE  /\ r.hr \in HResult /\ r.count \in ULONG
         /\ r.data \in Seq(Content)
         /\ r.op # "Read"
  <1>1. r.hr = hr /\ r.count = count /\ r.op = op
    OBVIOUS
  <1>2. r.data = <<>>
    OBVIOUS
  <1>3. r.data \in Seq(Content)
    BY <1>2
  <1>4. QED
    BY <1>1, <1>3

(* What has to be shown of a step when its return is that of QuietReturn. *)
LEMMA StepIInv ==
  ASSUME IInv,
         heap' = heap, block' \in Block,
         cbData' \in ULONG, cbSize' \in ULONG, pos' \in ULONG,
         written' \subseteq 0 .. cbSize' - 1, lent' \in 0 .. cbSize',
         stray' \in BOOLEAN,
         ret'.hr \in HResult, ret'.count \in ULONG, ret'.data \in Seq(Content),
         ret'.op # "Read",
         Reliable /\ Backed => /\ cbData' = block'.size
                               /\ lent' <= block'.size
                               /\ \A i \in written' : i < block'.size
                               /\ ~stray'
  PROVE  IInv'
  <1>1. TypeOK'
    BY DEF IInv, TypeOK
  <1>2. Reliable => Backed'
    BY DEF IInv, Backed, StaysInBuffers
  <1>3. QED
    BY <1>1, <1>2 DEF IInv, Reliable

(* How much CopyTo copies at most. *)
LEMMA TotalRange ==
  ASSUME TypeOK, NEW cb \in Nat
  PROVE  cbTotal(cb) \in ULONG /\ cbTotal(cb) \in Nat
  <1>1. M \in Nat /\ M > 0 /\ cbSize \in Int /\ pos \in Int
    BY ULONGRange DEF TypeOK, ULONG
  <1>2. cb % M \in 0 .. M - 1
    BY <1>1, ModRange
  <1>3. (cbSize - pos) % M \in 0 .. M - 1
    <2>1. cbSize - pos \in Int
      BY <1>1
    <2>2. QED
      BY <1>1, <2>1, ModRange
  <1>4. QED
    BY <1>1, <1>2, <1>3 DEF cbTotal, Least, ULONG

(* A product of numbers, and the next multiple. *)
LEMMA Multiples ==
  ASSUME NEW k \in Nat, NEW b \in Nat
  PROVE  k * b \in Nat /\ (k + 1) * b = k * b + b
  OBVIOUS

LEMMA CopyToStep ==
  ASSUME IInv, NEW cb \in Nat, CopyTo(cb)
  PROVE  IInv'
  <1>1. PICK cbBuff \in Buffers, rounds \in 0 .. cbTotal(cb) :
          LET iPos(k)   == IF k = 0 THEN pos ELSE Least(pos + k * cbBuff, cbSize)
              cbRead(k) == (iPos(k) - pos) % M
          IN  /\ pos' = iPos(rounds)
              /\ \/ /\ cbRead(rounds) > cbTotal(cb)
                    /\ Returns("CopyTo", "STG_E_INVALIDPOINTER", 0, <<>>)
                 \/ /\ rounds > 0 /\ cbRead(rounds) <= cbTotal(cb)
                    /\ Returns("CopyTo", "E_OUTOFMEMORY", 0, <<>>)
                 \/ /\ cbRead(rounds) = cbTotal(cb)
                    /\ Returns("CopyTo", "S_OK", cbTotal(cb), Delivered(pos'))
              /\ stray' = (\/ stray
                           \/ \E k \in 1 .. rounds : Strays(iPos(k - 1), iPos(k))
                           \/ /\ rounds > 0 /\ pos > cbSize
                              /\ ret'.hr # "STG_E_INVALIDPOINTER")
    BY DEF CopyTo
  <1> DEFINE iPos(k) == IF k = 0 THEN pos ELSE Least(pos + k * cbBuff, cbSize)
  <1>2. /\ heap' = heap /\ block' = block /\ cbData' = cbData /\ cbSize' = cbSize
        /\ written' = written /\ lent' = lent
    BY DEF CopyTo
  <1>3. /\ TypeOK /\ M \in Nat /\ pos \in Nat /\ cbSize \in Nat /\ cbData \in Nat
        /\ pos \in ULONG /\ cbSize \in ULONG /\ 0 \in ULONG
        /\ cbBuff \in Nat /\ rounds \in Nat
        /\ cbTotal(cb) \in ULONG
    BY CallAssumption, TotalRange, ULONGRange DEF IInv, TypeOK
  <1>4. ASSUME NEW k \in Nat
        PROVE  iPos(k) \in ULONG /\ iPos(k) \in Nat
    <2>1. k * cbBuff \in Nat
      BY <1>3, Multiples
    <2>2. QED
      BY <1>3, <2>1 DEF Least, ULONG
  <1>5. ASSUME NEW k \in Nat, pos <= cbSize
        PROVE  iPos(k) <= iPos(k + 1) /\ iPos(k) <= cbSize
    <2>1. /\ k * cbBuff \in Nat /\ (k + 1) * cbBuff = k * cbBuff + cbBuff
          /\ 1 * cbBuff = cbBuff
      BY <1>3, Multiples
    <2>2. QED
      BY <1>3, <1>5, <2>1 DEF Least
  <1>6. pos' \in ULONG
    BY <1>1, <1>3, <1>4
  <1>7. /\ ret'.hr \in HResult /\ ret'.count \in ULONG
        /\ ret'.data \in Seq(Content) /\ ret'.op # "Read"
    <2>1. \/ \E hr \in {"STG_E_INVALIDPOINTER", "E_OUTOFMEMORY"} :
               ret' = [op |-> "CopyTo", hr |-> hr, count |-> 0, data |-> <<>>]
          \/ ret' = [op |-> "CopyTo", hr |-> "S_OK", count |-> cbTotal(cb),
                     data |-> Delivered(pos')]
      BY <1>1 DEF Returns
    <2>2. CASE \E hr \in {"STG_E_INVALIDPOINTER", "E_OUTOFMEMORY"} :
                 ret' = [op |-> "CopyTo", hr |-> hr, count |-> 0, data |-> <<>>]
      BY <1>3, <2>2, QuietReturn DEF HResult
    <2>3. CASE ret' = [op |-> "CopyTo", hr |-> "S_OK", count |-> cbTotal(cb),
                       data |-> Delivered(pos')]
      BY <1>3, <1>6, <2>3, DeliveredBytes DEF HResult
    <2>4. QED
      BY <2>1, <2>2, <2>3
  <1>8. stray' \in BOOLEAN
    BY <1>1
  <1>9. ASSUME Reliable, Backed
        PROVE  /\ cbData' = block'.size /\ lent' <= block'.size
               /\ \A i \in written' : i < block'.size
               /\ ~stray'
    <2>1. pos <= cbSize /\ cbSize <= cbData
      BY <1>9 DEF CopyTo, Reliable
    <2>2. ASSUME NEW k \in 1 .. rounds PROVE ~Strays(iPos(k - 1), iPos(k))
      <3>1. k - 1 \in Nat /\ k \in Nat /\ (k - 1) + 1 = k
        BY <1>3
      <3>2. /\ iPos(k - 1) \in Nat /\ iPos(k) \in Nat
            /\ iPos(k - 1) <= iPos((k - 1) + 1) /\ iPos(k - 1) <= cbSize
        BY <1>4, <1>5, <2>1, <3>1
      <3>3. iPos(k - 1) <= iPos(k) /\ iPos(k - 1) <= cbData
        BY <1>3, <2>1, <3>1, <3>2
      <3> HIDE DEF iPos
      <3>4. QED
        BY <1>3, <1>9, <3>2, <3>3, BackedSteps DEF Backed
    <2>3. ~stray /\ ~(pos > cbSize)
      BY <1>3, <1>9, <2>1 DEF Backed, StaysInBuffers
    <2>4. ~stray'
      BY <1>1, <2>2, <2>3
    <2>5. QED
      BY <1>2, <1>9, <2>4 DEF Backed
  <1>10. QED
    BY <1>2, <1>3, <1>6, <1>7, <1>8, <1>9, StepIInv DEF TypeOK

LEMMA CopyToSelfStep ==
  ASSUME IInv, NEW cb \in Nat, CopyToSelf(cb)
  PROVE  IInv'
  <1> DEFINE iPosNew == Least(pos + cbTotal(cb), cbSize)
  <1>1. /\ heap' = heap /\ block' = block /\ cbData' = cbData /\ cbSize' = cbSize
        /\ written' = written /\ lent' = lent /\ pos' = iPosNew
        /\ ret' = [op |-> "CopyToSelf", hr |-> "S_OK", count |-> 0, data |-> <<>>]
    BY DEF CopyToSelf, Returns
  <1>2. stray' = (\/ stray \/ Strays(pos, iPosNew)
                  \/ iPosNew > cbData /\ iPosNew > block.size)
    BY DEF CopyToSelf
  <1>3. /\ TypeOK /\ M \in Nat /\ pos \in Nat /\ cbSize \in Nat /\ cbData \in Nat
        /\ pos \in ULONG /\ cbSize \in ULONG /\ 0 \in ULONG
        /\ cbTotal(cb) \in Nat
    BY TotalRange, ULONGRange DEF IInv, TypeOK
  <1>4. iPosNew \in ULONG /\ iPosNew \in Nat
    BY <1>3 DEF Least, ULONG
  <1>5. /\ ret'.hr \in HResult /\ ret'.count \in ULONG
        /\ ret'.data \in Seq(Content) /\ ret'.op # "Read"
    BY <1>1, <1>3, QuietReturn DEF HResult
  <1>6. stray' \in BOOLEAN
    BY <1>2
  <1>7. ASSUME Reliable, Backed
        PROVE  /\ cbData' = block'.size /\ lent' <= block'.size
               /\ \A i \in written' : i < block'.size
               /\ ~stray'
    <2>1. pos <= cbSize /\ cbSize <= cbData
      BY <1>7 DEF CopyToSelf, Reliable
    <2>2. pos <= iPosNew /\ iPosNew <= cbData
      BY <1>3, <2>1 DEF Least
    <2>3. ~Strays(pos, iPosNew)
      BY <1>3, <1>4, <1>7, <2>1, <2>2, BackedSteps DEF Backed
    <2>4. ~(iPosNew > cbData) /\ ~stray
      BY <1>3, <1>4, <1>7, <2>2 DEF Backed, StaysInBuffers
    <2>5. ~stray'
      BY <1>2, <2>3, <2>4
    <2>6. QED
      BY <1>1, <1>7, <2>5 DEF Backed
  <1>8. QED
    BY <1>1, <1>3, <1>4, <1>5, <1>6, <1>7, StepIInv DEF TypeOK

(* Write makes room up to the position n it will reach, and keeps all that the
   block has. *)
LEMMA RoomMade ==
  ASSUME TypeOK, NEW n \in Nat,
         NEW o \in IF n >= M THEN {Unchanged("STG_E_INVALIDFUNCTION")}
                  ELSE IF n > cbData THEN _EnsureBufferSize(n)
                  ELSE {Unchanged("S_OK")}
  PROVE  /\ o \in Outcome /\ o.cbSize = cbSize
         /\ o.hr \in {"S_OK", "E_OUTOFMEMORY", "STG_E_INVALIDFUNCTION"}
         /\ o.hr = "S_OK" => n < M /\ n <= o.cbData
         /\ Keeps(o.block, cbData)
         /\ Reliable /\ cbData = block.size => o.cbData = o.block.size
  <1>1. /\ cbData \in Nat /\ M \in Nat /\ block \in Block /\ block.size \in Nat
    BY ULONGRange, BlockFields DEF TypeOK
  <1>2. Keeps(block, cbData)
    BY <1>1 DEF Keeps
  <1>3. CASE n >= M
    <2>1. o = Unchanged("STG_E_INVALIDFUNCTION")
      BY <1>3
    <2>2. o \in Outcome
      BY <2>1, UnchangedOutcome DEF HResult
    <2>3. QED
      BY <1>2, <2>1, <2>2 DEF Unchanged
  <1>4. CASE n < M /\ n > cbData
    <2>1. n \in ULONG
      BY <1>4, ULONGRange
    <2>2. o \in _EnsureBufferSize(n)
      BY <1>1, <1>4
    <2>3. /\ o \in Outcome /\ o.cbSize = cbSize
          /\ o.hr \in {"S_OK", "E_OUTOFMEMORY"}
          /\ Keeps(o.block, n)
          /\ o.hr = "S_OK" => o.cbData >= n
          /\ Reliable /\ cbData = block.size => o.cbData = o.block.size
      BY <2>1, <2>2, EnsuredBuffer
    <2>4. o.cbData \in Nat
      BY <2>3, ULONGRange DEF Outcome
    <2>5. QED
      BY <1>1, <1>4, <2>3, <2>4 DEF Keeps
  <1>5. CASE n < M /\ n <= cbData
    <2>1. o = Unchanged("S_OK")
      BY <1>1, <1>5
    <2>2. o \in Outcome
      BY <2>1, UnchangedOutcome DEF HResult
    <2>3. QED
      BY <1>1, <1>2, <1>5, <2>1, <2>2 DEF Unchanged
  <1>6. QED
    BY <1>1, <1>3, <1>4, <1>5

LEMMA WriteStep ==
  ASSUME IInv, NEW data \in Texts, Write(data)
  PROVE  IInv'
  <1> DEFINE cb      == Len(data)
             iPosNew == pos + cb
             Room    == IF iPosNew >= M THEN {Unchanged("STG_E_INVALIDFUNCTION")}
                        ELSE IF iPosNew > cbData THEN _EnsureBufferSize(iPosNew)
                        ELSE {Unchanged("S_OK")}
  <1>1. /\ TypeOK /\ pos \in Nat /\ cbData \in Nat /\ cbSize \in Nat
        /\ M \in Nat /\ block \in Block /\ block.size \in Nat
        /\ data \in Seq(Byte) /\ cb \in ULONG /\ cb \in Nat
        /\ written \subseteq 0 .. cbSize - 1 /\ heap' = heap
    BY CallAssumption, ULONGRange, BlockFields DEF IInv, TypeOK, Write
  <1>2. PICK o \in Room :
          /\ Returns("Write", o.hr, cb, <<>>)
          /\ \/ /\ o.hr # "S_OK"
                /\ Becomes(o)
                /\ UNCHANGED <<pos, written, stray>>
             \/ /\ o.hr = "S_OK"
                /\ block' = Stored(o.block, pos, data)
                /\ cbData' = o.cbData
                /\ cbSize' = Greatest(cbSize, iPosNew)
                /\ pos' = iPosNew
                /\ written' = written \cup pos .. iPosNew - 1
                /\ stray' = (stray \/ (cb > 0 /\ iPosNew > o.block.size))
          /\ lent' = 0
    BY DEF Write
  <1>3. /\ o \in Outcome /\ o.cbSize = cbSize
        /\ o.hr = "S_OK" => iPosNew < M /\ iPosNew <= o.cbData
        /\ Keeps(o.block, cbData)
        /\ Reliable /\ cbData = block.size => o.cbData = o.block.size
    <2>1. iPosNew \in Nat
      BY <1>1
    <2> HIDE DEF iPosNew
    <2>2. QED
      BY <1>1, <1>2, <2>1, RoomMade
  <1>7. /\ ret'.hr \in HResult /\ ret'.count \in ULONG
        /\ ret'.data \in Seq(Content) /\ ret'.op # "Read"
    <2>1. o.hr \in HResult
      BY <1>3 DEF Outcome
    <2>2. ret' = [op |-> "Write", hr |-> o.hr, count |-> cb, data |-> <<>>]
      BY <1>2 DEF Returns
    <2> HIDE DEF cb
    <2>3. QED
      BY <1>1, <2>1, <2>2, QuietReturn
  <1>4. CASE o.hr # "S_OK"
    <2>1. /\ block' = o.block /\ cbData' = o.cbData /\ cbSize' = cbSize
          /\ pos' = pos /\ written' = written /\ stray' = stray /\ lent' = 0
      BY <1>2, <1>3, <1>4 DEF Becomes
    <2>2. Reliable /\ Backed => /\ cbData' = block'.size
                               /\ \A i \in written' : i < block'.size
      BY <1>1, <1>3, <2>1 DEF Backed, Keeps
    <2>3. Reliable /\ Backed => lent' <= block'.size /\ ~stray'
      BY <1>3, <2>1, BlockFields, ULONGRange
         DEF Outcome, Backed, StaysInBuffers
    <2>4. /\ block' \in Block /\ cbData' \in ULONG /\ cbSize' \in ULONG
          /\ pos' \in ULONG
          /\ written' \subseteq 0 .. cbSize' - 1 /\ lent' \in 0 .. cbSize'
      BY <1>1, <1>3, <2>1 DEF Outcome, IInv, TypeOK
    <2>5. stray' \in BOOLEAN
      BY <2>1 DEF IInv, TypeOK
    <2>6. QED
      BY <1>1, <1>7, <2>2, <2>3, <2>4, <2>5, StepIInv
  <1>5. CASE o.hr = "S_OK"
    <2> DEFINE b == Stored(o.block, pos, data)
    <2>1. b \in Block /\ b.size = o.block.size
      BY <1>1, <1>3, StoredBlock DEF Outcome
    <2>3. /\ block' = b /\ cbData' = o.cbData
          /\ cbSize' = Greatest(cbSize, iPosNew) /\ pos' = iPosNew
          /\ written' = written \cup pos .. iPosNew - 1
          /\ stray' = (stray \/ (cb > 0 /\ iPosNew > o.block.size))
          /\ lent' = 0
      BY <1>2, <1>5
    <2>4. /\ iPosNew \in ULONG /\ cbSize' \in ULONG
          /\ written' \subseteq 0 .. cbSize' - 1
      <3>1. iPosNew \in ULONG /\ iPosNew \in Nat /\ iPosNew < M
        BY <1>1, <1>3, <1>5, ULONGRange
      <3>2. /\ cbSize' \in ULONG /\ cbSize' \in Nat
            /\ cbSize <= cbSize' /\ iPosNew <= cbSize'
        BY <1>1, <2>3, <3>1 DEF Greatest, IInv, TypeOK
      <3>3. pos .. iPosNew - 1 \subseteq 0 .. cbSize' - 1
        BY <1>1, <3>1, <3>2
      <3>4. written \subseteq 0 .. cbSize' - 1
        <4>1. 0 .. cbSize - 1 \subseteq 0 .. cbSize' - 1
          BY <1>1, <3>2, Wider
        <4>2. QED
          BY <1>1, <4>1
      <3>5. QED
        BY <2>3, <3>1, <3>2, <3>3, <3>4
    <2>5. Reliable /\ Backed => /\ cbData' = block'.size
                               /\ lent' <= block'.size
                               /\ \A i \in written' : i < block'.size
      <3>1. o.block.size \in Nat /\ o.cbData \in Nat
        BY <1>3, BlockFields, ULONGRange DEF Outcome
      <3>2. QED
        BY <1>1, <1>3, <1>5, <2>1, <2>3, <3>1 DEF Backed, Keeps
    <2>6. Reliable /\ Backed => ~stray'
      <3>1. o.block.size \in Nat /\ o.cbData \in Nat
        BY <1>3, BlockFields, ULONGRange DEF Outcome
      <3>2. Reliable /\ Backed => ~(iPosNew > o.block.size) /\ ~stray
        BY <1>1, <1>3, <1>5, <3>1 DEF Backed, StaysInBuffers
      <3>3. QED
        BY <2>3, <3>2
    <2>7. stray' \in BOOLEAN
      BY <2>3
    <2>8. /\ block' \in Block /\ cbData' \in ULONG /\ pos' \in ULONG
          /\ lent' \in 0 .. cbSize'
      BY <1>3, <2>1, <2>3, <2>4, ULONGRange DEF Outcome
    <2>9. QED
      BY <1>1, <1>7, <2>4, <2>5, <2>6, <2>7, <2>8, StepIInv
  <1>6. QED
    BY <1>4, <1>5

LEMMA SetSizeStep ==
  ASSUME IInv, NEW n \in Nat, SetSize(n)
  PROVE  IInv'
  <1>1. TypeOK /\ heap' = heap /\ 0 \in ULONG
    BY ULONGRange DEF IInv, SetSize
  <1>2. PICK o \in _SetSize(n) :
          /\ ret' = [op |-> "SetSize", hr |-> o.hr, count |-> 0, data |-> <<>>]
          /\ block' = o.block /\ cbData' = o.cbData /\ cbSize' = o.cbSize
          /\ written' = written \cap 0 .. o.cbSize - 1
          /\ lent' = 0 /\ pos' = pos /\ stray' = stray
    BY DEF SetSize, Becomes, Returns
  <1>3. /\ o \in Outcome
        /\ Keeps(o.block, o.cbSize)
        /\ Reliable /\ cbData = block.size => o.cbData = o.block.size
    BY <1>1, ResizedBuffer
  <1>4. /\ o.hr \in HResult /\ o.block \in Block /\ o.cbData \in ULONG
        /\ o.cbSize \in ULONG /\ o.cbSize \in Nat /\ o.block.size \in Nat
    BY <1>3, BlockFields, ULONGRange DEF Outcome
  <1>5. /\ ret'.hr \in HResult /\ ret'.count \in ULONG
        /\ ret'.data \in Seq(Content) /\ ret'.op # "Read"
    BY <1>1, <1>2, <1>4, QuietReturn
  <1>6. pos' \in ULONG /\ stray' \in BOOLEAN
    BY <1>2 DEF IInv, TypeOK
  <1>7. written' \subseteq 0 .. cbSize' - 1 /\ lent' \in 0 .. cbSize'
    BY <1>2, <1>4
  <1>8. ASSUME Reliable, Backed
        PROVE  /\ cbData' = block'.size /\ lent' <= block'.size
               /\ \A i \in written' : i < block'.size
               /\ ~stray'
    <2>1. cbData' = block'.size /\ lent' <= block'.size
      BY <1>2, <1>3, <1>4, <1>8 DEF Backed
    <2>2. ~stray'
      BY <1>2, <1>8 DEF Backed, StaysInBuffers
    <2>3. ASSUME NEW i \in written' PROVE i < block'.size
      <3>1. i \in 0 .. block.size - 1 /\ i < o.cbSize
        BY <1>1, <1>2, <1>4, <1>8, BlockFields, ULONGRange DEF Backed, TypeOK
      <3>2. QED
        BY <1>2, <1>3, <3>1 DEF Keeps
    <2>4. QED
      BY <2>1, <2>2, <2>3
  <1>9. QED
    BY <1>1, <1>2, <1>4, <1>5, <1>6, <1>7, <1>8, StepIInv

LEMMA SeekStep ==
  ASSUME IInv, NEW p \in Int, SeekTo(p)
  PROVE  IInv'
  <1>1. TypeOK /\ heap' = heap /\ 0 \in ULONG /\ cbSize \in Nat
    BY ULONGRange DEF IInv, TypeOK, SeekTo
  <1>2. PICK o \in IF p \in 0 .. cbSize THEN {Unchanged("S_OK")}
                                        ELSE _SetSize(p) :
          /\ ret' = [op |-> "Seek", hr |-> o.hr, count |-> 0, data |-> <<>>]
          /\ block' = o.block /\ cbData' = o.cbData /\ cbSize' = o.cbSize
          /\ pos' = (IF o.hr = "S_OK" THEN p ELSE pos)
          /\ lent' = (IF p \in 0 .. cbSize THEN lent ELSE 0)
          /\ written' = written /\ stray' = stray
    BY DEF SeekTo, Becomes, Returns
  <1>3. /\ o \in Outcome
        /\ Keeps(o.block, cbSize)
        /\ cbSize <= o.cbSize
        /\ p \in 0 .. cbSize => o = Unchanged("S_OK")
        /\ o.hr = "S_OK" => p \in ULONG
        /\ Reliable /\ cbData = block.size => o.cbData = o.block.size
    <2>1. CASE p \in 0 .. cbSize
      <3>1. o = Unchanged("S_OK")
        BY <1>2, <2>1
      <3>2. o \in Outcome
        BY <1>1, <3>1, UnchangedOutcome DEF HResult
      <3>3. cbSize \in ULONG /\ cbSize < M /\ block \in Block
        BY <1>1, ULONGRange, WidthAssumption DEF TypeOK, ULONG
      <3>4. p \in ULONG
        BY <2>1, <3>3, ULONGRange
      <3>5. Keeps(block, cbSize)
        BY <3>3, BlockFields, ULONGRange DEF Keeps
      <3>6. QED
        BY <1>1, <3>1, <3>2, <3>4, <3>5 DEF Unchanged
    <2>2. CASE p \notin 0 .. cbSize
      <3>1. o \in _SetSize(p)
        BY <1>2, <2>2
      <3>2. /\ o \in Outcome
            /\ o.cbSize = (IF p \in ULONG THEN p ELSE cbSize)
            /\ o.hr = "S_OK" => p \in ULONG
            /\ Keeps(o.block, o.cbSize)
            /\ Reliable /\ cbData = block.size => o.cbData = o.block.size
        BY <1>1, <3>1, ResizedBuffer
      <3>3. cbSize <= o.cbSize /\ o.cbSize \in Nat
        BY <1>1, <2>2, <3>2, ULONGRange
      <3>4. Keeps(o.block, cbSize)
        BY <1>1, <3>2, <3>3, BlockFields, ULONGRange DEF Keeps, TypeOK
      <3>5. QED
        BY <2>2, <3>2, <3>3, <3>4
    <2>3. QED
      BY <2>1, <2>2
  <1>4. /\ o.hr \in HResult /\ o.block \in Block /\ o.cbData \in ULONG
        /\ o.cbSize \in ULONG /\ o.cbSize \in Nat /\ o.block.size \in Nat
    BY <1>3, BlockFields, ULONGRange DEF Outcome
  <1>5. /\ ret'.hr \in HResult /\ ret'.count \in ULONG
        /\ ret'.data \in Seq(Content) /\ ret'.op # "Read"
    BY <1>1, <1>2, <1>4, QuietReturn
  <1>6. pos' \in ULONG /\ stray' \in BOOLEAN
    BY <1>2, <1>3 DEF IInv, TypeOK
  <1>7. written' \subseteq 0 .. cbSize' - 1 /\ lent' \in 0 .. cbSize'
    <2>1. written \subseteq 0 .. cbSize - 1 /\ lent \in 0 .. cbSize
      BY DEF IInv, TypeOK
    <2>2. /\ cbSize' = o.cbSize /\ written' = written
          /\ lent' \in {lent, 0}
      BY <1>2
    <2>3. QED
      BY <1>1, <1>3, <1>4, <2>1, <2>2
  <1>8. ASSUME Reliable, Backed
        PROVE  /\ cbData' = block'.size /\ lent' <= block'.size
               /\ \A i \in written' : i < block'.size
               /\ ~stray'
    <2>1. cbData' = block'.size
      BY <1>2, <1>3, <1>8 DEF Backed
    <2>2. lent' <= block'.size
      BY <1>2, <1>3, <1>4, <1>8 DEF Backed, Unchanged
    <2>3. ~stray'
      BY <1>2, <1>8 DEF Backed, StaysInBuffers
    <2>4. ASSUME NEW i \in written' PROVE i < block'.size
      <3>1. i \in 0 .. block.size - 1 /\ i < cbSize
        BY <1>1, <1>2, <1>8, BlockFields, ULONGRange DEF Backed, TypeOK
      <3>2. QED
        BY <1>2, <1>3, <3>1 DEF Keeps
    <2>5. QED
      BY <2>1, <2>2, <2>3, <2>4
  <1>9. QED
    BY <1>1, <1>2, <1>4, <1>5, <1>6, <1>7, <1>8, StepIInv

LEMMA GetMemoryInfoStep ==
  ASSUME IInv, GetMemoryInfo
  PROVE  IInv'
  <1> DEFINE n == Greatest(cbData, cbSize)
  <1>1. /\ TypeOK /\ heap' = heap /\ 0 \in ULONG
        /\ cbData \in ULONG /\ cbSize \in ULONG
        /\ cbData \in Nat /\ cbSize \in Nat
    BY ULONGRange DEF IInv, TypeOK, GetMemoryInfo
  <1>2. n \in ULONG /\ n \in Nat /\ cbData <= n /\ cbSize <= n
    BY <1>1 DEF Greatest
  <1>3. PICK o \in _EnsureBufferSize(n) :
          /\ ret' = [op |-> "GetMemoryInfo", hr |-> o.hr, count |-> 0,
                     data |-> <<>>]
          /\ block' = o.block /\ cbData' = o.cbData /\ cbSize' = o.cbSize
          /\ lent' = (IF o.hr = "S_OK" THEN cbSize ELSE 0)
          /\ written' = written /\ pos' = pos /\ stray' = stray
    BY DEF GetMemoryInfo, Becomes, Returns
  <1> HIDE DEF n
  <1>4. /\ o \in Outcome /\ o.cbSize = cbSize
        /\ Keeps(o.block, n)
        /\ o.hr = "S_OK" => o.cbData >= n
        /\ Reliable /\ cbData = block.size => o.cbData = o.block.size
    BY <1>1, <1>2, EnsuredBuffer
  <1>5. /\ o.hr \in HResult /\ o.block \in Block /\ o.cbData \in ULONG
        /\ o.cbData \in Nat /\ o.block.size \in Nat
    BY <1>4, BlockFields, ULONGRange DEF Outcome
  <1>6. /\ ret'.hr \in HResult /\ ret'.count \in ULONG
        /\ ret'.data \in Seq(Content) /\ ret'.op # "Read"
    BY <1>1, <1>3, <1>5, QuietReturn
  <1>7. pos' \in ULONG /\ stray' \in BOOLEAN
    BY <1>3 DEF IInv, TypeOK
  <1>8. written' \subseteq 0 .. cbSize' - 1 /\ lent' \in 0 .. cbSize'
    BY <1>1, <1>3, <1>4 DEF TypeOK
  <1>9. ASSUME Reliable, Backed
        PROVE  /\ cbData' = block'.size /\ lent' <= block'.size
               /\ \A i \in written' : i < block'.size
               /\ ~stray'
    <2>1. cbData' = block'.size /\ cbData = block.size
      BY <1>3, <1>4, <1>9 DEF Backed
    <2>2. lent' <= block'.size
      BY <1>1, <1>2, <1>3, <1>4, <1>5, <2>1
    <2>3. ~stray'
      BY <1>3, <1>9 DEF Backed, StaysInBuffers
    <2>4. ASSUME NEW i \in written' PROVE i < block'.size
      <3>1. i \in 0 .. cbSize - 1 /\ i < cbData
        BY <1>1, <1>3, <1>9, <2>1 DEF Backed, TypeOK
      <3>2. i \in 0 .. block.size - 1 /\ i < n
        BY <1>1, <1>2, <2>1, <3>1
      <3>3. QED
        BY <1>3, <1>4, <3>2 DEF Keeps
    <2>5. QED
      BY <2>1, <2>2, <2>3, <2>4
  <1>10. QED
    BY <1>1, <1>3, <1>4, <1>5, <1>6, <1>7, <1>8, <1>9, StepIInv

LEMMA FillStep ==
  ASSUME IInv, NEW data \in Texts, Fill(data)
  PROVE  IInv'
  <1> DEFINE n == Len(data)
  <1>1. /\ TypeOK /\ 0 \in ULONG /\ data \in Seq(Byte)
        /\ n \in Nat /\ n <= lent /\ lent \in Nat /\ cbSize \in Nat
        /\ lent <= cbSize /\ block \in Block /\ block.size \in Nat
    BY CallAssumption, BlockFields, ULONGRange DEF IInv, TypeOK, Fill
  <1>2. /\ ret' = [op |-> "Fill", hr |-> "S_OK", count |-> 0, data |-> <<>>]
        /\ block' = Stored(block, 0, data)
        /\ written' = written \cup 0 .. n - 1
        /\ heap' = heap /\ cbData' = cbData /\ cbSize' = cbSize
        /\ pos' = pos /\ lent' = lent
    BY DEF Fill, Returns
  <1>3. stray' = (stray \/ n > block.size)
    BY DEF Fill
  <1> HIDE DEF n
  <1>4. block' \in Block /\ block'.size = block.size
    BY <1>1, <1>2, StoredBlock
  <1>5. /\ ret'.hr \in HResult /\ ret'.count \in ULONG
        /\ ret'.data \in Seq(Content) /\ ret'.op # "Read"
    BY <1>1, <1>2, QuietReturn DEF HResult
  <1>6. /\ pos' \in ULONG /\ cbData' \in ULONG /\ cbSize' \in ULONG
        /\ lent' \in 0 .. cbSize'
    BY <1>1, <1>2 DEF TypeOK
  <1>7. stray' \in BOOLEAN
    BY <1>3
  <1>8. written' \subseteq 0 .. cbSize' - 1
    <2>1. 0 .. n - 1 \subseteq 0 .. cbSize - 1
      BY <1>1, Wider
    <2>2. written \subseteq 0 .. cbSize - 1
      BY <1>1 DEF TypeOK
    <2>3. QED
      BY <1>2, <2>1, <2>2
  <1>9. ASSUME Reliable, Backed
        PROVE  /\ cbData' = block'.size /\ lent' <= block'.size
               /\ \A i \in written' : i < block'.size
               /\ ~stray'
    <2>1. n <= block.size /\ cbData = block.size /\ lent <= block.size
      BY <1>1, <1>9 DEF Backed
    <2>2. ~stray'
      <3>1. ~(n > block.size)
        BY <1>1, <2>1
      <3>2. ~stray
        BY <1>9 DEF Backed, StaysInBuffers
      <3>3. QED
        BY <1>3, <3>1, <3>2
    <2>3. \A i \in written' : i < block'.size
      BY <1>1, <1>2, <1>4, <1>9, <2>1 DEF Backed
    <2>4. QED
      BY <1>2, <1>4, <2>1, <2>2, <2>3
  <1>10. QED
    BY <1>2, <1>4, <1>5, <1>6, <1>7, <1>8, <1>9, StepIInv
-----------------------------------------------------------------------------
(* Every step of the stream keeps the invariant. *)
LEMMA StepsIInv == IInv /\ [Next]_vars => IInv'
  <1> SUFFICES ASSUME IInv, [Next]_vars PROVE IInv'
    OBVIOUS
  <1>1. CASE UNCHANGED vars
    BY <1>1 DEF vars, IInv, TypeOK, Reliable, Backed, StaysInBuffers
  <1>2. ASSUME NEW cb \in Counts, Read(cb) PROVE IInv'
    BY <1>2, CallAssumption, ReadStep
  <1>3. ASSUME NEW cb \in Counts, SetSize(cb) PROVE IInv'
    BY <1>3, CallAssumption, SetSizeStep
  <1>4. ASSUME NEW data \in Texts, Write(data) PROVE IInv'
    BY <1>4, WriteStep
  <1>5. ASSUME NEW data \in Texts, Fill(data) PROVE IInv'
    BY <1>5, FillStep
  <1>6. ASSUME NEW move \in Moves, Seek(move) PROVE IInv'
    <2>1. PICK iPosStart \in {0, pos, cbSize} : SeekTo(iPosStart + move)
      BY <1>6 DEF Seek
    <2>2. iPosStart + move \in Int
      BY CallAssumption, ULONGRange DEF IInv, TypeOK
    <2>3. QED
      BY <2>1, <2>2, SeekStep
  <1>7. CASE SeekFromElsewhere
    <2>1. /\ ret' = [op |-> "Seek", hr |-> "STG_E_INVALIDFUNCTION", count |-> 0,
                     data |-> <<>>]
          /\ heap' = heap /\ block' = block /\ cbData' = cbData
          /\ cbSize' = cbSize /\ pos' = pos /\ written' = written
          /\ lent' = lent /\ stray' = stray
      BY <1>7 DEF SeekFromElsewhere, Returns
    <2>2. /\ ret'.hr \in HResult /\ ret'.count \in ULONG
          /\ ret'.data \in Seq(Content) /\ ret'.op # "Read"
      BY <2>1, QuietReturn, ULONGRange DEF HResult
    <2>3. TypeOK'
      BY <2>1, <2>2 DEF IInv, TypeOK
    <2>4. Reliable => Backed'
      BY <2>1, <2>2 DEF IInv, Backed, StaysInBuffers
    <2>5. QED
      BY <2>3, <2>4 DEF IInv, Reliable
  <1>8. CASE GetMemoryInfo
    BY <1>8, GetMemoryInfoStep
  <1>9. ASSUME NEW cb \in Counts, CopyTo(cb) PROVE IInv'
    BY <1>9, CallAssumption, CopyToStep
  <1>10. ASSUME NEW cb \in Counts, CopyToSelf(cb) PROVE IInv'
    BY <1>10, CallAssumption, CopyToSelfStep
  <1>11. QED
    BY <1>1, <1>2, <1>3, <1>4, <1>5, <1>6, <1>7, <1>8, <1>9, <1>10 DEF Next

LEMMA IInvInvariant == Spec => []IInv
  BY InitIInv, StepsIInv, PTL DEF Spec

(* The fields and counters of a stream keep their types under every sequence
   of calls and every failure of the allocator. *)
THEOREM TypeCorrect == Spec => []TypeOK
  <1>1. IInv => TypeOK
    BY DEF IInv
  <1>2. QED
    BY <1>1, IInvInvariant, PTL

(* With an allocator that reports its failures, and clients that read where
   there is memory, no call of CMemoryStreamT touches memory outside the block
   or the caller's buffer. *)
THEOREM StreamStaysInBuffers == Reliable => (Spec => []StaysInBuffers)
  <1> SUFFICES ASSUME Reliable PROVE Spec => []StaysInBuffers
    OBVIOUS
  <1>1. IInv => StaysInBuffers
    BY DEF IInv, Backed
  <1>2. QED
    BY <1>1, IInvInvariant, PTL

(* Under the same conditions the range that GetMemoryInfo gives out, which the
   decoder writes to, is memory of the block for as long as it may be used. *)
THEOREM StreamLendsItsMemory == Reliable => (Spec => []LentMemoryIsBacked)
  <1> SUFFICES ASSUME Reliable PROVE Spec => []LentMemoryIsBacked
    OBVIOUS
  <1>1. IInv => LentMemoryIsBacked
    BY DEF IInv, Backed, LentMemoryIsBacked
  <1>2. QED
    BY <1>1, IInvInvariant, PTL
-----------------------------------------------------------------------------
(***************************************************************************)
(* CMemoryStreamT implements a file of bytes (ByteStream) under the same   *)
(* two conditions: each step of the stream is a step of the file or leaves *)
(* it alone.                                                               *)
(***************************************************************************)
(* The file that size bytes of a block show, where w was written. *)
FileOf(b, size, w) ==
  [i \in 1 .. size |->
     IF i - 1 \in w /\ i <= b.size THEN b.byte[i - 1] ELSE Junk]

(* What a client has written is in the block. *)
Holds(b, size, w) == w \subseteq 0 .. size - 1 /\ \A i \in w : i < b.size

(* A block kept what was written. *)
Kept(b, c, w) == \A i \in w : i < c.size /\ c.byte[i] = b.byte[i]

(* What was written before and is written with data from position p on. *)
WithSpan(w, p, data) == w \cup p .. p + Len(data) - 1

LEMMA ContentsAreFileOf ==
  /\ Contents = FileOf(block, cbSize, written)
  /\ Contents' = FileOf(block', cbSize', written')
  BY DEF Contents, FileOf

LEMMA FileBytes ==
  ASSUME NEW b \in Block, NEW size \in Nat, NEW w, Holds(b, size, w)
  PROVE  /\ DOMAIN FileOf(b, size, w) = 1 .. size
         /\ Len(FileOf(b, size, w)) = size
         /\ \A i \in 1 .. size :
              FileOf(b, size, w)[i] = IF i - 1 \in w THEN b.byte[i - 1] ELSE Junk
  <1>1. b.size \in Nat
    BY BlockFields, ULONGRange
  <1>2. Len(FileOf(b, size, w)) = size
    BY DEF FileOf
  <1>3. ASSUME NEW i \in 1 .. size
        PROVE  FileOf(b, size, w)[i] = IF i - 1 \in w THEN b.byte[i - 1] ELSE Junk
    <2>1. i - 1 \in w => i <= b.size
      BY <1>1 DEF Holds
    <2>2. FileOf(b, size, w)[i] = IF i - 1 \in w /\ i <= b.size
                                  THEN b.byte[i - 1] ELSE Junk
      BY DEF FileOf
    <2>3. QED
      BY <2>1, <2>2
  <1>4. QED
    BY <1>2, <1>3 DEF FileOf

(* A block that kept what was written shows the same file, cut or extended to
   the new size. *)
LEMMA ResizedFile ==
  ASSUME NEW b \in Block, NEW c \in Block, NEW m \in Nat, NEW n \in Nat, NEW w,
         Holds(b, m, w), NEW v, v \subseteq 0 .. n - 1,
         \A i \in 0 .. n - 1 : i \in v <=> i \in w,
         Kept(b, c, v)
  PROVE  /\ Holds(c, n, v)
         /\ FileOf(c, n, v) = [i \in 1 .. n |-> IF i <= Len(FileOf(b, m, w))
                                                THEN FileOf(b, m, w)[i] ELSE Junk]
  <1> DEFINE f == FileOf(b, m, w)
             g == FileOf(c, n, v)
             h == [i \in 1 .. n |-> IF i <= Len(f) THEN f[i] ELSE Junk]
  <1>1. Holds(c, n, v)
    BY DEF Holds, Kept
  <1>2. /\ Len(f) = m
        /\ \A i \in 1 .. m : f[i] = IF i - 1 \in w THEN b.byte[i - 1] ELSE Junk
    BY FileBytes
  <1>3. /\ DOMAIN g = 1 .. n
        /\ \A i \in 1 .. n : g[i] = IF i - 1 \in v THEN c.byte[i - 1] ELSE Junk
    BY <1>1, FileBytes
  <1> HIDE DEF f, g
  <1>4. ASSUME NEW i \in 1 .. n PROVE g[i] = h[i]
    <2>1. h[i] = IF i <= m THEN f[i] ELSE Junk
      BY <1>2
    <2>2. i - 1 \in v <=> i - 1 \in w
      OBVIOUS
    <2>3. i - 1 \in w => i \in 1 .. m /\ c.byte[i - 1] = b.byte[i - 1]
      BY <2>2 DEF Holds, Kept
    <2>4. i <= m => i \in 1 .. m
      OBVIOUS
    <2> HIDE DEF h
    <2>5. QED
      BY <1>2, <1>3, <2>1, <2>2, <2>3, <2>4
  <1>5. g = h
    <2>1. g = [i \in 1 .. n |-> g[i]]
      BY <1>3 DEF g, FileOf
    <2>2. QED
      BY <1>4, <2>1
  <1>6. QED
    BY <1>1, <1>5 DEF f, g

(* In particular when the size does not shrink. *)
LEMMA GrownFile ==
  ASSUME NEW b \in Block, NEW c \in Block, NEW m \in Nat, NEW n \in Nat, m <= n,
         NEW w, Holds(b, m, w),
         Kept(b, c, w)
  PROVE  /\ Holds(c, n, w)
         /\ FileOf(c, n, w) = [i \in 1 .. n |-> IF i <= Len(FileOf(b, m, w))
                                                THEN FileOf(b, m, w)[i] ELSE Junk]
  <1>1. w \subseteq 0 .. n - 1
    BY DEF Holds
  <1>2. QED
    BY <1>1, ResizedFile

LEMMA SameFile ==
  ASSUME NEW b \in Block, NEW c \in Block, NEW n \in Nat, NEW w,
         Holds(b, n, w),
         Kept(b, c, w)
  PROVE  FileOf(c, n, w) = FileOf(b, n, w)
  <1>1. FileOf(c, n, w) = [i \in 1 .. n |-> IF i <= Len(FileOf(b, n, w))
                                            THEN FileOf(b, n, w)[i] ELSE Junk]
    BY GrownFile
  <1>2. Len(FileOf(b, n, w)) = n
    BY FileBytes
  <1>3. FileOf(b, n, w) = [i \in 1 .. n |-> FileOf(b, n, w)[i]]
    BY DEF FileOf
  <1>4. QED
    BY <1>1, <1>2, <1>3

(* Bytes stored in the block are stored in the file. *)
LEMMA StoredFile ==
  ASSUME NEW b \in Block, NEW m \in Nat, NEW w, Holds(b, m, w),
         NEW p \in Nat, NEW data \in Seq(Byte),
         p + Len(data) <= m, p + Len(data) <= b.size,
         NEW v, v = WithSpan(w, p, data)
  PROVE  /\ Holds(Stored(b, p, data), m, v)
         /\ FileOf(Stored(b, p, data), m, v)
              = File!Overwritten(FileOf(b, m, w), p, data)
  <1> DEFINE c == Stored(b, p, data)
             f == FileOf(b, m, w)
             g == FileOf(c, m, v)
             k == Len(data)
  <1>1. c \in Block /\ c.size = b.size /\ b.size \in Nat /\ k \in Nat
    BY StoredBlock, BlockFields, ULONGRange
  <1>2. b.byte \in [0 .. b.size - 1 -> Content]
    BY BlockFields
  <1>3. \A i \in 0 .. b.size - 1 :
          c.byte[i] = IF i - p + 1 \in 1 .. k THEN data[i - p + 1] ELSE b.byte[i]
    <2>1. b = [size |-> b.size, byte |-> b.byte]
      BY BlockFields
    <2>2. c.byte = [i \in DOMAIN b.byte |->
                      IF i - p + 1 \in 1 .. k THEN data[i - p + 1] ELSE b.byte[i]]
      BY <2>1 DEF Stored
    <2>3. QED
      BY <1>2, <2>2
  <1> HIDE DEF c, k
  <1>4. Holds(c, m, v)
    <2>1. ASSUME NEW i \in v PROVE i \in 0 .. m - 1 /\ i < c.size
      <3>1. CASE i \in w
        BY <1>1, <3>1 DEF Holds
      <3>2. CASE i \in p .. p + k - 1
        BY <1>1, <3>2 DEF k
      <3>3. QED
        BY <2>1, <3>1, <3>2 DEF k, WithSpan
    <2>2. QED
      BY <2>1 DEF Holds
  <1>5. /\ DOMAIN f = 1 .. m /\ DOMAIN g = 1 .. m
        /\ \A i \in 1 .. m : f[i] = IF i - 1 \in w THEN b.byte[i - 1] ELSE Junk
        /\ \A i \in 1 .. m : g[i] = IF i - 1 \in v THEN c.byte[i - 1] ELSE Junk
    BY <1>1, <1>4, FileBytes
  <1> HIDE DEF f, g
  <1>6. ASSUME NEW i \in 1 .. m
        PROVE  g[i] = IF i - p \in 1 .. k THEN data[i - p] ELSE f[i]
    <2>1. i - 1 \in v <=> i - 1 \in w \/ i - p \in 1 .. k
      BY <1>1 DEF k, WithSpan
    <2>2. i - 1 \in v => i - 1 \in 0 .. b.size - 1
      BY <1>1, <1>4 DEF Holds
    <2>3. (i - 1) - p + 1 = i - p
      OBVIOUS
    <2>4. i - 1 \in v =>
            c.byte[i - 1] = IF i - p \in 1 .. k THEN data[i - p] ELSE b.byte[i - 1]
      BY <1>3, <2>2, <2>3
    <2>5. QED
      BY <1>5, <2>1, <2>4
  <1>7. g = [i \in DOMAIN f |-> IF i - p \in 1 .. k THEN data[i - p] ELSE f[i]]
    <2>1. g = [i \in 1 .. m |-> g[i]]
      BY <1>5 DEF g, FileOf
    <2>2. QED
      BY <1>5, <1>6, <2>1
  <1>8. QED
    BY <1>4, <1>7 DEF File!Overwritten, c, f, g, k
-----------------------------------------------------------------------------
(* The state of a stream that is what its clients see. *)
LEMMA Mapped ==
  ASSUME IInv, Reliable
  PROVE  /\ TypeOK /\ block \in Block /\ block.size \in Nat /\ cbData = block.size
         /\ cbSize \in Nat /\ cbData \in Nat /\ pos \in Nat /\ M \in Nat
         /\ cbSize < M /\ pos < M
         /\ Holds(block, cbSize, written)
         /\ Contents = FileOf(block, cbSize, written)
         /\ Len(Contents) = cbSize
         /\ \A i \in 1 .. cbSize :
              Contents[i] = IF i - 1 \in written THEN block.byte[i - 1] ELSE Junk
  <1>1. /\ TypeOK /\ block \in Block /\ block.size \in Nat /\ cbData = block.size
        /\ cbSize \in Nat /\ cbData \in Nat /\ pos \in Nat
        /\ M \in Nat /\ cbSize < M /\ pos < M
    BY BlockFields, ULONGRange, WidthAssumption DEF IInv, Backed, TypeOK, ULONG
  <1>2. Holds(block, cbSize, written)
    BY DEF IInv, Backed, TypeOK, Holds
  <1>3. QED
    BY <1>1, <1>2, ContentsAreFileOf, FileBytes

LEMMA ReturnsFile ==
  ASSUME NEW op, NEW hr, NEW count, NEW data, Returns(op, hr, count, data)
  PROVE  File!Returns(op, hr, data)
  BY DEF Returns, File!Returns

(* What Read and CopyTo deliver is in the file. *)
LEMMA DeliveredFile ==
  ASSUME IInv, Reliable, NEW to \in Nat, pos <= to, to <= cbSize
  PROVE  /\ to - pos \in ULONG
         /\ File!Length(to - pos) = to - pos
         /\ Len(Delivered(to)) = to - pos
         /\ \A i \in 1 .. to - pos :
              Contents[pos + i] # Junk => Delivered(to)[i] = Contents[pos + i]
  <1> USE Mapped
  <1>1. to \in ULONG /\ to - pos \in ULONG
    BY DEF ULONG
  <1>2. File!Length(to - pos) = to - pos
    BY DEF File!Length
  <1>3. Len(Delivered(to)) = to - pos
    BY <1>1, DeliveredBytes
  <1>4. ASSUME NEW i \in 1 .. to - pos, Contents[pos + i] # Junk
        PROVE  Delivered(to)[i] = Contents[pos + i]
    <2>1. pos + i \in 1 .. cbSize /\ pos + i - 1 \in Nat
      OBVIOUS
    <2>2. pos + i - 1 \in written /\ Contents[pos + i] = block.byte[pos + i - 1]
      BY <1>4, <2>1
    <2>3. pos + i - 1 < block.size
      BY <2>2 DEF Holds
    <2>4. pos + i <= Least(Least(to, cbData), block.size)
      BY <2>3 DEF Least
    <2>5. Delivered(to)[i] = block.byte[pos + i - 1]
      BY <2>4 DEF Delivered
    <2>6. QED
      BY <2>2, <2>5
  <1>5. QED
    BY <1>1, <1>2, <1>3, <1>4

LEMMA ReadFile ==
  ASSUME IInv, Reliable, NEW cb \in Nat, Read(cb)
  PROVE  \E n \in ULONG : File!Read(n)
  <1> DEFINE iPosNew == Least(IF pos + cb >= M THEN M - 1 ELSE pos + cb, cbSize)
             n       == iPosNew - pos
  <1>1. pos <= iPosNew /\ iPosNew <= cbSize /\ iPosNew \in Nat
    BY Mapped DEF Read, Reliable, Least
  <1>2. /\ Returns("Read", "S_OK", n % M, Delivered(iPosNew))
        /\ pos' = iPosNew /\ block' = block /\ cbSize' = cbSize
        /\ written' = written
    BY DEF Read
  <1> HIDE DEF iPosNew
  <1>3. /\ n \in ULONG /\ File!Length(n) = n
        /\ Len(Delivered(iPosNew)) = n
        /\ \A i \in 1 .. n : Contents[pos + i] # Junk =>
                               Delivered(iPosNew)[i] = Contents[pos + i]
    BY <1>1, DeliveredFile
  <1>4. File!Returns("Read", "S_OK", Delivered(iPosNew))
    BY <1>2, ReturnsFile
  <1>5. ret'.data = Delivered(iPosNew)
    BY <1>2 DEF Returns
  <1>6. File!Delivers("Read", File!Length(n))
    BY <1>3, <1>4, <1>5 DEF File!Delivers
  <1>7. pos' = pos + File!Length(n)
    BY <1>1, <1>2, <1>3, Mapped
  <1>8. Contents' = Contents
    BY <1>2, ContentsAreFileOf
  <1>9. File!Read(n)
    BY <1>6, <1>7, <1>8 DEF File!Read
  <1>10. QED
    BY <1>3, <1>9

LEMMA CopyToFile ==
  ASSUME IInv, Reliable, NEW cb \in Nat, CopyTo(cb)
  PROVE  \E n \in ULONG : File!CopyTo(n)
  <1> DEFINE n == cbTotal(cb)
  <1>1. PICK cbBuff \in Buffers, rounds \in 0 .. n :
          /\ pos' = (IF rounds = 0 THEN pos
                                   ELSE Least(pos + rounds * cbBuff, cbSize))
          /\ \/ \E hr \in {"STG_E_INVALIDPOINTER", "E_OUTOFMEMORY"} :
                  Returns("CopyTo", hr, 0, <<>>)
             \/ /\ (pos' - pos) % M = n
                /\ Returns("CopyTo", "S_OK", n, Delivered(pos'))
    BY DEF CopyTo
  <1>2. pos <= cbSize /\ block' = block /\ cbSize' = cbSize /\ written' = written
    BY DEF CopyTo, Reliable
  <1>3. n \in ULONG /\ n \in Nat
    BY Mapped, TotalRange
  <1> HIDE DEF n
  <1>4. pos <= pos' /\ pos' <= cbSize /\ pos' \in Nat
    <2>1. rounds \in Nat /\ cbBuff \in Nat
      BY <1>3, CallAssumption
    <2>2. rounds * cbBuff \in Nat
      BY <2>1, Multiples
    <2>3. QED
      BY <1>1, <1>2, <2>2, Mapped DEF Least
  <1>5. Contents' = Contents
    BY <1>2, ContentsAreFileOf
  <1>6. CASE \E hr \in {"STG_E_INVALIDPOINTER", "E_OUTOFMEMORY"} :
               Returns("CopyTo", hr, 0, <<>>)
    <2>1. File!Fails("CopyTo")
      BY <1>6, ReturnsFile DEF File!Fails
    <2>2. pos' \in pos .. Len(Contents)
      BY <1>4, Mapped
    <2>3. File!CopyTo(n)
      BY <1>5, <2>1, <2>2 DEF File!CopyTo
    <2>4. QED
      BY <1>3, <2>3
  <1>7. CASE /\ (pos' - pos) % M = n
             /\ Returns("CopyTo", "S_OK", n, Delivered(pos'))
    <2>1. pos' - pos = n
      <3>1. pos' - pos \in 0 .. M - 1
        BY <1>4, Mapped
      <3>2. QED
        BY <1>7, <3>1, ModSmall, Mapped
    <2>2. /\ File!Length(n) = n
          /\ Len(Delivered(pos')) = n
          /\ \A i \in 1 .. n : Contents[pos + i] # Junk =>
                                 Delivered(pos')[i] = Contents[pos + i]
      BY <1>4, <2>1, DeliveredFile
    <2>3. File!Returns("CopyTo", "S_OK", Delivered(pos'))
      BY <1>7, ReturnsFile
    <2>4. ret'.data = Delivered(pos')
      BY <1>7 DEF Returns
    <2>5. File!Delivers("CopyTo", File!Length(n))
      BY <2>2, <2>3, <2>4 DEF File!Delivers
    <2>6. pos' = pos + File!Length(n)
      BY <1>4, <2>1, <2>2, Mapped
    <2>7. File!CopyTo(n)
      BY <1>5, <2>5, <2>6 DEF File!CopyTo
    <2>8. QED
      BY <1>3, <2>7
  <1>8. QED
    BY <1>1, <1>6, <1>7

LEMMA CopyToSelfFile ==
  ASSUME IInv, Reliable, NEW cb \in Nat, CopyToSelf(cb)
  PROVE  \E n \in ULONG : File!CopyToSelf(n)
  <1> DEFINE n == cbTotal(cb)
  <1>1. /\ pos <= cbSize /\ pos' = Least(pos + n, cbSize)
        /\ block' = block /\ cbSize' = cbSize /\ written' = written
        /\ Returns("CopyToSelf", "S_OK", 0, <<>>)
    BY DEF CopyToSelf, Reliable
  <1>2. n \in ULONG /\ n \in Nat
    BY Mapped, TotalRange
  <1> HIDE DEF n
  <1>3. pos' = pos + File!Length(n)
    BY <1>1, <1>2, Mapped DEF Least, File!Length
  <1>4. Contents' = Contents
    BY <1>1, ContentsAreFileOf
  <1>5. File!Succeeds("CopyToSelf")
    BY <1>1, ReturnsFile DEF File!Succeeds
  <1>6. File!CopyToSelf(n)
    BY <1>3, <1>4, <1>5 DEF File!CopyToSelf
  <1>7. QED
    BY <1>2, <1>6

(* A new block and size that kept what they have room for. *)
LEMMA ResizedContents ==
  ASSUME IInv, Reliable, block' \in Block, NEW n \in Nat, cbSize' = n,
         \A i \in written' : i \in 0 .. n - 1,
         \A i \in 0 .. n - 1 : i \in written' <=> i \in written,
         Keeps(block', n)
  PROVE  Contents' = File!Resized(n)
  <1> DEFINE f == FileOf(block, cbSize, written)
  <1>1. Holds(block, cbSize, written) /\ block \in Block /\ cbSize \in Nat
    BY Mapped
  <1>2. Kept(block, block', written')
    <2>1. ASSUME NEW i \in written'
          PROVE  i < block'.size /\ block'.byte[i] = block.byte[i]
      <3>1. i \in 0 .. block.size - 1 /\ i < n
        BY <2>1, Mapped DEF Holds
      <3>2. QED
        BY <3>1 DEF Keeps
    <2>2. QED
      BY <2>1 DEF Kept
  <1>3. FileOf(block', n, written')
          = [i \in 1 .. n |-> IF i <= Len(f) THEN f[i] ELSE Junk]
    BY <1>1, <1>2, ResizedFile
  <1>4. QED
    BY <1>3, ContentsAreFileOf DEF File!Resized

LEMMA OldSize ==
  ASSUME IInv, Reliable
  PROVE  File!Resized(cbSize) = Contents
  <1>1. Contents = [i \in 1 .. cbSize |-> Contents[i]]
    BY DEF Contents
  <1>2. QED
    BY <1>1, Mapped DEF File!Resized

LEMMA SetSizeFile ==
  ASSUME IInv, Reliable, NEW n \in Nat, SetSize(n)
  PROVE  \E k \in ULONG : File!SetSize(k)
  <1>1. PICK o \in _SetSize(n) :
          /\ Returns("SetSize", o.hr, 0, <<>>)
          /\ block' = o.block /\ cbSize' = o.cbSize /\ pos' = pos
          /\ written' = written \cap 0 .. o.cbSize - 1
    BY DEF SetSize, Becomes
  <1>2. /\ o \in Outcome
        /\ o.hr \in {"S_OK", "E_OUTOFMEMORY"}
        /\ o.cbSize = (IF n \in ULONG THEN n ELSE cbSize)
        /\ o.hr = "S_OK" => n \in ULONG
        /\ Keeps(o.block, o.cbSize)
    BY <1>1, Mapped, ResizedBuffer
  <1>3. o.block \in Block /\ o.cbSize \in Nat
    BY <1>2, ULONGRange DEF Outcome
  <1>4. Contents' = File!Resized(o.cbSize)
    <2>1. /\ \A i \in written' : i \in 0 .. o.cbSize - 1
          /\ \A i \in 0 .. o.cbSize - 1 : i \in written' <=> i \in written
      BY <1>1
    <2>2. QED
      BY <1>1, <1>2, <1>3, <2>1, ResizedContents
  <1>5. CASE n \in ULONG
    <2>1. \/ o.hr = "S_OK" /\ File!Succeeds("SetSize")
          \/ o.hr # "S_OK" /\ File!Fails("SetSize")
      BY <1>1, <1>2, ReturnsFile DEF File!Succeeds, File!Fails
    <2>2. File!SetSize(n)
      BY <1>1, <1>2, <1>4, <1>5, <2>1 DEF File!SetSize
    <2>3. QED
      BY <1>5, <2>2
  <1>6. CASE n \notin ULONG
    <2>1. File!Fails("SetSize")
      BY <1>1, <1>2, <1>6, ReturnsFile DEF File!Fails
    <2>2. Contents' = Contents
      BY <1>2, <1>4, <1>6, OldSize
    <2>3. File!SetSize(0)
      BY <1>1, <2>1, <2>2 DEF File!SetSize
    <2>4. QED
      BY <2>3, ULONGRange
  <1>7. QED
    BY <1>5, <1>6

LEMMA SeekFile ==
  ASSUME IInv, Reliable, NEW p \in Int, SeekTo(p)
  PROVE  \E k \in ULONG : File!Seek(k)
  <1>1. PICK o \in IF p \in 0 .. cbSize THEN {Unchanged("S_OK")}
                                        ELSE _SetSize(p) :
          /\ Returns("Seek", o.hr, 0, <<>>)
          /\ block' = o.block /\ cbSize' = o.cbSize /\ written' = written
          /\ pos' = (IF o.hr = "S_OK" THEN p ELSE pos)
    BY DEF SeekTo, Becomes
  <1>2. CASE p \in 0 .. cbSize
    <2>1. /\ block' = block /\ cbSize' = cbSize /\ pos' = p
          /\ Returns("Seek", "S_OK", 0, <<>>)
      BY <1>1, <1>2 DEF Unchanged
    <2>2. Contents' = Contents
      BY <1>1, <2>1, ContentsAreFileOf
    <2>3. File!Succeeds("Seek")
      BY <2>1, ReturnsFile DEF File!Succeeds
    <2>4. ~(p > Len(Contents)) /\ p \in ULONG
      BY <1>2, Mapped DEF ULONG
    <2>5. File!Seek(p)
      BY <2>1, <2>2, <2>3, <2>4 DEF File!Seek
    <2>6. QED
      BY <2>4, <2>5
  <1>3. CASE p \notin 0 .. cbSize
    <2>1. /\ o \in Outcome
          /\ o.hr \in {"S_OK", "E_OUTOFMEMORY"}
          /\ o.cbSize = (IF p \in ULONG THEN p ELSE cbSize)
          /\ o.hr = "S_OK" => p \in ULONG
          /\ Keeps(o.block, o.cbSize)
      BY <1>1, <1>3, Mapped, ResizedBuffer
    <2>2. o.block \in Block /\ o.cbSize \in Nat /\ cbSize <= o.cbSize
      BY <1>3, <2>1, Mapped, ULONGRange DEF Outcome
    <2>3. Contents' = File!Resized(o.cbSize)
      <3>1. \A i \in written' : i \in 0 .. o.cbSize - 1
        BY <1>1, <2>2, Mapped DEF Holds
      <3>2. QED
        BY <1>1, <2>1, <2>2, <3>1, ResizedContents
    <2>4. \/ o.hr = "S_OK" /\ File!Succeeds("Seek")
          \/ o.hr # "S_OK" /\ File!Fails("Seek")
      BY <1>1, <2>1, ReturnsFile DEF File!Succeeds, File!Fails
    <2>5. CASE p \in ULONG
      <3>1. p > Len(Contents)
        BY <1>3, <2>5, Mapped, ULONGRange
      <3>2. Contents' = File!Resized(p)
        BY <2>1, <2>3, <2>5
      <3>3. File!Seek(p)
        BY <1>1, <2>4, <3>1, <3>2 DEF File!Seek
      <3>4. QED
        BY <2>5, <3>3
    <2>6. CASE p \notin ULONG
      <3>1. Contents' = Contents
        BY <2>1, <2>3, <2>6, OldSize
      <3>2. pos' = pos /\ File!Fails("Seek")
        BY <1>1, <2>1, <2>4, <2>6
      <3>3. File!Seek(0)
        BY <3>1, <3>2 DEF File!Seek
      <3>4. QED
        BY <3>3, ULONGRange
    <2>7. QED
      BY <2>5, <2>6
  <1>4. QED
    BY <1>2, <1>3

LEMMA SeekFromElsewhereFile ==
  ASSUME SeekFromElsewhere
  PROVE  \E k \in ULONG : File!Seek(k)
  <1>1. /\ block' = block /\ cbSize' = cbSize /\ written' = written /\ pos' = pos
        /\ Returns("Seek", "STG_E_INVALIDFUNCTION", 0, <<>>)
    BY DEF SeekFromElsewhere
  <1>2. Contents' = Contents
    BY <1>1, ContentsAreFileOf
  <1>3. File!Fails("Seek")
    BY <1>1, ReturnsFile DEF File!Fails
  <1>4. File!Seek(0)
    BY <1>1, <1>2, <1>3 DEF File!Seek
  <1>5. QED
    BY <1>4, ULONGRange

LEMMA GetMemoryInfoFile ==
  ASSUME IInv, Reliable, GetMemoryInfo
  PROVE  File!GetMemoryInfo
  <1> DEFINE n == Greatest(cbData, cbSize)
  <1>1. PICK o \in _EnsureBufferSize(n) :
          /\ Returns("GetMemoryInfo", o.hr, 0, <<>>)
          /\ block' = o.block /\ cbSize' = o.cbSize
          /\ written' = written /\ pos' = pos
    BY DEF GetMemoryInfo, Becomes
  <1>2. n \in ULONG /\ n \in Nat /\ cbSize <= n
    BY Mapped DEF Greatest, TypeOK
  <1> HIDE DEF n
  <1>3. /\ o \in Outcome /\ o.hr \in {"S_OK", "E_OUTOFMEMORY"}
        /\ o.cbSize = cbSize /\ Keeps(o.block, n)
    BY <1>1, <1>2, Mapped, EnsuredBuffer
  <1>4. o.block \in Block /\ Keeps(o.block, cbSize)
    BY <1>2, <1>3, Mapped DEF Outcome, Keeps
  <1>5. \A i \in written' : i \in 0 .. cbSize - 1
    BY <1>1, Mapped DEF Holds
  <1>6. Contents' = Contents
    BY <1>1, <1>3, <1>4, <1>5, Mapped, ResizedContents, OldSize
  <1>7. File!Succeeds("GetMemoryInfo") \/ File!Fails("GetMemoryInfo")
    BY <1>1, <1>3, ReturnsFile DEF File!Succeeds, File!Fails
  <1>8. QED
    BY <1>1, <1>6, <1>7 DEF File!GetMemoryInfo

LEMMA FillFile ==
  ASSUME IInv, Reliable, NEW data \in Texts, Fill(data)
  PROVE  File!Fill(data)
  <1>1. /\ block' = Stored(block, 0, data) /\ cbSize' = cbSize /\ pos' = pos
        /\ written' = written \cup 0 .. Len(data) - 1
        /\ Returns("Fill", "S_OK", 0, <<>>)
    BY DEF Fill
  <1>2. /\ data \in Seq(Byte) /\ Len(data) \in Nat
        /\ Len(data) <= cbSize /\ Len(data) <= block.size
    BY CallAssumption, Mapped DEF Fill, IInv, Backed, TypeOK
  <1>3. FileOf(Stored(block, 0, data), cbSize, written')
          = File!Overwritten(FileOf(block, cbSize, written), 0, data)
    <2>1. /\ block \in Block /\ cbSize \in Nat /\ Holds(block, cbSize, written)
          /\ 0 \in Nat /\ 0 + Len(data) <= cbSize /\ 0 + Len(data) <= block.size
      BY <1>2, Mapped
    <2>2. written' = WithSpan(written, 0, data)
      BY <1>1, <1>2 DEF WithSpan
    <2>3. QED
      BY <1>2, <2>1, <2>2, StoredFile
  <1>4. Contents' = File!Overwritten(Contents, 0, data)
    BY <1>1, <1>3, ContentsAreFileOf
  <1>5. File!Succeeds("Fill")
    BY <1>1, ReturnsFile DEF File!Succeeds
  <1>6. Len(data) <= Len(Contents)
    BY <1>2, Mapped
  <1>7. QED
    BY <1>1, <1>4, <1>5, <1>6 DEF File!Fill

LEMMA WriteFile ==
  ASSUME IInv, Reliable, NEW data \in Texts, Write(data)
  PROVE  File!Write(data)
  <1> DEFINE end == pos + Len(data)
             m   == Greatest(cbSize, end)
  <1>1. PICK o \in IF end >= M THEN {Unchanged("STG_E_INVALIDFUNCTION")}
                   ELSE IF end > cbData THEN _EnsureBufferSize(end)
                   ELSE {Unchanged("S_OK")} :
          /\ Returns("Write", o.hr, Len(data), <<>>)
          /\ \/ /\ o.hr # "S_OK"
                /\ block' = o.block /\ cbSize' = o.cbSize
                /\ pos' = pos /\ written' = written
             \/ /\ o.hr = "S_OK"
                /\ block' = Stored(o.block, pos, data) /\ cbSize' = m
                /\ pos' = end
                /\ written' = written \cup pos .. end - 1
    BY DEF Write, Becomes
  <1>2. /\ data \in Seq(Byte) /\ Len(data) \in Nat /\ end \in Nat
        /\ m \in Nat /\ cbSize <= m /\ end <= m
        /\ m = (IF end > Len(Contents) THEN end ELSE Len(Contents))
    BY CallAssumption, Mapped DEF Greatest
  <1> HIDE DEF end, m
  <1>3. /\ o \in Outcome /\ o.cbSize = cbSize
        /\ o.hr \in {"S_OK", "E_OUTOFMEMORY", "STG_E_INVALIDFUNCTION"}
        /\ o.hr = "S_OK" => end <= o.cbData
        /\ Keeps(o.block, cbData)
        /\ o.cbData = o.block.size
    BY <1>1, <1>2, Mapped, RoomMade
  <1>4. o.block \in Block /\ o.block.size \in Nat
    BY <1>3, BlockFields, ULONGRange DEF Outcome
  <1>5. Kept(block, o.block, written)
    BY <1>3, Mapped DEF Keeps, Holds, Kept
  <1>6. Holds(block, cbSize, written) /\ block \in Block /\ cbSize \in Nat
    BY Mapped
  <1>7. CASE o.hr = "S_OK"
    <2> DEFINE f == FileOf(o.block, m, written)
    <2>1. /\ Holds(o.block, m, written)
          /\ f = File!Resized(m)
      <3>1. m \in Nat /\ cbSize <= m
        BY <1>2
      <3>2. /\ Holds(o.block, m, written)
            /\ f = [i \in 1 .. m |->
                      IF i <= Len(FileOf(block, cbSize, written))
                      THEN FileOf(block, cbSize, written)[i] ELSE Junk]
        <4>1. Holds(o.block, m, written)
          BY <1>4, <1>5, <1>6, <3>1, GrownFile
        <4>2. FileOf(o.block, m, written)
                = [i \in 1 .. m |->
                      IF i <= Len(FileOf(block, cbSize, written))
                      THEN FileOf(block, cbSize, written)[i] ELSE Junk]
          BY <1>4, <1>5, <1>6, <3>1, GrownFile, SMTT(30)
        <4>3. QED
          BY <4>1, <4>2
      <3>3. QED
        BY <3>2, ContentsAreFileOf DEF File!Resized
    <2> HIDE DEF f
    <2>2. FileOf(Stored(o.block, pos, data), m, written')
            = File!Overwritten(f, pos, data)
      <3>1. written' = WithSpan(written, pos, data)
        <4>1. written' = written \cup pos .. end - 1
          BY <1>1, <1>7
        <4>2. end - 1 = pos + Len(data) - 1
          BY <1>2, Mapped DEF end
        <4>3. QED
          BY <4>1, <4>2, Zenon DEF WithSpan
      <3>2. pos + Len(data) <= m /\ pos + Len(data) <= o.block.size /\ pos \in Nat
        BY <1>2, <1>3, <1>7, Mapped DEF end
      <3>3. QED
        BY <1>2, <1>4, <2>1, <3>1, <3>2, StoredFile DEF f
    <2>3. Contents' = File!Overwritten(File!Resized(m), pos, data)
      BY <1>1, <1>7, <2>1, <2>2, ContentsAreFileOf
    <2>4. pos' = pos + Len(data)
      BY <1>1, <1>7 DEF end
    <2>5. File!Succeeds("Write")
      BY <1>1, <1>7, ReturnsFile DEF File!Succeeds
    <2>6. m = (IF pos + Len(data) > Len(Contents) THEN pos + Len(data)
                                                  ELSE Len(Contents))
      BY <1>2 DEF end
    <2>7. QED
      BY <2>3, <2>4, <2>5, <2>6 DEF File!Write
  <1>8. CASE o.hr # "S_OK"
    <2>1. FileOf(o.block, cbSize, written) = FileOf(block, cbSize, written)
      BY <1>4, <1>5, <1>6, SameFile
    <2>2. Contents' = Contents
      BY <1>1, <1>3, <1>8, <2>1, ContentsAreFileOf
    <2>3. File!Fails("Write")
      BY <1>1, <1>3, <1>8, ReturnsFile DEF File!Fails
    <2>4. QED
      BY <1>1, <1>8, <2>2, <2>3 DEF File!Write
  <1>9. QED
    BY <1>7, <1>8
-----------------------------------------------------------------------------
(* Every step of the stream is one of the file, or the file does not see it. *)
LEMMA StepsAreFileSteps ==
  ASSUME IInv, Reliable, [Next]_vars
  PROVE  [File!Next]_(File!vars)
  <1>1. CASE UNCHANGED vars
    <2>1. Contents' = Contents
      BY <1>1, ContentsAreFileOf DEF vars
    <2>2. UNCHANGED File!vars
      BY <1>1, <2>1 DEF vars, File!vars
    <2>3. QED
      BY <2>2
  <1>2. ASSUME NEW cb \in Counts, Read(cb) \/ CopyTo(cb) \/ CopyToSelf(cb)
        PROVE  \E n \in ULONG : File!Read(n) \/ File!CopyTo(n) \/ File!CopyToSelf(n)
    BY <1>2, CallAssumption, ReadFile, CopyToFile, CopyToSelfFile
  <1>3. ASSUME NEW cb \in Counts, SetSize(cb)
        PROVE  \E n \in ULONG : File!SetSize(n)
    BY <1>3, CallAssumption, SetSizeFile
  <1>4. ASSUME NEW data \in Texts, Write(data) \/ Fill(data)
        PROVE  File!Write(data) \/ File!Fill(data)
    BY <1>4, WriteFile, FillFile
  <1>5. ASSUME NEW move \in Moves, Seek(move)
        PROVE  \E n \in ULONG : File!Seek(n)
    <2>1. PICK iPosStart \in {0, pos, cbSize} : SeekTo(iPosStart + move)
      BY <1>5 DEF Seek
    <2>2. iPosStart + move \in Int
      BY CallAssumption, Mapped
    <2>3. QED
      BY <2>1, <2>2, SeekFile
  <1>6. CASE SeekFromElsewhere
    BY <1>6, SeekFromElsewhereFile DEF File!Next
  <1>7. CASE GetMemoryInfo
    BY <1>7, GetMemoryInfoFile DEF File!Next
  <1>8. QED
    BY <1>1, <1>2, <1>3, <1>4, <1>5, <1>6, <1>7 DEF Next, File!Next

LEMMA InitIsFileInit == Init => File!Init
  <1> SUFFICES ASSUME Init PROVE File!Init
    OBVIOUS
  <1>1. /\ pos = 0 /\ cbSize = 0
        /\ ret = [op |-> "", hr |-> "S_OK", count |-> 0, data |-> <<>>]
    BY DEF Init
  <1>2. Contents = <<>>
    <2>1. Contents = [i \in 1 .. 0 |-> Contents[i]]
      BY <1>1 DEF Contents
    <2>2. 1 .. 0 = {}
      OBVIOUS
    <2>3. Contents = [i \in {} |-> Contents[i]]
      BY <2>1, <2>2
    <2>4. QED
      BY <2>3
  <1>3. QED
    BY <1>1, <1>2 DEF File!Init

(* With an allocator that reports its failures, and clients that read where
   there is memory, CMemoryStreamT is a file of bytes to them: no growth,
   shrinking, failure or copy loses, moves or invents a byte. *)
THEOREM StreamIsAFile == Reliable => (Spec => IsAFile)
  <1> SUFFICES ASSUME Reliable PROVE Spec => IsAFile
    OBVIOUS
  <1>1. IInv /\ [Next]_vars => [File!Next]_(File!vars)
    BY StepsAreFileSteps
  <1>2. QED
    BY <1>1, InitIsFileInit, IInvInvariant, PTL DEF Spec, IsAFile, File!Spec
=============================================================================
