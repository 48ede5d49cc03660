------------------------ MODULE ProcessBufferProofs ------------------------
(***************************************************************************)
(* For every block, offset, escape and counter width: DecoderProcessBuffer *)
(* keeps its types; when every line feed of the block ends a \r\n it reads *)
(* no byte outside of the block, and when an encoder may have written the  *)
(* block it writes the content that YEncDecoding defines for it; and what  *)
(* YEncEncoding writes for a payload is such a block and has that content. *)
(*                                                                         *)
(* The content, the escapes and the search are recursive functions.  That  *)
(* such a function exists is Recursion, proved from the well-foundedness   *)
(* of <; what it yields is then proved with Upwards.                       *)
(***************************************************************************)
EXTENDS YEncEncoding, TLAPS, WellFoundedInduction

(* No step leaves the loop in between a \r and its \n. *)
NotInsideLineBreak ==
  pc \in {"line", "data"} =>
    ~(pos > 0 /\ pos < call.cb /\ call.mem[pos] = CR /\ call.mem[pos + 1] = LF)

IInv == TypeOK /\ (NoBareLF => /\ pos + left = call.cb
                               /\ status # "fault"
                               /\ NotInsideLineBreak)

-----------------------------------------------------------------------------
(* Counters and bytes wrap: a difference is always a value of its type, and
   it is the plain difference when nothing is borrowed. *)
LEMMA ModRange == ASSUME NEW x \in Int, NEW m \in Nat, m > 0
                  PROVE  x % m \in 0 .. m - 1
  OBVIOUS

LEMMA ModSmall == ASSUME NEW m \in Nat, NEW x \in 0 .. m - 1
                  PROVE  x % m = x
  OBVIOUS

LEMMA MinusType == ASSUME NEW a \in Int, NEW b \in Int
                   PROVE  Minus(a, b) \in Range2W
  BY ModRange, WAssumption DEF Minus, Range2W

LEMMA MinusExact == ASSUME NEW a \in Range2W, NEW b \in 0 .. a
                    PROVE  Minus(a, b) = a - b
  <1>1. a - b \in 0 .. 2^W - 1
    BY WAssumption DEF Range2W
  <1>2. QED
    BY <1>1, ModSmall, WAssumption DEF Minus

LEMMA ByteIsInt == \A b \in Byte : b \in Int
  BY ByteAssumption DEF Byte

LEMMA MinusByteType == ASSUME NEW a \in Int, NEW b \in Int
                       PROVE  MinusByte(a, b) \in Byte
  BY ModRange, ByteAssumption DEF MinusByte, Byte

(* A search in less memory than the tag is long finds nothing. *)
LEMMA ShortSearch == ASSUME NEW buf, NEW tag, Len(buf) < Len(tag)
                     PROVE  FindAttributeTag(buf, tag) = NotFound
  BY DEF FindAttributeTag, FindTag

(* The arguments of a call have their types, and the block is mapped. *)
LEMMA CallType ==
  ASSUME TypeOK
  PROVE  /\ call.mem \in Seq(Byte) /\ Len(call.mem) \in Nat
         /\ \A i \in 1 .. Len(call.mem) : call.mem[i] \in Byte
         /\ call.cb \in Range2W /\ call.cb <= Len(call.mem)
         /\ call.room \in Nat
         /\ bEscape \in Byte /\ bOffset \in Byte /\ bEscOff \in Byte
  <1>1. call \in Call /\ call.cb <= Len(call.mem)
    BY CallsAssumption DEF TypeOK
  <1>2. /\ call.mem \in Seq(Byte)
        /\ call.cb \in Range2W
        /\ call.room \in Nat
        /\ call.offset \in Byte \cup {Default}
        /\ call.escape \in Byte \cup {Default}
        /\ call.escoff \in Byte \cup {Default}
    BY <1>1 DEF Call
  <1>3. bEscape \in Byte /\ bOffset \in Byte /\ bEscOff \in Byte
    BY <1>2, ByteAssumption DEF bEscape, bOffset, bEscOff, Effective
  <1>4. QED
    BY <1>1, <1>2, <1>3
-----------------------------------------------------------------------------
LEMMA InitIInv == Init => IInv
  <1> SUFFICES ASSUME Init PROVE IInv
    OBVIOUS
  <1>2. call \in Call
    BY CallsAssumption DEF Init
  <1>3. call.cb \in Range2W
    BY <1>2 DEF Call
  <1>4. TypeOK
    BY <1>3 DEF Init, TypeOK, Status
  <1>5. pos + left = call.cb /\ status # "fault" /\ NotInsideLineBreak
    BY <1>3, WAssumption DEF Init, Range2W, NotInsideLineBreak
  <1>6. QED
    BY <1>4, <1>5 DEF IInv

(* The types hold again after every step. *)
LEMMA TypeStep == ASSUME TypeOK, [Next]_vars PROVE TypeOK'
  <1> USE DEF TypeOK, Status
  <1>1. CASE EndOfData
    BY <1>1 DEF EndOfData
  <1>2. CASE StartLine
    BY <1>2 DEF StartLine, Return
  <1>3. CASE Exhausted
    BY <1>3 DEF Exhausted
  <1>4. ASSUME NEW n \in Nat, Consume(n)
        PROVE  pos' \in Nat /\ left' \in Range2W
    BY <1>4, MinusType, WAssumption DEF Consume, Range2W
  <1>5. CASE CarriageReturn
    <2>1. pos' \in Nat /\ left' \in Range2W
      BY <1>4, <1>5 DEF CarriageReturn
    <2>2. QED
      BY <1>5, <2>1 DEF CarriageReturn
  <1>6. CASE LineFeed
    <2>1. pos' \in Nat /\ left' \in Range2W
      BY <1>4, <1>6 DEF LineFeed
    <2>2. QED
      BY <1>6, <2>1 DEF LineFeed
  <1>7. ASSUME NEW ch \in Int, Emit(ch)
        PROVE  out' \in Seq(Byte)
    <2>1. bOffset \in Int
      BY CallType, ByteAssumption DEF Byte
    <2>2. QED
      BY <1>7, <2>1, MinusByteType DEF Emit
  <1>8. CASE PlainByte
    <2>1. NextByte \in Int
      BY <1>8, CallType, ByteAssumption, SMTT(30) DEF PlainByte, DataByte, Mapped, NextByte, Byte
    <2>2. pos' \in Nat /\ left' \in Range2W
      BY <1>4, <1>8 DEF PlainByte
    <2>3. out' \in Seq(Byte)
      BY <1>7, <1>8, <2>1 DEF PlainByte
    <2>4. QED
      BY <1>8, <2>2, <2>3 DEF PlainByte
  <1>9. CASE EscapedByte
    <2>1. pos' \in Nat /\ left' \in Range2W
      BY <1>4, <1>9 DEF EscapedByte
    <2>2. CASE UNCHANGED out
      BY <1>9, <2>1, <2>2 DEF EscapedByte, Return
    <2>3. CASE ~UNCHANGED out
      <3>1. /\ Minus(left, 1) # 0
            /\ Emit(MinusByte(call.mem[pos + 2], bEscOff))
            /\ UNCHANGED <<pc, status>>
        BY <1>9, <2>3 DEF EscapedByte
      <3>2. Minus(left, 1) > 0
        BY <3>1, MinusType, WAssumption DEF Range2W
      <3>3. Mapped(pos + 2)
        BY <1>9, <3>2 DEF EscapedByte
      <3>4. MinusByte(call.mem[pos + 2], bEscOff) \in Int
        <4>1. call.mem[pos + 2] \in Byte
          BY <3>3, CallType DEF Mapped
        <4>2. bEscOff \in Byte
          BY CallType
        <4>3. QED
          BY <4>1, <4>2, ByteIsInt, MinusByteType
      <3>5. out' \in Seq(Byte)
        BY <1>7, <3>1, <3>4
      <3>6. QED
        BY <1>9, <2>1, <3>1, <3>5 DEF EscapedByte
    <2>4. QED
      BY <2>2, <2>3
  <1>10. CASE ReadTrailer
    BY <1>10 DEF ReadTrailer, Return
  <1>11. CASE AccessViolation
    BY <1>11 DEF AccessViolation, Return
  <1>12. CASE UNCHANGED vars
    BY <1>12 DEF vars
  <1>13. QED
    BY <1>1, <1>2, <1>3, <1>5, <1>6, <1>8, <1>9, <1>10, <1>11, <1>12 DEF Next
-----------------------------------------------------------------------------
(* What IInv says of a block without a bare line feed. *)
Inside == pos + left = call.cb /\ status # "fault" /\ NotInsideLineBreak

(* Taking n bytes that are there keeps the two counters together. *)
LEMMA ConsumeExact ==
  ASSUME TypeOK, pos + left = call.cb, NEW n \in 0 .. left, Consume(n)
  PROVE  pos' = pos + n /\ left' = left - n
  <1>1. n \in 0 .. left /\ left \in Range2W
    BY DEF TypeOK
  <1>2. QED
    BY <1>1, MinusExact DEF Consume

(* No step faults: whatever is read lies before pos + left, which is the end
   of the block. *)
LEMMA NoFault ==
  ASSUME TypeOK, Inside
  PROVE  ~AccessViolation
  <1> USE DEF Inside
  <1>1. /\ pos \in Nat /\ left \in Nat /\ Len(call.mem) \in Nat
        /\ pos + left <= Len(call.mem)
        /\ call.cb \in Range2W /\ left \in Range2W
        /\ call.mem \in Seq(Byte)
        /\ Len(MK_YEND) \in Nat /\ Len(MK_SIZE) \in Nat
    BY CallType, WAssumption, TagAssumption DEF TypeOK, Range2W
  <1>2. \A n \in 1 .. left : Mapped(pos + n)
    BY <1>1 DEF Mapped
  <1>3. left > 0 => Minus(left, 1) = left - 1
    BY <1>1, MinusExact
  <1>4. Minus(call.cb, pos) = left
    BY <1>1, MinusExact
  <1>5. ASSUME NEW tag, NEW n \in 0 .. left PROVE ~SearchFaults(n, tag)
    BY <1>1 DEF SearchFaults
  <1>6. ASSUME left # 0, FindAttributeTag(Window(left), MK_SIZE) # NotFound
        PROVE  Minus(left, Len(MK_SIZE)) \in 0 .. left
    <2>1. Window(left) = SubSeq(call.mem, pos + 1, pos + left)
      BY <1>1, <1>2, <1>6 DEF Window
    <2>2. Len(Window(left)) = left
      BY <1>1, <2>1
    <2>3. Len(MK_SIZE) <= left
      BY <1>1, <1>6, <2>2, ShortSearch
    <2>4. QED
      BY <1>1, <2>3, MinusExact
  <1>7. ~(pc = "line" /\ InputLeft /\ left >= Len(MK_YEND)
            /\ ~Mapped(pos + Len(MK_YEND)))
    BY <1>1, <1>2, TagAssumption
  <1>8. ~(pc = "data" /\ InputLeft /\ ~Mapped(pos + 1))
    BY <1>1, <1>2 DEF InputLeft
  <1>9. ~(InputLeft /\ Minus(left, 1) > 0 /\ ~Mapped(pos + 2))
    BY <1>1, <1>2, <1>3 DEF InputLeft
  <1>10. ~(left # 0 /\ SearchFaults(Minus(call.cb, pos), MK_SIZE))
    BY <1>1, <1>4, <1>5
  <1>11. ~(/\ left # 0
           /\ FindAttributeTag(Window(Minus(call.cb, pos)), MK_SIZE) # NotFound
           /\ \E a \in DOMAIN TrailerTag :
                 SearchFaults(Minus(left, Len(MK_SIZE)), TrailerTag[a]))
    BY <1>4, <1>5, <1>6
  <1>12. QED
    BY <1>7, <1>8, <1>9, <1>10, <1>11 DEF AccessViolation, DataByte

(* A line feed is never met inside a line: it would have been taken with the
   carriage return before it. *)
LEMMA NoLineFeed ==
  ASSUME TypeOK, NoBareLF, Inside
  PROVE  ~LineFeed
  <1> SUFFICES ASSUME LineFeed PROVE FALSE
    OBVIOUS
  <1>1. /\ pc = "data" /\ left > 0 /\ call.mem[pos + 1] = LF
        /\ pos \in Nat /\ left \in Nat /\ pos + left = call.cb
    BY WAssumption DEF LineFeed, DataByte, InputLeft, NextByte, TypeOK, Range2W, Inside
  <1>2. pos + 1 \in 1 .. call.cb
    BY <1>1
  <1>3. pos > 0 /\ call.mem[pos] = CR
    BY <1>1, <1>2 DEF NoBareLF
  <1>4. QED
    BY <1>1, <1>2, <1>3 DEF Inside, NotInsideLineBreak

LEMMA InsideStep ==
  ASSUME TypeOK, NoBareLF, Inside, [Next]_vars
  PROVE  Inside'
  <1> USE DEF Inside
  <1>1. /\ pos \in Nat /\ left \in Nat /\ call.cb \in Nat
        /\ left \in Range2W
    BY CallType, WAssumption DEF TypeOK, Range2W
  <1>2. CASE EndOfData
    BY <1>2 DEF EndOfData, NotInsideLineBreak
  <1>3. CASE StartLine
    BY <1>3 DEF StartLine, Return, NotInsideLineBreak
  <1>4. CASE Exhausted
    BY <1>4 DEF Exhausted, NotInsideLineBreak
  <1>5. CASE CarriageReturn
    <2>1. /\ left > 0 /\ call.mem[pos + 1] = CR
          /\ call' = call /\ status' = status
          /\ Minus(left, 1) = left - 1
      BY <1>1, <1>5, MinusExact DEF CarriageReturn, DataByte, InputLeft, NextByte
    <2>2. CASE left > 1 /\ call.mem[pos + 2] = LF
      <3>1. Consume(2)
        BY <1>1, <1>5, <2>1, <2>2 DEF CarriageReturn
      <3>2. pos' = pos + 2 /\ left' = left - 2
        BY <1>1, <2>2, <3>1, ConsumeExact
      <3>3. QED
        BY <1>1, <2>1, <2>2, <3>2, ByteAssumption DEF NotInsideLineBreak
    <2>3. CASE ~(left > 1 /\ call.mem[pos + 2] = LF)
      <3>1. Consume(1)
        BY <1>1, <1>5, <2>1, <2>3 DEF CarriageReturn
      <3>2. pos' = pos + 1 /\ left' = left - 1
        BY <1>1, <2>1, <3>1, ConsumeExact
      <3>3. QED
        BY <1>1, <2>1, <2>3, <3>2 DEF NotInsideLineBreak
    <2>4. QED
      BY <2>2, <2>3
  <1>6. CASE LineFeed
    BY <1>6, NoLineFeed
  <1>7. CASE PlainByte
    <2>1. /\ left > 0 /\ call.mem[pos + 1] # CR
          /\ call' = call /\ status' = status /\ Consume(1)
      BY <1>7 DEF PlainByte, DataByte, InputLeft, NextByte
    <2>2. pos' = pos + 1 /\ left' = left - 1
      BY <1>1, <2>1, ConsumeExact
    <2>3. QED
      BY <1>1, <2>1, <2>2 DEF NotInsideLineBreak
  <1>8. CASE EscapedByte
    <2>1. /\ left > 0 /\ call' = call /\ Minus(left, 1) = left - 1
      BY <1>1, <1>8, MinusExact DEF EscapedByte, DataByte, InputLeft
    <2>2. CASE left = 1
      <3>1. Consume(1) /\ Return("INVALID_ESCAPE")
        BY <1>8, <2>1, <2>2 DEF EscapedByte
      <3>2. pos' = pos + 1 /\ left' = left - 1
        BY <1>1, <2>2, <3>1, ConsumeExact
      <3>3. QED
        BY <1>1, <2>1, <3>1, <3>2 DEF Return, NotInsideLineBreak
    <2>3. CASE left > 1
      <3>1. /\ Consume(2)
            /\ \/ Return("INVALID_ESCAPE")
               \/ call.mem[pos + 2] # CR /\ UNCHANGED <<pc, status>>
        BY <1>1, <1>8, <2>1, <2>3 DEF EscapedByte
      <3>2. pos' = pos + 2 /\ left' = left - 2
        BY <1>1, <2>3, <3>1, ConsumeExact
      <3>3. QED
        BY <1>1, <2>1, <3>1, <3>2 DEF Return, NotInsideLineBreak
    <2>4. QED
      BY <1>1, <2>1, <2>2, <2>3
  <1>9. CASE ReadTrailer
    BY <1>9 DEF ReadTrailer, Return, NotInsideLineBreak
  <1>10. CASE AccessViolation
    BY <1>10, NoFault
  <1>11. CASE UNCHANGED vars
    BY <1>11 DEF vars, NotInsideLineBreak
  <1>12. QED
    BY <1>2, <1>3, <1>4, <1>5, <1>6, <1>7, <1>8, <1>9, <1>10, <1>11 DEF Next
-----------------------------------------------------------------------------
(* The invariant holds of every call. *)
LEMMA IInvInvariant == Spec => []IInv
  <1>1. IInv /\ [Next]_vars => IInv'
    <2> SUFFICES ASSUME IInv, [Next]_vars PROVE IInv'
      OBVIOUS
    <2>1. TypeOK /\ TypeOK'
      BY TypeStep DEF IInv
    <2>2. call' = call
      BY DEF Next, vars, EndOfData, StartLine, Exhausted, CarriageReturn,
             LineFeed, PlainByte, EscapedByte, ReadTrailer, AccessViolation
    <2>3. NoBareLF' => NoBareLF
      BY <2>2 DEF NoBareLF
    <2>4. NoBareLF => Inside'
      BY <2>1, InsideStep DEF IInv, Inside
    <2>5. QED
      BY <2>1, <2>3, <2>4 DEF IInv, Inside
  <1>2. QED
    BY <1>1, InitIInv, PTL DEF Spec

(* Types: the counters stay in their width and every byte written is a byte. *)
THEOREM TypeCorrect == Spec => []TypeOK
  <1>1. IInv => TypeOK
    BY DEF IInv
  <1>2. QED
    BY <1>1, IInvInvariant, PTL

(* On a block without a bare line feed the loop of yDecode.h:1943-2024 and the
   searches after it read nothing outside of the block, and cbBufIn never
   wraps. *)
THEOREM StaysInTheBlock == Spec => []KeepsToTheBlock
  <1>1. IInv => KeepsToTheBlock
    BY DEF IInv, KeepsToTheBlock
  <1>2. QED
    BY <1>1, IInvInvariant, PTL
-----------------------------------------------------------------------------
(* Induction up to a bound, and functions that are defined that way. *)
LEMMA LeastNumber ==
  ASSUME NEW S \in SUBSET Nat, S # {}
  PROVE  \E m \in S : \A n \in S : m <= n
  <1> DEFINE R == {r \in Nat \X Nat : r[1] < r[2]}
  <1>1. IsWellFoundedOn(R, Nat)
    BY NatLessThanWellFounded DEF OpToRel
  <1>2. PICK m \in S : \A n \in S : <<n, m>> \notin R
    <2> HIDE DEF R
    <2> QED
      BY <1>1, WFMin
  <1>3. \A n \in S : m \in Nat /\ n \in Nat /\ ~(n < m)
    BY <1>2
  <1>4. QED
    BY <1>3

LEMMA LeastExists ==
  ASSUME NEW S \in SUBSET Nat, S # {}
  PROVE  Least(S) \in S /\ \A n \in S : Least(S) <= n
  BY LeastNumber DEF Least

LEMMA Upwards ==
  ASSUME NEW n \in Nat, NEW S, 0 \in S,
         \A k \in 1 .. n : k - 1 \in S => k \in S
  PROVE  0 .. n \subseteq S
  <1> DEFINE bad == {k \in 0 .. n : k \notin S}
  <1>1. SUFFICES ASSUME bad # {} PROVE FALSE
    OBVIOUS
  <1>2. bad \in SUBSET Nat
    OBVIOUS
  <1>3. PICK m \in bad : \A k \in bad : m <= k
    <2> HIDE DEF bad
    <2> QED
      BY <1>1, <1>2, LeastNumber
  <1>4. m \in 1 .. n /\ m \notin S /\ m - 1 \in 0 .. n /\ ~(m <= m - 1)
    OBVIOUS
  <1>5. m - 1 \in S
    BY <1>3, <1>4
  <1>6. QED
    BY <1>4, <1>5

Steps(n, T) == [(1 .. n) \X T -> T]

Follows(g, n, base, step) ==
  g[0] = base /\ \A k \in 1 .. n : g[k] = step[<<k, g[k - 1]>>]

LEMMA Recursion ==
  ASSUME NEW n \in Nat, NEW T, NEW base \in T, NEW step \in Steps(n, T)
  PROVE  \E g \in [0 .. n -> T] : Follows(g, n, base, step)
  <1> DEFINE S == {m \in 0 .. n : \E g \in [0 .. m -> T] : Follows(g, m, base, step)}
  <1>1. 0 \in S
    <2> DEFINE h == [k \in 0 .. 0 |-> base]
    <2>1. h \in [0 .. 0 -> T] /\ Follows(h, 0, base, step)
      BY DEF Follows
    <2> HIDE DEF h
    <2>2. QED
      BY <2>1
  <1>2. ASSUME NEW m \in 1 .. n, m - 1 \in S PROVE m \in S
    <2>1. PICK g \in [0 .. m - 1 -> T] : Follows(g, m - 1, base, step)
      BY <1>2
    <2> DEFINE h == [k \in 0 .. m |-> IF k = m THEN step[<<m, g[m - 1]>>] ELSE g[k]]
    <2>2. /\ m - 1 \in 0 .. m - 1 /\ 0 \in 0 .. m - 1 /\ 0 # m
          /\ \A k \in 0 .. m : k # m => k \in 0 .. m - 1
          /\ \A k \in 1 .. m : k - 1 \in 0 .. m - 1 /\ k - 1 \in 0 .. m /\ k - 1 # m
      OBVIOUS
    <2>3. g[m - 1] \in T /\ step[<<m, g[m - 1]>>] \in T
      BY <2>1, <2>2 DEF Steps
    <2>4. h \in [0 .. m -> T]
      BY <2>1, <2>2, <2>3
    <2>5. /\ h[m] = step[<<m, g[m - 1]>>]
          /\ \A k \in 0 .. m : k # m => h[k] = g[k]
      OBVIOUS
    <2> HIDE DEF h
    <2>6. h[0] = base
      BY <2>1, <2>2, <2>5 DEF Follows
    <2>7. ASSUME NEW k \in 1 .. m PROVE h[k] = step[<<k, h[k - 1]>>]
      <3>1. h[k - 1] = g[k - 1]
        BY <2>2, <2>5
      <3>2. CASE k = m
        BY <2>5, <3>1, <3>2
      <3>3. CASE k # m
        <4>1. k \in 1 .. m - 1 /\ k \in 0 .. m
          BY <3>3
        <4>2. QED
          BY <2>1, <2>5, <3>1, <3>3, <4>1 DEF Follows
      <3>4. QED
        BY <3>2, <3>3
    <2>8. Follows(h, m, base, step)
      BY <2>6, <2>7 DEF Follows
    <2>9. QED
      BY <2>4, <2>8
  <1>3. n \in S
    <2> HIDE DEF S
    <2>1. 0 .. n \subseteq S
      BY <1>1, <1>2, Upwards
    <2>2. QED
      BY <2>1
  <1>4. QED
    BY <1>3

(* The size of the block, and its bytes. *)
LEMMA BlockType ==
  ASSUME TypeOK
  PROVE  /\ Block \in Seq(Byte) /\ Len(Block) = call.cb /\ call.cb \in Nat
         /\ \A i \in 1 .. call.cb : Block[i] = call.mem[i] /\ Block[i] \in Byte
  <1>1. /\ call.mem \in Seq(Byte) /\ Len(call.mem) \in Nat /\ call.cb \in Nat
        /\ call.cb <= Len(call.mem)
    BY CallType, WAssumption DEF Range2W
  <1>2. QED
    BY <1>1 DEF Block

(* Which bytes are escapes: an escape escapes the next one. *)
LEMMA EscapesAlternate ==
  ASSUME TypeOK
  PROVE  /\ \A i \in 1 .. call.cb :
              i \in Escapes <=> Block[i] = bEscape /\ i - 1 \notin Escapes
         /\ 0 \notin Escapes
         /\ Escapes \subseteq 1 .. call.cb
  <1> DEFINE n == Len(Block)
             Escaped(i, before) == IF Block[i] = bEscape /\ before = 0 THEN 1 ELSE 0
             step == [x \in (1 .. n) \X {0, 1} |-> Escaped(x[1], x[2])]
  <1>1. n = call.cb /\ n \in Nat
    BY BlockType
  <1>2. step \in Steps(n, {0, 1})
    BY DEF Steps
  <1>3. PICK f \in [0 .. n -> {0, 1}] :
          Follows(f, n, 0, step)
    <2> HIDE DEF step, n
    <2>1. 0 \in {0, 1} /\ n \in Nat
      BY <1>1
    <2>2. QED
      BY <1>2, <2>1, Recursion
  <1> DEFINE g == [k \in 0 .. n |-> f[k] = 1]
  <1>4. \A k \in 0 .. n :
          g[k] = IF k = 0 THEN FALSE ELSE Block[k] = bEscape /\ ~g[k - 1]
    <2>1. ASSUME NEW k \in 1 .. n
          PROVE  (f[k] = 1) <=> (Block[k] = bEscape /\ ~(f[k - 1] = 1))
      <3>1. k - 1 \in 0 .. n /\ f[k - 1] \in {0, 1} /\ k \in 0 .. n /\ k # 0
        BY <1>1
      <3>2. f[k] = step[<<k, f[k - 1]>>]
        BY <1>3, <3>1 DEF Follows
      <3>3. step[<<k, f[k - 1]>>] = Escaped(k, f[k - 1])
        BY <3>1
      <3>4. QED
        BY <3>1, <3>2, <3>3
    <2>2. 0 \in 0 .. n /\ f[0] = 0
      BY <1>1, <1>3 DEF Follows
    <2>3. ASSUME NEW k \in 0 .. n
          PROVE  g[k] = IF k = 0 THEN FALSE ELSE Block[k] = bEscape /\ ~g[k - 1]
      <3>1. CASE k = 0
        BY <2>2, <3>1, SMTT(30)
      <3>2. CASE k # 0
        <4>1. k \in 1 .. n /\ k - 1 \in 0 .. n
          BY <1>1, <3>2
        <4>2. g[k] <=> Block[k] = bEscape /\ ~g[k - 1]
          BY <2>1, <4>1
        <4>3. g[k] \in BOOLEAN
          OBVIOUS
        <4>4. QED
          BY <3>2, <4>2, <4>3
      <3>3. QED
        BY <3>1, <3>2
    <2>4. QED
      BY <2>3
  <1> HIDE DEF g
  <1>5. g = [i \in 0 .. Len(Block) |->
               IF i = 0 THEN FALSE ELSE Block[i] = bEscape /\ ~g[i - 1]]
    <2>1. g = [i \in 0 .. n |-> g[i]]
      BY DEF g
    <2>2. QED
      BY <1>4, <2>1, Zenon
  <1>6. IsEscape = [i \in 0 .. Len(Block) |->
               IF i = 0 THEN FALSE ELSE Block[i] = bEscape /\ ~IsEscape[i - 1]]
    BY <1>5, Zenon DEF IsEscape
  <1>7. \A i \in 1 .. n : IsEscape[i] <=> Block[i] = bEscape /\ ~IsEscape[i - 1]
    <2>1. ASSUME NEW i \in 1 .. n
          PROVE  IsEscape[i] <=> Block[i] = bEscape /\ ~IsEscape[i - 1]
      <3>1. i \in 0 .. n /\ i # 0
        BY <1>1
      <3>2. IsEscape[i] =
              IF i = 0 THEN FALSE ELSE Block[i] = bEscape /\ ~IsEscape[i - 1]
        BY <1>6, <3>1, Zenon
      <3>3. QED
        BY <3>1, <3>2, Zenon
    <2>2. QED
      BY <2>1
  <1>8. ~IsEscape[0]
    BY <1>1, <1>6
  <1>9. \A i \in 0 .. n : i \in Escapes <=> IsEscape[i]
    BY <1>1, <1>8 DEF Escapes
  <1>10. Escapes \subseteq 1 .. n
    BY DEF Escapes
  <1>11. ASSUME NEW i \in 1 .. n
         PROVE  i \in Escapes <=> Block[i] = bEscape /\ i - 1 \notin Escapes
    <2>1. i \in 0 .. n /\ i - 1 \in 0 .. n
      BY <1>1
    <2>2. QED
      BY <1>7, <1>9, <2>1
  <1>12. QED
    BY <1>1, <1>10, <1>11

(* Taking the offsets away one after the other or at once is the same. *)
LEMMA MinusTwice ==
  ASSUME NEW a \in Byte, NEW b \in Byte, NEW c \in Byte
  PROVE  MinusByte(MinusByte(a, b), c) = (a - b - c) % ByteCount
  <1> DEFINE m == ByteCount
  <1>1. /\ m \in Nat /\ m > 0 /\ a \in 0 .. m - 1 /\ b \in 0 .. m - 1
        /\ c \in 0 .. m - 1
    BY ByteAssumption DEF Byte
  <1> HIDE DEF m
  <1>2. ASSUME NEW x \in Int, -m <= x, x < 0 PROVE x % m = x + m
    BY <1>1, <1>2, SMTT(30)
  <1>3. ASSUME NEW x \in Int, -2 * m <= x, x < -m PROVE x % m = x + 2 * m
    BY <1>1, <1>3, SMTT(30)
  <1>4. \A x \in 0 .. m - 1 : x % m = x
    BY <1>1, ModSmall
  <1>5. CASE a - b >= 0
    <2>1. (a - b) % m = a - b
      BY <1>1, <1>4, <1>5
    <2>2. QED
      BY <2>1 DEF MinusByte, m
  <1>6. CASE a - b < 0
    <2>1. (a - b) % m = a - b + m
      BY <1>1, <1>2, <1>6
    <2>2. CASE a - b + m - c >= 0
      <3>1. /\ (a - b + m - c) % m = a - b + m - c
            /\ (a - b - c) % m = a - b - c + m
        BY <1>1, <1>2, <1>4, <1>6, <2>2
      <3>2. QED
        BY <1>1, <2>1, <3>1 DEF MinusByte, m
    <2>3. CASE a - b + m - c < 0
      <3>1. /\ (a - b + m - c) % m = a - b + m - c + m
            /\ (a - b - c) % m = a - b - c + 2 * m
        BY <1>1, <1>2, <1>3, <1>6, <2>3
      <3>2. QED
        BY <1>1, <2>1, <3>1 DEF MinusByte, m
    <2>4. QED
      BY <1>1, <2>2, <2>3
  <1>7. QED
    BY <1>1, <1>5, <1>6

(* What a byte of data stands for. *)
PlainOf(i) ==
  ((IF i - 1 \in Escapes THEN Block[i] - bEscOff ELSE Block[i]) - bOffset) % ByteCount

LEMMA ContentGrows ==
  ASSUME TypeOK
  PROVE  /\ Content \in [0 .. call.cb -> Seq(Byte)] /\ Content[0] = <<>>
         /\ \A i \in 1 .. call.cb :
              Content[i] = IF IsBreak(Block[i]) \/ i \in Escapes
                           THEN Content[i - 1]
                           ELSE Append(Content[i - 1], PlainOf(i))
  <1> DEFINE n == Len(Block)
             T == Seq(Byte)
             Longer(i, before) == IF IsBreak(Block[i]) \/ i \in Escapes
                                  THEN before
                                  ELSE Append(before, PlainOf(i))
             step == [x \in (1 .. n) \X T |-> Longer(x[1], x[2])]
  <1>1. n = call.cb /\ n \in Nat
    BY BlockType
  <1>2. \A i \in 1 .. n : PlainOf(i) \in Byte
    <2>1. ASSUME NEW i \in 1 .. n PROVE PlainOf(i) \in Byte
      <3>1. Block[i] \in Int /\ bEscOff \in Int /\ bOffset \in Int
        BY <1>1, BlockType, CallType, ByteIsInt
      <3> DEFINE x == (IF i - 1 \in Escapes THEN Block[i] - bEscOff ELSE Block[i])
                         - bOffset
      <3>2. x \in Int
        BY <3>1
      <3>3. PlainOf(i) = x % ByteCount
        BY DEF PlainOf
      <3> HIDE DEF x
      <3>4. x % ByteCount \in 0 .. ByteCount - 1
        BY <3>2, ModRange, ByteAssumption
      <3>5. QED
        BY <3>3, <3>4 DEF Byte
    <2>2. QED
      BY <2>1
  <1>3. step \in Steps(n, T)
    <2>1. ASSUME NEW i \in 1 .. n, NEW before \in T PROVE Longer(i, before) \in T
      BY <1>2
    <2> HIDE DEF Longer, T
    <2>2. QED
      BY <2>1 DEF Steps
  <1>4. PICK f \in [0 .. n -> T] : Follows(f, n, <<>>, step)
    <2>1. <<>> \in T /\ n \in Nat
      BY <1>1
    <2> HIDE DEF step, n, T
    <2>2. QED
      BY <1>3, <2>1, Recursion
  <1>5. \A k \in 0 .. n : f[k] = IF k = 0 THEN <<>> ELSE Longer(k, f[k - 1])
    <2>1. ASSUME NEW k \in 0 .. n, k # 0 PROVE f[k] = Longer(k, f[k - 1])
      <3>1. k \in 1 .. n /\ f[k - 1] \in T
        BY <1>1, <2>1
      <3>2. f[k] = step[<<k, f[k - 1]>>]
        BY <1>4, <3>1 DEF Follows
      <3> HIDE DEF Longer, T
      <3>3. step[<<k, f[k - 1]>>] = Longer(k, f[k - 1])
        BY <3>1
      <3>4. QED
        BY <3>2, <3>3
    <2>2. f[0] = <<>>
      BY <1>4 DEF Follows
    <2>3. QED
      BY <2>1, <2>2
  <1>6. f = [i \in 0 .. Len(Block) |->
               IF i = 0
               THEN <<>>
               ELSE IF IsBreak(Block[i]) \/ i \in Escapes
                    THEN f[i - 1]
                    ELSE Append(f[i - 1], PlainOf(i))]
    <2>1. f = [i \in 0 .. n |-> f[i]]
      OBVIOUS
    <2>2. QED
      BY <1>5, <2>1, Zenon
  <1>7. Content = [i \in 0 .. Len(Block) |->
               IF i = 0
               THEN <<>>
               ELSE IF IsBreak(Block[i]) \/ i \in Escapes
                    THEN Content[i - 1]
                    ELSE Append(Content[i - 1], PlainOf(i))]
    BY <1>6, Zenon DEF Content, PlainOf
  <1>8. \A k \in 0 .. n :
          Content[k] = IF k = 0 THEN <<>> ELSE Longer(k, Content[k - 1])
    BY <1>7, Zenon
  <1>9. Content[0] = <<>> /\ \A k \in 1 .. n : Content[k] = Longer(k, Content[k - 1])
    <2>1. \A k \in 1 .. n : k \in 0 .. n /\ k # 0
      OBVIOUS
    <2>2. 0 \in 0 .. n
      BY <1>1
    <2>3. QED
      BY <1>8, <2>1, <2>2, Zenon
  <1>10. \A k \in 0 .. n : Content[k] \in T
    <2> DEFINE S == {k \in 0 .. n : Content[k] \in T}
    <2>1. 0 \in S
      BY <1>1, <1>9
    <2>2. ASSUME NEW k \in 1 .. n, k - 1 \in S PROVE k \in S
      <3>1. k \in 0 .. n /\ Content[k - 1] \in T
        BY <2>2
      <3>2. Longer(k, Content[k - 1]) \in T
        BY <1>2, <3>1
      <3>3. QED
        BY <1>9, <3>1, <3>2
    <2> HIDE DEF S
    <2>3. 0 .. n \subseteq S
      BY <1>1, <2>1, <2>2, Upwards
    <2>4. QED
      BY <2>3 DEF S
  <1>11. Content \in [0 .. n -> T]
    <2> HIDE DEF T
    <2>1. Content = [k \in 0 .. n |-> Content[k]]
      BY <1>7, Zenon
    <2>2. QED
      BY <1>10, <2>1, Zenon
  <1>12. QED
    BY <1>1, <1>9, <1>11

(* What was decoded first is the beginning of what is decoded later. *)
LEMMA ContentBegins ==
  ASSUME TypeOK, NEW p \in 0 .. call.cb, NEW q \in 0 .. call.cb, p <= q
  PROVE  /\ Len(Content[p]) <= Len(Content[q])
         /\ SubSeq(Content[q], 1, Len(Content[p])) = Content[p]
  <1> DEFINE Begins(k) == /\ Len(Content[p]) <= Len(Content[k])
                          /\ SubSeq(Content[k], 1, Len(Content[p])) = Content[p]
             S == {k \in 0 .. call.cb : p <= k => Begins(k)}
  <1>1. call.cb \in Nat /\ \A k \in 0 .. call.cb : Content[k] \in Seq(Byte)
    BY BlockType, ContentGrows
  <1>2. Begins(p)
    <2>1. Content[p] \in Seq(Byte)
      BY <1>1
    <2>2. QED
      BY <2>1
  <1>3. 0 \in S
    BY <1>1, <1>2
  <1>4. ASSUME NEW k \in 1 .. call.cb, k - 1 \in S PROVE k \in S
    <2>1. k \in 0 .. call.cb /\ k - 1 \in 0 .. call.cb
      BY <1>1
    <2>2. CASE p <= k - 1
      <3>1. Begins(k - 1) /\ Content[k - 1] \in Seq(Byte) /\ Content[p] \in Seq(Byte)
        BY <1>1, <1>4, <2>1, <2>2
      <3>2. \/ Content[k] = Content[k - 1]
            \/ Content[k] = Append(Content[k - 1], PlainOf(k)) /\ Content[k] \in Seq(Byte)
        BY <1>1, <2>1, ContentGrows
      <3>3. ASSUME NEW s \in Seq(Byte), NEW t \in Seq(Byte), NEW e, Append(s, e) \in Seq(Byte),
                   Len(t) <= Len(s), SubSeq(s, 1, Len(t)) = t
            PROVE  /\ Len(t) <= Len(Append(s, e))
                   /\ SubSeq(Append(s, e), 1, Len(t)) = t
        <4>1. /\ \A i \in 1 .. Len(t) : t[i] = s[i] /\ Append(s, e)[i] = s[i]
              /\ Len(Append(s, e)) = Len(s) + 1
          BY <3>3
        <4>2. QED
          BY <3>3, <4>1
      <3>4. Begins(k)
        BY <3>1, <3>2, <3>3, SMTT(30)
      <3>5. QED
        BY <2>1, <3>4
    <2>3. CASE p = k
      BY <1>2, <2>1, <2>3
    <2>4. QED
      BY <2>1, <2>2, <2>3
  <1> HIDE DEF S
  <1>5. 0 .. call.cb \subseteq S
    BY <1>1, <1>3, <1>4, Upwards
  <1>6. QED
    BY <1>5 DEF S

(* The bytes of the tag that are matched: a mismatch starts over. *)
LEMMA Matching ==
  ASSUME NEW S, NEW buf \in Seq(S), NEW tag \in Seq(S), tag # <<>>
  PROVE  /\ Matched(buf, tag) \in [0 .. Len(buf) -> 0 .. Len(tag) - 1]
         /\ Matched(buf, tag)[0] = 0
         /\ \A i \in 1 .. Len(buf) :
              LET jdx == Matched(buf, tag)[i - 1]
              IN  Matched(buf, tag)[i]
                    = IF buf[i] = tag[jdx + 1] THEN (jdx + 1) % Len(tag) ELSE 0
  <1> DEFINE n == Len(buf)
             size == Len(tag)
             T == 0 .. size - 1
             Count(i, jdx) == IF buf[i] = tag[jdx + 1] THEN (jdx + 1) % size ELSE 0
             step == [x \in (1 .. n) \X T |-> Count(x[1], x[2])]
             M == Matched(buf, tag)
  <1>1. n \in Nat /\ size \in Nat /\ size > 0
    OBVIOUS
  <1>2. \A i \in 1 .. n, jdx \in T : Count(i, jdx) \in T
    <2>1. ASSUME NEW jdx \in T PROVE (jdx + 1) % size \in T
      <3> HIDE DEF size
      <3>1. QED
        BY <1>1, ModRange
    <2>2. 0 \in T
      BY <1>1
    <2> HIDE DEF T, size
    <2>3. QED
      BY <2>1, <2>2
  <1>3. step \in Steps(n, T)
    <2> HIDE DEF Count, T
    <2>1. QED
      BY <1>2 DEF Steps
  <1>4. PICK f \in [0 .. n -> T] : Follows(f, n, 0, step)
    <2>1. 0 \in T /\ n \in Nat
      BY <1>1
    <2> HIDE DEF step, n, T
    <2>2. QED
      BY <1>3, <2>1, Recursion
  <1>5. \A k \in 0 .. n : f[k] = IF k = 0 THEN 0 ELSE Count(k, f[k - 1])
    <2>1. ASSUME NEW k \in 0 .. n, k # 0 PROVE f[k] = Count(k, f[k - 1])
      <3>1. k \in 1 .. n /\ f[k - 1] \in T
        BY <1>1, <2>1, SMTT(30)
      <3>2. f[k] = step[<<k, f[k - 1]>>]
        BY <1>4, <3>1 DEF Follows
      <3> HIDE DEF Count, T
      <3>3. step[<<k, f[k - 1]>>] = Count(k, f[k - 1])
        BY <3>1
      <3>4. QED
        BY <3>2, <3>3
    <2>2. f[0] = 0
      BY <1>4 DEF Follows
    <2>3. QED
      BY <2>1, <2>2
  <1>6. \A jdx \in T : \A i : [j \in 0 .. size - 1 |->
                             IF buf[i] = tag[j + 1] THEN (j + 1) % size ELSE 0][jdx]
                           = Count(i, jdx)
    OBVIOUS
  <1>7. f = [i \in 0 .. Len(buf) |->
               IF i = 0
               THEN 0
               ELSE [jdx \in 0 .. size - 1 |->
                       IF buf[i] = tag[jdx + 1] THEN (jdx + 1) % size ELSE 0]
                    [f[i - 1]]]
    <2> DEFINE Row(i) == [jdx \in 0 .. size - 1 |->
                            IF buf[i] = tag[jdx + 1] THEN (jdx + 1) % size ELSE 0]
    <2>1. f = [i \in 0 .. n |-> f[i]]
      OBVIOUS
    <2>2. ASSUME NEW i \in 0 .. n
          PROVE  f[i] = IF i = 0 THEN 0 ELSE Row(i)[f[i - 1]]
      <3>1. CASE i = 0
        BY <1>5, <3>1
      <3>2. CASE i # 0
        <4>1. f[i - 1] \in T
          BY <1>1, <3>2, SMTT(30)
        <4>2. Row(i)[f[i - 1]] = Count(i, f[i - 1])
          BY <1>6, <4>1, Zenon
        <4> HIDE DEF Row, Count, T
        <4>3. f[i] = Count(i, f[i - 1])
          BY <1>5, <3>2
        <4>4. QED
          BY <3>2, <4>2, <4>3
      <3>3. QED
        BY <3>1, <3>2
    <2>3. QED
      BY <2>1, <2>2, Zenon
  <1>8. M = [i \in 0 .. Len(buf) |->
               IF i = 0
               THEN 0
               ELSE [jdx \in 0 .. size - 1 |->
                       IF buf[i] = tag[jdx + 1] THEN (jdx + 1) % size ELSE 0]
                    [M[i - 1]]]
    BY <1>7, Zenon DEF Matched
  <1> HIDE DEF M
  <1>9. /\ M[0] = 0
        /\ \A k \in 1 .. n : M[k] = [jdx \in 0 .. size - 1 |->
               IF buf[k] = tag[jdx + 1] THEN (jdx + 1) % size ELSE 0][M[k - 1]]
    <2>1. \A k \in 1 .. n : k \in 0 .. Len(buf) /\ k # 0
      OBVIOUS
    <2>2. 0 \in 0 .. Len(buf)
      BY <1>1
    <2>3. QED
      BY <1>8, <2>1, <2>2, Zenon
  <1>10. \A k \in 0 .. n : M[k] \in T
    <2> DEFINE Z == {k \in 0 .. n : M[k] \in T}
    <2>1. 0 \in Z
      BY <1>1, <1>9
    <2>2. ASSUME NEW k \in 1 .. n, k - 1 \in Z PROVE k \in Z
      <3>1. k \in 0 .. n /\ M[k - 1] \in T
        BY <2>2
      <3>2. M[k] = Count(k, M[k - 1])
        BY <1>6, <1>9, <3>1, Zenon
      <3>3. M[k] \in T
        BY <1>2, <3>1, <3>2, Zenon
      <3>4. QED
        BY <3>1, <3>3
    <2> HIDE DEF Z
    <2>3. 0 .. n \subseteq Z
      BY <1>1, <2>1, <2>2, Upwards
    <2>4. QED
      BY <2>3 DEF Z
  <1>11. M \in [0 .. n -> T]
    <2> HIDE DEF T
    <2>1. M = [k \in 0 .. n |-> M[k]]
      BY <1>8, Zenon
    <2>2. QED
      BY <1>10, <2>1, Zenon
  <1>12. \A k \in 1 .. n : M[k] = Count(k, M[k - 1])
    <2>1. \A k \in 1 .. n : M[k - 1] \in T
      BY <1>10
    <2>2. QED
      BY <1>6, <1>9, <2>1, Zenon
  <1>13. QED
    BY <1>9, <1>11, <1>12 DEF M

(* Where a search can find a tag: Found(buf, tag) is what FindTag chooses from. *)
Found(buf, tag) ==
  {p \in 1 .. Len(buf) - Len(tag) + 1 :
     /\ Matched(buf, tag)[p + Len(tag) - 2] = Len(tag) - 1
     /\ buf[p + Len(tag) - 1] = tag[Len(tag)]}

LEMMA FindsWhatIsFound ==
  ASSUME NEW S, NEW buf \in Seq(S), NEW tag \in Seq(S)
  PROVE  FindAttributeTag(buf, tag) # NotFound
           <=> Len(buf) >= Len(tag) /\ Found(buf, tag) # {}
  <1>1. FindAttributeTag(buf, tag) =
          IF Len(buf) < Len(tag) \/ Found(buf, tag) = {}
          THEN NotFound
          ELSE Least(Found(buf, tag))
    <2> DEFINE found ==
                 {p \in 1 .. Len(buf) - Len(tag) + 1 :
                    /\ Matched(buf, tag)[p + Len(tag) - 2] = Len(tag) - 1
                    /\ buf[p + Len(tag) - 1] = tag[Len(tag)]
                    /\ FALSE => BeginsLine(buf, p)}
    <2>1. FindAttributeTag(buf, tag) =
            IF Len(buf) < Len(tag) \/ found = {}
            THEN NotFound
            ELSE CHOOSE p \in found : \A q \in found : p <= q
      BY DEF FindAttributeTag, FindTag
    <2>2. found = Found(buf, tag)
      BY DEF Found
    <2> HIDE DEF found
    <2>3. QED
      BY <2>1, <2>2, Zenon DEF Least
  <1>2. Found(buf, tag) \in SUBSET Nat /\ 0 \notin Found(buf, tag)
    BY DEF Found
  <1>3. Found(buf, tag) # {} => Least(Found(buf, tag)) # 0
    BY <1>2, LeastExists
  <1>4. Len(buf) \in Nat /\ Len(tag) \in Nat
    OBVIOUS
  <1>5. QED
    BY <1>1, <1>3, <1>4 DEF NotFound

(* A tag that is found behind a byte that it does not contain is found as well
   by a search that starts earlier, although the search forgets the byte on
   which it starts over. *)
LEMMA FoundBehind ==
  ASSUME NEW S, NEW buf \in Seq(S), NEW tag \in Seq(S), tag # <<>>,
         NEW d \in 0 .. Len(buf), d > 0 => \A k \in DOMAIN tag : buf[d] # tag[k],
         FindAttributeTag(SubSeq(buf, d + 1, Len(buf)), tag) # NotFound
  PROVE  FindAttributeTag(buf, tag) # NotFound
  <1> DEFINE rest == SubSeq(buf, d + 1, Len(buf))
             r == Len(buf) - d
             size == Len(tag)
             M == Matched(buf, tag)
             R == Matched(rest, tag)
  <1>1. /\ rest \in Seq(S) /\ Len(rest) = r /\ r \in Nat /\ d \in Nat
        /\ \A i \in 1 .. r : rest[i] = buf[d + i]
        /\ size \in Nat \ {0} /\ DOMAIN tag = 1 .. size
    OBVIOUS
  <1>2. /\ M \in [0 .. Len(buf) -> 0 .. size - 1] /\ M[0] = 0
        /\ \A i \in 1 .. Len(buf) :
             M[i] = IF buf[i] = tag[M[i - 1] + 1] THEN (M[i - 1] + 1) % size ELSE 0
    BY Matching
  <1>3. /\ R \in [0 .. r -> 0 .. size - 1] /\ R[0] = 0
        /\ \A i \in 1 .. r :
             R[i] = IF rest[i] = tag[R[i - 1] + 1] THEN (R[i - 1] + 1) % size ELSE 0
    <2> HIDE DEF rest, r
    <2>1. /\ R \in [0 .. Len(rest) -> 0 .. size - 1] /\ R[0] = 0
          /\ \A i \in 1 .. Len(rest) :
               R[i] = IF rest[i] = tag[R[i - 1] + 1] THEN (R[i - 1] + 1) % size ELSE 0
      <3>1. rest \in Seq(S)
        BY <1>1
      <3>2. QED
        BY <3>1, Matching
    <2>2. QED
      BY <1>1, <2>1
  <1>4. FindAttributeTag(rest, tag) # NotFound
    OBVIOUS
  <1>5. size <= r /\ Found(rest, tag) # {}
    <2> HIDE DEF rest, r
    <2>1. QED
      BY <1>1, <1>4, FindsWhatIsFound
  <1> HIDE DEF rest, r, size, M, R
  <1>6. M[d] = 0
    <2>1. CASE d = 0
      BY <1>2, <2>1
    <2>2. CASE d # 0
      <3>1. d \in 1 .. Len(buf) /\ d - 1 \in 0 .. Len(buf)
        BY <2>2
      <3>2. M[d - 1] + 1 \in DOMAIN tag
        <4>1. M[d - 1] \in 0 .. size - 1
          BY <1>2, <3>1
        <4>2. QED
          BY <1>1, <4>1
      <3>3. QED
        BY <1>2, <2>2, <3>1, <3>2, SMTT(30)
    <2>3. QED
      BY <2>1, <2>2
  <1>7. \A i \in 0 .. r : M[d + i] = R[i]
    <2> DEFINE Z == {i \in 0 .. r : M[d + i] = R[i]}
    <2>1. 0 \in Z
      BY <1>1, <1>3, <1>6
    <2>2. ASSUME NEW i \in 1 .. r, i - 1 \in Z PROVE i \in Z
      <3>1. M[d + i - 1] = R[i - 1]
        <4>1. d + (i - 1) = d + i - 1
          BY <1>1
        <4>2. QED
          BY <2>2, <4>1
      <3>2. d + i \in 1 .. Len(buf) /\ i \in 0 .. r
        BY <1>1 DEF r
      <3>3. M[d + i] = IF buf[d + i] = tag[M[d + i - 1] + 1]
                       THEN (M[d + i - 1] + 1) % size ELSE 0
        BY <1>2, <3>2
      <3>4. R[i] = IF rest[i] = tag[R[i - 1] + 1]
                   THEN (R[i - 1] + 1) % size ELSE 0
        BY <1>3
      <3>5. rest[i] = buf[d + i]
        BY <1>1
      <3>6. M[d + i] = R[i]
        BY <3>1, <3>3, <3>4, <3>5
      <3>7. QED
        BY <3>2, <3>6
    <2> HIDE DEF Z
    <2>3. 0 .. r \subseteq Z
      BY <1>1, <2>1, <2>2, Upwards
    <2>4. QED
      BY <2>3 DEF Z
  <1>8. PICK p \in Found(rest, tag) : TRUE
    BY <1>5
  <1>9. /\ p \in 1 .. r - size + 1 /\ R[p + size - 2] = size - 1
        /\ rest[p + size - 1] = tag[size]
    BY <1>1, <1>8 DEF Found, R, size
  <1>10. /\ p + size - 2 \in 0 .. r /\ p + size - 1 \in 1 .. r
         /\ d + (p + size - 2) = d + p + size - 2
         /\ d + (p + size - 1) = d + p + size - 1
         /\ d + p \in 1 .. Len(buf) - size + 1 /\ size <= Len(buf)
    BY <1>1, <1>9 DEF r
  <1>11. M[d + p + size - 2] = size - 1 /\ buf[d + p + size - 1] = tag[size]
    BY <1>1, <1>7, <1>9, <1>10
  <1>12. d + p \in Found(buf, tag)
    BY <1>10, <1>11 DEF Found, M, size
  <1>13. QED
    BY <1>10, <1>12, FindsWhatIsFound DEF size
-----------------------------------------------------------------------------
End == Least(Trailers)

(* What is said of the block alone stays. *)
LEMMA SameBlock ==
  ASSUME call' = call
  PROVE  /\ Block' = Block /\ LineStarts' = LineStarts /\ Escapes' = Escapes
         /\ Content' = Content /\ End' = End /\ Decoded' = Decoded
         /\ (WellFormed' <=> WellFormed) /\ (NoBareLF' <=> NoBareLF)
  <1>1. Block' = Block /\ bEscape' = bEscape /\ bOffset' = bOffset /\ bEscOff' = bEscOff
    BY DEF Block, bEscape, bOffset, bEscOff
  <1>2. LineStarts' = LineStarts
    BY <1>1 DEF LineStarts
  <1>3. Escapes' = Escapes
    BY <1>1 DEF Escapes, IsEscape
  <1>4. Content' = Content
    BY <1>1, <1>3 DEF Content
  <1>5. Trailers' = Trailers
    BY <1>1, <1>2 DEF Trailers, BlockHas
  <1>6. End' = End /\ Decoded' = Decoded
    BY <1>4, <1>5 DEF End, Decoded, Least
  <1>7. NoBareLF' <=> NoBareLF
    BY DEF NoBareLF
  <1>8. WellFormed' <=> WellFormed
    BY <1>1, <1>2, <1>3, <1>5 DEF WellFormed, Least
  <1>9. QED
    BY <1>1, <1>2, <1>3, <1>4, <1>6, <1>7, <1>8

(* The parts of a block that an encoder may write. *)
LEMMA Written ==
  ASSUME TypeOK, WellFormed
  PROVE  /\ End \in Trailers /\ End \in LineStarts /\ End \in 1 .. call.cb
         /\ \A i \in Trailers : End <= i
         /\ bEscape # CR /\ bEscape # LF
         /\ \A i \in LineStarts :
              i < End => /\ ~(i \in Escapes /\ Block[i + 1] = YChar)
                         /\ i + Len(MK_YEND) <= call.cb + 1
         /\ \A i \in Escapes : i < End => Block[i + 1] # CR /\ Block[i + 1] # LF
         /\ FindAttributeTag(SubSeq(Block, End, call.cb), MK_SIZE) # NotFound
         /\ Len(MK_SIZE) <= call.cb - End + 1
  <1>1. Len(Block) = call.cb /\ call.cb \in Nat /\ Block \in Seq(Byte)
    BY BlockType
  <1>2. Trailers \in SUBSET Nat /\ Trailers # {} /\ LineStarts \subseteq 1 .. call.cb
    <2>1. LineStarts \subseteq 1 .. Len(Block)
      BY DEF LineStarts
    <2>2. Trailers \subseteq LineStarts
      BY DEF Trailers
    <2>3. Trailers # {}
      BY DEF WellFormed
    <2>4. 1 .. call.cb \subseteq Nat
      BY <1>1
    <2>5. QED
      BY <1>1, <2>1, <2>2, <2>3, <2>4
  <1>3. End \in Trailers /\ \A i \in Trailers : End <= i
    BY <1>2, LeastExists DEF End
  <1>4. /\ bEscape # CR /\ bEscape # LF
        /\ \A i \in LineStarts :
              i < End => /\ ~(i \in Escapes /\ Block[i + 1] = YChar)
                         /\ i + Len(MK_YEND) <= call.cb + 1
        /\ \A i \in Escapes : i < End => Block[i + 1] # CR /\ Block[i + 1] # LF
        /\ FindAttributeTag(SubSeq(Block, End, call.cb), MK_SIZE) # NotFound
    BY <1>1 DEF WellFormed, IsBreak, End
  <1>5. End \in LineStarts /\ End \in 1 .. call.cb
    BY <1>2, <1>3 DEF Trailers
  <1>6. /\ SubSeq(Block, End, call.cb) \in Seq(Byte)
        /\ Len(SubSeq(Block, End, call.cb)) = call.cb - End + 1
    BY <1>1, <1>5
  <1>7. ~(Len(SubSeq(Block, End, call.cb)) < Len(MK_SIZE))
    BY <1>4, ShortSearch
  <1>8. Len(MK_SIZE) \in Nat
    BY TagAssumption
  <1>9. QED
    BY <1>1, <1>3, <1>4, <1>5, <1>6, <1>7, <1>8

(* While a well-formed block is decoded: a line begins at the start of a line,
   the bytes up to here have been decoded and the last of them escapes nothing,
   and the loop leaves neither the data nor a line too early. *)
Decoding ==
  /\ pc = "line" => pos + 1 \in LineStarts
  /\ pc = "data" => pos + 1 # End
  /\ pc = "trailer" => pos + 1 = End \/ Len(out) = call.room
  /\ pc # "done" => /\ status = "running"
                    /\ pos + 1 <= End
                    /\ pos \notin Escapes
                    /\ out = Content[pos]
                    /\ Len(out) <= call.room
  /\ pc = "done" => DecodedRight

(* =yend ends the data exactly where the first trailer begins. *)
LEMMA EndOfDataDecodes ==
  ASSUME TypeOK, NoBareLF, WellFormed, Inside, Decoding, EndOfData
  PROVE  Decoding'
  <1>1. /\ call' = call /\ pos' = pos /\ out' = out /\ status' = status
        /\ pc = "line" /\ pc' = "trailer"
        /\ left < Len(MK_YEND) \/ AtTag(MK_YEND)
    BY DEF EndOfData
  <1>2. /\ pos \in Nat /\ left \in Nat /\ pos + left = call.cb
        /\ Len(MK_YEND) \in Nat /\ call.mem \in Seq(Byte) /\ call.cb <= Len(call.mem)
        /\ Len(call.mem) \in Nat /\ MK_YEND \in Seq(Byte)
    BY WAssumption, TagAssumption, CallType DEF TypeOK, Range2W, Inside
  <1>3. pos + 1 = End
    <2>1. SUFFICES ASSUME pos + 1 # End PROVE FALSE
      OBVIOUS
    <2>2. pos + 1 \in LineStarts /\ pos + 1 < End /\ End \in 1 .. call.cb
      BY <1>1, <1>2, <2>1, Written DEF Decoding
    <2>3. pos + Len(MK_YEND) <= call.cb
      BY <1>2, <2>2, Written
    <2>4. SubSeq(call.mem, pos + 1, pos + Len(MK_YEND)) = MK_YEND
      BY <1>1, <1>2, <2>3 DEF AtTag
    <2>5. SubSeq(Block, pos + 1, pos + Len(MK_YEND)) = MK_YEND
      BY <1>2, <2>3, <2>4 DEF Block
    <2>6. BlockHas(pos + 1, MK_YEND)
      <3>1. pos + 1 + Len(MK_YEND) - 1 = pos + Len(MK_YEND)
        BY <1>2
      <3>2. QED
        BY <2>3, <2>5, <3>1, BlockType DEF BlockHas
    <2>7. pos + 1 \in Trailers
      BY <2>2, <2>6 DEF Trailers
    <2>8. QED
      BY <1>2, <2>2, <2>7, Written
  <1>4. QED
    BY <1>1, <1>3, SameBlock DEF Decoding

(* What the loop stands on while it decodes: a byte of the block before End. *)
LEMMA Standing ==
  ASSUME TypeOK, Inside, WellFormed, Decoding, pc # "done"
  PROVE  /\ pos \in Nat /\ left \in Nat /\ pos + left = call.cb /\ call.cb \in Nat
         /\ left > 0 /\ pos + 1 \in 1 .. End /\ End \in 1 .. call.cb
         /\ left \in Range2W /\ Minus(left, 1) = left - 1
         /\ \A i \in 1 .. call.cb : Block[i] = call.mem[i] /\ Block[i] \in Byte
         /\ NextByte = Block[pos + 1]
         /\ pos \in 0 .. call.cb /\ out = Content[pos]
         /\ (pos + 1 \in Escapes <=> Block[pos + 1] = bEscape)
  <1>1. /\ pos \in Nat /\ left \in Nat /\ pos + left = call.cb /\ call.cb \in Nat
        /\ left \in Range2W
    BY WAssumption, BlockType DEF TypeOK, Range2W, Inside
  <1>2. pos + 1 <= End /\ End \in 1 .. call.cb
    BY Written DEF Decoding
  <1>3. left > 0 /\ pos + 1 \in 1 .. call.cb /\ pos + 1 \in 1 .. End /\ pos \in 0 .. call.cb
    BY <1>1, <1>2
  <1>4. Minus(left, 1) = left - 1
    BY <1>1, <1>3, MinusExact
  <1>5. \A i \in 1 .. call.cb : Block[i] = call.mem[i] /\ Block[i] \in Byte
    BY BlockType
  <1>6. NextByte = Block[pos + 1]
    BY <1>3, <1>5 DEF NextByte
  <1>7. pos + 1 \in Escapes <=> Block[pos + 1] = bEscape
    <2>1. pos \notin Escapes /\ pos + 1 - 1 = pos
      BY <1>1 DEF Decoding
    <2>2. pos + 1 \in Escapes <=> Block[pos + 1] = bEscape /\ pos + 1 - 1 \notin Escapes
      BY <1>3, EscapesAlternate
    <2>3. QED
      BY <2>1, <2>2
  <1>8. out = Content[pos]
    BY DEF Decoding
  <1>9. QED
    BY <1>1, <1>2, <1>3, <1>4, <1>5, <1>6, <1>7, <1>8

(* A line begins behind a line feed. *)
LEMMA LineBehind ==
  ASSUME NEW i \in 1 .. Len(Block), Block[i - 1] = LF
  PROVE  i \in LineStarts
  BY DEF LineStarts

(* No line begins behind a byte that breaks none. *)
LEMMA NoLineBehind ==
  ASSUME TypeOK, NEW i \in 1 .. call.cb, Block[i] # CR, Block[i] # LF
  PROVE  i + 1 \notin LineStarts
  <1>1. call.cb \in Nat /\ i + 1 # 1 /\ i + 1 - 1 = i
    BY BlockType
  <1>2. QED
    BY <1>1 DEF LineStarts

(* One lemma for each step of the loop. *)
LEMMA StartLineDecodes ==
  ASSUME TypeOK, NoBareLF, WellFormed, Inside, Decoding, StartLine
  PROVE  Decoding'
  <1>1. /\ call' = call /\ pos' = pos /\ out' = out /\ pc = "line"
        /\ left >= Len(MK_YEND) /\ ~AtTag(MK_YEND)
        /\ \/ NextByte = bEscape /\ call.mem[pos + 2] = YChar
           \/ pc' = "data" /\ status' = status
    BY DEF StartLine
  <1>2. pos + 1 # End
    <2>1. SUFFICES ASSUME pos + 1 = End PROVE FALSE
      OBVIOUS
    <2>2. /\ Len(MK_YEND) \in Nat /\ pos \in Nat /\ pos + 1 + Len(MK_YEND) - 1 = pos + Len(MK_YEND)
          /\ pos + Len(MK_YEND) <= call.cb /\ call.cb <= Len(call.mem)
          /\ call.mem \in Seq(Byte) /\ call.cb \in Nat
      BY <1>1, Standing, TagAssumption, CallType
    <2>3. BlockHas(pos + 1, MK_YEND)
      <3>1. End \in Trailers
        BY Written
      <3>2. QED
        BY <2>1, <3>1 DEF Trailers
    <2>4. SubSeq(Block, pos + 1, pos + Len(MK_YEND)) = MK_YEND
      BY <2>2, <2>3 DEF BlockHas
    <2>5. SubSeq(Block, pos + 1, pos + Len(MK_YEND)) = SubSeq(call.mem, pos + 1, pos + Len(MK_YEND))
      BY <2>2 DEF Block
    <2>6. QED
      BY <1>1, <2>4, <2>5 DEF AtTag
  <1>3. /\ pos + 1 \in LineStarts /\ pos + 1 < End /\ pos + 2 \in 1 .. call.cb
        /\ pos + 1 + 1 = pos + 2
    BY <1>1, <1>2, Standing DEF Decoding
  <1>4. ~(NextByte = bEscape /\ call.mem[pos + 2] = YChar)
    <2>1. ~(pos + 1 \in Escapes /\ Block[pos + 2] = YChar)
      BY <1>3, Written
    <2>2. Block[pos + 2] = call.mem[pos + 2]
      BY <1>1, <1>3, Standing
    <2>3. QED
      BY <1>1, <2>1, <2>2, Standing
  <1>5. pc' = "data" /\ status' = status
    BY <1>1, <1>4
  <1>6. QED
    BY <1>1, <1>2, <1>5, SameBlock DEF Decoding

LEMMA ExhaustedDecodes ==
  ASSUME TypeOK, NoBareLF, WellFormed, Inside, Decoding, Exhausted
  PROVE  Decoding'
  <1>1. /\ call' = call /\ pos' = pos /\ out' = out /\ status' = status
        /\ pc' = "trailer" /\ pc # "done" /\ ~InputLeft
    BY DEF Exhausted
  <1>2. Len(out) <= call.room /\ Len(out) \in Nat /\ call.room \in Nat
    BY <1>1, CallType DEF Decoding, TypeOK
  <1>3. Len(out) = call.room
    BY <1>1, <1>2, Standing DEF InputLeft
  <1>4. QED
    BY <1>1, <1>3, SameBlock DEF Decoding

(* What the bytes of the block add to its content. *)
LEMMA NextContent ==
  ASSUME TypeOK, NEW i \in 1 .. call.cb
  PROVE  /\ i \in Escapes \/ Block[i] \in {CR, LF} => Content[i] = Content[i - 1]
         /\ i \notin Escapes /\ Block[i] \notin {CR, LF} =>
              Content[i] = Append(Content[i - 1], PlainOf(i))
  BY ContentGrows DEF IsBreak

LEMMA CarriageReturnDecodes ==
  ASSUME TypeOK, NoBareLF, WellFormed, Inside, Decoding, CarriageReturn
  PROVE  Decoding'
  <1>1. /\ call' = call /\ out' = out /\ status' = status
        /\ pc' = "line" /\ pc = "data" /\ NextByte = CR
        /\ \/ call.mem[pos + 2] = LF /\ Consume(2)
           \/ ~(Minus(left, 1) > 0 /\ call.mem[pos + 2] = LF) /\ Consume(1)
    BY DEF CarriageReturn, DataByte
  <1>2. /\ pos \in Nat /\ left \in Nat /\ pos + left = call.cb /\ call.cb \in Nat
        /\ pos + 1 < End /\ pos + 2 \in 1 .. call.cb /\ pos + 1 \in 1 .. call.cb
        /\ End \in 1 .. call.cb /\ pos + 2 <= End
        /\ Minus(left, 1) > 0 /\ pos + 2 - 1 = pos + 1 /\ pos + 1 - 1 = pos
    BY <1>1, Standing, SMTT(30) DEF Decoding
  <1>3. Block[pos + 1] = CR /\ Block[pos + 2] = call.mem[pos + 2]
    BY <1>1, <1>2, Standing
  <1>4. bEscape # CR /\ bEscape # LF /\ CR # LF
    BY Written, ByteAssumption
  <1>5. pos + 1 \notin Escapes /\ Content[pos + 1] = Content[pos]
    <2>1. pos + 1 \notin Escapes
      BY <1>1, <1>3, <1>4, Standing
    <2>2. Content[pos + 1] = Content[pos + 1 - 1]
      BY <1>2, <1>3, NextContent
    <2>3. QED
      BY <1>2, <2>1, <2>2
  <1>6. CASE call.mem[pos + 2] = LF /\ Consume(2)
    <2>1. pos' = pos + 2
      BY <1>6 DEF Consume
    <2>2. pos + 2 \notin LineStarts
      BY <1>2, <1>3, <1>4, <1>6 DEF LineStarts
    <2>3. pos + 2 # End
      BY <2>2, Written
    <2>4. /\ pos + 3 <= End /\ pos + 3 \in 1 .. call.cb /\ pos + 3 - 1 = pos + 2
          /\ pos + 2 + 1 = pos + 3
      BY <1>2, <2>3
    <2>5. pos + 3 \in LineStarts
      <3>1. Block[pos + 3 - 1] = LF /\ Len(Block) = call.cb
        BY <1>3, <1>6, <2>4, BlockType
      <3>2. QED
        <4>1. pos + 3 \in 1 .. Len(Block)
          BY <2>4, <3>1
        <4>2. QED
          BY <1>2, <2>4, <3>1, <4>1, LineBehind
    <2>6. pos + 2 \notin Escapes
      BY <1>2, <1>3, <1>4, <1>6, EscapesAlternate
    <2>7. Content[pos + 2] = Content[pos]
      BY <1>2, <1>3, <1>5, <1>6, NextContent
    <2>8. QED
      BY <1>1, <2>1, <2>4, <2>5, <2>6, <2>7, SameBlock DEF Decoding
  <1>7. CASE ~(Minus(left, 1) > 0 /\ call.mem[pos + 2] = LF) /\ Consume(1)
    <2>1. pos' = pos + 1 /\ Block[pos + 2] # LF /\ pos + 1 + 1 = pos + 2
      BY <1>2, <1>3, <1>7 DEF Consume
    <2>2. pos + 2 \in LineStarts
      <3>1. Block[pos + 2 - 1] = CR /\ Len(Block) = call.cb
        BY <1>2, <1>3, BlockType
      <3>2. QED
        BY <1>2, <2>1, <3>1 DEF LineStarts
    <2>3. QED
      BY <1>1, <1>2, <1>5, <2>1, <2>2, SameBlock DEF Decoding
  <1>8. QED
    BY <1>1, <1>6, <1>7
LEMMA PlainByteDecodes ==
  ASSUME TypeOK, NoBareLF, WellFormed, Inside, Decoding, PlainByte
  PROVE  Decoding'
  <1>1. /\ call' = call /\ status' = status /\ pc' = pc /\ pc = "data"
        /\ NextByte # CR /\ NextByte # LF /\ NextByte # bEscape
        /\ Len(out) < call.room /\ Emit(NextByte) /\ pos' = pos + 1
    BY DEF PlainByte, DataByte, InputLeft, Consume
  <1>2. /\ pos \in Nat /\ pos + 1 < End /\ pos + 1 \in 1 .. call.cb
        /\ pos + 1 + 1 = pos + 2 /\ pos + 2 <= End /\ pos + 1 - 1 = pos
    BY <1>1, Standing DEF Decoding
  <1>3. NextByte = Block[pos + 1] /\ pos \notin Escapes
    BY <1>1, Standing DEF Decoding
  <1>4. pos + 1 \notin Escapes
    BY <1>1, Standing
  <1>5. pos + 2 # End
    <2>1. pos + 1 + 1 \notin LineStarts
      BY <1>1, <1>2, <1>3, NoLineBehind
    <2>2. QED
      BY <1>2, <2>1, Written
  <1>6. out' = Content[pos + 1]
    <2>1. Content[pos + 1] = Append(Content[pos + 1 - 1], PlainOf(pos + 1))
      BY <1>1, <1>2, <1>3, <1>4, NextContent
    <2>2. PlainOf(pos + 1) = MinusByte(NextByte, bOffset)
      BY <1>2, <1>3 DEF PlainOf, MinusByte
    <2>3. out = Content[pos]
      BY <1>1, Standing
    <2>4. QED
      BY <1>1, <1>2, <2>1, <2>2, <2>3 DEF Emit
  <1>7. Len(out') <= call.room
    BY <1>1, CallType DEF Emit, TypeOK
  <1>8. QED
    BY <1>1, <1>2, <1>4, <1>5, <1>6, <1>7, SameBlock DEF Decoding

LEMMA EscapedByteDecodes ==
  ASSUME TypeOK, NoBareLF, WellFormed, Inside, Decoding, EscapedByte
  PROVE  Decoding'
  <1>1. /\ call' = call /\ pc = "data" /\ NextByte = bEscape
        /\ NextByte # CR /\ NextByte # LF /\ Len(out) < call.room
    BY DEF EscapedByte, DataByte, InputLeft
  <1>2. /\ pos \in Nat /\ pos + 1 < End /\ pos + 1 \in 1 .. call.cb
        /\ pos + 1 + 1 = pos + 2 /\ pos + 2 <= End /\ pos + 2 \in 1 .. call.cb
        /\ pos + 1 - 1 = pos /\ pos + 2 - 1 = pos + 1 /\ pos + 2 + 1 = pos + 3
        /\ End \in 1 .. call.cb /\ left > 1 /\ Minus(left, 1) # 0
    BY <1>1, Standing, SMTT(30) DEF Decoding
  <1>3. /\ Block[pos + 1] = bEscape /\ Block[pos + 2] = call.mem[pos + 2]
        /\ pos + 1 \in Escapes
    BY <1>1, <1>2, Standing
  <1>4. Block[pos + 2] # CR /\ Block[pos + 2] # LF
    BY <1>2, <1>3, Written
  <1>5. /\ pos' = pos + 2 /\ pc' = pc /\ status' = status
        /\ Emit(MinusByte(call.mem[pos + 2], bEscOff))
    BY <1>2, <1>3, <1>4 DEF EscapedByte, Consume
  <1>6. pos + 2 # End
    <2>1. pos + 1 + 1 \notin LineStarts
      BY <1>1, <1>2, <1>3, NoLineBehind
    <2>2. QED
      BY <1>2, <2>1, Written
  <1>7. pos + 3 # End
    <2>1. pos + 2 + 1 \notin LineStarts
      BY <1>2, <1>4, NoLineBehind
    <2>2. QED
      BY <1>2, <2>1, Written
  <1>8. pos + 2 \notin Escapes
    BY <1>2, <1>3, EscapesAlternate
  <1>9. out' = Content[pos + 2]
    <2>1. Content[pos + 1] = Content[pos + 1 - 1]
      BY <1>2, <1>3, NextContent
    <2>2. Content[pos + 2] = Append(Content[pos + 2 - 1], PlainOf(pos + 2))
      BY <1>2, <1>4, <1>8, NextContent
    <2>3. PlainOf(pos + 2) = (call.mem[pos + 2] - bEscOff - bOffset) % ByteCount
      BY <1>2, <1>3 DEF PlainOf
    <2>4. /\ call.mem[pos + 2] \in Byte /\ bEscOff \in Byte /\ bOffset \in Byte
      BY <1>2, <1>3, BlockType, CallType
    <2>5. PlainOf(pos + 2) = MinusByte(MinusByte(call.mem[pos + 2], bEscOff), bOffset)
      BY <2>3, <2>4, MinusTwice
    <2>6. out = Content[pos]
      BY <1>1, Standing
    <2>7. QED
      BY <1>2, <1>5, <2>1, <2>2, <2>5, <2>6 DEF Emit
  <1>10. Len(out') <= call.room
    BY <1>1, <1>5, CallType DEF Emit, TypeOK
  <1>11. pos + 2 + 1 <= End
    BY <1>2, <1>6
  <1>12. QED
    BY <1>1, <1>2, <1>5, <1>7, <1>8, <1>9, <1>10, <1>11, SameBlock DEF Decoding

(* The end of the end of a sequence is the end of the sequence. *)
LEMMA RestOfRest ==
  ASSUME NEW S, NEW s \in Seq(S), NEW c \in 0 .. Len(s), NEW a \in 0 .. c,
         NEW b \in 1 .. c - a
  PROVE  SubSeq(SubSeq(s, a + 1, c), b, c - a) = SubSeq(s, a + b, c)
  <1> DEFINE t == SubSeq(s, a + 1, c)
  <1>1. t \in Seq(S) /\ Len(t) = c - a /\ \A i \in 1 .. c - a : t[i] = s[a + i]
    OBVIOUS
  <1>2. /\ SubSeq(t, b, c - a) \in Seq(S) /\ Len(SubSeq(t, b, c - a)) = c - a - b + 1
        /\ \A i \in 1 .. c - a - b + 1 : SubSeq(t, b, c - a)[i] = t[b + i - 1]
    <2> HIDE DEF t
    <2>1. QED
      BY <1>1
  <1>3. /\ SubSeq(s, a + b, c) \in Seq(S) /\ Len(SubSeq(s, a + b, c)) = c - a - b + 1
        /\ \A i \in 1 .. c - a - b + 1 : SubSeq(s, a + b, c)[i] = s[a + b + i - 1]
    OBVIOUS
  <1>4. ASSUME NEW i \in 1 .. c - a - b + 1 PROVE t[b + i - 1] = s[a + b + i - 1]
    <2>1. b + i - 1 \in 1 .. c - a /\ a + (b + i - 1) = a + b + i - 1
      OBVIOUS
    <2> HIDE DEF t
    <2>2. QED
      BY <1>1, <2>1
  <1> HIDE DEF t
  <1>5. QED
    BY <1>2, <1>3, <1>4 DEF t

(* The size= of the trailer is found from wherever the loop has ended. *)
LEMMA SizeFound ==
  ASSUME TypeOK, WellFormed, Inside, Decoding, pc # "done"
  PROVE  FindAttributeTag(Window(Minus(call.cb, pos)), MK_SIZE) # NotFound
  <1> DEFINE buf == SubSeq(call.mem, pos + 1, call.cb)
             d == End - 1 - pos
  <1>1. /\ pos \in Nat /\ left \in Nat /\ pos + left = call.cb /\ call.cb \in Nat
        /\ pos + 1 \in 1 .. End /\ End \in 1 .. call.cb /\ left > 0
        /\ call.mem \in Seq(Byte) /\ call.cb <= Len(call.mem) /\ call.cb \in Range2W
        /\ Len(call.mem) \in Nat
    BY Standing, CallType
  <1>2. Window(Minus(call.cb, pos)) = buf
    <2>1. Minus(call.cb, pos) = left
      <3>1. pos \in 0 .. call.cb /\ left = call.cb - pos
        BY <1>1
      <3>2. QED
        BY <1>1, <3>1, MinusExact
    <2>2. Mapped(pos + left)
      BY <1>1 DEF Mapped
    <2>3. QED
      BY <1>1, <2>1, <2>2 DEF Window
  <1>3. /\ buf \in Seq(Byte) /\ Len(buf) = call.cb - pos /\ d \in 0 .. Len(buf)
        /\ \A i \in 1 .. call.cb - pos : buf[i] = call.mem[pos + i]
    BY <1>1
  <1>4. SubSeq(buf, d + 1, Len(buf)) = SubSeq(Block, End, call.cb)
    <2>1. SubSeq(Block, End, call.cb) = SubSeq(call.mem, End, call.cb)
      BY <1>1 DEF Block
    <2>2. SubSeq(buf, d + 1, Len(buf)) = SubSeq(call.mem, End, call.cb)
      <3>1. /\ d + 1 \in 1 .. call.cb - pos /\ pos + (d + 1) = End
            /\ pos \in 0 .. call.cb /\ call.cb \in 0 .. Len(call.mem)
        <4> HIDE DEF buf
        <4>1. QED
          BY <1>1
      <3> HIDE DEF d
      <3>2. SubSeq(buf, d + 1, call.cb - pos) = SubSeq(call.mem, pos + (d + 1), call.cb)
        BY <1>1, <3>1, RestOfRest
      <3>3. QED
        BY <1>3, <3>1, <3>2
    <2>3. QED
      BY <2>1, <2>2
  <1>5. d > 0 => \A k \in DOMAIN MK_SIZE : buf[d] # MK_SIZE[k]
    <2>1. SUFFICES ASSUME d > 0, NEW k \in DOMAIN MK_SIZE PROVE buf[d] # MK_SIZE[k]
      OBVIOUS
    <2>2. /\ End # 1 /\ End - 1 \in 1 .. call.cb /\ d \in 1 .. call.cb - pos
          /\ pos + d = End - 1
      BY <1>1, <2>1
    <2>3. Block[End - 1] = LF \/ Block[End - 1] = CR
      <3>1. End \in LineStarts
        BY Written
      <3>2. QED
        BY <2>2, <3>1 DEF LineStarts
    <2>4. buf[d] = Block[End - 1]
      BY <1>3, <2>2, BlockType
    <2>5. MK_SIZE[k] # CR /\ MK_SIZE[k] # LF
      BY TagAssumption
    <2>6. QED
      BY <2>3, <2>4, <2>5
  <1>6. FindAttributeTag(SubSeq(Block, End, call.cb), MK_SIZE) # NotFound
    BY Written
  <1> HIDE DEF buf, d
  <1>7. FindAttributeTag(buf, MK_SIZE) # NotFound
    BY <1>3, <1>4, <1>5, <1>6, FoundBehind, TagAssumption
  <1>8. QED
    BY <1>2, <1>7

(* The last step: the size= is found, and what has been written is the content
   up to the room of the output. *)
LEMMA ReadTrailerDecodes ==
  ASSUME TypeOK, NoBareLF, WellFormed, Inside, Decoding, ReadTrailer
  PROVE  Decoding'
  <1>1. /\ call' = call /\ out' = out /\ pc = "trailer"
        /\ left # 0 =>
             \/ FindAttributeTag(Window(Minus(call.cb, pos)), MK_SIZE) = NotFound
             \/ status' = "ok" /\ pc' = "done"
    BY DEF ReadTrailer, Return
  <1>2. status' = "ok" /\ pc' = "done"
    BY <1>1, Standing, SizeFound
  <1>3. /\ out = Content[pos] /\ pos \in 0 .. call.cb /\ End - 1 \in 0 .. call.cb
        /\ pos <= End - 1
    BY <1>1, Standing
  <1>4. /\ Decoded = Content[End - 1] /\ Decoded \in Seq(Byte) /\ out \in Seq(Byte)
        /\ call.room \in Nat
    BY <1>3, ContentGrows, CallType DEF Decoded, End
  <1>5. Len(out) <= Len(Decoded) /\ SubSeq(Decoded, 1, Len(out)) = out
    BY <1>3, <1>4, ContentBegins
  <1>6. Len(out) = Min({Len(Decoded), call.room})
    <2>1. Len(out) <= call.room /\ (pos + 1 = End \/ Len(out) = call.room)
      BY <1>1 DEF Decoding
    <2>2. pos + 1 = End => out = Decoded
      <3>1. pos + 1 = End => pos = End - 1
        BY <1>1, Standing
      <3>2. QED
        BY <1>3, <1>4, <3>1
    <2>3. /\ Len(out) \in {Len(Decoded), call.room}
          /\ \A m \in {Len(Decoded), call.room} : Len(out) <= m
      BY <1>4, <1>5, <2>1, <2>2
    <2>4. ASSUME NEW m \in {Len(Decoded), call.room},
                 \A n \in {Len(Decoded), call.room} : m <= n
          PROVE  m = Len(out)
      BY <1>4, <2>3, <2>4
    <2>5. QED
      BY <2>3, <2>4, Zenon DEF Min
  <1>7. DecodedRight'
    BY <1>1, <1>2, <1>5, <1>6, SameBlock DEF DecodedRight
  <1>8. QED
    BY <1>2, <1>7 DEF Decoding

(* Whatever the step, the block is decoded as it should be. *)
LEMMA DecodingStep ==
  ASSUME TypeOK, NoBareLF, WellFormed, Inside, Decoding, [Next]_vars
  PROVE  Decoding'
  <1>1. CASE EndOfData
    BY <1>1, EndOfDataDecodes
  <1>2. CASE StartLine
    BY <1>2, StartLineDecodes
  <1>3. CASE Exhausted
    BY <1>3, ExhaustedDecodes
  <1>4. CASE CarriageReturn
    BY <1>4, CarriageReturnDecodes
  <1>5. CASE LineFeed
    BY <1>5, NoLineFeed
  <1>6. CASE PlainByte
    BY <1>6, PlainByteDecodes
  <1>7. CASE EscapedByte
    BY <1>7, EscapedByteDecodes
  <1>8. CASE ReadTrailer
    BY <1>8, ReadTrailerDecodes
  <1>9. CASE AccessViolation
    BY <1>9, NoFault
  <1>10. CASE UNCHANGED vars
    <2>1. /\ call' = call /\ pc' = pc /\ pos' = pos /\ out' = out /\ status' = status
      BY <1>10 DEF vars
    <2>2. DecodedRight' <=> DecodedRight
      BY <2>1, SameBlock DEF DecodedRight
    <2>3. QED
      BY <2>1, <2>2, SameBlock DEF Decoding
  <1>11. QED
    BY <1>1, <1>2, <1>3, <1>4, <1>5, <1>6, <1>7, <1>8, <1>9, <1>10 DEF Next

LEMMA InitDecoding == Init /\ WellFormed => Decoding
  <1> SUFFICES ASSUME Init, WellFormed PROVE Decoding
    OBVIOUS
  <1>1. TypeOK
    BY InitIInv DEF IInv
  <1>2. /\ pos = 0 /\ pc = "line" /\ out = <<>> /\ status = "running"
    BY DEF Init
  <1>3. End \in 1 .. call.cb /\ call.cb \in Nat /\ Len(Block) = call.cb
    BY <1>1, Written, BlockType
  <1>4. 1 \in LineStarts /\ 1 <= End
    BY <1>3 DEF LineStarts
  <1>5. 0 \notin Escapes /\ Content[0] = <<>>
    BY <1>1, EscapesAlternate, ContentGrows
  <1>6. call.room \in Nat
    BY <1>1, CallType
  <1>7. QED
    BY <1>2, <1>4, <1>5, <1>6 DEF Decoding

(* DecodesTheBlock for every block: whatever its bytes, offset, escape, line
   lengths and the room for its output, a well-formed block whose lines end in
   \r\n or \r is decoded to exactly its content by yDecode.h:1943-2024. *)
THEOREM BlockIsDecoded == Spec => []DecodesTheBlock
  <1> DEFINE J == WellFormed /\ NoBareLF => Decoding
  <1>1. Init => J
    BY InitDecoding
  <1>2. IInv /\ J /\ [Next]_vars => J'
    <2> SUFFICES ASSUME IInv, J, [Next]_vars, WellFormed', NoBareLF' PROVE Decoding'
      OBVIOUS
    <2>1. call' = call
      BY DEF Next, vars, EndOfData, StartLine, Exhausted, CarriageReturn,
             LineFeed, PlainByte, EscapedByte, ReadTrailer, AccessViolation
    <2>2. WellFormed /\ NoBareLF
      BY <2>1, SameBlock
    <2>3. TypeOK /\ Inside /\ Decoding
      BY <2>2 DEF IInv, Inside
    <2>4. QED
      BY <2>2, <2>3, DecodingStep
  <1>3. J => DecodesTheBlock
    BY DEF Decoding, DecodesTheBlock
  <1> HIDE DEF J
  <1>4. QED
    BY <1>1, <1>2, <1>3, IInvInvariant, PTL DEF Spec
-----------------------------------------------------------------------------
(* Shifting yields a byte, and taking the offset away again undoes it. *)
LEMMA ShiftedType ==
  ASSUME NEW b \in Byte, NEW k \in Byte
  PROVE  Shifted(b, k) \in Byte
  <1>1. b + k \in Int
    BY ByteIsInt
  <1>2. QED
    BY <1>1, ModRange, ByteAssumption DEF Shifted, Byte

LEMMA ShiftedBack ==
  ASSUME NEW d \in Byte, NEW off \in Byte, NEW esc \in Byte
  PROVE  /\ (Shifted(d, off) - off) % ByteCount = d
         /\ ((Shifted(Shifted(d, off), esc) - esc) - off) % ByteCount = d
  <1> DEFINE m == ByteCount
             b == Shifted(d, off)
             c == Shifted(b, esc)
  <1>1. /\ m \in Nat /\ m > 0
        /\ d \in 0 .. m - 1 /\ off \in 0 .. m - 1 /\ esc \in 0 .. m - 1
        /\ \A x \in 0 .. m - 1 : x \in Byte
    BY ByteAssumption DEF Byte
  <1> HIDE DEF m
  <1>2. \A x \in 0 .. m - 1 : x % m = x
    BY <1>1, ModSmall
  <1>3. ASSUME NEW x \in Int, m <= x, x < 2 * m PROVE x % m = x - m
    BY <1>1, <1>3, SMTT(30)
  <1>4. ASSUME NEW x \in Int, -m <= x, x < 0 PROVE x % m = x + m
    BY <1>1, <1>4, SMTT(30)
  <1>5. ASSUME NEW x \in Int, -2 * m <= x, x < -m PROVE x % m = x + 2 * m
    BY <1>1, <1>5, SMTT(30)
  <1>6. ASSUME NEW x \in 0 .. m - 1, NEW k \in 0 .. m - 1
        PROVE  \/ x + k < m /\ (x + k) % m = x + k
               \/ x + k >= m /\ (x + k) % m = x + k - m
    <2>1. CASE x + k < m
      BY <1>1, <1>2, <2>1
    <2>2. CASE x + k >= m
      BY <1>1, <1>3, <2>2
    <2>3. QED
      BY <1>1, <2>1, <2>2
  <1>7. /\ b \in 0 .. m - 1
        /\ \/ b = d + off
           \/ b = d + off - m
    BY <1>1, <1>6 DEF Shifted, m
  <1> HIDE DEF b
  <1>8. /\ c \in 0 .. m - 1
        /\ \/ c = b + esc
           \/ c = b + esc - m
    BY <1>1, <1>6, <1>7 DEF Shifted, m
  <1> HIDE DEF c
  <1>9. (b - off) % m = d
    <2>1. CASE b = d + off
      BY <1>1, <1>2, <1>7, <2>1
    <2>2. CASE b = d + off - m
      <3>1. b - off = d - m /\ -m <= d - m /\ d - m < 0 /\ d - m \in Int
        BY <1>1, <2>2
      <3>2. QED
        BY <1>1, <1>4, <3>1
    <2>3. QED
      BY <1>7, <2>1, <2>2
  <1>10. ((c - esc) - off) % m = d
    <2>1. \/ (c - esc) - off = d
          \/ (c - esc) - off = d - m
          \/ (c - esc) - off = d - 2 * m
      BY <1>1, <1>7, <1>8
    <2>2. /\ d % m = d
          /\ (d - m) % m = d
          /\ (d - 2 * m) % m = d
      <3>1. d % m = d
        BY <1>1, <1>2
      <3>2. (d - m) % m = d
        BY <1>1, <1>4
      <3>3. (d - 2 * m) % m = d
        BY <1>1, <1>5
      <3>4. QED
        BY <3>1, <3>2, <3>3
    <2>3. QED
      BY <2>1, <2>2
  <1>11. QED
    BY <1>9, <1>10 DEF b, c, m

(* What the encoders are. *)
LEMMA EncoderType ==
  ASSUME NEW e \in Encoders
  PROVE  /\ OffsetOf(e) \in Byte /\ EscapeOf(e) \in Byte /\ EscOffOf(e) \in Byte
         /\ EscapeOf(e) # CR /\ EscapeOf(e) # LF
         /\ {CR, LF, Eq, EscapeOf(e)} \subseteq Critical(e)
         /\ \A b \in Critical(e) :
              Shifted(b, EscOffOf(e)) \notin {CR, LF, YChar}
  <1>1. e \in Encoder
    BY EncoderAssumption
  <1>2. /\ e.offset \in Byte \cup {Default}
        /\ e.escape \in Byte \cup {Default}
        /\ e.escoff \in Byte \cup {Default}
    BY <1>1 DEF Encoder
  <1>3. OffsetOf(e) \in Byte /\ EscapeOf(e) \in Byte /\ EscOffOf(e) \in Byte
    BY <1>2, ByteAssumption DEF OffsetOf, EscapeOf, EscOffOf, Effective
  <1>4. QED
    BY <1>3, EncoderAssumption DEF Critical

(* One byte of the payload is one byte of the text, or two. *)
LEMMA EncodeByteType ==
  ASSUME NEW d \in Byte, NEW e \in Encoders
  PROVE  /\ EncodeByte(d, e) \in Seq(Byte)
         /\ Len(EncodeByte(d, e)) \in {1, 2}
  <1>1. /\ Shifted(d, OffsetOf(e)) \in Byte /\ EscapeOf(e) \in Byte
        /\ Shifted(Shifted(d, OffsetOf(e)), EscOffOf(e)) \in Byte
    BY EncoderType, ShiftedType
  <1>2. QED
    BY <1>1 DEF EncodeByte

(* The text grows by a break, or none, and the code of the next byte. *)
Grown(payload, lineLength, e, i, before) ==
  before \o (BreakBefore(i, lineLength) \o EncodeByte(payload[i], e))

LEMMA EncodedTextGrows ==
  ASSUME NEW payload \in Seq(Byte), NEW lineLength \in Nat \ {0}, NEW e \in Encoders
  PROVE  /\ \A k \in 0 .. Len(payload) :
              EncodedText(payload, lineLength, e)[k] \in Seq(Byte)
         /\ EncodedText(payload, lineLength, e)[0] = <<>>
         /\ \A k \in 1 .. Len(payload) :
              EncodedText(payload, lineLength, e)[k] =
                Grown(payload, lineLength, e, k, EncodedText(payload, lineLength, e)[k - 1])
  <1> DEFINE n == Len(payload)
             T == Seq(Byte)
             Longer(i, before) == Grown(payload, lineLength, e, i, before)
             step == [x \in (1 .. n) \X T |-> Longer(x[1], x[2])]
             text == EncodedText(payload, lineLength, e)
  <1>1. n \in Nat
    OBVIOUS
  <1>2. ASSUME NEW i \in 1 .. n, NEW before \in T PROVE Longer(i, before) \in T
    <2>1. EncodeByte(payload[i], e) \in Seq(Byte)
      BY EncodeByteType
    <2>2. BreakBefore(i, lineLength) \in Seq(Byte)
      BY ByteAssumption DEF BreakBefore
    <2>3. BreakBefore(i, lineLength) \o EncodeByte(payload[i], e) \in Seq(Byte)
      BY <2>1, <2>2
    <2>4. QED
      BY <2>3 DEF Grown
  <1>3. step \in Steps(n, T)
    <2> HIDE DEF Longer, T
    <2>1. QED
      BY <1>2 DEF Steps
  <1>4. PICK f \in [0 .. n -> T] : Follows(f, n, <<>>, step)
    <2>1. <<>> \in T
      OBVIOUS
    <2> HIDE DEF step, n, T
    <2>2. QED
      BY <1>1, <1>3, <2>1, Recursion
  <1>5. \A k \in 0 .. n : f[k] = IF k = 0 THEN <<>> ELSE Longer(k, f[k - 1])
    <2>1. ASSUME NEW k \in 0 .. n, k # 0 PROVE f[k] = Longer(k, f[k - 1])
      <3>1. k \in 1 .. n /\ f[k - 1] \in T
        BY <1>1, <2>1
      <3>2. f[k] = step[<<k, f[k - 1]>>]
        BY <1>4, <3>1 DEF Follows
      <3> HIDE DEF Longer, T
      <3>3. step[<<k, f[k - 1]>>] = Longer(k, f[k - 1])
        BY <3>1
      <3>4. QED
        BY <3>2, <3>3
    <2>2. f[0] = <<>>
      BY <1>4 DEF Follows
    <2>3. QED
      BY <2>1, <2>2
  <1>6. f = [i \in 0 .. Len(payload) |->
               IF i = 0
               THEN <<>>
               ELSE f[i - 1] \o (BreakBefore(i, lineLength)
                                   \o EncodeByte(payload[i], e))]
    <2>1. f = [i \in 0 .. n |-> f[i]]
      OBVIOUS
    <2>2. QED
      BY <1>5, <2>1, Zenon DEF Grown
  <1>7. text = [i \in 0 .. Len(payload) |->
               IF i = 0
               THEN <<>>
               ELSE text[i - 1] \o (BreakBefore(i, lineLength)
                                      \o EncodeByte(payload[i], e))]
    BY <1>6, Zenon DEF EncodedText
  <1> HIDE DEF text
  <1>8. \A k \in 0 .. n :
          text[k] = IF k = 0 THEN <<>> ELSE Longer(k, text[k - 1])
    BY <1>7, Zenon DEF Grown
  <1>9. text[0] = <<>> /\ \A k \in 1 .. n : text[k] = Longer(k, text[k - 1])
    <2>1. \A k \in 1 .. n : k \in 0 .. n /\ k # 0
      OBVIOUS
    <2>2. 0 \in 0 .. n
      BY <1>1
    <2>3. QED
      BY <1>8, <2>1, <2>2, Zenon
  <1>10. \A k \in 0 .. n : text[k] \in T
    <2> DEFINE S == {k \in 0 .. n : text[k] \in T}
    <2>1. 0 \in S
      <3>1. <<>> \in T /\ 0 \in 0 .. n
        BY <1>1
      <3> HIDE DEF T
      <3>2. QED
        BY <1>9, <3>1
    <2>2. ASSUME NEW k \in 1 .. n, k - 1 \in S PROVE k \in S
      <3>1. k \in 0 .. n /\ text[k - 1] \in T
        BY <2>2
      <3>2. Longer(k, text[k - 1]) \in T
        BY <1>2, <3>1
      <3>3. QED
        BY <1>9, <3>1, <3>2
    <2> HIDE DEF S
    <2>3. 0 .. n \subseteq S
      BY <1>1, <2>1, <2>2, Upwards
    <2>4. QED
      BY <2>3 DEF S
  <1>11. QED
    BY <1>9, <1>10 DEF text

(* The first m bytes of the block are a line of text after the other, and
   stand for the first k bytes of the payload. *)
Encodes(payload, m, k) ==
  /\ m \notin Escapes
  /\ Content[m] = SubSeq(payload, 1, k)
  /\ \A j \in 1 .. m : Block[j] = LF => j > 1 /\ Block[j - 1] = CR
  /\ \A j \in 1 .. m : j \in Escapes => Block[j + 1] \notin {CR, LF, YChar}
  /\ \A j \in 1 .. m : Block[j] = Eq => j \in Escapes \/ j - 1 \in Escapes

LEMMA OneMore ==
  ASSUME NEW payload \in Seq(Byte), NEW k \in 1 .. Len(payload)
  PROVE  SubSeq(payload, 1, k) = Append(SubSeq(payload, 1, k - 1), payload[k])
  OBVIOUS

LEMMA BreakEncodes ==
  ASSUME TypeOK, bEscape \notin {CR, LF}, NEW payload, NEW k,
         NEW m \in Nat, m + 2 <= call.cb, Encodes(payload, m, k),
         Block[m + 1] = CR, Block[m + 2] = LF
  PROVE  Encodes(payload, m + 2, k)
  <1>1. /\ m + 1 \in 1 .. call.cb /\ m + 2 \in 1 .. call.cb
        /\ (m + 1) - 1 = m /\ (m + 2) - 1 = m + 1
        /\ \A j \in 1 .. m + 2 : j \in 1 .. m \/ j = m + 1 \/ j = m + 2
    BY BlockType
  <1>2. Eq # CR /\ Eq # LF /\ CR # LF
    BY EncoderAssumption, ByteAssumption
  <1>3. m + 1 \notin Escapes /\ m + 2 \notin Escapes
    BY <1>1, EscapesAlternate
  <1>4. Content[m + 1] = Content[m] /\ Content[m + 2] = Content[m + 1]
    BY <1>1, ContentGrows DEF IsBreak
  <1>5. ASSUME NEW j \in 1 .. m + 2, Block[j] = LF PROVE j > 1 /\ Block[j - 1] = CR
    <2>1. CASE j \in 1 .. m
      BY <1>5, <2>1 DEF Encodes
    <2>2. CASE j = m + 2
      BY <1>1, <2>2
    <2>3. QED
      BY <1>1, <1>2, <1>5, <2>1, <2>2
  <1>6. QED
    BY <1>1, <1>2, <1>3, <1>4, <1>5 DEF Encodes

LEMMA PlainEncodes ==
  ASSUME TypeOK, NEW payload \in Seq(Byte), NEW k \in 1 .. Len(payload),
         NEW m \in Nat, m + 1 <= call.cb, Encodes(payload, m, k - 1),
         Block[m + 1] \notin {CR, LF, Eq, bEscape},
         (Block[m + 1] - bOffset) % ByteCount = payload[k]
  PROVE  Encodes(payload, m + 1, k)
  <1>1. /\ m + 1 \in 1 .. call.cb /\ (m + 1) - 1 = m
        /\ \A j \in 1 .. m + 1 : j \in 1 .. m \/ j = m + 1
    BY BlockType
  <1>2. m \notin Escapes /\ m + 1 \notin Escapes
    BY <1>1, EscapesAlternate DEF Encodes
  <1>3. PlainOf(m + 1) = payload[k]
    BY <1>1, <1>2 DEF PlainOf
  <1>4. Content[m + 1] = Append(Content[m], payload[k])
    BY <1>1, <1>2, <1>3, ContentGrows DEF IsBreak
  <1>5. Content[m + 1] = SubSeq(payload, 1, k)
    BY <1>4, OneMore DEF Encodes
  <1>6. QED
    BY <1>1, <1>2, <1>5 DEF Encodes

LEMMA EscapedEncodes ==
  ASSUME TypeOK, bEscape \notin {CR, LF},
         NEW payload \in Seq(Byte), NEW k \in 1 .. Len(payload),
         NEW m \in Nat, m + 2 <= call.cb, Encodes(payload, m, k - 1),
         Block[m + 1] = bEscape, Block[m + 2] \notin {CR, LF, YChar},
         ((Block[m + 2] - bEscOff) - bOffset) % ByteCount = payload[k]
  PROVE  Encodes(payload, m + 2, k)
  <1>1. /\ m + 1 \in 1 .. call.cb /\ m + 2 \in 1 .. call.cb
        /\ (m + 1) - 1 = m /\ (m + 2) - 1 = m + 1 /\ (m + 1) + 1 = m + 2
        /\ \A j \in 1 .. m + 2 : j \in 1 .. m \/ j = m + 1 \/ j = m + 2
    BY BlockType
  <1>2. m \notin Escapes /\ m + 1 \in Escapes /\ m + 2 \notin Escapes
    <2>1. m \notin Escapes
      BY DEF Encodes
    <2>2. m + 1 \in Escapes
      BY <1>1, <2>1, EscapesAlternate
    <2>3. QED
      BY <1>1, <2>1, <2>2, EscapesAlternate
  <1>3. PlainOf(m + 2) = payload[k]
    BY <1>1, <1>2 DEF PlainOf
  <1>4. Content[m + 1] = Content[m]
    BY <1>1, <1>2, ContentGrows
  <1>5. Content[m + 2] = Append(Content[m + 1], payload[k])
    BY <1>1, <1>2, <1>3, ContentGrows DEF IsBreak
  <1>6. Content[m + 2] = SubSeq(payload, 1, k)
    BY <1>4, <1>5, OneMore DEF Encodes
  <1>7. ASSUME NEW j \in 1 .. m + 2, Block[j] = LF PROVE j > 1 /\ Block[j - 1] = CR
    BY <1>1, <1>7 DEF Encodes
  <1>8. ASSUME NEW j \in 1 .. m + 2, Block[j] = Eq
        PROVE  j \in Escapes \/ j - 1 \in Escapes
    BY <1>1, <1>2, <1>8 DEF Encodes
  <1>9. ASSUME NEW j \in 1 .. m + 2, j \in Escapes
        PROVE  Block[j + 1] \notin {CR, LF, YChar}
    BY <1>1, <1>2, <1>9 DEF Encodes
  <1>10. QED
    BY <1>2, <1>6, <1>7, <1>8, <1>9 DEF Encodes

(* One sequence is the beginning of another. *)
StartsWith(t, s) ==
  /\ Len(s) <= Len(t)
  /\ \A j \in 1 .. Len(s) : t[j] = s[j]

LEMMA StartsWithParts ==
  ASSUME NEW s \in Seq(Byte), NEW b \in Seq(Byte), NEW t \in Seq(Byte),
         StartsWith(t, s \o b)
  PROVE  /\ StartsWith(t, s)
         /\ Len(s) + Len(b) <= Len(t)
         /\ \A j \in 1 .. Len(b) : t[Len(s) + j] = b[j]
  <1>1. /\ Len(s \o b) = Len(s) + Len(b)
        /\ \A j \in 1 .. Len(s) : (s \o b)[j] = s[j]
        /\ \A j \in 1 .. Len(b) : (s \o b)[Len(s) + j] = b[j]
    OBVIOUS
  <1>2. /\ Len(s) \in Nat /\ Len(b) \in Nat
        /\ \A j \in 1 .. Len(b) : Len(s) + j \in 1 .. Len(s) + Len(b)
        /\ \A j \in 1 .. Len(s) : j \in 1 .. Len(s) + Len(b)
    OBVIOUS
  <1> DEFINE u == s \o b
  <1>3. Len(u) <= Len(t) /\ \A j \in 1 .. Len(u) : t[j] = u[j]
    BY DEF StartsWith
  <1> HIDE DEF u
  <1>4. /\ Len(u) = Len(s) + Len(b)
        /\ \A j \in 1 .. Len(s) : u[j] = s[j]
        /\ \A j \in 1 .. Len(b) : u[Len(s) + j] = b[j]
    BY <1>1 DEF u
  <1>5. Len(s) + Len(b) <= Len(t) /\ Len(t) \in Nat
    BY <1>3, <1>4
  <1>6. Len(s) <= Len(t)
    BY <1>2, <1>5
  <1>7. \A j \in 1 .. Len(s) : t[j] = s[j]
    BY <1>2, <1>3, <1>4
  <1>8. \A j \in 1 .. Len(b) : t[Len(s) + j] = b[j]
    BY <1>2, <1>3, <1>4
  <1>9. QED
    BY <1>5, <1>6, <1>7, <1>8 DEF StartsWith

(* The text of a payload begins with the text of what comes first in it, and
   so does every longer text. *)
LEMMA TextBegins ==
  ASSUME NEW payload \in Seq(Byte), NEW lineLength \in Nat \ {0}, NEW e \in Encoders,
         NEW t \in Seq(Byte),
         StartsWith(t, EncodedText(payload, lineLength, e)[Len(payload)])
  PROVE  \A k \in 0 .. Len(payload) :
           StartsWith(t, EncodedText(payload, lineLength, e)[k])
  <1> DEFINE n == Len(payload)
             text == EncodedText(payload, lineLength, e)
             Part(k) == BreakBefore(k, lineLength) \o EncodeByte(payload[k], e)
             S == {d \in 0 .. n : StartsWith(t, text[n - d])}
  <1>1. /\ n \in Nat
        /\ \A k \in 0 .. n : text[k] \in Seq(Byte)
        /\ \A k \in 1 .. n : text[k] = text[k - 1] \o Part(k)
    <2>1. n \in Nat /\ \A k \in 0 .. n : text[k] \in Seq(Byte)
      BY EncodedTextGrows
    <2>2. \A k \in 1 .. n : text[k] = Grown(payload, lineLength, e, k, text[k - 1])
      BY EncodedTextGrows, Zenon
    <2>3. QED
      BY <2>1, <2>2 DEF Grown
  <1>2. \A k \in 1 .. n : Part(k) \in Seq(Byte)
    <2>1. ASSUME NEW k \in 1 .. n PROVE Part(k) \in Seq(Byte)
      <3>1. EncodeByte(payload[k], e) \in Seq(Byte)
        BY EncodeByteType
      <3>2. BreakBefore(k, lineLength) \in Seq(Byte)
        BY ByteAssumption DEF BreakBefore
      <3>3. QED
        BY <3>1, <3>2
    <2>2. QED
      BY <2>1
  <1>3. StartsWith(t, text[n])
    OBVIOUS
  <1> HIDE DEF text, Part
  <1>4. 0 \in S
    BY <1>1, <1>3
  <1>5. ASSUME NEW d \in 1 .. n, d - 1 \in S PROVE d \in S
    <2>1. n - d \in 0 .. n /\ n - (d - 1) \in 1 .. n /\ (n - (d - 1)) - 1 = n - d
      BY <1>1
    <2>2. text[n - (d - 1)] = text[n - d] \o Part(n - (d - 1))
      BY <1>1, <2>1
    <2>3. StartsWith(t, text[n - d] \o Part(n - (d - 1)))
      BY <1>5, <2>2
    <2>4. text[n - d] \in Seq(Byte) /\ Part(n - (d - 1)) \in Seq(Byte)
      BY <1>1, <1>2, <2>1
    <2>5. StartsWith(t, text[n - d])
      BY <2>3, <2>4, StartsWithParts
    <2>6. QED
      BY <2>5
  <1>6. 0 .. n \subseteq S
    <2> HIDE DEF S, n
    <2>1. QED
      BY <1>1, <1>4, <1>5, Upwards
  <1>7. ASSUME NEW k \in 0 .. n PROVE StartsWith(t, text[k])
    <2>1. n - k \in 0 .. n /\ n - (n - k) = k
      BY <1>1
    <2>2. n - k \in S
      BY <1>6, <2>1
    <2>3. QED
      BY <2>1, <2>2
  <1>8. QED
    BY <1>7 DEF text

(* The encoder of the header that the call has. *)
SameEncoder(e) ==
  bOffset = OffsetOf(e) /\ bEscape = EscapeOf(e) /\ bEscOff = EscOffOf(e)

(* The code of one byte of the payload stands for that byte. *)
LEMMA ByteEncodes ==
  ASSUME TypeOK, NEW payload \in Seq(Byte), NEW k \in 1 .. Len(payload),
         NEW e \in Encoders, SameEncoder(e),
         NEW m \in Nat, m + Len(EncodeByte(payload[k], e)) <= call.cb,
         \A j \in 1 .. Len(EncodeByte(payload[k], e)) :
           Block[m + j] = EncodeByte(payload[k], e)[j],
         Encodes(payload, m, k - 1)
  PROVE  Encodes(payload, m + Len(EncodeByte(payload[k], e)), k)
  <1> DEFINE d == payload[k]
             b == Shifted(d, OffsetOf(e))
             c == Shifted(b, EscOffOf(e))
  <1>1. /\ d \in Byte /\ OffsetOf(e) \in Byte /\ EscOffOf(e) \in Byte
        /\ EscapeOf(e) # CR /\ EscapeOf(e) # LF
        /\ {CR, LF, Eq, EscapeOf(e)} \subseteq Critical(e)
        /\ b \in Critical(e) => c \notin {CR, LF, YChar}
    BY EncoderType
  <1>2. /\ (b - OffsetOf(e)) % ByteCount = d
        /\ ((c - EscOffOf(e)) - OffsetOf(e)) % ByteCount = d
    BY <1>1, ShiftedBack
  <1>3. EncodeByte(d, e) = IF b \in Critical(e) THEN <<EscapeOf(e), c>> ELSE <<b>>
    BY DEF EncodeByte
  <1> HIDE DEF b, c, d
  <1>4. CASE b \in Critical(e)
    <2>1. EncodeByte(d, e) = <<EscapeOf(e), c>>
      BY <1>3, <1>4
    <2>2. /\ Len(EncodeByte(d, e)) = 2
          /\ EncodeByte(d, e)[1] = EscapeOf(e) /\ EncodeByte(d, e)[2] = c
      BY <2>1
    <2>3. /\ m + 2 <= call.cb
          /\ Block[m + 1] = EscapeOf(e) /\ Block[m + 2] = c
      BY <2>2 DEF d
    <2>4. /\ bEscape \notin {CR, LF} /\ Block[m + 1] = bEscape
          /\ Block[m + 2] \notin {CR, LF, YChar}
          /\ ((Block[m + 2] - bEscOff) - bOffset) % ByteCount = payload[k]
      BY <1>1, <1>2, <1>4, <2>3 DEF SameEncoder, d
    <2>5. Encodes(payload, m + 2, k)
      BY <2>3, <2>4, EscapedEncodes
    <2>6. QED
      BY <2>2, <2>5 DEF d
  <1>5. CASE b \notin Critical(e)
    <2>1. EncodeByte(d, e) = <<b>>
      BY <1>3, <1>5
    <2>2. Len(EncodeByte(d, e)) = 1 /\ EncodeByte(d, e)[1] = b
      BY <2>1
    <2>3. m + 1 <= call.cb /\ Block[m + 1] = b
      BY <2>2 DEF d
    <2>4. /\ Block[m + 1] \notin {CR, LF, Eq, bEscape}
          /\ (Block[m + 1] - bOffset) % ByteCount = payload[k]
      BY <1>1, <1>2, <1>5, <2>3 DEF SameEncoder, d
    <2>5. Encodes(payload, m + 1, k)
      BY <2>3, <2>4, PlainEncodes
    <2>6. QED
      BY <2>2, <2>5 DEF d
  <1>6. QED
    BY <1>4, <1>5

(* So does the text of the whole payload. *)
LEMMA TextEncodes ==
  ASSUME TypeOK, NEW payload \in Seq(Byte), NEW lineLength \in Nat \ {0},
         NEW e \in Encoders, SameEncoder(e),
         StartsWith(Block, EncodedText(payload, lineLength, e)[Len(payload)])
  PROVE  Encodes(payload, Len(EncodedText(payload, lineLength, e)[Len(payload)]),
                 Len(payload))
  <1> DEFINE n == Len(payload)
             text == EncodedText(payload, lineLength, e)
             Break(k) == BreakBefore(k, lineLength)
             Code(k) == EncodeByte(payload[k], e)
             S == {k \in 0 .. n : Encodes(payload, Len(text[k]), k)}
  <1>1. /\ n \in Nat /\ text[0] = <<>>
        /\ \A k \in 0 .. n : text[k] \in Seq(Byte)
        /\ \A k \in 1 .. n : text[k] = text[k - 1] \o (Break(k) \o Code(k))
    <2>1. n \in Nat /\ text[0] = <<>> /\ \A k \in 0 .. n : text[k] \in Seq(Byte)
      BY EncodedTextGrows
    <2>2. \A k \in 1 .. n : text[k] = Grown(payload, lineLength, e, k, text[k - 1])
      BY EncodedTextGrows, Zenon
    <2>3. QED
      BY <2>1, <2>2 DEF Grown
  <1>2. \A k \in 0 .. n : StartsWith(Block, text[k])
    BY BlockType, TextBegins
  <1>3. \A k \in 1 .. n : Code(k) \in Seq(Byte) /\ Break(k) \in Seq(Byte)
    BY EncodeByteType, ByteAssumption DEF BreakBefore
  <1>4. \A k \in 1 .. n : Break(k) = <<>> \/ Break(k) = <<CR, LF>>
    BY DEF BreakBefore
  <1>5. Block \in Seq(Byte) /\ Len(Block) = call.cb /\ call.cb \in Nat
    BY BlockType
  <1>6. bEscape \notin {CR, LF}
    BY EncoderType DEF SameEncoder
  <1>7. \A k \in 1 .. n, m \in Nat :
          /\ m + Len(Code(k)) <= call.cb
          /\ \A j \in 1 .. Len(Code(k)) : Block[m + j] = Code(k)[j]
          /\ Encodes(payload, m, k - 1)
          => Encodes(payload, m + Len(Code(k)), k)
    BY ByteEncodes
  <1> HIDE DEF text, Break, Code
  <1>8. 0 \in S
    <2>1. Len(text[0]) = 0 /\ 0 \notin Escapes /\ Content[0] = <<>>
      BY <1>1, EscapesAlternate, ContentGrows
    <2>2. SubSeq(payload, 1, 0) = <<>>
      OBVIOUS
    <2>3. Encodes(payload, 0, 0)
      BY <2>1, <2>2 DEF Encodes
    <2>4. QED
      BY <1>1, <2>1, <2>3
  <1>9. ASSUME NEW k \in 1 .. n, k - 1 \in S PROVE k \in S
    <2> DEFINE m == Len(text[k - 1])
               b == Len(Break(k))
               c == Len(Code(k))
    <2>1. /\ k - 1 \in 0 .. n /\ k \in 0 .. n /\ text[k - 1] \in Seq(Byte)
          /\ m \in Nat /\ b \in Nat /\ c \in Nat
          /\ Break(k) \o Code(k) \in Seq(Byte)
          /\ Len(Break(k) \o Code(k)) = b + c
          /\ \A j \in 1 .. b : (Break(k) \o Code(k))[j] = Break(k)[j]
          /\ \A j \in 1 .. c : (Break(k) \o Code(k))[b + j] = Code(k)[j]
      BY <1>1, <1>3
    <2>2. Encodes(payload, m, k - 1)
      BY <1>9
    <2>3. /\ m + (b + c) <= call.cb
          /\ \A j \in 1 .. b + c : Block[m + j] = (Break(k) \o Code(k))[j]
      <3>1. StartsWith(Block, text[k - 1] \o (Break(k) \o Code(k)))
        BY <1>1, <1>2, <2>1
      <3>2. /\ Len(text[k - 1]) + Len(Break(k) \o Code(k)) <= Len(Block)
            /\ \A j \in 1 .. Len(Break(k) \o Code(k)) :
                 Block[Len(text[k - 1]) + j] = (Break(k) \o Code(k))[j]
        BY <1>5, <2>1, <3>1, StartsWithParts
      <3>3. QED
        BY <1>5, <2>1, <3>2
    <2>4. Len(text[k]) = m + (b + c)
      <3>1. text[k] = text[k - 1] \o (Break(k) \o Code(k))
        BY <1>1, <2>1
      <3>2. Len(text[k]) = Len(text[k - 1]) + Len(Break(k) \o Code(k))
        BY <2>1, <3>1
      <3>3. QED
        BY <2>1, <3>2
    <2> HIDE DEF m, b, c
    <2>5. m + b <= call.cb /\ (m + b) + c <= call.cb
      <3>1. /\ m \in Nat /\ b \in Nat /\ c \in Nat /\ call.cb \in Nat
            /\ m + (b + c) <= call.cb
        BY <1>5, <2>1, <2>3
      <3>2. QED
        BY <3>1
    <2>6. /\ \A j \in 1 .. b : Block[m + j] = Break(k)[j]
          /\ \A j \in 1 .. c : Block[(m + b) + j] = Code(k)[j]
      <3>1. ASSUME NEW j \in 1 .. b PROVE Block[m + j] = Break(k)[j]
        <4>1. j \in 1 .. b + c
          BY <2>1
        <4>2. QED
          BY <2>1, <2>3, <4>1
      <3>2. ASSUME NEW j \in 1 .. c PROVE Block[(m + b) + j] = Code(k)[j]
        <4>1. b + j \in 1 .. b + c /\ (m + b) + j = m + (b + j)
          BY <2>1
        <4>2. QED
          BY <2>1, <2>3, <4>1
      <3>3. QED
        BY <3>1, <3>2
    <2>7. Encodes(payload, m + b, k - 1)
      <3>1. CASE Break(k) = <<>>
        <4>1. b = 0
          BY <3>1 DEF b
        <4>2. QED
          BY <2>1, <2>2, <4>1
      <3>2. CASE Break(k) = <<CR, LF>>
        <4>1. b = 2 /\ Break(k)[1] = CR /\ Break(k)[2] = LF
          BY <3>2 DEF b
        <4>2. /\ Block[m + 1] = CR /\ Block[m + 2] = LF
              /\ m + 2 <= call.cb
          <5>1. 1 \in 1 .. b /\ 2 \in 1 .. b
            BY <4>1
          <5>2. Block[m + 1] = CR /\ Block[m + 2] = LF
            BY <2>6, <4>1, <5>1
          <5>3. m + 2 <= call.cb
            BY <2>5, <4>1
          <5>4. QED
            BY <5>2, <5>3
        <4>3. Encodes(payload, m + 2, k - 1)
          BY <1>6, <2>1, <2>2, <4>2, BreakEncodes
        <4>4. QED
          BY <4>1, <4>3
      <3>3. QED
        BY <1>4, <3>1, <3>2
    <2>8. Encodes(payload, (m + b) + c, k)
      <3>1. m + b \in Nat /\ (m + b) + c <= call.cb
        BY <2>1, <2>5
      <3>2. QED
        BY <1>7, <2>6, <2>7, <3>1 DEF c
    <2>9. Len(text[k]) = (m + b) + c
      BY <2>1, <2>4
    <2>10. QED
      BY <2>1, <2>8, <2>9
  <1>10. n \in S
    <2> HIDE DEF S
    <2>1. 0 .. n \subseteq S
      BY <1>1, <1>8, <1>9, Upwards
    <2>2. QED
      BY <1>1, <2>1
  <1>11. QED
    BY <1>10 DEF text

(* Where the parts of a sequence are in it. *)
LEMMA Joined ==
  ASSUME NEW s \in Seq(Byte), NEW t \in Seq(Byte)
  PROVE  /\ s \o t \in Seq(Byte)
         /\ Len(s \o t) = Len(s) + Len(t)
         /\ \A j \in 1 .. Len(s) : (s \o t)[j] = s[j]
         /\ \A j \in 1 .. Len(t) : (s \o t)[Len(s) + j] = t[j]
  OBVIOUS

LEMMA Piece ==
  ASSUME NEW s \in Seq(Byte), NEW a \in 1 .. Len(s), NEW b \in a .. Len(s)
  PROVE  /\ SubSeq(s, a, b) \in Seq(Byte)
         /\ Len(SubSeq(s, a, b)) = b - a + 1
         /\ \A j \in 1 .. b - a + 1 : SubSeq(s, a, b)[j] = s[a - 1 + j]
  OBVIOUS

LEMMA SamePieces ==
  ASSUME NEW s \in Seq(Byte), NEW t \in Seq(Byte), Len(s) = Len(t),
         \A j \in 1 .. Len(s) : s[j] = t[j]
  PROVE  s = t
  OBVIOUS

(* A block and what it is made of. *)
Parts(payload, m) ==
  /\ m \in Nat /\ call.cb = m + 2 + Len(EndLine) + 2
  /\ Encodes(payload, m, Len(payload))
  /\ Block[m + 1] = CR /\ Block[m + 2] = LF
  /\ \A j \in 1 .. Len(EndLine) : Block[m + 2 + j] = EndLine[j]
  /\ Block[m + 2 + Len(EndLine) + 1] = CR
  /\ Block[m + 2 + Len(EndLine) + 2] = LF

LEMMA PartsOfBlock ==
  ASSUME TypeOK, NEW payload \in Seq(Byte), NEW lineLength \in Nat \ {0},
         NEW e \in Encoders, SameEncoder(e),
         Block = EncodedBlock(payload, lineLength, e)
  PROVE  \E m \in Nat : Parts(payload, m)
  <1> DEFINE text == EncodedText(payload, lineLength, e)[Len(payload)]
             break == <<CR, LF>>
             m == Len(text)
             tail == EndLine \o break
  <1>1. text \in Seq(Byte)
    <2>1. Len(payload) \in 0 .. Len(payload)
      OBVIOUS
    <2>2. QED
      BY <2>1, EncodedTextGrows
  <1>2. /\ break \in Seq(Byte) /\ Len(break) = 2 /\ break[1] = CR /\ break[2] = LF
        /\ EndLine \in Seq(Byte)
    BY ByteAssumption, EncoderAssumption
  <1>3. Block = text \o (break \o tail)
    BY DEF EncodedBlock
  <1> HIDE DEF text, break
  <1>4. /\ tail \in Seq(Byte) /\ Len(tail) = Len(EndLine) + 2
        /\ \A j \in 1 .. Len(EndLine) : tail[j] = EndLine[j]
        /\ \A j \in 1 .. 2 : tail[Len(EndLine) + j] = break[j]
    <2>1. /\ tail \in Seq(Byte) /\ Len(tail) = Len(EndLine) + Len(break)
          /\ \A j \in 1 .. Len(EndLine) : tail[j] = EndLine[j]
          /\ \A j \in 1 .. Len(break) : tail[Len(EndLine) + j] = break[j]
      BY <1>2, Joined, Zenon
    <2> HIDE DEF tail
    <2>2. QED
      BY <1>2, <2>1
  <1> HIDE DEF tail
  <1> DEFINE rest == break \o tail
  <1>5. /\ rest \in Seq(Byte) /\ Len(rest) = 2 + Len(tail)
        /\ \A j \in 1 .. 2 : rest[j] = break[j]
        /\ \A j \in 1 .. Len(tail) : rest[2 + j] = tail[j]
    <2>1. /\ rest \in Seq(Byte) /\ Len(rest) = Len(break) + Len(tail)
          /\ \A j \in 1 .. Len(break) : rest[j] = break[j]
          /\ \A j \in 1 .. Len(tail) : rest[Len(break) + j] = tail[j]
      BY <1>2, <1>4, Joined, Zenon
    <2> HIDE DEF rest
    <2>2. QED
      BY <1>2, <2>1
  <1>6. Block = text \o rest
    BY <1>3
  <1> HIDE DEF rest
  <1>7. /\ Len(Block) = m + Len(rest)
        /\ \A j \in 1 .. m : Block[j] = text[j]
        /\ \A j \in 1 .. Len(rest) : Block[m + j] = rest[j]
    <2>1. /\ Len(text \o rest) = Len(text) + Len(rest)
          /\ \A j \in 1 .. Len(text) : (text \o rest)[j] = text[j]
          /\ \A j \in 1 .. Len(rest) : (text \o rest)[Len(text) + j] = rest[j]
      BY <1>1, <1>5, Joined
    <2>2. QED
      BY <1>6, <2>1, Zenon
  <1>8. m \in Nat /\ Len(EndLine) \in Nat
    BY <1>1, <1>2
  <1>9. StartsWith(Block, text)
    BY <1>4, <1>5, <1>7, <1>8 DEF StartsWith
  <1>10. Encodes(payload, m, Len(payload))
    BY <1>9, TextEncodes DEF text
  <1> HIDE DEF m
  <1>11. call.cb = m + 2 + Len(EndLine) + 2
    BY <1>4, <1>5, <1>7, <1>8, BlockType
  <1>12. Block[m + 1] = CR /\ Block[m + 2] = LF
    <2>1. /\ 1 \in 1 .. Len(rest) /\ 2 \in 1 .. Len(rest)
          /\ 1 \in 1 .. 2 /\ 2 \in 1 .. 2
      BY <1>4, <1>5, <1>8
    <2>2. QED
      BY <1>2, <1>5, <1>7, <2>1
  <1>13. \A j \in 1 .. Len(tail) : Block[m + (2 + j)] = tail[j]
    <2>1. \A j \in 1 .. Len(tail) : 2 + j \in 1 .. Len(rest)
      BY <1>4, <1>5, <1>8
    <2>2. QED
      BY <1>5, <1>7, <2>1
  <1>14. ASSUME NEW j \in 1 .. Len(EndLine) PROVE Block[m + 2 + j] = EndLine[j]
    <2>1. j \in 1 .. Len(tail) /\ m + (2 + j) = m + 2 + j
      BY <1>4, <1>8
    <2>2. QED
      BY <1>4, <1>13, <2>1
  <1>15. ASSUME NEW j \in 1 .. 2 PROVE Block[m + 2 + Len(EndLine) + j] = break[j]
    <2>1. /\ Len(EndLine) + j \in 1 .. Len(tail)
          /\ m + (2 + (Len(EndLine) + j)) = m + 2 + Len(EndLine) + j
      BY <1>4, <1>8
    <2>2. Block[m + (2 + (Len(EndLine) + j))] = tail[Len(EndLine) + j]
      BY <1>13, <2>1
    <2>3. QED
      BY <1>4, <2>1, <2>2
  <1>16. Parts(payload, m)
    BY <1>2, <1>8, <1>10, <1>11, <1>12, <1>14, <1>15 DEF Parts
  <1>17. QED
    BY <1>8, <1>16

(* Such a block is one that an encoder may write, and its content is the
   payload. *)
LEMMA PartsDecode ==
  ASSUME TypeOK, bEscape \notin {CR, LF}, NEW payload \in Seq(Byte),
         NEW m \in Nat, Parts(payload, m)
  PROVE  WellFormed /\ NoBareLF /\ Decoded = payload
  <1> DEFINE E == Len(EndLine)
             Y == Len(MK_YEND)
             q == m + 3
  <1>1. /\ E \in Nat /\ Y \in Nat /\ 2 <= Y /\ Y <= E
        /\ MK_YEND \in Seq(Byte) /\ EndLine \in Seq(Byte)
        /\ MK_YEND[1] = Eq /\ MK_YEND[2] = YChar
        /\ \A j \in 1 .. E : EndLine[j] # CR /\ EndLine[j] # LF
        /\ Eq # CR /\ Eq # LF /\ CR # LF
    BY EncoderAssumption, TagAssumption, ByteAssumption
  <1>2. /\ Block \in Seq(Byte) /\ Len(Block) = call.cb /\ call.cb \in Nat
        /\ \A i \in 1 .. call.cb : Block[i] = call.mem[i]
    BY BlockType
  <1>3. /\ call.cb = m + 2 + E + 2
        /\ Block[m + 1] = CR /\ Block[m + 2] = LF
        /\ \A j \in 1 .. E : Block[m + 2 + j] = EndLine[j]
        /\ Block[m + 2 + E + 1] = CR /\ Block[m + 2 + E + 2] = LF
    BY DEF Parts
  <1>4. Encodes(payload, m + 2, Len(payload))
    <2>1. m + 2 <= call.cb /\ Encodes(payload, m, Len(payload))
      BY <1>1, <1>3 DEF Parts
    <2>2. QED
      BY <1>3, <2>1, BreakEncodes
  <1> HIDE DEF E, Y
  <1>5. /\ 0 \notin Escapes /\ Escapes \subseteq 1 .. call.cb
        /\ \A i \in Escapes : Block[i] = bEscape
    BY <1>2, EscapesAlternate
  <1>6. q \in 1 .. call.cb /\ q \in Nat /\ q + Y <= call.cb
    BY <1>1, <1>3
  <1>7. q \in LineStarts
    <2>1. q - 1 = m + 2
      OBVIOUS
    <2>2. QED
      BY <1>2, <1>3, <1>6, <2>1 DEF LineStarts
  <1>8. BlockHas(q, MK_YEND)
    <2>1. /\ SubSeq(Block, q, q + Y - 1) \in Seq(Byte)
          /\ Len(SubSeq(Block, q, q + Y - 1)) = Y
          /\ \A j \in 1 .. Y : SubSeq(Block, q, q + Y - 1)[j] = Block[m + 2 + j]
      <3>1. /\ q \in 1 .. Len(Block) /\ q + Y - 1 \in q .. Len(Block)
            /\ (q + Y - 1) - q + 1 = Y /\ q - 1 = m + 2
        BY <1>1, <1>2, <1>6
      <3> HIDE DEF q
      <3>2. /\ SubSeq(Block, q, q + Y - 1) \in Seq(Byte)
            /\ Len(SubSeq(Block, q, q + Y - 1)) = (q + Y - 1) - q + 1
            /\ \A j \in 1 .. (q + Y - 1) - q + 1 :
                 SubSeq(Block, q, q + Y - 1)[j] = Block[q - 1 + j]
        BY <1>2, <3>1, Piece
      <3>3. QED
        BY <3>1, <3>2
    <2>2. \A j \in 1 .. Y : MK_YEND[j] = EndLine[j]
      <3>1. SubSeq(EndLine, 1, Y) = MK_YEND
        BY EncoderAssumption DEF Y
      <3>2. QED
        BY <1>1, <3>1 DEF E, Y
    <2>3. \A j \in 1 .. Y : Block[m + 2 + j] = MK_YEND[j]
      BY <1>1, <1>3, <2>2
    <2> HIDE DEF q
    <2>4. SubSeq(Block, q, q + Y - 1) = MK_YEND
      <3> DEFINE piece == SubSeq(Block, q, q + Y - 1)
      <3>1. piece \in Seq(Byte) /\ Len(piece) = Len(MK_YEND) /\ Len(piece) = Y
        BY <2>1 DEF Y
      <3>2. \A j \in 1 .. Len(piece) : piece[j] = MK_YEND[j]
        BY <2>1, <2>3
      <3> HIDE DEF piece
      <3>3. piece = MK_YEND
        BY <1>1, <3>1, <3>2, SamePieces
      <3>4. QED
        BY <3>3 DEF piece
    <2>5. QED
      BY <1>2, <1>6, <2>4 DEF BlockHas, Y
  <1>9. ASSUME NEW i \in Trailers, i < q PROVE FALSE
    <2>1. i \in LineStarts /\ BlockHas(i, MK_YEND) /\ i \in 1 .. call.cb
      BY <1>2, <1>9 DEF Trailers, LineStarts
    <2>2. Block[i] = Eq /\ Block[i + 1] = YChar
      <3>1. SubSeq(Block, i, i + Y - 1) = MK_YEND /\ i + Y - 1 <= call.cb
        BY <1>2, <2>1 DEF BlockHas, Y
      <3>2. SubSeq(Block, i, i + Y - 1)[1] = Block[i]
        BY <1>1, <1>2, <2>1, <3>1
      <3>3. SubSeq(Block, i, i + Y - 1)[2] = Block[i + 1]
        BY <1>1, <1>2, <2>1, <3>1
      <3>4. QED
        BY <1>1, <3>1, <3>2, <3>3
    <2>3. i \in 1 .. m + 2
      BY <1>9, <2>1
    <2>4. i \in Escapes \/ i - 1 \in Escapes
      BY <1>4, <2>2, <2>3 DEF Encodes
    <2>5. i \notin Escapes
      BY <1>4, <2>2, <2>3 DEF Encodes
    <2>6. i - 1 \in Escapes /\ i # 1
      BY <1>5, <2>4, <2>5
    <2>7. Block[i - 1] = LF \/ Block[i - 1] = CR
      BY <2>1, <2>6 DEF LineStarts
    <2>8. QED
      BY <1>5, <2>6, <2>7
  <1>10. q \in Trailers
    BY <1>7, <1>8 DEF Trailers
  <1>11. Least(Trailers) = q
    <2>1. Trailers \subseteq 1 .. call.cb /\ Trailers \in SUBSET Nat /\ Trailers # {}
      BY <1>2, <1>10 DEF Trailers, LineStarts
    <2>2. Least(Trailers) \in Trailers /\ Least(Trailers) <= q
      BY <1>10, <2>1, LeastExists
    <2>3. ~(Least(Trailers) < q)
      BY <1>9, <2>2
    <2>4. Least(Trailers) \in Nat
      BY <2>1, <2>2
    <2>5. QED
      BY <1>6, <2>2, <2>3, <2>4
  <1>12. Decoded = payload
    <2>1. q - 1 = m + 2
      OBVIOUS
    <2>2. Content[m + 2] = SubSeq(payload, 1, Len(payload))
      BY <1>4 DEF Encodes
    <2>3. SubSeq(payload, 1, Len(payload)) = payload
      OBVIOUS
    <2>4. QED
      BY <1>11, <2>1, <2>2, <2>3 DEF Decoded
  <1>13. SubSeq(Block, q, call.cb) = EndLine \o <<CR, LF>>
    <2> DEFINE rest == EndLine \o <<CR, LF>>
    <2>1. /\ rest \in Seq(Byte) /\ Len(rest) = E + 2
          /\ \A j \in 1 .. E : rest[j] = EndLine[j]
          /\ rest[E + 1] = CR /\ rest[E + 2] = LF
      BY <1>1, ByteAssumption DEF E
    <2>2. /\ SubSeq(Block, q, call.cb) \in Seq(Byte)
          /\ Len(SubSeq(Block, q, call.cb)) = E + 2
          /\ \A j \in 1 .. E + 2 : SubSeq(Block, q, call.cb)[j] = Block[m + 2 + j]
      <3>1. /\ q \in 1 .. Len(Block) /\ call.cb \in q .. Len(Block)
            /\ call.cb - q + 1 = E + 2 /\ q - 1 = m + 2
        BY <1>1, <1>2, <1>3, <1>6
      <3> HIDE DEF q
      <3>2. /\ SubSeq(Block, q, call.cb) \in Seq(Byte)
            /\ Len(SubSeq(Block, q, call.cb)) = call.cb - q + 1
            /\ \A j \in 1 .. call.cb - q + 1 :
                 SubSeq(Block, q, call.cb)[j] = Block[q - 1 + j]
        BY <1>2, <3>1, Piece
      <3>3. QED
        BY <3>1, <3>2
    <2> HIDE DEF rest, q
    <2>3. ASSUME NEW j \in 1 .. E + 2 PROVE Block[m + 2 + j] = rest[j]
      <3>1. /\ m + 2 + (E + 1) = m + 2 + E + 1
            /\ m + 2 + (E + 2) = m + 2 + E + 2
            /\ j \in 1 .. E \/ j = E + 1 \/ j = E + 2
        BY <1>1
      <3>2. QED
        BY <1>3, <2>1, <3>1
    <2>4. SubSeq(Block, q, call.cb) = rest
      <3> DEFINE piece == SubSeq(Block, q, call.cb)
      <3>1. piece \in Seq(Byte) /\ Len(piece) = Len(rest) /\ Len(piece) = E + 2
        BY <2>1, <2>2
      <3>2. \A j \in 1 .. Len(piece) : piece[j] = rest[j]
        BY <2>2, <2>3, <3>1
      <3> HIDE DEF piece
      <3>3. piece = rest
        BY <2>1, <3>1, <3>2, SamePieces
      <3>4. QED
        BY <3>3 DEF piece
    <2>5. QED
      BY <2>4 DEF rest
  <1>14. WellFormed
    <2>1. \A i \in LineStarts : i < q => i + Y <= call.cb + 1
      BY <1>1, <1>2, <1>6 DEF LineStarts
    <2>2. \A i \in Escapes : i < q => Block[i + 1] \notin {CR, LF, YChar}
      <3>1. ASSUME NEW i \in Escapes, i < q PROVE Block[i + 1] \notin {CR, LF, YChar}
        <4>1. i \in 1 .. m + 2
          BY <1>5, <3>1
        <4>2. QED
          BY <1>4, <4>1 DEF Encodes
      <3>2. QED
        BY <3>1
    <2>3. FindAttributeTag(SubSeq(Block, q, call.cb), MK_SIZE) # NotFound
      BY <1>13, EncoderAssumption
    <2> HIDE DEF q
    <2>4. QED
      BY <1>2, <1>10, <1>11, <2>1, <2>2, <2>3 DEF WellFormed, IsBreak, Y
  <1>15. NoBareLF
    <2>1. ASSUME NEW i \in 1 .. call.cb, Block[i] = LF
          PROVE  i > 1 /\ Block[i - 1] = CR
      <3>1. CASE i \in 1 .. m + 2
        BY <1>4, <2>1, <3>1 DEF Encodes
      <3>2. CASE i \in m + 3 .. m + 2 + E
        <4>1. i - (m + 2) \in 1 .. E /\ m + 2 + (i - (m + 2)) = i
          BY <1>1, <3>2
        <4>2. QED
          BY <1>1, <1>3, <2>1, <4>1
      <3>3. CASE i = m + 2 + E + 1
        BY <1>1, <1>3, <2>1, <3>3
      <3>4. CASE i = m + 2 + E + 2
        <4>1. i > 1 /\ i - 1 = m + 2 + E + 1
          BY <1>1, <3>4
        <4>2. QED
          BY <1>3, <4>1
      <3>5. i \in 1 .. m + 2 \/ i \in m + 3 .. m + 2 + E \/ i = m + 2 + E + 1
              \/ i = m + 2 + E + 2
        BY <1>1, <1>3
      <3>6. QED
        BY <3>1, <3>2, <3>3, <3>4, <3>5
    <2>2. ASSUME NEW i \in 1 .. call.cb, call.mem[i] = LF
          PROVE  i > 1 /\ call.mem[i - 1] = CR
      <3>1. i > 1 /\ Block[i - 1] = CR
        BY <1>2, <2>1, <2>2
      <3>2. i - 1 \in 1 .. call.cb
        BY <1>2, <3>1
      <3>3. QED
        BY <1>2, <3>1, <3>2
    <2>3. QED
      BY <2>2 DEF NoBareLF
  <1>16. QED
    BY <1>12, <1>14, <1>15

(* A call on the block of an encoder decodes what the encoder was given. *)
LEMMA EncodingDecodes ==
  ASSUME TypeOK, NEW x \in Encodings, x.call = call
  PROVE  /\ WellFormed /\ NoBareLF /\ Decoded = x.payload
         /\ x.payload \in Seq(Byte) /\ Len(x.payload) <= call.room
  <1>1. PICK p \in Payloads, n \in LineLengths, e \in Encoders, s \in Spare :
          x = Encoding(p, n, e, s)
    BY DEF Encodings
  <1> DEFINE block == EncodedBlock(p, n, e)
  <1>2. p \in Seq(Byte) /\ n \in Nat \ {0} /\ s \in Nat /\ Behind \in Seq(Byte)
    BY EncoderAssumption
  <1>3. /\ x.payload = p /\ call.mem = block \o Behind /\ call.cb = Len(block)
        /\ call.room = Len(p) + s /\ call.offset = e.offset
        /\ call.escape = e.escape /\ call.escoff = e.escoff
    BY <1>1 DEF Encoding
  <1>4. SameEncoder(e)
    BY <1>3 DEF SameEncoder, bOffset, bEscape, bEscOff, OffsetOf, EscapeOf, EscOffOf
  <1>5. block \in Seq(Byte)
    <2>1. Len(p) \in 0 .. Len(p)
      BY <1>2
    <2>2. EncodedText(p, n, e)[Len(p)] \in Seq(Byte)
      BY <1>2, <2>1, EncodedTextGrows
    <2>3. <<CR, LF>> \in Seq(Byte) /\ EndLine \in Seq(Byte)
      BY ByteAssumption, EncoderAssumption
    <2>4. <<CR, LF>> \o (EndLine \o <<CR, LF>>) \in Seq(Byte)
      BY <2>3
    <2>5. QED
      BY <2>2, <2>4 DEF EncodedBlock
  <1> HIDE DEF block
  <1>6. Block = block
    <2>1. SubSeq(block \o Behind, 1, Len(block)) = block
      BY <1>2, <1>5
    <2>2. QED
      BY <1>3, <2>1 DEF Block
  <1>7. PICK m \in Nat : Parts(p, m)
    BY <1>2, <1>4, <1>6, PartsOfBlock DEF block
  <1>8. bEscape \notin {CR, LF}
    BY <1>4, EncoderType DEF SameEncoder
  <1>9. WellFormed /\ NoBareLF /\ Decoded = p
    BY <1>2, <1>7, <1>8, PartsDecode
  <1>10. Len(p) <= call.room
    BY <1>2, <1>3
  <1>11. QED
    BY <1>2, <1>3, <1>9, <1>10

(* RoundTrip for every payload, line length and encoder that follows the rules
   of EncoderAssumption: yDecode.h:1943-2024 undoes the encoding, whatever the
   offset and the escape, also when the output has exactly the room that the
   payload needs. *)
THEOREM EncoderIsUndone == Spec => []RoundTrip
  <1>1. TypeOK /\ DecodesTheBlock => RoundTrip
    <2> SUFFICES ASSUME TypeOK, DecodesTheBlock, pc = "done",
                        NEW x \in Encodings, x.call = call
                 PROVE  out = x.payload /\ status = "ok"
      BY DEF RoundTrip
    <2>1. /\ WellFormed /\ NoBareLF /\ Decoded = x.payload
          /\ x.payload \in Seq(Byte) /\ Len(x.payload) <= call.room
          /\ call.room \in Nat
      BY EncodingDecodes, CallType
    <2>2. DecodedRight
      BY <2>1 DEF DecodesTheBlock
    <2>3. Min({Len(x.payload), call.room}) = Len(x.payload)
      <3> DEFINE S == {Len(x.payload), call.room}
      <3>1. Len(x.payload) \in S /\ \A k \in S : Len(x.payload) <= k
        BY <2>1
      <3>2. ASSUME NEW k \in S, \A l \in S : k <= l PROVE k = Len(x.payload)
        BY <2>1, <3>2
      <3>3. QED
        BY <3>1, <3>2, Zenon DEF Min
    <2>4. SubSeq(x.payload, 1, Len(x.payload)) = x.payload
      BY <2>1
    <2>5. QED
      BY <2>1, <2>2, <2>3, <2>4 DEF DecodedRight
  <1>2. QED
    BY <1>1, TypeCorrect, BlockIsDecoded, PTL
-----------------------------------------------------------------------------
(* The bytes that are counted as matched are the beginning of the tag. *)
LEMMA MatchedStands ==
  ASSUME NEW S, NEW buf \in Seq(S), NEW tag \in Seq(S), tag # <<>>
  PROVE  \A i \in 0 .. Len(buf) :
           /\ Matched(buf, tag)[i] <= i
           /\ \A k \in 1 .. Matched(buf, tag)[i] :
                buf[i - Matched(buf, tag)[i] + k] = tag[k]
  <1> DEFINE n == Len(buf)
             size == Len(tag)
             M == Matched(buf, tag)
             Stands(i, j) == j <= i /\ \A k \in 1 .. j : buf[i - j + k] = tag[k]
             Z == {i \in 0 .. n : Stands(i, M[i])}
  <1>1. n \in Nat /\ size \in Nat /\ size > 0
    OBVIOUS
  <1>2. /\ \A i \in 0 .. n : M[i] \in 0 .. size - 1
        /\ M[0] = 0
        /\ \A i \in 1 .. n :
             M[i] = IF buf[i] = tag[M[i - 1] + 1] THEN (M[i - 1] + 1) % size ELSE 0
    <2>1. M \in [0 .. n -> 0 .. size - 1] /\ M[0] = 0
      BY Matching
    <2>2. \A i \in 1 .. n :
            M[i] = IF buf[i] = tag[M[i - 1] + 1] THEN (M[i - 1] + 1) % size ELSE 0
      BY Matching
    <2> HIDE DEF M, n, size
    <2>3. QED
      BY <2>1, <2>2
  <1> HIDE DEF M, n, size
  <1>3. 0 \in Z
    BY <1>1, <1>2
  <1>4. ASSUME NEW i \in 1 .. n, i - 1 \in Z PROVE i \in Z
    <2> DEFINE j == M[i - 1]
    <2>1. /\ i - 1 \in 0 .. n /\ i \in 0 .. n /\ j \in 0 .. size - 1
          /\ j <= i - 1
          /\ \A k \in 1 .. j : buf[(i - 1) - j + k] = tag[k]
      <3>1. i - 1 \in 0 .. n /\ i \in 0 .. n /\ Stands(i - 1, j)
        BY <1>1, <1>4
      <3>2. j \in 0 .. size - 1
        BY <1>2, <3>1
      <3>3. QED
        BY <3>1, <3>2
    <2>2. M[i] = IF buf[i] = tag[j + 1] THEN (j + 1) % size ELSE 0
      BY <1>2
    <2> HIDE DEF j
    <2>3. CASE M[i] = 0
      <3>1. Stands(i, 0)
        BY <1>1, <2>1
      <3>2. QED
        BY <2>1, <2>3, <3>1
    <2>4. CASE M[i] # 0
      <3>1. buf[i] = tag[j + 1] /\ M[i] = (j + 1) % size
        BY <2>2, <2>4
      <3>2. M[i] = j + 1
        <4>1. CASE j + 1 = size
          <5>1. size % size = 0
            BY <1>1, SMTT(30)
          <5>2. QED
            BY <2>4, <3>1, <4>1, <5>1
        <4>2. CASE j + 1 # size
          <5>1. j + 1 \in 0 .. size - 1
            BY <1>1, <2>1, <4>2
          <5>2. QED
            BY <1>1, <3>1, <5>1, ModSmall
        <4>3. QED
          BY <4>1, <4>2
      <3>3. Stands(i, j + 1)
        <4>1. ASSUME NEW k \in 1 .. j + 1 PROVE buf[i - (j + 1) + k] = tag[k]
          <5>1. CASE k = j + 1
            <6>1. i - (j + 1) + (j + 1) = i
              BY <1>1, <2>1
            <6>2. QED
              BY <3>1, <5>1, <6>1
          <5>2. CASE k # j + 1
            <6>1. k \in 1 .. j /\ i - (j + 1) + k = (i - 1) - j + k
              BY <1>1, <2>1, <5>2
            <6>2. QED
              BY <2>1, <6>1
          <5>3. QED
            BY <5>1, <5>2
        <4>2. j + 1 <= i
          BY <1>1, <2>1
        <4>3. QED
          BY <4>1, <4>2
      <3>4. QED
        BY <2>1, <3>2, <3>3
    <2>5. QED
      BY <2>3, <2>4
  <1>5. 0 .. n \subseteq Z
    <2> HIDE DEF Z
    <2>1. QED
      BY <1>1, <1>3, <1>4, Upwards
  <1>6. \A i \in 0 .. n : Stands(i, M[i])
    BY <1>5
  <1>7. QED
    BY <1>6 DEF M, n

(* Where a tag stands, byte by byte. *)
LEMMA OccursBytewise ==
  ASSUME NEW S, NEW buf \in Seq(S), NEW tag \in Seq(S), tag # <<>>,
         NEW p \in 1 .. Len(buf) - Len(tag) + 1
  PROVE  p \in Occurrences(buf, tag)
           <=> \A k \in 1 .. Len(tag) : buf[p - 1 + k] = tag[k]
  <1> DEFINE size == Len(tag)
             piece == SubSeq(buf, p, p + size - 1)
  <1>1. size \in Nat /\ size > 0 /\ p \in 1 .. Len(buf) /\ p + size - 1 \in p .. Len(buf)
    OBVIOUS
  <1>2. /\ piece \in Seq(S) /\ Len(piece) = size
        /\ \A k \in 1 .. size : piece[k] = buf[p - 1 + k]
    <2> HIDE DEF size
    <2>1. /\ SubSeq(buf, p, p + size - 1) \in Seq(S)
          /\ Len(SubSeq(buf, p, p + size - 1)) = (p + size - 1) - p + 1
          /\ \A k \in 1 .. (p + size - 1) - p + 1 :
               SubSeq(buf, p, p + size - 1)[k] = buf[p + k - 1]
      BY <1>1
    <2>2. /\ (p + size - 1) - p + 1 = size
          /\ \A k \in 1 .. size : p + k - 1 = p - 1 + k
      BY <1>1
    <2>3. QED
      BY <2>1, <2>2
  <1>3. piece = tag <=> \A k \in 1 .. size : piece[k] = tag[k]
    <2>1. Len(tag) = size
      OBVIOUS
    <2> HIDE DEF piece, size
    <2>2. ASSUME \A k \in 1 .. size : piece[k] = tag[k] PROVE piece = tag
      BY <1>2, <2>1, <2>2, SMTT(30)
    <2>3. QED
      BY <2>2
  <1>4. p \in Occurrences(buf, tag) <=> piece = tag
    BY DEF Occurrences
  <1> HIDE DEF piece
  <1>5. QED
    BY <1>2, <1>3, <1>4

(* What a search can find is the tag. *)
LEMMA FoundOccurs ==
  ASSUME NEW S, NEW buf \in Seq(S), NEW tag \in Seq(S), tag # <<>>,
         NEW p \in Found(buf, tag)
  PROVE  p \in Occurrences(buf, tag)
  <1> DEFINE size == Len(tag)
             i == p + size - 2
             j == size - 1
  <1>1. /\ size \in Nat /\ size > 0 /\ Len(buf) \in Nat
        /\ p \in 1 .. Len(buf) - size + 1
        /\ Matched(buf, tag)[i] = j
        /\ buf[p + size - 1] = tag[size]
    BY DEF Found
  <1>2. i \in 0 .. Len(buf) /\ i - j = p - 1
    BY <1>1
  <1> HIDE DEF i
  <1>3. \A k \in 1 .. j : buf[i - j + k] = tag[k]
    <2>1. /\ Matched(buf, tag)[i] <= i
          /\ \A k \in 1 .. Matched(buf, tag)[i] :
               buf[i - Matched(buf, tag)[i] + k] = tag[k]
      BY <1>2, MatchedStands
    <2>2. QED
      BY <1>1, <2>1
  <1> HIDE DEF j
  <1>4. \A k \in 1 .. j : buf[p - 1 + k] = tag[k]
    BY <1>2, <1>3
  <1>5. \A k \in 1 .. size : buf[p - 1 + k] = tag[k]
    <2>1. ASSUME NEW k \in 1 .. size PROVE buf[p - 1 + k] = tag[k]
      <3>1. CASE k = size
        <4>1. p - 1 + k = p + size - 1
          BY <1>1, <3>1
        <4>2. QED
          BY <1>1, <3>1, <4>1
      <3>2. CASE k # size
        <4>1. k \in 1 .. j
          BY <1>1, <3>2 DEF j
        <4>2. QED
          BY <1>4, <4>1
      <3>3. QED
        BY <3>1, <3>2
    <2>2. QED
      BY <2>1
  <1>6. QED
    BY <1>1, <1>5, OccursBytewise

(* A tag that stands where nothing is matched yet is found. *)
LEMMA ClearIsFound ==
  ASSUME NEW S, NEW buf \in Seq(S), NEW tag \in Seq(S), tag # <<>>,
         NEW p \in Occurrences(buf, tag), Matched(buf, tag)[p - 1] = 0
  PROVE  p \in Found(buf, tag)
  <1> DEFINE n == Len(buf)
             size == Len(tag)
             M == Matched(buf, tag)
             Z == {k \in 0 .. size - 1 : M[p - 1 + k] = k}
  <1>1. n \in Nat /\ size \in Nat /\ size > 0 /\ p \in 1 .. n - size + 1
    BY DEF Occurrences
  <1>2. \A k \in 1 .. size : buf[p - 1 + k] = tag[k]
    BY <1>1, OccursBytewise
  <1>3. \A i \in 1 .. n :
          M[i] = IF buf[i] = tag[M[i - 1] + 1] THEN (M[i - 1] + 1) % size ELSE 0
    BY Matching
  <1>4. M[p - 1] = 0
    OBVIOUS
  <1> HIDE DEF M, n, size
  <1>5. 0 \in Z
    <2>1. p - 1 + 0 = p - 1
      BY <1>1
    <2>2. QED
      BY <1>1, <1>4, <2>1
  <1>6. ASSUME NEW k \in 1 .. size - 1, k - 1 \in Z PROVE k \in Z
    <2>1. /\ p - 1 + k \in 1 .. n /\ (p - 1 + k) - 1 = p - 1 + (k - 1)
          /\ M[p - 1 + (k - 1)] = k - 1 /\ (k - 1) + 1 = k
          /\ k \in 1 .. size /\ k \in 0 .. size - 1
      BY <1>1, <1>6
    <2>2. M[(p - 1 + k) - 1] = k - 1
      BY <2>1
    <2>3. M[p - 1 + k] = k % size
      <3>1. M[p - 1 + k] = IF buf[p - 1 + k] = tag[(k - 1) + 1]
                           THEN ((k - 1) + 1) % size
                           ELSE 0
        BY <1>3, <2>1, <2>2
      <3>2. buf[p - 1 + k] = tag[k]
        BY <1>2, <2>1
      <3>3. QED
        BY <2>1, <3>1, <3>2
    <2>4. k % size = k
      BY <1>1, <2>1, ModSmall
    <2>5. QED
      BY <2>1, <2>3, <2>4
  <1>7. 0 .. size - 1 \subseteq Z
    <2>1. size - 1 \in Nat
      BY <1>1
    <2> HIDE DEF Z
    <2>2. QED
      BY <1>5, <1>6, <2>1, Upwards
  <1>8. M[p + size - 2] = size - 1
    <2>1. size - 1 \in 0 .. size - 1 /\ p - 1 + (size - 1) = p + size - 2
      BY <1>1
    <2>2. QED
      BY <1>7, <2>1
  <1>9. buf[p + size - 1] = tag[size]
    <2>1. size \in 1 .. size /\ p - 1 + size = p + size - 1
      BY <1>1
    <2>2. QED
      BY <1>2, <2>1
  <1>10. QED
    BY <1>1, <1>8, <1>9 DEF Found, M, n, size

(* Nothing is matched where no beginning of the tag stands in front. *)
LEMMA ClearStart ==
  ASSUME NEW S, NEW buf \in Seq(S), NEW tag \in Seq(S), tag # <<>>,
         NEW p \in 1 .. Len(buf) + 1, ~BegunBefore(buf, tag, p)
  PROVE  Matched(buf, tag)[p - 1] = 0
  <1> DEFINE j == Matched(buf, tag)[p - 1]
  <1>1. p - 1 \in 0 .. Len(buf) /\ Len(tag) \in Nat /\ Len(buf) \in Nat
    OBVIOUS
  <1>2. /\ j \in 0 .. Len(tag) - 1 /\ j <= p - 1
        /\ \A k \in 1 .. j : buf[(p - 1) - j + k] = tag[k]
    <2>1. Matched(buf, tag) \in [0 .. Len(buf) -> 0 .. Len(tag) - 1]
      BY Matching
    <2>2. j \in 0 .. Len(tag) - 1
      BY <1>1, <2>1
    <2>3. j <= p - 1 /\ \A k \in 1 .. j : buf[(p - 1) - j + k] = tag[k]
      BY <1>1, MatchedStands
    <2>4. QED
      BY <2>2, <2>3
  <1> HIDE DEF j
  <1>3. SUFFICES ASSUME j # 0 PROVE FALSE
    BY DEF j
  <1>4. /\ j \in 1 .. Len(tag) - 1 /\ j < p
        /\ p - j \in 1 .. Len(buf) /\ p - 1 \in p - j .. Len(buf)
        /\ (p - 1) - (p - j) + 1 = j
    BY <1>1, <1>2, <1>3
  <1>5. /\ SubSeq(buf, p - j, p - 1) \in Seq(S)
        /\ Len(SubSeq(buf, p - j, p - 1)) = j
        /\ \A k \in 1 .. j : SubSeq(buf, p - j, p - 1)[k] = buf[(p - j) + k - 1]
    BY <1>4
  <1>6. /\ SubSeq(tag, 1, j) \in Seq(S) /\ Len(SubSeq(tag, 1, j)) = j
        /\ \A k \in 1 .. j : SubSeq(tag, 1, j)[k] = tag[k]
    BY <1>1, <1>4
  <1>7. \A k \in 1 .. j : buf[(p - j) + k - 1] = tag[k]
    <2>1. \A k \in 1 .. j : (p - j) + k - 1 = (p - 1) - j + k
      BY <1>1, <1>4
    <2>2. QED
      BY <1>2, <2>1
  <1>8. SubSeq(buf, p - j, p - 1) = SubSeq(tag, 1, j)
    <2> DEFINE s == SubSeq(buf, p - j, p - 1)
               t == SubSeq(tag, 1, j)
    <2>1. /\ s \in Seq(S) /\ t \in Seq(S) /\ Len(s) = Len(t)
          /\ \A k \in 1 .. Len(s) : s[k] = t[k]
      BY <1>5, <1>6, <1>7
    <2> HIDE DEF s, t
    <2>2. s = t
      BY <2>1
    <2>3. QED
      BY <2>2 DEF s, t
  <1>9. QED
    BY <1>4, <1>8 DEF BegunBefore

(* FindTag is the least of what can be found. *)
LEMMA FindTagIsLeast ==
  ASSUME NEW S, NEW buf \in Seq(S), NEW tag \in Seq(S), tag # <<>>,
         NEW newLine \in BOOLEAN
  PROVE  FindTag(buf, tag, newLine)
           = FirstOf({p \in Found(buf, tag) : newLine => BeginsLine(buf, p)})
  <1> DEFINE found ==
               {p \in 1 .. Len(buf) - Len(tag) + 1 :
                  /\ Matched(buf, tag)[p + Len(tag) - 2] = Len(tag) - 1
                  /\ buf[p + Len(tag) - 1] = tag[Len(tag)]
                  /\ newLine => BeginsLine(buf, p)}
  <1>1. FindTag(buf, tag, newLine) =
          IF Len(buf) < Len(tag) \/ found = {}
          THEN NotFound
          ELSE CHOOSE p \in found : \A q \in found : p <= q
    BY DEF FindTag
  <1>2. found = {p \in Found(buf, tag) : newLine => BeginsLine(buf, p)}
    BY DEF Found
  <1>3. Len(buf) < Len(tag) => found = {}
    <2>1. Len(buf) < Len(tag) => 1 .. Len(buf) - Len(tag) + 1 = {}
      OBVIOUS
    <2>2. QED
      BY <2>1
  <1> HIDE DEF found
  <1>4. QED
    BY <1>1, <1>2, <1>3, Zenon DEF FirstOf

LEMMA FirstIsLeast ==
  ASSUME NEW Z \in SUBSET Nat, Z # {}
  PROVE  FirstOf(Z) \in Z /\ \A q \in Z : FirstOf(Z) <= q
  BY LeastNumber DEF FirstOf

(* A search for an attribute, in any text and for any tag. *)
LEMMA AttributeSearch ==
  ASSUME NEW S, NEW buf \in Seq(S), NEW tag \in Seq(S), tag # <<>>
  PROVE  FindsAttribute(buf, tag)
  <1> DEFINE at == FindAttributeTag(buf, tag)
             found == Found(buf, tag)
  <1>1. at = FirstOf(found)
    <2>1. FindTag(buf, tag, FALSE)
            = FirstOf({p \in Found(buf, tag) : FALSE => BeginsLine(buf, p)})
      BY FindTagIsLeast
    <2>2. {p \in Found(buf, tag) : FALSE => BeginsLine(buf, p)} = found
      OBVIOUS
    <2>3. QED
      BY <2>1, <2>2 DEF FindAttributeTag
  <1>2. found \in SUBSET Nat /\ 0 \notin found
    BY DEF Found
  <1>3. \A p \in found : p \in Occurrences(buf, tag)
    BY FoundOccurs
  <1>4. ASSUME NEW p \in Occurrences(buf, tag), ~BegunBefore(buf, tag, p)
        PROVE  p \in found
    <2>1. p \in 1 .. Len(buf) + 1 /\ Len(tag) > 0
      BY DEF Occurrences
    <2>2. Matched(buf, tag)[p - 1] = 0
      BY <1>4, <2>1, ClearStart
    <2>3. QED
      BY <2>2, ClearIsFound
  <1> HIDE DEF at, found
  <1>5. at # NotFound => at \in found
    BY <1>1, <1>2, FirstIsLeast DEF FirstOf
  <1>6. \A p \in found : at # NotFound /\ at <= p
    BY <1>1, <1>2, FirstIsLeast DEF NotFound
  <1>7. QED
    BY <1>3, <1>4, <1>5, <1>6 DEF FindsAttribute, at

(* A search for a line, in any text and for any tag without line breaks. *)
LEMMA LineSearch ==
  ASSUME NEW S, NEW buf \in Seq(S), NEW tag \in Seq(S), tag # <<>>,
         \A k \in DOMAIN tag : tag[k] \notin {CR, LF}
  PROVE  FindsLine(buf, tag)
  <1> DEFINE right == {p \in Occurrences(buf, tag) : BeginsLine(buf, p)}
             found == {p \in Found(buf, tag) : TRUE => BeginsLine(buf, p)}
  <1>1. FindLineTag(buf, tag) = FirstOf(found)
    BY FindTagIsLeast DEF FindLineTag
  <1>2. found \subseteq right
    BY FoundOccurs
  <1>3. ASSUME NEW p \in right PROVE p \in found
    <2>1. p \in 1 .. Len(buf) + 1 /\ p \in Occurrences(buf, tag)
      BY DEF Occurrences
    <2>2. p = 1 \/ buf[p - 1] = LF
      BY DEF BeginsLine
    <2>3. ~BegunBefore(buf, tag, p)
      <3>1. SUFFICES ASSUME NEW j \in 1 .. Len(tag) - 1, j < p,
                            SubSeq(buf, p - j, p - 1) = SubSeq(tag, 1, j)
                     PROVE  FALSE
        BY DEF BegunBefore
      <3>2. /\ p - j \in 1 .. Len(buf) /\ p - 1 \in p - j .. Len(buf)
            /\ (p - 1) - (p - j) + 1 = j /\ p # 1 /\ (p - j) + j - 1 = p - 1
            /\ j \in 1 .. j /\ j \in DOMAIN tag
        BY <2>1, <3>1
      <3>3. SubSeq(buf, p - j, p - 1)[j] = buf[p - 1]
        BY <3>2
      <3>4. SubSeq(tag, 1, j)[j] = tag[j]
        BY <3>2
      <3>5. QED
        BY <2>2, <3>1, <3>2, <3>3, <3>4
    <2>4. Matched(buf, tag)[p - 1] = 0
      BY <2>1, <2>3, ClearStart
    <2>5. p \in Found(buf, tag)
      BY <2>1, <2>4, ClearIsFound
    <2>6. QED
      BY <2>5
  <1>4. found = right
    BY <1>2, <1>3
  <1> HIDE DEF found, right
  <1>5. QED
    BY <1>1, <1>4 DEF FindsLine, right

(* TagsAreFound for every block, every =yend tag without a line break and every
   attribute: the search of yDecode.h:298-372 finds the line, and every
   attribute in front of which its own beginning does not stand. *)
THEOREM SearchIsRight == Spec => []TagsAreFound
  <1>1. TypeOK => TagsAreFound
    <2> SUFFICES ASSUME TypeOK
                 PROVE  /\ FindsLine(Block, MK_YEND)
                        /\ \A tag \in Tags : FindsAttribute(Block, tag)
      BY DEF TagsAreFound
    <2>1. Block \in Seq(Byte)
      BY BlockType
    <2>2. MK_YEND \in Seq(Byte) /\ MK_YEND # <<>>
      BY TagAssumption
    <2>3. FindsLine(Block, MK_YEND)
      BY <2>1, <2>2, LineSearch, TagAssumption
    <2>4. ASSUME NEW tag \in Tags PROVE tag \in Seq(Byte) /\ tag # <<>>
      BY <2>2, TagAssumption DEF Tags
    <2>5. \A tag \in Tags : FindsAttribute(Block, tag)
      BY <2>1, <2>4, AttributeSearch
    <2>6. QED
      BY <2>3, <2>5
  <1>2. QED
    BY <1>1, TypeCorrect, PTL
-----------------------------------------------------------------------------
(* What a call has ahead of it: two steps for each byte of memory, at most, and
   the way to its end. *)
Rank == IF pc = "line" THEN 3
        ELSE IF pc = "data" THEN 2
        ELSE IF pc = "trailer" THEN 1 ELSE 0

Ahead == 2 * (Len(call.mem) + 1 - pos) + Rank

(* No step takes a byte that is not mapped; one more may be taken along. *)
NotFarBehind == pos <= Len(call.mem) + 1

LEMMA StepGoesAhead ==
  ASSUME TypeOK, NotFarBehind, Next
  PROVE  NotFarBehind' /\ Ahead' < Ahead
  <1> DEFINE n == Len(call.mem)
  <1>1. n \in Nat /\ pos \in Nat /\ pos <= n + 1
    BY CallType DEF TypeOK, NotFarBehind
  <1>2. call' = call
    BY DEF Next, vars, EndOfData, StartLine, Exhausted, CarriageReturn,
           LineFeed, PlainByte, EscapedByte, ReadTrailer, AccessViolation
  <1>3. \/ /\ pos' = pos
           /\ \/ pc = "line" /\ pc' \in {"data", "trailer", "done"}
              \/ pc = "data" /\ pc' \in {"trailer", "done"}
              \/ pc = "trailer" /\ pc' = "done"
        \/ /\ pc = "data" /\ Mapped(pos + 1)
           /\ pos' = pos + 1 \/ pos' = pos + 2
           /\ pc' \in {"line", "data", "done"}
    <2>1. CASE EndOfData
      BY <2>1 DEF EndOfData
    <2>2. CASE StartLine
      BY <2>2 DEF StartLine, Return
    <2>3. CASE Exhausted
      BY <2>3 DEF Exhausted
    <2>4. CASE CarriageReturn
      BY <2>4 DEF CarriageReturn, DataByte, Consume
    <2>5. CASE LineFeed
      BY <2>5 DEF LineFeed, DataByte, Consume
    <2>6. CASE PlainByte
      BY <2>6 DEF PlainByte, DataByte, Consume
    <2>7. CASE EscapedByte
      BY <2>7 DEF EscapedByte, DataByte, Consume, Return
    <2>8. CASE ReadTrailer
      BY <2>8 DEF ReadTrailer, Return
    <2>9. CASE AccessViolation
      BY <2>9 DEF AccessViolation, Return, DataByte
    <2>10. QED
      BY <2>1, <2>2, <2>3, <2>4, <2>5, <2>6, <2>7, <2>8, <2>9 DEF Next
  <1>4. CASE /\ pos' = pos
             /\ \/ pc = "line" /\ pc' \in {"data", "trailer", "done"}
                \/ pc = "data" /\ pc' \in {"trailer", "done"}
                \/ pc = "trailer" /\ pc' = "done"
    <2>1. Rank' < Rank /\ Rank \in Nat /\ Rank' \in Nat
      BY <1>4 DEF Rank
    <2>2. QED
      BY <1>1, <1>2, <1>4, <2>1 DEF Ahead, NotFarBehind
  <1>5. CASE /\ pc = "data" /\ Mapped(pos + 1)
             /\ pos' = pos + 1 \/ pos' = pos + 2
             /\ pc' \in {"line", "data", "done"}
    <2>1. Rank = 2 /\ Rank' \in 0 .. 3 /\ pos + 1 <= n
      BY <1>5 DEF Rank, Mapped
    <2>2. Len(call'.mem) = n
      BY <1>2
    <2> DEFINE r == Rank
               q == Rank'
    <2>3. r = 2 /\ q \in 0 .. 3 /\ Ahead = 2 * (n + 1 - pos) + r
      BY <2>1 DEF Ahead
    <2>4. Ahead' = 2 * (n + 1 - pos') + q
      BY <2>2 DEF Ahead
    <2> HIDE DEF n, r, q
    <2>5. NotFarBehind'
      <3>1. pos' <= n + 1
        BY <1>1, <1>5, <2>1
      <3>2. QED
        BY <2>2, <3>1 DEF NotFarBehind
    <2>6. 2 * (n + 1 - pos') + q < 2 * (n + 1 - pos) + r
      <3>1. CASE pos' = pos + 1
        BY <1>1, <2>3, <3>1
      <3>2. CASE pos' = pos + 2
        BY <1>1, <2>3, <3>2
      <3>3. QED
        BY <1>5, <3>1, <3>2
    <2>7. QED
      BY <2>3, <2>4, <2>5, <2>6
  <1>6. QED
    BY <1>3, <1>4, <1>5

(* Why Returns holds: every step of a call lowers a number that is never below
   zero, so no call takes more than twice the length of its memory and five
   steps, whatever bytes it has and however often its counter wraps. *)
THEOREM CallsEnd == Spec => [](Ahead \in Nat) /\ [][Ahead' < Ahead]_vars
  <1> DEFINE J == TypeOK /\ NotFarBehind
  <1>1. Init => J
    <2> SUFFICES ASSUME Init PROVE J
      OBVIOUS
    <2>1. TypeOK
      BY InitIInv DEF IInv
    <2>2. QED
      BY <2>1, CallType DEF Init, NotFarBehind
  <1>2. J /\ [Next]_vars => J'
    <2> SUFFICES ASSUME J, [Next]_vars PROVE J'
      OBVIOUS
    <2>1. TypeOK'
      BY TypeStep
    <2>2. CASE Next
      BY <2>1, <2>2, StepGoesAhead
    <2>3. CASE UNCHANGED vars
      BY <2>1, <2>3 DEF vars, NotFarBehind
    <2>4. QED
      BY <2>2, <2>3
  <1>3. J /\ [Next]_vars => [Ahead' < Ahead]_vars
    BY StepGoesAhead
  <1>4. J => Ahead \in Nat
    <2> SUFFICES ASSUME J PROVE Ahead \in Nat
      OBVIOUS
    <2>1. Len(call.mem) \in Nat /\ pos \in Nat /\ pos <= Len(call.mem) + 1
      BY CallType DEF TypeOK, NotFarBehind
    <2>2. Rank \in Nat
      BY DEF Rank
    <2>3. QED
      BY <2>1, <2>2 DEF Ahead
  <1> HIDE DEF J
  <1>5. QED
    BY <1>1, <1>2, <1>3, <1>4, PTL DEF Spec
=============================================================================
