--------------------------- MODULE ProcessBuffer ---------------------------
(***************************************************************************)
(* DecoderProcessBuffer (OeyEnc.Dll/yDecode.h): the loop that turns the    *)
(* lines of one yEnc block into bytes, up to the =yend line, and then      *)
(* reads the attributes of that line.                                      *)
(*                                                                         *)
(* One behaviour is one call.  The caller hands over a pointer into the    *)
(* text of the whole message: mem is the memory from that pointer on, of   *)
(* which the first cb bytes are the block.  A read beyond mem is an access *)
(* violation.  pos is how far pbBufIn has moved and left is cbBufIn, an    *)
(* unsigned counter of W bits that wraps.                                  *)
(***************************************************************************)
EXTENDS Integers, Sequences, TagSearch

CONSTANTS
  ByteCount,               (* how many values a byte has: 256 in the code     *)
  Eq, YChar,               (* the characters '=' and 'y'                      *)
  MV_ESCAPE, MV_OFFSET, MV_ESCOFF, (* used unless the header overrides them   *)
  MK_YEND, MK_SIZE,        (* the tags "=yend " and " size="                  *)
  TrailerTag,              (* attribute |-> tag, for crc32, pcrc32 and part   *)
  W,                       (* width of a size_t in bits                       *)
  Calls,                   (* the calls of the function                       *)
  Default                  (* value of an attribute the header does not have  *)

Byte  == 0 .. ByteCount - 1
Range2W == 0 .. 2^W - 1

Call == [mem : Seq(Byte), cb : Range2W, room : Nat,
         offset : Byte \cup {Default}, escape : Byte \cup {Default},
         escoff : Byte \cup {Default}]

ASSUME WAssumption     == W \in Nat /\ 2^W \in Nat /\ 2^W > 0
ASSUME ByteAssumption  == /\ ByteCount \in Nat \ {0}
                          /\ {CR, LF, Eq, YChar} \subseteq Byte
                          /\ CR # LF
                          /\ MV_ESCAPE \in Byte /\ MV_OFFSET \in Byte
                          /\ MV_ESCOFF \in Byte
ASSUME TagAssumption   == /\ MK_YEND \in Seq(Byte) /\ Len(MK_YEND) >= 2
                          /\ MK_SIZE \in Seq(Byte) /\ MK_SIZE # <<>>
                          /\ \A k \in DOMAIN MK_SIZE : MK_SIZE[k] \notin {CR, LF}
                          /\ \A k \in DOMAIN MK_YEND : MK_YEND[k] \notin {CR, LF}
                          /\ \A a \in DOMAIN TrailerTag :
                               TrailerTag[a] \in Seq(Byte) \ {<<>>}
ASSUME CallsAssumption == \A c \in Calls : c \in Call /\ c.cb <= Len(c.mem)

VARIABLES
  call,      (* the arguments of the call                                  *)
  pc,        (* "line": start of a line, "data": inside one, "trailer",    *)
             (* "done"                                                     *)
  pos,       (* pbBufIn - pbEncoded                                        *)
  left,      (* cbBufIn                                                    *)
  out,       (* the bytes written so far; SizeActual is its length         *)
  status,    (* what the call returned                                     *)
  attributes (* the trailer attributes the call stored in ENCODEINFO       *)

vars == <<call, pc, pos, left, out, status, attributes>>

Status == {"running", "ok", "NO_MORE_DATA", "MISSING_TAG", "INVALID_TAG",
           "INVALID_ESCAPE", "fault"}
-----------------------------------------------------------------------------
Effective(value, default) == IF value = Default THEN default ELSE value

bEscape == Effective(call.escape, MV_ESCAPE)
bOffset == Effective(call.offset, MV_OFFSET)
bEscOffFixed == MV_ESCOFF
bEscOff == Effective(call.escoff, MV_ESCOFF)

Minus(a, b) == (a - b) % (2^W)
MinusByte(a, b) == (a - b) % ByteCount

Mapped(p)    == p \in 1 .. Len(call.mem)
InputLeft    == left > 0 /\ Len(out) < call.room
AtTag(tag)   == SubSeq(call.mem, pos + 1, pos + Len(tag)) = tag
NextByte     == call.mem[pos + 1]

(* pbBufIn += n; cbBufIn -= n *)
Consume(n) == pos' = pos + n /\ left' = Minus(left, n)

Return(s) ==
  /\ status' = s
  /\ pc' = "done"

Init ==
  /\ call \in Calls
  /\ pc = "line"
  /\ pos = 0
  /\ left = call.cb
  /\ out = <<>>
  /\ status = "running"
  /\ attributes = {}

(* Start of a line: too little is left for a tag, or this is =yend. *)
EndOfData ==
  /\ pc = "line" /\ InputLeft
  /\ \/ left < Len(MK_YEND)
     \/ Mapped(pos + Len(MK_YEND)) /\ AtTag(MK_YEND)
  /\ pc' = "trailer"
  /\ UNCHANGED <<call, pos, left, out, status, attributes>>

StartLine ==
  /\ pc = "line" /\ InputLeft
  /\ left >= Len(MK_YEND) /\ Mapped(pos + Len(MK_YEND)) /\ ~AtTag(MK_YEND)
  /\ IF NextByte = bEscape /\ call.mem[pos + 2] = YChar
     THEN Return("INVALID_TAG")
     ELSE pc' = "data" /\ UNCHANGED status
  /\ UNCHANGED <<call, pos, left, out, attributes>>

(* A buffer is exhausted: both loops end. *)
Exhausted ==
  /\ pc \in {"line", "data"} /\ ~InputLeft
  /\ pc' = "trailer"
  /\ UNCHANGED <<call, pos, left, out, status, attributes>>

DataByte(isKind) == pc = "data" /\ InputLeft /\ Mapped(pos + 1) /\ isKind

CarriageReturnTakesTwo ==
  /\ DataByte(NextByte = CR)
  /\ Consume(2)
  /\ pc' = "line"
  /\ UNCHANGED <<call, out, status, attributes>>

CarriageReturnInLine ==
  /\ DataByte(NextByte = CR)
  /\ Consume(1)
  /\ UNCHANGED <<call, pc, out, status, attributes>>

(* \r, or \r\n, ends the line. *)
CarriageReturn ==
  /\ DataByte(NextByte = CR)
  /\ Minus(left, 1) > 0 => Mapped(pos + 2)
  /\ IF Minus(left, 1) > 0 /\ call.mem[pos + 2] = LF
     THEN Consume(2)
     ELSE Consume(1)
  /\ pc' = "line"
  /\ UNCHANGED <<call, out, status, attributes>>

LineFeedLeft ==
  /\ DataByte(NextByte = LF)
  /\ pc' = "line"
  /\ UNCHANGED <<call, pos, left, out, status, attributes>>

(* A line feed that no carriage return precedes ends the line as well, and
   takes the byte after it along, whatever and wherever that is. *)
LineFeed ==
  /\ DataByte(NextByte = LF)
  /\ Consume(2)
  /\ pc' = "line"
  /\ UNCHANGED <<call, out, status, attributes>>

Emit(ch) == out' = Append(out, MinusByte(ch, bOffset))

PlainByte ==
  /\ DataByte(NextByte \notin {CR, LF, bEscape})
  /\ Emit(NextByte)
  /\ Consume(1)
  /\ UNCHANGED <<call, pc, status, attributes>>

EscapedByte ==
  /\ DataByte(NextByte = bEscape /\ NextByte \notin {CR, LF})
  /\ Minus(left, 1) > 0 => Mapped(pos + 2)
  /\ IF Minus(left, 1) = 0
     THEN Return("INVALID_ESCAPE") /\ Consume(1) /\ UNCHANGED out
     ELSE /\ Consume(2)
          /\ IF call.mem[pos + 2] \in {CR, LF}
             THEN Return("INVALID_ESCAPE") /\ UNCHANGED out
             ELSE /\ Emit(MinusByte(call.mem[pos + 2], bEscOff))
                  /\ UNCHANGED <<pc, status>>
  /\ UNCHANGED <<call, attributes>>

(* The bytes from pbBufIn on that a search of n bytes can see. *)
Window(n) ==
  LET last == pos + n
  IN  SubSeq(call.mem, pos + 1, IF Mapped(last) THEN last ELSE Len(call.mem))

(* A search that does not find its tag has read its whole window. *)
SearchFaults(n, tag) ==
  pos + n > Len(call.mem) /\ FindAttributeTag(Window(n), tag) = NotFound

(* The size= attribute is required.  The other searches use the counter
   cbBufIn, from which the length of " size=" has been taken. *)
ReadTrailer ==
  LET whole == Minus(call.cb, pos)
      rest  == Minus(left, Len(MK_SIZE))
      found == {a \in DOMAIN TrailerTag :
                  FindAttributeTag(Window(rest), TrailerTag[a]) # NotFound}
  IN  /\ pc = "trailer"
      /\ IF left = 0
         THEN Return("NO_MORE_DATA") /\ UNCHANGED attributes
         ELSE /\ ~SearchFaults(whole, MK_SIZE)
              /\ IF FindAttributeTag(Window(whole), MK_SIZE) = NotFound
                 THEN Return("MISSING_TAG") /\ UNCHANGED attributes
                 ELSE /\ \A a \in DOMAIN TrailerTag :
                            ~SearchFaults(rest, TrailerTag[a])
                      /\ attributes' = found
                      /\ Return("ok")
      /\ UNCHANGED <<call, pos, left, out>>

(* A byte is needed that is not mapped: the access violation ends the call
   and is caught by the handler in _LoadEncodedStream. *)
AccessViolation ==
  /\ \/ pc = "line" /\ InputLeft
        /\ left >= Len(MK_YEND) /\ ~Mapped(pos + Len(MK_YEND))
     \/ pc = "data" /\ InputLeft /\ ~Mapped(pos + 1)
     \/ /\ DataByte(NextByte \in {CR, bEscape} /\ NextByte # LF)
        /\ Minus(left, 1) > 0 /\ ~Mapped(pos + 2)
     \/ /\ pc = "trailer" /\ left # 0
        /\ \/ SearchFaults(Minus(call.cb, pos), MK_SIZE)
           \/ /\ FindAttributeTag(Window(Minus(call.cb, pos)), MK_SIZE) # NotFound
              /\ \E a \in DOMAIN TrailerTag :
                    SearchFaults(Minus(left, Len(MK_SIZE)), TrailerTag[a])
  /\ Return("fault")
  /\ UNCHANGED <<call, pos, left, out, attributes>>

Next ==
  \/ EndOfData
  \/ StartLine
  \/ Exhausted
  \/ CarriageReturn
  \/ LineFeed
  \/ PlainByte
  \/ EscapedByte
  \/ ReadTrailer
  \/ AccessViolation

Spec == Init /\ [][Next]_vars /\ WF_vars(Next)
-----------------------------------------------------------------------------
TypeOK ==
  /\ call \in Calls
  /\ pc \in {"line", "data", "trailer", "done"}
  /\ pos \in Nat
  /\ left \in Range2W
  /\ out \in Seq(Byte)
  /\ status \in Status
  /\ attributes \subseteq DOMAIN TrailerTag

(* Every line feed of the block ends a \r\n. *)
NoBareLF ==
  \A i \in 1 .. call.cb :
    call.mem[i] = LF => i > 1 /\ call.mem[i - 1] = CR

(* Without a bare line feed the call keeps to its block: what it has read and
   what it thinks is left always add up to the block, so neither counter ever
   wraps and no byte behind the block is looked at. *)
KeepsToTheBlock == NoBareLF => pos + left = call.cb /\ status # "fault"

(* Every call returns, also when the input counter has wrapped. *)
Returns == <>(pc = "done")
=============================================================================
