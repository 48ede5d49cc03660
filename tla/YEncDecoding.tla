---------------------------- MODULE YEncDecoding ----------------------------
(***************************************************************************)
(* What DecoderProcessBuffer promises: the content of a yEnc block,        *)
(* defined on the block as a whole instead of byte by byte.  A byte is an  *)
(* escape when it is bEscape and is not itself escaped; a line starts at   *)
(* the first byte and after every line break.                              *)
(***************************************************************************)
EXTENDS ProcessBuffer, SequencesExt

Block == SubSeq(call.mem, 1, call.cb)

IsEscape ==
  LET esc[i \in 0 .. Len(Block)] ==
        IF i = 0 THEN FALSE ELSE Block[i] = bEscape /\ ~esc[i - 1]
  IN  esc

Escapes == LET esc == IsEscape IN {i \in 1 .. Len(Block) : esc[i]}

IsBreak(ch) == ch \in {CR, LF}

LineStarts ==
  {i \in 1 .. Len(Block) :
     \/ i = 1
     \/ Block[i - 1] = LF
     \/ Block[i - 1] = CR /\ Block[i] # LF}

BlockHas(i, tag) ==
  i + Len(tag) - 1 <= Len(Block) /\ SubSeq(Block, i, i + Len(tag) - 1) = tag

Trailers == {i \in LineStarts : BlockHas(i, MK_YEND)}

Least(S) == CHOOSE m \in S : \A n \in S : m <= n

(* What the bytes up to each position decode to: every byte that is neither a
   line break nor an escape is data. *)
Content ==
  LET esc == Escapes
      Unescaped(i) == IF i - 1 \in esc THEN Block[i] - bEscOff ELSE Block[i]
      content[i \in 0 .. Len(Block)] ==
        IF i = 0
        THEN <<>>
        ELSE IF IsBreak(Block[i]) \/ i \in esc
             THEN content[i - 1]
             ELSE Append(content[i - 1], (Unescaped(i) - bOffset) % ByteCount)
  IN  content

(* The content of the block is what stands before the first =yend line. *)
Decoded == Content[Least(Trailers) - 1]

(* A block an encoder may write: a =yend line with a size, no line starts
   with an escaped y, no escape stands before a line break, and an escape is
   never CR or LF.  Line breaks are \r\n, \r or \n. *)
WellFormed ==
  LET end == Least(Trailers)
      esc == Escapes
  IN  /\ Trailers # {}
      /\ ~IsBreak(bEscape)
      /\ \A i \in LineStarts :
           i < end => /\ ~(i \in esc /\ Block[i + 1] = YChar)
                      /\ i + Len(MK_YEND) <= Len(Block) + 1
      /\ \A i \in esc : i < end => ~IsBreak(Block[i + 1])
      /\ FindAttributeTag(SubSeq(Block, end, Len(Block)), MK_SIZE) # NotFound

(* The call decodes the block: every data byte, in order, up to the room the
   output buffer has, and success. *)
DecodedRight ==
  /\ out = SubSeq(Decoded, 1, Min({Len(Decoded), call.room}))
  /\ status = "ok"

(* A well-formed block whose lines end in \r\n or \r decodes to exactly its
   data bytes, whatever escapes, offsets and line lengths it uses. *)
DecodesTheBlock ==
  pc = "done" /\ WellFormed /\ NoBareLF => DecodedRight

(* yDecode.h:1969 says that "currently any of \r\n, \r, \n are accepted" as
   a line break. *)
AnyLineBreakAccepted == pc = "done" /\ WellFormed => DecodedRight

Tags == {MK_YEND, MK_SIZE} \cup {TrailerTag[a] : a \in DOMAIN TrailerTag}

(* FindTag (yDecode.h:298-372) does not look again at a byte on which a match
   ends.  All the same, in the text of the block it finds the first line that
   starts with =yend, and the first attribute unless the text in front of that
   is how its tag begins. *)
TagsAreFound ==
  pos = 0 => /\ FindsLine(Block, MK_YEND)
             /\ \A tag \in Tags : FindsAttribute(Block, tag)

=============================================================================
