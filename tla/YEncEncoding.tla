---------------------------- MODULE YEncEncoding ----------------------------
(***************************************************************************)
(* The other side: blocks that a yEnc encoder has written.  This program   *)
(* has no encoder, it receives the blocks from those who have one.  What   *)
(* follows is what the decoder counts on: the encoder adds its offset to   *)
(* every byte, escapes the ones that mean something in a line, breaks the  *)
(* text into lines and ends it with a =yend line.                          *)
(***************************************************************************)
EXTENDS YEncDecoding

CONSTANTS
  Payloads,     (* what is encoded                                         *)
  LineLengths,  (* how many bytes of the payload a line holds              *)
  Encoders,     (* records of type Encoder                                 *)
  EndLine,      (* the =yend line                                          *)
  Behind,       (* what follows the block in memory                        *)
  Spare         (* how much longer than the payload the output may be      *)

(* What the header says of the encoding, and the bytes that this encoder
   escapes although it need not. *)
Encoder == [offset : Byte \cup {Default}, escape : Byte \cup {Default},
            escoff : Byte \cup {Default}, also : SUBSET Byte]

OffsetOf(e) == Effective(e.offset, MV_OFFSET)
EscapeOf(e) == Effective(e.escape, MV_ESCAPE)
EscOffOf(e) == Effective(e.escoff, MV_ESCOFF)

Critical(e) == {CR, LF, Eq, EscapeOf(e)} \cup e.also

Shifted(b, offset) == (b + offset) % ByteCount

EncodeByte(d, e) ==
  LET b == Shifted(d, OffsetOf(e))
  IN  IF b \in Critical(e)
      THEN <<EscapeOf(e), Shifted(b, EscOffOf(e))>>
      ELSE <<b>>

(* The break in front of byte i of the payload. *)
BreakBefore(i, lineLength) ==
  IF i > 1 /\ (i - 1) % lineLength = 0 THEN <<CR, LF>> ELSE <<>>

(* The text of the first i bytes. *)
EncodedText(payload, lineLength, e) ==
  LET text[i \in 0 .. Len(payload)] ==
        IF i = 0
        THEN <<>>
        ELSE text[i - 1] \o (BreakBefore(i, lineLength)
                               \o EncodeByte(payload[i], e))
  IN  text

EncodedBlock(payload, lineLength, e) ==
  EncodedText(payload, lineLength, e)[Len(payload)]
    \o (<<CR, LF>> \o (EndLine \o <<CR, LF>>))

(* The block of a payload, and the call that decodes it. *)
Encoding(payload, lineLength, e, spare) ==
  LET block == EncodedBlock(payload, lineLength, e)
  IN  [payload |-> payload,
       call |-> [mem |-> block \o Behind, cb |-> Len(block),
                 room |-> Len(payload) + spare,
                 offset |-> e.offset, escape |-> e.escape,
                 escoff |-> e.escoff]]

Encodings ==
  {Encoding(p, n, e, s) :
     p \in Payloads, n \in LineLengths, e \in Encoders, s \in Spare}

(* Escaping must help: an escape is no line break, a byte that is escaped is
   neither a line break nor a y any more.  The =yend line begins as a tag does,
   breaks nowhere and has its size. *)
ASSUME EncoderAssumption ==
  /\ Payloads \subseteq Seq(Byte)
  /\ LineLengths \subseteq Nat \ {0}
  /\ Spare \subseteq Nat
  /\ Behind \in Seq(Byte)
  /\ Eq \notin {CR, LF}
  /\ \A e \in Encoders :
       /\ e \in Encoder
       /\ EscapeOf(e) \notin {CR, LF}
       /\ \A b \in Critical(e) :
            Shifted(b, EscOffOf(e)) \notin {CR, LF, YChar}
  /\ EndLine \in Seq(Byte)
  /\ \A k \in DOMAIN EndLine : EndLine[k] \notin {CR, LF}
  /\ Len(MK_YEND) <= Len(EndLine)
  /\ SubSeq(EndLine, 1, Len(MK_YEND)) = MK_YEND
  /\ MK_YEND[1] = Eq /\ MK_YEND[2] = YChar
  /\ FindAttributeTag(EndLine \o <<CR, LF>>, MK_SIZE) # NotFound

(* What an encoder wrote comes back: the call succeeds and its output is the
   payload, byte for byte. *)
RoundTrip ==
  pc = "done" =>
    \A e \in Encodings : e.call = call => out = e.payload /\ status = "ok"
=============================================================================
