----------------------------- MODULE EncodeInfo -----------------------------
(***************************************************************************)
(* The ENCODEINFO record of the yEnc decoder (OeyEnc.Dll/yDecode.h) and    *)
(* what is computed from it: the size of a part, the name of the file, and *)
(* the text that is kept in the X-OeyEnc header.                           *)
(*                                                                         *)
(* A record is a function whose domain is EncodeFlags, the set of members  *)
(* that are valid.  The text of a name is a sequence of pieces, each of    *)
(* some length; how characters are converted is left out.                  *)
(***************************************************************************)
EXTENDS Naturals, SequencesExt

CONSTANTS
  UINT_MAX, USHRT_MAX, UCHAR_MAX,  (* limits of the integer types          *)
  MAX_PATH,                        (* room of a buffer for a file name     *)
  Names, Comps,                    (* the names and compressions of files  *)
  Unknown,                         (* MK_UNKNOWN, a name                   *)
  Checksums,                       (* values of a CRC                      *)
  Length(_),                       (* the length of a piece of a name      *)
  TagsIn(_)                        (* the tags that stand in a text, each  *)
                                   (* with the number behind it            *)

ASSUME WidthsAssumption ==
  /\ UCHAR_MAX \in Nat \ {0} /\ USHRT_MAX \in Nat /\ UINT_MAX \in Nat
  /\ UCHAR_MAX < USHRT_MAX /\ USHRT_MAX < UINT_MAX
ASSUME MaxPathAssumption == MAX_PATH \in Nat \ {0}
ASSUME NamesAssumption ==
  /\ Unknown \in Names
  /\ \A name \in Names : name.unicode \in BOOLEAN
  /\ Checksums \subseteq Nat

(* What an integer attribute is cut to before it is looked at. *)
Mask(tag) ==
  CASE tag \in {"line", "part", "total"}        -> USHRT_MAX
    [] tag \in {"offset", "escape", "escoff"}   -> UCHAR_MAX
    [] OTHER                                    -> UINT_MAX
Cut(tag, value) == value % (Mask(tag) + 1)

(* The members that are not valid are zero. *)
Value(info, tag) == IF tag \in DOMAIN info THEN info[tag] ELSE 0

WithParts(info, pair) ==
  [tag \in {"part", "total"} \cup DOMAIN info |->
     CASE tag = "part"  -> pair[1]
       [] tag = "total" -> pair[2]
       [] OTHER         -> info[tag]]

(* Not so: the numbers of a subject as they are. *)
UncutSubjectParts(subject, info) ==
  IF subject = <<>> THEN info ELSE WithParts(info, Last(subject))

(* The pairs of numbers around the slashes of a subject: the last valid one
   wins.  Zero is tested before the numbers are cut to their width. *)
DecoderGetSubjectParts(subject, info) ==
  LET last == SelectLastInSeq(subject,
                LAMBDA pair : \A n \in {1, 2} : pair[n] % (UINT_MAX + 1) # 0)
  IN  IF last = 0
      THEN info
      ELSE WithParts(info, <<Cut("part", subject[last][1]),
                             Cut("total", subject[last][2])>>)

DecoderGetPartSize(info) ==
  IF {"begin", "end"} \subseteq DOMAIN info
  THEN (info["end"] + 1 + UINT_MAX + 1 - info["begin"]) % (UINT_MAX + 1)
  ELSE Value(info, "size")
-----------------------------------------------------------------------------
(***************************************************************************)
(* A name is made of a stem and an extension, either of which may be       *)
(* empty.  A Unicode name is copied and needs room for a terminator, like  *)
(* everything that is printed; any other one is converted, which fails     *)
(* when there is nothing to convert.                                       *)
(***************************************************************************)
Piece(is, text, by) == [is |-> is, text |-> text, by |-> by]

Pieces ==
  {Piece("stem", name.stem, by) : name \in Names, by \in {"copy", "convert"}}
  \cup {Piece("ext", name.ext, by) : name \in Names, by \in {"copy", "convert"}}
  \cup {Piece("comp", comp, "convert") : comp \in Comps}
  \cup {Piece("bad", <<crc, size>>, "print") :
          crc \in Checksums \cup {0}, size \in 0 .. UINT_MAX}
  \cup {Piece("part", iPart, "print") : iPart \in 1 .. USHRT_MAX}

ASSUME LengthAssumption == \A piece \in Pieces : Length(piece) \in Nat

Fits(piece, room) ==
  LET n == Length(piece)
  IN  IF piece.by = "convert"
      THEN n <= room /\ n > (IF piece.is = "comp" THEN 1 ELSE 0)
      ELSE n < room

Empty(cchBuf) == [ok |-> TRUE, room |-> cchBuf, text |-> <<>>]

Write(buffer, condition, piece) ==
  IF ~condition
  THEN buffer
  ELSE IF buffer.ok /\ Fits(piece, buffer.room)
       THEN [ok |-> TRUE, room |-> buffer.room - Length(piece),
             text |-> Append(buffer.text, piece)]
       ELSE [buffer EXCEPT !.ok = FALSE]

How(name) == IF name.unicode THEN "copy" ELSE "convert"

(* Not so: the part of a name before its extension. *)
PartBeforeExtension(cchBuf, name, comp, iPart, bad) ==
  LET stem  == Write(Empty(cchBuf), TRUE, Piece("stem", name.stem, How(name)))
      part  == Write(stem, iPart # 0, Piece("part", iPart, "print"))
      whole == Write(part, name.ext # "", Piece("ext", name.ext, How(name)))
  IN  [made |-> whole.ok /\ whole.room > 0, text |-> whole.text,
       cchBaseName |-> cchBuf - whole.room]

(* name[(crc size)].ext[.comp][.part], and the length of what stands before
   the part.  bad is a pair: the checksum and the size that do not match, each
   0 to omit it. *)
DecoderMakeFileName(cchBuf, name, comp, iPart, bad) ==
  LET stem   == Write(Empty(cchBuf), TRUE, Piece("stem", name.stem, How(name)))
      marked == Write(stem, bad # <<0, 0>>, Piece("bad", bad, "print"))
      named  == Write(marked, name.ext # "", Piece("ext", name.ext, How(name)))
      base   == Write(named, comp # <<>>, Piece("comp", comp, "convert"))
      whole  == Write(base, iPart # 0, Piece("part", iPart, "print"))
  IN  [made        |-> whole.ok /\ whole.room > 0,
       text        |-> whole.text,
       cchBaseName |-> IF base.ok THEN cchBuf - base.room ELSE cchBuf]

(* Not so: the checksum of the whole file for that of a part. *)
BadCrcOfFile(info, data) ==
  IF data.decoded /\ "crc32" \in DOMAIN info /\ data.crc # info["crc32"]
  THEN data.crc
  ELSE 0

(* What was decoded: SizeActual bytes, whose checksum is computed unless there
   is no data to compute it from.  Zero says that there is nothing to mark, so
   data whose checksum is zero passes for data with the right one. *)
BadCrc(info, data) ==
  LET declared == IF "pcrc32" \in DOMAIN info THEN "pcrc32" ELSE "crc32"
  IN  IF /\ data.decoded /\ declared \in DOMAIN info
         /\ data.crc # info[declared]
      THEN data.crc
      ELSE 0
BadSize(info, data) ==
  IF DecoderGetPartSize(info) = data.size THEN 0 ELSE DecoderGetPartSize(info)

(* The first part of a set, and a part without a total, has no part number. *)
PartOfName(info) ==
  IF Value(info, "part") > 1 /\ Value(info, "total") > 1
  THEN info["part"]
  ELSE 0

NameOf(info) == IF "name" \in DOMAIN info THEN info["name"] ELSE Unknown
CompOf(info) == IF "comp" \in DOMAIN info THEN info["comp"] ELSE <<>>

DecoderGetFileName(cchBuf, info, data) ==
  DecoderMakeFileName(cchBuf, NameOf(info), CompOf(info), PartOfName(info),
                      <<BadCrc(info, data), BadSize(info, data)>>)
-----------------------------------------------------------------------------
(* The members in the order in which they are written.  The name comes last,
   and the compression has become a part of it. *)
Order == <<"line", "size", "comp", "offset", "escape", "escoff", "begin",
           "end", "part", "total", "crc32", "pcrc32", "name">>

Field(tag, value) == [tag |-> tag, value |-> value]

DecoderSerializeEncodeInfo(info, flags) ==
  LET written == flags \cap DOMAIN info
      name    == DecoderMakeFileName(MAX_PATH, NameOf(info), CompOf(info), 0,
                                     <<0, 0>>)
      value(tag) == IF tag = "name" THEN name.text ELSE info[tag]
      fields[k \in 0 .. Len(Order)] ==
        IF k = 0
        THEN <<>>
        ELSE IF Order[k] \in written
             THEN Append(fields[k - 1], Field(Order[k], value(Order[k])))
             ELSE fields[k - 1]
  IN  [made   |-> "name" \in written => name.made,
       fields |-> fields[Len(Order)]]

(* The tags are searched in the whole text and without the space that stands
   before them, so one is also found at the end of another, crc32= in pcrc32=,
   and in the text of a name or a compression. *)
Ends(tag, field) ==
  field.tag = tag \/ (tag = "crc32" /\ field.tag = "pcrc32")
IsText(field) == field.tag \in {"name", "comp"}
IsFoundIn(tag, field) ==
  Ends(tag, field) \/ (IsText(field) /\ tag \in DOMAIN TagsIn(field.value))
ValueIn(tag, field) ==
  IF Ends(tag, field) THEN field.value ELSE TagsIn(field.value)[tag]

(* Not so: the number of parts forgotten. *)
WithoutTotals(fields, flags) ==
  LET At(tag) == SelectInSeq(fields, LAMBDA f : f.tag = tag)
  IN  [tag \in {t \in flags \ {"total"} : At(t) # 0} |-> fields[At(tag)].value]

DecoderDeserializeEncodeInfo(fields, flags) ==
  LET At(tag) == SelectInSeq(fields, LAMBDA f : IsFoundIn(tag, f))
  IN  [tag \in {t \in flags : At(t) # 0} |->
         IF tag \in {"name", "comp"}
         THEN ValueIn(tag, fields[At(tag)])
         ELSE Cut(tag, ValueIn(tag, fields[At(tag)]))]
=============================================================================
