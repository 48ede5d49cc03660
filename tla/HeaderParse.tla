---------------------------- MODULE HeaderParse -----------------------------
(***************************************************************************)
(* From the header of a yEnc block to the name of its attachment:          *)
(* DecoderInitialize (OeyEnc.Dll/yDecode.h), the subject, the size of the  *)
(* stream, the trailer, the file name and the X-OeyEnc header              *)
(* (CMimeMessage::_LoadEncodedStream in OeyEnc.Dll/MimeMessage.cpp).       *)
(*                                                                         *)
(* A block is cut into lines and its text into tokens: a tag with its      *)
(* value, wherever the text has one.  What follows the name in the first   *)
(* line is part of the name.  A block ends with a =yend line, its lines    *)
(* with \r\n, the last one perhaps with nothing.  Positions in the text    *)
(* count from the space behind =ybegin, where every search begins.         *)
(***************************************************************************)
EXTENDS EncodeInfo, FiniteSetsExt

CONSTANTS
  Blocks,          (* the blocks to parse                                  *)
  Subjects,        (* the numbers in the subject of the message            *)
  MV_LINEMIN, MV_LINEMAX, MV_OFFSET, MV_DEFAULT,
  MinStream        (* 64 * 1024                                            *)

ASSUME LimitsAssumption ==
  /\ MV_LINEMIN \in Nat /\ MV_LINEMAX \in 0 .. USHRT_MAX
  /\ MV_OFFSET \in 0 .. UCHAR_MAX /\ MinStream \in 0 .. UINT_MAX

(* What the tokens of a block stand for, in the order of its text.  The tag of
   a token stands between from and to, where its value begins. *)
IsToken(token) ==
  CASE token.tag = "name"   -> token.value \in Names
    [] token.tag = "comp"   -> token.value \in Comps
    [] token.tag = "offset" -> token.value \in Nat \cup {MV_DEFAULT}
    [] OTHER                -> token.value \in Nat

ASSUME BlocksAssumption ==
  \A b \in Blocks :
    /\ b.version \in Nat /\ b.size \in Nat /\ b.closed \in BOOLEAN
    /\ b.lines \in Seq({"begin", "part", "data", "end"}) /\ b.lines # <<>>
    /\ b.starts \in [DOMAIN b.lines -> 0 .. b.size] /\ b.starts[1] = 0
    /\ \A k \in DOMAIN b.lines : \A j \in 1 .. k : b.starts[j] <= b.starts[k]
    /\ b.tokens \in Seq(ToSet(b.tokens))
    /\ \A k \in DOMAIN b.tokens :
         LET t == b.tokens[k]
         IN  /\ IsToken(t) /\ t.line \in DOMAIN b.lines
             /\ t.from \in b.starts[t.line] .. b.size
             /\ t.to \in t.from + 1 .. IF t.line = Len(b.lines) THEN b.size
                                       ELSE b.starts[t.line + 1]
             /\ \A j \in 1 .. k - 1 : b.tokens[j].to <= t.from
ASSUME SubjectsAssumption == Subjects \subseteq Seq(Nat \X Nat)

Limits(tag) ==
  CASE tag = "line"  -> MV_LINEMIN .. MV_LINEMAX
    [] tag = "begin" -> 1 .. UINT_MAX - 1
    [] tag = "end"   -> 2 .. UINT_MAX
    [] tag \in {"size", "part", "total", "escoff"} -> 1 .. Mask(tag)
    [] OTHER         -> 0 .. Mask(tag)

VARIABLES
  block, subject,  (* the input                                            *)
  pc,              (* the part of the functions that runs next             *)
  info,            (* the ENCODEINFO record                                *)
  error,           (* the last error                                       *)
  pbLine,          (* a line, DataStart in the end; NoLine is NULL         *)
  stream,          (* the size of the stream for the decoded data          *)
  data,            (* what was decoded                                     *)
  file,            (* the result of DecoderGetFileName                     *)
  stored           (* the result of DecoderSerializeEncodeInfo             *)

vars == <<block, subject, pc, info, error, pbLine, stream, data, file,
          stored>>
input == <<block, subject>>

NoLine == 0
Nothing == [size |-> 0, crc |-> 0, at |-> 0, decoded |-> FALSE]
Unnamed == [made |-> FALSE, text |-> <<>>, cchBaseName |-> 0]
Unstored == [made |-> FALSE, fields |-> <<>>]
StoredFlags == {"size", "total", "crc32", "name"}

(* Where a line begins; the one behind the last is the end of the block. *)
Start(line) == IF line \in DOMAIN block.lines THEN block.starts[line] ELSE block.size

(* Not so: the search does not stop at its end. *)
FindBehindEnd(tag, from, to) ==
  SelectInSeq(block.tokens, LAMBDA t : t.tag = tag /\ from <= t.from)

(* The first tag between two positions; mostly the search starts in a line and
   goes on to the end of the block. *)
FindAttributeTag(tag, from, to) ==
  SelectInSeq(block.tokens,
              LAMBDA t : t.tag = tag /\ from <= t.from /\ t.to <= to)
FindFrom(tag, line) == FindAttributeTag(tag, Start(line), block.size)
ValueAt(at) == block.tokens[at].value

FindNextLine(line) ==
  IF line < Len(block.lines) \/ block.closed THEN line + 1 ELSE NoLine

(* The bytes from a line to the end of the block; an address when the line is
   the NULL pointer. *)
cbData(line) == IF line = NoLine THEN UINT_MAX ELSE block.size - Start(line)

Init ==
  /\ block \in Blocks /\ subject \in Subjects
  /\ pc = "ybegin" /\ info = <<>> /\ error = "none" /\ pbLine = NoLine
  /\ stream = 0 /\ data = Nothing /\ file = Unnamed /\ stored = Unstored
-----------------------------------------------------------------------------
Stop(code) == pc' = "text" /\ error' = code /\ UNCHANGED <<info, pbLine>>
Skip(step) == pc' = step /\ UNCHANGED <<info, error, pbLine>>
Keep(tag, value, step) ==
  /\ info' = [t \in {tag} \cup DOMAIN info |->
                IF t = tag THEN value ELSE info[t]]
  /\ pc' = step /\ UNCHANGED <<error, pbLine>>

(* The number at a tag, cut to its width and then compared with its limits. *)
Number(tag, at, step) ==
  LET value == Cut(tag, ValueAt(at))
  IN  \/ value \notin Limits(tag) /\ Stop("invalid value")
      \/ value \in Limits(tag) /\ Keep(tag, value, step)

Required(tag, at, step) ==
  \/ at = 0 /\ Stop("missing tag")
  \/ at # 0 /\ Number(tag, at, step)
Optional(tag, step) ==
  LET at == FindFrom(tag, 1)
  IN  \/ at = 0 /\ Skip(step)
      \/ at # 0 /\ Number(tag, at, step)

AnyNumber(tag, step) ==
  LET at == FindFrom(tag, 1)
  IN  \/ at = 0 /\ Skip(step)
      \/ at # 0 /\ Keep(tag, Cut(tag, ValueAt(at)), step)

(* =ybegin or =ybegin2: Load has found the tag before. *)
Version ==
  /\ pc = "ybegin" /\ Keep("version", block.version, "line")

(* The flags are assigned here, and the version with them is lost. *)
Line ==
  /\ pc = "line"
  /\ LET at    == FindFrom("line", 1)
         value == Cut("line", ValueAt(at))
     IN  \/ at = 0 /\ Stop("missing tag")
         \/ /\ at # 0 /\ value \notin Limits("line") /\ Stop("invalid value")
         \/ /\ at # 0 /\ value \in Limits("line")
            /\ info' = [t \in {"line"} |-> value]
            /\ pc' = "size" /\ UNCHANGED <<error, pbLine>>

(* As many bytes are searched as there are behind line=, but from the start of
   the line: the search ends that much too early. *)
SizeWindow == block.size - block.tokens[FindFrom("line", 1)].to
Size ==
  /\ pc = "size"
  /\ Required("size", FindAttributeTag("size", 0, SizeWindow), "part")

Part == pc = "part" /\ Optional("part", "total")

(* "if 'total' is present, then 'part' is required" *)
Total ==
  /\ pc = "total"
  /\ LET at == FindFrom("total", 1)
     IN  \/ at = 0 /\ Skip("crc32")
         \/ at # 0 /\ "part" \notin DOMAIN info /\ Stop("missing tag")
         \/ at # 0 /\ "part" \in DOMAIN info /\ Number("total", at, "crc32")

Crc == pc = "crc32" /\ AnyNumber("crc32", "offset")

(* A * stands for the usual offset. *)
Offset ==
  /\ pc = "offset"
  /\ LET at == FindFrom("offset", 1)
     IN  \/ at = 0 /\ Skip("escape")
         \/ /\ at # 0 /\ ValueAt(at) = MV_DEFAULT
            /\ Keep("offset", MV_OFFSET, "escape")
         \/ /\ at # 0 /\ ValueAt(at) # MV_DEFAULT
            /\ Keep("offset", Cut("offset", ValueAt(at)), "escape")

Escape == pc = "escape" /\ AnyNumber("escape", "escoff")
EscOff == pc = "escoff" /\ Optional("escoff", "comp")

(* The compression is only looked for in the first MAX_PATH bytes. *)
Comp ==
  /\ pc = "comp"
  /\ LET at == FindAttributeTag("comp", 0, MAX_PATH)
     IN  \/ at = 0 /\ Skip("name")
         \/ /\ at # 0
            /\ Keep("comp", ValueAt(at), "name")

(* The name reaches to the end of its line; the next line, wherever the name
   was found, may be the =ypart line. *)
Name ==
  /\ pc = "name"
  /\ LET at == FindFrom("name", 1)
     IN  \/ at = 0 /\ Stop("missing tag")
         \/ /\ at # 0
            /\ Keep("name", ValueAt(at), "ypart")

PartLine ==
  /\ pc = "ypart"
  /\ LET line  == FindNextLine(block.tokens[FindFrom("name", 1)].line)
         parts == {k \in 1 .. Len(block.lines) :
                     k >= line /\ block.lines[k] = "part"}
     IN  \/ /\ line \notin 1 .. Len(block.lines) /\ Stop("no more data")
         \/ /\ line \in 1 .. Len(block.lines)
            /\ \/ /\ parts = {}
                  /\ pbLine' = line /\ pc' = "subject"
                  /\ UNCHANGED <<info, error>>
               \/ /\ parts # {} /\ "part" \notin DOMAIN info
                  /\ Stop("missing tag")
               \/ /\ parts # {} /\ "part" \in DOMAIN info /\ line \notin parts
                  /\ Stop("invalid tag")
               \/ /\ parts # {} /\ "part" \in DOMAIN info /\ line \in parts
                  /\ pbLine' = line /\ pc' = "begin"
                  /\ UNCHANGED <<info, error>>

(* From here on pbLine is the =ypart line until the data is found.*)
Begin == pc = "begin" /\ Required("begin", FindFrom("begin", pbLine), "end")
End   == pc = "end" /\ Required("end", FindFrom("end", pbLine), "data")

(* The data starts in the line after the one that has the end= tag, which need
   not be the =ypart line. *)
Data ==
  /\ pc = "data"
  /\ pbLine' =
       FindNextLine(block.tokens[FindFrom("end", pbLine)].line)
  /\ pc' = "subject" /\ UNCHANGED <<info, error>>
-----------------------------------------------------------------------------
parsed == <<error, pbLine>>

(* Only the first block of a message has its numbers from the subject, which
   overrule those of its header. *)
Subject ==
  /\ pc = "subject"
  /\ info' = DecoderGetSubjectParts(subject, info)
  /\ pc' = "prepare"
  /\ UNCHANGED <<input, parsed, stream, data, file, stored>>

(* Not so: half of the size compared with twice the data. *)
RefusesTwice == DecoderGetPartSize(info) \div 2 > 2 * cbData(pbLine)

(* No data can be decoded to more than twice its size: a block that claims to
   be larger is attached as text, under a name with the size in it. *)
Refuses == DecoderGetPartSize(info) \div 2 > cbData(pbLine)
Prepare ==
  /\ pc = "prepare"
  /\ \/ /\ Refuses
        /\ file' = DecoderGetFileName(MAX_PATH, info, Nothing)
        /\ pc' = "text" /\ error' = "too large" /\ UNCHANGED stream
     \/ /\ ~Refuses
        /\ stream' = Max({DecoderGetPartSize(info), MinStream})
        /\ pc' = "decode" /\ UNCHANGED <<error, file>>
  /\ UNCHANGED <<input, info, pbLine, data, stored>>

(* DecoderProcessBuffer: it reads through the NULL pointer, or fails, or comes
   to the =yend line, or to some place before when the stream is full; what it
   decodes is the subject of ProcessBuffer. *)
Trail == Len(block.lines)
Decode ==
  /\ pc = "decode"
  /\ \/ /\ pbLine = NoLine
        /\ pc' = "exception" /\ UNCHANGED <<data, error>>
     \/ /\ pbLine # NoLine
        /\ pc' = "text" /\ error' = "not decoded" /\ UNCHANGED data
     \/ /\ pbLine \in 1 .. Trail
        /\ \E at \in Start(pbLine) .. Start(Trail), crc \in Checksums :
             \E size \in 0 .. Min({stream, at - Start(pbLine)}) :
               /\ at # Start(Trail) => size = stream
               /\ data' = [size |-> size, crc |-> crc, at |-> at, decoded |-> TRUE]
        /\ pc' = "yend" /\ UNCHANGED error
  /\ UNCHANGED <<input, info, pbLine, stream, file, stored>>

(* The trailer must have a size, with which nothing is done; its checksums and
   its part replace those of the header.  The count of the bytes left is lowered
   by the length of " size=" while the position stays, so these searches end
   that much before the end of the block. *)
TrailWindow ==
  LET size == block.tokens[FindAttributeTag("size", data.at, block.size)]
  IN  block.size - (size.to - size.from)
Trailer ==
  /\ pc = "yend"
  /\ LET At(tag) == FindAttributeTag(tag, data.at, TrailWindow)
         read    == {t \in {"crc32", "pcrc32", "part"} : At(t) # 0}
     IN  \/ /\ FindAttributeTag("size", data.at, block.size) = 0
            /\ Stop("missing tag")
         \/ /\ FindAttributeTag("size", data.at, block.size) # 0
            /\ info' = [t \in read \cup DOMAIN info |->
                          IF t \in read THEN Cut(t, ValueAt(At(t))) ELSE info[t]]
            /\ pc' = "file" /\ UNCHANGED parsed
  /\ UNCHANGED <<input, stream, data, file, stored>>

(* When no name can be made the attachment has a default one, or what there is
   of its own: the last error, which was not set, decides. *)
FileName ==
  /\ pc = "file"
  /\ file' = DecoderGetFileName(MAX_PATH, info, data)
  /\ pc' = "attach"
  /\ UNCHANGED <<input, info, parsed, stream, data, stored>>

(* Only a block that has its own name gets an X-OeyEnc header; if that fails,
   so does the message. *)
Attach ==
  /\ pc = "attach"
  /\ stored' = IF file.made
               THEN DecoderSerializeEncodeInfo(info, StoredFlags)
               ELSE Unstored
  /\ pc' = IF file.made => stored'.made THEN "done" ELSE "fallback"
  /\ UNCHANGED <<input, info, parsed, stream, data, file>>

DecoderInitialize ==
  /\ \/ Version \/ Line \/ Size \/ Part \/ Total \/ Crc \/ Offset \/ Escape
     \/ EscOff \/ Comp \/ Name \/ PartLine \/ Begin \/ End \/ Data
  /\ UNCHANGED <<input, stream, data, file, stored>>

Next == \/ DecoderInitialize \/ Subject \/ Prepare \/ Decode \/ Trailer
        \/ FileName \/ Attach

Spec == Init /\ [][Next]_vars
-----------------------------------------------------------------------------
(* The records and results have the types of the code; a number of a subject
   may be cut to zero. *)
TypeOK ==
  /\ DOMAIN info \subseteq ToSet(Order) \cup {"version"}
  /\ \A tag \in DOMAIN info \ {"name", "comp", "version"} :
       info[tag] \in 0 .. Mask(tag)
  /\ pbLine \in 0 .. Len(block.lines) + 1
  /\ stream \in 0 .. UINT_MAX
  /\ data \in [size : Nat, crc : Checksums \cup {0}, at : 0 .. block.size,
              decoded : BOOLEAN]
  /\ file.made \in BOOLEAN /\ file.cchBaseName \in 0 .. MAX_PATH
  /\ stored.made \in BOOLEAN

(***************************************************************************)
(* A block as the yEnc specification has it: each attribute once and in    *)
(* its own line, the name last, every number within its limits, a =ypart   *)
(* line if and only if there is a part number.                             *)
(***************************************************************************)
Places(line) == {k \in DOMAIN block.tokens : block.tokens[k].line = line}
Tags(line) == {block.tokens[k].tag : k \in Places(line)}
IsPart == block.lines[2] = "part"
WrittenIn(tag) ==
  CASE tag \in {"begin", "end"} -> 2
    [] tag \in {"crc32", "pcrc32"} -> Trail
    [] OTHER -> 1
WrittenAt(tag) ==
  CHOOSE k \in Places(WrittenIn(tag)) : block.tokens[k].tag = tag
WrittenValue(tag) ==
  LET v == block.tokens[WrittenAt(tag)].value
  IN  IF tag = "offset" /\ v = MV_DEFAULT THEN MV_OFFSET ELSE v
WrittenTags ==
  Tags(1) \cup (IF IsPart THEN Tags(2) ELSE {}) \cup (Tags(Trail) \ {"size"})

AsWritten ==
  /\ block.lines \in {<<"begin", "data", "end">>,
                      <<"begin", "part", "data", "end">>}
  /\ \A line \in 1 .. Trail, j, k \in DOMAIN block.tokens :
       /\ {j, k} \subseteq Places(line)
       /\ block.tokens[j].tag = block.tokens[k].tag
       => j = k
  /\ {"line", "size", "name"} \subseteq Tags(1)
  /\ Tags(1) \subseteq {"line", "size", "name", "part", "total", "offset",
                        "escape", "escoff", "comp"}
  /\ \A k \in Places(1) : k <= WrittenAt("name")
  /\ "comp" \in Tags(1) => block.tokens[WrittenAt("comp")].to <= MAX_PATH
  /\ Tags(Trail - 1) = {}
  /\ {"size"} \subseteq Tags(Trail)
  /\ Tags(Trail) \subseteq {"size", "part", "crc32", "pcrc32"}
  /\ ("part" \in Tags(1)) = IsPart
  /\ "total" \in Tags(1) => IsPart
  /\ IsPart => /\ Tags(2) = {"begin", "end"}
               /\ WrittenValue("begin") <= WrittenValue("end")
  /\ "part" \in Tags(Trail) =>
       /\ IsPart
       /\ \A k \in Places(Trail) :
            block.tokens[k].tag = "part" =>
              block.tokens[k].value = WrittenValue("part")
  /\ \A tag \in WrittenTags \ {"name", "comp"} :
       WrittenValue(tag) \in Limits(tag)
  /\ subject # <<>> =>
       /\ {"part", "total"} \subseteq Tags(1)
       /\ subject[Len(subject)] =
            <<WrittenValue("part"), WrittenValue("total")>>

(* The two searches that end too early: a block in which less stands behind the
   size= of the header than before the value of its line=, and a pcrc32= at the
   very end of the block.  A crc32= there has been found from the header. *)
SizeInReach ==
  block.tokens[WrittenAt("line")].to + block.tokens[WrittenAt("size")].to <= block.size
TrailSize == CHOOSE k \in Places(Trail) : block.tokens[k].tag = "size"
OutOfReach ==
  LET size == block.tokens[TrailSize]
  IN  {tag \in Tags(Trail) \cap {"pcrc32"} :
         block.tokens[WrittenAt(tag)].to + (size.to - size.from) > block.size}

(* A block as the yEnc specification has it is accepted if and only if its size=
   is in reach, and then the record holds what was written, but for a pcrc32= out
   of reach, although other searches go to the end of the block and the numbers
   are cut, found again in the subject and replaced by those of the trailer. *)
ReadsWhatWasWritten ==
  pc \in {"text", "exception", "file", "attach", "done"} /\ AsWritten =>
    /\ pc # "exception"
    /\ error \in {"none", "too large", "not decoded", "missing tag"}
    /\ error = "missing tag" <=> ~SizeInReach
    /\ pc # "text" =>
         info = [tag \in WrittenTags \ OutOfReach |-> WrittenValue(tag)]

(* No attribute of a header, and no difference of two of them that wraps, has
   the program ask for more memory than the encoded data can fill, unless no
   data was found. *)
StreamIsBounded ==
  stream # 0 /\ pbLine # NoLine =>
    stream <= Max({2 * cbData(pbLine) + 1, MinStream})

(* An attachment whose size or checksum is not the written one is marked in its
   name, and no other: unless its size is right and the computed checksum is
   zero, or the checksum of the part is out of reach. *)
IsMarked == \E piece \in ToSet(file.text) : piece.is = "bad"
WrittenSize ==
  IF IsPart THEN WrittenValue("end") - WrittenValue("begin") + 1
            ELSE WrittenValue("size")
IsIntact ==
  /\ data.size = WrittenSize
  /\ IF "pcrc32" \in WrittenTags
     THEN data.crc = WrittenValue("pcrc32")
     ELSE "crc32" \in WrittenTags => data.crc = WrittenValue("crc32")
DamageShowsInTheName ==
  pc = "attach" /\ file.made /\ AsWritten =>
    /\ IsMarked => ~IsIntact \/ OutOfReach # {}
    /\ ~IsIntact =>
         \/ IsMarked
         \/ data.size = WrittenSize /\ (data.crc = 0 \/ OutOfReach # {})

(* Combine takes parts for parts of one file when the name of the first begins
   that of the other.  The name of the first part has marks of its own damage.
   A part is joined to a first part with the same marks, and the length that is
   reported for its name takes the part number away, so that both have the same
   content type.  It is not joined to one with other marks, nor a damaged part
   to a first part that is intact, unless nothing stands behind the stem. *)
NameOfFirst(bad) ==
  DecoderMakeFileName(MAX_PATH, NameOf(info), CompOf(info), 0, bad)
Marks == <<BadCrc(info, data), BadSize(info, data)>>
TextLength(text) ==
  LET length[k \in 0 .. Len(text)] ==
        IF k = 0 THEN 0 ELSE length[k - 1] + Length(text[k])
  IN  length[Len(text)]
PartsAreJoined ==
  file.made /\ pc = "attach" =>
    /\ NameOfFirst(Marks).made
    /\ file.cchBaseName = TextLength(NameOfFirst(Marks).text)
    /\ \A crc \in Checksums \cup {0}, size \in 0 .. UINT_MAX :
         LET first == NameOfFirst(<<crc, size>>)
         IN  first.made =>
               (IsPrefix(first.text, file.text) <=>
                  \/ <<crc, size>> = Marks
                  \/ /\ <<crc, size>> = <<0, 0>>
                     /\ NameOf(info).ext = "" /\ CompOf(info) = <<>>)

(* Whatever has got a name can be stored.  The size, the total, the checksum and
   the name, which has the compression and no mark, are read back as they were;
   but one of the numbers that was not stored is read from the name when the
   name has its tag. *)
StoredAttributesReadBack ==
  pc \in {"done", "fallback"} /\ file.made =>
    /\ pc = "done"
    /\ LET back == DecoderDeserializeEncodeInfo(stored.fields, StoredFlags)
           name == NameOfFirst(<<0, 0>>).text
       IN  /\ DOMAIN back = StoredFlags \cap (DOMAIN info \cup DOMAIN TagsIn(name))
           /\ back["name"] = name
           /\ \A tag \in DOMAIN back \ {"name"} :
                back[tag] = IF tag \in DOMAIN info THEN info[tag]
                            ELSE Cut(tag, TagsIn(name)[tag])
=============================================================================
