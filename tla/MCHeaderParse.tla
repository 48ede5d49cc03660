--------------------------- MODULE MCHeaderParse ----------------------------
(* Small instances of HeaderParse: integers of 5, 3 and 2 bits, a buffer for 12
   characters of a name, and blocks that differ from a regular one by a number,
   by the place of an attribute, by their lines or by their name. *)
EXTENDS HeaderParse

MCLength(piece) ==
  CASE piece.is = "stem" -> CASE piece.text = "" -> 0
                              [] piece.text = "long" -> 9
                              [] OTHER -> 2
    [] piece.is = "ext"  -> 2
    [] piece.is = "comp" -> IF piece.text = <<"">> THEN 1 ELSE 2
    [] OTHER             -> 3

(* A stem that ends with total=9. *)
MCTagsIn(text) ==
  IF \E k \in DOMAIN text : text[k].is = "stem" /\ text[k].text = "total"
  THEN [tag \in {"total"} |-> 9] ELSE <<>>

Named(stem, ext, unicode) == [stem |-> stem, ext |-> ext, unicode |-> unicode]
MCUnknown == Named("n", "", FALSE)
Usual == Named("n", ".e", FALSE)
MCNames == {Named(s, e, u) : s \in {"", "n", "total", "long"}, e \in {"", ".e"},
                             u \in BOOLEAN}
MCComps == {<<"">>, <<"c">>}

(* A block whose lines have the given attributes, pairs of tag and value.  A tag
   has two bytes, its value one or, a large checksum, two; the rest of a line has
   one, and data three. *)
Width(attribute) ==
  IF attribute[1] \in {"crc32", "pcrc32"} /\ attribute[2] > 1 THEN 4 ELSE 3
Bytes(attributes) == FoldLeft(LAMBDA n, a : n + Width(a), 0, attributes)
Make(lines, closed, attributes) ==
  LET Rest(k) == IF lines[k] = "data" THEN 3 ELSE 1
      start[k \in 1 .. Len(lines) + 1] ==
        IF k = 1 THEN 0 ELSE start[k - 1] + Bytes(attributes[k - 1]) + Rest(k - 1)
      from(k, j) == start[k] + (IF k = 1 THEN 0 ELSE Rest(k))
                    + Bytes(SubSeq(attributes[k], 1, j - 1))
  IN  [version |-> 1, lines |-> lines, closed |-> closed,
       starts |-> [k \in 1 .. Len(lines) |-> start[k]],
       size |-> start[Len(lines) + 1],
       tokens |-> FlattenSeq([k \in 1 .. Len(lines) |->
         [j \in 1 .. Len(attributes[k]) |->
            [tag |-> attributes[k][j][1], value |-> attributes[k][j][2],
             line |-> k, from |-> from(k, j), to |-> from(k, j) + 2]]])]
At(tag, values) == {<<>>} \cup {<<<<tag, v>>>> : v \in values}

(* One number, nowhere or in the header, the name, the data or the trailer. *)
Without(tag) ==
  SelectSeq(<<<<"line", 3>>, <<"size", 2>>>>, LAMBDA a : a[1] # tag)
Numbers ==
  {Make(<<"begin", "data", "end">>, TRUE,
        <<Without(tag) \o (IF place = 1 THEN <<<<tag, v>>>> ELSE <<>>)
             \o <<<<"name", Usual>>>>
             \o (IF place = 2 THEN <<<<tag, v>>>> ELSE <<>>),
           IF place = 3 THEN <<<<tag, v>>>> ELSE <<>>,
           (IF trailer THEN <<<<"size", 2>>>> ELSE <<>>)
             \o (IF place = 4 THEN <<<<tag, v>>>> ELSE <<>>)>>) :
     tag \in {"line", "size", "part", "total", "crc32", "offset", "escape",
              "escoff"},
     v \in {0, 1, 2, 4, 5, 8, 10, 23, 31, 32, 34},
     place \in 0 .. 4, trailer \in BOOLEAN}
  \cup {Make(<<"begin", "data", "end">>, TRUE,
             <<<<<<"line", 3>>, <<"size", 3>>, <<"offset", MV_DEFAULT>>,
                 <<"name", Usual>>>>, <<>>, <<<<"size", 3>>>>>>)}

(* The parts of a file, and lines that are not where they should be. *)
Parts ==
  {Make(lines, TRUE,
     [k \in 1 .. Len(lines) |->
        CASE lines[k] = "begin" -> part \o total \o Without("")
                                   \o <<<<"name", Usual>>>>
          [] lines[k] = "part"  -> begin \o (IF own THEN end ELSE <<>>)
          [] lines[k] = "end"   -> <<<<"size", 2>>>> \o trailer
                                   \o (IF own THEN <<>> ELSE end)
          [] OTHER              -> <<>>]) :
     lines \in {<<"begin", "data", "end">>, <<"begin", "part", "data", "end">>,
                <<"begin", "data", "part", "end">>},
     part \in At("part", {1, 2}), total \in At("total", {1, 3, 8}),
     begin \in At("begin", {0, 1, 3}), end \in At("end", {1, 2, 3}),
     own \in BOOLEAN,
     trailer \in {<<>>, <<<<"part", 2>>, <<"pcrc32", 1>>, <<"crc32", 2>>>>,
                  <<<<"crc32", 2>>, <<"pcrc32", 1>>>>, <<<<"part", 9>>>>}}
  \cup {Make(<<"begin", "part", "end">>, FALSE,
             <<<<<<"part", 1>>>> \o Without("") \o <<<<"name", Usual>>>>,
               <<<<"begin", 1>>>>, <<<<"size", 2>>, <<"end", 2>>>>>>)}

(* Names that are empty, long, compressed, or in the wrong line. *)
Files ==
  {Make(<<"begin", "part", "data", "end">>, TRUE,
        <<<<<<"part", 2>>>> \o total \o Without("") \o comp \o <<<<"name", n>>>>,
          <<<<"begin", 1>>, <<"end", 3>>>>, <<>>,
          <<<<"size", 3>>, <<"pcrc32", 1>>>>>>) :
     total \in At("total", {1, 3}), comp \in At("comp", MCComps),
     n \in MCNames}
  \cup {Make(<<"begin", "data", "end">>, closed,
             [<<Without(""), <<>>, <<<<"size", 2>>>>>>
              EXCEPT ![k] = @ \o <<<<"name", Usual>>>>]) :
          k \in 2 .. 3, closed \in BOOLEAN}
  \cup {Make(<<"begin", "data", "end">>, TRUE,
             <<Without(""), <<>>, <<<<"size", 2>>>>>>)}

(* Attributes before line= and size=, and little behind them. *)
Late ==
  {Make(lines, TRUE,
     [k \in 1 .. Len(lines) |->
        CASE lines[k] = "begin" ->
               (IF Len(lines) = 4 THEN <<<<"part", 1>>>> ELSE <<>>)
               \o <<<<"offset", 1>>, <<"escape", 1>>>> \o other
               \o <<<<"comp", <<"c">>>>>> \o Without("") \o <<<<"name", Usual>>>>
          [] lines[k] = "part"  -> <<<<"begin", 1>>, <<"end", 2>>>>
          [] lines[k] = "end"   -> <<<<"size", 2>>>> \o trailer
          [] OTHER              -> <<>>]) :
     lines \in {<<"begin", "data", "end">>, <<"begin", "part", "data", "end">>},
     other \in At("escoff", {1}), trailer \in At("pcrc32", {1, 2})}

MCBlocks == Numbers \cup Late \cup Parts \cup Files
         \cup {[b EXCEPT !.version = 2] : b \in Files}
MCSubjects == {<<>>, <<<<2, 3>>>>, <<<<1, 3>>, <<8, 2>>, <<32, 1>>>>}
=============================================================================
