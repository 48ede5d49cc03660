--------------------------- MODULE CombineProofs ----------------------------
(***************************************************************************)
(* For every list of attachments, whatever names contain each other and    *)
(* whatever calls fail: no part is in two of the combined attachments,     *)
(* each of them has only parts that belong to it, in their order, related  *)
(* files are joined whatever stands between them, and no attachment is     *)
(* lost from a combined message unless a call about it has failed. The     *)
(* nested loops end.                                                       *)
(***************************************************************************)
EXTENDS Combine, TLAPS

Pieces == [part : DOMAIN source, whole : BOOLEAN]

Types ==
  /\ source \in Sources
  /\ pc \in {"load", "inline", "plain", "html", "group", "gather", "end", "done"}
  /\ entries \subseteq DOMAIN source
  /\ idx \in 1 .. cAttach + 1 /\ jdx \in 1 .. cAttach + 1
  /\ stream \in [plain : Seq(Pieces), html : Seq(Pieces), attach : Seq(Pieces)]
  /\ texts \in Seq(Pieces)
  /\ bodies \in Seq([name : Names, parts : Seq(Pieces), named : BOOLEAN])
  /\ hr \in {"ok", "fail"} /\ delivered \in {"none", "combined", "source"}

(* The attachments whose data went into the text, or is on its way there. *)
TextParts == Parts(texts) \cup Parts(stream.plain) \cup Parts(stream.html)

(* The pieces of a group come in order and have names that contain its name;
   none of them may be used again, nor was in the text. *)
Ascending(pieces) ==
  \A k, l \in DOMAIN pieces : k < l => pieces[k].part < pieces[l].part

Belong(pieces, n) ==
  \A k \in DOMAIN pieces : <<Name(pieces[k].part), n>> \in Related

Used(pieces) ==
  \A k \in DOMAIN pieces : pieces[k].part \notin entries \cup TextParts

Apart(p, q) ==
  \A k \in DOMAIN p, l \in DOMAIN q : p[k].part # q[l].part

Early ==
  /\ pc = "load" => texts = <<>> /\ stream.plain = <<>> /\ stream.html = <<>>
  /\ pc \in {"load", "inline", "plain", "html"} => bodies = <<>>

Combined ==
  /\ \A b \in DOMAIN bodies : /\ Ascending(bodies[b].parts)
                              /\ Belong(bodies[b].parts, bodies[b].name)
                              /\ Used(bodies[b].parts)
  /\ \A a, b \in DOMAIN bodies : a # b => Apart(bodies[a].parts, bodies[b].parts)

Gathered ==
  pc = "gather" =>
    /\ idx <= cAttach
    /\ \A k \in DOMAIN stream.attach : stream.attach[k].part < jdx
    /\ Ascending(stream.attach)
    /\ Belong(stream.attach, Name(idx))
    /\ Used(stream.attach)
    /\ \A b \in DOMAIN bodies : Apart(stream.attach, bodies[b].parts)

IInv ==
  /\ Types /\ Early /\ Combined /\ Gathered
  /\ TextParts \cap entries = {}
-----------------------------------------------------------------------------
(* Sequences of pieces, and what appending to them does. *)
LEMMA SourceList ==
  ASSUME Types
  PROVE  /\ source \in Seq(Attachment) /\ cAttach \in Nat
         /\ DOMAIN source = 1 .. cAttach
         /\ \A i \in DOMAIN source : Name(i) \in Names
  <1>1. source \in Seq(Attachment)
    BY SourcesAssumption DEF Types
  <1>2. \A i \in DOMAIN source : source[i] \in Attachment
    BY <1>1
  <1>3. \A i \in DOMAIN source : Name(i) \in Names
    BY <1>2 DEF Attachment, Name
  <1>4. QED
    BY <1>1, <1>3 DEF cAttach

LEMMA Appended ==
  ASSUME NEW S, NEW s \in Seq(S), NEW e \in S
  PROVE  /\ Append(s, e) \in Seq(S)
         /\ DOMAIN Append(s, e) = DOMAIN s \cup {Len(s) + 1}
         /\ \A k \in DOMAIN s : Append(s, e)[k] = s[k] /\ k \in Nat /\ k < Len(s) + 1
         /\ Append(s, e)[Len(s) + 1] = e
         /\ Len(s) + 1 \notin DOMAIN s /\ Len(s) \in Nat
  OBVIOUS

LEMMA PartsOfAppended ==
  ASSUME NEW S, NEW s \in Seq(S), NEW e \in S
  PROVE  /\ Parts(Append(s, e)) \subseteq Parts(s) \cup {e.part}
         /\ ~e.whole => Parts(Append(s, e)) = Parts(s)
  <1>1. ToSet(Append(s, e)) = ToSet(s) \cup {e}
    BY Appended DEF ToSet
  <1>2. QED
    BY <1>1 DEF Parts

LEMMA PartsOfJoined ==
  ASSUME NEW S, NEW s \in Seq(S), NEW t \in Seq(S)
  PROVE  s \o t \in Seq(S) /\ Parts(s \o t) = Parts(s) \cup Parts(t)
  <1>1. s \o t \in Seq(S)
    OBVIOUS
  <1>2. ToSet(s \o t) = ToSet(s) \cup ToSet(t)
    <2>1. \A k \in DOMAIN s : k \in DOMAIN (s \o t) /\ (s \o t)[k] = s[k]
      OBVIOUS
    <2>2. \A k \in DOMAIN t :
            Len(s) + k \in DOMAIN (s \o t) /\ (s \o t)[Len(s) + k] = t[k]
      OBVIOUS
    <2>3. \A k \in DOMAIN (s \o t) :
            \/ k \in DOMAIN s
            \/ \E j \in DOMAIN t : k = Len(s) + j
      <3>1. ASSUME NEW k \in DOMAIN (s \o t), k \notin DOMAIN s
            PROVE  \E j \in DOMAIN t : k = Len(s) + j
        <4>1. k - Len(s) \in DOMAIN t /\ k = Len(s) + (k - Len(s))
          BY <3>1
        <4>2. QED
          BY <4>1
      <3>2. QED
        BY <3>1
    <2>4. ToSet(s) \subseteq ToSet(s \o t) /\ ToSet(t) \subseteq ToSet(s \o t)
      BY <2>1, <2>2 DEF ToSet
    <2>5. ASSUME NEW k \in DOMAIN (s \o t)
          PROVE  (s \o t)[k] \in ToSet(s) \cup ToSet(t)
      <3>1. CASE k \in DOMAIN s
        BY <2>1, <3>1 DEF ToSet
      <3>2. CASE \E j \in DOMAIN t : k = Len(s) + j
        BY <2>2, <3>2 DEF ToSet
      <3>3. QED
        BY <2>3, <3>1, <3>2
    <2>6. ToSet(s \o t) \subseteq ToSet(s) \cup ToSet(t)
      BY <2>5 DEF ToSet
    <2>7. QED
      BY <2>4, <2>6
  <1>3. QED
    BY <1>1, <1>2 DEF Parts

LEMMA NoParts == Parts(<<>>) = {}
  BY DEF Parts, ToSet

LEMMA InitIInv == Init => IInv
  <1> SUFFICES ASSUME Init PROVE IInv
    OBVIOUS
  <1>1. /\ source \in Sources /\ pc = "load" /\ entries = {} /\ idx = 1 /\ jdx = 1
        /\ stream = [plain |-> <<>>, html |-> <<>>, attach |-> <<>>]
        /\ texts = <<>> /\ bodies = <<>> /\ hr = "ok" /\ delivered = "none"
    BY DEF Init
  <1>2. Types
    <2>1. cAttach \in Nat
      BY <1>1, SourcesAssumption DEF cAttach
    <2>2. <<>> \in Seq(Pieces)
      OBVIOUS
    <2>3. stream \in [plain : Seq(Pieces), html : Seq(Pieces), attach : Seq(Pieces)]
      BY <1>1, <2>2
    <2>4. QED
      BY <1>1, <2>1, <2>2, <2>3 DEF Types
  <1>3. stream.plain = <<>> /\ stream.html = <<>>
    BY <1>1
  <1>4. Early /\ Combined /\ Gathered
    BY <1>1, <1>3 DEF Early, Combined, Gathered
  <1>5. TextParts \cap entries = {}
    BY <1>1
  <1>6. QED
    BY <1>2, <1>4, <1>5 DEF IInv
-----------------------------------------------------------------------------
Streams == [plain : Seq(Pieces), html : Seq(Pieces), attach : Seq(Pieces)]

LEMMA StreamFields ==
  ASSUME NEW s \in Streams
  PROVE  /\ s.plain \in Seq(Pieces) /\ s.html \in Seq(Pieces)
         /\ s.attach \in Seq(Pieces)
         /\ s = [plain |-> s.plain, html |-> s.html, attach |-> s.attach]
         /\ s["plain"] = s.plain /\ s["html"] = s.html
  BY DEF Streams

LEMMA ReplacedStream ==
  ASSUME NEW s \in Streams, NEW v \in Seq(Pieces)
  PROVE  LET p == [s EXCEPT !["plain"] = v]
             h == [s EXCEPT !["html"] = v]
         IN  /\ p \in Streams /\ p.plain = v /\ p.html = s.html
             /\ h \in Streams /\ h.plain = s.plain /\ h.html = v
  BY DEF Streams

LEMMA ExtendedStream ==
  ASSUME NEW s \in Streams, NEW kind \in {"plain", "html"}, NEW e \in Pieces
  PROVE  LET t == [s EXCEPT ![kind] = Append(@, e)]
         IN  /\ t \in Streams
             /\ t.plain = IF kind = "plain" THEN Append(s.plain, e) ELSE s.plain
             /\ t.html = IF kind = "html" THEN Append(s.html, e) ELSE s.html
  <1> DEFINE t == [s EXCEPT ![kind] = Append(@, e)]
  <1>1. /\ Append(s.plain, e) \in Seq(Pieces) /\ Append(s.html, e) \in Seq(Pieces)
        /\ s["plain"] = s.plain /\ s["html"] = s.html
    BY StreamFields, Appended
  <1>2. CASE kind = "plain"
    <2>1. t = [s EXCEPT !["plain"] = Append(s.plain, e)]
      BY <1>1, <1>2
    <2> HIDE DEF t
    <2>2. t \in Streams /\ t.plain = Append(s.plain, e) /\ t.html = s.html
      BY <1>1, <2>1, ReplacedStream
    <2>3. QED
      BY <1>2, <2>2 DEF t
  <1>3. CASE kind = "html"
    <2>1. t = [s EXCEPT !["html"] = Append(s.html, e)]
      BY <1>1, <1>3
    <2> HIDE DEF t
    <2>2. t \in Streams /\ t.plain = s.plain /\ t.html = Append(s.html, e)
      BY <1>1, <2>1, ReplacedStream
    <2>3. QED
      BY <1>3, <2>2 DEF t
  <1>4. QED
    BY <1>2, <1>3

(* What was combined stays as it is when no more attachments can be used and
   no more went into the text. *)
LEMMA CombinedKept ==
  ASSUME Combined, source' = source, bodies' = bodies,
         entries' \cup TextParts' \subseteq entries \cup TextParts
  PROVE  Combined'
  BY DEF Combined, Ascending, Belong, Used, Apart, Name

LEMMA LoadStep ==
  ASSUME IInv, Load
  PROVE  IInv'
  <1>1. /\ source' = source /\ idx' = idx /\ jdx' = jdx /\ stream' = stream
        /\ texts' = texts /\ bodies' = bodies /\ delivered' = delivered
        /\ \/ pc' = "end" /\ hr' = "fail" /\ entries' = entries
           \/ pc' = "inline" /\ hr' = "ok" /\ entries' = 1 .. cAttach
        /\ bodies = <<>>
    BY DEF Load, Goto, IInv, Early
  <1>2. Types'
    BY <1>1, SourceList DEF IInv, Types, cAttach, Pieces
  <1>3. Early' /\ Combined' /\ Gathered'
    BY <1>1 DEF Early, Combined, Gathered
  <1>4. TextParts' = {}
    BY <1>1, NoParts DEF TextParts, IInv, Early, Load
  <1>5. QED
    BY <1>2, <1>3, <1>4 DEF IInv

LEMMA InlineStep ==
  ASSUME IInv, Inline
  PROVE  IInv'
  <1>1. /\ source' = source /\ jdx' = jdx /\ texts' = texts /\ bodies' = bodies
        /\ delivered' = delivered /\ idx' = idx + 1 /\ idx <= cAttach
        /\ pc' = "inline" /\ hr' \in {"ok", "fail"} /\ bodies = <<>>
    BY DEF Inline, Inlines, Goto, IInv, Early
  <1>2. /\ source \in Seq(Attachment) /\ cAttach \in Nat /\ idx \in 1 .. cAttach
        /\ idx \in DOMAIN source /\ stream \in Streams
    BY <1>1, SourceList DEF IInv, Types, Streams
  <1>3. \/ entries' = entries /\ stream' = stream
        \/ \E whole \in BOOLEAN :
             /\ IsText(idx)
             /\ entries' = IF whole THEN entries \ {idx} ELSE entries
             /\ stream' = [stream EXCEPT ![source[idx].kind]
                                           = Append(@, Piece(idx, whole))]
    BY DEF Inline, Inlines
  <1>4. /\ stream' \in Streams /\ entries' \subseteq DOMAIN source
        /\ TextParts' \cap entries' = {}
    <2>1. CASE entries' = entries /\ stream' = stream
      BY <1>1, <1>2, <2>1 DEF IInv, Types, TextParts, Parts
    <2>2. ASSUME NEW whole \in BOOLEAN,
                 IsText(idx),
                 entries' = (IF whole THEN entries \ {idx} ELSE entries),
                 stream' = [stream EXCEPT ![source[idx].kind]
                                            = Append(@, Piece(idx, whole))]
          PROVE  /\ stream' \in Streams /\ entries' \subseteq DOMAIN source
                 /\ TextParts' \cap entries' = {}
      <3> DEFINE e == Piece(idx, whole)
                 kind == source[idx].kind
      <3>1. e \in Pieces /\ e.part = idx /\ e.whole = whole
        BY <1>2 DEF Pieces, Piece
      <3>2. kind \in {"plain", "html"}
        BY <2>2 DEF IsText
      <3> HIDE DEF e, kind
      <3>3. stream' = [stream EXCEPT ![kind] = Append(@, e)]
        BY <2>2 DEF e, kind
      <3>4. /\ stream' \in Streams
            /\ stream'.plain = IF kind = "plain" THEN Append(stream.plain, e)
                                                 ELSE stream.plain
            /\ stream'.html = IF kind = "html" THEN Append(stream.html, e)
                                               ELSE stream.html
        BY <1>2, <3>1, <3>2, <3>3, ExtendedStream, ZenonT(60)
      <3>5. /\ Parts(stream'.plain) \subseteq
                 Parts(stream.plain) \cup (IF whole THEN {idx} ELSE {})
            /\ Parts(stream'.html) \subseteq
                 Parts(stream.html) \cup (IF whole THEN {idx} ELSE {})
        BY <1>2, <3>1, <3>4, StreamFields, PartsOfAppended
      <3>6. TextParts' \subseteq TextParts \cup (IF whole THEN {idx} ELSE {})
        BY <1>1, <3>5 DEF TextParts, Parts
      <3>7. QED
        BY <2>2, <3>4, <3>6 DEF IInv, Types
    <2>3. QED
      BY <1>3, <2>1, <2>2
  <1>5. Types'
    BY <1>1, <1>2, <1>4, SMTT(30) DEF IInv, Types, cAttach, Pieces, Streams
  <1>6. Early' /\ Combined' /\ Gathered'
    BY <1>1 DEF Early, Combined, Gathered
  <1>7. QED
    BY <1>4, <1>5, <1>6 DEF IInv

LEMMA InlinedStep ==
  ASSUME IInv, Inlined
  PROVE  IInv'
  <1>1. /\ source' = source /\ entries' = entries /\ jdx' = jdx /\ stream' = stream
        /\ texts' = texts /\ bodies' = bodies /\ delivered' = delivered
        /\ idx' = 1 /\ pc' = "plain" /\ hr' = hr /\ bodies = <<>>
    BY DEF Inlined, Goto, IInv, Early
  <1>2. Types'
    BY <1>1, SourceList DEF IInv, Types, cAttach, Pieces
  <1>3. Early' /\ Combined' /\ Gathered'
    BY <1>1 DEF Early, Combined, Gathered
  <1>4. TextParts' \cap entries' = {}
    BY <1>1 DEF IInv, TextParts, Parts
  <1>5. QED
    BY <1>2, <1>3, <1>4 DEF IInv

LEMMA AppendTextStreamStep ==
  ASSUME IInv, NEW kind \in {"plain", "html"}, NEW next \in {"html", "group"},
         AppendTextStream(kind, next)
  PROVE  IInv'
  <1>1. /\ source' = source /\ entries' = entries /\ idx' = idx /\ jdx' = jdx
        /\ stream' = stream /\ bodies' = bodies /\ delivered' = delivered
        /\ pc' = next /\ hr' \in {hr, "ok", "fail"} /\ bodies = <<>>
        /\ texts' = texts \/ texts' = texts \o stream[kind]
    BY DEF AppendTextStream, Goto, IInv, Early
  <1>2. /\ stream \in Streams /\ texts \in Seq(Pieces)
        /\ stream[kind] \in Seq(Pieces)
        /\ Parts(stream[kind]) \subseteq Parts(stream.plain) \cup Parts(stream.html)
    <2>1. stream \in Streams /\ texts \in Seq(Pieces)
      BY DEF IInv, Types, Streams
    <2>2. stream[kind] = stream.plain \/ stream[kind] = stream.html
      BY <2>1, StreamFields
    <2>3. QED
      BY <2>1, <2>2, StreamFields
  <1>3. /\ texts' \in Seq(Pieces)
        /\ Parts(texts') \subseteq Parts(texts) \cup Parts(stream[kind])
    <2>1. /\ texts \o stream[kind] \in Seq(Pieces)
          /\ Parts(texts \o stream[kind]) = Parts(texts) \cup Parts(stream[kind])
      <3>1. /\ texts \o stream.plain \in Seq(Pieces)
            /\ Parts(texts \o stream.plain) = Parts(texts) \cup Parts(stream.plain)
            /\ texts \o stream.html \in Seq(Pieces)
            /\ Parts(texts \o stream.html) = Parts(texts) \cup Parts(stream.html)
        BY <1>2, StreamFields, PartsOfJoined
      <3>2. stream[kind] = stream.plain \/ stream[kind] = stream.html
        BY <1>2, StreamFields
      <3>3. QED
        BY <3>1, <3>2
    <2>2. QED
      BY <1>1, <1>2, <2>1, Zenon
  <1>4. TextParts' \subseteq TextParts
    BY <1>1, <1>2, <1>3 DEF TextParts, Parts
  <1>5. Types'
    BY <1>1, <1>3 DEF IInv, Types, cAttach, Pieces
  <1>6. Early' /\ Combined' /\ Gathered'
    BY <1>1 DEF Early, Combined, Gathered
  <1>7. QED
    BY <1>1, <1>4, <1>5, <1>6 DEF IInv
-----------------------------------------------------------------------------
(* When the text is done nothing more goes there. *)
LEMMA TextDone ==
  ASSUME source' = source, texts' = texts, stream'.plain = stream.plain,
         stream'.html = stream.html
  PROVE  TextParts' = TextParts
  BY DEF TextParts, Parts

LEMMA GroupStep ==
  ASSUME IInv, Group
  PROVE  IInv'
  <1>1. /\ source' = source /\ entries' = entries /\ texts' = texts
        /\ bodies' = bodies /\ delivered' = delivered
        /\ pc = "group" /\ idx <= cAttach /\ hr' \in {hr, "ok", "fail"}
        /\ \/ /\ pc' \in {"group", "end"} /\ idx' \in {idx, idx + 1}
              /\ jdx' = jdx /\ stream' = stream
           \/ /\ pc' = "gather" /\ idx' = idx /\ jdx' = idx
              /\ stream' = [stream EXCEPT !.attach = <<>>]
    BY DEF Group, Goto, First
  <1>2. /\ cAttach \in Nat /\ idx \in 1 .. cAttach /\ stream \in Streams
        /\ <<>> \in Seq(Pieces)
    BY <1>1, SourceList DEF IInv, Types, Streams
  <1>3. /\ stream' \in Streams
        /\ stream'.plain = stream.plain /\ stream'.html = stream.html
        /\ pc' = "gather" => stream'.attach = <<>>
    BY <1>1, <1>2 DEF Streams
  <1>4. TextParts' = TextParts
    BY <1>1, <1>3, TextDone
  <1>5. Types'
    BY <1>1, <1>2, <1>3 DEF IInv, Types, cAttach, Pieces, Streams
  <1>6. Combined'
    BY <1>1, <1>4, CombinedKept DEF IInv
  <1>7. Early'
    BY <1>1 DEF Early
  <1>8. Gathered'
    BY <1>1, <1>3 DEF Gathered, Ascending, Belong, Used, Apart, cAttach
  <1>9. QED
    BY <1>1, <1>4, <1>5, <1>6, <1>7, <1>8 DEF IInv

LEMMA GatherStep ==
  ASSUME IInv, Gather
  PROVE  IInv'
  <1>1. /\ source' = source /\ idx' = idx /\ texts' = texts /\ bodies' = bodies
        /\ delivered' = delivered /\ pc = "gather" /\ pc' = "gather" /\ hr' = "ok"
        /\ jdx \in entries /\ Match(jdx) /\ entries' = entries \ {jdx}
        /\ jdx' = jdx + 1
        /\ \/ stream' = stream
           \/ \E whole \in BOOLEAN :
                stream' = [stream EXCEPT !.attach = Append(@, Piece(jdx, whole))]
    BY DEF Gather, Goto
  <1>2. /\ cAttach \in Nat /\ jdx \in 1 .. cAttach /\ jdx \in DOMAIN source
        /\ stream \in Streams /\ stream.attach \in Seq(Pieces)
    BY <1>1, SourceList, StreamFields DEF IInv, Types, Streams
  <1>3. /\ stream' \in Streams
        /\ stream'.plain = stream.plain /\ stream'.html = stream.html
        /\ \/ stream'.attach = stream.attach
           \/ \E whole \in BOOLEAN :
                stream'.attach = Append(stream.attach, Piece(jdx, whole))
    <2>1. CASE stream' = stream
      BY <1>2, <2>1
    <2>2. ASSUME NEW whole \in BOOLEAN,
                 stream' = [stream EXCEPT !.attach = Append(@, Piece(jdx, whole))]
          PROVE  /\ stream' \in Streams
                 /\ stream'.plain = stream.plain /\ stream'.html = stream.html
                 /\ stream'.attach = Append(stream.attach, Piece(jdx, whole))
      <3> DEFINE v == Append(stream.attach, Piece(jdx, whole))
      <3>1. Piece(jdx, whole) \in Pieces
        BY <1>2 DEF Piece, Pieces
      <3>2. v \in Seq(Pieces)
        BY <1>2, <3>1, Appended
      <3>3. stream' = [stream EXCEPT !.attach = v]
        BY <2>2
      <3> HIDE DEF v
      <3>4. QED
        BY <1>2, <3>2, <3>3 DEF Streams, v
    <2>3. QED
      BY <1>1, <2>1, <2>2
  <1>4. TextParts' = TextParts
    BY <1>1, <1>3, TextDone
  <1>5. Types'
    BY <1>1, <1>2, <1>3 DEF IInv, Types, cAttach, Pieces, Streams
  <1>6. Combined'
    BY <1>1, <1>4, CombinedKept DEF IInv
  <1>7. Early'
    BY <1>1 DEF Early
  <1>8. Gathered'
    <2> DEFINE s == stream.attach
               t == stream'.attach
    <2>1. /\ idx <= cAttach
          /\ \A k \in DOMAIN s : s[k].part < jdx
          /\ Ascending(s) /\ Belong(s, Name(idx)) /\ Used(s)
          /\ \A b \in DOMAIN bodies : Apart(s, bodies[b].parts)
      BY <1>1 DEF IInv, Gathered
    <2>2. /\ DOMAIN s \subseteq Nat /\ \A k \in DOMAIN s : s[k].part \in 1 .. cAttach
      <3>1. ASSUME NEW k \in DOMAIN s PROVE k \in Nat /\ s[k] \in Pieces
        BY <1>2
      <3>2. \A p \in Pieces : p.part \in 1 .. cAttach
        BY SourceList DEF Pieces, IInv
      <3>3. QED
        BY <3>1, <3>2
    <2>3. \E n \in Nat :
            /\ DOMAIN t \subseteq DOMAIN s \cup {n}
            /\ n \in DOMAIN t => t[n].part = jdx
            /\ \A k \in DOMAIN s : k < n /\ t[k] = s[k]
      <3>1. CASE t = s
        <4>1. Len(s) + 1 \in Nat /\ Len(s) + 1 \notin DOMAIN s
              /\ \A k \in DOMAIN s : k < Len(s) + 1
          BY <1>2
        <4>2. QED
          BY <3>1, <4>1
      <3>2. ASSUME NEW whole \in BOOLEAN, t = Append(s, Piece(jdx, whole))
            PROVE  /\ DOMAIN t \subseteq DOMAIN s \cup {Len(s) + 1}
                   /\ t[Len(s) + 1].part = jdx /\ Len(s) + 1 \in Nat
                   /\ \A k \in DOMAIN s : k < Len(s) + 1 /\ t[k] = s[k]
        <4>1. Piece(jdx, whole) \in Pieces /\ Piece(jdx, whole).part = jdx
          BY <1>2 DEF Piece, Pieces
        <4>2. QED
          BY <1>2, <3>2, <4>1, Appended
      <3>3. QED
        BY <1>3, <3>1, <3>2
    <2>4. PICK n \in Nat :
            /\ DOMAIN t \subseteq DOMAIN s \cup {n}
            /\ n \in DOMAIN t => t[n].part = jdx
            /\ \A k \in DOMAIN s : k < n /\ t[k] = s[k]
      BY <2>3
    <2> HIDE DEF s, t
    <2>5. \A k \in DOMAIN t : \/ k = n /\ t[k].part = jdx
                              \/ k \in DOMAIN s /\ k < n /\ t[k] = s[k]
      BY <2>4
    <2>6. \A k \in DOMAIN t : t[k].part < jdx'
      BY <1>1, <1>2, <2>1, <2>2, <2>5
    <2>7. Ascending(t)
      BY <1>2, <2>1, <2>2, <2>5 DEF Ascending
    <2>8. \A k \in DOMAIN t : <<Name(t[k].part), Name(idx)>> \in Related
      BY <1>1, <2>1, <2>5 DEF Belong, Match
    <2>9. \A k \in DOMAIN t : t[k].part \notin entries' \cup TextParts'
      BY <1>1, <1>4, <2>1, <2>5 DEF Used, IInv
    <2>10. \A b \in DOMAIN bodies : Apart(t, bodies[b].parts)
      BY <1>1, <2>1, <2>5 DEF Apart, IInv, Combined, Used
    <2>11. Belong(stream.attach, Name(idx))'
      BY <1>1, <2>8 DEF Belong, Name, t
    <2>12. Used(stream.attach)'
      BY <2>9 DEF Used, t
    <2>13. Ascending(stream.attach)'
      BY <2>7 DEF Ascending, t
    <2>14. /\ \A k \in DOMAIN stream'.attach : stream'.attach[k].part < jdx'
           /\ \A b \in DOMAIN bodies' : Apart(stream'.attach, bodies'[b].parts)
           /\ idx' <= cAttach'
      BY <1>1, <2>1, <2>6, <2>10 DEF t, cAttach
    <2>15. QED
      BY <2>11, <2>12, <2>13, <2>14 DEF Gathered, Apart
  <1>9. QED
    BY <1>1, <1>4, <1>5, <1>6, <1>7, <1>8 DEF IInv

LEMMA SkipStep ==
  ASSUME IInv, Skip
  PROVE  IInv'
  <1>1. /\ source' = source /\ entries' = entries /\ idx' = idx
        /\ stream' = stream /\ texts' = texts /\ bodies' = bodies
        /\ delivered' = delivered /\ pc = "gather" /\ pc' = "gather" /\ hr' = "ok"
        /\ jdx <= cAttach /\ jdx' = jdx + 1
    BY DEF Skip, Goto
  <1>2. /\ cAttach \in Nat /\ jdx \in 1 .. cAttach
        /\ stream.attach \in Seq(Pieces) /\ source' = source
    BY <1>1, SourceList DEF IInv, Types
  <1>3. TextParts' = TextParts
    BY <1>1, TextDone
  <1>4. Types'
    BY <1>1, <1>2 DEF IInv, Types, cAttach, Pieces
  <1>5. Combined' /\ Early'
    BY <1>1, <1>3, CombinedKept DEF IInv, Early
  <1>6. \A k \in DOMAIN stream.attach : stream.attach[k].part < jdx + 1
    <2>1. ASSUME NEW k \in DOMAIN stream.attach
          PROVE  stream.attach[k].part < jdx + 1
      <3>1. stream.attach[k] \in Pieces
        BY <1>2
      <3>2. stream.attach[k].part \in 1 .. cAttach
        BY <3>1, SourceList DEF Pieces, IInv
      <3>3. stream.attach[k].part < jdx
        BY <1>1 DEF IInv, Gathered
      <3>4. QED
        BY <1>2, <3>2, <3>3
    <2>2. QED
      BY <2>1
  <1>7. Gathered'
    BY <1>1, <1>3, <1>6
       DEF IInv, Gathered, Ascending, Belong, Used, Apart, Name, cAttach
  <1>8. QED
    BY <1>1, <1>3, <1>4, <1>5, <1>7 DEF IInv

LEMMA AttachObjectStep ==
  ASSUME IInv, AttachObject
  PROVE  IInv'
  <1>1. /\ source' = source /\ entries' = entries /\ jdx' = jdx
        /\ stream' = stream /\ texts' = texts /\ delivered' = delivered
        /\ pc = "gather" /\ pc' = "group" /\ hr' \in {"ok", "fail"}
        /\ idx' = idx + 1
        /\ \/ bodies' = bodies
           \/ \E named \in BOOLEAN : bodies' = Append(bodies, Body(named))
    BY DEF AttachObject, Goto
  <1> DEFINE Bodies == [name : Names, parts : Seq(Pieces), named : BOOLEAN]
  <1>2. /\ cAttach \in Nat /\ idx \in 1 .. cAttach /\ Name(idx) \in Names
        /\ stream.attach \in Seq(Pieces) /\ bodies \in Seq(Bodies)
    BY <1>1, SourceList DEF IInv, Types, Gathered
  <1>3. TextParts' = TextParts
    BY <1>1, TextDone
  <1>4. CASE bodies' = bodies
    <2>1. Types'
      BY <1>1, <1>2, <1>4 DEF IInv, Types, cAttach, Pieces
    <2>2. Combined'
      BY <1>1, <1>3, <1>4, CombinedKept DEF IInv
    <2>3. Early' /\ Gathered'
      BY <1>1 DEF Early, Gathered
    <2>4. QED
      BY <1>1, <1>3, <2>1, <2>2, <2>3 DEF IInv
  <1>5. ASSUME NEW named \in BOOLEAN, bodies' = Append(bodies, Body(named))
        PROVE  IInv'
    <2> DEFINE x == Body(named)
               n == Len(bodies) + 1
    <2>1. /\ x \in Bodies /\ x.parts = stream.attach /\ x.name = Name(idx)
      BY <1>2 DEF Body
    <2> HIDE DEF x, Bodies
    <2>2. /\ bodies' \in Seq(Bodies)
          /\ DOMAIN bodies' = DOMAIN bodies \cup {n}
          /\ \A b \in DOMAIN bodies : bodies'[b] = bodies[b] /\ b # n
          /\ bodies'[n] = x
      <3>1. bodies' = Append(bodies, x)
        BY <1>5 DEF x
      <3>2. QED
        BY <1>2, <2>1, <3>1, Appended
    <2> HIDE DEF n
    <2>3. Types'
      BY <1>1, <1>2, <2>2 DEF IInv, Types, cAttach, Pieces, Bodies
    <2>4. /\ Ascending(stream.attach) /\ Belong(stream.attach, Name(idx))
          /\ Used(stream.attach)
          /\ \A b \in DOMAIN bodies : Apart(stream.attach, bodies[b].parts)
      BY <1>1 DEF IInv, Gathered
    <2>5. ASSUME NEW b \in DOMAIN bodies'
          PROVE  /\ Ascending(bodies'[b].parts)
                 /\ Belong(bodies'[b].parts, bodies'[b].name)
                 /\ Used(bodies'[b].parts)
      BY <2>1, <2>2, <2>4 DEF IInv, Combined
    <2>6. ASSUME NEW a \in DOMAIN bodies', NEW b \in DOMAIN bodies', a # b
          PROVE  Apart(bodies'[a].parts, bodies'[b].parts)
      <3>1. CASE a # n /\ b # n
        BY <2>2, <2>6, <3>1 DEF IInv, Combined
      <3>2. CASE a = n
        BY <2>1, <2>2, <2>4, <2>6, <3>2
      <3>3. CASE b = n
        <4>1. Apart(bodies'[b].parts, bodies'[a].parts)
          BY <2>1, <2>2, <2>4, <2>6, <3>3
        <4>2. QED
          BY <4>1 DEF Apart
      <3>4. QED
        BY <3>1, <3>2, <3>3
    <2>7. Combined'
      BY <1>1, <1>3, <2>5, <2>6 DEF Combined, Ascending, Belong, Used, Apart, Name
    <2>8. Early' /\ Gathered'
      BY <1>1 DEF Early, Gathered
    <2>9. QED
      BY <1>1, <1>3, <2>3, <2>7, <2>8 DEF IInv
  <1>6. QED
    BY <1>1, <1>4, <1>5

LEMMA DeliverStep ==
  ASSUME IInv, Deliver
  PROVE  IInv'
  <1>1. /\ source' = source /\ entries' = entries /\ idx' = idx /\ jdx' = jdx
        /\ stream' = stream /\ texts' = texts /\ bodies' = bodies
        /\ delivered' \in {"combined", "source"} /\ pc' = "done" /\ hr' = hr
    BY DEF Deliver, Goto
  <1>2. TextParts' = TextParts
    BY <1>1, TextDone
  <1>3. Types'
    BY <1>1 DEF IInv, Types, cAttach, Pieces
  <1>4. Combined' /\ Early' /\ Gathered'
    BY <1>1, <1>2, CombinedKept DEF IInv, Early, Gathered
  <1>5. QED
    BY <1>1, <1>2, <1>3, <1>4 DEF IInv
-----------------------------------------------------------------------------
(* Every step of the combination keeps the invariant. *)
LEMMA StepsIInv == IInv /\ [Next]_vars => IInv'
  <1> SUFFICES ASSUME IInv, [Next]_vars PROVE IInv'
    OBVIOUS
  <1>1. CASE UNCHANGED vars
    <2>1. /\ source' = source /\ pc' = pc /\ entries' = entries /\ idx' = idx
          /\ jdx' = jdx /\ stream' = stream /\ texts' = texts /\ bodies' = bodies
          /\ hr' = hr /\ delivered' = delivered
      BY <1>1 DEF vars
    <2>2. TextParts' = TextParts
      BY <2>1, TextDone
    <2>3. Types' /\ Early' /\ Combined'
      BY <2>1, <2>2, CombinedKept DEF IInv, Types, Early, cAttach, Pieces
    <2>4. Gathered'
      BY <2>1, <2>2 DEF IInv, Gathered, Belong, Used, Name, cAttach, Ascending, Apart
    <2>5. QED
      BY <2>1, <2>2, <2>3, <2>4 DEF IInv
  <1>2. CASE Load
    BY <1>2, LoadStep
  <1>3. CASE Inline
    BY <1>3, InlineStep
  <1>4. CASE Inlined
    BY <1>4, InlinedStep
  <1>5. CASE AppendTextStream("plain", "html") \/ AppendTextStream("html", "group")
    BY <1>5, AppendTextStreamStep
  <1>6. CASE Group
    BY <1>6, GroupStep
  <1>7. CASE Gather
    BY <1>7, GatherStep
  <1>8. CASE Skip
    BY <1>8, SkipStep
  <1>9. CASE AttachObject
    BY <1>9, AttachObjectStep
  <1>10. CASE Deliver
    BY <1>10, DeliverStep
  <1>11. QED
    BY <1>1, <1>2, <1>3, <1>4, <1>5, <1>6, <1>7, <1>8, <1>9, <1>10 DEF Next

LEMMA IInvInvariant == Spec => []IInv
  BY InitIInv, StepsIInv, PTL DEF Spec

(* The parts of a sequence of pieces are the parts of some of its members. *)
LEMMA PartIsMember ==
  ASSUME NEW pieces, NEW i \in Parts(pieces)
  PROVE  \E k \in DOMAIN pieces : pieces[k].part = i
  BY DEF Parts, ToSet

(* The lists, counters and streams of the combination keep their types, and a
   part that was taken is cleared from the list. *)
THEOREM TypeCorrect == Spec => []TypeOK
  <1>1. IInv => TypeOK
    <2> SUFFICES ASSUME IInv PROVE TypeOK
      OBVIOUS
    <2>1. /\ stream \in Streams /\ texts \in Seq(Pieces)
      BY DEF IInv, Types, Streams
    <2>2. \A s \in Seq(Pieces) : ToSet(s) \subseteq Pieces
      BY DEF ToSet
    <2>3. \A kind \in DOMAIN stream : stream[kind] \in Seq(Pieces)
      BY <2>1 DEF Streams
    <2>4. \A kind \in DOMAIN stream : ToSet(stream[kind]) \subseteq Pieces
      BY <2>2, <2>3
    <2>5. ASSUME pc = "gather", NEW i \in Parts(stream.attach)
          PROVE  i \notin entries
      BY <2>5, PartIsMember DEF IInv, Gathered, Used
    <2>6. QED
      BY <2>1, <2>2, <2>4, <2>5 DEF IInv, Types, TypeOK, Pieces
  <1>2. QED
    BY <1>1, IInvInvariant, PTL

(* A combined attachment, as a sequence of pieces. *)
LEMMA BodyParts ==
  ASSUME IInv, NEW b \in DOMAIN bodies
  PROVE  /\ bodies[b].parts \in Seq(Pieces)
         /\ Ascending(bodies[b].parts)
         /\ Belong(bodies[b].parts, bodies[b].name)
  <1> DEFINE Bodies == [name : Names, parts : Seq(Pieces), named : BOOLEAN]
  <1>1. bodies \in Seq(Bodies)
    BY DEF IInv, Types
  <1>2. bodies[b].parts \in Seq(Pieces)
    <2>1. ASSUME NEW r \in Bodies PROVE r.parts \in Seq(Pieces)
      OBVIOUS
    <2> HIDE DEF Bodies
    <2>2. bodies[b] \in Bodies
      BY <1>1
    <2>3. QED
      BY <2>1, <2>2
  <1>3. QED
    BY <1>2 DEF IInv, Combined

(* Whatever fails, _CombineRelatedAttachments puts the data of no attachment in
   two of the combined ones, twice in one, or in one and in the text. *)
THEOREM NoPartIsUsedTwice == Spec => []NoPartTwice
  <1>1. IInv => NoPartTwice
    <2> SUFFICES ASSUME IInv PROVE NoPartTwice
      OBVIOUS
    <2>1. ASSUME NEW x \in InBodies
          PROVE  /\ x[1] \in DOMAIN bodies
                 /\ \E k \in DOMAIN bodies[x[1]].parts :
                      bodies[x[1]].parts[k].part = x[2]
      BY PartIsMember DEF InBodies
    <2>2. ASSUME NEW x \in InBodies, NEW y \in InBodies, x[2] = y[2]
          PROVE  x[1] = y[1]
      BY <2>1, <2>2 DEF IInv, Combined, Apart
    <2>3. ASSUME NEW x \in InBodies
          PROVE  x[2] \notin Parts(texts)
      BY <2>1 DEF IInv, Combined, Used, TextParts
    <2>4. ASSUME NEW b \in DOMAIN bodies
          PROVE  IsInjective(bodies[b].parts)
      <3> DEFINE p == bodies[b].parts
      <3>1. p \in Seq(Pieces) /\ Ascending(p)
        BY BodyParts
      <3> HIDE DEF p
      <3>2. ASSUME NEW k \in DOMAIN p, NEW l \in DOMAIN p, k # l
            PROVE  p[k] # p[l]
        <4>1. k \in Nat /\ l \in Nat /\ p[k] \in Pieces /\ p[l] \in Pieces
          BY <3>1
        <4>2. p[k].part \in Nat /\ p[l].part \in Nat
          BY <4>1, SourceList DEF Pieces, IInv
        <4>3. p[k].part < p[l].part \/ p[l].part < p[k].part
          BY <3>1, <3>2, <4>1 DEF Ascending
        <4>4. QED
          BY <4>2, <4>3
      <3>3. QED
        BY <3>2 DEF IsInjective, p
    <2>5. QED
      BY <2>2, <2>3, <2>4 DEF NoPartTwice
  <1>2. QED
    BY <1>1, IInvInvariant, PTL

(* Whatever fails, a combined attachment has only parts whose names contain its
   name, in the order of the source. *)
THEOREM CombinedAttachmentsBelong == Spec => []JoinedByName
  <1>1. IInv => JoinedByName
    <2> SUFFICES ASSUME IInv, NEW b \in DOMAIN bodies
                 PROVE  LET parts == bodies[b].parts
                        IN  /\ \A p \in ToSet(parts) :
                                 <<Name(p.part), bodies[b].name>> \in Related
                            /\ \A k \in 1 .. Len(parts) - 1 :
                                 parts[k].part < parts[k + 1].part
      BY DEF JoinedByName
    <2> DEFINE parts == bodies[b].parts
    <2>1. /\ parts \in Seq(Pieces) /\ Ascending(parts)
          /\ Belong(parts, bodies[b].name)
      BY BodyParts
    <2>2. \A p \in ToSet(parts) : <<Name(p.part), bodies[b].name>> \in Related
      BY <2>1 DEF Belong, ToSet
    <2> HIDE DEF parts
    <2>3. \A k \in 1 .. Len(parts) - 1 : parts[k].part < parts[k + 1].part
      BY <2>1 DEF Ascending
    <2>4. QED
      BY <2>2, <2>3 DEF parts
  <1>2. QED
    BY <1>1, IInvInvariant, PTL
-----------------------------------------------------------------------------
(* The attachments that a sequence of pieces has data of. *)
Of(pieces) == {pieces[k].part : k \in DOMAIN pieces}

(* An attachment that the search for a group could not look at. *)
Missed(j) == <<"BindPart", j>> \in failed \/ <<"Query", j>> \in failed

(* The group b was named by the attachment g, and the list was searched from
   there: what belonged to the group is in no later one. *)
SweptFrom(b, g) ==
  /\ Name(g) = bodies[b].name
  /\ \A i \in Of(bodies[b].parts) : g <= i
  /\ \A j \in DOMAIN source :
       g <= j /\ <<Name(j), Name(g)>> \in Related /\ ~Missed(j) =>
         /\ j \notin entries
         /\ \A c \in DOMAIN bodies : b < c => j \notin Of(bodies[c].parts)
         /\ pc = "gather" => j \notin Of(stream.attach)

Swept == \A b \in DOMAIN bodies : \E g \in DOMAIN source : SweptFrom(b, g)

(* The same of the search that is under way. *)
Sweeping ==
  pc = "gather" =>
    /\ idx <= jdx
    /\ \A i \in Of(stream.attach) : idx <= i
    /\ \A j \in DOMAIN source :
         idx <= j /\ j < jdx /\ <<Name(j), Name(idx)>> \in Related /\ ~Missed(j)
           => j \notin entries

(* Where the data of an attachment is while the functions run: still in the
   list, unless the loop has passed it after a call about it has failed; in the
   text, or in the group that is being gathered; in a combined attachment; or it
   was lost in a way that LostOnlyOnFailure allows. *)
Reported(i) ==
  \E call \in {"Name", "BindPart", "Query", "Data"} : <<call, i>> \in failed

Passed(i) ==
  \/ pc = "group" /\ i < idx
  \/ pc = "gather" /\ (i < idx \/ (i = idx /\ idx < jdx))

InList(i) == i \in entries /\ (Passed(i) => Reported(i))

Appending(kind) ==
  pc \in {"inline", "plain"} \/ (kind = "html" /\ pc = "html")

InText(i) ==
  LET kind == source[i].kind
  IN  /\ IsText(i) /\ i \in Parts(stream[kind])
      /\ \/ Appending(kind)
         \/ i \in Parts(texts)
         \/ <<"AppendText", kind>> \in failed

InGroup(i) == pc = "gather" /\ i \in Parts(stream.attach)

InBody(i) == \E b \in DOMAIN bodies : <<b, i>> \in InBodies

Accounted(i) ==
  \/ InList(i) \/ InText(i) \/ InGroup(i) \/ InBody(i)
  \/ Reported(i) \/ LostWithGroup(i)

Accounts ==
  /\ pc \in {"inline", "plain", "html", "group", "gather"} =>
       \A i \in DOMAIN source : Accounted(i)
  /\ pc \in {"plain", "html"} => idx = 1
  /\ pc = "end" => hr = "fail"
  /\ pc # "done" => delivered = "none"
  /\ LostOnlyOnFailure
-----------------------------------------------------------------------------
LEMMA OfAppended ==
  ASSUME NEW S, NEW s \in Seq(S), NEW e \in S
  PROVE  Of(Append(s, e)) = Of(s) \cup {e.part}
  BY Appended DEF Of

LEMMA NoPieces == Of(<<>>) = {} /\ DOMAIN <<>> = {}
  BY DEF Of

(* What a search has settled stays so while no combined attachment is added,
   the list does not grow and what is gathered comes from it. *)
LEMMA SweptKept ==
  ASSUME Swept, source' = source, bodies' = bodies, entries' \subseteq entries,
         failed \subseteq failed',
         pc' = "gather" =>
           \A i \in Of(stream'.attach) :
             i \in entries \/ (pc = "gather" /\ i \in Of(stream.attach))
  PROVE  Swept'
  <1> SUFFICES ASSUME NEW b \in DOMAIN bodies
               PROVE  \E g \in DOMAIN source : SweptFrom(b, g)'
    BY DEF Swept
  <1>1. PICK g \in DOMAIN source : SweptFrom(b, g)
    BY DEF Swept
  <1>2. /\ (Name(g) = bodies[b].name)'
        /\ \A i \in Of(bodies'[b].parts) : g <= i
    BY <1>1 DEF SweptFrom, Name
  <1>3. ASSUME NEW j \in DOMAIN source,
               g <= j, <<source'[j].name, source'[g].name>> \in Related,
               ~Missed(j)'
        PROVE  /\ j \notin entries'
               /\ \A c \in DOMAIN bodies : b < c => j \notin Of(bodies'[c].parts)
               /\ pc' = "gather" => j \notin Of(stream'.attach)
    <2>1. /\ j \notin entries
          /\ \A c \in DOMAIN bodies : b < c => j \notin Of(bodies[c].parts)
          /\ pc = "gather" => j \notin Of(stream.attach)
      BY <1>1, <1>3 DEF SweptFrom, Missed, Name
    <2>2. QED
      BY <2>1
  <1>4. SweptFrom(b, g)'
    BY <1>2, <1>3 DEF SweptFrom, Name
  <1>5. QED
    BY <1>4

LEMMA GroupSweeps ==
  ASSUME IInv, Swept, Group
  PROVE  Swept' /\ Sweeping'
  <1>1. /\ source' = source /\ entries' = entries /\ bodies' = bodies
        /\ failed \subseteq failed'
        /\ pc' = "gather" => /\ idx' = idx /\ jdx' = idx
                            /\ stream' = [stream EXCEPT !.attach = <<>>]
    BY DEF Group, Goto, First, Fails, Works
  <1>2. pc' = "gather" => Of(stream'.attach) = {}
    BY <1>1, NoPieces DEF IInv, Types
  <1>3. \A j \in DOMAIN source : ~(idx <= j /\ j < idx)
    BY SourceList DEF IInv, Types
  <1>4. Swept'
    BY <1>1, <1>2, SweptKept
  <1>5. Sweeping'
    BY <1>1, <1>2, <1>3, SourceList DEF Sweeping, IInv, Types
  <1>6. QED
    BY <1>4, <1>5

(* One more attachment in the group, or none. *)
LEMMA GatherStream ==
  ASSUME IInv, Gather
  PROVE  /\ jdx \in 1 .. cAttach /\ cAttach \in Nat /\ idx \in Nat
         /\ stream.attach \in Seq(Pieces)
         /\ stream'.plain = stream.plain /\ stream'.html = stream.html
         /\ \/ stream'.attach = stream.attach
            \/ \E whole \in BOOLEAN :
                 stream'.attach = Append(stream.attach, Piece(jdx, whole))
         /\ \A whole \in BOOLEAN :
              /\ Piece(jdx, whole) \in Pieces
              /\ Piece(jdx, whole).part = jdx /\ Piece(jdx, whole).whole = whole
  <1>1. /\ cAttach \in Nat /\ jdx \in 1 .. cAttach /\ jdx \in DOMAIN source
        /\ stream \in Streams /\ stream.attach \in Seq(Pieces) /\ idx \in Nat
    BY SourceList, StreamFields DEF IInv, Types, Streams, Gather
  <1>2. \/ stream' = stream
        \/ \E whole \in BOOLEAN :
             stream' = [stream EXCEPT !.attach = Append(@, Piece(jdx, whole))]
    BY DEF Gather
  <1>3. \A v : LET t == [stream EXCEPT !.attach = v]
               IN  t.attach = v /\ t.plain = stream.plain /\ t.html = stream.html
    BY <1>1 DEF Streams
  <1>4. \A whole \in BOOLEAN :
          /\ Piece(jdx, whole) \in Pieces
          /\ Piece(jdx, whole).part = jdx /\ Piece(jdx, whole).whole = whole
    BY <1>1 DEF Piece, Pieces
  <1>5. QED
    BY <1>1, <1>2, <1>3, <1>4

LEMMA GatherSweeps ==
  ASSUME IInv, Swept, Sweeping, Gather
  PROVE  Swept' /\ Sweeping'
  <1>1. /\ source' = source /\ bodies' = bodies /\ failed \subseteq failed'
        /\ entries' = entries \ {jdx} /\ jdx \in entries
        /\ pc = "gather" /\ pc' = "gather" /\ idx' = idx /\ jdx' = jdx + 1
    BY DEF Gather, Goto, Fails, Works
  <1>2. Of(stream'.attach) \subseteq Of(stream.attach) \cup {jdx}
    <2>1. ASSUME NEW whole \in BOOLEAN,
                 stream'.attach = Append(stream.attach, Piece(jdx, whole))
          PROVE  Of(stream'.attach) = Of(stream.attach) \cup {jdx}
      <3>1. Of(Append(stream.attach, Piece(jdx, whole)))
              = Of(stream.attach) \cup {Piece(jdx, whole).part}
        BY GatherStream, OfAppended
      <3>2. QED
        BY <2>1, <3>1, GatherStream
    <2>2. QED
      BY <2>1, GatherStream
  <1>3. Swept'
    BY <1>1, <1>2, SweptKept
  <1>4. idx <= jdx
    BY <1>1 DEF Sweeping
  <1>5. QED
    BY <1>1, <1>2, <1>3, <1>4, GatherStream, SourceList
       DEF IInv, Sweeping, Missed, Name
LEMMA SkipSweeps ==
  ASSUME IInv, Swept, Sweeping, Skip
  PROVE  Swept' /\ Sweeping'
  <1>1. /\ source' = source /\ bodies' = bodies /\ failed \subseteq failed'
        /\ entries' = entries /\ stream' = stream
        /\ pc = "gather" /\ pc' = "gather" /\ idx' = idx /\ jdx' = jdx + 1
    BY DEF Skip, Goto, Fails, Works
  <1>2. Swept'
    BY <1>1, SweptKept
  <1>3. \A j \in entries : j = jdx => ~Match(j) \/ Missed(j)'
    BY DEF Skip, Fails, Missed
  <1>4. ASSUME NEW j \in DOMAIN source, j < jdx + 1,
               idx <= j, <<Name(j), Name(idx)>> \in Related, ~Missed(j)'
        PROVE  j \notin entries
    <2>1. CASE j = jdx
      BY <1>3, <1>4, <2>1 DEF Match
    <2>2. CASE j # jdx
      <3>1. j < jdx
        BY <1>4, <2>2, SourceList, SMTT(30) DEF IInv, Types
      <3>2. QED
        BY <1>1, <1>4, <3>1 DEF Sweeping, Missed
    <2>3. QED
      BY <2>1, <2>2
  <1>5. idx <= jdx + 1
    BY <1>1, SourceList DEF Sweeping, IInv, Types
  <1>6. Sweeping'
    BY <1>1, <1>4, <1>5 DEF Sweeping, Name
  <1>7. QED
    BY <1>2, <1>6

LEMMA AttachObjectSweeps ==
  ASSUME IInv, Swept, Sweeping, AttachObject
  PROVE  Swept' /\ Sweeping'
  <1>1. /\ source' = source /\ entries' = entries /\ failed \subseteq failed'
        /\ pc = "gather" /\ pc' = "group" /\ jdx > cAttach
        /\ \/ bodies' = bodies
           \/ \E named \in BOOLEAN : bodies' = Append(bodies, Body(named))
    BY DEF AttachObject, Goto, Fails, Works
  <1>2. /\ cAttach \in Nat /\ DOMAIN source = 1 .. cAttach
        /\ idx \in DOMAIN source /\ jdx \in Nat
    BY <1>1, SourceList DEF IInv, Types, Gathered
  <1>3. CASE bodies' = bodies
    BY <1>1, <1>3, SweptKept DEF Sweeping
  <1>4. ASSUME NEW named \in BOOLEAN, bodies' = Append(bodies, Body(named)),
               NEW n, n = Len(bodies) + 1, NEW last \in DOMAIN source, last = idx
        PROVE  Swept'
    <2>1. /\ DOMAIN bodies' = DOMAIN bodies \cup {n}
          /\ \A b \in DOMAIN bodies : bodies'[b] = bodies[b] /\ b \in Nat /\ b < n
          /\ n \in Nat /\ bodies'[n].parts = stream.attach
          /\ bodies'[n].name = Name(last)
      BY <1>4 DEF IInv, Types, Body
    <2>2. ASSUME NEW b \in DOMAIN bodies
          PROVE  \E g \in DOMAIN source : SweptFrom(b, g)'
      <3>1. PICK g \in DOMAIN source : SweptFrom(b, g)
        BY DEF Swept
      <3>2. (Name(g) = bodies[b].name)'
            /\ \A i \in Of(bodies'[b].parts) : g <= i
        BY <1>1, <2>1, <3>1 DEF SweptFrom, Name
      <3>3. ASSUME NEW j \in DOMAIN source,
                   g <= j, <<Name(j), Name(g)>> \in Related, ~Missed(j)'
            PROVE  /\ j \notin entries
                   /\ \A c \in DOMAIN bodies' : b < c => j \notin Of(bodies'[c].parts)
        <4>1. ~Missed(j)
          BY <1>1, <3>3 DEF Missed
        <4>2. /\ j \notin entries /\ j \notin Of(stream.attach)
              /\ \A c \in DOMAIN bodies : b < c => j \notin Of(bodies[c].parts)
          BY <1>1, <3>1, <3>3, <4>1 DEF SweptFrom
        <4>3. QED
          BY <2>1, <4>2
      <3>4. SweptFrom(b, g)'
        BY <1>1, <3>2, <3>3 DEF SweptFrom, Name
      <3>5. QED
        BY <1>1, <3>4
    <2>3. SweptFrom(n, last)'
      <3>1. /\ Name(last)' = bodies'[n].name
            /\ \A i \in Of(bodies'[n].parts) : last <= i
        BY <1>1, <1>4, <2>1 DEF Name, Sweeping
      <3>2. ASSUME NEW j \in DOMAIN source,
                   last <= j, <<Name(j), Name(last)>> \in Related, ~Missed(j)'
            PROVE  j \notin entries
        <4>1. ~Missed(j) /\ j < jdx
          BY <1>1, <1>2, <3>2 DEF Missed
        <4>2. QED
          BY <1>1, <1>4, <3>2, <4>1 DEF Sweeping
      <3>3. QED
        BY <1>1, <2>1, <3>1, <3>2 DEF SweptFrom, Name
    <2>4. QED
      BY <1>1, <2>1, <2>2, <2>3 DEF Swept
  <1>5. QED
    BY <1>1, <1>2, <1>3, <1>4 DEF Sweeping

(* Every step keeps what the searches have settled. *)
LEMMA StepsSweep ==
  ASSUME IInv, Swept, Sweeping, [Next]_vars
  PROVE  Swept' /\ Sweeping'
  <1>1. CASE UNCHANGED vars
    BY <1>1 DEF vars, Swept, SweptFrom, Sweeping, Missed, Name
  <1>2. CASE Load \/ Inline \/ Inlined \/ AppendTextStream("plain", "html")
             \/ AppendTextStream("html", "group")
    <2>1. bodies' = bodies /\ bodies = <<>> /\ pc' # "gather"
      BY <1>2 DEF Load, Inline, Inlines, Inlined, AppendTextStream, Goto, IInv, Early
    <2>2. QED
      BY <2>1, NoPieces DEF Swept, Sweeping
  <1>3. CASE Group
    BY <1>3, GroupSweeps
  <1>4. CASE Gather
    BY <1>4, GatherSweeps
  <1>5. CASE Skip
    BY <1>5, SkipSweeps
  <1>6. CASE AttachObject
    BY <1>6, AttachObjectSweeps
  <1>7. CASE Deliver
    BY <1>7, SweptKept DEF Deliver, Goto, Sweeping
  <1>8. QED
    BY <1>1, <1>2, <1>3, <1>4, <1>5, <1>6, <1>7 DEF Next

(* Two files whose names are the same, or of which one contains the other's, are
   joined by _CombineRelatedAttachments whatever stands between them, and
   whatever else fails. *)
THEOREM RelatedFilesAreJoined == Spec => []RelatedAreJoined
  <1>1. Init => Swept /\ Sweeping
    BY NoPieces DEF Init, Swept, Sweeping
  <1>2. IInv /\ Swept => RelatedAreJoined
    <2> SUFFICES ASSUME IInv, Swept, NEW x \in InBodies, NEW y \in InBodies,
                        x[2] < y[2], <<Name(y[2]), Name(x[2])>> \in Related,
                        bodies[x[1]].name = Name(x[2]),
                        \A call \in {"BindPart", "Query"} :
                          <<call, x[2]>> \notin failed /\ <<call, y[2]>> \notin failed
                 PROVE  x[1] = y[1] \/ y[1] < x[1]
      BY DEF RelatedAreJoined
    <2>1. /\ x[1] \in DOMAIN bodies /\ x[2] \in DOMAIN source
          /\ y[1] \in DOMAIN bodies /\ y[2] \in DOMAIN source
          /\ x[2] \in Of(bodies[x[1]].parts) /\ y[2] \in Of(bodies[y[1]].parts)
      BY PartIsMember DEF InBodies, Of
    <2>2. PICK g \in DOMAIN source : SweptFrom(x[1], g)
      BY <2>1 DEF Swept
    <2>3. g <= x[2] /\ Name(g) = Name(x[2])
      BY <2>1, <2>2 DEF SweptFrom
    <2>4. g <= y[2]
      BY <2>1, <2>3, SourceList DEF IInv
    <2>5. ~(x[1] < y[1])
      BY <2>1, <2>2, <2>3, <2>4 DEF SweptFrom, Missed
    <2>6. x[1] \in Nat /\ y[1] \in Nat
      BY <2>1, SMTT(30) DEF IInv, Types
    <2>7. QED
      BY <2>5, <2>6
  <1>3. QED
    BY <1>1, <1>2, InitIInv, StepsIInv, StepsSweep, PTL DEF Spec
-----------------------------------------------------------------------------
(* Parts of the pieces are never lost from a stream. *)
LEMMA PartsGrow ==
  ASSUME NEW S, NEW s \in Seq(S), NEW e \in S
  PROVE  /\ Parts(s) \subseteq Parts(Append(s, e))
         /\ e.whole => e.part \in Parts(Append(s, e))
  <1>1. ToSet(Append(s, e)) = ToSet(s) \cup {e}
    BY Appended DEF ToSet
  <1>2. QED
    BY <1>1 DEF Parts

(* What was reported stays so, and what is in the text or in a combined
   attachment when these do not change. *)
LEMMA StillAccounted ==
  ASSUME source' = source, failed \subseteq failed', NEW i \in DOMAIN source
  PROVE  /\ Reported(i) => Reported(i)'
         /\ LostWithGroup(i) => LostWithGroup(i)'
         /\ bodies' = bodies /\ InBody(i) => InBody(i)'
  <1>1. Reported(i) => Reported(i)'
    BY DEF Reported
  <1>2. LostWithGroup(i) => LostWithGroup(i)'
    BY DEF LostWithGroup, Name
  <1>3. bodies' = bodies /\ InBody(i) => InBody(i)'
    BY DEF InBody, InBodies, Parts
  <1>4. QED
    BY <1>1, <1>2, <1>3

LEMMA TextAccounted ==
  ASSUME IInv, source' = source, failed \subseteq failed', texts' = texts,
         stream' \in Streams', stream'.plain = stream.plain, stream'.html = stream.html,
         pc \in {"group", "gather"}, NEW i \in DOMAIN source, InText(i)
  PROVE  InText(i)'
  <1> DEFINE kind == source[i].kind
  <1>1. /\ kind \in {"plain", "html"} /\ i \in Parts(stream[kind])
        /\ i \in Parts(texts) \/ <<"AppendText", kind>> \in failed
    BY DEF InText, IsText, Appending
  <1>2. stream'[kind] = stream[kind]
    BY <1>1
  <1>3. QED
    BY <1>1, <1>2 DEF InText, IsText, Parts

LEMMA LoadAccounts ==
  ASSUME IInv, Accounts, Load
  PROVE  Accounts'
  <1>1. /\ source' = source /\ delivered' = delivered /\ delivered = "none"
        /\ \/ pc' = "end" /\ hr' = "fail"
           \/ pc' = "inline" /\ entries' = 1 .. cAttach
    BY DEF Load, Goto, Accounts
  <1>2. pc' = "inline" => \A i \in DOMAIN source : InList(i)'
    BY <1>1, SourceList DEF IInv, InList, Passed
  <1>3. QED
    BY <1>1, <1>2 DEF Accounts, Accounted, LostOnlyOnFailure

LEMMA InlineAccounts ==
  ASSUME IInv, Accounts, Inline
  PROVE  Accounts'
  <1>1. /\ source' = source /\ texts' = texts /\ bodies' = bodies
        /\ delivered' = delivered /\ delivered = "none" /\ failed \subseteq failed'
        /\ pc = "inline" /\ pc' = "inline" /\ idx <= cAttach
    BY DEF Inline, Inlines, Goto, Accounts, Fails, Works
  <1>2. /\ idx \in DOMAIN source /\ stream \in Streams
    BY <1>1, SourceList DEF IInv, Types, Streams
  <1>3. \/ entries' = entries /\ stream' = stream
        \/ \E whole \in BOOLEAN :
             /\ IsText(idx)
             /\ entries' = IF whole THEN entries \ {idx} ELSE entries
             /\ stream' = [stream EXCEPT ![source[idx].kind]
                                           = Append(@, Piece(idx, whole))]
    BY DEF Inline, Inlines
  <1>4. ASSUME NEW i \in DOMAIN source, InList(i) \/ InText(i)
        PROVE  InList(i)' \/ InText(i)'
    <2>1. CASE entries' = entries /\ stream' = stream
      BY <1>1, <1>4, <2>1 DEF InList, Passed, InText, IsText, Parts, Appending
    <2>2. ASSUME NEW whole \in BOOLEAN,
                 IsText(idx),
                 entries' = (IF whole THEN entries \ {idx} ELSE entries),
                 stream' = [stream EXCEPT ![source[idx].kind]
                                            = Append(@, Piece(idx, whole))]
          PROVE  InList(i)' \/ InText(i)'
      <3> DEFINE e == Piece(idx, whole)
                 kind == source[idx].kind
      <3>1. e \in Pieces /\ e.part = idx /\ e.whole = whole
        BY <1>2 DEF Pieces, Piece
      <3>2. kind \in {"plain", "html"}
        BY <2>2 DEF IsText
      <3> HIDE DEF e, kind
      <3>3. stream' = [stream EXCEPT ![kind] = Append(@, e)]
        BY <2>2 DEF e, kind
      <3>4. /\ stream' \in Streams
            /\ stream'.plain = IF kind = "plain" THEN Append(stream.plain, e)
                                                 ELSE stream.plain
            /\ stream'.html = IF kind = "html" THEN Append(stream.html, e)
                                               ELSE stream.html
        BY <1>2, <3>1, <3>2, <3>3, ExtendedStream
      <3>5. /\ Parts(stream.plain) \subseteq Parts(stream'.plain)
            /\ Parts(stream.html) \subseteq Parts(stream'.html)
            /\ whole /\ kind = "plain" => idx \in Parts(stream'.plain)
            /\ whole /\ kind = "html" => idx \in Parts(stream'.html)
        BY <1>2, <3>1, <3>4, StreamFields, PartsGrow
      <3>6. /\ stream'["plain"] = stream'.plain /\ stream'["html"] = stream'.html
            /\ stream["plain"] = stream.plain /\ stream["html"] = stream.html
        OBVIOUS
      <3>7. CASE InText(i)
        <4>1. source[i].kind \in {"plain", "html"}
              /\ i \in Parts(stream[source[i].kind])
          BY <3>7 DEF InText, IsText
        <4>2. i \in Parts(stream'[source[i].kind])
          BY <3>5, <3>6, <4>1
        <4>3. InText(i)'
          BY <1>1, <4>1, <4>2 DEF InText, IsText, Parts, Appending
        <4>4. QED
          BY <4>3
      <3>8. CASE InList(i) /\ ~(whole /\ i = idx)
        BY <1>1, <2>2, <3>8 DEF InList, Passed
      <3>9. CASE whole /\ i = idx
        <4>1. source[i].kind = kind /\ i \in Parts(stream'[kind])
          BY <3>2, <3>5, <3>6, <3>9 DEF kind
        <4>2. InText(i)'
          BY <1>1, <3>2, <4>1 DEF InText, IsText, Parts, Appending
        <4>3. QED
          BY <4>2
      <3>10. QED
        BY <1>4, <3>7, <3>8, <3>9
    <2>3. QED
      BY <1>3, <2>1, <2>2
  <1>5. ASSUME NEW i \in DOMAIN source PROVE Accounted(i)'
    <2>1. Accounted(i) /\ ~InGroup(i)
      BY <1>1 DEF Accounts, InGroup
    <2>2. QED
      BY <1>1, <1>4, <2>1, StillAccounted DEF Accounted
  <1>6. QED
    BY <1>1, <1>5 DEF Accounts, LostOnlyOnFailure

LEMMA InlinedAccounts ==
  ASSUME IInv, Accounts, Inlined
  PROVE  Accounts'
  <1>1. /\ source' = source /\ entries' = entries /\ texts' = texts
        /\ bodies' = bodies /\ stream' = stream /\ failed' = failed
        /\ delivered' = delivered /\ delivered = "none"
        /\ pc = "inline" /\ pc' = "plain" /\ idx' = 1
    BY DEF Inlined, Goto, Accounts
  <1>2. ASSUME NEW i \in DOMAIN source PROVE Accounted(i)'
    <2>1. Accounted(i) /\ ~InGroup(i)
      BY <1>1 DEF Accounts, InGroup
    <2>2. /\ InList(i) => InList(i)'
          /\ InText(i) => InText(i)'
      BY <1>1 DEF InList, Passed, InText, IsText, Parts, Appending
    <2>3. QED
      BY <1>1, <2>1, <2>2, StillAccounted DEF Accounted
  <1>3. QED
    BY <1>1, <1>2 DEF Accounts, LostOnlyOnFailure

LEMMA AppendTextStreamAccounts ==
  ASSUME IInv, Accounts, NEW kind, NEW next, AppendTextStream(kind, next),
         \/ kind = "plain" /\ next = "html"
         \/ kind = "html" /\ next = "group"
  PROVE  Accounts'
  <1>1. /\ source' = source /\ entries' = entries /\ stream' = stream
        /\ bodies' = bodies /\ idx' = idx /\ failed \subseteq failed'
        /\ delivered' = delivered /\ delivered = "none"
        /\ pc = kind /\ pc' = next /\ idx = 1
    BY DEF AppendTextStream, Goto, Accounts, Fails, Works
  <1>2. /\ stream \in Streams /\ texts \in Seq(Pieces)
        /\ stream[kind] \in Seq(Pieces)
    BY StreamFields DEF IInv, Types, Streams
  <1>3. \/ stream[kind] = <<>> /\ texts' = texts
        \/ texts' = texts \o stream[kind]
        \/ texts' = texts /\ <<"AppendText", kind>> \in failed'
    BY DEF AppendTextStream, Fails
  <1>4. Parts(texts \o stream[kind]) = Parts(texts) \cup Parts(stream[kind])
    BY <1>2, PartsOfJoined
  <1>5. /\ \A i \in Parts(texts) : i \in Parts(texts')
        /\ \A i \in Parts(stream[kind]) :
             i \in Parts(texts') \/ <<"AppendText", kind>> \in failed'
    BY <1>3, <1>4, NoParts
  <1>6. ASSUME NEW i \in DOMAIN source PROVE Accounted(i)'
    <2>1. Accounted(i) /\ ~InGroup(i)
      BY <1>1 DEF Accounts, InGroup
    <2>2. InList(i) => InList(i)'
      BY <1>1, SourceList DEF InList, Passed, IInv
    <2>3. ASSUME InText(i) PROVE InText(i)'
      <3> DEFINE k == source[i].kind
      <3>1. /\ k \in {"plain", "html"} /\ i \in Parts(stream[k])
            /\ \/ Appending(k)
               \/ i \in Parts(texts)
               \/ <<"AppendText", k>> \in failed
        BY <2>3 DEF InText, IsText
      <3>2. \/ (pc' = "html" /\ k = "html")
            \/ i \in Parts(texts')
            \/ <<"AppendText", k>> \in failed'
        BY <1>1, <1>5, <3>1 DEF Appending
      <3>3. k = source'[i].kind /\ i \in Parts(stream'[k])
        BY <1>1, <3>1
      <3>4. QED
        BY <3>1, <3>2, <3>3 DEF InText, IsText, Parts, Appending
    <2>4. QED
      BY <1>1, <2>1, <2>2, <2>3, StillAccounted DEF Accounted
  <1>7. QED
    BY <1>1, <1>6 DEF Accounts, LostOnlyOnFailure
LEMMA GroupAccounts ==
  ASSUME IInv, Accounts, Group
  PROVE  Accounts'
  <1>1. /\ source' = source /\ entries' = entries /\ texts' = texts
        /\ bodies' = bodies /\ failed \subseteq failed'
        /\ delivered' = delivered /\ delivered = "none"
        /\ pc = "group" /\ pc' \in {"group", "gather", "end"}
        /\ pc' = "end" => hr' = "fail"
        /\ stream' = stream \/ stream' = [stream EXCEPT !.attach = <<>>]
    BY DEF Group, Goto, Accounts, Fails, Works
  <1>2. /\ stream \in Streams /\ <<>> \in Seq(Pieces) /\ idx \in Nat
    BY SourceList DEF IInv, Types, Streams
  <1>3. /\ stream' \in Streams /\ Streams' = Streams
        /\ stream'.plain = stream.plain /\ stream'.html = stream.html
    BY <1>1, <1>2 DEF Streams, Pieces
  <1>4. ASSUME NEW i \in DOMAIN source, i \in entries, Passed(i)', pc' # "end"
        PROVE  Passed(i) \/ Reported(i)'
    <2>1. i \in Nat
      BY SourceList DEF IInv
    <2>2. CASE pc' = "gather"
      BY <1>1, <1>2, <1>4, <2>1, <2>2 DEF Group, Goto, First, Passed
    <2>3. CASE pc' = "group" /\ idx \notin entries
      BY <1>1, <1>2, <1>4, <2>1, <2>3 DEF Group, Goto, Passed
    <2>4. CASE pc' = "group" /\ idx \in entries
      <3>1. idx' = idx + 1 /\ <<"Name", idx>> \in failed'
        BY <2>4 DEF Group, Goto, Fails
      <3>2. i < idx \/ i = idx
        BY <1>2, <1>4, <2>1, <2>4, <3>1 DEF Passed
      <3>3. QED
        BY <1>1, <3>1, <3>2 DEF Passed, Reported
    <2>5. QED
      BY <1>1, <1>4, <2>2, <2>3, <2>4
  <1>5. ASSUME NEW i \in DOMAIN source, pc' # "end" PROVE Accounted(i)'
    <2>1. Accounted(i) /\ ~InGroup(i)
      BY <1>1 DEF Accounts, InGroup
    <2>2. InList(i) => InList(i)'
      BY <1>1, <1>4, <1>5, StillAccounted DEF InList
    <2>3. InText(i) => InText(i)'
      BY <1>1, <1>3, TextAccounted
    <2>4. QED
      BY <1>1, <2>1, <2>2, <2>3, StillAccounted DEF Accounted
  <1>6. QED
    BY <1>1, <1>5 DEF Accounts, LostOnlyOnFailure

LEMMA GatherAccounts ==
  ASSUME IInv, Accounts, Gather
  PROVE  Accounts'
  <1>1. /\ source' = source /\ texts' = texts /\ bodies' = bodies
        /\ delivered' = delivered /\ delivered = "none"
        /\ failed \subseteq failed' /\ idx' = idx /\ jdx' = jdx + 1
        /\ pc = "gather" /\ pc' = "gather" /\ entries' = entries \ {jdx}
        /\ \/ stream' = [stream EXCEPT !.attach = Append(@, Piece(jdx, TRUE))]
           \/ /\ <<"Data", jdx>> \in failed'
              /\ stream' \in {stream, [stream EXCEPT !.attach = Append(@, Piece(jdx, FALSE))]}
    BY DEF Gather, Goto, Accounts, Fails, Works
  <1>2. /\ stream \in Streams /\ jdx \in Nat /\ idx \in Nat
        /\ stream.attach \in Seq(Pieces)
    BY GatherStream DEF IInv, Types, Streams
  <1>3. ASSUME NEW whole \in BOOLEAN,
               stream' = [stream EXCEPT !.attach = Append(@, Piece(jdx, whole))]
        PROVE  /\ stream' \in Streams
               /\ stream'.plain = stream.plain /\ stream'.html = stream.html
               /\ Parts(stream.attach) \subseteq Parts(stream'.attach)
               /\ whole => jdx \in Parts(stream'.attach)
    <2> DEFINE e == Piece(jdx, whole)
               v == Append(stream.attach, e)
    <2>1. e \in Pieces /\ e.part = jdx /\ e.whole = whole
      BY GatherStream
    <2> HIDE DEF e
    <2>2. /\ v \in Seq(Pieces) /\ Parts(stream.attach) \subseteq Parts(v)
          /\ whole => jdx \in Parts(v)
      BY <1>2, <2>1, Appended, PartsGrow
    <2>3. stream' = [stream EXCEPT !.attach = v]
      BY <1>3 DEF e
    <2> HIDE DEF v
    <2>4. QED
      BY <1>2, <2>2, <2>3 DEF Streams
  <1>4. /\ stream' \in Streams /\ Streams' = Streams
        /\ stream'.plain = stream.plain /\ stream'.html = stream.html
        /\ \A i \in Parts(stream.attach) : i \in Parts(stream'.attach)
        /\ jdx \in Parts(stream'.attach) \/ <<"Data", jdx>> \in failed'
    <2>1. Streams' = Streams
      BY <1>1 DEF Streams, Pieces
    <2>2. CASE stream' = stream /\ <<"Data", jdx>> \in failed'
      BY <1>2, <2>1, <2>2
    <2>3. QED
      BY <1>1, <1>3, <2>1, <2>2
  <1>5. ASSUME NEW i \in DOMAIN source PROVE Accounted(i)'
    <2>1. Accounted(i)
      BY <1>1 DEF Accounts
    <2>2. ASSUME InList(i) PROVE InList(i)' \/ InGroup(i)' \/ Reported(i)'
      <3>1. CASE i = jdx
        BY <1>1, <1>4, <3>1 DEF InGroup, Parts, Reported
      <3>2. CASE i # jdx
        <4>1. i \in entries'
          BY <1>1, <2>2, <3>2 DEF InList
        <4>2. Passed(i)' => Passed(i)
          BY <1>1, <1>2, <3>2 DEF Passed
        <4>3. QED
          BY <1>1, <2>2, <4>1, <4>2, StillAccounted DEF InList
      <3>3. QED
        BY <3>1, <3>2
    <2>3. InText(i) => InText(i)'
      BY <1>1, <1>4, TextAccounted
    <2>4. InGroup(i) => InGroup(i)'
      BY <1>1, <1>4 DEF InGroup, Parts
    <2>5. QED
      BY <1>1, <2>1, <2>2, <2>3, <2>4, StillAccounted DEF Accounted
  <1>6. QED
    BY <1>1, <1>5 DEF Accounts, LostOnlyOnFailure

LEMMA SkipAccounts ==
  ASSUME IInv, Accounts, Skip
  PROVE  Accounts'
  <1>1. /\ source' = source /\ texts' = texts /\ bodies' = bodies
        /\ delivered' = delivered /\ delivered = "none"
        /\ failed \subseteq failed' /\ idx' = idx /\ jdx' = jdx + 1
        /\ pc = "gather" /\ pc' = "gather" /\ entries' = entries
        /\ stream' = stream
    BY DEF Skip, Goto, Accounts, Fails, Works
  <1>2. /\ stream \in Streams /\ jdx \in Nat /\ idx \in Nat /\ Streams' = Streams
    BY <1>1, SourceList DEF IInv, Types, Streams, Pieces
  <1>3. \A i \in entries :
          i = jdx => ~Match(i) \/ <<"BindPart", i>> \in failed'
                               \/ <<"Query", i>> \in failed'
    BY DEF Skip, Fails
  <1>4. \A i \in DOMAIN source : i = idx => Match(i)
    BY SourceList, NamesAssumption DEF Match, IInv
  <1>5. ASSUME NEW i \in DOMAIN source, InList(i) PROVE InList(i)' \/ Reported(i)'
    <2>1. i \in entries' /\ i \in entries /\ (Passed(i) => Reported(i))
      BY <1>1, <1>5 DEF InList
    <2>2. CASE i = idx /\ i = jdx
      BY <1>3, <1>4, <2>1, <2>2 DEF Reported
    <2>3. CASE ~(i = idx /\ i = jdx)
      <3>1. Passed(i)' => Passed(i)
        BY <1>1, <1>2, <2>3 DEF Passed
      <3>2. QED
        BY <1>1, <2>1, <3>1, StillAccounted DEF InList
    <2>4. QED
      BY <2>2, <2>3
  <1>6. ASSUME NEW i \in DOMAIN source PROVE Accounted(i)'
    <2>1. Accounted(i)
      BY <1>1 DEF Accounts
    <2>2. InText(i) => InText(i)'
      BY <1>1, <1>2, TextAccounted
    <2>3. InGroup(i) => InGroup(i)'
      BY <1>1 DEF InGroup, Parts
    <2>4. QED
      BY <1>1, <1>5, <2>1, <2>2, <2>3, StillAccounted DEF Accounted
  <1>7. QED
    BY <1>1, <1>6 DEF Accounts, LostOnlyOnFailure

LEMMA AttachObjectAccounts ==
  ASSUME IInv, Sweeping, Accounts, AttachObject
  PROVE  Accounts'
  <1>1. /\ source' = source /\ texts' = texts /\ entries' = entries
        /\ delivered' = delivered /\ delivered = "none"
        /\ failed \subseteq failed' /\ idx' = idx + 1 /\ jdx > cAttach
        /\ pc = "gather" /\ pc' = "group" /\ stream' = stream
        /\ \/ bodies' = bodies /\ <<"Attach", idx>> \in failed'
           \/ \E named \in BOOLEAN : bodies' = Append(bodies, Body(named))
    BY DEF AttachObject, Goto, Accounts, Fails, Works
  <1>2. /\ stream \in Streams /\ jdx \in Nat /\ Streams' = Streams
        /\ cAttach \in Nat /\ idx \in 1 .. cAttach
    BY <1>1, SourceList DEF IInv, Types, Streams, Pieces, Gathered
  <1>3. /\ \A b \in DOMAIN bodies : b \in DOMAIN bodies' /\ bodies'[b] = bodies[b]
        /\ bodies' # bodies =>
             \E n \in DOMAIN bodies' : bodies'[n].parts = stream.attach
    <2>1. bodies \in Seq([name : Names, parts : Seq(Pieces), named : BOOLEAN])
      BY DEF IInv, Types
    <2>2. ASSUME NEW named \in BOOLEAN, bodies' = Append(bodies, Body(named))
          PROVE  /\ \A b \in DOMAIN bodies : b \in DOMAIN bodies' /\ bodies'[b] = bodies[b]
                 /\ \E n \in DOMAIN bodies' : bodies'[n].parts = stream.attach
      <3>1. /\ \A b \in DOMAIN bodies : b \in DOMAIN bodies' /\ bodies'[b] = bodies[b]
            /\ Len(bodies) + 1 \in DOMAIN bodies'
            /\ bodies'[Len(bodies) + 1] = Body(named)
        BY <2>1, <2>2
      <3>2. Body(named).parts = stream.attach
        BY DEF Body
      <3>3. QED
        BY <3>1, <3>2
    <2>3. QED
      BY <1>1, <2>2
  <1>4. ASSUME NEW i \in DOMAIN source, InGroup(i)
        PROVE  InBody(i)' \/ LostWithGroup(i)'
    <2>1. /\ i \in Parts(stream.attach) /\ i \in Of(stream.attach)
          /\ <<Name(i), Name(idx)>> \in Related /\ idx <= i
      <3>1. i \in Parts(stream.attach)
        BY <1>4 DEF InGroup
      <3>2. PICK k \in DOMAIN stream.attach : stream.attach[k].part = i
        BY <3>1, PartIsMember
      <3>3. QED
        BY <1>1, <3>1, <3>2 DEF Of, Sweeping, IInv, Gathered, Belong
    <2>2. CASE bodies' = bodies /\ <<"Attach", idx>> \in failed'
      <3>1. idx \in 1 .. i
        BY <1>2, <2>1, SourceList DEF IInv
      <3>2. QED
        BY <1>1, <2>1, <2>2, <3>1 DEF LostWithGroup, Name
    <2>3. CASE bodies' # bodies
      <3>1. PICK n \in DOMAIN bodies' : bodies'[n].parts = stream.attach
        BY <1>3, <2>3
      <3>2. <<n, i>> \in InBodies'
        BY <1>1, <2>1, <3>1 DEF InBodies, Parts
      <3>3. QED
        BY <3>2 DEF InBody
    <2>4. QED
      BY <1>1, <1>3, <2>2, <2>3
  <1>5. ASSUME NEW i \in DOMAIN source PROVE Accounted(i)'
    <2>1. Accounted(i)
      BY <1>1 DEF Accounts
    <2>2. InList(i) => InList(i)'
      <3>1. Passed(i)' => Passed(i)
        BY <1>1, <1>2, SourceList DEF Passed, IInv
      <3>2. QED
        BY <1>1, <3>1, StillAccounted DEF InList
    <2>3. InText(i) => InText(i)'
      BY <1>1, <1>2, TextAccounted
    <2>4. InBody(i) => InBody(i)'
      BY <1>1, <1>3 DEF InBody, InBodies, Parts
    <2>5. QED
      BY <1>1, <1>4, <2>1, <2>2, <2>3, <2>4, StillAccounted DEF Accounted
  <1>6. QED
    BY <1>1, <1>5 DEF Accounts, LostOnlyOnFailure

LEMMA DeliverAccounts ==
  ASSUME IInv, Accounts, Deliver
  PROVE  Accounts'
  <1>1. /\ source' = source /\ texts' = texts /\ entries' = entries
        /\ failed' = failed /\ bodies' = bodies /\ pc' = "done"
        /\ (pc = "group" /\ idx > cAttach) \/ pc = "end"
        /\ delivered' = IF hr = "ok" THEN "combined" ELSE "source"
    BY DEF Deliver, Goto
  <1>2. LostOnlyOnFailure'
    <2>1. CASE pc = "end"
      BY <1>1, <2>1 DEF Accounts, LostOnlyOnFailure
    <2>2. ASSUME pc = "group", idx > cAttach, NEW i \in DOMAIN source
          PROVE  \/ i \in Parts(texts) \/ InBody(i)
                 \/ Reported(i) \/ LostWithGroup(i)
                 \/ <<"AppendText", source[i].kind>> \in failed
      <3>1. Accounted(i) /\ ~InGroup(i)
        BY <2>2 DEF Accounts, InGroup
      <3>2. InList(i) => Reported(i)
        <4>1. Passed(i)
          BY <2>2, SourceList DEF Passed, IInv, Types
        <4>2. QED
          BY <4>1 DEF InList
      <3>3. InText(i) => \/ i \in Parts(texts)
                         \/ <<"AppendText", source[i].kind>> \in failed
        BY <2>2 DEF InText, Appending
      <3>4. QED
        BY <3>1, <3>2, <3>3 DEF Accounted
    <2>3. ASSUME pc = "group", idx > cAttach
          PROVE  LostOnlyOnFailure'
      BY <1>1, <2>2, <2>3
         DEF LostOnlyOnFailure, InBody, InBodies, Reported, LostWithGroup, Parts, Name
    <2>4. QED
      BY <1>1, <2>1, <2>3
  <1>3. QED
    BY <1>1, <1>2 DEF Accounts

(* Every step of the combination accounts for every attachment. *)
LEMMA StepsAccount ==
  ASSUME IInv, Sweeping, Accounts, [Next]_vars
  PROVE  Accounts'
  <1>1. CASE UNCHANGED vars
    <2>1. /\ source' = source /\ texts' = texts /\ entries' = entries /\ hr' = hr
          /\ failed' = failed /\ bodies' = bodies /\ pc' = pc /\ stream' = stream
          /\ idx' = idx /\ jdx' = jdx /\ delivered' = delivered
      BY <1>1 DEF vars
    <2>2. LostOnlyOnFailure'
      BY <2>1 DEF Accounts, LostOnlyOnFailure, InBodies, Parts, LostWithGroup, Name
    <2>3. ASSUME NEW i \in DOMAIN source, Accounted(i) PROVE Accounted(i)'
      <3>1. InList(i) => InList(i)'
        BY <2>1 DEF InList, Passed, Reported
      <3>2. InText(i) => InText(i)'
        BY <2>1 DEF InText, IsText, Appending, Parts
      <3>3. InGroup(i) => InGroup(i)'
        BY <2>1 DEF InGroup, Parts
      <3>4. QED
        BY <2>1, <2>3, <3>1, <3>2, <3>3, StillAccounted DEF Accounted
    <2>4. QED
      BY <2>1, <2>2, <2>3 DEF Accounts
  <1>2. CASE Load
    BY <1>2, LoadAccounts
  <1>3. CASE Inline
    BY <1>3, InlineAccounts
  <1>4. CASE Inlined
    BY <1>4, InlinedAccounts
  <1>5. CASE AppendTextStream("plain", "html") \/ AppendTextStream("html", "group")
    BY <1>5, AppendTextStreamAccounts
  <1>6. CASE Group
    BY <1>6, GroupAccounts
  <1>7. CASE Gather
    BY <1>7, GatherAccounts
  <1>8. CASE Skip
    BY <1>8, SkipAccounts
  <1>9. CASE AttachObject
    BY <1>9, AttachObjectAccounts
  <1>10. CASE Deliver
    BY <1>10, DeliverAccounts
  <1>11. QED
    BY <1>1, <1>2, <1>3, <1>4, <1>5, <1>6, <1>7, <1>8, <1>9, <1>10 DEF Next

(* When Load delivers the combined message, every attachment of the source is in
   it, in the text or in a combined attachment, or a call about the attachment,
   its group or its text has failed. *)
THEOREM AttachmentsAreLostOnlyOnFailure == Spec => []LostOnlyOnFailure
  <1>1. Init => Swept /\ Sweeping /\ Accounts
    BY NoPieces DEF Init, Swept, Sweeping, Accounts, LostOnlyOnFailure
  <1>2. Accounts => LostOnlyOnFailure
    BY DEF Accounts
  <1>3. QED
    BY <1>1, <1>2, InitIInv, StepsIInv, StepsSweep, StepsAccount, PTL DEF Spec
-----------------------------------------------------------------------------
(* The loops end: what is ahead is a round through the list for each entry that
   may still name a group, and the way there. *)
Rounds(k) == (cAttach + 1 - k) * (cAttach + 3)

Ahead ==
  CASE pc = "load"   -> Rounds(1) + cAttach + 6
    [] pc = "inline" -> Rounds(1) + cAttach + 6 - idx
    [] pc = "plain"  -> Rounds(1) + 4
    [] pc = "html"   -> Rounds(1) + 3
    [] pc = "group"  -> Rounds(idx) + 2
    [] pc = "gather" -> Rounds(idx) + 2 - jdx
    [] pc = "end"    -> 1
    [] OTHER         -> 0

(* The counter is set back before the groups. *)
FromTheFirst == pc \in {"load", "plain", "html"} => idx = 1

LEMMA OneRoundLess ==
  ASSUME NEW a \in Nat \ {0}, NEW w \in Nat
  PROVE  a * w \in Nat /\ (a - 1) * w = a * w - w /\ w <= a * w
  <1>1. (a - 1) * w = a * w - w
    OBVIOUS
  <1>2. (a - 1) * w \in Nat /\ a * w \in Nat
    <2>1. \A x, y \in Nat : x * y \in Nat
      OBVIOUS
    <2>2. a - 1 \in Nat
      OBVIOUS
    <2>3. QED
      BY <2>1, <2>2
  <1>3. QED
    BY <1>1, <1>2

LEMMA RoundsLeft ==
  ASSUME Types
  PROVE  /\ cAttach \in Nat /\ idx \in Nat /\ jdx \in Nat
         /\ \A k \in 1 .. cAttach + 1 : Rounds(k) \in Nat
         /\ \A k \in 1 .. cAttach :
              /\ Rounds(k + 1) = Rounds(k) - (cAttach + 3)
              /\ cAttach + 3 <= Rounds(k)
  <1> DEFINE n == cAttach
  <1>1. n \in Nat
    BY SourcesAssumption DEF Types, cAttach
  <1>2. idx \in Nat /\ jdx \in Nat
    BY <1>1 DEF Types
  <1> HIDE DEF n
  <1>3. ASSUME NEW k \in 1 .. n
        PROVE  /\ (n + 1 - k) * (n + 3) \in Nat
               /\ (n + 1 - (k + 1)) * (n + 3) = (n + 1 - k) * (n + 3) - (n + 3)
               /\ n + 3 <= (n + 1 - k) * (n + 3)
    <2> DEFINE a == n + 1 - k
               w == n + 3
    <2>1. a \in Nat \ {0} /\ w \in Nat /\ n + 1 - (k + 1) = a - 1
      BY <1>1
    <2> HIDE DEF a, w
    <2>2. a * w \in Nat /\ (a - 1) * w = a * w - w /\ w <= a * w
      BY <2>1, OneRoundLess
    <2>3. QED
      BY <2>1, <2>2 DEF a, w
  <1>4. (n + 1 - (n + 1)) * (n + 3) = 0
    BY <1>1
  <1>5. \A k \in 1 .. n + 1 : k = n + 1 \/ k \in 1 .. n
    BY <1>1
  <1>6. \A k \in 1 .. n + 1 : (n + 1 - k) * (n + 3) \in Nat
    BY <1>3, <1>4, <1>5
  <1>7. QED
    BY <1>1, <1>2, <1>3, <1>6 DEF Rounds, n

LEMMA AheadIsNatural ==
  ASSUME IInv
  PROVE  Ahead \in Nat
  <1> DEFINE n == cAttach
             first == Rounds(1)
             now == Rounds(idx)
  <1>1. /\ n \in Nat /\ first \in Nat /\ now \in Nat
        /\ idx \in Nat /\ jdx \in Nat /\ idx <= n + 1 /\ jdx <= n + 1
    BY RoundsLeft DEF IInv, Types
  <1>2. pc = "gather" => n + 3 <= now
    BY RoundsLeft DEF IInv, Types, Gathered
  <1> HIDE DEF n, first, now
  <1>3. /\ first + n + 6 \in Nat /\ first + n + 6 - idx \in Nat
        /\ first + 4 \in Nat /\ first + 3 \in Nat /\ now + 2 \in Nat
        /\ pc = "gather" => now + 2 - jdx \in Nat
    BY <1>1, <1>2
  <1>4. QED
    BY <1>3 DEF Ahead, n, first, now

LEMMA StepGoesAhead ==
  ASSUME IInv, FromTheFirst, Next
  PROVE  FromTheFirst' /\ Ahead' < Ahead
  <1> DEFINE n == cAttach
             first == Rounds(1)
             now == Rounds(idx)
             next == Rounds(idx + 1)
  <1>1. /\ n \in Nat /\ first \in Nat /\ now \in Nat
        /\ idx \in Nat /\ jdx \in Nat /\ 1 <= jdx /\ 1 <= idx
        /\ idx <= n + 1 /\ jdx <= n + 1
    BY RoundsLeft DEF IInv, Types
  <1>2. idx <= n => next = now - (n + 3) /\ n + 3 <= now
    BY <1>1, RoundsLeft DEF IInv
  <1>3. source' = source /\ n' = n /\ first' = first
    BY DEF Next, Load, Inline, Inlines, Inlined, AppendTextStream, Group, Gather,
           Skip, AttachObject, Deliver, Rounds, cAttach
  <1>4. \A k : Rounds(k)' = Rounds(k)
    BY <1>3 DEF Rounds, cAttach
  <1>5. CASE Load
    <2>1. /\ pc = "load" /\ pc' \in {"end", "inline"}
          /\ idx' = idx /\ idx = 1
      BY <1>5 DEF Load, Goto, FromTheFirst
    <2>2. Ahead = first + n + 6 /\ Ahead' \in {1, first + n + 6 - 1}
      BY <1>3, <2>1 DEF Ahead
    <2>3. FromTheFirst'
      BY <2>1 DEF FromTheFirst
    <2> HIDE DEF n, first, now, next
    <2>4. QED
      BY <1>1, <2>2, <2>3
  <1>6. CASE Inline
    <2>1. pc = "inline" /\ pc' = "inline" /\ idx' = idx + 1
      BY <1>6 DEF Inline, Inlines, Goto
    <2>2. Ahead = first + n + 6 - idx /\ Ahead' = first + n + 6 - (idx + 1)
      BY <1>3, <2>1 DEF Ahead
    <2>3. FromTheFirst'
      BY <2>1 DEF FromTheFirst
    <2> HIDE DEF n, first, now, next
    <2>4. QED
      BY <1>1, <2>2, <2>3
  <1>7. CASE Inlined
    <2>1. pc = "inline" /\ pc' = "plain" /\ idx' = 1
      BY <1>7 DEF Inlined, Goto
    <2>2. Ahead = first + n + 6 - idx /\ Ahead' = first + 4
      BY <1>3, <2>1 DEF Ahead
    <2>3. FromTheFirst'
      BY <2>1 DEF FromTheFirst
    <2> HIDE DEF n, first, now, next
    <2>4. QED
      BY <1>1, <2>2, <2>3
  <1>8. CASE AppendTextStream("plain", "html")
    <2>1. pc = "plain" /\ pc' = "html" /\ idx' = idx
      BY <1>8 DEF AppendTextStream, Goto
    <2>2. Ahead = first + 4 /\ Ahead' = first + 3
      BY <1>3, <2>1 DEF Ahead
    <2>3. FromTheFirst'
      BY <2>1 DEF FromTheFirst
    <2> HIDE DEF n, first, now, next
    <2>4. QED
      BY <1>1, <2>2, <2>3
  <1>9. CASE AppendTextStream("html", "group")
    <2>1. pc = "html" /\ pc' = "group" /\ idx' = 1
      BY <1>9 DEF AppendTextStream, Goto, FromTheFirst
    <2>2. Ahead = first + 3 /\ Ahead' = first + 2
      BY <1>4, <2>1 DEF Ahead
    <2>3. FromTheFirst'
      BY <2>1 DEF FromTheFirst
    <2> HIDE DEF n, first, now, next
    <2>4. QED
      BY <1>1, <2>2, <2>3
  <1>10. CASE Group
    <2>1. /\ pc = "group" /\ idx <= n
          /\ \/ pc' = "group" /\ idx' = idx + 1
             \/ pc' = "end"
             \/ pc' = "gather" /\ idx' = idx /\ jdx' = idx
      BY <1>10 DEF Group, Goto, First
    <2>2. Ahead = now + 2 /\ Ahead' \in {next + 2, 1, now + 2 - idx}
      BY <1>4, <2>1 DEF Ahead
    <2>3. FromTheFirst'
      BY <2>1 DEF FromTheFirst
    <2> HIDE DEF n, first, now, next
    <2>4. QED
      BY <1>1, <1>2, <2>1, <2>2, <2>3
  <1>11. CASE Gather \/ Skip
    <2>1. pc = "gather" /\ pc' = "gather" /\ idx' = idx /\ jdx' = jdx + 1
      BY <1>11 DEF Gather, Skip, Goto
    <2>2. Ahead = now + 2 - jdx /\ Ahead' = now + 2 - (jdx + 1)
      BY <1>4, <2>1 DEF Ahead
    <2>3. FromTheFirst'
      BY <2>1 DEF FromTheFirst
    <2> HIDE DEF n, first, now, next
    <2>4. QED
      BY <1>1, <2>2, <2>3
  <1>12. CASE AttachObject
    <2>1. pc = "gather" /\ pc' = "group" /\ idx' = idx + 1 /\ idx <= n
      BY <1>12 DEF AttachObject, Goto, IInv, Gathered
    <2>2. Ahead = now + 2 - jdx /\ Ahead' = next + 2
      BY <1>4, <2>1 DEF Ahead
    <2>3. FromTheFirst'
      BY <2>1 DEF FromTheFirst
    <2> HIDE DEF n, first, now, next
    <2>4. QED
      BY <1>1, <1>2, <2>1, <2>2, <2>3
  <1>13. CASE Deliver
    <2>1. pc \in {"group", "end"} /\ pc' = "done"
      BY <1>13 DEF Deliver, Goto
    <2>2. Ahead \in {now + 2, 1} /\ Ahead' = 0
      BY <2>1 DEF Ahead
    <2>3. FromTheFirst'
      BY <2>1 DEF FromTheFirst
    <2> HIDE DEF n, first, now, next
    <2>4. QED
      BY <1>1, <2>2, <2>3
  <1>14. QED
    BY <1>5, <1>6, <1>7, <1>8, <1>9, <1>10, <1>11, <1>12, <1>13 DEF Next

(* The nested loops of _CombineRelatedAttachments (MimeMessage.cpp:2178-2525)
   end, whatever fails and whatever belongs together: every step lowers a natural
   number, which begins at about the square of the length of the list. *)
THEOREM CombiningEnds == Spec => [](Ahead \in Nat) /\ [][Ahead' < Ahead]_vars
  <1>1. Init => FromTheFirst
    BY DEF Init, FromTheFirst
  <1>2. IInv /\ FromTheFirst /\ [Next]_vars => FromTheFirst' /\ [Ahead' < Ahead]_vars
    <2>1. CASE Next
      BY <2>1, StepGoesAhead
    <2>2. CASE UNCHANGED vars
      BY <2>2 DEF vars, FromTheFirst
    <2>3. QED
      BY <2>1, <2>2
  <1>3. IInv => Ahead \in Nat
    BY AheadIsNatural
  <1>4. QED
    BY <1>1, <1>2, <1>3, InitIInv, StepsIInv, PTL DEF Spec
=============================================================================
