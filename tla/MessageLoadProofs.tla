------------------------- MODULE MessageLoadProofs --------------------------
(***************************************************************************)
(* Theorems of MessageLoad, for messages of any length, any number of      *)
(* blocks and every choice of the calls that fail.  Types is inductive; on *)
(* it rest four invariants that are proved one after the other: Unfailed   *)
(* (failures), MarkedIffDecoded itself, Covered (the lines that the bodies *)
(* cover), and Exact (the blocks of a regular message).                    *)
(***************************************************************************)
EXTENDS MessageLoad, FiniteSetTheorems, WellFoundedInduction, TLAPS

(* Every set of natural numbers that is not empty has a least one. *)
LEMMA LeastNumber ==
  ASSUME NEW S \in SUBSET Nat, S # {}
  PROVE  \E m \in S : \A n \in S : m <= n
  <1> DEFINE R == {r \in Nat \X Nat : r[1] < r[2]}
  <1>1. IsWellFoundedOn(R, Nat)
    BY NatLessThanWellFounded DEF OpToRel
  <1>2. PICK m \in S : \A n \in S : <<n, m>> \notin R
    <2> HIDE DEF R
    <2> QED
      BY <1>1, WFMin
  <1>3. \A n \in S : m \in Nat /\ n \in Nat /\ ~(n < m)
    BY <1>2
  <1>4. QED
    BY <1>3

LEMMA Text ==
  ASSUME message \in Message
  PROVE  /\ body \in Seq(Line) /\ Len(body) \in Nat
         /\ DOMAIN body = 1 .. Len(body) /\ pbEnd \in Nat \ {0}
         /\ Position = 1 .. Len(body) + 1
  BY DEF Message, body, pbEnd, Position

(* FindLineTag finds the first line with one of the tags, and pbEnd if and
   only if there is none. *)
LEMMA FirstLineTag ==
  ASSUME message \in Message, NEW p \in Position, NEW tags
  PROVE  /\ FindLineTag(p, tags) \in p .. pbEnd
         /\ FindLineTag(p, tags) # pbEnd =>
              /\ FindLineTag(p, tags) \in DOMAIN body
              /\ body[FindLineTag(p, tags)] \in tags
         /\ \A i \in p .. FindLineTag(p, tags) - 1 : body[i] \notin tags
  <1> DEFINE found == {i \in p .. Len(body) : body[i] \in tags}
             first == CHOOSE i \in found : \A j \in found : i <= j
  <1>1. p \in Nat /\ p <= pbEnd /\ Len(body) \in Nat /\ DOMAIN body = 1 .. Len(body)
        /\ p >= 1 /\ pbEnd = Len(body) + 1
    BY Text DEF pbEnd
  <1>2. CASE found = {}
    <2>1. FindLineTag(p, tags) = pbEnd
      BY <1>2 DEF FindLineTag
    <2>2. \A i \in p .. pbEnd - 1 : body[i] \notin tags
      BY <1>1, <1>2
    <2>3. QED
      BY <1>1, <2>1, <2>2
  <1>3. CASE found # {}
    <2>1. found \in SUBSET Nat
      BY <1>1
    <2>2. \E i \in found : \A j \in found : i <= j
      <3> HIDE DEF found
      <3> QED
        BY <1>3, <2>1, LeastNumber
    <2>3. first \in found /\ \A j \in found : first <= j
      <3> HIDE DEF found
      <3> QED
        BY <2>2
    <2>4. FindLineTag(p, tags) = first
      BY <1>3 DEF FindLineTag
    <2> HIDE DEF first
    <2>5. QED
      BY <1>1, <2>3, <2>4
  <1>4. QED
    BY <1>2, <1>3

LEMMA EncodedBody ==
  ASSUME message \in Message, NEW p \in Position
  PROVE  /\ DecoderFindEncodedBody(p) \in p .. pbEnd
         /\ DecoderFindEncodedBody(p) # pbEnd =>
              /\ DecoderFindEncodedBody(p) \in DOMAIN body
              /\ body[DecoderFindEncodedBody(p)] \in Header
  BY FirstLineTag DEF DecoderFindEncodedBody, Header

LEMMA TailLine ==
  ASSUME message \in Message, NEW p \in Position, HasTail(p)
  PROVE  pbTail(p) \in p + 1 .. pbEnd
  <1>1. /\ FindLineTag(p, {"yend"}) \in p .. pbEnd
        /\ FindLineTag(p, {"yend"}) # pbEnd
    BY FirstLineTag DEF HasTail
  <1>2. QED
    BY <1>1, Text DEF pbTail, pbEnd
-----------------------------------------------------------------------------
(* What the functions have done so far in each of their steps. *)
Started ==
  /\ pc \in {"load", "combine", "source"} => records = <<>>
  /\ pc \in {"load", "combine", "source", "scan", "headers"} =>
       attached = <<>> /\ marks = 0 /\ pbText = 0 /\ pLink = 1
  /\ pc = "headers" => records # <<>>
  /\ pc = "attach" =>
       /\ payload \in AttachmentType
       /\ payload.from = begin /\ payload.to = end
       /\ payload.named => payload.kind = "decoded"
       /\ payload.kind # "text"
  /\ pc # "done" => result = "none"

(* The records are blocks in the order of the text, which the scan has left
   behind. *)
Found ==
  /\ \A k \in DOMAIN records :
       records[k].begin < records[k].end /\ records[k].end <= pbLine
  /\ \A k \in 1 .. Len(records) - 1 : records[k].end <= records[k + 1].begin

Types == TypeOK /\ Started /\ Found

LEMMA InitTypes == Init => Types
  BY MessagesAssumption, Text
     DEF Init, Types, TypeOK, Started, Found, Position, NoPayload, Message

(* A text that is attached, whatever becomes of it. *)
LEMMA AttachedText ==
  ASSUME TypeOK, NEW from \in Position, NEW to \in Position, NEW next,
         AttachText(from, to, next)
  PROVE  LET text == Attachment("text", from, to, FALSE)
         IN  /\ text \in AttachmentType
             /\ \/ pc' = "fallback" /\ attached' \in {attached, Append(attached, text)}
                \/ pc' = next /\ attached' = Append(attached, text)
             /\ attached' \in Seq(AttachmentType)
             /\ failed' \subseteq Failures
             /\ failed \subseteq failed'
             /\ pc' # "fallback" => failed' = failed
  <1> DEFINE text == Attachment("text", from, to, FALSE)
  <1>1. text \in AttachmentType
    BY DEF Attachment, AttachmentType
  <1>2. attached \in Seq(AttachmentType) /\ failed \subseteq Failures
    BY DEF TypeOK
  <1>3. /\ \/ pc' = "fallback" /\ attached' \in {attached, Append(attached, text)}
           \/ pc' = next /\ attached' = Append(attached, text)
        /\ failed' = failed \/ (pc' = "fallback" /\ \E call \in Failures : failed' = failed \cup {call})
    BY DEF AttachText, LeaveAttach, Leave, Goto
  <1> HIDE DEF text
  <1>4. attached' \in Seq(AttachmentType)
    BY <1>1, <1>2, <1>3
  <1>5. QED
    BY <1>1, <1>2, <1>3, <1>4 DEF text

RecordType == [begin : Position, end : Position]

LEMMA RecordPositions ==
  ASSUME TypeOK
  PROVE  \A k \in DOMAIN records :
           /\ records[k] \in RecordType
           /\ records[k].begin \in Nat \ {0} /\ records[k].end \in Nat \ {0}
  <1>1. records \in Seq(RecordType) /\ Position \subseteq Nat \ {0}
    BY Text DEF TypeOK, RecordType
  <1>2. \A k \in DOMAIN records : records[k] \in RecordType
    BY <1>1
  <1>3. QED
    BY <1>1, <1>2 DEF RecordType

LEMMA ScanTypes == ASSUME Types, Scan PROVE Types'
  <1> DEFINE pbBody == DecoderFindEncodedBody(pbLine)
  <1>1. /\ message \in Message /\ pbLine \in Position
        /\ UNCHANGED <<message, pLink, pbText, payload, attached, marks, result>>
        /\ pc = "scan" /\ records \in Seq(RecordType)
    BY DEF Types, TypeOK, Scan, RecordType
  <1>2. pbBody \in pbLine .. pbEnd
    BY <1>1, EncodedBody
  <1>3. CASE UNCHANGED <<records, pbLine>>
    <2>1. \/ Goto(IF records = <<>> THEN "fallback" ELSE "headers")
          \/ Leave("Record")
          \/ Goto("fallback")
          \/ Goto("scan")
      BY <1>3 DEF Scan
    <2>2. /\ pc' \in {"fallback", "headers", "scan"} /\ failed' \subseteq Failures
          /\ pc' = "headers" => records # <<>>
      BY <2>1 DEF Leave, Goto, Types, TypeOK
    <2>3. QED
      BY <1>1, <1>3, <2>1, <2>2
         DEF Types, TypeOK, Started, Found, Position, AttachmentType, pbEnd, body
  <1>4. CASE /\ pbBody # pbEnd /\ HasTail(pbBody)
             /\ \E good \in DecoderInitialize(pbBody) :
                 /\ records' = IF good
                               THEN Append(records, [begin |-> pbBody,
                                                     end |-> pbTail(pbBody)])
                               ELSE records
                 /\ pbLine' = ScannedTo(pbBody, good)
             /\ Goto("scan")
    <2>1. /\ pbBody \in Position /\ pbLine <= pbBody
          /\ pbLine \in Nat /\ pbBody \in Nat /\ pbEnd \in Nat
      BY <1>1, <1>2, Text DEF pbEnd
    <2>2. pbTail(pbBody) \in pbBody + 1 .. pbEnd
      BY <1>1, <1>4, <2>1, TailLine
    <2>3. pbTail(pbBody) \in Position
      BY <1>1, <2>1, <2>2, Text DEF pbEnd
    <2> DEFINE e == [begin |-> pbBody, end |-> pbTail(pbBody)]
    <2>4. e \in RecordType
      BY <2>1, <2>3 DEF RecordType
    <2>5. pbLine' = pbTail(pbBody) /\ pc' = "scan" /\ failed' = failed
      BY <1>4 DEF ScannedTo, Goto
    <2>6. records' = records \/ records' = Append(records, e)
      BY <1>4
    <2>7. UNCHANGED Position
      BY <1>1 DEF Position, pbEnd, body
    <2>8. e.begin = pbBody /\ e.end = pbTail(pbBody)
      OBVIOUS
    <2> HIDE DEF e, pbBody
    <2>9. records' \in Seq(RecordType)
      BY <1>1, <2>4, <2>6
    <2>10. Found'
      <3>1. CASE records' = records
        <4>1. pbLine' \in Nat /\ pbLine <= pbLine'
          BY <2>1, <2>2, <2>5
        <4>2. \A k \in DOMAIN records :
                 records[k].end \in Nat /\ records[k].end <= pbLine
          BY <1>1, RecordPositions DEF Types, Found
        <4>3. QED
          BY <3>1, <4>1, <4>2, <2>1 DEF Types, Found
      <3>2. CASE records' = Append(records, e)
        <4>1. /\ Len(records') = Len(records) + 1
              /\ \A k \in DOMAIN records : records'[k] = records[k]
              /\ records'[Len(records) + 1] = e
              /\ DOMAIN records' = 1 .. Len(records) + 1
              /\ DOMAIN records = 1 .. Len(records)
              /\ Len(records) \in Nat
          BY <3>2, <1>1, <2>4
        <4>2. \A k \in DOMAIN records :
                 /\ records[k].begin \in Nat /\ records[k].end \in Nat
                 /\ records[k].begin < records[k].end
                 /\ records[k].end <= pbLine
          BY <1>1, RecordPositions DEF Types, Found
        <4>3. /\ pbBody \in Nat /\ pbLine' \in Nat /\ e.end = pbLine'
              /\ e.begin < pbLine' /\ pbLine <= e.begin /\ pbLine < pbLine'
          BY <2>1, <2>2, <2>5, <2>8, Text, <1>1
        <4>4. \A k \in DOMAIN records' :
                 records'[k].begin < records'[k].end /\ records'[k].end <= pbLine'
          BY <4>1, <4>2, <4>3, <2>1
        <4>5. \A k \in 1 .. Len(records') - 1 : records'[k].end <= records'[k + 1].begin
          <5> SUFFICES ASSUME NEW k \in 1 .. Len(records)
                       PROVE  records'[k].end <= records'[k + 1].begin
            BY <4>1
          <5>1. CASE k = Len(records)
            <6>1. records'[k] = records[k] /\ records'[k + 1] = e /\ k \in DOMAIN records
              BY <5>1, <4>1
            <6>2. QED
              BY <6>1, <4>2, <4>3, <2>1, <2>8
          <5>2. CASE k # Len(records)
            <6>1. \A j \in 1 .. Len(records) - 1 : records[j].end <= records[j + 1].begin
              BY <1>1 DEF Types, Found
            <6>2. k \in DOMAIN records /\ k + 1 \in DOMAIN records
              <7>1. Len(records) \in Nat
                BY <4>1
              <7>2. k + 1 \in 1 .. Len(records)
                BY <5>2, <7>1
              <7>3. QED
                BY <7>2, <4>1
            <6>3. records'[k] = records[k] /\ records'[k + 1] = records[k + 1]
              BY <4>1, <6>2
            <6>4. k \in 1 .. Len(records) - 1
              <7>1. Len(records) \in Nat
                BY <4>1
              <7>2. QED
                BY <5>2, <7>1
            <6>5. QED
              BY <6>1, <6>3, <6>4
          <5>3. QED
            BY <5>1, <5>2
        <4>6. QED
          BY <4>4, <4>5 DEF Found
      <3>3. QED
        BY <2>6, <3>1, <3>2
    <2>11. TypeOK'
      <3>1. pLink \in 1 .. Len(records') + 1
        BY <1>1, <2>9, <2>6, <2>4 DEF Types, TypeOK, Started
      <3>2. QED
        BY <1>1, <2>3, <2>5, <2>7, <2>9, <3>1
           DEF Types, TypeOK, RecordType, AttachmentType
    <2>12. QED
      BY <1>1, <2>5, <2>10, <2>11 DEF Types, Started
  <1>5. QED
    BY <1>3, <1>4 DEF Scan

LEMMA QuietTypes ==
  ASSUME Types, Load \/ Combine \/ GetSource \/ LoadHeaders \/ Commit \/ Fallback
  PROVE  Types'
  <1>1. UNCHANGED <<message, pbLine, records, pLink, pbText, payload>>
    BY DEF Load, Combine, GetSource, LoadHeaders, Commit, Fallback
  <1>2. UNCHANGED <<Position, AttachmentType, begin, end>>
    BY <1>1 DEF Position, AttachmentType, pbEnd, body, begin, end
  <1>3. Found'
    BY <1>1 DEF Types, Found
  <1>4. CASE Load
    BY <1>1, <1>2, <1>3, <1>4 DEF Types, TypeOK, Started, Load, Leave, Goto
  <1>5. CASE Combine
    BY <1>1, <1>2, <1>3, <1>5 DEF Types, TypeOK, Started, Combine, Leave, Goto
  <1>6. CASE GetSource
    <2>1. pc' \in {"fallback", "scan"} /\ failed' \subseteq Failures
      BY <1>6 DEF GetSource, Leave, Goto, Types, TypeOK
    <2>2. QED
      BY <1>1, <1>2, <1>3, <1>6, <2>1 DEF Types, TypeOK, Started, GetSource
  <1>7. CASE LoadHeaders
    <2>1. pLink <= Len(records)
      <3>1. records \in Seq(RecordType) /\ records # <<>> /\ pLink = 1
        BY <1>7 DEF Types, TypeOK, Started, LoadHeaders, RecordType
      <3>2. QED
        BY <3>1
    <2>2. QED
      BY <1>1, <1>2, <1>3, <1>7, <2>1 DEF Types, TypeOK, Started, LoadHeaders, Leave, Goto
  <1>8. CASE Commit
    BY <1>1, <1>2, <1>3, <1>8 DEF Types, TypeOK, Started, Commit, Goto
  <1>9. CASE Fallback
    BY <1>1, <1>2, <1>3, <1>9 DEF Types, TypeOK, Started, Fallback
  <1>10. QED
    BY <1>4, <1>5, <1>6, <1>7, <1>8, <1>9

LEMMA TextTypes == ASSUME Types, TextBetween \/ TrailingText PROVE Types'
  <1>1. UNCHANGED <<message, pbLine, records, pLink, pbText, payload, marks, result>>
    BY DEF TextBetween, TrailingText
  <1>2. UNCHANGED <<Position, AttachmentType, begin, end>>
    BY <1>1 DEF Position, AttachmentType, pbEnd, body, begin, end
  <1>3. Found'
    BY <1>1 DEF Types, Found
  <1>4. CASE TextBetween
    <2>1. pLink \in DOMAIN records /\ begin \in Position
      <3>1. records \in Seq(RecordType) /\ pLink \in 1 .. Len(records)
        BY <1>4 DEF Types, TypeOK, TextBetween, RecordType
      <3>2. QED
        BY <3>1, RecordPositions DEF Types, begin, RecordType
    <2>2. /\ pc' \in {"fallback", "decode"} /\ failed' \subseteq Failures
          /\ attached' \in Seq(AttachmentType)
      <3>1. CASE pbText # 0 /\ begin > pbText
        BY <3>1, <1>4, <2>1, AttachedText DEF TextBetween, Types, TypeOK
      <3>2. CASE ~(pbText # 0 /\ begin > pbText)
        BY <3>2, <1>4 DEF TextBetween, Goto, Types, TypeOK
      <3>3. QED
        BY <3>1, <3>2
    <2>3. QED
      BY <1>1, <1>2, <1>3, <1>4, <2>2 DEF Types, TypeOK, Started, TextBetween
  <1>5. CASE TrailingText
    <2>1. /\ pc' \in {"fallback", "commit"} /\ failed' \subseteq Failures
          /\ attached' \in Seq(AttachmentType)
      <3>1. CASE pbText # 0 /\ pbText < pbEnd
        <4>1. pbEnd \in Position
          BY Text DEF Types, TypeOK, pbEnd
        <4>2. QED
          BY <3>1, <4>1, <1>5, AttachedText DEF TrailingText, Types, TypeOK
      <3>2. CASE ~(pbText # 0 /\ pbText < pbEnd)
        BY <3>2, <1>5 DEF TrailingText, Goto, Types, TypeOK
      <3>3. QED
        BY <3>1, <3>2
    <2>2. QED
      BY <1>1, <1>2, <1>3, <1>5, <2>1 DEF Types, TypeOK, Started, TrailingText
  <1>6. QED
    BY <1>4, <1>5

(* The record that is decoded next. *)
LEMMA NextRecord ==
  ASSUME Types, pc \in {"text", "decode", "attach"}
  PROVE  /\ pLink \in DOMAIN records /\ begin \in Position /\ end \in Position
         /\ begin \in Nat \ {0} /\ end \in Nat \ {0} /\ begin < end
  <1>1. records \in Seq(RecordType) /\ pLink \in 1 .. Len(records)
    BY DEF Types, TypeOK, RecordType
  <1>2. QED
    BY <1>1, RecordPositions DEF Types, Found, begin, end, RecordType

LEMMA DecodeTypes == ASSUME Types, DecodeRecord PROVE Types'
  <1>1. UNCHANGED <<message, pbLine, records, pLink, pbText, attached, marks, result>>
    BY DEF DecodeRecord
  <1>2. UNCHANGED <<Position, AttachmentType, begin, end, NoPayload>>
    BY <1>1 DEF Position, AttachmentType, pbEnd, body, begin, end, NoPayload
  <1>3. Found'
    BY <1>1 DEF Types, Found
  <1>4. /\ pc' \in {"fallback", "trailing", "attach"} /\ failed' \subseteq Failures
        /\ \/ UNCHANGED payload /\ pc' # "attach"
           \/ payload' = Attachment("raw", begin, end, FALSE)
           \/ \E named \in BOOLEAN : payload' = Attachment("decoded", begin, end, named)
    BY DEF DecodeRecord, Leave, Goto, Types, TypeOK
  <1>5. \/ UNCHANGED payload /\ pc' # "attach"
        \/ /\ payload' \in AttachmentType
           /\ payload'.from = begin /\ payload'.to = end
           /\ payload'.named => payload'.kind = "decoded"
           /\ payload'.kind # "text"
    <2>1. begin \in Position /\ end \in Position
      BY NextRecord DEF DecodeRecord
    <2>2. ASSUME NEW kind \in {"raw", "decoded"}, NEW named \in BOOLEAN,
                 payload' = Attachment(kind, begin, end, named)
          PROVE  /\ payload' \in AttachmentType
                 /\ payload'.from = begin /\ payload'.to = end
                 /\ payload'.named = named /\ payload'.kind = kind
      BY <2>1, <2>2 DEF Attachment, AttachmentType
    <2>3. CASE UNCHANGED payload /\ pc' # "attach"
      BY <2>3
    <2>4. CASE payload' = Attachment("raw", begin, end, FALSE)
      BY <2>2, <2>4
    <2>5. CASE \E named \in BOOLEAN : payload' = Attachment("decoded", begin, end, named)
      BY <2>2, <2>5
    <2>6. QED
      BY <1>4, <2>3, <2>4, <2>5
  <1>6. QED
    BY <1>1, <1>2, <1>3, <1>4, <1>5 DEF Types, TypeOK, Started, DecodeRecord

LEMMA AttachTypes == ASSUME Types, AttachRecord PROVE Types'
  <1>1. UNCHANGED <<message, pbLine, records, payload, result>> /\ pc = "attach"
    BY DEF AttachRecord
  <1>2. UNCHANGED <<Position, AttachmentType, NoPayload>>
    BY <1>1 DEF Position, AttachmentType, pbEnd, body, NoPayload
  <1>3. Found'
    BY <1>1 DEF Types, Found
  <1>4. payload \in AttachmentType /\ attached \in Seq(AttachmentType)
    BY <1>1 DEF Types, TypeOK, Started
  <1>5. attached' \in {attached, Append(attached, payload)} /\ failed' \subseteq Failures
    BY DEF AttachRecord, LeaveAttach, Leave, Goto, Types, TypeOK
  <1>6. attached' \in Seq(AttachmentType)
    BY <1>4, <1>5
  <1>7. \/ pc' = "fallback" /\ UNCHANGED <<marks, pbText, pLink>>
        \/ /\ pc' = (IF pLink < Len(records) THEN "text" ELSE "trailing")
           /\ pbText' = end /\ pLink' = pLink + 1
           /\ marks' \in Nat
    <2>1. HeadersAdded \in {0, 1} /\ marks \in Nat
      BY DEF HeadersAdded, Types, TypeOK
    <2>2. marks + HeadersAdded \in Nat
      BY <2>1
    <2>3. QED
      BY <2>2 DEF AttachRecord, LeaveAttach, Leave, Goto, TextAfterRecord, AfterRecord
  <1>8. pLink \in 1 .. Len(records) /\ end \in Position
    <2>1. records \in Seq(RecordType)
      BY DEF Types, TypeOK, RecordType
    <2>2. QED
      BY <1>1, <2>1, NextRecord
  <1>9. /\ pLink' \in 1 .. Len(records) + 1
        /\ pc' \in {"text", "decode", "attach"} => pLink' <= Len(records)
        /\ marks' \in Nat /\ pbText' \in Position \cup {0}
        /\ pc' \in {"fallback", "text", "trailing"}
    <2>1. Len(records) \in Nat
      BY DEF Types, TypeOK
    <2>2. QED
      BY <1>7, <1>8, <2>1 DEF Types, TypeOK
  <1>10. QED
    BY <1>1, <1>2, <1>3, <1>5, <1>6, <1>9 DEF Types, TypeOK, Started

LEMMA TypesInvariant == Spec => []Types
  <1>1. ASSUME Types, [Next]_vars
        PROVE  Types'
    <2>1. CASE UNCHANGED vars
      BY <1>1, <2>1 DEF vars, Types, TypeOK, Started, Found, Position, AttachmentType,
                  pbEnd, body, begin, end
    <2>2. CASE Next
      BY <1>1, <2>2, ScanTypes, QuietTypes, TextTypes, DecodeTypes, AttachTypes DEF Next
    <2>3. QED
      BY <1>1, <2>1, <2>2
  <1>2. QED
    BY <1>1, InitTypes, PTL DEF Spec

(* The pointers and indexes of _LoadEncodedStream stay within the text and the
   list of records, for every message and every failure. *)
THEOREM TypeCorrect == Spec => []TypeOK
  <1>1. Types => TypeOK
    BY DEF Types
  <1>2. QED
    BY <1>1, TypesInvariant, PTL
-----------------------------------------------------------------------------
(* Nothing but the two failures that have a default has struck as long as the
   message is not left to its source. *)
Unfailed == pc \notin {"fallback", "done"} => failed \subseteq {"Name", "SetSize"}

LEMMA UnfailedStep ==
  ASSUME Types, Unfailed, AllOrNothing, [Next]_vars
  PROVE  Unfailed' /\ AllOrNothing'
  <1>1. CASE UNCHANGED vars
    BY <1>1 DEF vars, Unfailed, AllOrNothing
  <1>2. CASE Load \/ GetSource \/ LoadHeaders
    BY <1>2 DEF Load, GetSource, LoadHeaders, Leave, Goto, Unfailed, AllOrNothing,
                Types, Started
  <1>3. CASE Scan
    BY <1>3 DEF Scan, Leave, Goto, Unfailed, AllOrNothing, Types, Started
  <1>4. CASE Combine \/ Commit
    BY <1>4 DEF Combine, Commit, Leave, Goto, Unfailed, AllOrNothing, Types, Started
  <1>5. CASE DecodeRecord
    BY <1>5 DEF DecodeRecord, Leave, Goto, Unfailed, AllOrNothing, Types, Started
  <1>6. CASE AttachRecord
    BY <1>6 DEF AttachRecord, LeaveAttach, Leave, Goto, AfterRecord, Unfailed,
                AllOrNothing, Types, Started
  <1>7. CASE TextBetween \/ TrailingText
    <2>1. pc' = "fallback" \/ UNCHANGED failed
      BY <1>7 DEF TextBetween, TrailingText, AttachText, LeaveAttach, Leave, Goto
    <2>2. UNCHANGED result /\ pc \in {"text", "trailing"}
      BY <1>7 DEF TextBetween, TrailingText
    <2>3. QED
      BY <2>1, <2>2 DEF Unfailed, AllOrNothing, Types, Started
  <1>8. CASE Fallback
    BY <1>8 DEF Fallback, Unfailed, AllOrNothing
  <1>9. QED
    BY <1>1, <1>2, <1>3, <1>4, <1>5, <1>6, <1>7, <1>8 DEF Next

(* A message that Load delivers in pieces has been through no failure but of the
   calls that have a default (the __leave statements of _LoadEncodedStream). *)
THEOREM DeliveredAllOrNothing == Spec => []AllOrNothing
  <1>1. Init => Unfailed /\ AllOrNothing
    BY DEF Init, Unfailed, AllOrNothing
  <1>2. QED
    BY <1>1, UnfailedStep, TypesInvariant, PTL DEF Spec
-----------------------------------------------------------------------------
DecodedUnderName(a) == a.kind = "decoded" /\ a.named
Marked(bodies) == {i \in DOMAIN bodies : DecodedUnderName(bodies[i])}

LEMMA MarkedAppended ==
  ASSUME NEW bodies \in Seq(AttachmentType), NEW a \in AttachmentType
  PROVE  /\ Cardinality(Marked(bodies)) \in Nat
         /\ Cardinality(Marked(Append(bodies, a)))
              = Cardinality(Marked(bodies)) + (IF DecodedUnderName(a) THEN 1 ELSE 0)
  <1> DEFINE longer == Append(bodies, a)
  <1>1. /\ Len(bodies) \in Nat /\ DOMAIN bodies = 1 .. Len(bodies)
        /\ DOMAIN longer = DOMAIN bodies \cup {Len(bodies) + 1}
        /\ \A i \in DOMAIN bodies : longer[i] = bodies[i]
        /\ longer[Len(bodies) + 1] = a
    OBVIOUS
  <1> HIDE DEF longer
  <1>2. IsFiniteSet(Marked(bodies)) /\ Len(bodies) + 1 \notin Marked(bodies)
    <2>1. IsFiniteSet(1 .. Len(bodies))
      BY <1>1, FS_Interval
    <2>2. QED
      BY <1>1, <2>1, FS_Subset DEF Marked
  <1>3. Cardinality(Marked(bodies)) \in Nat
    BY <1>2, FS_CardinalityType
  <1>4. CASE DecodedUnderName(a)
    <2>1. Marked(longer) = Marked(bodies) \cup {Len(bodies) + 1}
      BY <1>1, <1>4 DEF Marked
    <2>2. QED
      BY <1>2, <1>3, <1>4, <2>1, FS_AddElement DEF longer
  <1>5. CASE ~DecodedUnderName(a)
    <2>1. Marked(longer) = Marked(bodies)
      BY <1>1, <1>5 DEF Marked
    <2>2. QED
      BY <1>3, <1>5, <2>1 DEF longer
  <1>6. QED
    BY <1>4, <1>5

LEMMA MarkedStep ==
  ASSUME Types, MarkedIffDecoded, [Next]_vars
  PROVE  MarkedIffDecoded'
  <1> USE DEF MarkedIffDecoded
  <1> SUFFICES ASSUME pc' # "fallback"
               PROVE  marks' = Cardinality(Marked(attached'))
    BY DEF Marked, DecodedUnderName
  <1>1. pc # "fallback" => marks = Cardinality(Marked(attached))
    BY DEF Marked, DecodedUnderName
  <1> HIDE DEF MarkedIffDecoded
  <1>2. attached \in Seq(AttachmentType) /\ marks \in Nat
    BY DEF Types, TypeOK
  <1>3. CASE UNCHANGED <<attached, marks>> /\ pc # "fallback"
    BY <1>1, <1>3
  <1>4. CASE TextBetween \/ TrailingText
    <2>1. UNCHANGED marks /\ pc # "fallback"
      BY <1>4 DEF TextBetween, TrailingText
    <2>2. CASE UNCHANGED attached
      BY <1>3, <2>1, <2>2
    <2>3. ASSUME NEW from \in Position, NEW to \in Position, NEW next,
                 AttachText(from, to, next)
          PROVE  marks' = Cardinality(Marked(attached'))
      <3> DEFINE text == Attachment("text", from, to, FALSE)
      <3>1. text \in AttachmentType /\ attached' = Append(attached, text)
        BY <2>3, AttachedText DEF Types
      <3>2. ~DecodedUnderName(text)
        BY DEF Attachment, DecodedUnderName
      <3> HIDE DEF text
      <3>3. QED
        BY <1>1, <1>2, <2>1, <3>1, <3>2, MarkedAppended
    <2>4. CASE TextBetween /\ pbText # 0 /\ begin > pbText
      BY <2>3, <2>4, NextRecord DEF TextBetween, Types, TypeOK
    <2>5. CASE TrailingText /\ pbText # 0 /\ pbText < pbEnd
      <3>1. pbEnd \in Position
        BY Text DEF Types, TypeOK, pbEnd
      <3>2. QED
        BY <2>3, <2>5, <3>1 DEF TrailingText, Types, TypeOK
    <2>6. QED
      BY <1>4, <2>2, <2>4, <2>5 DEF TextBetween, TrailingText
  <1>5. CASE AttachRecord
    <2>1. /\ pc = "attach" /\ attached' = Append(attached, payload)
          /\ marks' = marks + HeadersAdded
      BY <1>5 DEF AttachRecord, LeaveAttach, Leave
    <2>2. payload \in AttachmentType /\ (payload.named => payload.kind = "decoded")
      BY <2>1 DEF Types, Started
    <2>3. HeadersAdded = IF DecodedUnderName(payload) THEN 1 ELSE 0
      BY <2>2 DEF HeadersAdded, DecodedUnderName
    <2>4. QED
      BY <1>1, <1>2, <2>1, <2>2, <2>3, MarkedAppended
  <1>6. CASE Fallback
    <2>1. Marked(attached') = {} /\ marks' = 0
      BY <1>6 DEF Fallback, Marked
    <2>2. QED
      BY <2>1, FS_EmptySet
  <1>7. CASE UNCHANGED vars
    BY <1>1, <1>7 DEF vars
  <1>8. CASE \/ Load \/ Combine \/ GetSource \/ Scan \/ LoadHeaders
             \/ DecodeRecord \/ Commit
    BY <1>3, <1>8 DEF Load, Combine, GetSource, Scan, LoadHeaders, DecodeRecord, Commit
  <1>9. QED
    BY <1>4, <1>5, <1>6, <1>7, <1>8 DEF Next

(* One X-OeyEnc header for each body decoded under its own name: the header and
   the body come in one step of the loop, or the message is given up. *)
THEOREM MarkedAsDecoded == Spec => []MarkedIffDecoded
  <1>1. Init => MarkedIffDecoded
    <2> SUFFICES ASSUME Init PROVE MarkedIffDecoded
      OBVIOUS
    <2>1. Marked(attached) = {} /\ marks = 0
      BY DEF Init, Marked
    <2>2. QED
      BY <2>1, FS_EmptySet DEF MarkedIffDecoded, Marked, DecodedUnderName
  <1>2. QED
    BY <1>1, MarkedStep, TypesInvariant, PTL DEF Spec
-----------------------------------------------------------------------------
(* The bodies reach up to a position of the text; or none was attached yet. *)
CoveredTo(p) == attached # <<>> /\ attached[Len(attached)].to = p
Untouched == attached = <<>> /\ pbText = 0 /\ pLink = 1

(* What is covered at each step of the second loop.  While the text in front of
   a record is due, the bodies end where the record before it ends. *)
Covered ==
  "SetSize" \notin failed =>
    /\ Contiguous
    /\ attached # <<>> => attached[1].from = records[1].begin
    /\ pc = "text" =>
         \/ Untouched
         \/ /\ pbText # 0 /\ CoveredTo(pbText)
            /\ pLink > 1 /\ pbText = records[pLink - 1].end
    /\ pc \in {"decode", "attach"} => Untouched \/ CoveredTo(begin)
    /\ pc = "trailing" => pbText # 0 /\ CoveredTo(pbText)
    /\ pc = "commit" => CoveredTo(pbEnd)
    /\ result = "encoded" => CoveredTo(pbEnd)

(* A body that begins where the others end. *)
LEMMA BodyAppended ==
  ASSUME attached \in Seq(AttachmentType), Contiguous,
         NEW a \in AttachmentType, a.from < a.to,
         attached = <<>> \/ CoveredTo(a.from),
         attached' = Append(attached, a)
  PROVE  /\ Contiguous'
         /\ attached' # <<>> /\ attached'[Len(attached')].to = a.to
         /\ attached'[1] = IF attached = <<>> THEN a ELSE attached[1]
  <1>1. /\ Len(attached) \in Nat /\ Len(attached') = Len(attached) + 1
        /\ DOMAIN attached = 1 .. Len(attached)
        /\ DOMAIN attached' = 1 .. Len(attached) + 1
        /\ \A i \in DOMAIN attached : attached'[i] = attached[i]
        /\ attached'[Len(attached) + 1] = a
        /\ attached = <<>> <=> Len(attached) = 0
    OBVIOUS
  <1>2. \A i \in DOMAIN attached' : attached'[i].from < attached'[i].to
    BY <1>1 DEF Contiguous
  <1>3. \A i \in 2 .. Len(attached') : attached'[i].from = attached'[i - 1].to
    <2> SUFFICES ASSUME NEW i \in 2 .. Len(attached) + 1
                 PROVE  attached'[i].from = attached'[i - 1].to
      BY <1>1
    <2>1. CASE i = Len(attached) + 1
      <3>1. Len(attached) > 0 /\ i - 1 = Len(attached) /\ i - 1 \in DOMAIN attached
        BY <1>1, <2>1
      <3>2. QED
        BY <1>1, <2>1, <3>1 DEF CoveredTo
    <2>2. CASE i # Len(attached) + 1
      <3>1. i \in 2 .. Len(attached) /\ i \in DOMAIN attached /\ i - 1 \in DOMAIN attached
        BY <1>1, <2>2
      <3>2. QED
        BY <1>1, <3>1 DEF Contiguous
    <2>3. QED
      BY <2>1, <2>2
  <1>4. QED
    BY <1>1, <1>2, <1>3 DEF Contiguous, CoveredTo

(* AttachText in a step that leaves the list of records alone. *)
LEMMA TextAppended ==
  ASSUME Types, Covered, "SetSize" \notin failed, UNCHANGED records,
         NEW from \in Position, NEW to \in Position, from < to,
         CoveredTo(from), NEW next, AttachText(from, to, next)
  PROVE  /\ Contiguous' /\ attached'[1].from = records'[1].begin
         /\ pc' # "fallback" => CoveredTo(to)'
  <1> DEFINE text == Attachment("text", from, to, FALSE)
  <1>1. text \in AttachmentType /\ text.from = from /\ text.to = to
    BY DEF Attachment, AttachmentType
  <1>2. /\ attached \in Seq(AttachmentType) /\ Contiguous
        /\ attached # <<>> /\ attached[1].from = records[1].begin
    BY DEF Types, TypeOK, Covered, CoveredTo
  <1>3. /\ attached' \in {attached, Append(attached, text)}
        /\ pc' # "fallback" => attached' = Append(attached, text)
    BY AttachedText DEF Types
  <1> HIDE DEF text
  <1>4. CASE attached' = Append(attached, text)
    BY <1>1, <1>2, <1>4, BodyAppended DEF CoveredTo
  <1>5. CASE attached' = attached /\ pc' = "fallback"
    BY <1>2, <1>5 DEF Contiguous
  <1>6. QED
    BY <1>3, <1>4, <1>5

LEMMA CoveredStep ==
  ASSUME Types, Covered, [Next]_vars
  PROVE  Covered'
  <1> SUFFICES ASSUME "SetSize" \notin failed' PROVE Covered'
    BY DEF Covered
  <1>0. CASE UNCHANGED vars
    BY <1>0 DEF vars, Covered, Contiguous, CoveredTo, Untouched, begin, end, pbEnd, body
  <1>1. CASE \/ Load \/ Combine \/ GetSource \/ Scan \/ LoadHeaders
    <2>1. /\ attached' = <<>> /\ pbText' = 0 /\ pLink' = 1
          /\ pc' \in {"combine", "source", "fallback", "done", "scan", "headers", "text"}
          /\ result' # "encoded"
      BY <1>1 DEF Types, Started, Load, Combine, GetSource, Scan, LoadHeaders, Leave, Goto
    <2>2. Contiguous'
      BY <2>1 DEF Contiguous
    <2>3. QED
      BY <2>1, <2>2 DEF Covered, Untouched
  <1>2. CASE TextBetween
    <2>1. /\ UNCHANGED <<message, records, pLink, pbText, result>> /\ pc = "text"
          /\ pc' \in {"fallback", "decode"} /\ result' # "encoded"
          /\ "SetSize" \notin failed
      BY <1>2 DEF TextBetween, AttachText, LeaveAttach, Leave, Goto, Types, Started
    <2>2. UNCHANGED begin
      BY <2>1 DEF begin
    <2>3. CASE Untouched
      BY <1>2, <2>1, <2>2, <2>3
         DEF TextBetween, Covered, Contiguous, Untouched, Goto
    <2>4. CASE ~Untouched
      <3>1. /\ pbText # 0 /\ CoveredTo(pbText) /\ pLink > 1
            /\ pbText = records[pLink - 1].end /\ pbText \in Position
        BY <2>1, <2>4 DEF Covered, Types, TypeOK
      <3>2. pbText <= begin /\ begin \in Position /\ pbText \in Nat /\ begin \in Nat
        <4>1. pLink \in DOMAIN records /\ DOMAIN records = 1 .. Len(records)
              /\ begin \in Position /\ begin \in Nat /\ Len(records) \in Nat
          BY <2>1, NextRecord DEF Types, TypeOK
        <4>2. pLink - 1 \in DOMAIN records /\ pLink - 1 \in 1 .. Len(records) - 1
              /\ pLink - 1 + 1 = pLink
          BY <3>1, <4>1
        <4>3. records[pLink - 1].end \in Nat
          BY <4>2, RecordPositions DEF Types
        <4>4. QED
          BY <3>1, <4>1, <4>2, <4>3 DEF Types, Found, begin
      <3>3. CASE begin > pbText
        <4>1. AttachText(pbText, begin, "decode")
          BY <1>2, <3>1, <3>3 DEF TextBetween
        <4>2. /\ Contiguous' /\ attached'[1].from = records'[1].begin
              /\ pc' # "fallback" => CoveredTo(begin)'
          BY <2>1, <2>2, <3>1, <3>2, <3>3, <4>1, TextAppended DEF CoveredTo
        <4>3. QED
          BY <2>1, <4>2 DEF Covered
      <3>4. CASE ~(begin > pbText)
        <4>1. UNCHANGED attached /\ begin = pbText
          BY <1>2, <3>2, <3>4 DEF TextBetween
        <4>2. QED
          BY <2>1, <2>2, <3>1, <4>1 DEF Covered, Contiguous, CoveredTo
      <3>5. QED
        BY <3>3, <3>4
    <2>5. QED
      BY <2>3, <2>4
  <1>3. CASE DecodeRecord
    <2>1. /\ UNCHANGED <<message, records, pLink, pbText, attached, result>>
          /\ pc = "decode" /\ pc' \in {"fallback", "attach"} /\ result' # "encoded"
          /\ "SetSize" \notin failed
      BY <1>3 DEF DecodeRecord, Leave, Goto, Types, Started
    <2>2. QED
      BY <2>1 DEF Covered, Contiguous, CoveredTo, Untouched, begin
  <1>4. CASE AttachRecord
    <2>1. /\ UNCHANGED <<message, records, result>>
          /\ pc = "attach" /\ result' # "encoded" /\ "SetSize" \notin failed
          /\ attached' \in {attached, Append(attached, payload)}
          /\ \/ pc' = "fallback"
             \/ /\ attached' = Append(attached, payload)
                /\ pbText' = end /\ pLink' = pLink + 1
                /\ pc' \in {"text", "trailing"}
      BY <1>4 DEF AttachRecord, LeaveAttach, Leave, Goto, TextAfterRecord,
                  AfterRecord, Types, Started
    <2>2. /\ payload \in AttachmentType /\ payload.from = begin /\ payload.to = end
          /\ attached \in Seq(AttachmentType) /\ Contiguous
          /\ Untouched \/ CoveredTo(begin)
      BY <2>1 DEF Types, TypeOK, Started, Covered
    <2>3. begin < end /\ end # 0 /\ pLink \in Nat /\ pLink > 0
      BY <2>1, NextRecord DEF Types, TypeOK
    <2>4. CASE attached' = Append(attached, payload)
      <3>1. /\ Contiguous'
            /\ attached' # <<>> /\ attached'[Len(attached')].to = end
            /\ attached'[1] = IF attached = <<>> THEN payload ELSE attached[1]
        <4>1. attached = <<>> \/ CoveredTo(payload.from)
          BY <2>2 DEF Untouched
        <4>2. payload.from < payload.to
          BY <2>2, <2>3
        <4>3. QED
          BY <2>2, <2>4, <4>1, <4>2, BodyAppended
      <3>2. attached'[1].from = records[1].begin
        <4>1. CASE attached = <<>>
          BY <2>2, <3>1, <4>1 DEF Untouched, CoveredTo, begin
        <4>2. CASE attached # <<>>
          BY <2>1, <3>1, <4>2 DEF Covered
        <4>3. QED
          BY <4>1, <4>2
      <3>3. CASE pc' = "fallback"
        BY <2>1, <3>1, <3>2, <3>3 DEF Covered
      <3>4. CASE pc' # "fallback"
        <4>1. pbText' = end /\ end = records'[pLink' - 1].end /\ pLink' > 1
          BY <2>1, <2>3, <3>4 DEF end
        <4>2. QED
          BY <2>1, <2>3, <3>1, <3>2, <3>4, <4>1 DEF Covered, CoveredTo
      <3>5. QED
        BY <3>3, <3>4
    <2>5. CASE attached' = attached /\ pc' = "fallback"
      BY <2>1, <2>5 DEF Covered, Contiguous
    <2>6. QED
      BY <2>1, <2>4, <2>5
  <1>5. CASE TrailingText
    <2>1. /\ UNCHANGED <<message, records, pbText, result>> /\ pc = "trailing"
          /\ pc' \in {"fallback", "commit"} /\ result' # "encoded"
          /\ "SetSize" \notin failed
      BY <1>5 DEF TrailingText, AttachText, LeaveAttach, Leave, Goto, Types, Started
    <2>2. UNCHANGED pbEnd
      BY <2>1 DEF pbEnd, body
    <2>3. /\ pbText # 0 /\ CoveredTo(pbText) /\ pbText \in Position
          /\ pbEnd \in Position /\ pbText <= pbEnd /\ pbText \in Nat /\ pbEnd \in Nat
      BY <2>1, Text DEF Covered, Types, TypeOK, pbEnd
    <2>4. CASE pbText < pbEnd
      <3>1. AttachText(pbText, pbEnd, "commit")
        BY <1>5, <2>3, <2>4 DEF TrailingText
      <3>2. /\ Contiguous' /\ attached'[1].from = records'[1].begin
            /\ pc' # "fallback" => CoveredTo(pbEnd)'
        BY <2>1, <2>2, <2>3, <2>4, <3>1, TextAppended DEF CoveredTo
      <3>3. QED
        BY <2>1, <3>2 DEF Covered
    <2>5. CASE ~(pbText < pbEnd)
      <3>1. UNCHANGED attached /\ pbText = pbEnd
        BY <1>5, <2>3, <2>5 DEF TrailingText
      <3>2. QED
        BY <2>1, <2>2, <2>3, <3>1 DEF Covered, Contiguous, CoveredTo
    <2>6. QED
      BY <2>4, <2>5
  <1>6. CASE Commit
    <2>1. /\ UNCHANGED <<message, records, attached, failed>> /\ pc = "commit"
          /\ pc' \in {"fallback", "done"}
      BY <1>6 DEF Commit, Goto
    <2>2. QED
      BY <2>1 DEF Covered, Contiguous, CoveredTo, pbEnd, body
  <1>7. CASE Fallback
    <2>1. attached' = <<>> /\ pc' = "done" /\ result' # "encoded"
      BY <1>7 DEF Fallback
    <2>2. QED
      BY <2>1 DEF Covered, Contiguous
  <1>8. QED
    BY <1>0, <1>1, <1>2, <1>3, <1>4, <1>5, <1>6, <1>7 DEF Next

(* Whatever the text of a message and whichever calls fail, other than the size
   of a stream: from the first accepted block on, its lines are attached once
   and in order, and to the end if the message is delivered in pieces. *)
THEOREM NoLineIsLost == Spec => []NothingIsLost
  <1>1. Init => Covered
    BY DEF Init, Covered, Contiguous
  <1>2. Covered => NothingIsLost
    BY DEF Covered, NothingIsLost, CoveredTo
  <1>3. QED
    BY <1>1, <1>2, CoveredStep, TypesInvariant, PTL DEF Spec
-----------------------------------------------------------------------------
(* In a regular message a header opens a block that ends at the next =yend line,
   with no other header in it: what the scan and the decoder make of it is not
   left to chance. *)
LEMMA RegularBlock ==
  ASSUME message \in Message, Regular, NEW i \in Begins
  PROVE  /\ i \in Position /\ i \in Nat /\ HasTail(i) /\ pbTail(i) \in i + 1 .. pbEnd
         /\ \A b \in Blocks : b.from = i => b = [from |-> i, to |-> pbTail(i) - 1]
         /\ [from |-> i, to |-> pbTail(i) - 1] \in Blocks
         /\ \A j \in Begins : j <= i \/ j >= pbTail(i)
         /\ ~SwallowsHeader(i)
  <1> DEFINE r == FindLineTag(i, {"yend"})
  <1>1. /\ i \in DOMAIN body /\ DOMAIN body = 1 .. Len(body) /\ Len(body) \in Nat
        /\ pbEnd = Len(body) + 1 /\ i \in Position /\ i \in Nat /\ body[i] \in Header
    BY Text DEF Begins, pbEnd
  <1>2. /\ r \in i .. pbEnd
        /\ r # pbEnd => r \in DOMAIN body /\ body[r] = "yend"
        /\ \A j \in i .. r - 1 : body[j] # "yend"
    BY <1>1, FirstLineTag
  <1> HIDE DEF r
  <1>3. body[i] # "yend"
    BY <1>1 DEF Header, YBEGIN, YBEGIN2
  <1>4. ASSUME NEW b \in Blocks, b.from = i
        PROVE  b.to = r /\ r # pbEnd
    <2>1. /\ b.to \in 1 .. Len(body) /\ i < b.to /\ body[b.to] = "yend"
          /\ \A k \in i + 1 .. b.to - 1 : body[k] # "yend"
      BY <1>1, <1>4 DEF Blocks, Closed
    <2>2. ~(b.to < r)
      BY <1>1, <1>2, <2>1
    <2>3. ~(r < b.to)
      <3> SUFFICES ASSUME r < b.to PROVE FALSE
        OBVIOUS
      <3>1. body[r] = "yend" /\ r # i /\ r \in i + 1 .. b.to - 1
        BY <1>1, <1>2, <1>3, <2>1
      <3>2. QED
        BY <2>1, <3>1
    <2>4. QED
      BY <1>1, <1>2, <2>1, <2>2, <2>3
  <1>5. PICK b \in Blocks : b.from = i /\ (i + 1 .. b.to) \cap Begins = {}
    BY DEF Regular
  <1>6. b.to = r /\ r # pbEnd /\ pbTail(i) = r + 1 /\ pbTail(i) - 1 = r
    BY <1>1, <1>2, <1>4, <1>5 DEF pbTail, r
  <1>7. \A c \in Blocks : c = [from |-> c.from, to |-> c.to]
    BY DEF Blocks
  <1>8. HasTail(i) /\ pbTail(i) \in i + 1 .. pbEnd
    BY <1>1, <1>2, <1>6 DEF HasTail, r
  <1>9. [from |-> i, to |-> pbTail(i) - 1] \in Blocks
    BY <1>5, <1>6, <1>7
  <1>10. \A c \in Blocks : c.from = i => c = [from |-> i, to |-> pbTail(i) - 1]
    BY <1>4, <1>6, <1>7
  <1>11. \A j \in Begins : j <= i \/ j >= pbTail(i)
    BY <1>1, <1>2, <1>5, <1>6 DEF Begins
  <1>12. ~SwallowsHeader(i)
    BY <1>1, <1>2, <1>11, <1>6 DEF SwallowsHeader, Begins
  <1>13. QED
    BY <1>1, <1>8, <1>9, <1>10, <1>11, <1>12

(* Of the headers behind a position the scan finds the first. *)
LEMMA RegularScan ==
  ASSUME message \in Message, Regular, NEW p \in Position
  PROVE  LET pbBody == DecoderFindEncodedBody(p)
         IN  /\ pbBody # pbEnd => pbBody \in Begins
             /\ \A i \in Begins : i < p \/ (pbBody # pbEnd /\ pbBody <= i)
  <1> DEFINE first(tags) == FindLineTag(p, tags)
  <1>1. /\ DOMAIN body = 1 .. Len(body) /\ Len(body) \in Nat /\ p \in Nat
        /\ pbEnd = Len(body) + 1 /\ p <= pbEnd
    BY Text DEF pbEnd
  <1>2. ASSUME NEW tags
        PROVE  /\ first(tags) \in p .. pbEnd
               /\ first(tags) # pbEnd =>
                    first(tags) \in DOMAIN body /\ body[first(tags)] \in tags
               /\ \A i \in p .. first(tags) - 1 : body[i] \notin tags
    BY FirstLineTag
  <1> HIDE DEF first
  <1>3. DecoderFindEncodedBody(p) = IF first(YBEGIN2) # pbEnd THEN first(YBEGIN2)
                                    ELSE first(YBEGIN)
    BY DEF DecoderFindEncodedBody, first
  <1>4. \A i \in Begins : i \in 1 .. Len(body) /\ body[i] \in YBEGIN \cup YBEGIN2
    BY <1>1 DEF Begins, Header
  <1>5. \A i, j \in Begins : body[i] \in YBEGIN <=> body[j] \in YBEGIN
    BY DEF Regular
  <1>6. \A i \in DOMAIN body : body[i] \in YBEGIN \cup YBEGIN2 => i \in Begins
    BY DEF Begins, Header
  <1>7. YBEGIN \cap YBEGIN2 = {}
    BY DEF YBEGIN, YBEGIN2
  <1>8. CASE first(YBEGIN2) # pbEnd
    <2>1. first(YBEGIN2) \in Begins /\ body[first(YBEGIN2)] \in YBEGIN2
      BY <1>2, <1>6, <1>8
    <2>2. \A i \in Begins : body[i] \in YBEGIN2
      BY <2>1, <1>4, <1>5, <1>7
    <2>3. \A i \in Begins : i < p \/ first(YBEGIN2) <= i
      BY <1>1, <1>2, <1>4, <2>2
    <2>4. QED
      BY <1>3, <1>8, <2>1, <2>3
  <1>9. CASE first(YBEGIN2) = pbEnd
    <2>1. first(YBEGIN) # pbEnd => first(YBEGIN) \in Begins
      BY <1>2, <1>6
    <2>2. \A i \in Begins : i < p \/ body[i] \in YBEGIN
      BY <1>1, <1>2, <1>4, <1>9
    <2>3. \A i \in Begins : i < p \/ first(YBEGIN) <= i
      BY <1>1, <1>2, <1>4, <2>2
    <2>4. \A i \in Begins : i < pbEnd
      BY <1>1, <1>4
    <2>5. QED
      BY <1>1, <1>2, <1>3, <1>4, <1>9, <2>1, <2>3, <2>4
  <1>10. QED
    BY <1>8, <1>9
-----------------------------------------------------------------------------
BlockOf(record) == [from |-> record.begin, to |-> record.end - 1]
BodyOf(record) ==
  Attachment(IF Decodable(BlockOf(record)) THEN "decoded" ELSE "raw",
             record.begin, record.end, Decodable(BlockOf(record)))
Pieces == {a \in Range(attached) : a.kind # "text"}

(* The scan takes every accepted block it has passed, and nothing else. *)
Collected ==
  /\ \A k \in DOMAIN records : BlockOf(records[k]) \in Accepted
  /\ \A b \in Accepted : b.from < pbLine =>
       \E k \in DOMAIN records : BlockOf(records[k]) = b
  /\ pc \in {"headers", "text", "decode", "attach", "trailing", "commit"} =>
       \A b \in Accepted : b.from < pbLine

(* The records that are done are the bodies, the texts left aside. *)
Taken ==
  /\ pc \notin {"fallback", "done"} =>
       Pieces = {BodyOf(records[k]) : k \in 1 .. pLink - 1}
  /\ pc = "attach" => payload = BodyOf(records[pLink])
  /\ pc \in {"trailing", "commit"} =>
       pLink = Len(records) + 1 /\ pLink > 1 /\ pbText # 0

(* Only a message without a block to take goes back to its source. *)
Aimed ==
  /\ pc \in {"source", "scan", "headers", "text", "decode", "attach",
             "trailing", "commit"} => message.subject
  /\ pc = "fallback" => ~(message.subject /\ Accepted # {})
  /\ pc # "combine"

Exact ==
  failed = {} /\ Regular /\ ~message.oeyenc =>
    Collected /\ Taken /\ Aimed /\ BlocksAsWritten

LEMMA InitExact == Init => Exact
  <1> SUFFICES ASSUME Init PROVE Collected /\ Taken /\ Aimed /\ BlocksAsWritten
    BY DEF Exact
  <1>1. message \in Message
    BY MessagesAssumption DEF Init
  <1>2. \A b \in Accepted : b.from \in Nat /\ b.from >= 1
    BY <1>1, Text DEF Accepted, Blocks, Begins
  <1>3. Collected
    BY <1>2 DEF Init, Collected
  <1>4. Pieces = {}
    BY DEF Init, Pieces, Range
  <1>5. QED
    BY <1>3, <1>4 DEF Init, Taken, Aimed, BlocksAsWritten

LEMMA PiecesAppended ==
  ASSUME NEW a \in AttachmentType, attached \in Seq(AttachmentType),
         attached' = Append(attached, a)
  PROVE  Pieces' = Pieces \cup (IF a.kind = "text" THEN {} ELSE {a})
  <1>1. /\ DOMAIN attached' = DOMAIN attached \cup {Len(attached) + 1}
        /\ \A i \in DOMAIN attached : attached'[i] = attached[i]
        /\ attached'[Len(attached) + 1] = a
        /\ Len(attached) + 1 \notin DOMAIN attached
    OBVIOUS
  <1>2. Range(attached') = Range(attached) \cup {a}
    BY <1>1 DEF Range
  <1>3. QED
    BY <1>2 DEF Pieces

(* The message stays; so does everything that is said of its text alone. *)
LEMMA SameMessage ==
  ASSUME [Next]_vars
  PROVE  /\ UNCHANGED <<message, body, pbEnd, Begins, Blocks, Accepted, Regular, Wanted>>
         /\ \A r : BodyOf(r)' = BodyOf(r)
         /\ failed' = {} => failed = {}
  <1>1. UNCHANGED message
    BY DEF Next, vars, Load, Combine, GetSource, Scan, LoadHeaders, TextBetween,
           DecodeRecord, AttachRecord, TrailingText, Commit, Fallback
  <1>2. failed' = {} => failed = {}
    BY DEF Next, vars, Load, Combine, GetSource, Scan, LoadHeaders, TextBetween,
           DecodeRecord, AttachRecord, TrailingText, Commit, Fallback, Goto, Leave,
           LeaveAttach, AttachText
  <1>3. UNCHANGED <<body, pbEnd>>
    BY <1>1 DEF body, pbEnd
  <1>4. UNCHANGED <<Begins, Blocks, Accepted>>
    BY <1>3 DEF Begins, Blocks, Accepted, Closed
  <1>5. \A b : Decodable(b)' = Decodable(b)
    BY <1>3 DEF Decodable
  <1>6. Regular' = Regular
    BY <1>3, <1>4 DEF Regular
  <1>7. UNCHANGED Wanted
    BY <1>4, <1>5 DEF Wanted, Attachment
  <1>8. \A r : BodyOf(r)' = BodyOf(r)
    BY <1>5 DEF BodyOf, BlockOf, Attachment
  <1>9. QED
    BY <1>1, <1>2, <1>3, <1>4, <1>6, <1>7, <1>8

LEMMA ExactScan ==
  ASSUME Types, Scan, failed = {}, failed' = {}, Regular, message.subject,
         Collected, Taken
  PROVE  Collected' /\ Taken' /\ Aimed'
  <1> DEFINE pbBody == DecoderFindEncodedBody(pbLine)
             block == [from |-> pbBody, to |-> pbTail(pbBody) - 1]
  <1>1. /\ message \in Message /\ pbLine \in Position /\ pc = "scan"
        /\ UNCHANGED <<message, pLink, attached>> /\ records \in Seq(RecordType)
        /\ attached = <<>> /\ pLink = 1
    BY DEF Types, TypeOK, Started, Scan, RecordType
  <1>2. UNCHANGED <<Accepted, message>> /\ message'.subject
    BY <1>1, SameMessage DEF Next
  <1>3. /\ pbBody # pbEnd => pbBody \in Begins
        /\ \A i \in Begins : i < pbLine \/ (pbBody # pbEnd /\ pbBody <= i)
    BY <1>1, RegularScan
  <1>4. \A b \in Accepted : b.from \in Begins /\ b \in Blocks
    BY DEF Accepted, Blocks
  <1>5. Taken'
    <2>1. Pieces' = {} /\ pLink' = 1 /\ pc' \in {"fallback", "headers", "scan"}
      BY <1>1 DEF Pieces, Range, Scan, Leave, Goto
    <2>2. QED
      BY <2>1 DEF Taken
  <1>6. CASE pbBody = pbEnd
    <2>1. /\ pc' = IF records = <<>> THEN "fallback" ELSE "headers"
          /\ UNCHANGED <<pbLine, records>>
      BY <1>6 DEF Scan, Goto
    <2>2. \A b \in Accepted : b.from < pbLine
      BY <1>3, <1>4, <1>6
    <2>3. records = <<>> => Accepted = {}
      BY <2>2 DEF Collected
    <2>4. Collected'
      BY <1>2, <2>1, <2>2 DEF Collected, BlockOf
    <2>5. QED
      BY <1>2, <1>5, <2>1, <2>3, <2>4 DEF Aimed
  <1>7. CASE pbBody # pbEnd
    <2>1. /\ pbBody \in Begins /\ HasTail(pbBody) /\ pbTail(pbBody) \in pbBody + 1 .. pbEnd
          /\ \A b \in Blocks : b.from = pbBody => b = block
          /\ block \in Blocks /\ pbBody \in Nat
          /\ \A j \in Begins : j <= pbBody \/ j >= pbTail(pbBody)
          /\ ~SwallowsHeader(pbBody)
      BY <1>1, <1>3, <1>7, RegularBlock
    <2>2. /\ \A x \in failed : FALSE
          /\ ~Leave("Record")
      BY DEF Leave
    <2>3. PICK good \in DecoderInitialize(pbBody) :
            /\ records' = IF good
                          THEN Append(records, [begin |-> pbBody, end |-> pbTail(pbBody)])
                          ELSE records
            /\ pbLine' = pbTail(pbBody) /\ pc' = "scan"
      BY <1>7, <2>1, <2>2 DEF Scan, Goto, ScannedTo
    <2>4. good = (body[pbBody] # "badbegin")
      BY <2>1, <2>3 DEF DecoderInitialize
    <2>5. good <=> block \in Accepted
      BY <2>1, <2>4 DEF Accepted
    <2> DEFINE record == [begin |-> pbBody, end |-> pbTail(pbBody)]
    <2>6. BlockOf(record) = block
      BY DEF BlockOf
    <2>7. \A i \in Begins : i \in Nat /\ (i < pbTail(pbBody) => i < pbLine \/ i = pbBody)
      <3>1. \A i \in Begins : i \in Nat
        BY <1>1, Text DEF Begins
      <3>2. pbTail(pbBody) \in Nat /\ pbLine \in Nat
        BY <1>1, <2>1, Text
      <3>3. QED
        BY <1>3, <1>7, <2>1, <3>1, <3>2
    <2>8. \A b \in Accepted : b.from < pbLine' => b.from < pbLine \/ b = block
      BY <1>4, <2>1, <2>3, <2>7
    <2> HIDE DEF block, pbBody, record
    <2>9. \A r : BlockOf(r)' = BlockOf(r)
      BY DEF BlockOf
    <2>10. CASE good
      <3>1. /\ DOMAIN records' = DOMAIN records \cup {Len(records) + 1}
            /\ \A k \in DOMAIN records : records'[k] = records[k]
            /\ records'[Len(records) + 1] = record
        BY <1>1, <2>3, <2>10 DEF record
      <3>2. \A k \in DOMAIN records' : BlockOf(records'[k]) \in Accepted
        BY <2>5, <2>6, <2>10, <3>1 DEF Collected
      <3>3. \A b \in Accepted : b.from < pbLine' =>
              \E k \in DOMAIN records' : BlockOf(records'[k]) = b
        BY <2>6, <2>8, <3>1 DEF Collected
      <3>4. Collected'
        BY <1>2, <2>3, <2>9, <3>2, <3>3 DEF Collected
      <3>5. QED
        BY <1>2, <1>5, <2>3, <3>4 DEF Aimed
    <2>11. CASE ~good
      <3>1. UNCHANGED records
        BY <2>3, <2>11
      <3>2. \A b \in Accepted : b.from < pbLine' => b.from < pbLine
        BY <2>5, <2>8, <2>11
      <3>3. Collected'
        BY <1>2, <2>3, <2>9, <3>1, <3>2 DEF Collected
      <3>4. QED
        BY <1>2, <1>5, <2>3, <3>3 DEF Aimed
    <2>12. QED
      BY <2>10, <2>11
  <1>8. QED
    BY <1>6, <1>7

(* Of a block that was taken, the decoder makes what is wanted. *)
LEMMA ExactDecode ==
  ASSUME Types, DecodeRecord, failed' = {}, Regular, Collected
  PROVE  pc' = "attach" /\ payload' = BodyOf(records[pLink])
  <1> DEFINE record == records[pLink]
             block == BlockOf(record)
  <1>1. /\ message \in Message /\ pc = "decode" /\ begin \in Nat /\ end \in Nat
        /\ pLink \in DOMAIN records
    BY NextRecord DEF Types, TypeOK, DecodeRecord
  <1>2. block \in Accepted /\ block \in Blocks /\ block.from = begin /\ block.to = end - 1
    BY <1>1 DEF Collected, Accepted, BlockOf, begin, end
  <1>3. begin \in Begins
    BY <1>2 DEF Blocks
  <1>4. /\ block = [from |-> begin, to |-> pbTail(begin) - 1]
        /\ ~SwallowsHeader(begin) /\ pbTail(begin) \in begin + 1 .. pbEnd
    BY <1>1, <1>2, <1>3, RegularBlock
  <1>5. end = pbTail(begin) /\ pbTail(begin) - 1 = block.to
    <2>1. pbTail(begin) \in Nat /\ end - 1 = pbTail(begin) - 1
      BY <1>1, <1>2, <1>4, Text
    <2>2. QED
      BY <1>1, <1>2, <2>1
  <1>6. /\ SizeIsPossible(begin) = {body[begin] # "hugebegin"}
        /\ DecoderProcessBuffer(begin) = {\A i \in begin .. block.to : body[i] # "junk"}
    BY <1>4, <1>5 DEF SizeIsPossible, DecoderProcessBuffer
  <1>7. Decodable(block) = /\ body[begin] # "hugebegin"
                           /\ \A i \in begin .. block.to : body[i] # "junk"
    BY <1>2 DEF Decodable
  <1>8. Decodable(block) \in BOOLEAN
    BY DEF Decodable
  <1> HIDE DEF block
  <1>9. BodyOf(record) = Attachment(IF Decodable(block) THEN "decoded" ELSE "raw",
                                    begin, end, Decodable(block))
    BY DEF BodyOf, block, begin, end
  <1>10. \A call : ~Leave(call)
    BY DEF Leave
  <1>11. CASE /\ TRUE \in SizeIsPossible(begin)
              /\ TRUE \in DecoderProcessBuffer(begin)
              /\ \E named \in BOOLEAN :
                   /\ failed' = failed \cup (IF named THEN {} ELSE {"Name"})
                   /\ payload' = Attachment("decoded", begin, end, named)
              /\ pc' = "attach"
    <2>1. Decodable(block) = TRUE
      BY <1>6, <1>7, <1>11
    <2>2. payload' = Attachment("decoded", begin, end, TRUE)
      BY <1>11
    <2>3. QED
      BY <1>9, <1>11, <2>1, <2>2
  <1>12. CASE /\ FALSE \in SizeIsPossible(begin) \cup DecoderProcessBuffer(begin)
              /\ payload' = Attachment("raw", begin, end, FALSE)
              /\ Goto("attach")
    <2>1. Decodable(block) = FALSE
      BY <1>6, <1>7, <1>12
    <2>2. QED
      BY <1>9, <1>12, <2>1 DEF Goto
  <1>13. QED
    BY <1>10, <1>11, <1>12 DEF DecodeRecord

LEMMA ExactAttach ==
  ASSUME Types, AttachRecord, failed' = {}, Collected, Taken
  PROVE  Collected' /\ Taken' /\ pc' \in {"text", "trailing"}
  <1>1. /\ pc = "attach" /\ UNCHANGED <<records, pbLine>>
        /\ attached' = Append(attached, payload) /\ pbText' = end
        /\ pLink' = pLink + 1
        /\ pc' = IF pLink < Len(records) THEN "text" ELSE "trailing"
    BY DEF AttachRecord, LeaveAttach, Leave, Goto, TextAfterRecord, AfterRecord
  <1>2. /\ payload \in AttachmentType /\ payload.kind # "text"
        /\ attached \in Seq(AttachmentType) /\ payload = BodyOf(records[pLink])
        /\ pLink \in 1 .. Len(records) /\ Len(records) \in Nat /\ end # 0
    BY <1>1, NextRecord DEF Types, TypeOK, Started, Taken
  <1>3. /\ UNCHANGED Accepted /\ \A r : BodyOf(r)' = BodyOf(r)
    BY SameMessage DEF Next
  <1>4. Pieces' = Pieces \cup {BodyOf(records[pLink])}
    BY <1>1, <1>2, PiecesAppended
  <1>5. 1 .. pLink' - 1 = (1 .. pLink - 1) \cup {pLink}
    BY <1>1, <1>2
  <1>6. Pieces' = {BodyOf(records'[k]) : k \in 1 .. pLink' - 1}
    BY <1>1, <1>4, <1>5 DEF Taken
  <1>7. pc' = "trailing" => pLink' = Len(records') + 1 /\ pLink' > 1
    BY <1>1, <1>2
  <1>8. Collected'
    BY <1>1, <1>3 DEF Collected, BlockOf
  <1>9. QED
    BY <1>1, <1>2, <1>3, <1>6, <1>7, <1>8 DEF Taken

LEMMA ExactCommit ==
  ASSUME Types, Commit, failed = {}, Collected, Taken, Aimed
  PROVE  pc' = "done" /\ BlocksAsWritten'
  <1>1. /\ pc = "commit" /\ pbText # 0 /\ pLink = Len(records) + 1
        /\ UNCHANGED <<records, attached, message>> /\ message.subject
    BY DEF Taken, Aimed, Commit
  <1>2. pc' = "done" /\ result' = "encoded"
    BY <1>1 DEF Commit, Goto
  <1>3. UNCHANGED <<Accepted, Wanted, Pieces>>
    BY <1>1, SameMessage DEF Next, Pieces
  <1>4. Len(records) \in Nat /\ DOMAIN records = 1 .. Len(records)
    BY DEF Types, TypeOK
  <1>5. Pieces = {BodyOf(records[k]) : k \in DOMAIN records}
    BY <1>1, <1>4 DEF Taken
  <1>6. \A k \in DOMAIN records :
          /\ records[k].begin = BlockOf(records[k]).from
          /\ records[k].end = BlockOf(records[k]).to + 1
    BY RecordPositions DEF BlockOf, Types
  <1>7. \A k \in DOMAIN records : BodyOf(records[k]) \in Wanted
    BY <1>6 DEF Collected, BodyOf, Wanted
  <1>8. \A b \in Accepted : \E k \in DOMAIN records : BlockOf(records[k]) = b
    BY <1>1 DEF Collected
  <1>9. ASSUME NEW a \in Wanted
        PROVE  \E k \in DOMAIN records : BodyOf(records[k]) = a
    <2>1. PICK b \in Accepted :
            a = Attachment(IF Decodable(b) THEN "decoded" ELSE "raw", b.from,
                           b.to + 1, Decodable(b))
      BY <1>9 DEF Wanted
    <2>2. PICK k \in DOMAIN records : BlockOf(records[k]) = b
      BY <1>8
    <2>3. QED
      BY <1>6, <2>1, <2>2 DEF BodyOf
  <1>10. Pieces = Wanted
    BY <1>5, <1>7, <1>9
  <1>11. Accepted # {}
    <2>1. 1 \in DOMAIN records
      BY <1>1, <1>4 DEF Taken
    <2>2. QED
      BY <2>1 DEF Collected
  <1>12. {a \in Range(attached') : a.kind # "text"} = Wanted'
    BY <1>3, <1>10 DEF Pieces
  <1>13. Accepted' # {}
    BY <1>3, <1>11
  <1>14. message'.subject
    BY <1>1
  <1>15. QED
    BY <1>2, <1>12, <1>13, <1>14 DEF BlocksAsWritten

LEMMA ExactStep ==
  ASSUME Types, Exact, [Next]_vars
  PROVE  Exact'
  <1> SUFFICES ASSUME failed' = {}, Regular', ~message'.oeyenc
               PROVE  Collected' /\ Taken' /\ Aimed' /\ BlocksAsWritten'
    BY DEF Exact
  <1>1. /\ UNCHANGED <<message, body, pbEnd, Begins, Blocks, Accepted, Wanted>>
        /\ failed = {} /\ Regular /\ ~message.oeyenc
        /\ \A r : BodyOf(r)' = BodyOf(r)
    BY SameMessage
  <1>2. Collected /\ Taken /\ Aimed /\ BlocksAsWritten
    BY <1>1 DEF Exact
  <1>3. pc' # "done" => BlocksAsWritten'
    BY DEF BlocksAsWritten
  <1>4. ~\E call : Leave(call)
    BY DEF Leave
  <1>5. CASE UNCHANGED vars
    BY <1>1, <1>2, <1>5
       DEF vars, Collected, BlockOf, Taken, Pieces, Aimed, BlocksAsWritten
  <1>6. CASE Load \/ GetSource \/ LoadHeaders
    <2>1. /\ UNCHANGED <<pbLine, records, pLink, attached, payload, pbText>>
          /\ pc' \in {"source", "fallback", "scan", "text"}
          /\ pc' \in {"source", "scan", "text"} => message.subject
          /\ pc' = "fallback" => ~message.subject \/ body = <<>>
          /\ pc \in {"load", "source", "headers"}
      BY <1>1, <1>2, <1>4, <1>6 DEF Load, GetSource, LoadHeaders, Goto, Aimed
    <2>2. body = <<>> => Accepted = {}
      BY DEF Accepted, Blocks, Begins
    <2>3. Collected'
      <3>1. pc' = "text" => pc = "headers"
        BY <1>6, <1>4 DEF Load, GetSource, LoadHeaders, Goto
      <3>2. QED
        BY <1>1, <1>2, <2>1, <3>1 DEF Collected, BlockOf
    <2>4. Taken'
      BY <1>1, <1>2, <2>1 DEF Taken, Pieces
    <2>5. QED
      BY <1>1, <1>3, <2>1, <2>2, <2>3, <2>4 DEF Aimed
  <1>7. CASE Combine
    BY <1>2, <1>7 DEF Combine, Aimed
  <1>8. CASE Scan
    <2>1. message.subject /\ pc' # "done"
      BY <1>2, <1>8 DEF Scan, Aimed, Leave, Goto
    <2>2. QED
      BY <1>1, <1>2, <1>3, <1>8, <2>1, ExactScan
  <1>9. CASE TextBetween \/ TrailingText
    <2>1. /\ UNCHANGED <<pbLine, records, pLink, payload, pbText>>
          /\ pc \in {"text", "trailing"}
          /\ pc' = IF pc = "text" THEN "decode" ELSE "commit"
          /\ message.subject
      BY <1>1, <1>2, <1>4, <1>9 DEF TextBetween, TrailingText, AttachText,
                                    LeaveAttach, Goto, Aimed
    <2>2. Pieces' = Pieces
      <3>1. CASE UNCHANGED attached
        BY <3>1 DEF Pieces
      <3>2. ASSUME NEW from \in Position, NEW to \in Position, NEW next,
                   AttachText(from, to, next)
            PROVE  Pieces' = Pieces
        <4> DEFINE text == Attachment("text", from, to, FALSE)
        <4>1. text \in AttachmentType /\ text.kind = "text"
          BY DEF Attachment, AttachmentType
        <4>2. attached' = Append(attached, text)
          BY <1>4, <3>2 DEF AttachText, LeaveAttach
        <4>3. attached \in Seq(AttachmentType)
          BY DEF Types, TypeOK
        <4> HIDE DEF text
        <4>4. QED
          BY <4>1, <4>2, <4>3, PiecesAppended
      <3>3. CASE TextBetween /\ pbText # 0 /\ begin > pbText
        BY <3>2, <3>3, NextRecord DEF TextBetween, Types, TypeOK
      <3>4. CASE TrailingText /\ pbText # 0 /\ pbText < pbEnd
        <4>1. pbEnd \in Position
          BY Text DEF Types, TypeOK, pbEnd
        <4>2. QED
          BY <3>2, <3>4, <4>1 DEF TrailingText, Types, TypeOK
      <3>5. QED
        BY <1>9, <3>1, <3>3, <3>4 DEF TextBetween, TrailingText
    <2>3. Collected'
      BY <1>1, <1>2, <2>1 DEF Collected, BlockOf
    <2>4. Taken'
      BY <1>1, <1>2, <2>1, <2>2 DEF Taken
    <2>5. QED
      BY <1>1, <1>3, <2>1, <2>3, <2>4 DEF Aimed
  <1>10. CASE DecodeRecord
    <2>1. /\ pc = "decode" /\ UNCHANGED <<pbLine, records, pLink, attached>>
          /\ pc' = "attach" /\ payload' = BodyOf(records[pLink])
      BY <1>1, <1>2, <1>10, ExactDecode DEF DecodeRecord
    <2>2. Collected'
      BY <1>1, <1>2, <2>1 DEF Collected, BlockOf
    <2>3. Taken'
      BY <1>1, <1>2, <2>1 DEF Taken, Pieces
    <2>4. QED
      BY <1>1, <1>2, <1>3, <2>1, <2>2, <2>3 DEF Aimed
  <1>11. CASE AttachRecord
    <2>1. Collected' /\ Taken' /\ pc' \in {"text", "trailing"} /\ pc = "attach"
      BY <1>2, <1>11, ExactAttach DEF AttachRecord
    <2>2. QED
      BY <1>1, <1>2, <1>3, <2>1 DEF Aimed
  <1>12. CASE Commit
    <2>1. pc' = "done" /\ BlocksAsWritten' /\ UNCHANGED <<records, pbLine>>
      BY <1>1, <1>2, <1>12, ExactCommit DEF Commit
    <2>2. QED
      BY <1>1, <1>2, <2>1 DEF Collected, BlockOf, Taken, Aimed
  <1>13. CASE Fallback
    <2>1. /\ pc = "fallback" /\ pc' = "done" /\ result' = "whole"
          /\ UNCHANGED <<records, pbLine>>
      BY <1>13 DEF Fallback
    <2>2. QED
      BY <1>1, <1>2, <2>1 DEF Collected, BlockOf, Taken, Aimed, BlocksAsWritten
  <1>14. QED
    BY <1>5, <1>6, <1>7, <1>8, <1>9, <1>10, <1>11, <1>12, <1>13 DEF Next

(* A regular message, of any length and with any number of blocks, is taken apart
   into exactly the blocks it was written with when no call fails. *)
THEOREM RegularMessagesAreDecoded == Spec => []BlocksAsWritten
  <1>1. Exact => BlocksAsWritten
    BY DEF Exact, BlocksAsWritten
  <1>2. QED
    BY <1>1, InitExact, ExactStep, TypesInvariant, PTL DEF Spec
-----------------------------------------------------------------------------
(* What a load has ahead of it: the lines that were not searched, the records
   that were not attached, and the way from its part of the code to the end. *)
Rank ==
  CASE pc = "load" -> 10
    [] pc \in {"combine", "source"} -> 9
    [] pc = "scan" -> 8
    [] pc = "headers" -> 7
    [] pc = "text" -> 6
    [] pc = "decode" -> 5
    [] pc = "attach" -> 4
    [] pc = "trailing" -> 3
    [] pc = "commit" -> 2
    [] pc = "fallback" -> 1
    [] OTHER -> 0

Ahead == 4 * (pbEnd - pbLine) + 3 * (Len(records) + 1 - pLink) + Rank

(* One round of the search leaves at least one line behind for the record that
   it finds, or ends the search. *)
LEMMA ScanGoesOn ==
  ASSUME Types, Scan
  PROVE  /\ pc = "scan" /\ UNCHANGED <<pLink, pbEnd>>
         /\ \/ pc' \in {"fallback", "headers"} /\ UNCHANGED <<pbLine, records>>
            \/ /\ pc' = "scan" /\ pbLine' \in pbLine + 1 .. pbEnd
               /\ Len(records') \in {Len(records), Len(records) + 1}
  <1> DEFINE pbBody == DecoderFindEncodedBody(pbLine)
  <1>1. /\ message \in Message /\ pbLine \in Position /\ pbLine \in Nat
        /\ records \in Seq(RecordType) /\ UNCHANGED <<pLink, message>> /\ pc = "scan"
    BY Text DEF Scan, Types, TypeOK, RecordType
  <1>2. pbBody \in pbLine .. pbEnd
    BY <1>1, EncodedBody
  <1>3. UNCHANGED pbEnd
    BY <1>1 DEF pbEnd, body
  <1>4. \/ pc' \in {"fallback", "headers"} /\ UNCHANGED <<pbLine, records>>
        \/ /\ pbBody # pbEnd /\ HasTail(pbBody)
           /\ pc' = "scan" /\ pbLine' = pbTail(pbBody)
           /\ \/ records' = records
              \/ \E e : records' = Append(records, e)
    BY DEF Scan, Goto, Leave, ScannedTo
  <1>5. CASE /\ pbBody # pbEnd /\ HasTail(pbBody)
             /\ pc' = "scan" /\ pbLine' = pbTail(pbBody)
             /\ \/ records' = records
                \/ \E e : records' = Append(records, e)
    <2>1. /\ pbBody \in Position /\ pbBody \in Nat /\ pbEnd \in Nat
      BY <1>1, <1>2, Text DEF pbEnd
    <2>2. pbTail(pbBody) \in pbBody + 1 .. pbEnd
      BY <1>1, <1>5, <2>1, TailLine
    <2> HIDE DEF pbBody
    <2>3. pbLine' \in pbLine + 1 .. pbEnd
      BY <1>1, <1>2, <1>5, <2>1, <2>2
    <2>4. Len(records') \in {Len(records), Len(records) + 1}
      BY <1>1, <1>5
    <2>5. QED
      BY <1>1, <1>3, <1>5, <2>3, <2>4
  <1>6. QED
    BY <1>1, <1>3, <1>4, <1>5

LEMMA OneLineLess ==
  ASSUME NEW e \in Nat, NEW p \in Nat, NEW q \in Nat, p + 1 <= q,
         NEW n \in Nat, NEW k \in {n, n + 1}, NEW l \in Nat, NEW r \in 0 .. 10
  PROVE  4 * (e - q) + 3 * (k + 1 - l) + r < 4 * (e - p) + 3 * (n + 1 - l) + r
  <1>1. CASE k = n
    BY <1>1
  <1>2. CASE k = n + 1
    BY <1>2
  <1>3. QED
    BY <1>1, <1>2

LEMMA StepGoesAhead ==
  ASSUME Types, Next
  PROVE  Ahead' < Ahead
  <1> DEFINE n == Len(records)
             r == Rank
             q == Rank'
             k == Len(records')
             e == pbEnd
             f == pbEnd'
  <1>1. /\ n \in Nat /\ pLink \in Nat /\ pbLine \in Nat /\ e \in Nat
        /\ r \in 0 .. 10 /\ q \in 0 .. 10
    BY Text DEF Types, TypeOK, Rank
  <1>2. /\ Ahead = 4 * (e - pbLine) + 3 * (n + 1 - pLink) + r
        /\ Ahead' = 4 * (f - pbLine') + 3 * (k + 1 - pLink') + q
    BY DEF Ahead
  <1>3. CASE UNCHANGED <<message, pbLine, records, pLink>> /\ q < r
    <2>1. f = e /\ k = n /\ pbLine' = pbLine /\ pLink' = pLink
      BY <1>3 DEF pbEnd, body
    <2> HIDE DEF n, r, q, k, e, f
    <2>2. QED
      BY <1>1, <1>2, <1>3, <2>1
  <1>4. CASE Load \/ Combine \/ GetSource \/ LoadHeaders
    <2>1. UNCHANGED <<message, pbLine, records, pLink>>
      BY <1>4 DEF Load, Combine, GetSource, LoadHeaders
    <2>2. q < r
      BY <1>4 DEF Load, Combine, GetSource, LoadHeaders, Leave, Goto, Rank
    <2>3. QED
      BY <1>3, <2>1, <2>2
  <1>5. CASE Commit \/ Fallback
    <2>1. UNCHANGED <<message, pbLine, records, pLink>>
      BY <1>5 DEF Commit, Fallback
    <2>2. q < r
      BY <1>5 DEF Commit, Fallback, Goto, Rank
    <2>3. QED
      BY <1>3, <2>1, <2>2
  <1>6. CASE TextBetween \/ TrailingText
    <2>1. UNCHANGED <<message, pbLine, records, pLink>>
      BY <1>6 DEF TextBetween, TrailingText
    <2>2. \/ pc = "text" /\ pc' \in {"decode", "fallback"}
          \/ pc = "trailing" /\ pc' \in {"commit", "fallback"}
      BY <1>6 DEF TextBetween, TrailingText, AttachText, LeaveAttach, Leave, Goto
    <2>3. q < r
      BY <2>2 DEF Rank
    <2>4. QED
      BY <1>3, <2>1, <2>3
  <1>7. CASE DecodeRecord
    <2>1. UNCHANGED <<message, pbLine, records, pLink>>
      BY <1>7 DEF DecodeRecord
    <2>2. pc = "decode" /\ pc' \in {"attach", "trailing", "fallback"}
      BY <1>7 DEF DecodeRecord, Leave, Goto
    <2>3. q < r
      BY <2>2 DEF Rank
    <2>4. QED
      BY <1>3, <2>1, <2>3
  <1>8. CASE AttachRecord
    <2>1. UNCHANGED <<message, pbLine, records>> /\ pc = "attach"
      BY <1>8 DEF AttachRecord
    <2>2. \/ pc' = "fallback" /\ pLink' = pLink
          \/ pc' \in {"text", "trailing"} /\ pLink' = pLink + 1
      BY <1>8 DEF AttachRecord, LeaveAttach, Leave, Goto, AfterRecord
    <2>3. f = e /\ k = n /\ pbLine' = pbLine
      BY <2>1 DEF pbEnd, body
    <2>4. \/ pLink' = pLink /\ q < r
          \/ pLink' = pLink + 1 /\ q < r + 3
      BY <2>1, <2>2 DEF Rank
    <2> HIDE DEF n, r, q, k, e, f
    <2>5. QED
      BY <1>1, <1>2, <2>3, <2>4
  <1>9. CASE Scan
    <2>1. CASE pc' \in {"fallback", "headers"} /\ UNCHANGED <<pbLine, records>>
      <3>1. UNCHANGED <<message, pLink>> /\ pc = "scan"
        BY <1>9 DEF Scan
      <3>2. q < r
        BY <2>1, <3>1 DEF Rank
      <3>3. QED
        BY <1>3, <2>1, <3>1, <3>2
    <2>2. CASE /\ pc' = "scan" /\ pbLine' \in pbLine + 1 .. pbEnd
               /\ Len(records') \in {Len(records), Len(records) + 1}
      <3>1. pc = "scan" /\ pLink' = pLink /\ f = e
        BY <1>9, ScanGoesOn
      <3>2. q = r
        BY <2>2, <3>1 DEF Rank
      <3>3. k \in {n, n + 1} /\ pbLine' \in Nat /\ pbLine + 1 <= pbLine'
        BY <1>1, <2>2
      <3> HIDE DEF n, r, q, k, e, f
      <3>4. k = n \/ k = n + 1
        BY <3>3
      <3>5. 4 * (e - pbLine') + 3 * (k + 1 - pLink) + r
              < 4 * (e - pbLine) + 3 * (n + 1 - pLink) + r
        BY <1>1, <3>3, <3>4, OneLineLess
      <3>6. QED
        BY <1>2, <3>1, <3>2, <3>5
    <2>3. QED
      BY <1>9, <2>1, <2>2, ScanGoesOn
  <1>10. QED
    BY <1>4, <1>5, <1>6, <1>7, <1>8, <1>9 DEF Next

(* Why Returns holds: every step of a load lowers a number that is never below
   zero and is four times the lines of the text and ten at the start.  The
   search goes on behind a block even when its header is refused, and each record
   is attached once. *)
THEOREM LoadsEnd == Spec => [](Ahead \in Nat) /\ [][Ahead' < Ahead]_vars
  <1>1. Types => Ahead \in Nat
    <2> SUFFICES ASSUME Types PROVE Ahead \in Nat
      OBVIOUS
    <2>1. /\ Len(records) \in Nat /\ pLink \in Nat /\ pLink <= Len(records) + 1
          /\ pbLine \in Nat /\ pbLine <= pbEnd /\ pbEnd \in Nat
      BY Text DEF Types, TypeOK, pbEnd
    <2>2. Rank \in Nat
      BY DEF Rank
    <2>3. QED
      BY <2>1, <2>2 DEF Ahead
  <1>2. Types /\ [Next]_vars => [Ahead' < Ahead]_vars
    BY StepGoesAhead
  <1>3. QED
    BY <1>1, <1>2, TypesInvariant, PTL DEF Spec
=============================================================================
