----------------------------- MODULE MessageLoad -----------------------------
(***************************************************************************)
(* CMimeMessage::Load and _LoadEncodedStream (OeyEnc.Dll/MimeMessage.cpp): *)
(* how a posted message becomes a message with decoded attachments, or is  *)
(* handed to the wrapped message object as it came.                        *)
(*                                                                         *)
(* The body of a message is a sequence of lines; a line is known by what   *)
(* the tag search and the decoder make of it.  A line is at its 1-based    *)
(* index, a position just behind line i is i + 1.  Streams and the methods *)
(* of MIMEOLE may fail; what they do otherwise is external.                *)
(***************************************************************************)
EXTENDS Integers, Sequences, FiniteSets, Functions

CONSTANTS
  Messages,   (* the messages that are loaded                      *)
  Failures    (* the calls that may fail                           *)

(***************************************************************************)
(* "line" and "junk" are any other text; within a block the decoder turns  *)
(* the first into bytes and refuses the second.  The tags "=ybegin " and   *)
(* "=ybegin2 " open a block: with a header DecoderInitialize accepts, with *)
(* one it refuses ("bad"), or with a size that the block cannot have       *)
(* ("huge").                                                               *)
(***************************************************************************)
YBEGIN  == {"ybegin", "badbegin", "hugebegin"}
YBEGIN2 == {"ybegin2"}
Header  == YBEGIN \cup YBEGIN2
Line    == Header \cup {"yend", "line", "junk"}

Message == [body : Seq(Line),     (* what follows the message headers     *)
            oeyenc : BOOLEAN,     (* has the header X-OeyEnc              *)
            subject : BOOLEAN]    (* the subject asks for decoding        *)

Calls == {"Temporary", "Source", "Record", "Headers", "CreateStream",
          "SetSize", "Memory", "Decode", "Name", "Write", "Attach", "Mark",
          "Combine", "Whole"}

ASSUME MessagesAssumption == Messages \subseteq Message
ASSUME FailuresAssumption == Failures \subseteq Calls

VARIABLES
  message,
  pc,         (* the part of the two functions that runs next              *)
  pbLine,     (* how far the scan for blocks has come                      *)
  records,    (* the list of RECORDINFO: blocks whose header was accepted  *)
  pLink,      (* index of the record to decode                             *)
  pbText,     (* where text after the last attached block starts; 0: NULL  *)
  payload,    (* what is in the stream that is attached next               *)
  attached,   (* the bodies added to the message, in order                 *)
  marks,      (* how many X-OeyEnc headers were added                      *)
  failed,     (* the calls that have failed                                *)
  result      (* which message Load has delivered                          *)

vars == <<message, pc, pbLine, records, pLink, pbText, payload, attached,
          marks, failed, result>>

body  == message.body
pbEnd == Len(body) + 1

(* A body of the message: the lines from .. to - 1, as the text they are, as
   the text of a block that could not be decoded, or decoded. *)
Attachment(kind, from, to, named) ==
  [kind |-> kind, from |-> from, to |-> to, named |-> named]

NoPayload == Attachment("none", 0, 0, FALSE)

Init ==
  /\ message \in Messages
  /\ pc = "load"
  /\ pbLine = 1 /\ records = <<>> /\ pLink = 1 /\ pbText = 0
  /\ payload = NoPayload /\ attached = <<>> /\ marks = 0
  /\ failed = {} /\ result = "none"
-----------------------------------------------------------------------------
(* The first line from p on with one of the tags; pbEnd if there is none. *)
FindLineTag(p, tags) ==
  LET found == {i \in p .. Len(body) : body[i] \in tags}
  IN  IF found = {} THEN pbEnd
      ELSE CHOOSE i \in found : \A j \in found : i <= j

(* DecoderFindEncodedBody looks for =ybegin2 in all of the text before it
   looks for =ybegin. *)
DecoderFindEncodedBody(p) ==
  LET begin2 == FindLineTag(p, YBEGIN2)
  IN  IF begin2 # pbEnd THEN begin2 ELSE FindLineTag(p, YBEGIN)

HasTail(pbBegin) == FindLineTag(pbBegin, {"yend"}) # pbEnd

pbTailAtEndLine(pbBegin) == FindLineTag(pbBegin, {"yend"})
pbTail(pbBegin) == FindLineTag(pbBegin, {"yend"}) + 1

(* A block whose end was lost runs on to the =yend line of a later block and
   swallows the header of that one. *)
SwallowsHeader(pbBegin) ==
  \E i \in pbBegin + 1 .. pbTail(pbBegin) - 1 : body[i] \in Header

(* The possible outcomes of DecoderInitialize.  It searches the attributes in
   the whole block: a swallowed header can complete or spoil the first. *)
DecoderInitialize(pbBegin) ==
  IF SwallowsHeader(pbBegin) THEN BOOLEAN ELSE {body[pbBegin] # "badbegin"}

(* Can the encoded data of the block decode to the size in its header? *)
SizeIsPossible(pbBegin) ==
  IF SwallowsHeader(pbBegin) THEN BOOLEAN ELSE {body[pbBegin] # "hugebegin"}

(* The possible outcomes of DecoderProcessBuffer.  A swallowed "=y" line is an
   invalid tag, unless the block names another escape character. *)
DecoderProcessBuffer(pbBegin) ==
  IF SwallowsHeader(pbBegin) THEN BOOLEAN
  ELSE {\A i \in pbBegin .. pbTail(pbBegin) - 1 : body[i] # "junk"}

Goto(step) == pc' = step /\ UNCHANGED failed

(* The call fails and __leave, or its exception, ends _LoadEncodedStream. *)
Leave(call) ==
  /\ call \in Failures
  /\ failed' = failed \cup {call}
  /\ pc' = "fallback"

(* _AttachStream first adds the body and then sets its properties. *)
LeaveAttach(attachment) ==
  /\ Leave("Attach")
  /\ attached' \in {attached, Append(attached, attachment)}
-----------------------------------------------------------------------------
Load ==
  /\ pc = "load"
  /\ \/ Leave("Temporary")
     \/ message.oeyenc /\ Goto("combine")
     \/ ~message.oeyenc /\ message.subject /\ Goto("source")
     \/ ~message.oeyenc /\ ~message.subject /\ Goto("fallback")
  /\ UNCHANGED <<message, pbLine, records, pLink, pbText, payload, attached,
                 marks, result>>

(* A message that was decoded before comes back when several of its kind are
   combined; only the outcome of _CombineRelatedAttachments is modelled. *)
Combine ==
  /\ pc = "combine"
  /\ \/ Leave("Combine") /\ UNCHANGED result
     \/ Goto("done") /\ result' = "combined"
  /\ UNCHANGED <<message, pbLine, records, pLink, pbText, payload, attached,
                 marks>>

(* The source as memory; a message without a body is an error. *)
GetSource ==
  /\ pc = "source"
  /\ \/ Leave("Source")
     \/ Goto(IF body = <<>> THEN "fallback" ELSE "scan")
  /\ UNCHANGED <<message, pbLine, records, pLink, pbText, payload, attached,
                 marks, result>>

(* Where the search goes on after a block. *)
ScannedToGood(pbBegin, good) == IF good THEN pbTail(pbBegin) ELSE pbLine
ScannedTo(pbBegin, good) == pbTail(pbBegin)

(* One round of the search for blocks.  Without a =yend line pbTail is NULL:
   the length that is computed from it leads to an access violation. *)
Scan ==
  LET pbBody == DecoderFindEncodedBody(pbLine)
  IN  /\ pc = "scan"
      /\ \/ /\ pbBody = pbEnd
            /\ Goto(IF records = <<>> THEN "fallback" ELSE "headers")
            /\ UNCHANGED <<pbLine, records>>
         \/ /\ pbBody # pbEnd
            /\ \/ Leave("Record")
               \/ ~HasTail(pbBody) /\ Goto("fallback")
            /\ UNCHANGED <<pbLine, records>>
         \/ /\ pbBody # pbEnd /\ HasTail(pbBody)
            /\ \E good \in DecoderInitialize(pbBody) :
                 /\ records' = IF good
                               THEN Append(records, [begin |-> pbBody,
                                                     end |-> pbTail(pbBody)])
                               ELSE records
                 /\ pbLine' = ScannedTo(pbBody, good)
            /\ Goto("scan")
      /\ UNCHANGED <<message, pLink, pbText, payload, attached, marks, result>>

(* The headers of the source become the headers of the message. *)
LoadHeaders ==
  /\ pc = "headers"
  /\ Leave("Headers") \/ Goto("text")
  /\ UNCHANGED <<message, pbLine, records, pLink, pbText, payload, attached,
                 marks, result>>
-----------------------------------------------------------------------------
begin == records[pLink].begin
end   == records[pLink].end

(* Writes the lines from .. to - 1 to a new stream and attaches it as text. *)
AttachTextOrGoOn(from, to, next) ==
  LET text == Attachment("text", from, to, FALSE)
  IN  \/ \E call \in {"CreateStream", "Write"} \cap Failures :
            /\ failed' = failed \cup {call}
            /\ pc' = next
            /\ UNCHANGED attached
      \/ LeaveAttach(text)
      \/ attached' = Append(attached, text) /\ Goto(next)

AttachText(from, to, next) ==
  LET text == Attachment("text", from, to, FALSE)
  IN  \/ (Leave("CreateStream") \/ Leave("Write")) /\ UNCHANGED attached
      \/ LeaveAttach(text)
      \/ attached' = Append(attached, text) /\ Goto(next)

(* The text between the last attached block and the next one. *)
TextBetween ==
  /\ pc = "text"
  /\ IF pbText # 0 /\ begin > pbText
     THEN AttachText(pbText, begin, "decode")
     ELSE Goto("decode") /\ UNCHANGED attached
  /\ UNCHANGED <<message, pbLine, records, pLink, pbText, payload, marks,
                 result>>

(* The block decoded, or copied when its size or its data is no good. *)
DecodeRecord ==
  /\ pc = "decode"
  /\ \/ Leave("CreateStream") /\ UNCHANGED payload
     \/ /\ TRUE \in SizeIsPossible(begin)
        /\ \/ (Leave("Memory") \/ Leave("Decode")) /\ UNCHANGED payload
           \/ /\ "SetSize" \in Failures
              /\ failed' = failed \cup {"SetSize"}
              /\ pc' = "trailing"
              /\ UNCHANGED payload
           \/ /\ TRUE \in DecoderProcessBuffer(begin)
              /\ \E named \in BOOLEAN :
                   /\ named \/ "Name" \in Failures
                   /\ failed' = failed \cup (IF named THEN {} ELSE {"Name"})
                   /\ payload' = Attachment("decoded", begin, end, named)
              /\ pc' = "attach"
     \/ /\ FALSE \in SizeIsPossible(begin) \cup DecoderProcessBuffer(begin)
        /\ \/ Leave("Write") /\ UNCHANGED payload
           \/ /\ payload' = Attachment("raw", begin, end, FALSE)
              /\ Goto("attach")
  /\ UNCHANGED <<message, pbLine, records, pLink, pbText, attached, marks,
                 result>>

(* A named body brings an X-OeyEnc header with it. *)
HeadersAddedAlways == 1
HeadersAdded == IF payload.named THEN 1 ELSE 0

TextAfterRecordKept == IF pbText = 0 THEN end ELSE pbText
TextAfterRecord == end

AfterRecord == IF pLink < Len(records) THEN "text" ELSE "trailing"

(* The stream becomes a body of the message, and the record is done. *)
AttachRecord ==
  /\ pc = "attach"
  /\ \/ LeaveAttach(payload) /\ UNCHANGED <<marks, pbText, pLink>>
     \/ /\ payload.named /\ Leave("Mark")
        /\ attached' = Append(attached, payload)
        /\ UNCHANGED <<marks, pbText, pLink>>
     \/ /\ attached' = Append(attached, payload)
        /\ marks' = marks + HeadersAdded
        /\ pbText' = TextAfterRecord
        /\ pLink' = pLink + 1
        /\ Goto(AfterRecord)
  /\ UNCHANGED <<message, pbLine, records, payload, result>>

(* The text behind the last block that was attached. *)
TrailingText ==
  /\ pc = "trailing"
  /\ IF pbText # 0 /\ pbText < pbEnd
     THEN AttachText(pbText, pbEnd, "commit")
     ELSE Goto("commit") /\ UNCHANGED attached
  /\ UNCHANGED <<message, pbLine, records, pLink, pbText, payload, marks,
                 result>>

(* hr still is the failure of SetSize when nothing was attached since. *)
Commit ==
  /\ pc = "commit"
  /\ IF pbText = 0
     THEN Goto("fallback") /\ UNCHANGED result
     ELSE Goto("done") /\ result' = "encoded"
  /\ UNCHANGED <<message, pbLine, records, pLink, pbText, payload, attached,
                 marks>>

(* IMimeMessage::Load on the source replaces whatever is in the message. *)
Fallback ==
  /\ pc = "fallback"
  /\ attached' = <<>> /\ marks' = 0
  /\ \/ result' = "whole" /\ UNCHANGED failed
     \/ /\ "Whole" \in Failures
        /\ result' = "failed" /\ failed' = failed \cup {"Whole"}
  /\ pc' = "done"
  /\ UNCHANGED <<message, pbLine, records, pLink, pbText, payload>>

Next ==
  \/ Load
  \/ Combine
  \/ GetSource
  \/ Scan
  \/ LoadHeaders
  \/ TextBetween
  \/ DecodeRecord
  \/ AttachRecord
  \/ TrailingText
  \/ Commit
  \/ Fallback

(* The one thread that loads the message runs on; no call has to fail. *)
Fairness == WF_vars(Next /\ UNCHANGED failed)

Spec == Init /\ [][Next]_vars /\ Fairness
-----------------------------------------------------------------------------
Position == 1 .. pbEnd

AttachmentType == [kind : {"text", "raw", "decoded"}, from : Position,
                   to : Position, named : BOOLEAN]

(* Every pointer stays within the text of the message and a pending payload
   is a block that has been found. *)
TypeOK ==
  /\ message \in Message
  /\ pc \in {"load", "combine", "source", "scan", "headers", "text", "decode",
             "attach", "trailing", "commit", "fallback", "done"}
  /\ pbLine \in Position
  /\ records \in Seq([begin : Position, end : Position])
  /\ pLink \in 1 .. Len(records) + 1
  /\ pc \in {"text", "decode", "attach"} => pLink <= Len(records)
  /\ pbText \in Position \cup {0}
  /\ payload \in AttachmentType \cup {NoPayload}
  /\ attached \in Seq(AttachmentType)
  /\ marks \in Nat
  /\ failed \subseteq Failures
  /\ result \in {"none", "encoded", "combined", "whole", "failed"}

(* The bodies follow one another without a gap and without overlap. *)
Contiguous ==
  /\ \A i \in DOMAIN attached : attached[i].from < attached[i].to
  /\ \A i \in 2 .. Len(attached) : attached[i].from = attached[i - 1].to

(* From the first block that is accepted on, every line of a message that is
   delivered in pieces is in exactly one piece, and the pieces are in the order
   of the text: blocks that were refused, text between blocks, text behind the
   last one, and blocks that could not be decoded are all there.  (When SetSize
   fails for a block behind a text, that text is attached twice.) *)
NothingIsLost ==
  "SetSize" \notin failed =>
  /\ Contiguous
  /\ attached # <<>> => attached[1].from = records[1].begin
  /\ result = "encoded" =>
       attached # <<>> /\ attached[Len(attached)].to = pbEnd

(* A message is only delivered in pieces when each call succeeded, but for the
   file name, for which there is a default, and for the size of a stream: any
   other failure, wherever it strikes, delivers the message as it came. *)
AllOrNothing ==
  result \in {"encoded", "combined"} => failed \subseteq {"Name", "SetSize"}

(* There is an X-OeyEnc header for each body that was decoded under its own
   name, and for nothing else: a message with such a header is not decoded
   again but combined. *)
MarkedIffDecoded ==
  pc # "fallback" =>
    marks = Cardinality({i \in DOMAIN attached :
                           attached[i].kind = "decoded" /\ attached[i].named})

(***************************************************************************)
(* What a reader of the message would expect of it: a block reaches from a *)
(* header to the next =yend line.  A regular message has headers of one    *)
(* version only and no block in which another one starts.                  *)
(***************************************************************************)
Begins == {i \in DOMAIN body : body[i] \in Header}

Closed(i, j) ==
  i < j /\ body[j] = "yend" /\ \A k \in i + 1 .. j - 1 : body[k] # "yend"

Blocks == {b \in [from : Begins, to : DOMAIN body] : Closed(b.from, b.to)}

Regular ==
  /\ \A i, j \in Begins : body[i] \in YBEGIN <=> body[j] \in YBEGIN
  /\ \A i \in Begins : \E b \in Blocks :
       b.from = i /\ (i + 1 .. b.to) \cap Begins = {}

Accepted == {b \in Blocks : body[b.from] # "badbegin"}

Decodable(b) ==
  body[b.from] # "hugebegin" /\ \A i \in b.from .. b.to : body[i] # "junk"

Wanted ==
  {Attachment(IF Decodable(b) THEN "decoded" ELSE "raw", b.from, b.to + 1,
              Decodable(b)) : b \in Accepted}

(* When no call fails, a regular message is taken apart into exactly the blocks
   it has: each complete block with a good header is one body, decoded if its
   data can be, and a message without any is delivered as it came. *)
BlocksAsWritten ==
  pc = "done" /\ failed = {} /\ Regular /\ ~message.oeyenc =>
    IF message.subject /\ Accepted # {}
    THEN /\ result = "encoded"
         /\ {a \in Range(attached) : a.kind # "text"} = Wanted
    ELSE result = "whole"

(* Load returns, whatever the text of the message and whichever call fails. *)
Returns == <>(pc = "done")

(* MimeMessage.cpp:1339 says of a block with a bad header: "This body will
   simply end up as a text attachment". *)
BadBlocksAreAttached ==
  result = "encoded" /\ Regular =>
    \A b \in Blocks \ Accepted :
      \E i \in DOMAIN attached :
        attached[i].from <= b.from /\ b.to < attached[i].to
=============================================================================
