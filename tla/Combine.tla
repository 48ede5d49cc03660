------------------------------ MODULE Combine -------------------------------
(***************************************************************************)
(* How CMimeMessage::Load combines the attachments of a message that was   *)
(* put together from several decoded ones (OeyEnc.Dll/MimeMessage.cpp):    *)
(* _CombineRelatedAttachments and _AppendTextStream.                       *)
(*                                                                         *)
(* An attachment is known by its index in the list that GetAttachments     *)
(* gives.  The methods of MIMEOLE may fail; what they do otherwise is      *)
(* external.                                                               *)
(***************************************************************************)
EXTENDS Naturals, FiniteSets, SequencesExt

CONSTANTS
  Names,       (* names of files                                           *)
  Related,     (* <<n, m>>: the name n contains the name m, in any case    *)
  Sources,     (* the lists of attachments to combine                      *)
  Failures,    (* the calls that may fail                                  *)
  MaxFailures  (* how many of them may fail in one load                    *)

(* "file" is any content that is neither text nor a report of the decoder. *)
Attachment == [kind : {"plain", "html", "report", "file"}, name : Names]

Calls == {"Load", "GetAttachments", "Bind", "Text", "AppendText", "Name",
          "Create", "BindPart", "Query", "Data", "Attach", "Properties"}

ASSUME NamesAssumption ==
  Related \subseteq Names \X Names /\ \A n \in Names : <<n, n>> \in Related
ASSUME SourcesAssumption == Sources \subseteq Seq(Attachment)
ASSUME FailuresAssumption == Failures \subseteq Calls /\ MaxFailures \in Nat

VARIABLES
  source,     (* the attachments of pMsgSource                             *)
  pc,         (* the part of the functions that runs next                  *)
  entries,    (* the entries of rgAttach that are not NULL                 *)
  idx, jdx,   (* the counters of the two loops                             *)
  stream,     (* what was written to pStmText, pStmHtml and pStmAttach     *)
  texts,      (* what was appended to the text bodies of pMsgTarget        *)
  bodies,     (* the attachments of pMsgTarget                             *)
  failed,     (* the calls that have failed, each with an index            *)
  hr,         (* "ok" or "fail"                                            *)
  delivered   (* what Load has made of the message                         *)

vars == <<source, pc, entries, idx, jdx, stream, texts, bodies, failed, hr,
          delivered>>

cAttach == Len(source)
Name(i) == source[i].name

(* The data of an attachment, or the part of it that was written before the
   call failed. *)
Piece(i, whole) == [part |-> i, whole |-> whole]

Init ==
  /\ source \in Sources
  /\ pc = "load" /\ entries = {} /\ idx = 1 /\ jdx = 1
  /\ stream = [plain |-> <<>>, html |-> <<>>, attach |-> <<>>]
  /\ texts = <<>> /\ bodies = <<>> /\ failed = {} /\ hr = "ok"
  /\ delivered = "none"

Fails(call, i) ==
  /\ call \in Failures /\ Cardinality(failed) < MaxFailures
  /\ failed' = failed \cup {<<call, i>>}
Works == UNCHANGED failed

(* Every next call overwrites the result of the one before. *)
Goto(step, result) == pc' = step /\ hr' = result
-----------------------------------------------------------------------------
(* The source is read as a message, its headers into the target; no attachment
   of the target comes from there. *)
Load ==
  /\ pc = "load"
  /\ \/ (Fails("Load", 0) \/ Fails("GetAttachments", 0)) /\ Goto("end", "fail")
        /\ UNCHANGED entries
     \/ Works /\ Goto("inline", "ok") /\ entries' = 1 .. cAttach
  /\ UNCHANGED <<source, idx, jdx, stream, texts, bodies, delivered>>

(* Text goes into the text of the combined message, reports excepted; a failure
   leaves the text in the list of attachments. *)
IsText(i) == source[i].kind \in {"plain", "html"}

Inlines(i, texty) ==
  /\ pc = "inline" /\ i = idx /\ i <= cAttach
  /\ idx' = idx + 1
  /\ \/ /\ Fails("Bind", i)
        /\ UNCHANGED <<entries, stream>> /\ Goto("inline", "fail")
     \/ /\ ~texty /\ Works
        /\ UNCHANGED <<entries, stream>> /\ Goto("inline", "fail")
     \/ /\ texty /\ Fails("Text", i)
        /\ stream' \in {stream, [stream EXCEPT ![source[i].kind] = Append(@, Piece(i, FALSE))]}
        /\ UNCHANGED entries /\ Goto("inline", "fail")
     \/ /\ texty /\ Works
        /\ stream' = [stream EXCEPT ![source[i].kind] = Append(@, Piece(i, TRUE))]
        /\ entries' = entries \ {i} /\ Goto("inline", "ok")
  /\ UNCHANGED <<source, jdx, texts, bodies, delivered>>

Inline == Inlines(idx, idx <= cAttach /\ IsText(idx))

Inlined ==
  /\ pc = "inline" /\ idx > cAttach
  /\ idx' = 1 /\ Goto("plain", hr)
  /\ UNCHANGED <<source, entries, jdx, stream, texts, bodies, failed, delivered>>

(* _AppendTextStream: the text body of the target is replaced by itself and the
   stream.  Its result is overwritten by that of the first group. *)
AppendTextStream(kind, next) ==
  /\ pc = kind
  /\ \/ stream[kind] = <<>> /\ Goto(next, hr) /\ UNCHANGED <<texts, failed>>
     \/ stream[kind] # <<>> /\ Works /\ Goto(next, "ok") /\ texts' = texts \o stream[kind]
     \/ stream[kind] # <<>> /\ Fails("AppendText", kind) /\ Goto(next, "fail") /\ UNCHANGED texts
  /\ UNCHANGED <<source, entries, idx, jdx, stream, bodies, delivered>>
-----------------------------------------------------------------------------
FirstOfOthers == idx + 1                   (* without the one that names it *)
First == idx

(* Step 1: the next attachment that is left names a group.  Step 2 adds up the
   estimated sizes, only to reserve memory. *)
Group ==
  /\ pc = "group" /\ idx <= cAttach
  /\ \/ /\ idx \notin entries /\ idx' = idx + 1
        /\ Goto("group", hr) /\ UNCHANGED <<jdx, stream, failed>>
     \/ /\ idx \in entries /\ Fails("Name", idx) /\ idx' = idx + 1
        /\ Goto("group", "fail") /\ UNCHANGED <<jdx, stream>>
     \/ /\ idx \in entries /\ Fails("Create", idx)
        /\ Goto("end", "fail") /\ UNCHANGED <<idx, jdx, stream>>
     \/ /\ idx \in entries /\ Works
        /\ jdx' = First /\ stream' = [stream EXCEPT !.attach = <<>>]
        /\ Goto("gather", "ok") /\ UNCHANGED idx
  /\ UNCHANGED <<source, entries, texts, bodies, delivered>>

(* Step 3: the data of every attachment whose name contains the name of the
   group.  The entry is cleared before the data is read.  When a part cannot be
   looked at it stays in the list, but the list is not searched again for the
   one that has named the group. *)
MatchEqual(j) == Name(j) = Name(idx)                    (* no suffixes *)
MatchReversed(j) == <<Name(idx), Name(j)>> \in Related
Match(j) == <<Name(j), Name(idx)>> \in Related

GatherUncleared ==                         (* the entry stays *)
  /\ pc = "gather" /\ jdx \in entries /\ Match(jdx)
  /\ \/ /\ Works
        /\ stream' = [stream EXCEPT !.attach = Append(@, Piece(jdx, TRUE))]
     \/ /\ Fails("Data", jdx)
        /\ stream' \in {stream, [stream EXCEPT !.attach = Append(@, Piece(jdx, FALSE))]}
  /\ jdx' = jdx + 1 /\ Goto("gather", "ok")
  /\ UNCHANGED <<source, entries, idx, texts, bodies, delivered>>

Gather ==
  /\ pc = "gather" /\ jdx \in entries /\ Match(jdx)
  /\ entries' = entries \ {jdx}
  /\ \/ /\ Works
        /\ stream' = [stream EXCEPT !.attach = Append(@, Piece(jdx, TRUE))]
     \/ /\ Fails("Data", jdx)
        /\ stream' \in {stream, [stream EXCEPT !.attach = Append(@, Piece(jdx, FALSE))]}
  /\ jdx' = jdx + 1 /\ Goto("gather", "ok")
  /\ UNCHANGED <<source, idx, texts, bodies, delivered>>

Skip ==
  /\ pc = "gather" /\ jdx <= cAttach
  /\ \/ (jdx \notin entries \/ ~Match(jdx)) /\ Works
     \/ jdx \in entries /\ (Fails("BindPart", jdx) \/ Fails("Query", jdx))
  /\ jdx' = jdx + 1 /\ Goto("gather", "ok")
  /\ UNCHANGED <<source, entries, idx, stream, texts, bodies, delivered>>

Body(named) == [name |-> Name(idx), parts |-> stream.attach, named |-> named]

(* The stream, cut to what was written, becomes an attachment of the target. *)
AttachObject ==
  /\ pc = "gather" /\ jdx > cAttach
  /\ \/ Fails("Attach", idx) /\ Goto("group", "fail") /\ UNCHANGED bodies
     \/ /\ Fails("Properties", idx) /\ Goto("group", "fail")
        /\ bodies' = Append(bodies, Body(FALSE))
     \/ Works /\ Goto("group", "ok") /\ bodies' = Append(bodies, Body(TRUE))
  /\ idx' = idx + 1
  /\ UNCHANGED <<source, entries, jdx, stream, texts, delivered>>

(* Load: the message that was combined, or after a failure the source. *)
Deliver ==
  /\ \/ pc = "group" /\ idx > cAttach
     \/ pc = "end"
  /\ delivered' = IF hr = "ok" THEN "combined" ELSE "source"
  /\ Goto("done", hr)
  /\ UNCHANGED <<source, entries, idx, jdx, stream, texts, bodies, failed>>

Next ==
  \/ Load \/ Inline \/ Inlined
  \/ AppendTextStream("plain", "html") \/ AppendTextStream("html", "group")
  \/ Group \/ Gather \/ Skip \/ AttachObject \/ Deliver

Spec == Init /\ [][Next]_vars
-----------------------------------------------------------------------------
Parts(pieces) == {p.part : p \in {q \in ToSet(pieces) : q.whole}}
InBodies == {x \in (DOMAIN bodies) \X (DOMAIN source) : x[2] \in Parts(bodies[x[1]].parts)}

(* Every variable has its type, and an entry is cleared or in the list. *)
TypeOK ==
  /\ source \in Sources
  /\ pc \in {"load", "inline", "plain", "html", "group", "gather", "end", "done"}
  /\ entries \subseteq DOMAIN source
  /\ idx \in 1 .. cAttach + 1 /\ jdx \in 1 .. cAttach + 1
  /\ \A kind \in DOMAIN stream : ToSet(stream[kind]) \subseteq [part : DOMAIN source, whole : BOOLEAN]
  /\ ToSet(texts) \subseteq [part : DOMAIN source, whole : BOOLEAN]
  /\ hr \in {"ok", "fail"} /\ delivered \in {"none", "combined", "source"}
  /\ pc = "gather" => \A i \in Parts(stream.attach) : i \notin entries

(* What was read whole is in one place only: no attachment is in two of the
   combined ones, or in one and in the text. *)
NoPartTwice ==
  /\ \A x, y \in InBodies : x[2] = y[2] => x[1] = y[1]
  /\ \A x \in InBodies : x[2] \notin Parts(texts)
  /\ \A b \in DOMAIN bodies : IsInjective(bodies[b].parts)

(* The group that an attachment was gathered for and then lost with. *)
LostWithGroup(i) ==
  \E g \in 1 .. i : <<Name(i), Name(g)>> \in Related /\ <<"Attach", g>> \in failed

(* When the combined message is delivered, each attachment is in it, or a call
   about that attachment, its group or its text has failed.  (The result of the
   last call decides what is delivered: such a failure is forgotten by the next
   call that works.) *)
LostOnlyOnFailure ==
  delivered = "combined" =>
    \A i \in DOMAIN source :
      \/ i \in Parts(texts) \/ \E b \in DOMAIN bodies : <<b, i>> \in InBodies
      \/ \E call \in {"Name", "BindPart", "Query", "Data"} : <<call, i>> \in failed
      \/ LostWithGroup(i)
      \/ <<"AppendText", source[i].kind>> \in failed

(* A combined attachment has only parts whose names contain its name, in the
   order of the source (OE has a dialog for the order). *)
JoinedByName ==
  \A b \in DOMAIN bodies :
    LET parts == bodies[b].parts
    IN  /\ \A p \in ToSet(parts) : <<Name(p.part), bodies[b].name>> \in Related
        /\ \A k \in 1 .. Len(parts) - 1 : parts[k].part < parts[k + 1].part

(* Two files whose names are the same, or of which the first is contained in
   the second, are joined, whatever stands between them: unless the first was
   itself joined to another, or a call about one of them failed. *)
RelatedAreJoined ==
  delivered = "combined" =>
    \A x, y \in InBodies :
      /\ x[2] < y[2] /\ <<Name(y[2]), Name(x[2])>> \in Related
      /\ bodies[x[1]].name = Name(x[2])
      /\ \A call \in {"BindPart", "Query"} : <<call, x[2]>> \notin failed /\ <<call, y[2]>> \notin failed
      => x[1] = y[1] \/ y[1] < x[1]
=============================================================================
