-------------------------- MODULE MCProcessBuffer --------------------------
(***************************************************************************)
(* DecoderProcessBuffer on small blocks.  A byte has 12 values: NUL, CR,   *)
(* LF and '=' are 0 to 3 and escape to 4 to 7, then 'y', ' ', 's' and one  *)
(* more.  A tag that is six characters long in the code has three here.    *)
(***************************************************************************)
EXTENDS YEncEncoding

CONSTANTS
  MaxBody,      (* length of an arbitrary block before its trailer *)
  MaxPayload    (* length of a payload that is encoded             *)

NUL   == 0
Sp    == 9
S     == 10
Other == 11

MCYEnd       == <<Eq, YChar, Sp>>
MCSize       == <<Sp, S, Eq>>
MCTrailerTag == [crc32 |-> <<Sp, Other, Eq>>]

MCEndLine == <<Eq, YChar, Sp, S, Eq, Other>>

Ends == {<<>>, MCEndLine, <<CR, LF>> \o MCEndLine, <<LF>> \o MCEndLine \o <<LF>>,
         MCEndLine \o <<Sp, Other, Eq, S, Other, Other, CR, LF>>}

CallOn(block, after, room) ==
  [mem |-> block \o after, cb |-> Len(block), room |-> room,
   offset |-> Default, escape |-> Default, escoff |-> Default]

(* Any text in front of a trailer, or without one. *)
TextCalls ==
  {CallOn(body \o end, after, room) :
     body  \in BoundedSeq({CR, LF, Eq, YChar, Other}, MaxBody),
     end   \in Ends,
     after \in {<<>>, <<Other, Eq, Eq>>},
     room  \in {2, 20}}

MCBehind   == <<Other, Other>>
MCPayloads == BoundedSeq({1, 4, 8}, MaxPayload)

(* Of the bytes of a payload the first encoder escapes 8, which becomes CR; the
   second 1, which becomes '=', and 4, which becomes its escape. *)
MCEncoders ==
  {[offset |-> Default, escape |-> Default, escoff |-> Default, also |-> {}],
   [offset |-> 2, escape |-> 6, escoff |-> 3, also |-> {NUL}]}

MCCalls == TextCalls \cup {e.call : e \in Encodings}
BareLFCalls == {c \in TextCalls : c.room = 20 /\ Len(c.mem) > c.cb}
=============================================================================
