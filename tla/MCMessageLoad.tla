---------------------------- MODULE MCMessageLoad ----------------------------
(***************************************************************************)
(* Messages for MessageLoad: every short text, and longer texts put        *)
(* together from pieces, so that there are messages of several blocks with *)
(* text before, between and behind them.                                   *)
(***************************************************************************)
EXTENDS MessageLoad, SequencesExt

CONSTANTS MaxLines,    (* length of the short texts          *)
          MaxPieces    (* number of pieces of a longer text  *)

Block(header, data) == <<header>> \o data \o <<"yend">>

Pieces == {<<"line">>,                    (* text                      *)
           <<"ybegin">>,                  (* a block that lost its end *)
           Block("ybegin", <<"line">>),
           Block("ybegin", <<"junk">>),
           Block("badbegin", <<>>),
           Block("hugebegin", <<>>),
           Block("ybegin2", <<>>)}

MCMessages ==
  {[body |-> text, oeyenc |-> FALSE, subject |-> TRUE] :
     text \in BoundedSeq(Line, MaxLines) \cup
              {FlattenSeq(p) : p \in BoundedSeq(Pieces, MaxPieces)}}
  \cup [body : {<<>>, Block("ybegin", <<>>)}, oeyenc : BOOLEAN,
        subject : BOOLEAN]
=============================================================================
