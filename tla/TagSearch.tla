----------------------------- MODULE TagSearch -----------------------------
(***************************************************************************)
(* The text search of the yEnc decoder (OeyEnc.Dll/yDecode.h).  A buffer   *)
(* is a sequence of bytes; positions are 1-based here, 0-based in the      *)
(* code, and NotFound stands for the NULL pointer.                         *)
(***************************************************************************)
EXTENDS Naturals, Sequences

CONSTANTS CR, LF    (* MC_CR and MC_LF *)

NotFound == 0

(* A tag that ends a search at position p begins a line when nothing, or
   exactly \r\n, stands before it. *)
BeginsLine(buf, p) ==
  \/ p = 1
  \/ p > 2 /\ buf[p - 1] = LF /\ buf[p - 2] = CR

MatchedWithoutReset(buf, tag) ==
  LET size == Len(tag)
      matched[i \in 0 .. Len(buf)] ==
        IF i = 0
        THEN 0
        ELSE [jdx \in 0 .. size - 1 |->
                IF buf[i] = tag[jdx + 1] THEN (jdx + 1) % size ELSE jdx]
             [matched[i - 1]]
  IN  matched

(***************************************************************************)
(* One pass over the buffer: the code's jdx, the bytes of the tag matched  *)
(* when i bytes have been read.  On a mismatch it is reset without looking *)
(* at the current byte again, so a tag whose first byte ended a partial    *)
(* match is missed.                                                        *)
(***************************************************************************)
Matched(buf, tag) ==
  LET size == Len(tag)
      matched[i \in 0 .. Len(buf)] ==
        IF i = 0
        THEN 0
        ELSE [jdx \in 0 .. size - 1 |->
                IF buf[i] = tag[jdx + 1] THEN (jdx + 1) % size ELSE 0]
             [matched[i - 1]]
  IN  matched

FindTag(buf, tag, newLine) ==
  LET size    == Len(tag)
      matched == Matched(buf, tag)
      found == {p \in 1 .. Len(buf) - size + 1 :
                  /\ matched[p + size - 2] = size - 1
                  /\ buf[p + size - 1] = tag[size]
                  /\ newLine => BeginsLine(buf, p)}
  IN  IF Len(buf) < size \/ found = {}
      THEN NotFound
      ELSE CHOOSE p \in found : \A q \in found : p <= q

FindLineTag(buf, tag) == FindTag(buf, tag, TRUE)

FindAttributeTag(buf, tag) == FindTag(buf, tag, FALSE)

(* The position after the next \r\n, or NotFound. *)
FindNextLine(buf) ==
  LET at == FindTag(buf, <<CR, LF>>, FALSE)
  IN  IF at = NotFound THEN NotFound ELSE at + 2
-----------------------------------------------------------------------------
(* Where the tag is. *)
Occurrences(buf, tag) ==
  {p \in 1 .. Len(buf) - Len(tag) + 1 :
     SubSeq(buf, p, p + Len(tag) - 1) = tag}

(* What stands in front of p is how the tag begins. *)
BegunBefore(buf, tag, p) ==
  \E j \in 1 .. Len(tag) - 1 :
    j < p /\ SubSeq(buf, p - j, p - 1) = SubSeq(tag, 1, j)

FirstOf(S) ==
  IF S = {} THEN NotFound ELSE CHOOSE p \in S : \A q \in S : p <= q

(* What a search anywhere in the text promises: what it finds is the tag, and
   it passes none but those it may have mistaken the beginning of. *)
FindsAttribute(buf, tag) ==
  LET at == FindAttributeTag(buf, tag)
  IN  /\ at # NotFound => at \in Occurrences(buf, tag)
      /\ \A p \in Occurrences(buf, tag) :
           BegunBefore(buf, tag, p) \/ (at # NotFound /\ at <= p)

(* What a search for a line promises: it finds the first one. *)
FindsLine(buf, tag) ==
  FindLineTag(buf, tag)
    = FirstOf({p \in Occurrences(buf, tag) : BeginsLine(buf, p)})
=============================================================================
