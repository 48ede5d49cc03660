------------------------- MODULE HeaderParseProofs --------------------------
(***************************************************************************)
(* Theorems about HeaderParse, for every block, subject, width of the      *)
(* integers and length of a name.                                          *)
(*                                                                         *)
(* IInv is the inductive invariant: types, the bound of the stream, and    *)
(* which record the name and the stored text are made from.  Reading says  *)
(* for a block as the yEnc specification has it what has been read before  *)
(* each step.  Between them are lemmas about the searches, the buffer in   *)
(* which a name is put together, and the fields that are stored.           *)
(***************************************************************************)
EXTENDS HeaderParse, TLAPS, FiniteSetTheorems, WellFoundedInduction

(* What the members of the record stand for. *)
Values(tag) ==
  CASE tag = "name"    -> Names
    [] tag = "comp"    -> Comps
    [] tag = "version" -> Nat
    [] OTHER           -> 0 .. Mask(tag)
Members == {"line", "size", "comp", "offset", "escape", "escoff", "begin", "end",
            "part", "total", "crc32", "pcrc32", "name", "version"}
IsRecord(r) ==
  /\ r = [tag \in DOMAIN r |-> r[tag]] /\ DOMAIN r \subseteq Members
  /\ \A tag \in DOMAIN r : r[tag] \in Values(tag)

(* What can have been decoded, of a block of that size. *)
Decoded(size) ==
  [size : Nat, crc : Checksums \cup {0}, at : 0 .. size, decoded : BOOLEAN]

(* The parts of the functions, before there is a stream and after it. *)
Attributes == {"ybegin", "line", "size", "part", "total", "crc32", "offset",
               "escape", "escoff", "comp", "name"}
Header == Attributes \cup {"ypart", "begin", "end", "data", "subject", "prepare"}
Body == {"decode", "text", "exception", "yend", "file", "attach", "done",
         "fallback"}
Attached == {"attach", "done", "fallback"}

Types ==
  /\ block \in Blocks /\ subject \in Subjects
  /\ pc \in Header \cup Body
  /\ IsRecord(info)
  /\ pbLine \in 0 .. Len(block.lines) + 1
  /\ pc \notin Attributes \cup {"text", "exception"} => "name" \in DOMAIN info
  /\ pc = "ypart" => FindFrom("name", 1) # 0
  /\ pc \in {"begin", "end", "data"} => pbLine \in 1 .. Len(block.lines)
  /\ pc = "data" => FindFrom("end", pbLine) # 0
  /\ stream \in 0 .. UINT_MAX
  /\ data \in Decoded(block.size)
  /\ pc = "yend" =>
       /\ pbLine \in 1 .. Len(block.lines)
       /\ data.at \in Start(pbLine) .. Start(Len(block.lines))

(* The stream is made with the header that is parsed by then. *)
Early == pc \in Header => stream = 0 /\ data = Nothing

(* What is attached has the name of what was decoded; what is stored is made
   from the same record. *)
Named ==
  /\ file.made \in BOOLEAN /\ file.cchBaseName \in 0 .. MAX_PATH
  /\ stored.made \in BOOLEAN
  /\ pc \in {"yend", "file"} \cup Attached => data.decoded /\ data.crc \in Checksums
  /\ pc \in Attached => file = DecoderGetFileName(MAX_PATH, info, data)
  /\ pc \in {"done", "fallback"} =>
       /\ file.made => stored = DecoderSerializeEncodeInfo(info, StoredFlags)
       /\ pc = "done" <=> (file.made => stored.made)

IInv == Types /\ Early /\ StreamIsBounded /\ Named

-----------------------------------------------------------------------------
(* Integers that are cut to their width. *)
LEMMA ModRange == ASSUME NEW x \in Int, NEW m \in Nat, m > 0
                  PROVE  x % m \in 0 .. m - 1
  OBVIOUS

(* A number that is small enough is not cut. *)
LEMMA ModSmall == ASSUME NEW m \in Nat, NEW x \in 0 .. m - 1
                  PROVE  x % m = x
  OBVIOUS

LEMMA MaskType == \A tag : Mask(tag) \in Nat
  BY WidthsAssumption DEF Mask

(* What is cut fits its width. *)
LEMMA CutType == ASSUME NEW tag, NEW value \in Nat
                 PROVE  Cut(tag, value) \in 0 .. Mask(tag)
  <1>1. Mask(tag) \in Nat
    BY MaskType
  <1>2. value % (Mask(tag) + 1) \in 0 .. Mask(tag) + 1 - 1
    BY <1>1, ModRange
  <1>3. QED
    BY <1>1, <1>2 DEF Cut

LEMMA CutSmall == ASSUME NEW tag, NEW value \in 0 .. Mask(tag)
                  PROVE  Cut(tag, value) = value
  BY MaskType, ModSmall DEF Cut

(* The size of a part is an unsigned integer, also where the difference wraps. *)
LEMMA PartSizeType ==
  ASSUME NEW r, IsRecord(r)
  PROVE  DecoderGetPartSize(r) \in 0 .. UINT_MAX
  <1>1. CASE {"begin", "end"} \subseteq DOMAIN r
    <2>1. r["begin"] \in 0 .. UINT_MAX /\ r["end"] \in 0 .. UINT_MAX
      BY <1>1 DEF IsRecord, Values, Mask
    <2> DEFINE x == r["end"] + 1 + UINT_MAX + 1 - r["begin"]
    <2>2. x \in Int /\ UINT_MAX \in Nat
      BY <2>1, WidthsAssumption
    <2> HIDE DEF x
    <2>3. x % (UINT_MAX + 1) \in 0 .. UINT_MAX + 1 - 1
      BY <2>2, ModRange
    <2>4. QED
      BY <1>1, <2>2, <2>3 DEF DecoderGetPartSize, x
  <1>2. CASE ~({"begin", "end"} \subseteq DOMAIN r)
    BY <1>2, WidthsAssumption DEF DecoderGetPartSize, Value, IsRecord, Values, Mask
  <1>3. QED
    BY <1>1, <1>2

(* The larger and the smaller of two numbers. *)
LEMMA MaxOfTwo == ASSUME NEW a \in Int, NEW b \in Int
                  PROVE  Max({a, b}) = IF a >= b THEN a ELSE b
  <1> DEFINE m == IF a >= b THEN a ELSE b
  <1>1. \A x \in {a, b} : (\A y \in {a, b} : x >= y) <=> x = m
    OBVIOUS
  <1>2. m \in {a, b}
    OBVIOUS
  <1> HIDE DEF m
  <1>3. Max({a, b}) = m
    BY <1>1, <1>2 DEF Max
  <1>4. QED
    BY <1>3 DEF m

LEMMA MinOfTwo == ASSUME NEW a \in Int, NEW b \in Int
                  PROVE  Min({a, b}) = IF a <= b THEN a ELSE b
  <1> DEFINE m == IF a <= b THEN a ELSE b
  <1>1. \A x \in {a, b} : (\A y \in {a, b} : x <= y) <=> x = m
    OBVIOUS
  <1>2. m \in {a, b}
    OBVIOUS
  <1> HIDE DEF m
  <1>3. Min({a, b}) = m
    BY <1>1, <1>2 DEF Min
  <1>4. QED
    BY <1>3 DEF m
-----------------------------------------------------------------------------
(* Induction up to a bound, and functions that are defined that way. *)
LEMMA LeastNumber ==
  ASSUME NEW S \in SUBSET Nat, S # {}
  PROVE  \E m \in S : \A n \in S : m <= n
  <1> DEFINE R == {r \in Nat \X Nat : r[1] < r[2]}
  <1>1. IsWellFoundedOn(R, Nat)
    BY NatLessThanWellFounded DEF OpToRel
  <1>2. PICK m \in S : \A n \in S : <<n, m>> \notin R
    <2> HIDE DEF R
    <2> QED
      BY <1>1, WFMin
  <1>3. \A n \in S : m \in Nat /\ n \in Nat /\ ~(n < m)
    BY <1>2
  <1>4. QED
    BY <1>3

LEMMA Upwards ==
  ASSUME NEW n \in Nat, NEW S, 0 \in S,
         \A k \in 1 .. n : k - 1 \in S => k \in S
  PROVE  0 .. n \subseteq S
  <1> DEFINE bad == {k \in 0 .. n : k \notin S}
  <1>1. SUFFICES ASSUME bad # {} PROVE FALSE
    OBVIOUS
  <1>2. bad \in SUBSET Nat
    OBVIOUS
  <1>3. PICK m \in bad : \A k \in bad : m <= k
    <2> HIDE DEF bad
    <2> QED
      BY <1>1, <1>2, LeastNumber
  <1>4. m \in 1 .. n /\ m \notin S /\ m - 1 \in 0 .. n /\ ~(m <= m - 1)
    OBVIOUS
  <1>5. m - 1 \in S
    BY <1>3, <1>4
  <1>6. QED
    BY <1>4, <1>5

Steps(n, T) == [(1 .. n) \X T -> T]

Follows(g, n, base, step) ==
  g[0] = base /\ \A k \in 1 .. n : g[k] = step[<<k, g[k - 1]>>]

LEMMA Recursion ==
  ASSUME NEW n \in Nat, NEW T, NEW base \in T, NEW step \in Steps(n, T)
  PROVE  \E g \in [0 .. n -> T] : Follows(g, n, base, step)
  <1> DEFINE S == {m \in 0 .. n : \E g \in [0 .. m -> T] : Follows(g, m, base, step)}
  <1>1. 0 \in S
    <2> DEFINE h == [k \in 0 .. 0 |-> base]
    <2>1. h \in [0 .. 0 -> T] /\ Follows(h, 0, base, step)
      BY DEF Follows
    <2> HIDE DEF h
    <2>2. QED
      BY <2>1
  <1>2. ASSUME NEW m \in 1 .. n, m - 1 \in S PROVE m \in S
    <2>1. PICK g \in [0 .. m - 1 -> T] : Follows(g, m - 1, base, step)
      BY <1>2
    <2> DEFINE h == [k \in 0 .. m |-> IF k = m THEN step[<<m, g[m - 1]>>] ELSE g[k]]
    <2>2. /\ m - 1 \in 0 .. m - 1 /\ 0 \in 0 .. m - 1 /\ 0 # m
          /\ \A k \in 0 .. m : k # m => k \in 0 .. m - 1
          /\ \A k \in 1 .. m : k - 1 \in 0 .. m - 1 /\ k - 1 \in 0 .. m /\ k - 1 # m
      OBVIOUS
    <2>3. g[m - 1] \in T /\ step[<<m, g[m - 1]>>] \in T
      BY <2>1, <2>2 DEF Steps
    <2>4. h \in [0 .. m -> T]
      BY <2>1, <2>2, <2>3
    <2>5. /\ h[m] = step[<<m, g[m - 1]>>]
          /\ \A k \in 0 .. m : k # m => h[k] = g[k]
      OBVIOUS
    <2> HIDE DEF h
    <2>6. h[0] = base
      BY <2>1, <2>2, <2>5 DEF Follows
    <2>7. ASSUME NEW k \in 1 .. m PROVE h[k] = step[<<k, h[k - 1]>>]
      <3>1. h[k - 1] = g[k - 1]
        BY <2>2, <2>5
      <3>2. CASE k = m
        BY <2>5, <3>1, <3>2
      <3>3. CASE k # m
        <4>1. k \in 1 .. m - 1 /\ k \in 0 .. m
          BY <3>3
        <4>2. QED
          BY <2>1, <2>5, <3>1, <3>3, <4>1 DEF Follows
      <3>4. QED
        BY <3>2, <3>3
    <2>8. Follows(h, m, base, step)
      BY <2>6, <2>7 DEF Follows
    <2>9. QED
      BY <2>4, <2>8
  <1>3. n \in S
    <2> HIDE DEF S
    <2>1. 0 .. n \subseteq S
      BY <1>1, <1>2, Upwards
    <2>2. QED
      BY <2>1
  <1>4. QED
    BY <1>3

-----------------------------------------------------------------------------
(* The first place in a sequence that passes a test, and the last. *)
LEMMA FirstPlace ==
  ASSUME NEW n \in Nat, NEW I \in SUBSET (1 .. n)
  PROVE  LET at == IF I # {} THEN Min(I) ELSE 0
         IN  /\ at = 0 => I = {}
             /\ at # 0 => at \in I /\ \A k \in I : at <= k
  <1>1. CASE I = {}
    BY <1>1
  <1>2. CASE I # {}
    <2>1. \E m \in I : \A k \in I : m <= k
      BY <1>2, LeastNumber
    <2>2. Min(I) \in I /\ \A k \in I : Min(I) <= k
      BY <2>1 DEF Min
    <2>3. QED
      BY <1>2, <2>2
  <1>3. QED
    BY <1>1, <1>2

LEMMA LastPlace ==
  ASSUME NEW n \in Nat, NEW I \in SUBSET (1 .. n)
  PROVE  LET at == IF I # {} THEN Max(I) ELSE 0
         IN  /\ at = 0 => I = {}
             /\ at # 0 => at \in I /\ \A k \in I : at >= k
  <1>1. CASE I = {}
    BY <1>1
  <1>2. CASE I # {}
    <2> DEFINE J == {j \in 0 .. n : n - j \in I}
    <2>1. PICK k \in I : TRUE
      BY <1>2
    <2>2. n - k \in J
      OBVIOUS
    <2>3. J \in SUBSET Nat /\ J # {}
      <3>1. J \in SUBSET Nat
        OBVIOUS
      <3> HIDE DEF J
      <3>2. QED
        BY <2>2, <3>1
    <2>4. PICK m \in J : \A j \in J : m <= j
      <3> HIDE DEF J
      <3> QED
        BY <2>3, LeastNumber
    <2>5. n - m \in I /\ \A i \in I : n - i \in J
      OBVIOUS
    <2>6. \A i \in I : n - m >= i
      BY <2>4, <2>5
    <2>7. \E x \in I : \A y \in I : x >= y
      BY <2>5, <2>6
    <2>8. Max(I) \in I /\ \A y \in I : Max(I) >= y
      BY <2>7 DEF Max
    <2>9. QED
      BY <1>2, <2>8
  <1>3. QED
    BY <1>1, <1>2

(* A block: the places of its lines and its tokens, in order. *)
LEMMA BlockType ==
  ASSUME block \in Blocks
  PROVE  /\ block.version \in Nat /\ block.size \in Nat
         /\ Len(block.lines) \in Nat \ {0} /\ DOMAIN block.lines = 1 .. Len(block.lines)
         /\ Len(block.tokens) \in Nat /\ DOMAIN block.tokens = 1 .. Len(block.tokens)
         /\ \A k \in DOMAIN block.tokens :
              /\ IsToken(block.tokens[k])
              /\ block.tokens[k].line \in 1 .. Len(block.lines)
              /\ block.tokens[k].from \in Start(block.tokens[k].line) .. block.size
              /\ block.tokens[k].to \in
                   block.tokens[k].from + 1 .. Start(block.tokens[k].line + 1)
              /\ \A j \in 1 .. k - 1 : block.tokens[j].to <= block.tokens[k].from
  <1>1. /\ block.version \in Nat /\ block.size \in Nat
        /\ block.lines \in Seq({"begin", "part", "data", "end"}) /\ block.lines # <<>>
        /\ block.tokens \in Seq(ToSet(block.tokens))
    BY BlocksAssumption
  <1>2. Len(block.lines) \in Nat \ {0} /\ DOMAIN block.lines = 1 .. Len(block.lines)
    BY <1>1
  <1>3. Len(block.tokens) \in Nat /\ DOMAIN block.tokens = 1 .. Len(block.tokens)
    BY <1>1
  <1>4. ASSUME NEW k \in DOMAIN block.tokens
        PROVE  LET t == block.tokens[k]
               IN  /\ IsToken(t) /\ t.line \in DOMAIN block.lines
                   /\ t.from \in block.starts[t.line] .. block.size
                   /\ t.to \in t.from + 1 .. IF t.line = Len(block.lines) THEN block.size
                                             ELSE block.starts[t.line + 1]
                   /\ \A j \in 1 .. k - 1 : block.tokens[j].to <= t.from
    BY <1>4, BlocksAssumption
  <1>5. ASSUME NEW k \in DOMAIN block.tokens
        PROVE  LET t == block.tokens[k]
               IN  /\ IsToken(t) /\ t.line \in 1 .. Len(block.lines)
                   /\ t.from \in Start(t.line) .. block.size
                   /\ t.to \in t.from + 1 .. Start(t.line + 1)
                   /\ \A j \in 1 .. k - 1 : block.tokens[j].to <= t.from
    <2> DEFINE t == block.tokens[k]
    <2>1. Start(t.line) = block.starts[t.line]
      BY <1>4 DEF Start
    <2>2. Start(t.line + 1) = IF t.line = Len(block.lines) THEN block.size
                              ELSE block.starts[t.line + 1]
      BY <1>2, <1>4 DEF Start
    <2>3. QED
      BY <1>2, <1>4, <2>1, <2>2
  <1>6. QED
    BY <1>1, <1>2, <1>3, <1>5

(* The lines begin one after the other, the first with the search. *)
LEMMA StartType ==
  ASSUME block \in Blocks
  PROVE  /\ Start(1) = 0
         /\ \A line \in Nat : Start(line) \in 0 .. block.size
         /\ \A line \in 1 .. Len(block.lines) + 1 : \A j \in 1 .. line :
              Start(j) <= Start(line)
  <1>1. /\ block.size \in Nat /\ block.starts \in [DOMAIN block.lines -> 0 .. block.size]
        /\ block.starts[1] = 0
        /\ \A k \in DOMAIN block.lines : \A j \in 1 .. k : block.starts[j] <= block.starts[k]
    BY BlocksAssumption
  <1>2. Len(block.lines) \in Nat \ {0} /\ DOMAIN block.lines = 1 .. Len(block.lines)
    BY BlockType
  <1>3. \A line \in Nat : Start(line) \in 0 .. block.size
    BY <1>1 DEF Start
  <1>4. Start(1) = 0
    BY <1>1, <1>2 DEF Start
  <1>5. ASSUME NEW line \in 1 .. Len(block.lines) + 1, NEW j \in 1 .. line
        PROVE  Start(j) <= Start(line)
    <2>1. CASE line = Len(block.lines) + 1
      <3>1. Start(line) = block.size /\ Start(j) \in 0 .. block.size
        BY <1>2, <1>3, <2>1 DEF Start
      <3>2. QED
        BY <1>1, <3>1
    <2>2. CASE line # Len(block.lines) + 1
      <3>1. line \in DOMAIN block.lines /\ j \in DOMAIN block.lines
        BY <1>2, <2>2
      <3>2. QED
        BY <1>1, <3>1 DEF Start
    <2>3. QED
      BY <2>1, <2>2
  <1>6. QED
    BY <1>3, <1>4, <1>5

(* A token stands between the start of its line and the end of the block; a line
   that begins before it is not behind its own; and what stands further on is not
   in an earlier line. *)
LEMMA TokenOrder ==
  ASSUME block \in Blocks, NEW k \in DOMAIN block.tokens
  PROVE  /\ block.tokens[k].from \in Nat /\ block.tokens[k].to \in Nat
         /\ block.tokens[k].from < block.tokens[k].to
         /\ block.tokens[k].to <= block.size
         /\ \A line \in 1 .. Len(block.lines) :
              Start(line) <= block.tokens[k].from <=> line <= block.tokens[k].line
         /\ \A j \in 1 .. k : /\ block.tokens[j].line <= block.tokens[k].line
                             /\ block.tokens[j].to <= block.tokens[k].to
  <1> DEFINE At(j)   == block.tokens[j].line
             From(j) == block.tokens[j].from
             To(j)   == block.tokens[j].to
             n == Len(block.lines)
  <1>0. n \in Nat
    BY BlockType
  <1>1. block.size \in Nat /\ \A line \in Nat : Start(line) \in 0 .. block.size
    BY BlockType, StartType
  <1>2. ASSUME NEW j \in DOMAIN block.tokens
        PROVE  /\ At(j) \in 1 .. n /\ From(j) \in Nat /\ To(j) \in Nat /\ From(j) < To(j)
               /\ Start(At(j)) <= From(j) /\ To(j) <= Start(At(j) + 1)
               /\ To(j) <= block.size /\ Start(At(j)) \in Nat
               /\ Start(At(j) + 1) \in Nat
    <2>1. /\ At(j) \in 1 .. n /\ From(j) \in Start(At(j)) .. block.size
          /\ To(j) \in From(j) + 1 .. Start(At(j) + 1)
      BY BlockType
    <2>2. Start(At(j)) \in 0 .. block.size /\ Start(At(j) + 1) \in 0 .. block.size
      <3>1. At(j) \in Nat /\ At(j) + 1 \in Nat
        BY <1>0, <2>1
      <3> HIDE DEF At
      <3>2. QED
        BY <1>1, <3>1
    <2> HIDE DEF At, From, To, n
    <2>3. QED
      BY <1>0, <1>1, <2>1, <2>2
  <1>3. ASSUME NEW j \in DOMAIN block.tokens, NEW line \in 1 .. n
        PROVE  Start(line) <= From(j) <=> line <= At(j)
    <2>0. At(j) \in 1 .. n
      BY <1>2
    <2> HIDE DEF At, From, To
    <2>1. line <= At(j) => Start(line) <= Start(At(j))
      <3>1. At(j) \in 1 .. n + 1 /\ (line <= At(j) => line \in 1 .. At(j))
        BY <1>0, <2>0
      <3>2. QED
        BY <3>1, StartType
    <2>2. ~(line <= At(j)) => Start(At(j) + 1) <= Start(line)
      <3>1. line \in 1 .. n + 1 /\ (~(line <= At(j)) => At(j) + 1 \in 1 .. line)
        BY <1>0, <2>0
      <3>2. QED
        BY <3>1, StartType
    <2>3. Start(line) \in 0 .. block.size
      <3>1. line \in Nat
        BY <1>0
      <3>2. QED
        BY <1>1, <3>1
    <2> HIDE DEF n
    <2>4. QED
      BY <1>0, <1>1, <1>2, <2>1, <2>2, <2>3
  <1>4. ASSUME NEW j \in 1 .. k
        PROVE  At(j) <= At(k) /\ To(j) <= To(k)
    <2>1. CASE j = k
      BY <1>2, <2>1
    <2>2. CASE j # k
      <3>1. j \in DOMAIN block.tokens /\ j \in 1 .. k - 1
        BY <2>2, BlockType
      <3>2. To(j) <= From(k)
        BY <3>1, BlockType
      <3> HIDE DEF At, From, To, n
      <3>3. Start(At(j)) <= From(k) /\ To(j) <= To(k)
        BY <1>2, <3>1, <3>2
      <3>4. QED
        BY <1>2, <1>3, <3>1, <3>3
    <2>3. QED
      BY <2>1, <2>2
  <1>5. QED
    BY <1>2, <1>3, <1>4

(* A search finds the first token with the tag between the two places, if there
   is one. *)
LEMMA FoundWithin ==
  ASSUME block \in Blocks, NEW tag, NEW from, NEW to
  PROVE  LET at == FindAttributeTag(tag, from, to)
             Matches(k) == /\ block.tokens[k].tag = tag /\ from <= block.tokens[k].from
                           /\ block.tokens[k].to <= to
         IN  /\ at = 0 => \A k \in DOMAIN block.tokens : ~Matches(k)
             /\ at # 0 => /\ at \in DOMAIN block.tokens /\ Matches(at)
                          /\ \A k \in DOMAIN block.tokens : Matches(k) => at <= k
                          /\ IsToken(block.tokens[at])
                          /\ block.tokens[at].line \in 1 .. Len(block.lines)
  <1> DEFINE n == Len(block.tokens)
             I == {k \in 1 .. n : /\ block.tokens[k].tag = tag
                                  /\ from <= block.tokens[k].from
                                  /\ block.tokens[k].to <= to}
             at == IF I # {} THEN Min(I) ELSE 0
  <1>1. FindAttributeTag(tag, from, to) = at
    BY DEF FindAttributeTag, SelectInSeq
  <1>2. n \in Nat /\ I \in SUBSET (1 .. n) /\ DOMAIN block.tokens = 1 .. n
    BY BlockType
  <1>3. /\ at = 0 => I = {}
        /\ at # 0 => at \in I /\ \A k \in I : at <= k
    <2> HIDE DEF I, n
    <2> QED
      BY <1>2, FirstPlace
  <1> HIDE DEF at
  <1>4. at # 0 => IsToken(block.tokens[at]) /\ block.tokens[at].line \in 1 .. Len(block.lines)
    BY <1>2, <1>3, BlockType
  <1>5. QED
    BY <1>1, <1>2, <1>3, <1>4

(* From a line on, it finds the first one in that line or behind it. *)
LEMMA Found ==
  ASSUME block \in Blocks, NEW tag, NEW line \in 1 .. Len(block.lines)
  PROVE  LET at == FindFrom(tag, line)
             Matches(k) == block.tokens[k].tag = tag /\ block.tokens[k].line >= line
         IN  /\ at = 0 => \A k \in DOMAIN block.tokens : ~Matches(k)
             /\ at # 0 => /\ at \in DOMAIN block.tokens /\ Matches(at)
                          /\ \A k \in DOMAIN block.tokens : Matches(k) => at <= k
                          /\ IsToken(block.tokens[at])
                          /\ block.tokens[at].line \in 1 .. Len(block.lines)
  <1>1. ASSUME NEW k \in DOMAIN block.tokens
        PROVE  /\ Start(line) <= block.tokens[k].from <=> block.tokens[k].line >= line
               /\ block.tokens[k].to <= block.size
    <2>1. /\ Start(line) <= block.tokens[k].from <=> line <= block.tokens[k].line
          /\ block.tokens[k].to <= block.size
      BY TokenOrder
    <2>2. block.tokens[k].line \in Int /\ line \in Int
      BY BlockType
    <2>3. QED
      BY <2>1, <2>2
  <1> DEFINE at == FindFrom(tag, line)
             Within(k) == /\ block.tokens[k].tag = tag /\ Start(line) <= block.tokens[k].from
                          /\ block.tokens[k].to <= block.size
  <1>2. /\ at = 0 => \A k \in DOMAIN block.tokens : ~Within(k)
        /\ at # 0 => /\ at \in DOMAIN block.tokens /\ Within(at)
                     /\ \A k \in DOMAIN block.tokens : Within(k) => at <= k
                     /\ IsToken(block.tokens[at])
                     /\ block.tokens[at].line \in 1 .. Len(block.lines)
    BY FoundWithin DEF FindFrom
  <1> HIDE DEF at
  <1>3. QED
    BY <1>1, <1>2 DEF at

LEMMA FirstLine == ASSUME block \in Blocks PROVE 1 \in 1 .. Len(block.lines)
  BY BlockType

(* A line that is looked for exists, or is the one behind the last, or NULL. *)
LEMMA NextLineType ==
  ASSUME block \in Blocks, NEW line \in 1 .. Len(block.lines)
  PROVE  FindNextLine(line) \in 0 .. Len(block.lines) + 1
  BY BlockType DEF FindNextLine, NoLine

(* The bytes that are left are a number. *)
LEMMA DataType ==
  ASSUME block \in Blocks, NEW line \in 0 .. Len(block.lines) + 1
  PROVE  cbData(line) \in Nat
  <1>1. line \in Nat /\ block.size \in Nat
    BY BlockType
  <1>2. Start(line) \in 0 .. block.size
    BY <1>1, StartType
  <1>3. QED
    BY <1>1, <1>2, WidthsAssumption DEF cbData
-----------------------------------------------------------------------------
(***************************************************************************)
(* The length of a text, which with the room that is left in a buffer is   *)
(* the size of the buffer.                                                 *)
(***************************************************************************)
LEMMA LengthOfText ==
  ASSUME NEW text \in Seq(Pieces)
  PROVE  \E f \in [0 .. Len(text) -> Nat] :
           /\ TextLength(text) = f[Len(text)] /\ f[0] = 0
           /\ \A k \in 1 .. Len(text) : f[k] = f[k - 1] + Length(text[k])
  <1> DEFINE n == Len(text)
             step == [x \in (1 .. n) \X Nat |-> x[2] + Length(text[x[1]])]
             Is(h) == h = [k \in 0 .. Len(text) |->
                             IF k = 0 THEN 0 ELSE h[k - 1] + Length(text[k])]
             f == CHOOSE h : Is(h)
  <1>1. n \in Nat /\ \A k \in 1 .. n : Length(text[k]) \in Nat
    BY LengthAssumption
  <1>2. step \in Steps(n, Nat)
    BY <1>1 DEF Steps
  <1>3. PICK g \in [0 .. n -> Nat] : Follows(g, n, 0, step)
    <2> HIDE DEF step, n
    <2> QED
      BY <1>1, <1>2, Recursion
  <1>4. \A k \in 0 .. n : g[k] = IF k = 0 THEN 0 ELSE g[k - 1] + Length(text[k])
    <2>1. ASSUME NEW k \in 1 .. n PROVE g[k] = g[k - 1] + Length(text[k])
      <3> HIDE DEF n, step
      <3>1. g[k] = step[<<k, g[k - 1]>>] /\ g[k - 1] \in Nat
        <4>1. k - 1 \in 0 .. n
          BY <1>1
        <4>2. QED
          BY <1>3, <4>1 DEF Follows
      <3> USE DEF step
      <3>2. step[<<k, g[k - 1]>>] = g[k - 1] + Length(text[k])
        BY <3>1
      <3>3. QED
        BY <3>1, <3>2
    <2>2. g[0] = 0 /\ \A k \in 0 .. n : k # 0 => k \in 1 .. n
      BY <1>1, <1>3 DEF Follows
    <2> HIDE DEF n
    <2>3. QED
      BY <2>1, <2>2
  <1>5. Is(g)
    <2>1. g = [k \in 0 .. n |-> g[k]]
      BY <1>3
    <2>2. QED
      BY <1>4, <2>1, Zenon
  <1>6. Is(f)
    <2> HIDE DEF Is
    <2> QED
      BY <1>5
  <1>7. f = g
    <2> DEFINE S == {k \in 0 .. n : f[k] = g[k]}
    <2>1. \A k \in 0 .. n : f[k] = IF k = 0 THEN 0 ELSE f[k - 1] + Length(text[k])
      <3> HIDE DEF f
      <3> QED
        BY <1>6, Zenon
    <2> HIDE DEF f
    <2>2. 0 \in S
      BY <1>1, <1>4, <2>1
    <2>3. \A k \in 1 .. n : k - 1 \in S => k \in S
      <3> SUFFICES ASSUME NEW k \in 1 .. n, f[k - 1] = g[k - 1] PROVE f[k] = g[k]
        BY <1>1
      <3>1. k \in 0 .. n /\ k # 0
        BY <1>1
      <3>2. QED
        BY <1>4, <2>1, <3>1
    <2> HIDE DEF S, n
    <2>4. 0 .. n \subseteq S
      BY <1>1, <2>2, <2>3, Upwards
    <2> USE DEF S, n
    <2>5. \A k \in 0 .. n : f[k] = g[k]
      BY <2>4
    <2>6. f = [k \in 0 .. n |-> f[k]] /\ g = [k \in 0 .. n |-> g[k]]
      BY <1>3, <1>6, Zenon
    <2>7. QED
      BY <2>5, <2>6, Zenon
  <1>8. TextLength(text) = f[Len(text)]
    BY Zenon DEF TextLength
  <1> HIDE DEF f
  <1>9. f \in [0 .. Len(text) -> Nat]
    BY <1>3, <1>7
  <1>10. f[0] = 0 /\ \A k \in 1 .. Len(text) : f[k] = f[k - 1] + Length(text[k])
    <2>1. 0 \in 0 .. n /\ \A k \in 1 .. n : k \in 0 .. n /\ k # 0
      BY <1>1
    <2>2. QED
      BY <1>4, <1>7, <2>1
  <1>11. QED
    BY <1>8, <1>9, <1>10

LEMMA LengthOfNothing == TextLength(<<>>) = 0
  <1>1. PICK f \in [0 .. Len(<<>>) -> Nat] :
          TextLength(<<>>) = f[Len(<<>>)] /\ f[0] = 0
    <2>1. <<>> \in Seq(Pieces)
      OBVIOUS
    <2>2. QED
      BY <2>1, LengthOfText, Zenon
  <1>2. QED
    BY <1>1

(* A text that gets another piece is longer by the length of the piece. *)
LEMMA LengthOfMore ==
  ASSUME NEW text \in Seq(Pieces), NEW piece \in Pieces
  PROVE  /\ TextLength(text) \in Nat /\ Length(piece) \in Nat
         /\ TextLength(Append(text, piece)) = TextLength(text) + Length(piece)
  <1> DEFINE n == Len(text)
             more == Append(text, piece)
  <1>1. /\ n \in Nat /\ more \in Seq(Pieces) /\ Len(more) = n + 1
        /\ more[n + 1] = piece /\ \A k \in 1 .. n : more[k] = text[k]
    OBVIOUS
  <1> HIDE DEF more
  <1>2. PICK f \in [0 .. n -> Nat] :
          /\ TextLength(text) = f[n] /\ f[0] = 0
          /\ \A k \in 1 .. n : f[k] = f[k - 1] + Length(text[k])
    BY LengthOfText
  <1>3. PICK g \in [0 .. Len(more) -> Nat] :
          /\ TextLength(more) = g[Len(more)] /\ g[0] = 0
          /\ \A k \in 1 .. Len(more) : g[k] = g[k - 1] + Length(more[k])
    BY <1>1, LengthOfText
  <1> DEFINE S == {k \in 0 .. n : f[k] = g[k]}
  <1>4. 0 \in S
    BY <1>1, <1>2, <1>3
  <1>5. \A k \in 1 .. n : k - 1 \in S => k \in S
    <2> SUFFICES ASSUME NEW k \in 1 .. n, f[k - 1] = g[k - 1] PROVE f[k] = g[k]
      BY <1>1
    <2>1. k \in 1 .. Len(more)
      BY <1>1
    <2>2. QED
      BY <1>1, <1>2, <1>3, <2>1
  <1>6. 0 .. n \subseteq S
    <2> HIDE DEF S, n
    <2> QED
      BY <1>1, <1>4, <1>5, Upwards
  <1>7. f[n] = g[n] /\ f[n] \in Nat
    BY <1>1, <1>2, <1>6
  <1>8. g[n + 1] = g[n] + Length(more[n + 1])
    BY <1>1, <1>3
  <1>9. Length(piece) \in Nat
    BY LengthAssumption
  <1>10. QED
    BY <1>1, <1>2, <1>3, <1>7, <1>8, <1>9 DEF more
-----------------------------------------------------------------------------
(* The pieces of a name, and what is written of them. *)
AllMarks == (Checksums \cup {0}) \X (0 .. UINT_MAX)

(* What is written is a piece. *)
LEMMA PieceTypes ==
  /\ \A name \in Names : /\ Piece("stem", name.stem, How(name)) \in Pieces
                         /\ Piece("ext", name.ext, How(name)) \in Pieces
  /\ \A comp \in Comps : Piece("comp", comp, "convert") \in Pieces
  /\ \A bad \in AllMarks : Piece("bad", bad, "print") \in Pieces
  /\ \A iPart \in 1 .. USHRT_MAX : Piece("part", iPart, "print") \in Pieces
  <1>1. ASSUME NEW name \in Names
        PROVE  /\ Piece("stem", name.stem, How(name)) \in Pieces
               /\ Piece("ext", name.ext, How(name)) \in Pieces
    <2>1. How(name) \in {"copy", "convert"}
      BY DEF How
    <2> HIDE DEF How
    <2>2. QED
      BY <2>1 DEF Pieces
  <1>2. ASSUME NEW bad \in AllMarks PROVE Piece("bad", bad, "print") \in Pieces
    <2>1. /\ bad[1] \in Checksums \cup {0} /\ bad[2] \in 0 .. UINT_MAX
          /\ bad = <<bad[1], bad[2]>>
      BY DEF AllMarks
    <2>2. Piece("bad", <<bad[1], bad[2]>>, "print") \in Pieces
      BY <2>1 DEF Pieces
    <2>3. QED
      BY <2>1, <2>2
  <1>3. \A comp \in Comps : Piece("comp", comp, "convert") \in Pieces
    BY DEF Pieces
  <1>4. \A iPart \in 1 .. USHRT_MAX : Piece("part", iPart, "print") \in Pieces
    BY DEF Pieces
  <1>5. QED
    BY <1>1, <1>2, <1>3, <1>4

(* A buffer of a given size, and a text in it. *)
IsBuffer(b, cchBuf) ==
  /\ b = [ok |-> b.ok, room |-> b.room, text |-> b.text]
  /\ b.ok \in BOOLEAN /\ b.room \in Nat /\ b.text \in Seq(Pieces)
  /\ b.room + TextLength(b.text) = cchBuf

(* Writing keeps the size of the buffer, and takes room only from what is left. *)
LEMMA WriteBuffer ==
  ASSUME NEW cchBuf \in Nat, NEW b, IsBuffer(b, cchBuf), NEW condition \in BOOLEAN,
         NEW piece, condition => piece \in Pieces
  PROVE  /\ IsBuffer(Write(b, condition, piece), cchBuf)
         /\ Write(b, condition, piece).room <= b.room
         /\ Write(b, condition, piece).ok = TRUE => b.ok = TRUE
  <1>1. CASE ~condition
    BY <1>1 DEF Write, IsBuffer
  <1>2. CASE condition /\ b.ok /\ Fits(piece, b.room)
    <2> DEFINE c == [ok |-> TRUE, room |-> b.room - Length(piece),
                     text |-> Append(b.text, piece)]
    <2>1. Write(b, condition, piece) = c
      BY <1>2 DEF Write
    <2>2. /\ TextLength(b.text) \in Nat /\ Length(piece) \in Nat
          /\ TextLength(Append(b.text, piece)) = TextLength(b.text) + Length(piece)
      BY <1>2, LengthOfMore DEF IsBuffer
    <2>3. Length(piece) <= b.room
      BY <1>2, <2>2 DEF Fits, IsBuffer
    <2>4. Append(b.text, piece) \in Seq(Pieces) /\ b.room \in Nat
      BY <1>2 DEF IsBuffer
    <2>5. b.room - Length(piece) \in Nat /\ b.room - Length(piece) <= b.room
      BY <2>2, <2>3, <2>4
    <2>6. b.room - Length(piece) + TextLength(Append(b.text, piece)) = cchBuf
      BY <2>2, <2>4 DEF IsBuffer
    <2>7. IsBuffer(c, cchBuf)
      BY <2>4, <2>5, <2>6 DEF IsBuffer
    <2>8. c.room <= b.room /\ (c.ok = TRUE => b.ok = TRUE)
      BY <1>2, <2>5
    <2> HIDE DEF c
    <2>9. QED
      BY <2>1, <2>7, <2>8, Zenon
  <1>3. CASE condition /\ ~(b.ok /\ Fits(piece, b.room))
    <2>1. Write(b, condition, piece) = [b EXCEPT !.ok = FALSE]
      BY <1>3 DEF Write
    <2> DEFINE c == [ok |-> FALSE, room |-> b.room, text |-> b.text]
    <2>2. Write(b, condition, piece) = c
      BY <2>1 DEF IsBuffer
    <2>3. IsBuffer(c, cchBuf) /\ c.room <= b.room /\ (c.ok = TRUE => b.ok = TRUE)
      BY DEF IsBuffer
    <2> HIDE DEF c
    <2>4. QED
      BY <2>2, <2>3, Zenon
  <1>4. QED
    BY <1>1, <1>2, <1>3

LEMMA EmptyBuffer == ASSUME NEW cchBuf \in Nat PROVE IsBuffer(Empty(cchBuf), cchBuf)
  BY LengthOfNothing DEF IsBuffer, Empty

(* What is written stands behind what was there, and has found room. *)
LEMMA WriteText ==
  ASSUME NEW cchBuf, NEW b, IsBuffer(b, cchBuf), NEW piece, Write(b, TRUE, piece).ok = TRUE
  PROVE  /\ Fits(piece, b.room) /\ b.ok = TRUE
         /\ Write(b, TRUE, piece).text = Append(b.text, piece)
         /\ Write(b, TRUE, piece).room = b.room - Length(piece)
  <1>1. ASSUME ~(b.ok = TRUE /\ Fits(piece, b.room)) PROVE FALSE
    <2>1. Write(b, TRUE, piece) = [b EXCEPT !.ok = FALSE]
      BY <1>1 DEF Write
    <2>2. QED
      BY <2>1 DEF IsBuffer
  <1> DEFINE c == [ok |-> TRUE, room |-> b.room - Length(piece),
                   text |-> Append(b.text, piece)]
  <1>2. c.text = Append(b.text, piece) /\ c.room = b.room - Length(piece)
    OBVIOUS
  <1>3. b.ok = TRUE /\ Fits(piece, b.room)
    BY <1>1
  <1>4. Write(b, TRUE, piece) = c
    <2>1. b.ok /\ Fits(piece, b.room)
      BY <1>3
    <2>2. QED
      BY <2>1 DEF Write
  <1> HIDE DEF c
  <1>5. QED
    BY <1>2, <1>3, <1>4

LEMMA Unwritten == ASSUME NEW b, NEW piece PROVE Write(b, FALSE, piece) = b
  BY DEF Write

(* What has found room finds it in a buffer that has more of it. *)
LEMMA WriteMore ==
  ASSUME NEW cchBuf, NEW b, IsBuffer(b, cchBuf), NEW c, IsBuffer(c, cchBuf),
         b.room <= c.room, c.ok = TRUE,
         NEW condition \in BOOLEAN, NEW piece, condition => Length(piece) \in Nat,
         Write(b, condition, piece).ok = TRUE
  PROVE  /\ Write(c, condition, piece).ok = TRUE
         /\ Write(b, condition, piece).room <= Write(c, condition, piece).room
  <1>1. CASE condition = FALSE
    BY <1>1, Unwritten, ZenonT(60)
  <1>2. CASE condition
    <2>1. /\ Fits(piece, b.room)
          /\ Write(b, condition, piece).room = b.room - Length(piece)
      <3>1. condition = TRUE
        BY <1>2
      <3>2. QED
        BY <3>1, WriteText
    <2>2. Length(piece) \in Nat
      BY <1>2
    <2>3. Fits(piece, c.room)
      BY <2>1, <2>2 DEF Fits, IsBuffer
    <2>4. Write(c, condition, piece) = [ok |-> TRUE, room |-> c.room - Length(piece),
                                        text |-> Append(c.text, piece)]
      BY <1>2, <2>3 DEF Write
    <2>5. QED
      BY <2>1, <2>2, <2>4 DEF IsBuffer
  <1>3. QED
    BY <1>1, <1>2

Marked(text) == \E piece \in ToSet(text) : piece.is = "bad"

(* A text is marked once a mark is appended to it. *)
LEMMA MarkedMore ==
  ASSUME NEW text \in Seq(Pieces), NEW piece \in Pieces
  PROVE  Marked(Append(text, piece)) <=> Marked(text) \/ piece.is = "bad"
  <1>1. \A p : p \in ToSet(Append(text, piece)) <=> p \in ToSet(text) \/ p = piece
    <2> DEFINE more == Append(text, piece)
    <2>1. /\ DOMAIN more = 1 .. Len(text) + 1 /\ DOMAIN text = 1 .. Len(text)
          /\ Len(text) \in Nat
          /\ more[Len(text) + 1] = piece /\ \A k \in 1 .. Len(text) : more[k] = text[k]
      OBVIOUS
    <2> HIDE DEF more
    <2>2. ASSUME NEW p \in ToSet(more) PROVE p \in ToSet(text) \/ p = piece
      <3>1. PICK k \in 1 .. Len(text) + 1 : p = more[k]
        BY <2>1 DEF ToSet
      <3>2. QED
        BY <2>1, <3>1 DEF ToSet
    <2>3. ASSUME NEW p \in ToSet(text) PROVE p \in ToSet(more)
      <3>1. PICK k \in 1 .. Len(text) : p = text[k]
        BY <2>1 DEF ToSet
      <3>2. k \in 1 .. Len(text) + 1
        BY <2>1
      <3>3. QED
        BY <2>1, <3>1, <3>2 DEF ToSet
    <2>4. piece \in ToSet(more)
      <3>1. Len(text) + 1 \in 1 .. Len(text) + 1
        BY <2>1
      <3>2. QED
        BY <2>1, <3>1 DEF ToSet
    <2>5. QED
      BY <2>2, <2>3, <2>4 DEF more
  <1>2. QED
    BY <1>1 DEF Marked

(* So is the text of a buffer. *)
LEMMA WriteMarked ==
  ASSUME NEW cchBuf \in Nat, NEW b, IsBuffer(b, cchBuf), NEW condition \in BOOLEAN, NEW piece,
         condition => piece \in Pieces, Write(b, condition, piece).ok = TRUE
  PROVE  Marked(Write(b, condition, piece).text) <=>
           Marked(b.text) \/ (condition /\ piece.is = "bad")
  <1>1. CASE ~condition
    <2>1. Write(b, condition, piece) = b
      BY <1>1, Unwritten
    <2>2. QED
      BY <1>1, <2>1
  <1>2. CASE condition
    <2>1. Write(b, condition, piece).text = Append(b.text, piece)
      <3>1. condition = TRUE
        BY <1>2
      <3>2. QED
        BY <3>1, WriteText
    <2>2. QED
      BY <1>2, <2>1, MarkedMore DEF IsBuffer
  <1>3. QED
    BY <1>1, <1>2

(* The steps in which a name is made, and its arguments. *)
Stem(cchBuf, name) ==
  Write(Empty(cchBuf), TRUE, Piece("stem", name.stem, How(name)))
WithMark(cchBuf, name, bad) ==
  Write(Stem(cchBuf, name), bad # <<0, 0>>, Piece("bad", bad, "print"))
WithExt(cchBuf, name, bad) ==
  Write(WithMark(cchBuf, name, bad), name.ext # "", Piece("ext", name.ext, How(name)))
Base(cchBuf, name, comp, bad) ==
  Write(WithExt(cchBuf, name, bad), comp # <<>>, Piece("comp", comp, "convert"))
Whole(cchBuf, name, comp, iPart, bad) ==
  Write(Base(cchBuf, name, comp, bad), iPart # 0, Piece("part", iPart, "print"))

(* The steps make the name. *)
LEMMA MadeInSteps ==
  ASSUME NEW cchBuf, NEW name, NEW comp, NEW iPart, NEW bad
  PROVE  DecoderMakeFileName(cchBuf, name, comp, iPart, bad) =
           LET base  == Base(cchBuf, name, comp, bad)
               whole == Whole(cchBuf, name, comp, iPart, bad)
           IN  [made        |-> whole.ok /\ whole.room > 0,
                text        |-> whole.text,
                cchBaseName |-> IF base.ok THEN cchBuf - base.room ELSE cchBuf]
  BY Zenon DEF DecoderMakeFileName, Stem, WithMark, WithExt, Base, Whole

IsNamed(cchBuf, name, comp, iPart, bad) ==
  /\ cchBuf \in Nat /\ name \in Names /\ comp \in Comps \cup {<<>>}
  /\ iPart \in 0 .. USHRT_MAX /\ bad \in AllMarks

(* Room and text are the size of the buffer after each of them. *)
LEMMA StepsOfName ==
  ASSUME NEW cchBuf, NEW name, NEW comp, NEW iPart, NEW bad,
         IsNamed(cchBuf, name, comp, iPart, bad)
  PROVE  /\ IsBuffer(Stem(cchBuf, name), cchBuf)
         /\ IsBuffer(WithMark(cchBuf, name, bad), cchBuf)
         /\ IsBuffer(WithExt(cchBuf, name, bad), cchBuf)
         /\ IsBuffer(Base(cchBuf, name, comp, bad), cchBuf)
         /\ IsBuffer(Whole(cchBuf, name, comp, iPart, bad), cchBuf)
  <1>1. IsBuffer(Stem(cchBuf, name), cchBuf)
    BY EmptyBuffer, WriteBuffer, PieceTypes DEF IsNamed, Stem
  <1>2. IsBuffer(WithMark(cchBuf, name, bad), cchBuf)
    BY <1>1, WriteBuffer, PieceTypes DEF IsNamed, WithMark
  <1>3. IsBuffer(WithExt(cchBuf, name, bad), cchBuf)
    BY <1>2, WriteBuffer, PieceTypes DEF IsNamed, WithExt
  <1>4. IsBuffer(Base(cchBuf, name, comp, bad), cchBuf)
    <2>1. comp # <<>> => Piece("comp", comp, "convert") \in Pieces
      BY PieceTypes DEF IsNamed
    <2>2. QED
      BY <1>3, <2>1, WriteBuffer DEF IsNamed, Base
  <1>5. IsBuffer(Whole(cchBuf, name, comp, iPart, bad), cchBuf)
    <2>1. iPart # 0 => Piece("part", iPart, "print") \in Pieces
      BY PieceTypes, WidthsAssumption DEF IsNamed
    <2>2. QED
      BY <1>4, <2>1, WriteBuffer DEF IsNamed, Whole
  <1>6. QED
    BY <1>1, <1>2, <1>3, <1>4, <1>5

(* A name that is made has the text of its base, with the part behind it; its
   base is the name of the first part, and the length of that is reported.  It
   has a mark if and only if one was wanted, and is made without one as well. *)
LEMMA MadeName ==
  ASSUME NEW cchBuf, NEW name, NEW comp, NEW iPart, NEW bad,
         IsNamed(cchBuf, name, comp, iPart, bad)
  PROVE  LET named == DecoderMakeFileName(cchBuf, name, comp, iPart, bad)
             first == DecoderMakeFileName(cchBuf, name, comp, 0, bad)
             clean == DecoderMakeFileName(cchBuf, name, comp, 0, <<0, 0>>)
         IN  /\ named.made \in BOOLEAN /\ named.cchBaseName \in 0 .. cchBuf
             /\ named.text \in Seq(Pieces)
             /\ named.made =>
                  /\ first.made /\ IsPrefix(first.text, named.text)
                  /\ named.cchBaseName = TextLength(first.text)
                  /\ Marked(named.text) <=> bad # <<0, 0>>
                  /\ clean.made
  <1> DEFINE named == DecoderMakeFileName(cchBuf, name, comp, iPart, bad)
             first == DecoderMakeFileName(cchBuf, name, comp, 0, bad)
             clean == DecoderMakeFileName(cchBuf, name, comp, 0, <<0, 0>>)
             stem  == Stem(cchBuf, name)
             mark  == WithMark(cchBuf, name, bad)
             ext   == WithExt(cchBuf, name, bad)
             base  == Base(cchBuf, name, comp, bad)
             whole == Whole(cchBuf, name, comp, iPart, bad)
  <1>1. /\ cchBuf \in Nat /\ IsBuffer(stem, cchBuf) /\ IsBuffer(mark, cchBuf)
        /\ IsBuffer(ext, cchBuf) /\ IsBuffer(base, cchBuf) /\ IsBuffer(whole, cchBuf)
    BY StepsOfName DEF IsNamed
  <1>2. named = [made        |-> whole.ok /\ whole.room > 0,
                text        |-> whole.text,
                cchBaseName |-> IF base.ok THEN cchBuf - base.room ELSE cchBuf]
    BY MadeInSteps, Zenon
  <1>3. first = [made        |-> base.ok /\ base.room > 0,
                 text        |-> base.text,
                 cchBaseName |-> IF base.ok THEN cchBuf - base.room ELSE cchBuf]
    <2>1. Whole(cchBuf, name, comp, 0, bad) = base
      BY Unwritten DEF Whole
    <2>2. QED
      BY <2>1, MadeInSteps, Zenon
  <1> DEFINE hasMark == bad # <<0, 0>>
             isPart == iPart # 0
             isExt == name.ext # ""
             isComp == comp # <<>>
             markPiece == Piece("bad", bad, "print")
             extPiece == Piece("ext", name.ext, How(name))
             compPiece == Piece("comp", comp, "convert")
             partPiece == Piece("part", iPart, "print")
  <1>4. /\ mark = Write(stem, hasMark, markPiece)
        /\ ext = Write(mark, isExt, extPiece)
        /\ base = Write(ext, isComp, compPiece)
        /\ whole = Write(base, isPart, partPiece)
    BY Zenon DEF WithMark, WithExt, Base, Whole
  <1>5. /\ markPiece \in Pieces /\ extPiece \in Pieces
        /\ isComp => compPiece \in Pieces
        /\ isPart => partPiece \in Pieces
        /\ hasMark \in BOOLEAN /\ isPart \in BOOLEAN
        /\ isExt \in BOOLEAN /\ isComp \in BOOLEAN
    BY PieceTypes, WidthsAssumption DEF IsNamed
  <1> HIDE DEF named, first, clean, stem, mark, ext, base, whole
  <1>6. named.made \in BOOLEAN /\ named.text \in Seq(Pieces)
    <2>1. whole.ok \in BOOLEAN /\ whole.room \in Nat /\ whole.text \in Seq(Pieces)
      BY <1>1 DEF IsBuffer
    <2>2. (whole.ok /\ whole.room > 0) \in BOOLEAN
      BY <2>1
    <2>3. QED
      BY <1>2, <2>1, <2>2
  <1>7. /\ base.room \in Nat /\ base.text \in Seq(Pieces) /\ TextLength(base.text) \in Nat
        /\ base.room + TextLength(base.text) = cchBuf
    <2>1. /\ base.room \in Nat /\ base.text \in Seq(Pieces)
          /\ base.room + TextLength(base.text) = cchBuf
      BY <1>1 DEF IsBuffer
    <2>2. TextLength(base.text) \in Nat
      <3>1. PICK f \in [0 .. Len(base.text) -> Nat] :
              TextLength(base.text) = f[Len(base.text)]
        BY <2>1, LengthOfText
      <3>2. QED
        BY <2>1, <3>1
    <2>3. QED
      BY <2>1, <2>2
  <1>8. named.cchBaseName \in 0 .. cchBuf
    BY <1>1, <1>2, <1>7
  <1>9. ASSUME named.made
        PROVE  /\ first.made /\ IsPrefix(first.text, named.text)
               /\ named.cchBaseName = TextLength(first.text)
               /\ Marked(named.text) <=> bad # <<0, 0>>
               /\ clean.made
    <2> HIDE DEF hasMark, isPart, isExt, isComp, markPiece, extPiece, compPiece, partPiece
    <2>1. whole.ok = TRUE /\ whole.room > 0 /\ named.text = whole.text
      <3>1. whole.ok \in BOOLEAN
        BY <1>1 DEF IsBuffer
      <3>2. QED
        BY <1>2, <1>9, <3>1
    <2>2. base.ok = TRUE /\ whole.room <= base.room
      BY <1>1, <1>4, <1>5, <2>1, WriteBuffer
    <2>3. ext.ok = TRUE /\ mark.ok = TRUE /\ stem.ok = TRUE
      <3>1. ext.ok = TRUE
        BY <1>1, <1>4, <1>5, <2>2, WriteBuffer
      <3>2. mark.ok = TRUE
        BY <1>1, <1>4, <1>5, <3>1, WriteBuffer
      <3>3. stem.ok = TRUE
        BY <1>1, <1>4, <1>5, <3>2, WriteBuffer
      <3>4. QED
        BY <3>1, <3>2, <3>3
    <2>4. whole.room \in Nat
      BY <1>1 DEF IsBuffer
    <2>5. first.made
      <3>1. base.room > 0
        BY <1>7, <2>1, <2>2, <2>4
      <3>2. QED
        BY <1>3, <2>2, <3>1
    <2>6. named.cchBaseName = TextLength(first.text)
      BY <1>1, <1>2, <1>3, <1>7, <2>2
    <2>7. \/ whole.text = base.text
          \/ isPart /\ whole.text = Append(base.text, partPiece)
      <3>1. CASE isPart = TRUE
        <4>1. Write(base, TRUE, partPiece).ok = TRUE
          BY <1>4, <2>1, <3>1
        <4>2. Write(base, TRUE, partPiece).text = Append(base.text, partPiece)
          BY <1>1, <4>1, WriteText
        <4>3. QED
          BY <1>4, <3>1, <4>2
      <3>2. CASE isPart = FALSE
        BY <1>4, <3>2, Unwritten
      <3>3. QED
        BY <1>5, <3>1, <3>2
    <2>8. IsPrefix(first.text, named.text)
      <3>1. base.text \in Seq(Pieces) /\ first.text = base.text /\ named.text = whole.text
        BY <1>3, <1>7, <2>1
      <3>2. ASSUME NEW s \in Seq(Pieces), NEW e
            PROVE  IsPrefix(s, s) /\ IsPrefix(s, Append(s, e))
        BY DEF IsPrefix
      <3>3. QED
        BY <2>7, <3>1, <3>2
    <2>9. Marked(named.text) <=> bad # <<0, 0>>
      <3>1. ~Marked(stem.text)
        <4> DEFINE stemPiece == Piece("stem", name.stem, How(name))
        <4>1. stem = Write(Empty(cchBuf), TRUE, stemPiece)
          BY Zenon DEF stem, Stem
        <4>2. stemPiece \in Pieces /\ stemPiece.is = "stem"
          BY PieceTypes DEF IsNamed, Piece
        <4> HIDE DEF stemPiece
        <4>3. Marked(stem.text) <=>
                Marked(Empty(cchBuf).text) \/ (TRUE /\ stemPiece.is = "bad")
          BY <1>1, <2>3, <4>1, <4>2, EmptyBuffer, WriteMarked
        <4>4. ~Marked(Empty(cchBuf).text)
          BY DEF Marked, Empty, ToSet
        <4>5. QED
          BY <4>2, <4>3, <4>4
      <3> USE DEF markPiece, extPiece, compPiece, partPiece
      <3>2. /\ markPiece.is = "bad" /\ extPiece.is # "bad"
            /\ compPiece.is # "bad" /\ partPiece.is # "bad"
        BY DEF Piece
      <3> HIDE DEF markPiece, extPiece, compPiece, partPiece
      <3>3. Marked(mark.text) <=> hasMark
        <4>1. Marked(mark.text) <=> Marked(stem.text) \/ (hasMark /\ markPiece.is = "bad")
          BY <1>1, <1>4, <1>5, <2>3, WriteMarked, ZenonT(60)
        <4>2. QED
          BY <3>1, <3>2, <4>1
      <3>4. Marked(ext.text) <=> Marked(mark.text)
        <4>1. Marked(ext.text) <=> Marked(mark.text) \/ (isExt /\ extPiece.is = "bad")
          BY <1>1, <1>4, <1>5, <2>3, WriteMarked, ZenonT(60)
        <4>2. QED
          BY <3>2, <4>1
      <3>5. Marked(base.text) <=> Marked(ext.text)
        <4>1. Marked(base.text) <=> Marked(ext.text) \/ (isComp /\ compPiece.is = "bad")
          BY <1>1, <1>4, <1>5, <2>2, WriteMarked, ZenonT(60)
        <4>2. QED
          BY <3>2, <4>1
      <3>6. Marked(whole.text) <=> Marked(base.text)
        <4>1. CASE isPart /\ whole.text = Append(base.text, partPiece)
          <5>1. base.text \in Seq(Pieces) /\ partPiece \in Pieces
            BY <1>5, <1>7, <4>1
          <5>2. Marked(Append(base.text, partPiece)) <=>
                  Marked(base.text) \/ partPiece.is = "bad"
            BY <5>1, MarkedMore
          <5>3. QED
            BY <3>2, <4>1, <5>2
        <4>2. QED
          BY <2>7, <4>1
      <3>7. QED
        BY <2>1, <3>3, <3>4, <3>5, <3>6 DEF hasMark
    <2>10. clean.made
      <3> DEFINE mark0 == WithMark(cchBuf, name, <<0, 0>>)
                 ext0  == WithExt(cchBuf, name, <<0, 0>>)
                 base0 == Base(cchBuf, name, comp, <<0, 0>>)
      <3>1. IsNamed(cchBuf, name, comp, 0, <<0, 0>>)
        BY WidthsAssumption DEF IsNamed, AllMarks
      <3>2. /\ IsBuffer(mark0, cchBuf) /\ IsBuffer(ext0, cchBuf)
            /\ IsBuffer(base0, cchBuf)
        BY <3>1, StepsOfName
      <3>3. clean = [made        |-> base0.ok /\ base0.room > 0,
                     text        |-> base0.text,
                     cchBaseName |-> IF base0.ok THEN cchBuf - base0.room ELSE cchBuf]
        <4>1. Whole(cchBuf, name, comp, 0, <<0, 0>>) = base0
          BY Unwritten DEF Whole
        <4>2. QED
          BY <4>1, MadeInSteps, Zenon DEF clean
      <3>4. mark0 = stem
        BY Unwritten DEF WithMark, stem
      <3>5. /\ ext0 = Write(mark0, isExt, extPiece)
            /\ base0 = Write(ext0, isComp, compPiece)
        BY Zenon DEF WithExt, Base, extPiece, compPiece, isExt, isComp
      <3> HIDE DEF mark0, ext0, base0, extPiece, compPiece
      <3>6. mark.room <= mark0.room /\ mark0.ok = TRUE
        BY <1>1, <1>4, <1>5, <2>3, <3>4, WriteBuffer
      <3>7. /\ Length(extPiece) \in Nat
            /\ isComp => Length(compPiece) \in Nat
        BY <1>5, LengthAssumption
      <3>8. ext0.ok = TRUE /\ ext.room <= ext0.room
        BY <1>1, <1>4, <1>5, <2>3, <3>2, <3>5, <3>6, <3>7, WriteMore
      <3>9. base0.ok = TRUE /\ base.room <= base0.room
        BY <1>1, <1>4, <1>5, <2>2, <3>2, <3>5, <3>7, <3>8, WriteMore
      <3>10. base0.room \in Nat
        BY <3>2 DEF IsBuffer
      <3>11. QED
        <4>1. base0.room > 0
          BY <1>7, <2>1, <2>2, <2>4, <3>9, <3>10
        <4>2. QED
          BY <3>3, <3>9, <4>1
    <2>11. QED
      BY <2>5, <2>6, <2>8, <2>9, <2>10
  <1>10. QED
    BY <1>6, <1>8, <1>9 DEF named, first, clean

(* What is written goes behind the text that is there. *)
Extends(s, t) == Len(s) <= Len(t) /\ \A i \in 1 .. Len(s) : t[i] = s[i]

LEMMA WriteExtends ==
  ASSUME NEW cchBuf, NEW b, IsBuffer(b, cchBuf), NEW condition \in BOOLEAN, NEW piece,
         Write(b, condition, piece).ok = TRUE
  PROVE  /\ Extends(b.text, Write(b, condition, piece).text)
         /\ condition = TRUE =>
              /\ Len(Write(b, condition, piece).text) = Len(b.text) + 1
              /\ Write(b, condition, piece).text[Len(b.text) + 1] = piece
         /\ condition = FALSE => Write(b, condition, piece).text = b.text
  <1>1. b.text \in Seq(Pieces)
    BY DEF IsBuffer
  <1>2. CASE condition = FALSE
    <2>1. Write(b, condition, piece).text = b.text
      BY <1>2, Unwritten
    <2>2. Extends(b.text, b.text)
      BY <1>1 DEF Extends
    <2>3. QED
      BY <1>2, <2>1, <2>2
  <1>3. CASE condition = TRUE
    <2> DEFINE more == Append(b.text, piece)
    <2>1. Write(b, condition, piece).text = more
      BY <1>3, WriteText
    <2>2. /\ Len(more) = Len(b.text) + 1 /\ more[Len(b.text) + 1] = piece
          /\ \A i \in 1 .. Len(b.text) : more[i] = b.text[i]
          /\ Len(b.text) \in Nat
      BY <1>1
    <2> HIDE DEF more
    <2>3. QED
      BY <1>3, <2>1, <2>2 DEF Extends
  <1>4. QED
    BY <1>2, <1>3

(* A name begins with its stem.  Behind it stands the mark if there is one; if
   there is none, nothing stands there only if there is nothing else to write. *)
LEMMA TextOfName ==
  ASSUME NEW cchBuf, NEW name, NEW comp, NEW iPart, NEW bad,
         IsNamed(cchBuf, name, comp, iPart, bad),
         DecoderMakeFileName(cchBuf, name, comp, iPart, bad).made
  PROVE  LET text == DecoderMakeFileName(cchBuf, name, comp, iPart, bad).text
         IN  /\ Len(text) >= 1 /\ text[1] = Piece("stem", name.stem, How(name))
             /\ bad # <<0, 0>> => Len(text) >= 2 /\ text[2] = Piece("bad", bad, "print")
             /\ name.ext # "" \/ comp # <<>> => Len(text) >= 2
             /\ bad = <<0, 0>> /\ name.ext = "" /\ comp = <<>> /\ iPart = 0 => Len(text) = 1
  <1> DEFINE stemPiece == Piece("stem", name.stem, How(name))
             markPiece == Piece("bad", bad, "print")
             extPiece == Piece("ext", name.ext, How(name))
             compPiece == Piece("comp", comp, "convert")
             partPiece == Piece("part", iPart, "print")
             hasMark == bad # <<0, 0>>
             isPart == iPart # 0
             isExt == name.ext # ""
             isComp == comp # <<>>
             none  == Empty(cchBuf)
             stem  == Stem(cchBuf, name)
             mark  == WithMark(cchBuf, name, bad)
             ext   == WithExt(cchBuf, name, bad)
             base  == Base(cchBuf, name, comp, bad)
             whole == Whole(cchBuf, name, comp, iPart, bad)
  <1>1. /\ IsBuffer(none, cchBuf) /\ IsBuffer(stem, cchBuf) /\ IsBuffer(mark, cchBuf)
        /\ IsBuffer(ext, cchBuf) /\ IsBuffer(base, cchBuf) /\ IsBuffer(whole, cchBuf)
        /\ cchBuf \in Nat
    BY StepsOfName, EmptyBuffer DEF IsNamed
  <1>2. /\ stem = Write(none, TRUE, stemPiece)
        /\ mark = Write(stem, hasMark, markPiece)
        /\ ext = Write(mark, isExt, extPiece)
        /\ base = Write(ext, isComp, compPiece)
        /\ whole = Write(base, isPart, partPiece)
    BY Zenon DEF Stem, WithMark, WithExt, Base, Whole
  <1>3. /\ hasMark \in BOOLEAN /\ isPart \in BOOLEAN
        /\ isExt \in BOOLEAN /\ isComp \in BOOLEAN
    OBVIOUS
  <1>4. DecoderMakeFileName(cchBuf, name, comp, iPart, bad) =
          [made        |-> whole.ok /\ whole.room > 0,
           text        |-> whole.text,
           cchBaseName |-> IF base.ok THEN cchBuf - base.room ELSE cchBuf]
    BY MadeInSteps, Zenon
  <1>5. /\ markPiece \in Pieces /\ extPiece \in Pieces
        /\ isComp => compPiece \in Pieces
        /\ isPart => partPiece \in Pieces
    BY PieceTypes, WidthsAssumption DEF IsNamed
  <1> HIDE DEF stem, mark, ext, base, whole
  <1>6. /\ whole.ok = TRUE
        /\ DecoderMakeFileName(cchBuf, name, comp, iPart, bad).text = whole.text
    <2>1. whole.ok \in BOOLEAN
      BY <1>1 DEF IsBuffer
    <2>2. QED
      BY <1>4, <2>1
  <1> HIDE DEF hasMark, isPart, isExt, isComp, stemPiece, markPiece, extPiece, compPiece,
               partPiece
  <1>7. base.ok = TRUE
    BY <1>1, <1>2, <1>3, <1>5, <1>6, WriteBuffer
  <1>8. ext.ok = TRUE
    BY <1>1, <1>2, <1>3, <1>5, <1>7, WriteBuffer
  <1>9. mark.ok = TRUE
    BY <1>1, <1>2, <1>3, <1>5, <1>8, WriteBuffer
  <1>10. stem.ok = TRUE
    BY <1>1, <1>2, <1>3, <1>5, <1>9, WriteBuffer
  <1>11. Len(stem.text) = 1 /\ stem.text[1] = stemPiece
    <2>1. none.text = <<>>
      BY DEF Empty
    <2> HIDE DEF none
    <2>2. /\ Len(stem.text) = Len(none.text) + 1
          /\ stem.text[Len(none.text) + 1] = stemPiece
      BY <1>1, <1>2, <1>10, WriteExtends
    <2>3. Len(none.text) = 0
      BY <2>1
    <2>4. QED
      BY <2>2, <2>3
  <1> HIDE DEF none
  <1>12. /\ Extends(stem.text, mark.text)
         /\ hasMark = TRUE => /\ Len(mark.text) = Len(stem.text) + 1
                              /\ mark.text[Len(stem.text) + 1] = markPiece
         /\ hasMark = FALSE => mark.text = stem.text
    <2>1. Write(stem, hasMark, markPiece).ok = TRUE
      BY <1>2, <1>9
    <2>2. /\ Extends(stem.text, Write(stem, hasMark, markPiece).text)
          /\ hasMark = TRUE => /\ Len(Write(stem, hasMark, markPiece).text) = Len(stem.text) + 1
                           /\ Write(stem, hasMark, markPiece).text[Len(stem.text) + 1] = markPiece
          /\ hasMark = FALSE => Write(stem, hasMark, markPiece).text = stem.text
      BY <1>1, <1>3, <2>1, WriteExtends, ZenonT(60)
    <2>3. QED
      BY <1>2, <2>2, ZenonT(60)
  <1>13. /\ Extends(mark.text, ext.text)
         /\ isExt = TRUE => Len(ext.text) = Len(mark.text) + 1
         /\ isExt = FALSE => ext.text = mark.text
    <2>1. Write(mark, isExt, extPiece).ok = TRUE
      BY <1>2, <1>8
    <2>2. /\ Extends(mark.text, Write(mark, isExt, extPiece).text)
          /\ isExt = TRUE => /\ Len(Write(mark, isExt, extPiece).text) = Len(mark.text) + 1
                           /\ Write(mark, isExt, extPiece).text[Len(mark.text) + 1] = extPiece
          /\ isExt = FALSE => Write(mark, isExt, extPiece).text = mark.text
      BY <1>1, <1>3, <2>1, WriteExtends, ZenonT(60)
    <2>3. QED
      BY <1>2, <2>2, ZenonT(60)
  <1>14. /\ Extends(ext.text, base.text)
         /\ isComp = TRUE => Len(base.text) = Len(ext.text) + 1
         /\ isComp = FALSE => base.text = ext.text
    <2>1. Write(ext, isComp, compPiece).ok = TRUE
      BY <1>2, <1>7
    <2>2. /\ Extends(ext.text, Write(ext, isComp, compPiece).text)
          /\ isComp = TRUE => /\ Len(Write(ext, isComp, compPiece).text) = Len(ext.text) + 1
                           /\ Write(ext, isComp, compPiece).text[Len(ext.text) + 1] = compPiece
          /\ isComp = FALSE => Write(ext, isComp, compPiece).text = ext.text
      BY <1>1, <1>3, <2>1, WriteExtends, ZenonT(60)
    <2>3. QED
      BY <1>2, <2>2, ZenonT(60)
  <1>15. /\ Extends(base.text, whole.text)
         /\ isPart = FALSE => whole.text = base.text
    <2>1. Write(base, isPart, partPiece).ok = TRUE
      BY <1>2, <1>6
    <2>2. /\ Extends(base.text, Write(base, isPart, partPiece).text)
          /\ isPart = TRUE => /\ Len(Write(base, isPart, partPiece).text) = Len(base.text) + 1
                           /\ Write(base, isPart, partPiece).text[Len(base.text) + 1] = partPiece
          /\ isPart = FALSE => Write(base, isPart, partPiece).text = base.text
      BY <1>1, <1>3, <2>1, WriteExtends, ZenonT(60)
    <2>3. QED
      BY <1>2, <2>2, ZenonT(60)
  <1>16. /\ Len(stem.text) \in Nat /\ Len(mark.text) \in Nat /\ Len(ext.text) \in Nat
         /\ Len(base.text) \in Nat /\ Len(whole.text) \in Nat
    <2>1. ASSUME NEW b, IsBuffer(b, cchBuf) PROVE Len(b.text) \in Nat
      BY <2>1 DEF IsBuffer
    <2>2. QED
      BY <1>1, <2>1
  <1>17. /\ Len(mark.text) >= 1 /\ mark.text[1] = stemPiece
         /\ hasMark = TRUE => Len(mark.text) >= 2 /\ mark.text[2] = markPiece
    BY <1>11, <1>12 DEF Extends
  <1>18. /\ Len(ext.text) >= 1 /\ ext.text[1] = stemPiece
         /\ hasMark = TRUE => Len(ext.text) >= 2 /\ ext.text[2] = markPiece
         /\ isExt = TRUE => Len(ext.text) >= 2
    BY <1>13, <1>16, <1>17 DEF Extends
  <1>19. /\ Len(base.text) >= 1 /\ base.text[1] = stemPiece
         /\ hasMark = TRUE => Len(base.text) >= 2 /\ base.text[2] = markPiece
         /\ isExt = TRUE \/ isComp = TRUE => Len(base.text) >= 2
    BY <1>14, <1>16, <1>18 DEF Extends
  <1>20. /\ Len(whole.text) >= 1 /\ whole.text[1] = stemPiece
         /\ hasMark = TRUE => Len(whole.text) >= 2 /\ whole.text[2] = markPiece
         /\ isExt = TRUE \/ isComp = TRUE => Len(whole.text) >= 2
    BY <1>15, <1>16, <1>19 DEF Extends
  <1>21. hasMark = FALSE /\ isExt = FALSE /\ isComp = FALSE /\ isPart = FALSE =>
           Len(whole.text) = 1
    BY <1>11, <1>12, <1>13, <1>14, <1>15
  <1>22. QED
    BY <1>6, <1>20, <1>21
       DEF hasMark, isPart, isExt, isComp, stemPiece, markPiece
-----------------------------------------------------------------------------
(* The record after an attribute, and after the numbers of a subject. *)
LEMMA KeptRecord ==
  ASSUME NEW r, IsRecord(r), NEW tag \in Members, NEW value \in Values(tag)
  PROVE  IsRecord([t \in {tag} \cup DOMAIN r |-> IF t = tag THEN value ELSE r[t]])
  <1> DEFINE s == [t \in {tag} \cup DOMAIN r |-> IF t = tag THEN value ELSE r[t]]
  <1>1. DOMAIN s = {tag} \cup DOMAIN r /\ s = [t \in DOMAIN s |-> s[t]]
    OBVIOUS
  <1>2. \A t \in DOMAIN s : s[t] = IF t = tag THEN value ELSE r[t]
    OBVIOUS
  <1> HIDE DEF s
  <1>3. \A t \in DOMAIN s : s[t] \in Values(t)
    BY <1>1, <1>2 DEF IsRecord
  <1>4. IsRecord(s)
    BY <1>1, <1>3 DEF IsRecord
  <1>5. QED
    BY <1>4 DEF s

(* The numbers of a subject are members of the record. *)
LEMMA PartsOfSubject ==
  ASSUME NEW r, IsRecord(r), NEW a \in 0 .. USHRT_MAX, NEW b \in 0 .. USHRT_MAX
  PROVE  IsRecord(WithParts(r, <<a, b>>))
  <1> DEFINE s == WithParts(r, <<a, b>>)
  <1>1. DOMAIN s = {"part", "total"} \cup DOMAIN r /\ s = [t \in DOMAIN s |-> s[t]]
    BY DEF WithParts
  <1>2. \A t \in DOMAIN s : s[t] = CASE t = "part" -> a [] t = "total" -> b [] OTHER -> r[t]
    BY DEF WithParts
  <1> HIDE DEF s
  <1>3. \A t \in DOMAIN s : s[t] \in Values(t)
    <2>1. a \in Values("part") /\ b \in Values("total")
      BY DEF Values, Mask
    <2>2. QED
      BY <1>1, <1>2, <2>1 DEF IsRecord
  <1>4. DOMAIN s \subseteq Members
    BY <1>1 DEF IsRecord, Members
  <1>5. IsRecord(s)
    BY <1>1, <1>3, <1>4 DEF IsRecord
  <1>6. QED
    BY <1>5 DEF s

(* The subject leaves a record, with no member less. *)
LEMMA SubjectRecord ==
  ASSUME NEW s \in Seq(Nat \X Nat), NEW r, IsRecord(r)
  PROVE  IsRecord(DecoderGetSubjectParts(s, r))
  <1> DEFINE n == Len(s)
             I == {k \in 1 .. n : \A i \in {1, 2} : s[k][i] % (UINT_MAX + 1) # 0}
             last == IF I # {} THEN Max(I) ELSE 0
  <1>1. DecoderGetSubjectParts(s, r) =
          IF last = 0
          THEN r
          ELSE WithParts(r, <<Cut("part", s[last][1]), Cut("total", s[last][2])>>)
    BY DEF DecoderGetSubjectParts, SelectLastInSeq
  <1>2. last # 0 => last \in I
    <2>1. n \in Nat /\ I \in SUBSET (1 .. n)
      OBVIOUS
    <2> HIDE DEF n, I
    <2>2. QED
      BY <2>1, LastPlace
  <1> HIDE DEF last
  <1>3. last # 0 => s[last][1] \in Nat /\ s[last][2] \in Nat
    <2>1. last # 0 => last \in 1 .. Len(s)
      BY <1>2
    <2> HIDE DEF I
    <2>2. last # 0 => s[last] \in Nat \X Nat
      BY <2>1
    <2>3. QED
      BY <2>2
  <1>4. last # 0 => /\ Cut("part", s[last][1]) \in 0 .. USHRT_MAX
                    /\ Cut("total", s[last][2]) \in 0 .. USHRT_MAX
    <2>1. Mask("part") = USHRT_MAX /\ Mask("total") = USHRT_MAX
      BY DEF Mask
    <2>2. QED
      BY <1>3, <2>1, CutType
  <1>5. QED
    BY <1>1, <1>4, PartsOfSubject

(* The name of an attachment is made from arguments of the right kind. *)
LEMMA NameArguments ==
  ASSUME NEW r, IsRecord(r),
         NEW size, NEW d \in Decoded(size)
  PROVE  IsNamed(MAX_PATH, NameOf(r), CompOf(r), PartOfName(r),
                 <<BadCrc(r, d), BadSize(r, d)>>)
  <1>1. NameOf(r) \in Names /\ CompOf(r) \in Comps \cup {<<>>}
    BY NamesAssumption DEF IsRecord, Values, NameOf, CompOf
  <1>2. PartOfName(r) \in 0 .. USHRT_MAX
    <2>1. CASE Value(r, "part") > 1
      <3>1. "part" \in DOMAIN r
        BY <2>1 DEF Value
      <3>2. r["part"] \in 0 .. USHRT_MAX
        BY <3>1 DEF IsRecord, Values, Mask
      <3>3. QED
        BY <3>2, WidthsAssumption DEF PartOfName
    <2>2. CASE ~(Value(r, "part") > 1)
      BY <2>2, WidthsAssumption DEF PartOfName
    <2>3. QED
      BY <2>1, <2>2
  <1>3. BadCrc(r, d) \in Checksums \cup {0}
    BY DEF BadCrc, Decoded
  <1>4. BadSize(r, d) \in 0 .. UINT_MAX
    BY PartSizeType, WidthsAssumption DEF BadSize
  <1>5. QED
    BY <1>1, <1>2, <1>3, <1>4, MaxPathAssumption DEF IsNamed, AllMarks

(* What DecoderGetFileName returns. *)
LEMMA FileType ==
  ASSUME NEW r, IsRecord(r),
         NEW size, NEW d \in Decoded(size)
  PROVE  LET f == DecoderGetFileName(MAX_PATH, r, d)
         IN  f.made \in BOOLEAN /\ f.cchBaseName \in 0 .. MAX_PATH
  BY NameArguments, MadeName DEF DecoderGetFileName

LEMMA NothingType ==
  ASSUME block \in Blocks
  PROVE  Nothing \in Decoded(block.size)
  BY BlockType DEF Nothing, Decoded

LEMMA InitIInv == Init => IInv
  <1> SUFFICES ASSUME Init PROVE IInv
    OBVIOUS
  <1>1. block \in Blocks
    BY DEF Init
  <1>2. IsRecord(info)
    BY DEF Init, IsRecord
  <1>3. Types
    BY <1>1, <1>2, BlockType, NothingType, WidthsAssumption
       DEF Init, Types, Header, Attributes, NoLine
  <1>4. Early /\ StreamIsBounded
    BY DEF Init, Early, StreamIsBounded
  <1>5. Named
    BY MaxPathAssumption DEF Init, Named, Unnamed, Unstored, Attached
  <1>6. QED
    BY <1>3, <1>4, <1>5 DEF IInv
-----------------------------------------------------------------------------
(* The steps of DecoderInitialize. *)
LEMMA NumberType ==
  ASSUME NEW tag, tag \notin {"name", "comp", "version"}, NEW at,
         block.tokens[at].tag = tag /\ IsToken(block.tokens[at]),
         tag = "offset" => ValueAt(at) # MV_DEFAULT
  PROVE  ValueAt(at) \in Nat /\ Cut(tag, ValueAt(at)) \in Values(tag)
  <1>1. ValueAt(at) \in Nat
    BY DEF IsToken, ValueAt
  <1>2. Cut(tag, ValueAt(at)) \in 0 .. Mask(tag)
    BY <1>1, CutType
  <1>3. QED
    BY <1>1, <1>2 DEF Values

(* A step that keeps at most one attribute, and what it goes on to. *)
Goes(steps) ==
  /\ pc' \in steps \cup {"text"} /\ pbLine' = pbLine
  /\ \/ info' = info
     \/ \E tag \in Members : \E value \in Values(tag) :
          info' = [t \in {tag} \cup DOMAIN info |-> IF t = tag THEN value ELSE info[t]]

(* The kinds of attributes. *)
LEMMA NumberGoes ==
  ASSUME NEW tag \in Members, NEW at, NEW step,
         tag \notin {"name", "comp", "version", "offset"},
         block.tokens[at].tag = tag /\ IsToken(block.tokens[at]),
         Number(tag, at, step)
  PROVE  Goes({step})
  <1> DEFINE value == Cut(tag, ValueAt(at))
  <1>1. value \in Values(tag)
    BY NumberType
  <1>2. Stop("invalid value") \/ Keep(tag, value, step)
    BY DEF Number
  <1> HIDE DEF value
  <1>3. QED
    BY <1>1, <1>2 DEF Stop, Keep, Goes

LEMMA RequiredGoes ==
  ASSUME NEW tag \in Members, NEW at, NEW step,
         tag \notin {"name", "comp", "version", "offset"},
         at # 0 => block.tokens[at].tag = tag /\ IsToken(block.tokens[at]),
         Required(tag, at, step)
  PROVE  Goes({step})
  <1>1. Stop("missing tag") \/ (at # 0 /\ Number(tag, at, step))
    BY DEF Required
  <1>2. CASE Stop("missing tag")
    BY <1>2 DEF Stop, Goes
  <1>3. QED
    BY <1>1, <1>2, NumberGoes

LEMMA OptionalGoes ==
  ASSUME block \in Blocks, NEW tag \in Members, NEW step,
         tag \notin {"name", "comp", "version", "offset"},
         Optional(tag, step)
  PROVE  Goes({step})
  <1> DEFINE at == FindFrom(tag, 1)
  <1>1. Skip(step) \/ (at # 0 /\ Number(tag, at, step))
    BY DEF Optional
  <1>2. CASE Skip(step)
    BY <1>2 DEF Skip, Goes
  <1>3. at # 0 => block.tokens[at].tag = tag /\ IsToken(block.tokens[at])
    BY FirstLine, Found
  <1> HIDE DEF at
  <1>4. QED
    BY <1>1, <1>2, <1>3, NumberGoes

LEMMA AnyNumberGoes ==
  ASSUME block \in Blocks, NEW tag \in Members, NEW step,
         tag \notin {"name", "comp", "version", "offset"},
         AnyNumber(tag, step)
  PROVE  Goes({step})
  <1> DEFINE at == FindFrom(tag, 1)
             value == Cut(tag, ValueAt(at))
  <1>1. \/ Skip(step)
        \/ at # 0 /\ Keep(tag, value, step)
    BY DEF AnyNumber
  <1>2. at # 0 => value \in Values(tag)
    <2>1. at # 0 => block.tokens[at].tag = tag /\ IsToken(block.tokens[at])
      BY FirstLine, Found
    <2> HIDE DEF at
    <2>2. QED
      BY <2>1, NumberType
  <1> HIDE DEF at, value
  <1>3. QED
    BY <1>1, <1>2 DEF Skip, Keep, Goes

(* Such a step leaves a record, with no member less. *)
LEMMA GoesRecord ==
  ASSUME IsRecord(info), NEW steps, Goes(steps)
  PROVE  IsRecord(info')
  <1>1. CASE info' = info
    BY <1>1
  <1>2. CASE info' # info
    <2>1. PICK tag \in Members : \E value \in Values(tag) :
            info' = [t \in {tag} \cup DOMAIN info |-> IF t = tag THEN value ELSE info[t]]
      BY <1>2 DEF Goes
    <2>2. PICK value \in Values(tag) :
            info' = [t \in {tag} \cup DOMAIN info |-> IF t = tag THEN value ELSE info[t]]
      BY <2>1
    <2>3. QED
      BY <2>2, KeptRecord
  <1>3. QED
    BY <1>1, <1>2

LEMMA GoesFurther ==
  ASSUME NEW steps, Goes(steps)
  PROVE  DOMAIN info \subseteq DOMAIN info'
  BY DEF Goes

(* A step of DecoderInitialize keeps the types, and leaves the rest alone. *)
LEMMA GoesTypes ==
  ASSUME Types, NEW steps \in SUBSET Attributes,
         Goes(steps), UNCHANGED <<input, stream, data>>
  PROVE  Types'
  <1>1. IsRecord(info')
    BY GoesRecord DEF Types
  <1>2. /\ pc' \in Header \cup Body /\ pc' \in Attributes \cup {"text"}
        /\ pc' \notin {"ypart", "begin", "end", "data", "yend"}
    BY DEF Goes, Header, Attributes, Body
  <1>3. UNCHANGED <<block, subject, pbLine, stream, data>>
    BY DEF Goes, input
  <1>4. QED
    BY <1>1, <1>2, <1>3 DEF Types

(* Each step of DecoderInitialize keeps the types. *)
LEMMA HeaderTypes ==
  ASSUME Types, DecoderInitialize
  PROVE  Types' /\ pc \in Header
  <1>1. UNCHANGED <<input, stream, data, file, stored>>
    BY DEF DecoderInitialize
  <1>2. /\ block \in Blocks /\ block' = block /\ subject' = subject /\ stream' = stream
        /\ data' = data
    BY <1>1 DEF Types, input
  <1>3. CASE Version
    <2>1. block.version \in Values("version")
      BY <1>2, BlockType DEF Values
    <2>2. Goes({"line"}) /\ pc \in Header
      BY <1>3, <2>1 DEF Version, Keep, Goes, Members, Header, Attributes
    <2>3. QED
      BY <1>1, <2>2, GoesTypes DEF Header, Attributes
  <1>4. CASE Line
    <2> DEFINE at == FindFrom("line", 1)
               value == Cut("line", ValueAt(at))
    <2>1. at # 0 => value \in Values("line")
      <3>1. at # 0 => block.tokens[at].tag = "line" /\ IsToken(block.tokens[at])
        BY <1>2, FirstLine, Found
      <3> HIDE DEF at
      <3>2. QED
        BY <3>1, NumberType
    <2>2. /\ pc \in Header
          /\ \/ Stop("missing tag") \/ Stop("invalid value")
             \/ /\ at # 0 /\ info' = [t \in {"line"} |-> value]
                /\ pc' = "size" /\ UNCHANGED <<error, pbLine>>
      BY <1>4 DEF Line, Header, Attributes
    <2> HIDE DEF at, value
    <2>3. CASE Stop("missing tag") \/ Stop("invalid value")
      <3>1. Goes({"size"})
        BY <2>3 DEF Stop, Goes
      <3>2. QED
        BY <1>1, <2>2, <3>1, GoesTypes DEF Header, Attributes
    <2>4. CASE ~(Stop("missing tag") \/ Stop("invalid value"))
      <3>1. /\ at # 0 /\ info' = [t \in {"line"} |-> value]
            /\ pc' = "size" /\ pbLine' = pbLine
        BY <2>2, <2>4
      <3>2. IsRecord(info')
        BY <2>1, <3>1 DEF IsRecord, Members
      <3>3. QED
        BY <1>2, <2>2, <3>1, <3>2 DEF Types, Header, Attributes, Body
    <2>5. QED
      BY <2>3, <2>4
  <1>5. CASE Size
    <2> DEFINE at == FindAttributeTag("size", 0, SizeWindow)
    <2>1. at # 0 => block.tokens[at].tag = "size" /\ IsToken(block.tokens[at])
      BY <1>2, FoundWithin
    <2>2. Required("size", at, "part") /\ pc \in Header
      BY <1>5 DEF Size, Header, Attributes
    <2> HIDE DEF at
    <2>3. Goes({"part"})
      BY <2>1, <2>2, RequiredGoes DEF Members
    <2>4. QED
      BY <1>1, <2>2, <2>3, GoesTypes DEF Header, Attributes
  <1>6. CASE Part
    <2>1. Goes({"total"}) /\ pc \in Header
      BY <1>2, <1>6, OptionalGoes DEF Part, Members, Header, Attributes
    <2>2. QED
      BY <1>1, <2>1, GoesTypes DEF Header, Attributes
  <1>7. CASE Total
    <2>1. ASSUME Stop("missing tag") \/ Skip("crc32") PROVE Goes({"crc32"})
      BY <2>1 DEF Stop, Skip, Goes
    <2>2. ASSUME /\ FindFrom("total", 1) # 0
                 /\ Number("total", FindFrom("total", 1), "crc32")
          PROVE  Goes({"crc32"})
      <3> DEFINE at == FindFrom("total", 1)
      <3>1. at # 0 => block.tokens[at].tag = "total" /\ IsToken(block.tokens[at])
        BY <1>2, FirstLine, Found
      <3>2. at # 0 /\ Number("total", at, "crc32")
        BY <2>2
      <3> HIDE DEF at
      <3>3. QED
        BY <3>1, <3>2, NumberGoes DEF Members
    <2>3. Goes({"crc32"}) /\ pc \in Header
      BY <1>7, <2>1, <2>2 DEF Total, Header, Attributes
    <2>4. QED
      BY <1>1, <2>3, GoesTypes DEF Header, Attributes
  <1>8. CASE Crc
    <2>1. Goes({"offset"}) /\ pc \in Header
      BY <1>2, <1>8, AnyNumberGoes DEF Crc, Members, Header, Attributes
    <2>2. QED
      BY <1>1, <2>1, GoesTypes DEF Header, Attributes
  <1>9. CASE Offset
    <2> DEFINE at == FindFrom("offset", 1)
               value == Cut("offset", ValueAt(at))
    <2>1. at # 0 /\ ValueAt(at) # MV_DEFAULT => value \in Values("offset")
      <3>1. at # 0 => block.tokens[at].tag = "offset" /\ IsToken(block.tokens[at])
        BY <1>2, FirstLine, Found
      <3> HIDE DEF at
      <3>2. QED
        BY <3>1, NumberType
    <2>2. MV_OFFSET \in Values("offset")
      BY LimitsAssumption DEF Values, Mask
    <2>3. /\ pc \in Header
          /\ \/ Skip("escape") \/ Keep("offset", MV_OFFSET, "escape")
             \/ at # 0 /\ ValueAt(at) # MV_DEFAULT /\ Keep("offset", value, "escape")
      BY <1>9 DEF Offset, Header, Attributes
    <2> HIDE DEF at, value
    <2>4. Goes({"escape"})
      BY <2>1, <2>2, <2>3 DEF Skip, Keep, Goes, Members
    <2>5. QED
      BY <1>1, <2>3, <2>4, GoesTypes DEF Header, Attributes
  <1>10. CASE Escape
    <2>1. Goes({"escoff"}) /\ pc \in Header
      BY <1>2, <1>10, AnyNumberGoes DEF Escape, Members, Header, Attributes
    <2>2. QED
      BY <1>1, <2>1, GoesTypes DEF Header, Attributes
  <1>11. CASE EscOff
    <2>1. Goes({"comp"}) /\ pc \in Header
      BY <1>2, <1>11, OptionalGoes DEF EscOff, Members, Header, Attributes
    <2>2. QED
      BY <1>1, <2>1, GoesTypes DEF Header, Attributes
  <1>12. CASE Comp
    <2> DEFINE at == FindAttributeTag("comp", 0, MAX_PATH)
    <2>1. at # 0 => ValueAt(at) \in Values("comp")
      <3>1. at # 0 => block.tokens[at].tag = "comp" /\ IsToken(block.tokens[at])
        BY <1>2, FoundWithin
      <3> HIDE DEF at
      <3>2. QED
        BY <3>1 DEF IsToken, Values, ValueAt
    <2>2. pc \in Header /\ (Skip("name") \/ (at # 0 /\ Keep("comp", ValueAt(at), "name")))
      BY <1>12 DEF Comp, Header, Attributes
    <2> HIDE DEF at
    <2>3. Goes({"name"})
      BY <2>1, <2>2 DEF Skip, Keep, Goes, Members
    <2>4. QED
      BY <1>1, <2>2, <2>3, GoesTypes DEF Header, Attributes
  <1>13. CASE Name
    <2> DEFINE at == FindFrom("name", 1)
    <2>1. at # 0 => ValueAt(at) \in Values("name")
      <3>1. at # 0 => block.tokens[at].tag = "name" /\ IsToken(block.tokens[at])
        BY <1>2, FirstLine, Found
      <3> HIDE DEF at
      <3>2. QED
        BY <3>1 DEF IsToken, Values, ValueAt
    <2>2. /\ pc \in Header
          /\ \/ Stop("missing tag")
             \/ at # 0 /\ Keep("name", ValueAt(at), "ypart")
      BY <1>13 DEF Name, Header, Attributes
    <2>3. CASE Stop("missing tag")
      <3>1. Goes({"name"})
        BY <2>3 DEF Stop, Goes
      <3>2. QED
        BY <1>1, <2>2, <3>1, GoesTypes DEF Header, Attributes
    <2>4. CASE at # 0 /\ Keep("name", ValueAt(at), "ypart")
      <3>1. IsRecord(info') /\ "name" \in DOMAIN info'
        BY <2>1, <2>4, KeptRecord DEF Keep, Types, Members
      <3>2. pc' = "ypart" /\ pbLine' = pbLine
        BY <2>4 DEF Keep
      <3>3. FindFrom("name", 1)' # 0
        BY <1>2, <2>4 DEF FindFrom, Start, FindAttributeTag, SelectInSeq
      <3>4. QED
        BY <1>2, <2>2, <3>1, <3>2, <3>3 DEF Types, Header, Attributes
    <2>5. QED
      BY <2>2, <2>3, <2>4
  <1>14. CASE PartLine
    <2> DEFINE at == FindFrom("name", 1)
               line == FindNextLine(block.tokens[at].line)
    <2>1. pc = "ypart" /\ info' = info
      BY <1>14 DEF PartLine, Stop
    <2>2. \/ pc' = "text" /\ pbLine' = pbLine
          \/ /\ pc' \in {"subject", "begin"} /\ pbLine' \in 1 .. Len(block.lines)
      BY <1>14 DEF PartLine, Stop
    <2>3. Len(block.lines) \in Nat
      BY <1>2, BlockType
    <2>4. pbLine' \in 0 .. Len(block.lines) + 1
      BY <2>2, <2>3 DEF Types
    <2>5. QED
      BY <1>2, <2>1, <2>2, <2>4 DEF Types, Header, Attributes, Body
  <1>15. CASE Begin
    <2> DEFINE at == FindFrom("begin", pbLine)
    <2>0. at # 0 => block.tokens[at].tag = "begin" /\ IsToken(block.tokens[at])
      <3>1. pbLine \in 1 .. Len(block.lines)
        BY <1>15 DEF Begin, Types
      <3>2. QED
        BY <1>2, <3>1, Found
    <2>1. Goes({"end"}) /\ pc = "begin"
      <3>1. Required("begin", at, "end") /\ pc = "begin"
        BY <1>15 DEF Begin
      <3> HIDE DEF at
      <3>2. QED
        BY <2>0, <3>1, RequiredGoes DEF Members
    <2>2. IsRecord(info') /\ DOMAIN info \subseteq DOMAIN info'
      BY <2>1, GoesRecord, GoesFurther DEF Types
    <2>3. QED
      BY <1>2, <2>1, <2>2 DEF Types, Goes, Header, Attributes, Body
  <1>16. CASE End
    <2> DEFINE at == FindFrom("end", pbLine)
    <2>0. at # 0 => block.tokens[at].tag = "end" /\ IsToken(block.tokens[at])
      <3>1. pbLine \in 1 .. Len(block.lines)
        BY <1>16 DEF End, Types
      <3>2. QED
        BY <1>2, <3>1, Found
    <2>1. Goes({"data"}) /\ pc = "end"
      <3>1. Required("end", at, "data") /\ pc = "end"
        BY <1>16 DEF End
      <3> HIDE DEF at
      <3>2. QED
        BY <2>0, <3>1, RequiredGoes DEF Members
    <2>2. IsRecord(info') /\ DOMAIN info \subseteq DOMAIN info'
      BY <2>1, GoesRecord, GoesFurther DEF Types
    <2>3. pc' = "data" => at # 0
      BY <1>16 DEF End, Required, Stop
    <2>4. at' = at
      BY <1>2, <2>1 DEF FindFrom, Start, FindAttributeTag, SelectInSeq, Goes
    <2> HIDE DEF at
    <2>5. pc' = "data" => FindFrom("end", pbLine)' # 0
      BY <2>3, <2>4 DEF at
    <2>6. QED
      BY <1>2, <2>1, <2>2, <2>5 DEF Types, Goes, Header, Attributes, Body
  <1>17. CASE Data
    <2> DEFINE at == FindFrom("end", pbLine)
    <2>1. /\ pc = "data" /\ pc' = "subject" /\ info' = info
          /\ pbLine' = FindNextLine(block.tokens[at].line)
      BY <1>17 DEF Data
    <2>2. at # 0
      BY <2>1 DEF Types
    <2>3. block.tokens[at].line \in 1 .. Len(block.lines)
      <3>1. pbLine \in 1 .. Len(block.lines)
        BY <2>1 DEF Types
      <3>2. QED
        BY <1>2, <2>2, <3>1, Found
    <2> HIDE DEF at
    <2>4. pbLine' \in 0 .. Len(block.lines) + 1
      BY <1>2, <2>1, <2>3, NextLineType
    <2>5. QED
      BY <1>2, <2>1, <2>4 DEF Types, Header, Attributes
  <1>18. QED
    BY <1>3, <1>4, <1>5, <1>6, <1>7, <1>8, <1>9, <1>10, <1>11, <1>12, <1>13, <1>14,
       <1>15, <1>16, <1>17 DEF DecoderInitialize

(* DecoderInitialize stays within the header, or ends with the text. *)
LEMMA HeaderGoesOn ==
  ASSUME DecoderInitialize
  PROVE  pc' \in Header \cup {"text"}
  <1> USE DEF Stop, Skip, Keep, Number, Required, Optional, AnyNumber, Header, Attributes
  <1>1. CASE Version \/ Line \/ Size \/ Part
    BY <1>1 DEF Version, Line, Size, Part
  <1>2. CASE Total \/ Crc \/ Offset \/ Escape
    BY <1>2 DEF Total, Crc, Offset, Escape
  <1>3. CASE EscOff \/ Comp \/ Name
    BY <1>3 DEF EscOff, Comp, Name
  <1>4. CASE PartLine
    BY <1>4 DEF PartLine
  <1>5. CASE Begin \/ End \/ Data
    BY <1>5 DEF Begin, End, Data
  <1>6. QED
    BY <1>1, <1>2, <1>3, <1>4, <1>5 DEF DecoderInitialize

(* So DecoderInitialize keeps the invariant. *)
LEMMA HeaderStep ==
  ASSUME IInv, DecoderInitialize
  PROVE  IInv'
  <1>1. Types' /\ pc \in Header /\ pc' \in Header \cup {"text"}
    BY HeaderTypes, HeaderGoesOn DEF IInv
  <1>2. UNCHANGED <<stream, data, file, stored>>
    BY DEF DecoderInitialize
  <1>3. Early'
    BY <1>1, <1>2 DEF IInv, Early, Nothing
  <1>4. StreamIsBounded'
    BY <1>1, <1>2 DEF IInv, Early, StreamIsBounded
  <1>5. Named'
    BY <1>1, <1>2 DEF IInv, Named, Header, Attributes, Attached
  <1>6. QED
    BY <1>1, <1>3, <1>4, <1>5 DEF IInv
-----------------------------------------------------------------------------
(* The steps of _LoadEncodedStream and DecoderProcessBuffer. *)
LEMMA BoundKept ==
  ASSUME StreamIsBounded, UNCHANGED <<block, pbLine, stream>>
  PROVE  StreamIsBounded'
  BY DEF StreamIsBounded, cbData, Start

LEMMA SubjectStep == ASSUME IInv, Subject PROVE IInv'
  <1>1. /\ pc = "subject" /\ pc' = "prepare"
        /\ UNCHANGED <<block, subject, pbLine, stream, data, file, stored>>
        /\ info' = DecoderGetSubjectParts(subject, info)
    BY DEF Subject, input, parsed
  <1>2. IsRecord(info') /\ DOMAIN info \subseteq DOMAIN info'
    <2>1. subject \in Seq(Nat \X Nat) /\ IsRecord(info)
      BY SubjectsAssumption DEF IInv, Types
    <2>2. QED
      BY <1>1, <2>1, SubjectRecord
         DEF DecoderGetSubjectParts, WithParts
  <1>3. Types'
    BY <1>1, <1>2 DEF IInv, Types, Header, Attributes
  <1>4. Early' /\ StreamIsBounded'
    BY <1>1, BoundKept DEF IInv, Early, Nothing, Header, Attributes
  <1>5. Named'
    BY <1>1 DEF IInv, Named, Attached
  <1>6. QED
    BY <1>3, <1>4, <1>5 DEF IInv

LEMMA PrepareStep == ASSUME IInv, Prepare PROVE IInv'
  <1>1. /\ pc = "prepare" /\ pc' \in {"text", "decode"}
        /\ UNCHANGED <<block, subject, info, pbLine, data, stored>>
    BY DEF Prepare, input
  <1> DEFINE size == DecoderGetPartSize(info)
             cb == cbData(pbLine)
  <1>2. size \in 0 .. UINT_MAX /\ cb \in Nat /\ MinStream \in 0 .. UINT_MAX
    BY PartSizeType, DataType, LimitsAssumption DEF IInv, Types
  <1>3. \/ stream' = stream /\ file' = DecoderGetFileName(MAX_PATH, info, Nothing)
        \/ ~Refuses /\ stream' = Max({size, MinStream}) /\ file' = file
    BY DEF Prepare
  <1>4. CASE stream' = stream /\ file' = DecoderGetFileName(MAX_PATH, info, Nothing)
    <2>1. /\ DecoderGetFileName(MAX_PATH, info, Nothing).made \in BOOLEAN
          /\ DecoderGetFileName(MAX_PATH, info, Nothing).cchBaseName \in 0 .. MAX_PATH
      BY FileType, NothingType DEF IInv, Types
    <2>2. file'.made \in BOOLEAN /\ file'.cchBaseName \in 0 .. MAX_PATH
      BY <1>4, <2>1
    <2>3. Types'
      BY <1>1, <1>4 DEF IInv, Types, Body, Header, Attributes
    <2>4. Early' /\ StreamIsBounded'
      BY <1>1, <1>4, BoundKept DEF IInv, Early, Header, Attributes
    <2>5. Named'
      BY <1>1, <2>2 DEF IInv, Named, Attached
    <2>6. QED
      BY <2>3, <2>4, <2>5 DEF IInv
  <1>5. CASE ~Refuses /\ stream' = Max({size, MinStream}) /\ file' = file
    <2>1. stream' \in 0 .. UINT_MAX /\ (stream' = size \/ stream' = MinStream)
      BY <1>2, <1>5, MaxOfTwo
    <2>2. size <= 2 * cb + 1
      <3>1. ~(size \div 2 > cb)
        BY <1>5 DEF Refuses
      <3> HIDE DEF size, cb
      <3>2. QED
        BY <1>2, <3>1
    <2>3. cb' = cb
      BY <1>1 DEF cbData, Start
    <2> HIDE DEF size, cb
    <2>4. stream' <= Max({2 * cb + 1, MinStream})
      <3>1. Max({2 * cb + 1, MinStream}) =
              IF 2 * cb + 1 >= MinStream THEN 2 * cb + 1 ELSE MinStream
        BY <1>2, MaxOfTwo
      <3>2. QED
        BY <1>2, <2>1, <2>2, <3>1
    <2>5. StreamIsBounded'
      BY <2>3, <2>4 DEF StreamIsBounded, cb
    <2>6. Types'
      BY <1>1, <2>1 DEF IInv, Types, Body, Header, Attributes
    <2>7. Early'
      BY <1>1 DEF Early, Header, Attributes
    <2>8. Named'
      BY <1>1, <1>5 DEF IInv, Named, Attached
    <2>9. QED
      BY <2>5, <2>6, <2>7, <2>8 DEF IInv
  <1>6. QED
    BY <1>3, <1>4, <1>5

LEMMA DecodeStep == ASSUME IInv, Decode PROVE IInv'
  <1> DEFINE Result(size, crc, at) ==
               [size |-> size, crc |-> crc, at |-> at, decoded |-> TRUE]
  <1>1. /\ pc = "decode" /\ pc' \in {"exception", "text", "yend"}
        /\ UNCHANGED <<block, subject, info, pbLine, stream, file, stored>>
        /\ \/ data' = data /\ pc' # "yend"
           \/ /\ pbLine \in 1 .. Trail
              /\ \E at \in Start(pbLine) .. Start(Trail), crc \in Checksums :
                   \E size \in 0 .. Min({stream, at - Start(pbLine)}) :
                     data' = Result(size, crc, at)
    BY DEF Decode, input
  <1>2. block \in Blocks /\ Trail \in Nat /\ stream \in Nat
    BY BlockType, WidthsAssumption DEF IInv, Types, Trail
  <1>3. /\ data' \in Decoded(block.size)
        /\ pc' = "yend" => /\ data'.decoded /\ data'.crc \in Checksums
                           /\ pbLine \in 1 .. Trail
                           /\ data'.at \in Start(pbLine) .. Start(Trail)
    <2>1. CASE data' = data /\ pc' # "yend"
      BY <2>1 DEF IInv, Types
    <2>2. CASE ~(data' = data /\ pc' # "yend")
      <3>1. pbLine \in 1 .. Trail
        BY <1>1, <2>2
      <3>2. PICK at \in Start(pbLine) .. Start(Trail), crc \in Checksums :
              \E size \in 0 .. Min({stream, at - Start(pbLine)}) :
                data' = Result(size, crc, at)
        BY <1>1, <2>2
      <3>3. PICK size \in 0 .. Min({stream, at - Start(pbLine)}) : data' = Result(size, crc, at)
        BY <3>2
      <3>4. Start(pbLine) \in 0 .. block.size /\ Start(Trail) \in 0 .. block.size
        <4>1. pbLine \in Nat
          BY <1>2, <3>1
        <4>2. QED
          BY <1>2, <4>1, StartType
      <3>5. at \in 0 .. block.size /\ size \in Nat
        BY <1>2, <3>4, BlockType
      <3>6. Result(size, crc, at) \in Decoded(block.size)
        BY <3>5 DEF Decoded
      <3>7. Result(size, crc, at).decoded /\ Result(size, crc, at).crc = crc
            /\ Result(size, crc, at).at = at
        OBVIOUS
      <3> HIDE DEF Result
      <3>8. QED
        BY <3>1, <3>2, <3>3, <3>6, <3>7
    <2>3. QED
      BY <2>1, <2>2
  <1>4. Types'
    <2>1. /\ \A line : Start(line)' = Start(line)
          /\ Trail = Len(block.lines)
      BY <1>1 DEF Start, Trail
    <2>2. QED
      BY <1>1, <1>3, <2>1 DEF IInv, Types, Body, Header, Attributes
  <1>5. Early' /\ StreamIsBounded'
    BY <1>1, BoundKept DEF IInv, Early, Header, Attributes
  <1>6. Named'
    BY <1>1, <1>3 DEF IInv, Named, Attached
  <1>7. QED
    BY <1>4, <1>5, <1>6 DEF IInv

LEMMA TrailerStep == ASSUME IInv, Trailer PROVE IInv'
  <1> DEFINE At(tag) == FindAttributeTag(tag, data.at, TrailWindow)
             read == {t \in {"crc32", "pcrc32", "part"} : At(t) # 0}
             next == [t \in read \cup DOMAIN info |->
                        IF t \in read THEN Cut(t, ValueAt(At(t))) ELSE info[t]]
  <1>1. /\ pc = "yend" /\ pc' \in {"text", "file"}
        /\ UNCHANGED <<block, subject, pbLine, stream, data, file, stored>>
        /\ \/ info' = info
           \/ info' = next
    BY DEF Trailer, Stop, input, parsed
  <1>2. IsRecord(next)
    <2>1. ASSUME NEW t \in read
          PROVE  Cut(t, ValueAt(At(t))) \in Values(t)
      <3>1. At(t) # 0 /\ t \in {"crc32", "pcrc32", "part"}
        BY <2>1
      <3>2. block.tokens[At(t)].tag = t /\ IsToken(block.tokens[At(t)])
        BY <3>1, FoundWithin DEF IInv, Types
      <3> HIDE DEF At
      <3>3. QED
        BY <3>1, <3>2, NumberType
    <2>2. /\ DOMAIN next = read \cup DOMAIN info
          /\ next = [t \in DOMAIN next |-> next[t]]
          /\ \A t \in DOMAIN next : next[t] = IF t \in read
                                              THEN Cut(t, ValueAt(At(t)))
                                              ELSE info[t]
      BY Zenon
    <2>3. read \subseteq Members
      BY DEF Members
    <2> HIDE DEF next, read
    <2>4. QED
      BY <2>1, <2>2, <2>3 DEF IInv, Types, IsRecord
  <1>3. IsRecord(info') /\ DOMAIN info \subseteq DOMAIN info'
    <2>1. DOMAIN info \subseteq DOMAIN next
      OBVIOUS
    <2> HIDE DEF next
    <2>2. QED
      BY <1>1, <1>2, <2>1 DEF IInv, Types
  <1>4. Types'
    BY <1>1, <1>3 DEF IInv, Types, Body, Header, Attributes
  <1>5. Early' /\ StreamIsBounded'
    BY <1>1, BoundKept DEF IInv, Early, Header, Attributes
  <1>6. Named'
    BY <1>1 DEF IInv, Named, Attached
  <1>7. QED
    BY <1>4, <1>5, <1>6 DEF IInv

LEMMA FileNameStep == ASSUME IInv, FileName PROVE IInv'
  <1>1. /\ pc = "file" /\ pc' = "attach"
        /\ UNCHANGED <<block, subject, info, pbLine, stream, data, stored>>
        /\ file' = DecoderGetFileName(MAX_PATH, info, data)
    BY DEF FileName, input, parsed
  <1>2. Types'
    BY <1>1 DEF IInv, Types, Body, Header, Attributes
  <1>3. Early' /\ StreamIsBounded'
    BY <1>1, BoundKept DEF IInv, Early, Header, Attributes
  <1>4. file'.made \in BOOLEAN /\ file'.cchBaseName \in 0 .. MAX_PATH
    BY <1>1, FileType DEF IInv, Types
  <1>5. file' = DecoderGetFileName(MAX_PATH, info', data')
    BY <1>1
  <1>6. Named'
    BY <1>1, <1>4, <1>5 DEF IInv, Named, Attached
  <1>7. QED
    BY <1>2, <1>3, <1>6 DEF IInv

LEMMA AttachStep == ASSUME IInv, Attach PROVE IInv'
  <1> DEFINE made == DecoderSerializeEncodeInfo(info, StoredFlags)
  <1>1. /\ pc = "attach" /\ pc' \in {"done", "fallback"}
        /\ UNCHANGED <<block, subject, info, pbLine, stream, data, file>>
        /\ stored' = IF file.made THEN made ELSE Unstored
        /\ pc' = IF file.made => stored'.made THEN "done" ELSE "fallback"
    BY DEF Attach, input, parsed
  <1>2. Types'
    BY <1>1 DEF IInv, Types, Body, Header, Attributes
  <1>3. Early' /\ StreamIsBounded'
    BY <1>1, BoundKept DEF IInv, Early, Header, Attributes
  <1>4. made.made \in BOOLEAN
    BY DEF DecoderSerializeEncodeInfo
  <1>5. stored'.made \in BOOLEAN
    <2> HIDE DEF made
    <2> QED
      BY <1>1, <1>4 DEF Unstored
  <1>6. file.made => stored' = DecoderSerializeEncodeInfo(info', StoredFlags)
    BY <1>1
  <1>7. pc' = "done" <=> (file'.made => stored'.made)
    <2>1. file.made \in BOOLEAN
      BY DEF IInv, Named
    <2> HIDE DEF made
    <2>2. QED
      BY <1>1, <1>5, <2>1
  <1>8. file' = DecoderGetFileName(MAX_PATH, info', data')
    BY <1>1 DEF IInv, Named, Attached
  <1>9. Named'
    <2> HIDE DEF made
    <2> QED
      BY <1>1, <1>5, <1>6, <1>7, <1>8 DEF IInv, Named, Attached
  <1>10. QED
    BY <1>2, <1>3, <1>9 DEF IInv

(* The invariant holds. *)
LEMMA IInvInvariant == Spec => []IInv
  <1>1. ASSUME IInv, UNCHANGED vars PROVE IInv'
    <2>1. UNCHANGED <<block, subject, pc, info, pbLine, stream, data, file, stored>>
      BY <1>1 DEF vars
    <2>2. Types'
      BY <1>1, <2>1 DEF IInv, Types, FindFrom, Start, FindAttributeTag, SelectInSeq
    <2>3. Early' /\ StreamIsBounded'
      BY <1>1, <2>1, BoundKept DEF IInv, Early, Nothing
    <2>4. Named'
      BY <1>1, <2>1 DEF IInv, Named
    <2>5. QED
      BY <2>2, <2>3, <2>4 DEF IInv
  <1>2. IInv /\ [Next]_vars => IInv'
    BY <1>1, HeaderStep, SubjectStep, PrepareStep, DecodeStep, TrailerStep, FileNameStep,
       AttachStep DEF Next
  <1>3. QED
    BY <1>2, InitIInv, PTL DEF Spec

(* The record of the attributes, the line that is read, the stream and the
   results keep their types. *)
THEOREM TypeCorrect == Spec => []TypeOK
  <1>1. IInv => TypeOK
    <2> SUFFICES ASSUME IInv PROVE TypeOK
      OBVIOUS
    <2>1. Members \subseteq ToSet(Order) \cup {"version"}
      <3>1. \A k \in 1 .. 13 : Order[k] \in ToSet(Order)
        BY DEF Order, ToSet
      <3>2. /\ Order[1] = "line" /\ Order[2] = "size" /\ Order[3] = "comp"
            /\ Order[4] = "offset" /\ Order[5] = "escape" /\ Order[6] = "escoff"
            /\ Order[7] = "begin" /\ Order[8] = "end" /\ Order[9] = "part"
            /\ Order[10] = "total" /\ Order[11] = "crc32" /\ Order[12] = "pcrc32"
            /\ Order[13] = "name"
        BY DEF Order
      <3>3. QED
        BY <3>1, <3>2 DEF Members
    <2>2. DOMAIN info \subseteq ToSet(Order) \cup {"version"}
      BY <2>1 DEF IInv, Types, IsRecord
    <2>3. \A tag \in DOMAIN info \ {"name", "comp", "version"} :
            info[tag] \in 0 .. Mask(tag)
      BY DEF IInv, Types, IsRecord, Values
    <2>4. QED
      BY <2>2, <2>3 DEF IInv, Types, Named, Decoded, TypeOK
  <1>2. QED
    BY <1>1, IInvInvariant, PTL

(* The program asks for no more memory than the encoded data can fill. *)
THEOREM MemoryIsBounded == Spec => []StreamIsBounded
  <1>1. IInv => StreamIsBounded
    BY DEF IInv
  <1>2. QED
    BY <1>1, IInvInvariant, PTL

(* A text that begins another has the same pieces. *)
LEMMA PrefixPieces ==
  ASSUME NEW s \in Seq(Pieces), NEW t \in Seq(Pieces)
  PROVE  IsPrefix(s, t) => Extends(s, t)
  <1> SUFFICES ASSUME IsPrefix(s, t) PROVE Extends(s, t)
    OBVIOUS
  <1>1. Len(s) \in Nat /\ Len(t) \in Nat /\ Len(s) <= Len(t)
    BY DEF IsPrefix
  <1>2. SubSeq(s, 1, Len(s)) = SubSeq(t, 1, Len(s))
    BY DEF IsPrefix
  <1>3. \A i \in 1 .. Len(s) : SubSeq(s, 1, Len(s))[i] = s[i] /\ SubSeq(t, 1, Len(s))[i] = t[i]
    BY <1>1
  <1>4. QED
    BY <1>1, <1>2, <1>3 DEF Extends

(* The stem alone begins every name that has it. *)
LEMMA StemIsPrefix ==
  ASSUME NEW s \in Seq(Pieces), NEW t \in Seq(Pieces), Len(s) = 1, Len(t) >= 1, s[1] = t[1]
  PROVE  IsPrefix(s, t)
  BY DEF IsPrefix

(* Neither a mark nor anything else stands behind the stem. *)
OnlyStem(mark, name, comp) == mark = <<0, 0>> /\ name.ext = "" /\ comp = <<>>

(* The name of a first part begins that of another part of the same name if and
   only if both have the same marks, or the first has none and nothing else
   behind its stem. *)
LEMMA JoinedNames ==
  ASSUME NEW cchBuf, NEW name, NEW comp, NEW iPart, NEW bad, NEW mark,
         IsNamed(cchBuf, name, comp, iPart, bad), IsNamed(cchBuf, name, comp, 0, mark),
         DecoderMakeFileName(cchBuf, name, comp, iPart, bad).made,
         DecoderMakeFileName(cchBuf, name, comp, 0, mark).made
  PROVE  IsPrefix(DecoderMakeFileName(cchBuf, name, comp, 0, mark).text,
                  DecoderMakeFileName(cchBuf, name, comp, iPart, bad).text) <=>
           mark = bad \/ OnlyStem(mark, name, comp)
  <1> DEFINE text  == DecoderMakeFileName(cchBuf, name, comp, iPart, bad).text
             first == DecoderMakeFileName(cchBuf, name, comp, 0, mark).text
             clean == <<0, 0>>
             short == name.ext = "" /\ comp = <<>>
  <1>1. /\ text \in Seq(Pieces) /\ (Marked(text) <=> bad # clean)
        /\ mark = bad => IsPrefix(first, text)
    BY MadeName
  <1>2. first \in Seq(Pieces) /\ (Marked(first) <=> mark # clean)
    BY MadeName
  <1>3. /\ Len(text) >= 1 /\ text[1] = Piece("stem", name.stem, How(name))
        /\ bad # clean => Len(text) >= 2 /\ text[2] = Piece("bad", bad, "print")
    BY TextOfName
  <1>4. /\ Len(first) >= 1 /\ first[1] = Piece("stem", name.stem, How(name))
        /\ mark # clean => Len(first) >= 2 /\ first[2] = Piece("bad", mark, "print")
        /\ ~short => Len(first) >= 2
        /\ mark = clean /\ short => Len(first) = 1
    BY TextOfName
  <1> HIDE DEF text, first
  <1>5. ASSUME NEW t \in Seq(Pieces), ~Marked(t), Len(t) >= 2 PROVE t[2].is # "bad"
    <2>1. 2 \in DOMAIN t
      BY <1>5
    <2>2. t[2] \in ToSet(t)
      BY <2>1 DEF ToSet
    <2>3. QED
      BY <1>5, <2>2 DEF Marked
  <1>6. CASE mark = bad
    BY <1>1, <1>6 DEF text, first
  <1>7. CASE mark # bad /\ mark = clean /\ short
    <2>1. IsPrefix(first, text)
      BY <1>1, <1>2, <1>3, <1>4, <1>7, StemIsPrefix
    <2>2. QED
      BY <1>7, <2>1 DEF text, first, OnlyStem
  <1>8. CASE mark # bad /\ ~(mark = clean /\ short)
    <2> SUFFICES ASSUME IsPrefix(first, text) PROVE FALSE
      BY <1>8 DEF text, first, OnlyStem
    <2>1. Len(first) >= 2
      BY <1>4, <1>8
    <2>2. Len(text) >= 2 /\ text[2] = first[2]
      <3>1. Extends(first, text)
        BY <1>1, <1>2, PrefixPieces
      <3>2. Len(first) \in Nat /\ Len(text) \in Nat
        BY <1>1, <1>2
      <3>3. QED
        BY <2>1, <3>1, <3>2 DEF Extends
    <2>3. ASSUME NEW b PROVE /\ Piece("bad", b, "print").is = "bad"
                             /\ Piece("bad", b, "print").text = b
      BY DEF Piece
    <2> HIDE DEF clean
    <2>4. bad # clean => text[2].is = "bad" /\ text[2].text = bad
      BY <1>3, <2>3, ZenonT(60)
    <2>5. mark # clean => first[2].is = "bad" /\ first[2].text = mark
      BY <1>4, <2>3, ZenonT(60)
    <2>6. (bad = clean => text[2].is # "bad") /\ (mark = clean => first[2].is # "bad")
      BY <1>1, <1>2, <1>5, <2>1, <2>2
    <2>7. QED
      BY <1>8, <2>2, <2>4, <2>5, <2>6
  <1>9. QED
    BY <1>6, <1>7, <1>8

(* A part is joined to a first part with the same marks of damage, with the length
   that is reported for its name, and to no other one unless that has no mark and
   nothing but a stem. *)
THEOREM PartsHaveOneName == Spec => []PartsAreJoined
  <1>1. IInv => PartsAreJoined
    <2> DEFINE name == NameOf(info)
               comp == CompOf(info)
               iPart == PartOfName(info)
               bad == Marks
    <2> SUFFICES ASSUME IInv, file.made, pc = "attach"
                 PROVE  /\ NameOfFirst(bad).made
                        /\ file.cchBaseName = TextLength(NameOfFirst(bad).text)
                        /\ \A crc \in Checksums \cup {0}, size \in 0 .. UINT_MAX :
                             NameOfFirst(<<crc, size>>).made =>
                               (IsPrefix(NameOfFirst(<<crc, size>>).text, file.text) <=>
                                  \/ <<crc, size>> = bad
                                  \/ OnlyStem(<<crc, size>>, name, comp))
      BY DEF PartsAreJoined, OnlyStem
    <2>1. file = DecoderMakeFileName(MAX_PATH, name, comp, iPart, bad)
      BY DEF IInv, Named, Attached, DecoderGetFileName, Marks
    <2>2. IsNamed(MAX_PATH, name, comp, iPart, bad)
      BY NameArguments DEF IInv, Types, Marks
    <2>3. NameOfFirst(bad) = DecoderMakeFileName(MAX_PATH, name, comp, 0, bad)
      BY DEF NameOfFirst
    <2> HIDE DEF name, comp, iPart, bad
    <2>4. NameOfFirst(bad).made /\ file.cchBaseName = TextLength(NameOfFirst(bad).text)
      BY <2>1, <2>2, <2>3, MadeName
    <2>5. ASSUME NEW crc \in Checksums \cup {0}, NEW size \in 0 .. UINT_MAX,
                 NameOfFirst(<<crc, size>>).made
          PROVE  IsPrefix(NameOfFirst(<<crc, size>>).text, file.text) <=>
                   <<crc, size>> = bad \/ OnlyStem(<<crc, size>>, name, comp)
      <3> DEFINE mark == <<crc, size>>
      <3>1. NameOfFirst(mark) = DecoderMakeFileName(MAX_PATH, name, comp, 0, mark)
        BY DEF NameOfFirst, name, comp
      <3>2. IsNamed(MAX_PATH, name, comp, 0, mark)
        BY <2>2, WidthsAssumption DEF IsNamed, AllMarks
      <3> HIDE DEF mark
      <3>3. NameOfFirst(mark).made
        BY <2>5 DEF mark
      <3>4. IsPrefix(NameOfFirst(mark).text, file.text) <=>
              mark = bad \/ OnlyStem(mark, name, comp)
        <4>1. /\ DecoderMakeFileName(MAX_PATH, name, comp, iPart, bad).made
              /\ DecoderMakeFileName(MAX_PATH, name, comp, 0, mark).made
          BY <2>1, <3>1, <3>3, Zenon
        <4>2. IsPrefix(DecoderMakeFileName(MAX_PATH, name, comp, 0, mark).text,
                       DecoderMakeFileName(MAX_PATH, name, comp, iPart, bad).text) <=>
                mark = bad \/ OnlyStem(mark, name, comp)
          BY <2>2, <3>2, <4>1, JoinedNames
        <4>3. QED
          BY <2>1, <3>1, <4>2, Zenon
      <3>5. QED
        BY <3>4 DEF mark
    <2>6. QED
      BY <2>4, <2>5
  <1>2. QED
    BY <1>1, IInvInvariant, PTL
-----------------------------------------------------------------------------
(* The text that is stored has a field for every attribute that is written,
   and no other. *)
Stored(r, tag) ==
  IF tag = "name"
  THEN DecoderMakeFileName(MAX_PATH, NameOf(r), CompOf(r), 0, <<0, 0>>).text
  ELSE r[tag]
Fields(r, tags) == {Field(tag, Stored(r, tag)) : tag \in tags}

ListsFields(f, r, flags) ==
  /\ f \in [0 .. Len(Order) -> Seq(Fields(r, flags \cap DOMAIN r))]
  /\ DecoderSerializeEncodeInfo(r, flags).fields = f[Len(Order)]
  /\ f[0] = <<>>
  /\ \A k \in 1 .. Len(Order) :
       f[k] = IF Order[k] \in flags \cap DOMAIN r
              THEN Append(f[k - 1], Field(Order[k], Stored(r, Order[k])))
              ELSE f[k - 1]

(* The fields are listed step by step. *)
LEMMA FieldsInSteps ==
  ASSUME NEW r, NEW flags
  PROVE  \E f : ListsFields(f, r, flags)
  <1> DEFINE n == Len(Order)
             W == flags \cap DOMAIN r
             T == Seq(Fields(r, W))
             Longer(k, before) == IF Order[k] \in W
                                  THEN Append(before, Field(Order[k], Stored(r, Order[k])))
                                  ELSE before
             step == [x \in (1 .. n) \X T |-> Longer(x[1], x[2])]
             Is(h) == h = [k \in 0 .. Len(Order) |->
                             IF k = 0
                             THEN <<>>
                             ELSE IF Order[k] \in flags \cap DOMAIN r
                                  THEN Append(h[k - 1], Field(Order[k], Stored(r, Order[k])))
                                  ELSE h[k - 1]]
             f == CHOOSE h : Is(h)
  <1>1. n \in Nat
    BY DEF Order
  <1>2. \A k \in 1 .. n : \A before \in T : Longer(k, before) \in T
    BY DEF Fields
  <1>3. step \in Steps(n, T)
    <2> HIDE DEF Longer, T, n
    <2> QED
      BY <1>2 DEF Steps
  <1>4. PICK g \in [0 .. n -> T] : Follows(g, n, <<>>, step)
    <2>1. <<>> \in T
      OBVIOUS
    <2> HIDE DEF step, n, T
    <2>2. QED
      BY <1>1, <1>3, <2>1, Recursion
  <1>5. \A k \in 0 .. n : g[k] = IF k = 0 THEN <<>> ELSE Longer(k, g[k - 1])
    <2>1. ASSUME NEW k \in 1 .. n PROVE g[k] = Longer(k, g[k - 1])
      <3> HIDE DEF n, Longer, T
      <3>1. k - 1 \in 0 .. n
        BY <1>1
      <3>2. g[k - 1] \in T /\ step[<<k, g[k - 1]>>] = Longer(k, g[k - 1])
        BY <1>4, <3>1
      <3> HIDE DEF step
      <3>3. g[k] = step[<<k, g[k - 1]>>]
        BY <1>4 DEF Follows
      <3>4. QED
        BY <3>2, <3>3
    <2> HIDE DEF n, Longer, T, step
    <2>2. g[0] = <<>> /\ \A k \in 0 .. n : k # 0 => k \in 1 .. n
      BY <1>1, <1>4 DEF Follows
    <2>3. QED
      BY <2>1, <2>2
  <1>6. Is(g)
    <2>1. g = [k \in 0 .. n |-> g[k]]
      BY <1>4, Zenon
    <2>2. QED
      BY <1>5, <2>1, Zenon
  <1>7. Is(f)
    <2> HIDE DEF Is
    <2> QED
      BY <1>6
  <1>8. DecoderSerializeEncodeInfo(r, flags).fields = f[Len(Order)]
    <2> DEFINE name == DecoderMakeFileName(MAX_PATH, NameOf(r), CompOf(r), 0, <<0, 0>>)
    <2>1. DecoderSerializeEncodeInfo(r, flags) =
            [made   |-> "name" \in flags \cap DOMAIN r => name.made,
             fields |-> f[Len(Order)]]
      BY Zenon DEF DecoderSerializeEncodeInfo, Stored
    <2> HIDE DEF f
    <2>2. QED
      BY <2>1
  <1> HIDE DEF f
  <1>9. \A k \in 0 .. n : f[k] = IF k = 0 THEN <<>> ELSE Longer(k, f[k - 1])
    BY <1>7, Zenon
  <1>10. f[0] = <<>> /\ \A k \in 1 .. n : f[k] = Longer(k, f[k - 1])
    <2>1. 0 \in 0 .. n /\ \A k \in 1 .. n : k \in 0 .. n /\ k # 0
      BY <1>1
    <2> HIDE DEF Longer, n
    <2>2. QED
      BY <1>9, <2>1
  <1>11. 0 .. n \subseteq {k \in 0 .. n : f[k] \in T}
    <2> DEFINE S == {k \in 0 .. n : f[k] \in T}
    <2>1. 0 \in S
      <3>1. <<>> \in T
        OBVIOUS
      <3> HIDE DEF T, Longer
      <3>2. QED
        BY <1>1, <1>10, <3>1
    <2>2. \A k \in 1 .. n : k - 1 \in S => k \in S
      <3> HIDE DEF Longer, T, n
      <3> QED
        BY <1>1, <1>2, <1>10
    <2> HIDE DEF S, n
    <2>3. QED
      BY <1>1, <2>1, <2>2, Upwards DEF S
  <1>12. f \in [0 .. n -> T]
    <2>1. f = [k \in 0 .. n |-> f[k]]
      BY <1>7, Zenon
    <2> HIDE DEF T
    <2>2. QED
      BY <1>11, <2>1
  <1>13. QED
    BY <1>8, <1>10, <1>12, Zenon DEF ListsFields

(* The list has a field for each flag that is valid, and no other. *)
LEMMA SerializedFields ==
  ASSUME NEW r, NEW flags \in SUBSET ToSet(Order)
  PROVE  LET tags   == flags \cap DOMAIN r
             fields == DecoderSerializeEncodeInfo(r, flags).fields
         IN  /\ fields \in Seq(Fields(r, tags))
             /\ \A tag \in tags : \E i \in 1 .. Len(fields) :
                  fields[i] = Field(tag, Stored(r, tag))
  <1> DEFINE n == Len(Order)
             W == flags \cap DOMAIN r
             E == Fields(r, W)
  <1>1. PICK f \in [0 .. n -> Seq(E)] :
          /\ DecoderSerializeEncodeInfo(r, flags).fields = f[n]
          /\ \A k \in 1 .. n :
               f[k] = IF Order[k] \in W
                      THEN Append(f[k - 1], Field(Order[k], Stored(r, Order[k])))
                      ELSE f[k - 1]
    <2>1. PICK f : ListsFields(f, r, flags)
      BY FieldsInSteps
    <2>2. QED
      BY <2>1, Zenon DEF ListsFields
  <1> DEFINE Has(k, j) == \E i \in 1 .. Len(f[k]) :
                            f[k][i] = Field(Order[j], Stored(r, Order[j]))
             S == {k \in 0 .. n : \A j \in 1 .. k : Order[j] \in W => Has(k, j)}
  <1>2. n \in Nat /\ DOMAIN Order = 1 .. n
    BY DEF Order
  <1> HIDE DEF n, W, E
  <1>3. 0 \in S
    BY <1>2
  <1>4. ASSUME NEW k \in 1 .. n, k - 1 \in S PROVE k \in S
    <2>1. k \in 0 .. n /\ k - 1 \in 0 .. n /\ f[k - 1] \in Seq(E) /\ f[k] \in Seq(E)
      BY <1>1, <1>2
    <2>2. \A j \in 1 .. k : j # k => j \in 1 .. k - 1
      BY <2>1
    <2>3. CASE Order[k] \notin W
      <3>1. f[k] = f[k - 1]
        BY <1>1, <2>3
      <3>2. \A j \in 1 .. k : Order[j] \in W => j # k /\ Has(k - 1, j)
        BY <1>4, <2>2, <2>3
      <3>3. QED
        BY <2>1, <3>1, <3>2
    <2>4. CASE Order[k] \in W
      <3> DEFINE e == Field(Order[k], Stored(r, Order[k]))
      <3>1. f[k] = Append(f[k - 1], e)
        BY <1>1, <2>4
      <3>2. /\ Len(f[k]) = Len(f[k - 1]) + 1 /\ Len(f[k - 1]) \in Nat
            /\ f[k][Len(f[k - 1]) + 1] = e
            /\ \A i \in 1 .. Len(f[k - 1]) : f[k][i] = f[k - 1][i]
        BY <2>1, <3>1
      <3> HIDE DEF e
      <3>3. Has(k, k)
        <4>1. Len(f[k - 1]) + 1 \in 1 .. Len(f[k])
          BY <3>2
        <4>2. QED
          BY <3>2, <4>1 DEF e
      <3>4. ASSUME NEW j \in 1 .. k - 1, Order[j] \in W PROVE Has(k, j)
        <4>1. PICK i \in 1 .. Len(f[k - 1]) :
                f[k - 1][i] = Field(Order[j], Stored(r, Order[j]))
          BY <1>4, <3>4
        <4>2. i \in 1 .. Len(f[k])
          BY <3>2
        <4>3. QED
          BY <3>2, <4>1, <4>2
      <3> HIDE DEF Has
      <3>5. QED
        BY <2>1, <2>2, <3>3, <3>4
    <2>5. QED
      BY <2>3, <2>4
  <1>5. n \in S
    <2> HIDE DEF S
    <2>1. 0 .. n \subseteq S
      BY <1>2, <1>3, <1>4, Upwards
    <2>2. QED
      BY <1>2, <2>1
  <1>6. \A tag \in W : \E j \in 1 .. n : Order[j] = tag
    BY <1>2 DEF W, ToSet
  <1>7. ASSUME NEW tag \in W
        PROVE  \E i \in 1 .. Len(f[n]) : f[n][i] = Field(tag, Stored(r, tag))
    <2>1. PICK j \in 1 .. n : Order[j] = tag
      BY <1>6
    <2>2. Has(n, j)
      <3> HIDE DEF Has
      <3> QED
        BY <1>5, <1>7, <2>1
    <2>3. QED
      BY <2>1, <2>2
  <1>8. f[n] \in Seq(E)
    BY <1>1, <1>2
  <1>9. QED
    BY <1>1, <1>7, <1>8 DEF W, E

(* The name has the last field. *)
LEMMA NameComesLast ==
  ASSUME NEW r, NEW flags
  PROVE  LET fields == DecoderSerializeEncodeInfo(r, flags).fields
         IN  \A i \in 1 .. Len(fields) : fields[i].tag = "name" => i = Len(fields)
  <1> DEFINE n == Len(Order)
             W == flags \cap DOMAIN r
             E == Fields(r, W)
             HasNone(s) == \A i \in 1 .. Len(s) : s[i].tag # "name"
  <1>1. PICK f \in [0 .. n -> Seq(E)] :
          /\ DecoderSerializeEncodeInfo(r, flags).fields = f[n]
          /\ f[0] = <<>>
          /\ \A k \in 1 .. n :
               f[k] = IF Order[k] \in W
                      THEN Append(f[k - 1], Field(Order[k], Stored(r, Order[k])))
                      ELSE f[k - 1]
    <2>1. PICK f : ListsFields(f, r, flags)
      BY FieldsInSteps
    <2>2. QED
      BY <2>1, Zenon DEF ListsFields
  <1> DEFINE S == {k \in 0 .. n : k < n => HasNone(f[k])}
  <1>2. n \in Nat /\ n > 0
    BY DEF Order
  <1>3. \A k \in 1 .. n : k < n => Order[k] # "name"
    <2>1. n = 13
      BY DEF Order
    <2>2. \A k \in 1 .. 12 : Order[k] # "name"
      <3>1. /\ Order[1] # "name" /\ Order[2] # "name" /\ Order[3] # "name"
            /\ Order[4] # "name" /\ Order[5] # "name" /\ Order[6] # "name"
            /\ Order[7] # "name" /\ Order[8] # "name" /\ Order[9] # "name"
            /\ Order[10] # "name" /\ Order[11] # "name" /\ Order[12] # "name"
        BY DEF Order
      <3>2. \A k \in 1 .. 12 : k \in {1, 2, 3, 4, 5, 6, 7, 8, 9, 10, 11, 12}
        OBVIOUS
      <3>3. QED
        BY <3>1, <3>2
    <2> HIDE DEF n
    <2>3. \A k \in 1 .. n : k < n => k \in 1 .. 12
      BY <2>1
    <2>4. QED
      BY <2>2, <2>3
  <1> HIDE DEF n, W, E
  <1>4. 0 \in S
    BY <1>1, <1>2
  <1>5. ASSUME NEW k \in 1 .. n, HasNone(f[k - 1])
        PROVE  /\ k < n => HasNone(f[k])
               /\ \A i \in 1 .. Len(f[k]) : f[k][i].tag = "name" => i = Len(f[k])
    <2>1. f[k - 1] \in Seq(E) /\ f[k] \in Seq(E)
      <3>1. k \in 0 .. n /\ k - 1 \in 0 .. n
        BY <1>2
      <3>2. QED
        BY <1>1, <3>1
    <2>2. CASE Order[k] \notin W
      <3>1. f[k] = f[k - 1]
        BY <1>1, <2>2
      <3>2. QED
        BY <1>5, <3>1
    <2>3. CASE Order[k] \in W
      <3> DEFINE e == Field(Order[k], Stored(r, Order[k]))
      <3>1. f[k] = Append(f[k - 1], e)
        BY <1>1, <2>3
      <3>2. e.tag = Order[k]
        BY DEF Field
      <3> HIDE DEF e
      <3>3. /\ Len(f[k]) = Len(f[k - 1]) + 1 /\ Len(f[k - 1]) \in Nat
            /\ f[k][Len(f[k - 1]) + 1] = e
            /\ \A i \in 1 .. Len(f[k - 1]) : f[k][i] = f[k - 1][i]
        BY <2>1, <3>1
      <3>4. \A i \in 1 .. Len(f[k]) : i = Len(f[k]) \/ f[k][i].tag # "name"
        BY <1>5, <3>3
      <3>5. k < n => f[k][Len(f[k])].tag # "name"
        <4>1. f[k][Len(f[k])] = e
          BY <3>3
        <4>2. k < n => Order[k] # "name"
          BY <1>3
        <4>3. QED
          BY <3>2, <4>1, <4>2
      <3>6. QED
        BY <3>4, <3>5
    <2>4. QED
      BY <2>2, <2>3
  <1>6. ASSUME NEW k \in 1 .. n, k - 1 \in S PROVE k \in S
    <2>1. k \in 0 .. n /\ k - 1 < n
      BY <1>2
    <2> HIDE DEF HasNone
    <2>2. HasNone(f[k - 1])
      BY <1>6, <2>1
    <2>3. QED
      BY <1>5, <2>1, <2>2
  <1>7. n - 1 \in S
    <2> HIDE DEF S
    <2>1. 0 .. n \subseteq S
      BY <1>2, <1>4, <1>6, Upwards
    <2>2. QED
      BY <1>2, <2>1
  <1>8. HasNone(f[n - 1])
    <2> HIDE DEF HasNone
    <2> QED
      BY <1>2, <1>7
  <1>9. QED
    <2>1. n \in 1 .. n
      BY <1>2
    <2> HIDE DEF HasNone
    <2>2. QED
      BY <1>1, <1>5, <1>8, <2>1

(* A number that is stored is found again, although it is searched in the name as
   well: the name comes last.  One that is not stored is found in the name if
   that has its tag. *)
LEMMA FieldFound ==
  ASSUME NEW r, NEW tags \in SUBSET StoredFlags, "name" \in tags,
         NEW fields \in Seq(Fields(r, tags)),
         \A t \in tags : \E i \in 1 .. Len(fields) : fields[i] = Field(t, Stored(r, t)),
         \A i \in 1 .. Len(fields) : fields[i].tag = "name" => i = Len(fields),
         NEW tag
  PROVE  LET at == SelectInSeq(fields, LAMBDA f : IsFoundIn(tag, f))
         IN  /\ tag \in tags => at # 0 /\ ValueIn(tag, fields[at]) = Stored(r, tag)
             /\ tag \in DOMAIN TagsIn(Stored(r, "name")) => at # 0
             /\ tag \notin tags /\ at # 0 =>
                  /\ tag \in DOMAIN TagsIn(Stored(r, "name"))
                  /\ ValueIn(tag, fields[at]) = TagsIn(Stored(r, "name"))[tag]
  <1> DEFINE n == Len(fields)
             I == {k \in 1 .. n : IsFoundIn(tag, fields[k])}
             at == IF I # {} THEN Min(I) ELSE 0
             inside == TagsIn(Stored(r, "name"))
  <1>1. SelectInSeq(fields, LAMBDA f : IsFoundIn(tag, f)) = at
    BY DEF SelectInSeq
  <1>2. n \in Nat /\ I \in SUBSET (1 .. n)
    OBVIOUS
  <1>3. (at = 0 => I = {}) /\ (at # 0 => at \in I /\ \A k \in I : at <= k)
    <2> HIDE DEF I, n
    <2> QED
      BY <1>2, FirstPlace
  <1> HIDE DEF at
  <1>4. ASSUME NEW i \in 1 .. n
        PROVE  \E t \in tags : fields[i].tag = t /\ fields[i].value = Stored(r, t)
    <2>1. fields[i] \in Fields(r, tags)
      OBVIOUS
    <2>2. PICK t \in tags : fields[i] = Field(t, Stored(r, t))
      BY <2>1 DEF Fields
    <2>3. QED
      BY <2>2 DEF Field
  <1>5. ASSUME NEW i \in 1 .. n
        PROVE  /\ Ends(tag, fields[i]) <=> fields[i].tag = tag
               /\ IsText(fields[i]) <=> fields[i].tag = "name"
    BY <1>4 DEF Ends, IsText, StoredFlags
  <1>6. ASSUME tag \in tags PROVE at # 0 /\ fields[at].tag = tag
    <2>1. PICK i \in 1 .. n : fields[i] = Field(tag, Stored(r, tag))
      BY <1>6
    <2>2. fields[i].tag = tag
      BY <2>1 DEF Field
    <2>3. i \in I
      BY <1>5, <2>2 DEF IsFoundIn
    <2>4. at # 0 /\ at \in I /\ at <= i
      BY <1>3, <2>3
    <2>5. IsFoundIn(tag, fields[at]) /\ at \in 1 .. n
      BY <2>4
    <2>6. ASSUME fields[at].tag # tag PROVE FALSE
      <3>1. fields[at].tag = "name"
        BY <1>5, <2>5, <2>6 DEF IsFoundIn
      <3>2. at = n
        BY <2>5, <3>1
      <3>3. i = at
        BY <1>2, <2>4, <3>2
      <3>4. QED
        BY <2>2, <2>6, <3>3
    <2>7. QED
      BY <2>4, <2>6
  <1>7. ASSUME tag \in tags
        PROVE  at # 0 /\ ValueIn(tag, fields[at]) = Stored(r, tag)
    <2>1. at \in 1 .. n
      BY <1>3, <1>6, <1>7
    <2>2. fields[at].value = Stored(r, tag)
      BY <1>4, <1>6, <1>7, <2>1
    <2>3. Ends(tag, fields[at])
      BY <1>6, <1>7 DEF Ends
    <2>4. QED
      BY <1>6, <1>7, <2>2, <2>3 DEF ValueIn
  <1>8. ASSUME tag \notin tags, at # 0
        PROVE  tag \in DOMAIN inside /\ ValueIn(tag, fields[at]) = inside[tag]
    <2>1. at \in 1 .. n /\ IsFoundIn(tag, fields[at])
      BY <1>3, <1>8
    <2>2. fields[at].tag # tag
      BY <1>4, <1>8, <2>1
    <2>3. ~Ends(tag, fields[at]) /\ fields[at].tag = "name"
      BY <1>5, <2>1, <2>2 DEF IsFoundIn
    <2>4. fields[at].value = Stored(r, "name")
      BY <1>4, <2>1, <2>3
    <2>5. tag \in DOMAIN TagsIn(fields[at].value)
      BY <2>1, <2>3 DEF IsFoundIn
    <2>6. QED
      BY <2>3, <2>4, <2>5 DEF ValueIn
  <1>9. ASSUME tag \in DOMAIN inside PROVE at # 0
    <2>1. PICK i \in 1 .. n : fields[i] = Field("name", Stored(r, "name"))
      OBVIOUS
    <2>2. fields[i].tag = "name" /\ fields[i].value = Stored(r, "name")
      BY <2>1 DEF Field
    <2>3. i \in I
      BY <1>5, <1>9, <2>2 DEF IsFoundIn
    <2>4. QED
      BY <1>3, <2>3
  <1> HIDE DEF inside
  <1>10. QED
    BY <1>1, <1>7, <1>8, <1>9 DEF inside

(* The members that are stored have a place in the order. *)
LEMMA FlagsAreOrdered == StoredFlags \subseteq ToSet(Order)
  <1>1. \A k \in 1 .. 13 : Order[k] \in ToSet(Order)
    BY DEF Order, ToSet
  <1>2. Order[2] = "size" /\ Order[10] = "total" /\ Order[11] = "crc32" /\ Order[13] = "name"
    BY DEF Order
  <1>3. QED
    BY <1>1, <1>2 DEF StoredFlags

(* Whatever has got a name can be stored.  The size, the total, the checksum and
   the name are read back as they were; one of the numbers that was not stored is
   read from the name if the name has its tag, and from nowhere else. *)
THEOREM StoredIsReadBack == Spec => []StoredAttributesReadBack
  <1>1. IInv => StoredAttributesReadBack
    <2> DEFINE tags == StoredFlags \cap DOMAIN info
               fields == stored.fields
               At(tag) == SelectInSeq(fields, LAMBDA f : IsFoundIn(tag, f))
               back == DecoderDeserializeEncodeInfo(fields, StoredFlags)
               bad == <<BadCrc(info, data), BadSize(info, data)>>
               clean == DecoderMakeFileName(MAX_PATH, NameOf(info), CompOf(info), 0, <<0, 0>>)
               name == NameOfFirst(<<0, 0>>).text
               inside == TagsIn(name)
    <2> SUFFICES ASSUME IInv, file.made, pc \in {"done", "fallback"}
                 PROVE  /\ pc = "done"
                        /\ DOMAIN back = StoredFlags \cap (DOMAIN info \cup DOMAIN inside)
                        /\ back["name"] = name
                        /\ \A tag \in DOMAIN back \ {"name"} :
                             back[tag] = IF tag \in DOMAIN info THEN info[tag]
                                         ELSE Cut(tag, inside[tag])
      BY DEF StoredAttributesReadBack
    <2>1. /\ IsRecord(info) /\ "name" \in DOMAIN info
          /\ stored = DecoderSerializeEncodeInfo(info, StoredFlags)
          /\ pc = "done" <=> stored.made
      BY DEF IInv, Types, Named, Attributes
    <2>2. file = DecoderMakeFileName(MAX_PATH, NameOf(info), CompOf(info),
                                     PartOfName(info), bad)
      BY DEF IInv, Named, Attached, DecoderGetFileName
    <2>3. IsNamed(MAX_PATH, NameOf(info), CompOf(info), PartOfName(info), bad)
      BY NameArguments DEF IInv, Types
    <2>4. clean.made
      <3> HIDE DEF bad
      <3> QED
        BY <2>2, <2>3, MadeName
    <2>5. pc = "done"
      BY <2>1, <2>4 DEF DecoderSerializeEncodeInfo
    <2>6. /\ fields \in Seq(Fields(info, tags))
          /\ \A t \in tags : \E i \in 1 .. Len(fields) : fields[i] = Field(t, Stored(info, t))
      BY <2>1, SerializedFields, FlagsAreOrdered
    <2>7. \A i \in 1 .. Len(fields) : fields[i].tag = "name" => i = Len(fields)
      BY <2>1, NameComesLast
    <2>8. tags \in SUBSET StoredFlags /\ "name" \in tags
      BY <2>1 DEF StoredFlags
    <2>9. Stored(info, "name") = name
      BY DEF Stored, NameOfFirst
    <2> HIDE DEF name
    <2>10. \A tag : /\ At(tag) # 0 <=> tag \in tags \cup DOMAIN inside
                    /\ At(tag) # 0 => ValueIn(tag, fields[At(tag)]) =
                                        IF tag \in tags THEN Stored(info, tag) ELSE inside[tag]
      <3> HIDE DEF tags, fields
      <3>1. ASSUME NEW tag
            PROVE  /\ tag \in tags => At(tag) # 0 /\ ValueIn(tag, fields[At(tag)]) = Stored(info, tag)
                   /\ tag \in DOMAIN TagsIn(Stored(info, "name")) => At(tag) # 0
                   /\ tag \notin tags /\ At(tag) # 0 =>
                        /\ tag \in DOMAIN TagsIn(Stored(info, "name"))
                        /\ ValueIn(tag, fields[At(tag)]) = TagsIn(Stored(info, "name"))[tag]
        BY <2>6, <2>7, <2>8, FieldFound
      <3> HIDE DEF At
      <3>2. QED
        BY <2>9, <3>1
    <2>11. back = [tag \in {t \in StoredFlags : At(t) # 0} |->
                     IF tag \in {"name", "comp"}
                     THEN ValueIn(tag, fields[At(tag)])
                     ELSE Cut(tag, ValueIn(tag, fields[At(tag)]))]
      BY DEF DecoderDeserializeEncodeInfo
    <2> HIDE DEF back, At, fields, inside
    <2>12. {t \in StoredFlags : At(t) # 0} = StoredFlags \cap (DOMAIN info \cup DOMAIN inside)
      BY <2>10
    <2>13. DOMAIN back = StoredFlags \cap (DOMAIN info \cup DOMAIN inside)
      BY <2>11, <2>12
    <2>14. \A tag \in DOMAIN back :
             back[tag] = IF tag \in {"name", "comp"}
                         THEN ValueIn(tag, fields[At(tag)])
                         ELSE Cut(tag, ValueIn(tag, fields[At(tag)]))
      BY <2>11, <2>12
    <2>15. back["name"] = name
      <3>1. "name" \in DOMAIN back
        BY <2>8, <2>13
      <3>2. At("name") # 0 /\ ValueIn("name", fields[At("name")]) = Stored(info, "name")
        BY <2>8, <2>10
      <3>3. QED
        BY <2>9, <2>14, <3>1, <3>2
    <2>16. ASSUME NEW tag \in DOMAIN back, tag # "name"
           PROVE  back[tag] = IF tag \in DOMAIN info THEN info[tag] ELSE Cut(tag, inside[tag])
      <3>1. tag \in {"size", "total", "crc32"} /\ At(tag) # 0
        BY <2>10, <2>13, <2>16 DEF StoredFlags
      <3>2. back[tag] = Cut(tag, ValueIn(tag, fields[At(tag)]))
        BY <2>14, <3>1
      <3>3. CASE tag \in DOMAIN info
        <4>1. tag \in tags
          BY <3>1, <3>3 DEF StoredFlags
        <4>2. ValueIn(tag, fields[At(tag)]) = info[tag]
          BY <2>10, <3>1, <4>1 DEF Stored
        <4>3. info[tag] \in 0 .. Mask(tag)
          BY <2>1, <3>1, <3>3 DEF IsRecord, Values
        <4>4. QED
          BY <3>2, <3>3, <4>2, <4>3, CutSmall
      <3>4. CASE tag \notin DOMAIN info
        <4>1. tag \notin tags
          BY <3>4
        <4>2. QED
          BY <2>10, <3>1, <3>2, <3>4, <4>1
      <3>5. QED
        BY <3>3, <3>4
    <2>17. QED
      BY <2>5, <2>13, <2>15, <2>16
  <1>2. QED
    BY <1>1, IInvInvariant, PTL
-----------------------------------------------------------------------------
(***************************************************************************)
(* A block as written: where its attributes are, and that every search     *)
(* finds the one that is meant although it goes on to the end.             *)
(***************************************************************************)
HeaderTags == {"line", "size", "name", "part", "total", "offset", "escape",
               "escoff", "comp"}
TrailTags == {"size", "part", "crc32", "pcrc32"}

(* A block as written has three lines, or four with a =ypart line. *)
LEMMA Layout ==
  ASSUME AsWritten
  PROVE  /\ Trail \in {3, 4} /\ IsPart \in BOOLEAN /\ (Trail = 4 <=> IsPart)
         /\ IsPart => block.lines = <<"begin", "part", "data", "end">>
         /\ ~IsPart => block.lines = <<"begin", "data", "end">>
  <1>1. \/ block.lines = <<"begin", "data", "end">>
        \/ block.lines = <<"begin", "part", "data", "end">>
    BY DEF AsWritten
  <1>2. CASE block.lines = <<"begin", "data", "end">>
    <2>1. Len(block.lines) = 3 /\ block.lines[2] = "data"
      BY <1>2
    <2>2. QED
      BY <1>2, <2>1 DEF Trail, IsPart
  <1>3. CASE block.lines = <<"begin", "part", "data", "end">>
    <2>1. Len(block.lines) = 4 /\ block.lines[2] = "part"
      BY <1>3
    <2>2. QED
      BY <1>3, <2>1 DEF Trail, IsPart
  <1>4. QED
    BY <1>1, <1>2, <1>3

(* A token is in the first line, the =ypart line or the last one, with a tag that
   belongs there. *)
LEMMA TokenPlaces ==
  ASSUME block \in Blocks, AsWritten, NEW k \in DOMAIN block.tokens
  PROVE  LET tag  == block.tokens[k].tag
             line == block.tokens[k].line
         IN  /\ line \in 1 .. Trail /\ k \in Places(line) /\ tag \in Tags(line)
             /\ \/ line = 1 /\ tag \in HeaderTags
                \/ line = 2 /\ IsPart /\ tag \in {"begin", "end"}
                \/ line = Trail /\ tag \in TrailTags
  <1> DEFINE tag  == block.tokens[k].tag
             line == block.tokens[k].line
  <1>1. line \in 1 .. Trail
    BY BlockType DEF Trail
  <1>2. k \in Places(line) /\ tag \in Tags(line)
    BY DEF Places, Tags
  <1> HIDE DEF tag, line
  <1>3. line # Trail - 1
    BY <1>2 DEF AsWritten
  <1>4. \/ line = 1
        \/ line = 2 /\ IsPart
        \/ line = Trail
    BY <1>1, <1>3, Layout
  <1>5. line = 1 => tag \in HeaderTags
    BY <1>2 DEF AsWritten, HeaderTags
  <1>6. line = 2 /\ IsPart => tag \in {"begin", "end"}
    BY <1>2 DEF AsWritten
  <1>7. line = Trail => tag \in TrailTags
    BY <1>2 DEF AsWritten, TrailTags
  <1>8. QED
    BY <1>1, <1>2, <1>4, <1>5, <1>6, <1>7 DEF tag, line

(* No line has a tag twice. *)
LEMMA OnePlace ==
  ASSUME block \in Blocks, AsWritten, NEW j \in DOMAIN block.tokens,
         NEW k \in DOMAIN block.tokens,
         block.tokens[j].tag = block.tokens[k].tag,
         block.tokens[j].line = block.tokens[k].line
  PROVE  j = k
  <1>1. block.tokens[k].line \in 1 .. Trail /\ {j, k} \subseteq Places(block.tokens[k].line)
    BY TokenPlaces DEF Places
  <1>2. QED
    BY <1>1 DEF AsWritten

(* Where an attribute is written. *)
LEMMA WrittenLine ==
  ASSUME AsWritten, NEW tag \in WrittenTags
  PROVE  /\ tag \in Tags(WrittenIn(tag))
         /\ WrittenAt(tag) \in Places(WrittenIn(tag))
         /\ block.tokens[WrittenAt(tag)].tag = tag
         /\ WrittenIn(tag) = IF tag \in {"begin", "end"}
                             THEN 2
                             ELSE IF tag \in {"crc32", "pcrc32"} THEN Trail ELSE 1
         /\ tag \in {"begin", "end"} => IsPart
         /\ tag \notin {"begin", "end", "crc32", "pcrc32"} => tag \in HeaderTags
  <1>1. /\ WrittenIn(tag) = IF tag \in {"begin", "end"}
                            THEN 2
                            ELSE IF tag \in {"crc32", "pcrc32"} THEN Trail ELSE 1
    BY DEF WrittenIn
  <1>2. \/ tag \in Tags(1)
        \/ IsPart /\ tag \in Tags(2)
        \/ tag \in Tags(Trail) /\ tag # "size"
    BY DEF WrittenTags
  <1>3. tag \in Tags(1) => tag \in HeaderTags
    BY DEF AsWritten, HeaderTags
  <1>4. IsPart /\ tag \in Tags(2) => tag \in {"begin", "end"}
    BY DEF AsWritten
  <1>5. tag \in Tags(Trail) /\ tag # "size" =>
          tag \in {"crc32", "pcrc32"} \/ (tag = "part" /\ "part" \in Tags(1))
    BY DEF AsWritten
  <1>6. tag \in Tags(WrittenIn(tag))
    BY <1>1, <1>2, <1>3, <1>4, <1>5 DEF HeaderTags
  <1>7. \E k \in Places(WrittenIn(tag)) : block.tokens[k].tag = tag
    BY <1>6 DEF Tags
  <1>8. /\ WrittenAt(tag) \in Places(WrittenIn(tag))
        /\ block.tokens[WrittenAt(tag)].tag = tag
    BY <1>7 DEF WrittenAt
  <1>9. /\ tag \in {"begin", "end"} => IsPart
        /\ tag \notin {"begin", "end", "crc32", "pcrc32"} => tag \in HeaderTags
    BY <1>2, <1>3, <1>4, <1>5 DEF HeaderTags
  <1>10. QED
    BY <1>1, <1>6, <1>8, <1>9

(* A search that starts in the line of an attribute finds the attribute; the
   checksum is found from the first line as well. *)
LEMMA FindWritten ==
  ASSUME block \in Blocks, AsWritten, NEW tag \in WrittenTags,
         NEW line \in 1 .. Len(block.lines),
         line = WrittenIn(tag) \/ (line = 1 /\ tag = "crc32")
  PROVE  FindFrom(tag, line) = WrittenAt(tag) /\ WrittenAt(tag) # 0
  <1> DEFINE at == FindFrom(tag, line)
             w == WrittenAt(tag)
  <1>1. /\ w \in DOMAIN block.tokens /\ block.tokens[w].line = WrittenIn(tag)
        /\ block.tokens[w].tag = tag /\ WrittenIn(tag) \in Nat
    BY WrittenLine, Layout DEF Places
  <1>2. DOMAIN block.tokens = 1 .. Len(block.tokens) /\ Len(block.tokens) \in Nat
    BY BlockType
  <1>3. line <= WrittenIn(tag)
    BY WrittenLine, Layout
  <1> HIDE DEF w
  <1>4. at # 0
    BY <1>1, <1>3, Found
  <1>5. /\ at \in DOMAIN block.tokens /\ block.tokens[at].tag = tag
        /\ block.tokens[at].line >= line /\ at <= w
    BY <1>1, <1>3, <1>4, Found
  <1> HIDE DEF at
  <1>6. /\ block.tokens[at].line \in 1 .. Len(block.lines)
        /\ block.tokens[at].line <= block.tokens[w].line
    <2>1. at \in 1 .. w
      BY <1>2, <1>5
    <2>2. QED
      BY <1>1, <1>5, <2>1, BlockType, TokenOrder
  <1>7. block.tokens[at].line = WrittenIn(tag)
    <2>1. CASE line = WrittenIn(tag)
      BY <1>1, <1>5, <1>6, <2>1
    <2>2. CASE tag = "crc32"
      <3>1. block.tokens[at].line = Trail
        BY <1>5, <2>2, TokenPlaces DEF HeaderTags
      <3>2. QED
        BY <2>2, <3>1, WrittenLine
    <2>3. QED
      BY <2>1, <2>2
  <1>8. at = w
    BY <1>1, <1>5, <1>7, OnePlace
  <1>9. QED
    BY <1>4, <1>8 DEF at, w

(* So does a search that ends behind an attribute of the first line. *)
LEMMA FindInWindow ==
  ASSUME block \in Blocks, AsWritten, NEW tag \in WrittenTags, WrittenIn(tag) = 1,
         NEW to, block.tokens[WrittenAt(tag)].to <= to
  PROVE  FindAttributeTag(tag, 0, to) = WrittenAt(tag) /\ WrittenAt(tag) # 0
  <1> DEFINE at == FindAttributeTag(tag, 0, to)
             w == WrittenAt(tag)
  <1>1. /\ w \in DOMAIN block.tokens /\ block.tokens[w].line = 1 /\ block.tokens[w].tag = tag
    BY WrittenLine DEF Places
  <1>2. DOMAIN block.tokens = 1 .. Len(block.tokens) /\ Len(block.tokens) \in Nat
    BY BlockType
  <1> HIDE DEF w
  <1>3. 0 <= block.tokens[w].from /\ block.tokens[w].to <= to
    BY <1>1, TokenOrder DEF w
  <1>4. at # 0
    BY <1>1, <1>3, FoundWithin
  <1>5. at \in DOMAIN block.tokens /\ block.tokens[at].tag = tag /\ at <= w
    BY <1>1, <1>3, <1>4, FoundWithin
  <1> HIDE DEF at
  <1>6. block.tokens[at].line = 1
    <2>1. at \in 1 .. w
      BY <1>2, <1>5
    <2>2. block.tokens[at].line \in 1 .. Len(block.lines) /\ Len(block.lines) \in Nat
      BY <1>5, BlockType
    <2>3. block.tokens[at].line <= 1
      BY <1>1, <2>1, TokenOrder
    <2>4. QED
      BY <2>2, <2>3
  <1>7. at = w
    BY <1>1, <1>5, <1>6, OnePlace
  <1>8. QED
    BY <1>4, <1>7 DEF at, w

(* What is not written is not found. *)
LEMMA FindUnwritten ==
  ASSUME block \in Blocks, AsWritten, NEW tag, tag \notin WrittenTags
  PROVE  /\ \A from, to : FindAttributeTag(tag, from, to) = 0
         /\ \A line : FindFrom(tag, line) = 0
  <1>1. ASSUME NEW k \in DOMAIN block.tokens PROVE block.tokens[k].tag # tag
    <2>1. "size" \in WrittenTags
      BY DEF AsWritten, WrittenTags
    <2>2. block.tokens[k].tag \in WrittenTags
      BY <2>1, TokenPlaces DEF WrittenTags
    <2>3. QED
      BY <2>2
  <1>2. ASSUME NEW from, NEW to PROVE FindAttributeTag(tag, from, to) = 0
    BY <1>1, FoundWithin
  <1>3. QED
    BY <1>2 DEF FindFrom

(* A number that is written is within its limits, and not cut. *)
LEMMA WrittenNumber ==
  ASSUME block \in Blocks, AsWritten, NEW tag \in WrittenTags, tag \notin {"name", "comp"}
  PROVE  /\ WrittenValue(tag) \in Limits(tag) /\ WrittenValue(tag) \in 0 .. Mask(tag)
         /\ (tag = "offset" => ValueAt(WrittenAt(tag)) # MV_DEFAULT) =>
              /\ ValueAt(WrittenAt(tag)) = WrittenValue(tag)
              /\ Cut(tag, ValueAt(WrittenAt(tag))) = WrittenValue(tag)
         /\ tag = "offset" /\ ValueAt(WrittenAt(tag)) = MV_DEFAULT =>
              WrittenValue(tag) = MV_OFFSET
  <1>1. WrittenValue(tag) \in Limits(tag)
    BY DEF AsWritten
  <1>2. Limits(tag) \subseteq 0 .. Mask(tag)
    <2>1. Limits(tag) \subseteq Nat
      BY LimitsAssumption, MaskType, WidthsAssumption DEF Limits
    <2>2. CASE tag = "line"
      BY <2>2, LimitsAssumption, WidthsAssumption DEF Limits, Mask
    <2>3. CASE tag \in {"begin", "end"}
      BY <2>3, WidthsAssumption DEF Limits, Mask
    <2>4. CASE tag \notin {"line", "begin", "end"}
      BY <2>4, MaskType DEF Limits
    <2>5. QED
      BY <2>2, <2>3, <2>4
  <1>3. (tag = "offset" => ValueAt(WrittenAt(tag)) # MV_DEFAULT) =>
          ValueAt(WrittenAt(tag)) = WrittenValue(tag)
    BY DEF WrittenValue, ValueAt
  <1>4. tag = "offset" /\ ValueAt(WrittenAt(tag)) = MV_DEFAULT =>
          WrittenValue(tag) = MV_OFFSET
    BY DEF WrittenValue, ValueAt
  <1>5. WrittenValue(tag) \in 0 .. Mask(tag)
    BY <1>1, <1>2
  <1>6. Cut(tag, WrittenValue(tag)) = WrittenValue(tag)
    BY <1>5, CutSmall
  <1>7. QED
    BY <1>1, <1>3, <1>4, <1>5, <1>6

(* What has been read when a part of the functions is reached. *)
Done(step) ==
  CASE step \in {"ybegin", "line"} -> {}
    [] step = "size"   -> {"line"}
    [] step = "part"   -> {"line", "size"}
    [] step = "total"  -> {"line", "size", "part"}
    [] step = "crc32"  -> {"line", "size", "part", "total"}
    [] step = "offset" -> {"line", "size", "part", "total", "crc32"}
    [] step = "escape" -> {"line", "size", "part", "total", "crc32", "offset"}
    [] step = "escoff" ->
         {"line", "size", "part", "total", "crc32", "offset", "escape"}
    [] step = "comp"   ->
         {"line", "size", "part", "total", "crc32", "offset", "escape", "escoff"}
    [] step = "name"   -> (HeaderTags \ {"name"}) \cup {"crc32"}
    [] step \in {"ypart", "begin"} -> HeaderTags \cup {"crc32"}
    [] step = "end"    -> HeaderTags \cup {"crc32", "begin"}
    [] step \in {"data", "subject", "prepare", "decode", "yend"} ->
         HeaderTags \cup {"crc32", "begin", "end"}
    [] OTHER           -> HeaderTags \cup {"crc32", "begin", "end", "pcrc32"}

AsRead(tags) == [tag \in (WrittenTags \ OutOfReach) \cap tags |-> WrittenValue(tag)]

Accepted(step, code) ==
  /\ step # "exception"
  /\ code \in {"none", "too large", "not decoded", "missing tag"}
  /\ code = "missing tag" <=> step = "text" /\ ~SizeInReach
  /\ step \notin {"ybegin", "line", "size", "text"} => SizeInReach

Reading ==
  AsWritten =>
    /\ Accepted(pc, error)
    /\ pc \notin {"ybegin", "line", "text"} => info = AsRead(Done(pc))
    /\ pc \in {"begin", "end", "data"} => pbLine = 2 /\ IsPart
    /\ pc \in {"subject", "prepare", "decode", "yend"} => pbLine = (IF IsPart THEN 3 ELSE 2)

(* What is written does not change. *)
LEMMA SameBlock ==
  ASSUME UNCHANGED <<block, subject>>, NEW tags
  PROVE  /\ AsWritten' <=> AsWritten
         /\ IsPart' <=> IsPart
         /\ SizeInReach' <=> SizeInReach
         /\ AsRead(tags)' = AsRead(tags)
  <1>1. IsPart' <=> IsPart
    BY DEF IsPart
  <1>2. AsRead(tags)' = AsRead(tags)
    BY DEF AsRead, WrittenTags, WrittenValue, WrittenAt, WrittenIn, Places, Tags, Trail,
           IsPart, OutOfReach, TrailSize
  <1>3. AsWritten' <=> AsWritten
    BY DEF AsWritten, WrittenTags, WrittenValue, WrittenAt, WrittenIn, Places, Tags,
           Trail, IsPart
  <1>4. SizeInReach' <=> SizeInReach
    BY DEF SizeInReach, WrittenAt, WrittenIn, Places, Trail
  <1>5. QED
    BY <1>1, <1>2, <1>3, <1>4

(* One attribute is read, or left out. *)
Reads(tag, step) ==
  \/ tag \in WrittenTags /\ Keep(tag, WrittenValue(tag), step)
  \/ tag \notin WrittenTags /\ Skip(step)

(* The record has one more attribute then. *)
LEMMA ReadMore ==
  ASSUME NEW tags, NEW tag, tag # "pcrc32", NEW step, info = AsRead(tags), Reads(tag, step)
  PROVE  /\ info' = AsRead(tags \cup {tag})
         /\ pc' = step /\ UNCHANGED <<error, pbLine>>
  <1> DEFINE R == WrittenTags \ OutOfReach
  <1>1. tag \in R <=> tag \in WrittenTags
    BY DEF OutOfReach
  <1>2. AsRead(tags) = [t \in R \cap tags |-> WrittenValue(t)]
    BY DEF AsRead
  <1>3. AsRead(tags \cup {tag}) = [t \in R \cap (tags \cup {tag}) |-> WrittenValue(t)]
    BY DEF AsRead
  <1> HIDE DEF R
  <1>4. CASE tag \in WrittenTags /\ Keep(tag, WrittenValue(tag), step)
    <2>1. info' = [t \in {tag} \cup DOMAIN info |->
                     IF t = tag THEN WrittenValue(tag) ELSE info[t]]
      BY <1>4 DEF Keep
    <2>2. DOMAIN info = R \cap tags
      BY <1>2
    <2>3. \A t \in R \cap tags : info[t] = WrittenValue(t)
      BY <1>2
    <2>4. {tag} \cup DOMAIN info = R \cap (tags \cup {tag})
      BY <1>1, <1>4, <2>2
    <2>5. info' = [t \in R \cap (tags \cup {tag}) |-> WrittenValue(t)]
      BY <2>1, <2>2, <2>3, <2>4
    <2>6. QED
      BY <1>3, <1>4, <2>5 DEF Keep
  <1>5. CASE tag \notin WrittenTags /\ Skip(step)
    <2>1. R \cap tags = R \cap (tags \cup {tag})
      BY <1>1, <1>5
    <2>2. QED
      BY <1>2, <1>3, <1>5, <2>1 DEF Skip
  <1>6. QED
    BY <1>4, <1>5 DEF Reads

(* The searches of DecoderInitialize. *)
Numbers == {"line", "part", "total", "crc32", "escape", "escoff", "begin", "end"}

(* A number is found if and only if it is written, within its limits. *)
LEMMA FindNumber ==
  ASSUME block \in Blocks, AsWritten, NEW tag \in Numbers, NEW line,
         line = IF tag \in {"begin", "end"} THEN 2 ELSE 1
  PROVE  LET at == FindFrom(tag, line)
         IN  /\ at = 0 <=> tag \notin WrittenTags
             /\ at # 0 => /\ Cut(tag, ValueAt(at)) = WrittenValue(tag)
                          /\ WrittenValue(tag) \in Limits(tag)
  <1>1. CASE tag \in WrittenTags
    <2>1. line = WrittenIn(tag) \/ (line = 1 /\ tag = "crc32")
      BY DEF WrittenIn, Numbers
    <2>2. line \in 1 .. Len(block.lines)
      <3>1. Len(block.lines) \in {3, 4}
        BY Layout DEF Trail
      <3>2. line \in {1, 2}
        OBVIOUS
      <3>3. ASSUME NEW n \in {3, 4}, NEW k \in {1, 2} PROVE k \in 1 .. n
        OBVIOUS
      <3>4. QED
        BY ONLY <3>1, <3>2, <3>3
    <2>3. FindFrom(tag, line) = WrittenAt(tag) /\ WrittenAt(tag) # 0
      BY <1>1, <2>1, <2>2, FindWritten
    <2>4. /\ Cut(tag, ValueAt(WrittenAt(tag))) = WrittenValue(tag)
          /\ WrittenValue(tag) \in Limits(tag)
      BY <1>1, WrittenNumber DEF Numbers
    <2>5. QED
      BY <1>1, <2>3, <2>4
  <1>2. CASE tag \notin WrittenTags
    BY <1>2, FindUnwritten
  <1>3. QED
    BY <1>1, <1>2

(* The size of the header is found if and only if it is in reach. *)
LEMMA FindSize ==
  ASSUME block \in Blocks, AsWritten
  PROVE  LET at == FindAttributeTag("size", 0, SizeWindow)
         IN  /\ at = 0 <=> ~SizeInReach
             /\ at # 0 => /\ Cut("size", ValueAt(at)) = WrittenValue("size")
                          /\ WrittenValue("size") \in Limits("size")
  <1> DEFINE at == FindAttributeTag("size", 0, SizeWindow)
             w == WrittenAt("size")
             l == WrittenAt("line")
  <1>1. "size" \in WrittenTags /\ "line" \in WrittenTags
    BY DEF AsWritten, WrittenTags
  <1>2. WrittenIn("size") = 1 /\ WrittenIn("line") = 1
    BY DEF WrittenIn
  <1>3. FindFrom("line", 1) = l
    BY <1>1, <1>2, FindWritten, FirstLine
  <1>4. /\ w \in DOMAIN block.tokens /\ l \in DOMAIN block.tokens
        /\ block.tokens[w].line = 1
    BY <1>1, <1>2, WrittenLine DEF Places
  <1>5. SizeWindow = block.size - block.tokens[l].to
    BY <1>3 DEF SizeWindow
  <1>6. SizeInReach <=> block.tokens[l].to + block.tokens[w].to <= block.size
    BY DEF SizeInReach
  <1> HIDE DEF w, l
  <1>7. block.size \in Nat /\ block.tokens[l].to \in Nat /\ block.tokens[w].to \in Nat
    BY <1>4, BlockType, TokenOrder
  <1>8. SizeWindow \in Int /\ (SizeInReach <=> block.tokens[w].to <= SizeWindow)
    BY <1>5, <1>6, <1>7
  <1>9. ASSUME SizeInReach PROVE at = w /\ at # 0
    <2>1. block.tokens[WrittenAt("size")].to <= SizeWindow
      BY <1>8, <1>9 DEF w
    <2>2. QED
      BY <1>1, <1>2, <2>1, FindInWindow DEF w
  <1>10. ASSUME at # 0 PROVE SizeInReach
    <2>1. /\ at \in DOMAIN block.tokens /\ block.tokens[at].tag = "size"
          /\ block.tokens[at].to <= SizeWindow
      BY <1>10, FoundWithin
    <2> HIDE DEF at
    <2>2. block.tokens[at].to \in Nat /\ block.tokens[at].line \in 1 .. Len(block.lines)
      BY <2>1, TokenOrder, BlockType
    <2>3. DOMAIN block.tokens = 1 .. Len(block.tokens) /\ Len(block.tokens) \in Nat
      BY BlockType
    <2>4. CASE w <= at
      <3>1. w \in 1 .. at
        BY <1>4, <2>1, <2>3, <2>4
      <3>2. block.tokens[w].to <= block.tokens[at].to
        BY <2>1, <3>1, TokenOrder
      <3>3. QED
        BY <1>7, <1>8, <2>1, <2>2, <3>2
    <2>5. CASE ~(w <= at)
      <3>1. at \in 1 .. w
        BY <1>4, <2>1, <2>3, <2>5
      <3>2. block.tokens[at].to <= block.tokens[w].to /\ block.tokens[at].line <= 1
        BY <1>4, <3>1, TokenOrder
      <3>3. block.tokens[at].line = 1
        BY <2>2, <3>2
      <3>4. at = w
        BY <1>1, <1>4, <2>1, <3>3, OnePlace, WrittenLine DEF w
      <3>5. QED
        BY <1>8, <2>1, <3>4
    <2>6. QED
      BY <2>4, <2>5
  <1>11. /\ Cut("size", ValueAt(w)) = WrittenValue("size")
         /\ WrittenValue("size") \in Limits("size")
    BY <1>1, WrittenNumber DEF w
  <1> HIDE DEF at
  <1>12. QED
    BY <1>9, <1>10, <1>11 DEF at

(* Such a search reads the attribute. *)
LEMMA NumberReads ==
  ASSUME block \in Blocks, AsWritten, NEW tag \in Numbers, NEW line,
         line = IF tag \in {"begin", "end"} THEN 2 ELSE 1, NEW step,
         \/ Required(tag, FindFrom(tag, line), step) /\ tag \in WrittenTags
         \/ Optional(tag, step) /\ line = 1
         \/ AnyNumber(tag, step) /\ line = 1
  PROVE  Reads(tag, step)
  <1> DEFINE at == FindFrom(tag, line)
             value == Cut(tag, ValueAt(at))
  <1>1. /\ at = 0 <=> tag \notin WrittenTags
        /\ at # 0 => value = WrittenValue(tag) /\ value \in Limits(tag)
    BY FindNumber
  <1>2. \/ at # 0 /\ \/ value \notin Limits(tag)
                     \/ Keep(tag, value, step)
        \/ at = 0 /\ Skip(step)
    <2>1. CASE Required(tag, at, step) /\ tag \in WrittenTags
      <3> HIDE DEF value
      <3>1. at # 0
        BY <1>1, <2>1
      <3>2. QED
        BY <2>1, <3>1 DEF Required, Number, value
    <2>2. CASE Optional(tag, step) /\ line = 1
      BY <2>2 DEF Optional, Number
    <2>3. CASE AnyNumber(tag, step) /\ line = 1
      BY <2>3 DEF AnyNumber
    <2>4. QED
      BY <2>1, <2>2, <2>3
  <1> HIDE DEF at, value
  <1>3. CASE at # 0
    <2>1. Keep(tag, value, step)
      BY <1>1, <1>2, <1>3
    <2>2. QED
      BY <1>1, <1>3, <2>1 DEF Reads
  <1>4. CASE at = 0
    BY <1>1, <1>2, <1>4 DEF Reads
  <1>5. QED
    BY <1>3, <1>4

(* What a step has to show. *)
LEMMA ReadingKept ==
  ASSUME UNCHANGED <<block, subject>>,
         AsWritten =>
           /\ Accepted(pc', error')
           /\ pc' \notin {"ybegin", "line", "text"} => info' = AsRead(Done(pc'))
           /\ pc' \in {"begin", "end", "data"} => pbLine' = 2 /\ IsPart
           /\ pc' \in {"subject", "prepare", "decode", "yend"} =>
                pbLine' = (IF IsPart THEN 3 ELSE 2)
  PROVE  Reading'
  <1>1. /\ AsWritten' <=> AsWritten
        /\ IsPart' <=> IsPart
        /\ SizeInReach' <=> SizeInReach
    BY SameBlock
  <1>2. AsRead(Done(pc))' = AsRead(Done(pc'))
    BY SameBlock
  <1>3. Accepted(pc', error') => Accepted(pc, error)'
    BY <1>1 DEF Accepted
  <1>4. QED
    BY <1>1, <1>2, <1>3 DEF Reading

(* Nothing is refused between the size and the end. *)
LEMMA AcceptedStep ==
  ASSUME AsWritten, Reading, pc \notin {"line", "size", "text"}, NEW step, NEW code,
         code = error, step \notin {"text", "exception", "ybegin"},
         step = "line" \/ pc # "ybegin"
  PROVE  Accepted(step, code)
  <1>1. Accepted(pc, error)
    BY DEF Reading
  <1>2. code \in {"none", "too large", "not decoded", "missing tag"} /\ code # "missing tag"
    BY <1>1 DEF Accepted
  <1>3. step # "line" => SizeInReach
    BY <1>1 DEF Accepted
  <1>4. QED
    BY <1>2, <1>3 DEF Accepted

(* The step that is next. *)
LEMMA StepAt ==
  ASSUME DecoderInitialize
  PROVE  /\ pc = "ybegin" => Version
         /\ pc = "line" => Line
         /\ pc = "size" => Size
         /\ pc = "part" => Part
         /\ pc = "total" => Total
         /\ pc = "crc32" => Crc
         /\ pc = "offset" => Offset
         /\ pc = "escape" => Escape
         /\ pc = "escoff" => EscOff
         /\ pc = "comp" => Comp
         /\ pc = "name" => Name
         /\ pc = "ypart" => PartLine
         /\ pc = "begin" => Begin
         /\ pc = "end" => End
         /\ pc = "data" => Data
         /\ pc \in Attributes \cup {"ypart", "begin", "end", "data"}
  BY DEF DecoderInitialize, Attributes, Version, Line, Size, Part, Total, Crc, Offset,
         Escape, EscOff, Comp, Name, PartLine, Begin, End, Data

(* One step of the header of a block as written. *)
LEMMA ReadingAttribute ==
  ASSUME Types, Reading, AsWritten, DecoderInitialize,
         pc \in Attributes \ {"ybegin", "line", "size"}
  PROVE  /\ error' = error /\ pbLine' = pbLine
         /\ info' = AsRead(Done(pc'))
         /\ pc' \in (Attributes \ {"ybegin", "line", "size"}) \cup {"ypart"}
  <1>1. block \in Blocks /\ info = AsRead(Done(pc))
    BY DEF Types, Reading, Attributes
  <1>2. ASSUME NEW tag, tag # "pcrc32", NEW step, Reads(tag, step),
               Done(step) = Done(pc) \cup {tag},
               step \in (Attributes \ {"ybegin", "line", "size"}) \cup {"ypart"}
        PROVE  /\ error' = error /\ pbLine' = pbLine
               /\ info' = AsRead(Done(pc'))
               /\ pc' \in (Attributes \ {"ybegin", "line", "size"}) \cup {"ypart"}
    BY <1>1, <1>2, ReadMore
  <1>4. CASE pc = "part"
    <2>1. Optional("part", "total")
      BY <1>4, StepAt DEF Part
    <2>2. Reads("part", "total")
      BY <1>1, <2>1, NumberReads DEF Numbers
    <2>3. Done("total") = Done(pc) \cup {"part"}
      BY <1>4 DEF Done
    <2>4. QED
      BY <1>2, <2>2, <2>3 DEF Attributes
  <1>5. CASE pc = "total"
    <2> DEFINE at == FindFrom("total", 1)
    <2>1. \/ at = 0 /\ Skip("crc32")
          \/ at # 0 /\ "part" \notin DOMAIN info /\ Stop("missing tag")
          \/ at # 0 /\ Number("total", at, "crc32")
      BY <1>5, StepAt DEF Total
    <2>2. at = 0 <=> "total" \notin WrittenTags
      BY <1>1, FindNumber DEF Numbers
    <2>3. "total" \in WrittenTags => "part" \in DOMAIN info
      <3>1. "total" \in WrittenTags => "total" \in Tags(1)
        BY WrittenLine
      <3>2. "total" \in WrittenTags => "part" \in Tags(1)
        BY <3>1 DEF AsWritten
      <3>3. "part" \in Done(pc)
        BY <1>5 DEF Done
      <3>4. QED
        BY <1>1, <3>2, <3>3 DEF WrittenTags, AsRead, OutOfReach
    <2>4. Optional("total", "crc32")
      BY <2>1, <2>2, <2>3 DEF Optional
    <2>5. Reads("total", "crc32")
      BY <1>1, <2>4, NumberReads DEF Numbers
    <2>6. Done("crc32") = Done(pc) \cup {"total"}
      BY <1>5 DEF Done
    <2>7. QED
      BY <1>2, <2>5, <2>6 DEF Attributes
  <1>6. CASE pc = "crc32"
    <2>1. AnyNumber("crc32", "offset")
      BY <1>6, StepAt DEF Crc
    <2>2. Reads("crc32", "offset")
      BY <1>1, <2>1, NumberReads DEF Numbers
    <2>3. Done("offset") = Done(pc) \cup {"crc32"}
      BY <1>6 DEF Done
    <2>4. QED
      BY <1>2, <2>2, <2>3 DEF Attributes
  <1>7. CASE pc = "offset"
    <2> DEFINE at == FindFrom("offset", 1)
    <2>1. \/ at = 0 /\ Skip("escape")
          \/ at # 0 /\ ValueAt(at) = MV_DEFAULT /\ Keep("offset", MV_OFFSET, "escape")
          \/ /\ at # 0 /\ ValueAt(at) # MV_DEFAULT
             /\ Keep("offset", Cut("offset", ValueAt(at)), "escape")
      BY <1>7, StepAt DEF Offset
    <2>2. ASSUME "offset" \in WrittenTags PROVE Reads("offset", "escape")
      <3>1. at = WrittenAt("offset") /\ at # 0
        BY <1>1, <2>2, FindWritten, FirstLine DEF WrittenIn
      <3>2. /\ ValueAt(at) # MV_DEFAULT => Cut("offset", ValueAt(at)) = WrittenValue("offset")
            /\ ValueAt(at) = MV_DEFAULT => WrittenValue("offset") = MV_OFFSET
        BY <1>1, <2>2, <3>1, WrittenNumber
      <3> HIDE DEF at
      <3>3. QED
        BY <2>1, <2>2, <3>1, <3>2 DEF Reads
    <2>3. ASSUME "offset" \notin WrittenTags PROVE Reads("offset", "escape")
      BY <1>1, <2>1, <2>3, FindUnwritten DEF Reads
    <2>4. Reads("offset", "escape")
      BY <2>2, <2>3
    <2>5. Done("escape") = Done(pc) \cup {"offset"}
      BY <1>7 DEF Done
    <2>6. QED
      BY <1>2, <2>4, <2>5 DEF Attributes
  <1>8. CASE pc = "escape"
    <2>1. AnyNumber("escape", "escoff")
      BY <1>8, StepAt DEF Escape
    <2>2. Reads("escape", "escoff")
      BY <1>1, <2>1, NumberReads DEF Numbers
    <2>3. Done("escoff") = Done(pc) \cup {"escape"}
      BY <1>8 DEF Done
    <2>4. QED
      BY <1>2, <2>2, <2>3 DEF Attributes
  <1>9. CASE pc = "escoff"
    <2>1. Optional("escoff", "comp")
      BY <1>9, StepAt DEF EscOff
    <2>2. Reads("escoff", "comp")
      BY <1>1, <2>1, NumberReads DEF Numbers
    <2>3. Done("comp") = Done(pc) \cup {"escoff"}
      BY <1>9 DEF Done
    <2>4. QED
      BY <1>2, <2>2, <2>3 DEF Attributes
  <1>10. ASSUME NEW tag \in {"name", "comp"} \cap WrittenTags
         PROVE  /\ WrittenIn(tag) = 1 /\ tag \in Tags(1)
                /\ ValueAt(WrittenAt(tag)) = WrittenValue(tag)
    <2>1. WrittenIn(tag) = 1
      BY DEF WrittenIn
    <2>2. tag \in Tags(1)
      BY <2>1, WrittenLine
    <2>3. ValueAt(WrittenAt(tag)) = WrittenValue(tag)
      BY DEF ValueAt, WrittenValue
    <2>4. QED
      BY <2>1, <2>2, <2>3
  <1>11. CASE pc = "comp"
    <2> DEFINE at == FindAttributeTag("comp", 0, MAX_PATH)
    <2>1. \/ at = 0 /\ Skip("name")
          \/ at # 0 /\ Keep("comp", ValueAt(at), "name")
      BY <1>11, StepAt DEF Comp
    <2>2. ASSUME "comp" \in WrittenTags PROVE Reads("comp", "name")
      <3>1. /\ WrittenIn("comp") = 1 /\ "comp" \in Tags(1)
            /\ ValueAt(WrittenAt("comp")) = WrittenValue("comp")
        BY <1>10, <2>2
      <3>2. block.tokens[WrittenAt("comp")].to <= MAX_PATH
        BY <3>1 DEF AsWritten
      <3>3. at = WrittenAt("comp") /\ at # 0
        BY <1>1, <2>2, <3>1, <3>2, FindInWindow
      <3> HIDE DEF at
      <3>4. QED
        BY <2>1, <2>2, <3>1, <3>3 DEF Reads
    <2>3. ASSUME "comp" \notin WrittenTags PROVE Reads("comp", "name")
      BY <1>1, <2>1, <2>3, FindUnwritten DEF Reads
    <2>4. Reads("comp", "name")
      BY <2>2, <2>3
    <2>5. Done("name") = Done(pc) \cup {"comp"}
      BY <1>11 DEF Done, HeaderTags
    <2>6. QED
      BY <1>2, <2>4, <2>5 DEF Attributes
  <1>12. CASE pc = "name"
    <2> DEFINE at == FindFrom("name", 1)
    <2>1. \/ at = 0 /\ Stop("missing tag")
          \/ at # 0 /\ Keep("name", ValueAt(at), "ypart")
      BY <1>12, StepAt DEF Name
    <2>2. "name" \in WrittenTags
      BY DEF AsWritten, WrittenTags
    <2>3. at # 0 /\ ValueAt(at) = WrittenValue("name")
      <3>1. at = WrittenAt("name") /\ at # 0
        BY <1>1, <1>10, <2>2, FindWritten, FirstLine
      <3>2. QED
        BY <1>10, <2>2, <3>1
    <2> HIDE DEF at
    <2>4. Reads("name", "ypart")
      BY <2>1, <2>2, <2>3 DEF Reads
    <2>5. Done("ypart") = Done(pc) \cup {"name"}
      BY <1>12 DEF Done, HeaderTags
    <2>6. QED
      BY <1>2, <2>4, <2>5 DEF Attributes
  <1>13. QED
    BY <1>4, <1>5, <1>6, <1>7, <1>8, <1>9, <1>11, <1>12 DEF Attributes

(* DecoderInitialize reads the header. *)
LEMMA ReadingHeader ==
  ASSUME IInv, Reading, DecoderInitialize
  PROVE  Reading'
  <1> SUFFICES ASSUME AsWritten
               PROVE  /\ Accepted(pc', error')
                      /\ pc' \notin {"ybegin", "line", "text"} => info' = AsRead(Done(pc'))
                      /\ pc' \in {"begin", "end", "data"} => pbLine' = 2 /\ IsPart
                      /\ pc' \in {"subject", "prepare", "decode", "yend"} =>
                           pbLine' = (IF IsPart THEN 3 ELSE 2)
    <2>1. UNCHANGED <<block, subject>>
      BY DEF DecoderInitialize, input
    <2>2. QED
      BY <2>1, ReadingKept
  <1>1. block \in Blocks /\ Accepted(pc, error) /\ Types
    BY DEF IInv, Types, Reading
  <1>2. CASE pc = "ybegin"
    <2>1. Keep("version", block.version, "line")
      BY <1>2, StepAt DEF Version
    <2>2. pc' = "line" /\ error' = error
      BY <2>1 DEF Keep
    <2>3. Accepted(pc', error')
      BY <1>2, <2>2, AcceptedStep
    <2>4. QED
      BY <2>2, <2>3
  <1>3. CASE pc = "line"
    <2> DEFINE at == FindFrom("line", 1)
               value == Cut("line", ValueAt(at))
    <2>1. "line" \in WrittenTags
      BY DEF AsWritten, WrittenTags
    <2>2. at # 0 /\ value = WrittenValue("line") /\ value \in Limits("line")
      <3>1. "line" \in Numbers
        BY DEF Numbers
      <3>2. /\ at = 0 <=> "line" \notin WrittenTags
            /\ at # 0 => /\ value = WrittenValue("line")
                         /\ WrittenValue("line") \in Limits("line")
        BY <1>1, <3>1, FindNumber
      <3> HIDE DEF at, value
      <3>3. QED
        BY <2>1, <3>2
    <2>3. \/ at = 0 \/ value \notin Limits("line")
          \/ /\ info' = [t \in {"line"} |-> value]
             /\ pc' = "size" /\ UNCHANGED <<error, pbLine>>
      BY <1>3, StepAt DEF Line
    <2> HIDE DEF at, value
    <2>4. info' = [t \in {"line"} |-> WrittenValue("line")] /\ pc' = "size" /\ error' = error
      BY <2>2, <2>3
    <2>5. (WrittenTags \ OutOfReach) \cap Done("size") = {"line"}
      BY <2>1 DEF Done, OutOfReach
    <2>6. info' = AsRead(Done("size"))
      BY <2>4, <2>5 DEF AsRead
    <2>7. Accepted(pc', error')
      BY <1>1, <1>3, <2>4 DEF Accepted
    <2>8. QED
      BY <2>4, <2>6, <2>7
  <1>4. CASE pc = "size"
    <2> DEFINE at == FindAttributeTag("size", 0, SizeWindow)
    <2>1. \/ at = 0 /\ Stop("missing tag")
          \/ at # 0 /\ Number("size", at, "part")
      BY <1>4, StepAt DEF Size, Required
    <2>2. /\ at = 0 <=> ~SizeInReach
          /\ at # 0 => /\ Cut("size", ValueAt(at)) = WrittenValue("size")
                       /\ WrittenValue("size") \in Limits("size")
      BY <1>1, FindSize
    <2> HIDE DEF at
    <2>3. CASE at = 0
      <3>1. pc' = "text" /\ error' = "missing tag"
        BY <2>1, <2>3 DEF Stop
      <3>2. QED
        BY <2>2, <2>3, <3>1 DEF Accepted
    <2>4. CASE at # 0
      <3>1. "size" \in WrittenTags
        BY DEF AsWritten, WrittenTags
      <3>2. Number("size", at, "part")
        BY <2>1, <2>4
      <3>3. Keep("size", WrittenValue("size"), "part")
        BY <2>2, <2>4, <3>2 DEF Number
      <3>4. Reads("size", "part")
        BY <3>1, <3>3 DEF Reads
      <3>5. info = AsRead(Done("size"))
        BY <1>4 DEF Reading
      <3>6. Done("part") = Done("size") \cup {"size"}
        BY DEF Done
      <3>7. info' = AsRead(Done("part")) /\ pc' = "part" /\ error' = error
        BY <3>4, <3>5, <3>6, ReadMore
      <3>8. Accepted(pc', error')
        BY <1>1, <1>4, <2>2, <2>4, <3>7 DEF Accepted
      <3>9. QED
        BY <3>7, <3>8
    <2>5. QED
      BY <2>3, <2>4
  <1>5. CASE pc \in Attributes \ {"ybegin", "line", "size"}
    <2>1. /\ error' = error /\ info' = AsRead(Done(pc'))
          /\ pc' \in (Attributes \ {"ybegin", "line", "size"}) \cup {"ypart"}
      BY <1>1, <1>5, ReadingAttribute
    <2>2. Accepted(pc', error')
      <3>1. pc \notin {"ybegin", "line", "size", "text"}
        BY <1>5 DEF Attributes
      <3>2. pc' \notin {"text", "exception", "ybegin"}
        BY <2>1 DEF Attributes
      <3>3. QED
        BY <2>1, <3>1, <3>2, AcceptedStep
    <2>3. QED
      BY <2>1, <2>2 DEF Attributes
  <1>6. CASE pc = "ypart"
    <2> DEFINE at == FindFrom("name", 1)
               line == FindNextLine(block.tokens[at].line)
               parts == {k \in 1 .. Len(block.lines) : k >= line /\ block.lines[k] = "part"}
    <2>1. \/ line \notin 1 .. Len(block.lines)
          \/ parts = {} /\ pbLine' = line /\ pc' = "subject" /\ UNCHANGED <<info, error>>
          \/ parts # {} /\ "part" \notin DOMAIN info
          \/ parts # {} /\ line \notin parts
          \/ parts # {} /\ pbLine' = line /\ pc' = "begin" /\ UNCHANGED <<info, error>>
      BY <1>6, StepAt DEF PartLine
    <2>2. "name" \in WrittenTags
      BY DEF AsWritten, WrittenTags
    <2>3. at = WrittenAt("name") /\ at # 0
      BY <1>1, <2>2, FindWritten, FirstLine DEF WrittenIn
    <2>4. block.tokens[at].line = 1
      BY <2>2, <2>3, WrittenLine DEF Places
    <2>5. Len(block.lines) \in {3, 4} /\ (Len(block.lines) = 4 <=> IsPart)
      BY Layout DEF Trail
    <2>6. line = 2
      BY <2>4, <2>5 DEF FindNextLine
    <2>7. parts = IF IsPart THEN {2} ELSE {}
      <3>1. CASE IsPart
        <4>1. block.lines = <<"begin", "part", "data", "end">> /\ Len(block.lines) = 4
          BY <2>5, <3>1, Layout
        <4>2. /\ block.lines[1] = "begin" /\ block.lines[2] = "part"
              /\ block.lines[3] = "data" /\ block.lines[4] = "end"
          BY <4>1
        <4> HIDE DEF line
        <4>3. \A k \in 1 .. 4 : (k >= 2 /\ block.lines[k] = "part") <=> k = 2
          BY <4>2
        <4>4. parts = {k \in 1 .. 4 : k >= 2 /\ block.lines[k] = "part"}
          BY <2>6, <4>1
        <4> HIDE DEF parts
        <4>5. QED
          BY <3>1, <4>3, <4>4
      <3>2. CASE ~IsPart
        <4>1. block.lines = <<"begin", "data", "end">> /\ Len(block.lines) = 3
          BY <2>5, <3>2, Layout
        <4>2. block.lines[1] = "begin" /\ block.lines[2] = "data" /\ block.lines[3] = "end"
          BY <4>1
        <4> HIDE DEF line
        <4>3. \A k \in 1 .. 3 : block.lines[k] # "part"
          BY <4>2
        <4>4. QED
          BY <3>2, <4>1, <4>3
      <3>3. QED
        BY <3>1, <3>2, Layout
    <2>8. info = AsRead(Done("ypart"))
      BY <1>6 DEF Reading
    <2>9. IsPart => "part" \in DOMAIN info
      <3>1. "part" \in Done("ypart")
        BY DEF Done, HeaderTags
      <3>2. IsPart => "part" \in WrittenTags
        BY DEF AsWritten, WrittenTags
      <3>3. QED
        BY <2>8, <3>1, <3>2 DEF AsRead, OutOfReach
    <2> HIDE DEF parts, line
    <2>10. CASE IsPart
      <3>1. pbLine' = 2 /\ pc' = "begin" /\ UNCHANGED <<info, error>>
        BY <2>1, <2>5, <2>6, <2>7, <2>9, <2>10, SMTT(30)
      <3>2. Done("begin") = Done("ypart")
        BY DEF Done
      <3>3. Accepted(pc', error')
        BY <1>6, <3>1, AcceptedStep
      <3>4. QED
        BY <2>8, <2>10, <3>1, <3>2, <3>3
    <2>11. CASE ~IsPart
      <3>1. pbLine' = 2 /\ pc' = "subject" /\ UNCHANGED <<info, error>>
        BY <2>1, <2>5, <2>6, <2>7, <2>11, SMTT(30)
      <3>2. /\ WrittenTags \cap Done("subject") = WrittenTags \cap Done("ypart")
            /\ (WrittenTags \ OutOfReach) \cap Done("subject")
                 = (WrittenTags \ OutOfReach) \cap Done("ypart")
        <4>1. \A tag \in WrittenTags : tag \notin {"begin", "end"}
          BY <2>11, WrittenLine
        <4>2. QED
          BY <4>1 DEF Done
      <3>3. info' = AsRead(Done("subject"))
        BY <2>8, <3>1, <3>2 DEF AsRead
      <3>4. Accepted(pc', error')
        BY <1>6, <3>1, AcceptedStep
      <3>5. QED
        BY <2>11, <3>1, <3>3, <3>4
    <2>12. QED
      BY <2>10, <2>11
  <1>7. CASE pc \in {"begin", "end"}
    <2> DEFINE tag == pc
               step == IF pc = "begin" THEN "end" ELSE "data"
    <2>1. pbLine = 2 /\ IsPart /\ info = AsRead(Done(pc))
      BY <1>7 DEF Reading
    <2>2. Required(tag, FindFrom(tag, 2), step)
      BY <1>7, <2>1, StepAt DEF Begin, End
    <2>3. tag \in WrittenTags /\ tag \in Numbers
      BY <1>7, <2>1 DEF AsWritten, WrittenTags, Numbers
    <2>4. Reads(tag, step)
      BY <1>1, <1>7, <2>2, <2>3, NumberReads
    <2>5. Done(step) = Done(pc) \cup {tag}
      BY <1>7 DEF Done
    <2>6. info' = AsRead(Done(step)) /\ pc' = step /\ UNCHANGED <<error, pbLine>>
      <3>1. tag # "pcrc32"
        BY <1>7
      <3>2. QED
        BY <2>1, <2>4, <2>5, <3>1, ReadMore
    <2>7. Accepted(pc', error')
      BY <1>7, <2>6, AcceptedStep
    <2>8. QED
      BY <1>7, <2>1, <2>6, <2>7
  <1>8. CASE pc = "data"
    <2> DEFINE at == FindFrom("end", pbLine)
    <2>1. pbLine = 2 /\ IsPart /\ info = AsRead(Done(pc))
      BY <1>8 DEF Reading
    <2>2. /\ pc' = "subject" /\ UNCHANGED <<info, error>>
          /\ pbLine' = FindNextLine(block.tokens[at].line)
      BY <1>8, StepAt DEF Data
    <2>3. "end" \in WrittenTags
      BY <2>1 DEF AsWritten, WrittenTags
    <2>4. at = WrittenAt("end")
      <3>1. 2 \in 1 .. Len(block.lines)
        BY <2>1, Layout DEF Trail
      <3>2. WrittenIn("end") = 2
        BY DEF WrittenIn
      <3>3. QED
        BY <1>1, <2>1, <2>3, <3>1, <3>2, FindWritten
    <2>5. block.tokens[at].line = 2
      BY <2>3, <2>4, WrittenLine DEF Places
    <2> HIDE DEF at
    <2>6. Len(block.lines) = 4
      BY <2>1, Layout DEF Trail
    <2>7. pbLine' = 3
      BY <2>2, <2>5, <2>6 DEF FindNextLine
    <2>8. Done("subject") = Done(pc)
      BY <1>8 DEF Done
    <2>9. Accepted(pc', error')
      BY <1>8, <2>2, AcceptedStep
    <2>10. QED
      BY <2>1, <2>2, <2>7, <2>8, <2>9
  <1>9. QED
    BY <1>2, <1>3, <1>5, <1>6, <1>7, <1>8, <1>4, StepAt
-----------------------------------------------------------------------------
(* The steps after DecoderInitialize. *)

(* The numbers of the subject are those of the header. *)
LEMMA SubjectAgrees ==
  ASSUME block \in Blocks, subject \in Subjects, AsWritten, info = AsRead(Done("subject"))
  PROVE  DecoderGetSubjectParts(subject, info) = info
  <1> DEFINE n == Len(subject)
             I == {k \in 1 .. n : \A i \in {1, 2} : subject[k][i] % (UINT_MAX + 1) # 0}
             last == IF I # {} THEN Max(I) ELSE 0
             part == WrittenValue("part")
             total == WrittenValue("total")
  <1>1. DecoderGetSubjectParts(subject, info) =
          IF last = 0
          THEN info
          ELSE WithParts(info, <<Cut("part", subject[last][1]),
                                 Cut("total", subject[last][2])>>)
    BY DEF DecoderGetSubjectParts, SelectLastInSeq
  <1>2. subject \in Seq(Nat \X Nat) /\ n \in Nat /\ I \in SUBSET (1 .. n)
    BY SubjectsAssumption
  <1>3. (last = 0 => I = {}) /\ (last # 0 => last \in I /\ \A k \in I : last >= k)
    <2> HIDE DEF n, I
    <2> QED
      BY <1>2, LastPlace
  <1> HIDE DEF last
  <1>4. CASE subject = <<>>
    <2>1. n = 0
      BY <1>4
    <2>2. last = 0
      BY <1>2, <1>3, <2>1
    <2>3. QED
      BY <1>1, <2>2
  <1>5. CASE subject # <<>>
    <2>1. {"part", "total"} \subseteq WrittenTags /\ subject[n] = <<part, total>>
      BY <1>5 DEF AsWritten, WrittenTags
    <2>2. /\ part \in 0 .. Mask("part") /\ part \in Limits("part")
          /\ total \in 0 .. Mask("total") /\ total \in Limits("total")
      BY <2>1, WrittenNumber
    <2>3. part \in 1 .. USHRT_MAX /\ total \in 1 .. USHRT_MAX
      BY <2>2 DEF Limits, Mask
    <2>4. Cut("part", part) = part /\ Cut("total", total) = total
      BY <2>2, CutSmall
    <2> HIDE DEF part, total
    <2>5. part % (UINT_MAX + 1) = part /\ total % (UINT_MAX + 1) = total
      BY <2>3, ModSmall, WidthsAssumption
    <2>6. n \in 1 .. n
      BY <1>2, <1>5
    <2>7. n \in I
      BY <2>1, <2>3, <2>5, <2>6
    <2>8. last = n
      <3> HIDE DEF n, I
      <3>1. last \in I /\ last >= n
        BY <1>3, <2>7
      <3>2. last \in 1 .. n
        BY <1>2, <3>1
      <3>3. QED
        BY <1>2, <3>1, <3>2
    <2>9. last # 0 /\ subject[last] = <<part, total>>
      BY <2>1, <2>6, <2>8
    <2>10. DecoderGetSubjectParts(subject, info) = WithParts(info, <<part, total>>)
      BY <1>1, <2>4, <2>9
    <2>11. /\ DOMAIN info = (WrittenTags \ OutOfReach) \cap Done("subject")
           /\ \A tag \in DOMAIN info : info[tag] = WrittenValue(tag)
           /\ info = [tag \in DOMAIN info |-> info[tag]]
      BY DEF AsRead
    <2>12. {"part", "total"} \subseteq DOMAIN info
      BY <2>1, <2>11 DEF Done, HeaderTags, OutOfReach
    <2>13. info["part"] = part /\ info["total"] = total
      BY <2>11, <2>12 DEF part, total
    <2>14. WithParts(info, <<part, total>>) = [tag \in DOMAIN info |-> info[tag]]
      BY <2>12, <2>13 DEF WithParts
    <2>15. QED
      BY <2>10, <2>11, <2>14
  <1>6. QED
    BY <1>4, <1>5

(* The subject changes nothing. *)
LEMMA ReadingSubject == ASSUME IInv, Reading, Subject PROVE Reading'
  <1>1. /\ pc = "subject" /\ pc' = "prepare" /\ block \in Blocks /\ subject \in Subjects
        /\ UNCHANGED <<block, subject, error, pbLine>>
        /\ info' = DecoderGetSubjectParts(subject, info)
    BY DEF Subject, input, parsed, IInv, Types
  <1>2. ASSUME AsWritten
        PROVE  /\ Accepted(pc', error')
               /\ info' = AsRead(Done("prepare"))
               /\ pbLine = (IF IsPart THEN 3 ELSE 2)
    <2>1. info = AsRead(Done("subject")) /\ pbLine = (IF IsPart THEN 3 ELSE 2)
      BY <1>1, <1>2 DEF Reading
    <2>2. info' = info
      BY <1>1, <1>2, <2>1, SubjectAgrees
    <2>3. Done("prepare") = Done("subject")
      BY DEF Done
    <2>4. Accepted(pc', error')
      BY <1>1, <1>2, AcceptedStep
    <2>5. QED
      BY <2>1, <2>2, <2>3, <2>4
  <1>3. QED
    BY <1>1, <1>2, ReadingKept

(* Nor do the limits of the stream and the decoder. *)
LEMMA ReadingPrepare == ASSUME Reading, Prepare PROVE Reading'
  <1>1. /\ pc = "prepare" /\ UNCHANGED <<block, subject, info, pbLine>>
        /\ \/ pc' = "text" /\ error' = "too large"
           \/ pc' = "decode" /\ error' = error
    BY DEF Prepare, input
  <1>2. Done("decode") = Done("prepare")
    BY DEF Done
  <1>3. ASSUME AsWritten
        PROVE  /\ Accepted(pc', error')
               /\ info' = AsRead(Done("decode")) /\ pbLine' = (IF IsPart THEN 3 ELSE 2)
    <2>1. Accepted(pc, error)
      BY <1>3 DEF Reading
    <2>2. Accepted(pc', error')
      BY <1>1, <2>1 DEF Accepted
    <2>3. QED
      BY <1>1, <1>2, <1>3, <2>2 DEF Reading
  <1>4. QED
    BY <1>1, <1>3, ReadingKept

(* The data of such a block is found, and decoded without an exception. *)
LEMMA ReadingDecode == ASSUME Reading, Decode PROVE Reading'
  <1>1. /\ pc = "decode" /\ UNCHANGED <<block, subject, info, pbLine>>
        /\ \/ pbLine = NoLine
           \/ pc' = "text" /\ error' = "not decoded"
           \/ pc' = "yend" /\ error' = error
    BY DEF Decode, input
  <1>2. Done("yend") = Done("decode")
    BY DEF Done
  <1>3. ASSUME AsWritten
        PROVE  /\ Accepted(pc', error') /\ pc' \in {"text", "yend"}
               /\ info' = AsRead(Done("yend")) /\ pbLine' = (IF IsPart THEN 3 ELSE 2)
    <2>1. /\ Accepted(pc, error) /\ info = AsRead(Done("decode"))
          /\ pbLine = (IF IsPart THEN 3 ELSE 2)
      BY <1>1, <1>3 DEF Reading
    <2>2. pbLine # NoLine
      BY <2>1 DEF NoLine
    <2>3. Accepted(pc', error')
      BY <1>1, <2>1, <2>2 DEF Accepted
    <2>4. QED
      BY <1>1, <1>2, <2>1, <2>2, <2>3
  <1>4. QED
    BY <1>1, <1>3, ReadingKept

(* What stands behind a place in the data stands in the trailer. *)
LEMMA BehindTheData ==
  ASSUME block \in Blocks, AsWritten, NEW at \in Start(Trail - 1) .. Start(Trail),
         NEW k \in DOMAIN block.tokens
  PROVE  at <= block.tokens[k].from <=> block.tokens[k].line = Trail
  <1> DEFINE line == block.tokens[k].line
             from == block.tokens[k].from
  <1>1. Trail \in {3, 4} /\ line \in 1 .. Trail /\ line # Trail - 1
    BY TokenPlaces, Layout
  <1>2. Trail \in 1 .. Len(block.lines) /\ Trail - 1 \in 1 .. Len(block.lines)
    <2>1. ASSUME NEW n \in {3, 4} PROVE n \in 1 .. n /\ n - 1 \in 1 .. n
      OBVIOUS
    <2>2. Len(block.lines) \in {3, 4}
      BY <1>1 DEF Trail
    <2>3. QED
      BY <2>1, <2>2 DEF Trail
  <1>3. /\ Start(Trail) <= from <=> Trail <= line
        /\ Start(Trail - 1) <= from <=> Trail - 1 <= line
        /\ from \in Nat
    BY <1>2, TokenOrder
  <1>4. Start(Trail) \in Nat /\ Start(Trail - 1) \in Nat
    <2>1. block.size \in Nat
      BY BlockType
    <2>2. Start(Trail) \in 0 .. block.size /\ Start(Trail - 1) \in 0 .. block.size
      <3>1. Trail \in Nat /\ Trail - 1 \in Nat
        BY <1>1
      <3>2. QED
        BY <3>1, StartType
    <2>3. QED
      BY <2>1, <2>2
  <1> HIDE DEF line, from
  <1>5. at <= from <=> line = Trail
    BY <1>1, <1>3, <1>4
  <1>6. QED
    BY <1>5 DEF line, from

(* A search from there finds an attribute of the trailer if it ends in time. *)
LEMMA FindInTrailer ==
  ASSUME block \in Blocks, AsWritten, NEW at \in Start(Trail - 1) .. Start(Trail),
         NEW tag, NEW to
  PROVE  LET found == FindAttributeTag(tag, at, to)
         IN  /\ found # 0 => /\ found \in Places(Trail) /\ block.tokens[found].tag = tag
                             /\ block.tokens[found].to <= to
             /\ \A k \in Places(Trail) :
                  block.tokens[k].tag = tag /\ block.tokens[k].to <= to => found # 0 /\ found = k
  <1> DEFINE found == FindAttributeTag(tag, at, to)
  <1>1. ASSUME found # 0
        PROVE  /\ found \in Places(Trail) /\ block.tokens[found].tag = tag
               /\ block.tokens[found].to <= to
    <2>1. /\ found \in DOMAIN block.tokens /\ block.tokens[found].tag = tag
          /\ at <= block.tokens[found].from /\ block.tokens[found].to <= to
      BY <1>1, FoundWithin
    <2> HIDE DEF found
    <2>2. block.tokens[found].line = Trail
      BY <2>1, BehindTheData
    <2>3. QED
      BY <2>1, <2>2 DEF Places
  <1>2. ASSUME NEW k \in Places(Trail), block.tokens[k].tag = tag, block.tokens[k].to <= to
        PROVE  found # 0 /\ found = k
    <2>1. k \in DOMAIN block.tokens /\ block.tokens[k].line = Trail
      BY DEF Places
    <2>2. at <= block.tokens[k].from
      BY <2>1, BehindTheData
    <2>3. found # 0
      BY <1>2, <2>1, <2>2, FoundWithin
    <2>4. found \in Places(Trail) /\ block.tokens[found].tag = tag
      BY <1>1, <2>3
    <2> HIDE DEF found
    <2>5. found = k
      <3>1. found \in DOMAIN block.tokens /\ block.tokens[found].line = Trail
        BY <2>4 DEF Places
      <3>2. QED
        BY <1>2, <2>1, <2>4, <3>1, OnePlace
    <2>6. QED
      BY <2>3, <2>5
  <1> HIDE DEF found
  <1>3. QED
    BY <1>1, <1>2 DEF found

(* The size of the trailer is found. *)
LEMMA FindTrailSize ==
  ASSUME block \in Blocks, AsWritten, NEW at \in Start(Trail - 1) .. Start(Trail)
  PROVE  /\ FindAttributeTag("size", at, block.size) = TrailSize
         /\ TrailSize # 0
  <1>1. PICK k \in Places(Trail) : block.tokens[k].tag = "size"
    BY DEF AsWritten, Tags
  <1>2. TrailSize \in Places(Trail) /\ block.tokens[TrailSize].tag = "size"
    BY <1>1 DEF TrailSize
  <1>3. block.tokens[TrailSize].to <= block.size
    <2>1. TrailSize \in DOMAIN block.tokens
      BY <1>2 DEF Places
    <2>2. QED
      BY <2>1, TokenOrder
  <1>4. QED
    BY <1>2, <1>3, FindInTrailer

(* The window of the trailer has everything in it but a checksum of the part that
   is out of reach, and the part number there is that of the header. *)
LEMMA FindTrailer ==
  ASSUME block \in Blocks, AsWritten, NEW at \in Start(Trail - 1) .. Start(Trail),
         at = data.at, NEW tag \in {"crc32", "pcrc32", "part"}
  PROVE  LET found == FindAttributeTag(tag, at, TrailWindow)
         IN  /\ found # 0 => /\ tag \in WrittenTags \ OutOfReach
                             /\ Cut(tag, ValueAt(found)) = WrittenValue(tag)
             /\ tag = "pcrc32" /\ tag \in WrittenTags \ OutOfReach => found # 0
  <1> DEFINE found == FindAttributeTag(tag, at, TrailWindow)
             width == block.tokens[TrailSize].to - block.tokens[TrailSize].from
  <1>1. TrailWindow = block.size - width
    BY FindTrailSize DEF TrailWindow
  <1>2. block.size \in Nat /\ width \in Int
    <2>1. block.size \in Nat
      BY BlockType
    <2>2. TrailSize \in DOMAIN block.tokens
      <3>1. PICK k \in Places(Trail) : block.tokens[k].tag = "size"
        BY DEF AsWritten, Tags
      <3>2. TrailSize \in Places(Trail)
        BY <3>1 DEF TrailSize
      <3>3. QED
        BY <3>2 DEF Places
    <2>3. block.tokens[TrailSize].to \in Nat /\ block.tokens[TrailSize].from \in Nat
      BY <2>2, TokenOrder
    <2>4. QED
      BY <2>1, <2>3
  <1>3. /\ found # 0 => /\ found \in Places(Trail) /\ block.tokens[found].tag = tag
                        /\ block.tokens[found].to <= TrailWindow
        /\ \A k \in Places(Trail) :
             block.tokens[k].tag = tag /\ block.tokens[k].to <= TrailWindow =>
               found # 0 /\ found = k
    BY FindInTrailer
  <1>4. OutOfReach = {t \in Tags(Trail) \cap {"pcrc32"} :
                        block.tokens[WrittenAt(t)].to + width > block.size}
    BY DEF OutOfReach
  <1> HIDE DEF found, width
  <1>5. ASSUME NEW k \in Places(Trail) PROVE block.tokens[k].to \in Nat
    BY TokenOrder DEF Places
  <1>6. CASE tag = "part"
    <2>1. ASSUME found # 0
          PROVE  /\ tag \in WrittenTags \ OutOfReach
                 /\ Cut(tag, ValueAt(found)) = WrittenValue(tag)
      <3>1. found \in Places(Trail) /\ block.tokens[found].tag = "part"
        BY <1>3, <1>6, <2>1
      <3>2. "part" \in Tags(Trail) /\ found \in DOMAIN block.tokens
        BY <3>1 DEF Tags, Places
      <3>3. "part" \in WrittenTags
        BY <3>2 DEF WrittenTags
      <3>4. block.tokens[found].value = WrittenValue("part")
        BY <3>1, <3>2 DEF AsWritten
      <3>5. WrittenValue("part") \in 0 .. Mask("part")
        BY <3>3, WrittenNumber
      <3>6. QED
        BY <1>4, <1>6, <3>3, <3>4, <3>5, CutSmall DEF ValueAt
    <2>2. QED
      BY <1>6, <2>1 DEF found
  <1>7. CASE tag \in {"crc32", "pcrc32"}
    <2> DEFINE w == WrittenAt(tag)
    <2>1. ASSUME tag \in WrittenTags
          PROVE  /\ w \in Places(Trail) /\ block.tokens[w].tag = tag
                 /\ Cut(tag, ValueAt(w)) = WrittenValue(tag) /\ tag \in Tags(Trail)
      <3>1. WrittenIn(tag) = Trail
        BY <1>7 DEF WrittenIn
      <3>2. w \in Places(Trail) /\ block.tokens[w].tag = tag /\ tag \in Tags(Trail)
        BY <2>1, <3>1, WrittenLine
      <3>3. Cut(tag, ValueAt(w)) = WrittenValue(tag)
        BY <1>7, <2>1, WrittenNumber
      <3>4. QED
        BY <3>2, <3>3
    <2>2. ASSUME tag \in WrittenTags
          PROVE  tag = "pcrc32" =>
                   (tag \notin OutOfReach <=> block.tokens[w].to <= TrailWindow)
      <3>1. w \in Places(Trail) /\ tag \in Tags(Trail)
        BY <2>1, <2>2
      <3>2. block.tokens[w].to \in Nat
        BY <1>5, <3>1
      <3>3. tag = "pcrc32" =>
              (tag \in OutOfReach <=> block.tokens[w].to + width > block.size)
        BY <1>4, <3>1
      <3> HIDE DEF w
      <3>4. QED
        BY <1>1, <1>2, <3>2, <3>3
    <2>3. ASSUME found # 0
          PROVE  /\ tag \in WrittenTags \ OutOfReach
                 /\ Cut(tag, ValueAt(found)) = WrittenValue(tag)
      <3>1. /\ found \in Places(Trail) /\ block.tokens[found].tag = tag
            /\ block.tokens[found].to <= TrailWindow
        BY <1>3, <2>3
      <3>2. tag \in Tags(Trail)
        BY <3>1 DEF Tags
      <3>3. tag \in WrittenTags
        BY <1>7, <3>2 DEF WrittenTags
      <3>4. w \in Places(Trail) /\ block.tokens[w].tag = tag
        BY <2>1, <3>3
      <3>5. found = w
        BY <3>1, <3>4, OnePlace DEF Places
      <3>6. tag \notin OutOfReach
        <4>1. tag = "crc32" => tag \notin OutOfReach
          BY <1>4
        <4> HIDE DEF w
        <4>2. tag = "pcrc32" => tag \notin OutOfReach
          BY <2>2, <3>1, <3>3, <3>5
        <4>3. QED
          BY <1>7, <4>1, <4>2
      <3>7. QED
        BY <2>1, <3>3, <3>5, <3>6
    <2>4. ASSUME tag = "pcrc32", tag \in WrittenTags \ OutOfReach PROVE found # 0
      <3>1. w \in Places(Trail) /\ block.tokens[w].tag = tag /\ block.tokens[w].to <= TrailWindow
        BY <2>1, <2>2, <2>4
      <3> HIDE DEF w
      <3>2. QED
        BY <1>3, <3>1
    <2>5. QED
      BY <2>3, <2>4 DEF found
  <1>8. QED
    BY <1>6, <1>7

(* The trailer adds the checksum of the part. *)
LEMMA ReadingTrailer == ASSUME IInv, Reading, Trailer PROVE Reading'
  <1> DEFINE At(tag) == FindAttributeTag(tag, data.at, TrailWindow)
             size == FindAttributeTag("size", data.at, block.size)
             read == {t \in {"crc32", "pcrc32", "part"} : At(t) # 0}
             next == [t \in read \cup DOMAIN info |->
                        IF t \in read THEN Cut(t, ValueAt(At(t))) ELSE info[t]]
  <1>1. /\ pc = "yend" /\ UNCHANGED <<block, subject>> /\ block \in Blocks
        /\ \/ size = 0
           \/ info' = next /\ pc' = "file" /\ UNCHANGED <<error, pbLine>>
    BY DEF Trailer, input, parsed, IInv, Types
  <1>2. ASSUME AsWritten
        PROVE  /\ Accepted(pc', error') /\ pc' = "file" /\ info' = AsRead(Done("file"))
    <2>1. info = AsRead(Done("yend")) /\ pbLine = (IF IsPart THEN 3 ELSE 2)
      BY <1>1, <1>2 DEF Reading
    <2>2. data.at \in Start(Trail - 1) .. Start(Trail)
      <3>1. data.at \in Start(pbLine) .. Start(Trail)
        BY <1>1 DEF IInv, Types, Trail
      <3>2. pbLine = Trail - 1
        BY <1>2, <2>1, Layout
      <3>3. QED
        BY <3>1, <3>2
    <2>3. size # 0
      BY <1>1, <1>2, <2>2, FindTrailSize
    <2>4. \A t \in {"crc32", "pcrc32", "part"} :
            /\ At(t) # 0 => /\ t \in WrittenTags \ OutOfReach
                            /\ Cut(t, ValueAt(At(t))) = WrittenValue(t)
            /\ t = "pcrc32" /\ t \in WrittenTags \ OutOfReach => At(t) # 0
      BY <1>1, <1>2, <2>2, FindTrailer
    <2> DEFINE R == WrittenTags \ OutOfReach
    <2>5. /\ DOMAIN info = R \cap Done("yend")
          /\ \A tag \in DOMAIN info : info[tag] = WrittenValue(tag)
      BY <2>1 DEF AsRead
    <2> HIDE DEF At, R
    <2>6. read \subseteq {"crc32", "pcrc32", "part"}
      OBVIOUS
    <2>7. /\ DOMAIN next = read \cup DOMAIN info
          /\ next = [t \in DOMAIN next |-> next[t]]
          /\ \A t \in DOMAIN next : next[t] = IF t \in read
                                              THEN Cut(t, ValueAt(At(t)))
                                              ELSE info[t]
      BY Zenon
    <2>8. info' = next /\ pc' = "file" /\ error' = error
      BY <1>1, <2>3
    <2>9. /\ \A t \in read : t \in R /\ Cut(t, ValueAt(At(t))) = WrittenValue(t)
          /\ "pcrc32" \in R => "pcrc32" \in read
      BY <2>4 DEF R
    <2> HIDE DEF read, next
    <2>10. read \cup DOMAIN info = R \cap Done("file")
      <3>1. Done("file") = Done("yend") \cup {"pcrc32"}
        BY DEF Done
      <3>2. {"crc32", "part"} \subseteq Done("yend")
        BY DEF Done, HeaderTags
      <3> HIDE DEF Done
      <3>3. QED
        BY <2>5, <2>6, <2>9, <3>1, <3>2
    <2>11. \A t \in DOMAIN next : next[t] = WrittenValue(t)
      BY <2>5, <2>7, <2>9
    <2>12. next = [t \in R \cap Done("file") |-> WrittenValue(t)]
      BY <2>7, <2>10, <2>11
    <2>13. Accepted(pc', error')
      BY <1>1, <1>2, <2>8, AcceptedStep
    <2>14. QED
      BY <2>8, <2>12, <2>13 DEF AsRead, R
  <1>3. QED
    BY <1>1, <1>2, ReadingKept

LEMMA ReadingAttach == ASSUME Reading, FileName \/ Attach PROVE Reading'
  <1>1. /\ UNCHANGED <<block, subject, info, error, pbLine>>
        /\ \/ pc = "file" /\ pc' = "attach"
           \/ pc = "attach" /\ pc' \in {"done", "fallback"}
    BY DEF FileName, Attach, input, parsed
  <1>2. Done(pc') = Done(pc)
    BY <1>1 DEF Done
  <1>3. ASSUME AsWritten
        PROVE  Accepted(pc', error') /\ info' = AsRead(Done(pc'))
    <2>1. Accepted(pc', error')
      BY <1>1, <1>3, AcceptedStep
    <2>2. QED
      BY <1>1, <1>2, <1>3, <2>1 DEF Reading
  <1>4. QED
    BY <1>1, <1>3, ReadingKept

(* So the record is always what has been read. *)
LEMMA ReadingInvariant == Spec => [](IInv /\ Reading)
  <1>1. Init => Reading
    BY DEF Init, Reading, Accepted
  <1>2. ASSUME Reading, UNCHANGED vars PROVE Reading'
    <2>1. UNCHANGED <<block, subject, pc, info, error, pbLine>>
      BY <1>2 DEF vars
    <2>2. QED
      BY <1>2, <2>1, ReadingKept DEF Reading
  <1>3. IInv /\ Reading /\ [Next]_vars => Reading'
    BY <1>2, ReadingHeader, ReadingSubject, ReadingPrepare, ReadingDecode, ReadingTrailer,
       ReadingAttach DEF Next
  <1>4. QED
    BY <1>1, <1>3, IInvInvariant, PTL DEF Spec

(* In the end all that is written has been read. *)
LEMMA AllIsRead ==
  ASSUME AsWritten, Reading, pc \in Attached \cup {"file"}
  PROVE  info = [tag \in WrittenTags \ OutOfReach |-> WrittenValue(tag)]
  <1>1. info = AsRead(Done(pc))
    BY DEF Reading, Attached
  <1>2. Done(pc) = HeaderTags \cup {"crc32", "begin", "end", "pcrc32"}
    BY DEF Done, Attached
  <1>3. WrittenTags \subseteq Done(pc)
    BY <1>2, WrittenLine
  <1>4. (WrittenTags \ OutOfReach) \cap Done(pc) = WrittenTags \ OutOfReach
    BY <1>3
  <1>5. QED
    BY <1>1, <1>4 DEF AsRead

(* A block as written is accepted if and only if its size is in reach, and then
   its record holds what was written, but for a checksum of the part that is out
   of reach. *)
THEOREM WrittenIsRead == Spec => []ReadsWhatWasWritten
  <1>1. Reading => ReadsWhatWasWritten
    <2> SUFFICES ASSUME Reading, AsWritten,
                        pc \in {"text", "exception", "file", "attach", "done"}
                 PROVE  /\ pc # "exception"
                        /\ error \in {"none", "too large", "not decoded", "missing tag"}
                        /\ error = "missing tag" <=> ~SizeInReach
                        /\ pc # "text" =>
                             info = [tag \in WrittenTags \ OutOfReach |-> WrittenValue(tag)]
      BY DEF ReadsWhatWasWritten
    <2>1. Accepted(pc, error)
      BY DEF Reading
    <2>2. /\ pc # "exception"
          /\ error \in {"none", "too large", "not decoded", "missing tag"}
          /\ error = "missing tag" <=> ~SizeInReach
      BY <2>1 DEF Accepted
    <2>3. pc # "text" => info = [tag \in WrittenTags \ OutOfReach |-> WrittenValue(tag)]
      BY <2>2, AllIsRead DEF Attached
    <2>4. QED
      BY <2>2, <2>3
  <1>2. QED
    BY <1>1, ReadingInvariant, PTL
-----------------------------------------------------------------------------
(* What the decoder takes for the size of a part is the written one. *)
LEMMA ModOnce == ASSUME NEW m \in Nat, NEW x \in 0 .. m - 1
                 PROVE  (x + m) % m = x
  OBVIOUS

(* The size of the part does not wrap. *)
LEMMA SizeIsWritten ==
  ASSUME block \in Blocks, AsWritten,
         info = [tag \in WrittenTags \ OutOfReach |-> WrittenValue(tag)]
  PROVE  DecoderGetPartSize(info) = WrittenSize /\ WrittenSize \in Nat \ {0}
  <1>1. ASSUME NEW tag \in WrittenTags, tag # "pcrc32"
        PROVE  tag \in DOMAIN info /\ info[tag] = WrittenValue(tag)
    <2>1. tag \in WrittenTags \ OutOfReach
      BY <1>1 DEF OutOfReach
    <2>2. QED
      BY <2>1
  <1>2. CASE IsPart
    <2> DEFINE b == WrittenValue("begin")
               e == WrittenValue("end")
    <2>1. {"begin", "end"} \subseteq WrittenTags /\ b <= e
      BY <1>2 DEF AsWritten, WrittenTags
    <2>2. b \in Limits("begin") /\ e \in Limits("end")
      BY <2>1, WrittenNumber
    <2>3. b \in 1 .. UINT_MAX - 1 /\ e \in 2 .. UINT_MAX
      BY <2>2 DEF Limits
    <2>4. DecoderGetPartSize(info) = (e + 1 + UINT_MAX + 1 - b) % (UINT_MAX + 1)
      BY <1>1, <2>1 DEF DecoderGetPartSize
    <2>5. WrittenSize = e - b + 1
      BY <1>2 DEF WrittenSize
    <2> HIDE DEF b, e
    <2> DEFINE m == UINT_MAX + 1
               size == e - b + 1
    <2>6. size \in 1 .. m - 1 /\ m \in Nat
      BY <2>1, <2>3, WidthsAssumption
    <2>7. e + 1 + UINT_MAX + 1 - b = size + m
      BY <2>3, WidthsAssumption
    <2>8. DecoderGetPartSize(info) = (size + m) % m /\ WrittenSize = size
      BY <2>4, <2>5, <2>7
    <2> HIDE DEF m, size
    <2>9. QED
      BY <2>6, <2>8, ModOnce
  <1>3. CASE ~IsPart
    <2>1. "begin" \notin WrittenTags
      BY <1>3, WrittenLine
    <2>2. "size" \in WrittenTags
      BY DEF AsWritten, WrittenTags
    <2>3. DecoderGetPartSize(info) = WrittenValue("size")
      <3>1. "begin" \notin DOMAIN info
        BY <2>1
      <3>2. QED
        BY <1>1, <2>2, <3>1 DEF DecoderGetPartSize, Value
    <2>4. WrittenValue("size") \in Limits("size")
      BY <2>2, WrittenNumber
    <2>5. QED
      BY <1>3, <2>3, <2>4, MaskType DEF Limits, WrittenSize
  <1>4. QED
    BY <1>2, <1>3, Layout

(* Of a block as written, an attachment whose size or checksum is not the written
   one is marked in its name, and no other: unless its size is right and the
   computed checksum is zero, or the checksum of the part is out of reach. *)
THEOREM DamageIsSeen == Spec => []DamageShowsInTheName
  <1>1. IInv /\ Reading => DamageShowsInTheName
    <2> SUFFICES ASSUME IInv, Reading, AsWritten, file.made, pc = "attach"
                 PROVE  /\ IsMarked => ~IsIntact \/ OutOfReach # {}
                        /\ ~IsIntact =>
                             \/ IsMarked
                             \/ data.size = WrittenSize /\ (data.crc = 0 \/ OutOfReach # {})
      BY DEF DamageShowsInTheName
    <2> DEFINE bad == <<BadCrc(info, data), BadSize(info, data)>>
               Right == IF "pcrc32" \in WrittenTags
                        THEN data.crc = WrittenValue("pcrc32")
                        ELSE "crc32" \in WrittenTags => data.crc = WrittenValue("crc32")
    <2>1. info = [tag \in WrittenTags \ OutOfReach |-> WrittenValue(tag)]
      BY AllIsRead DEF Attached
    <2>2. /\ block \in Blocks /\ IsRecord(info)
          /\ data \in Decoded(block.size)
          /\ data.decoded /\ data.crc \in Nat
      BY NamesAssumption DEF IInv, Types, Named, Attached
    <2>3. Marked(file.text) <=> bad # <<0, 0>>
      <3>1. file = DecoderMakeFileName(MAX_PATH, NameOf(info), CompOf(info),
                                       PartOfName(info), bad)
        BY DEF IInv, Named, Attached, DecoderGetFileName
      <3>2. IsNamed(MAX_PATH, NameOf(info), CompOf(info), PartOfName(info), bad)
        BY <2>2, NameArguments
      <3> HIDE DEF bad
      <3>3. QED
        BY <3>1, <3>2, MadeName
    <2>4. BadSize(info, data) # 0 <=> data.size # WrittenSize
      BY <2>1, <2>2, SizeIsWritten DEF BadSize
    <2>5. ASSUME OutOfReach = {}
          PROVE  BadCrc(info, data) # 0 <=> ~Right /\ data.crc # 0
      <3>1. /\ DOMAIN info = WrittenTags
            /\ \A tag \in WrittenTags : info[tag] = WrittenValue(tag)
        BY <2>1, <2>5
      <3>2. QED
        BY <2>2, <3>1 DEF BadCrc
    <2>6. IsMarked <=> Marked(file.text)
      BY DEF IsMarked, Marked
    <2>7. bad # <<0, 0>> <=> BadCrc(info, data) # 0 \/ BadSize(info, data) # 0
      OBVIOUS
    <2>8. IsIntact <=> data.size = WrittenSize /\ Right
      BY DEF IsIntact
    <2>9. IsMarked \in BOOLEAN /\ IsIntact \in BOOLEAN /\ Right \in BOOLEAN
      BY DEF IsMarked, IsIntact
    <2> HIDE DEF bad, Right
    <2>10. IsMarked <=> BadCrc(info, data) # 0 \/ data.size # WrittenSize
      BY <2>3, <2>4, <2>6, <2>7
    <2>11. CASE OutOfReach = {}
      BY <2>5, <2>8, <2>9, <2>10, <2>11
    <2>12. CASE OutOfReach # {}
      BY <2>8, <2>9, <2>10, <2>12
    <2>13. QED
      BY <2>11, <2>12
  <1>2. QED
    BY <1>1, ReadingInvariant, PTL
=============================================================================
