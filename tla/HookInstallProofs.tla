------------------------- MODULE HookInstallProofs --------------------------
(***************************************************************************)
(* Theorems of HookInstall and Relocation, for every procedure, every jump *)
(* that leads to it, any number of threads and every choice of the calls   *)
(* that fail.  Installation is inductive; Threading (what a thread has     *)
(* executed), Hooked and Safe (calls that start late) rest on it.  That    *)
(* instructions are copied entirely (Entire) also needs SizesAgree: what   *)
(* the decoder makes of the tables is the size of the instruction.         *)
(***************************************************************************)
EXTENDS HookInstall, FiniteSetTheorems, WellFoundedInduction, TLAPS

(* Every set of natural numbers that is not empty has a least one. *)
LEMMA LeastNumber ==
  ASSUME NEW S \in SUBSET Nat, S # {}
  PROVE  \E m \in S : \A n \in S : m <= n
  <1> DEFINE R == {r \in Nat \X Nat : r[1] < r[2]}
  <1>1. IsWellFoundedOn(R, Nat)
    BY NatLessThanWellFounded DEF OpToRel
  <1>2. PICK m \in S : \A n \in S : <<n, m>> \notin R
    <2> HIDE DEF R
    <2> QED
      BY <1>1, WFMin
  <1>3. \A n \in S : m \in Nat /\ n \in Nat /\ ~(n < m)
    BY <1>2
  <1>4. QED
    BY <1>3
-----------------------------------------------------------------------------
(* The sizes of instructions. *)
LEMMA Parts ==
  ASSUME NEW i \in Instruction, NEW x64 \in BOOLEAN
  PROVE  /\ i.op \in Opcodes /\ i.prefixes \subseteq Prefixes
         /\ i.mod \in 0 .. 3 /\ i.reg \in 0 .. 7 /\ i.rm \in 0 .. 7 /\ i.base \in 0 .. 7
         /\ Cardinality(i.prefixes) \in Nat /\ Leading(i) \in Nat
  <1>1. i.prefixes \subseteq Prefixes
    BY DEF Instruction
  <1>2. IsFiniteSet(Prefixes)
    <2>1. IsFiniteSet({}) /\ IsFiniteSet({"operand"}) /\ IsFiniteSet({"address"})
          /\ IsFiniteSet({"rexW"})
      BY FS_EmptySet, FS_Singleton
    <2>2. IsFiniteSet({"operand"} \cup {"address"})
      BY <2>1, FS_Union
    <2>3. IsFiniteSet(({"operand"} \cup {"address"}) \cup {"rexW"})
      BY <2>1, <2>2, FS_Union
    <2>4. Prefixes = ({"operand"} \cup {"address"}) \cup {"rexW"}
      BY DEF Prefixes
    <2>5. QED
      BY <2>3, <2>4
  <1>3. Cardinality(i.prefixes) \in Nat
    BY <1>1, <1>2, FS_Subset, FS_CardinalityType
  <1>4. QED
    BY <1>1, <1>3 DEF Instruction, Leading

LEMMA DisplacementBytes ==
  ASSUME NEW mod \in 0 .. 3, NEW none \in {0, 2, 4}, NEW long \in {2, 4}
  PROVE  /\ ByMod(mod, none, long) \in Nat
         /\ ByMod(mod, none, long) = IF mod = 0 THEN none ELSE IF mod = 1 THEN 1
                                     ELSE IF mod = 2 THEN long ELSE 0
  <1>1. mod = 0 \/ mod = 1 \/ mod = 2 \/ mod = 3
    OBVIOUS
  <1>2. /\ <<none, 1, long, 0>>[1] = none /\ <<none, 1, long, 0>>[2] = 1
        /\ <<none, 1, long, 0>>[3] = long /\ <<none, 1, long, 0>>[4] = 0
    OBVIOUS
  <1>3. QED
    BY <1>1, <1>2 DEF ByMod

LEMMA TrueSizePositive ==
  ASSUME NEW i \in Instruction, NEW x64 \in BOOLEAN
  PROVE  TrueSize(i, x64) \in Nat \ {0}
  <1>1. Leading(i) \in Nat /\ i.mod \in 0 .. 3
    BY Parts
  <1>2. AddressForm(i, x64) \in Nat
    BY <1>1, DisplacementBytes DEF AddressForm
  <1>3. OperandBytes(i, x64) \in Nat
    BY DEF OperandBytes
  <1>4. QED
    BY <1>1, <1>2, <1>3 DEF TrueSize

Table ==
  /\ \A op \in Opcodes : TableSize[op] \in Nat /\ (op # "invalid" => TableSize[op] > 0)
  /\ TableSize["push"] = 1 /\ TableSize["pushImm8"] = 2 /\ TableSize["pushImm"] = 3
  /\ TableSize["mov"] = 1 /\ TableSize["aluImm8"] = 2 /\ TableSize["movImm"] = 3
  /\ TableSize["movRegImm"] = 3 /\ TableSize["movOffset"] = 3 /\ TableSize["enter"] = 4
  /\ TableSize["test8"] = 1 /\ TableSize["test"] = 1 /\ TableSize["group5"] = 1
  /\ TableSize["movzx"] = 1 /\ TableSize["jcc8"] = 2 /\ TableSize["jcc"] = 3
  /\ TableSize["call"] = 3 /\ TableSize["ret"] = 1

LEMMA TableRows == Table
  BY DEF Table, Opcodes, TableSize

LEMMA SizePositive ==
  ASSUME NEW i \in Instruction, NEW x64 \in BOOLEAN
  PROVE  SizeOf(i, x64) \in Nat \ {0}
  <1>1. /\ Leading(i) \in Nat /\ i.mod \in 0 .. 3 /\ i.op \in Opcodes
    BY Parts
  <1>2. ModRMBytes(i, x64) \in Nat
    BY <1>1, DisplacementBytes DEF ModRMBytes, GetSizeOfSIB, GetSizeOfModRM
  <1>3. ASSUME i.op # "invalid"
        PROVE  OpInfoSize(i) \in Nat \ {0}
    BY <1>1, <1>3, TableRows DEF OpInfoSize, Table
  <1>4. AddressBytes(i, x64) \in Nat /\ ImmediateBytes(i, x64) \in Nat
    BY DEF AddressBytes, ImmediateBytes
  <1>5. QED
    BY <1>1, <1>2, <1>3, <1>4 DEF SizeOf, GetSizeOfOpCode

(* The instructions whose size the decoder gets right, as ReadRight has it. *)
Expected(i, x64) ==
  /\ i.op # "segment"
  /\ ~(i.op \in ModRM /\ i.rm = 4 /\ i.mod \in {1, 2} /\ i.base = 5)
  /\ x64 => /\ ~(i.op \in ModRM /\ Has(i, "address"))
            /\ ~{"operand", "rexW"} \subseteq i.prefixes

LEMMA AddressesAgree ==
  ASSUME NEW i \in Instruction, NEW x64 \in BOOLEAN, Expected(i, x64), i.op \in ModRM
  PROVE  ModRMBytes(i, x64) = 1 + AddressForm(i, x64)
  <1>1. i.mod \in 0 .. 3 /\ i.rm \in 0 .. 7 /\ i.base \in 0 .. 7
    BY Parts
  <1>2. CASE Has(i, "address")
    <2>1. x64 = FALSE
      BY <1>2 DEF Expected
    <2>2. QED
      BY <1>1, <1>2, <2>1, DisplacementBytes
         DEF ModRMBytes, AddressForm, IsEncodedSIB, GetSizeOfModRM
  <1>3. CASE ~Has(i, "address") /\ ~(i.mod # 3 /\ i.rm = 4)
    BY <1>1, <1>3, DisplacementBytes
       DEF ModRMBytes, AddressForm, IsEncodedSIB, GetSizeOfModRM
  <1>4. CASE ~Has(i, "address") /\ i.mod # 3 /\ i.rm = 4
    <2>1. /\ ModRMBytes(i, x64) = 1 + (1 + GetSizeOfSIB(i)) + ByMod(i.mod, 0, 4)
          /\ AddressForm(i, x64) = 1 + ByMod(i.mod, IF i.base = 5 THEN 4 ELSE 0, 4)
      BY <1>4 DEF ModRMBytes, AddressForm, IsEncodedSIB, GetSizeOfModRM
    <2>2. i.base = 5 => i.mod = 0
      BY <1>1, <1>4 DEF Expected
    <2>3. GetSizeOfSIB(i) = IF i.base = 5 THEN 4 ELSE 0
      BY <1>1, <2>2, DisplacementBytes DEF GetSizeOfSIB
    <2>4. QED
      BY <1>1, <2>1, <2>2, <2>3, DisplacementBytes
  <1>5. QED
    BY <1>2, <1>3, <1>4

LEMMA OperandsAgree ==
  ASSUME NEW i \in Instruction, NEW x64 \in BOOLEAN, Expected(i, x64),
         i.op # "invalid", ~(i.op = "group5" /\ i.reg \in {3, 5})
  PROVE  GetSizeOfOpCode(i, x64) = 1 + OperandBytes(i, x64)
  <1> DEFINE z == IF Has(i, "operand") /\ ~(x64 /\ Has(i, "rexW")) THEN 2 ELSE 4
             size == OpInfoSize(i) + AddressBytes(i, x64) + ImmediateBytes(i, x64)
  <1>1. z = IF Has(i, "operand") THEN 2 ELSE 4
    BY DEF Expected, Has
  <1>2. /\ i.op \in {"push", "pushImm8", "pushImm", "mov", "aluImm8", "movImm",
                     "movRegImm", "movOffset", "enter", "test8", "test", "group5",
                     "movzx", "jcc8", "jcc", "call", "ret"}
        /\ Table
    BY TableRows DEF Instruction, Opcodes, TableSize, Expected
  <1>3. CASE i.op \in {"push", "mov", "movzx", "ret"}
    <2>1. OpInfoSize(i) = 1 /\ AddressBytes(i, x64) = 0 /\ ImmediateBytes(i, x64) = 0
      BY <1>2, <1>3 DEF OpInfoSize, AddressBytes, ImmediateBytes, Table, IsAddress,
                        Extend64, Extends32, Extend32
    <2>2. OperandBytes(i, x64) = 0
      BY <1>3 DEF OperandBytes
    <2>3. QED
      BY <2>1, <2>2 DEF GetSizeOfOpCode
  <1>4. CASE i.op \in {"pushImm8", "aluImm8", "jcc8"}
    <2>1. OpInfoSize(i) = 2 /\ AddressBytes(i, x64) = 0 /\ ImmediateBytes(i, x64) = 0
      BY <1>2, <1>4 DEF OpInfoSize, AddressBytes, ImmediateBytes, Table, IsAddress,
                        Extend64, Extends32, Extend32
    <2>2. OperandBytes(i, x64) = 1
      BY <1>4 DEF OperandBytes
    <2>3. QED
      BY <2>1, <2>2 DEF GetSizeOfOpCode
  <1>5. CASE i.op \in {"pushImm", "movImm"}
    <2>1. /\ OpInfoSize(i) = 3 /\ AddressBytes(i, x64) = 0
          /\ ImmediateBytes(i, x64) = z - 2
      BY <1>1, <1>2, <1>5 DEF OpInfoSize, AddressBytes, ImmediateBytes, Table, IsAddress,
                        Extend64, Extends32, Extend32, IsRelative
    <2>2. OperandBytes(i, x64) = z
      BY <1>5 DEF OperandBytes
    <2>3. QED
      BY <1>1, <2>1, <2>2 DEF GetSizeOfOpCode
  <1>6. CASE i.op = "movRegImm"
    <2>1. /\ OpInfoSize(i) = 3 /\ AddressBytes(i, x64) = 0
          /\ ImmediateBytes(i, x64) = IF x64 /\ Has(i, "rexW") THEN 6 ELSE z - 2
      BY <1>1, <1>2, <1>6 DEF OpInfoSize, AddressBytes, ImmediateBytes, Table, IsAddress,
                        Extend64, Extends32, Extend32, IsRelative
    <2>2. OperandBytes(i, x64) = IF x64 /\ Has(i, "rexW") THEN 8 ELSE z
      BY <1>6 DEF OperandBytes
    <2>3. QED
      BY <1>1, <2>1, <2>2 DEF GetSizeOfOpCode
  <1>7. CASE i.op = "movOffset"
    <2>1. OpInfoSize(i) = 3 /\ ImmediateBytes(i, x64) = 0
      BY <1>2, <1>7 DEF OpInfoSize, ImmediateBytes, Table, Extend64, Extends32, Extend32
    <2>2. AddressBytes(i, x64) = IF x64 THEN (IF Has(i, "address") THEN 2 ELSE 6)
                                 ELSE (IF Has(i, "address") THEN 0 ELSE 2)
      BY <1>7 DEF AddressBytes, IsAddress
    <2>3. OperandBytes(i, x64) = IF x64 THEN (IF Has(i, "address") THEN 4 ELSE 8)
                                 ELSE (IF Has(i, "address") THEN 2 ELSE 4)
      BY <1>7 DEF OperandBytes
    <2>4. QED
      BY <2>1, <2>2, <2>3 DEF GetSizeOfOpCode
  <1>8. CASE i.op = "enter"
    <2>1. OpInfoSize(i) = 4 /\ AddressBytes(i, x64) = 0 /\ ImmediateBytes(i, x64) = 0
      BY <1>2, <1>8 DEF OpInfoSize, AddressBytes, ImmediateBytes, Table, IsAddress,
                        Extend64, Extends32, Extend32
    <2>2. OperandBytes(i, x64) = 3
      BY <1>8 DEF OperandBytes
    <2>3. QED
      BY <2>1, <2>2 DEF GetSizeOfOpCode
  <1>9. CASE i.op = "test8"
    <2>1. /\ OpInfoSize(i) = (IF i.reg = 0 THEN 2 ELSE 1) /\ AddressBytes(i, x64) = 0
          /\ ImmediateBytes(i, x64) = 0
      BY <1>2, <1>9 DEF OpInfoSize, AddressBytes, ImmediateBytes, Table, IsAddress,
                        Extend64, Extends32, Extend32
    <2>2. OperandBytes(i, x64) = IF i.reg = 0 THEN 1 ELSE 0
      BY <1>9 DEF OperandBytes
    <2>3. QED
      BY <2>1, <2>2 DEF GetSizeOfOpCode
  <1>10. CASE i.op = "test"
    <2>1. /\ OpInfoSize(i) = (IF i.reg = 0 THEN 3 ELSE 1) /\ AddressBytes(i, x64) = 0
          /\ ImmediateBytes(i, x64) = IF i.reg = 0 THEN z - 2 ELSE 0
      BY <1>1, <1>2, <1>10 DEF OpInfoSize, AddressBytes, ImmediateBytes, Table, IsAddress,
                        Extend64, Extends32, Extend32, IsRelative
    <2>2. OperandBytes(i, x64) = IF i.reg = 0 THEN z ELSE 0
      BY <1>10 DEF OperandBytes
    <2>3. QED
      BY <1>1, <2>1, <2>2 DEF GetSizeOfOpCode
  <1>11. CASE i.op = "group5"
    <2>1. OpInfoSize(i) = 1 /\ AddressBytes(i, x64) = 0 /\ ImmediateBytes(i, x64) = 0
      BY <1>2, <1>11 DEF OpInfoSize, AddressBytes, ImmediateBytes, Table, IsAddress,
                        Extend64, Extends32, Extend32
    <2>2. OperandBytes(i, x64) = 0
      BY <1>11 DEF OperandBytes
    <2>3. QED
      BY <2>1, <2>2 DEF GetSizeOfOpCode
  <1>12. CASE i.op \in {"jcc", "call"}
    <2>1. /\ OpInfoSize(i) = 3 /\ AddressBytes(i, x64) = 0
          /\ ImmediateBytes(i, x64) = (IF x64 THEN 4 ELSE z) - 2
      BY <1>1, <1>2, <1>12 DEF OpInfoSize, AddressBytes, ImmediateBytes, Table, IsAddress,
                        Extend64, Extends32, Extend32, IsRelative
    <2>2. OperandBytes(i, x64) = IF x64 THEN 4 ELSE z
      BY <1>12 DEF OperandBytes
    <2>3. QED
      BY <1>1, <2>1, <2>2 DEF GetSizeOfOpCode
  <1>13. QED
    BY <1>2, <1>3, <1>4, <1>5, <1>6, <1>7, <1>8, <1>9, <1>10, <1>11, <1>12

(* The decoder gives the size that the instruction has. *)
LEMMA SizesAgree ==
  ASSUME NEW i \in Instruction, NEW x64 \in BOOLEAN, Expected(i, x64),
         ~(i.op = "group5" /\ i.reg \in {3, 5})
  PROVE  SizeOf(i, x64) = TrueSize(i, x64)
  <1>1. Leading(i) \in Nat /\ i.mod \in 0 .. 3
    BY Parts
  <1>2. AddressForm(i, x64) \in Nat /\ OperandBytes(i, x64) \in Nat
    <2>1. AddressForm(i, x64) \in Nat
      BY <1>1, DisplacementBytes DEF AddressForm
    <2>2. OperandBytes(i, x64) \in Nat
      BY DEF OperandBytes
    <2>3. QED
      BY <2>1, <2>2
  <1>3. CASE i.op = "invalid"
    <2>1. OperandBytes(i, x64) = 0 /\ i.op \notin ModRM
      BY <1>3 DEF OperandBytes, ModRM
    <2>2. QED
      BY <1>1, <1>3, <2>1 DEF SizeOf, TrueSize
  <1>4. CASE i.op # "invalid" /\ i.op \in ModRM
    BY <1>1, <1>2, <1>4, AddressesAgree, OperandsAgree DEF SizeOf, TrueSize
  <1>5. CASE i.op # "invalid" /\ i.op \notin ModRM
    BY <1>1, <1>2, <1>5, OperandsAgree DEF SizeOf, TrueSize, ModRMBytes
  <1>6. QED
    BY <1>3, <1>4, <1>5

(* No distance fits in the displacements of relative instructions of one, two
   or four bytes: the gate lies in another module than the procedure, and the
   code takes four bytes for a distance of LONG_MIN only. *)
Apart ==
  \A distance \in Distances, size \in {1, 2, 4} : ~RecalculateDisplacement(size, distance)

LEMMA NothingRelative ==
  ASSUME Apart, NEW i \in Instruction, NEW x64 \in BOOLEAN, Relative(i, x64),
         NEW distance \in Distances
  PROVE  ~RecalculateDisplacement(DisplacementSize(i, x64), distance)
  <1>1. /\ i.op \in {"mov", "aluImm8", "movImm", "test8", "test", "group5", "movzx",
                     "jcc8", "jcc", "call"}
        /\ Table
    BY TableRows DEF Relative, IsRelative, ModRM
  <1>2. OpInfoSize(i) \in {1, 2, 3} /\ AddressBytes(i, x64) = 0
    BY <1>1 DEF OpInfoSize, AddressBytes, IsAddress, Table
  <1>3. ImmediateBytes(i, x64) \in {0, 2} /\ (~Extends32(i) => ImmediateBytes(i, x64) = 0)
    BY <1>1 DEF ImmediateBytes, Extend64
  <1>4. Extends32(i) => OpInfoSize(i) = 3
    BY <1>1 DEF Extends32, Extend32, OpInfoSize, Table
  <1>5. DisplacementSize(i, x64) \in {0, 1, 2, 4}
    BY <1>2, <1>3, <1>4 DEF DisplacementSize, GetSizeOfOpCode
  <1>6. ~RecalculateDisplacement(0, distance)
    BY DEF RecalculateDisplacement
  <1>7. QED
    BY <1>5, <1>6 DEF Apart
-----------------------------------------------------------------------------
(***************************************************************************)
(* The ends of the instructions: Offset satisfies its recursion equation,  *)
(* and rises.                                                              *)
(***************************************************************************)
Size(k) == TrueSize(hook.code[k], hook.x64)
Sums(g, n) == \A k \in 0 .. n : g[k] = IF k = 0 THEN 0 ELSE g[k - 1] + Size(k)
Length == Len(hook.code)

LEMMA Code ==
  ASSUME hook \in Hook
  PROVE  /\ Length \in Nat /\ DOMAIN hook.code = 1 .. Length /\ hook.x64 \in BOOLEAN
         /\ \A k \in 1 .. Length : hook.code[k] \in Instruction /\ Size(k) \in Nat \ {0}
  <1>1. hook.code \in Seq(Instruction) /\ hook.x64 \in BOOLEAN
    BY DEF Hook
  <1>2. /\ Length \in Nat /\ DOMAIN hook.code = 1 .. Length
        /\ \A k \in 1 .. Length : hook.code[k] \in Instruction
    BY <1>1 DEF Length
  <1>3. \A k \in 1 .. Length : Size(k) \in Nat \ {0}
    BY <1>1, <1>2, TrueSizePositive DEF Size
  <1>4. QED
    BY <1>1, <1>2, <1>3

LEMMA SumsExist ==
  ASSUME hook \in Hook
  PROVE  \E g \in [0 .. Length -> Nat] : Sums(g, Length)
  <1> DEFINE bad == {n \in 0 .. Length : ~\E g \in [0 .. n -> Nat] : Sums(g, n)}
  <1>1. Length \in Nat
    BY Code
  <1>2. SUFFICES ASSUME bad # {} PROVE FALSE
    <2>1. Length \in 0 .. Length
      BY <1>1
    <2>2. bad = {}
      BY <1>2
    <2>3. QED
      BY <2>1, <2>2
  <1>3. bad \in SUBSET Nat
    OBVIOUS
  <1>4. PICK m \in bad : \A n \in bad : m <= n
    <2> HIDE DEF bad
    <2> QED
      BY <1>2, <1>3, LeastNumber
  <1>5. m \in 0 .. Length /\ ~\E g \in [0 .. m -> Nat] : Sums(g, m)
    OBVIOUS
  <1>6. m # 0
    <2> DEFINE g == [k \in 0 .. 0 |-> 0]
    <2>1. g \in [0 .. 0 -> Nat] /\ Sums(g, 0)
      BY DEF Sums
    <2>2. QED
      BY <1>5, <2>1
  <1>7. m - 1 \in 0 .. Length /\ m - 1 \notin bad
    <2>1. m - 1 \in 0 .. Length /\ ~(m <= m - 1)
      BY <1>1, <1>5, <1>6
    <2>2. QED
      BY <1>4, <2>1
  <1>8. PICK g \in [0 .. m - 1 -> Nat] : Sums(g, m - 1)
    BY <1>7
  <1>9. Size(m) \in Nat
    BY <1>1, <1>5, <1>6, Code
  <1> HIDE DEF bad
  <1> DEFINE h == [k \in 0 .. m |-> IF k = m THEN g[m - 1] + Size(m) ELSE g[k]]
  <1>10. /\ \A k \in 0 .. m - 1 : h[k] = g[k] /\ g[k] \in Nat
         /\ h[m] = g[m - 1] + Size(m)
    BY <1>5, <1>6, <1>8
  <1>11. h \in [0 .. m -> Nat]
    BY <1>5, <1>6, <1>8, <1>9
  <1> HIDE DEF h
  <1>12. ASSUME NEW k \in 0 .. m
         PROVE  h[k] = IF k = 0 THEN 0 ELSE h[k - 1] + Size(k)
    <2>1. CASE k = m
      <3>1. m - 1 \in 0 .. m - 1
        BY <1>5, <1>6
      <3>2. QED
        BY <1>6, <1>10, <2>1, <3>1
    <2>2. CASE k # m
      <3>1. k \in 0 .. m - 1 /\ (k # 0 => k - 1 \in 0 .. m - 1)
        BY <1>5, <2>2
      <3>2. g[k] = IF k = 0 THEN 0 ELSE g[k - 1] + Size(k)
        BY <1>8, <3>1 DEF Sums
      <3>3. QED
        BY <1>10, <3>1, <3>2
    <2>3. QED
      BY <2>1, <2>2
  <1>13. Sums(h, m)
    BY <1>12 DEF Sums
  <1>14. QED
    BY <1>5, <1>11, <1>13

LEMMA Offsets ==
  ASSUME hook \in Hook
  PROVE  Offset \in [0 .. Length -> Nat] /\ Sums(Offset, Length)
  <1>1. PICK g \in [0 .. Length -> Nat] : Sums(g, Length)
    BY SumsExist
  <1>2. g = [k \in 0 .. Len(hook.code) |->
               IF k = 0 THEN 0 ELSE g[k - 1] + TrueSize(hook.code[k], hook.x64)]
    BY <1>1 DEF Sums, Size, Length
  <1>3. Offset = [k \in 0 .. Len(hook.code) |->
                    IF k = 0 THEN 0
                    ELSE Offset[k - 1] + TrueSize(hook.code[k], hook.x64)]
    BY <1>2, Zenon DEF Offset
  <1>4. Sums(Offset, Length)
    BY <1>3, Zenon DEF Sums, Size, Length
  <1>5. QED
    <2> DEFINE bad == {n \in 0 .. Length : Offset[n] \notin Nat}
    <2>1. Length \in Nat
      BY Code
    <2>2. bad = {}
      <3>1. SUFFICES ASSUME bad # {} PROVE FALSE
        OBVIOUS
      <3>2. bad \in SUBSET Nat
        OBVIOUS
      <3>3. PICK m \in bad : \A n \in bad : m <= n
        <4> HIDE DEF bad
        <4> QED
          BY <3>1, <3>2, LeastNumber
      <3>4. m \in 0 .. Length /\ Offset[m] \notin Nat
        OBVIOUS
      <3>5. m # 0
        BY <2>1, <3>4, <1>4 DEF Sums
      <3>6. m - 1 \in 0 .. Length /\ m - 1 \notin bad
        <4>1. m - 1 \in 0 .. Length /\ ~(m <= m - 1)
          BY <2>1, <3>4, <3>5
        <4>2. QED
          BY <3>3, <4>1
      <3>7. Offset[m - 1] \in Nat /\ Offset[m] = Offset[m - 1] + Size(m)
        BY <1>4, <3>4, <3>5, <3>6 DEF Sums
      <3>8. Size(m) \in Nat
        BY <2>1, <3>4, <3>5, Code
      <3>9. QED
        BY <3>4, <3>7, <3>8
    <2>3. \A n \in 0 .. Length : Offset[n] \in Nat
      BY <2>2
    <2>4. QED
      BY <1>3, <1>4, <2>3 DEF Length

(* The offsets of later instructions are larger. *)
LEMMA OffsetsRise ==
  ASSUME hook \in Hook, NEW j \in 0 .. Length, NEW k \in 0 .. Length, j < k
  PROVE  Offset[j] < Offset[k]
  <1> DEFINE bad == {n \in 0 .. Length : j < n /\ ~(Offset[j] < Offset[n])}
  <1>1. Length \in Nat /\ Offset \in [0 .. Length -> Nat] /\ Sums(Offset, Length)
    BY Code, Offsets
  <1>2. SUFFICES ASSUME bad # {} PROVE FALSE
    OBVIOUS
  <1>3. bad \in SUBSET Nat
    OBVIOUS
  <1>4. PICK m \in bad : \A n \in bad : m <= n
    <2> HIDE DEF bad
    <2> QED
      BY <1>2, <1>3, LeastNumber
  <1>5. m \in 0 .. Length /\ j < m /\ ~(Offset[j] < Offset[m])
    OBVIOUS
  <1>6. /\ m # 0 /\ m - 1 \in 0 .. Length /\ m - 1 \notin bad
        /\ Offset[m] \in Nat /\ Offset[m - 1] \in Nat /\ Offset[j] \in Nat
    <2>1. m # 0 /\ m - 1 \in 0 .. Length /\ ~(m <= m - 1)
      BY <1>1, <1>5
    <2>2. QED
      BY <1>1, <1>4, <1>5, <2>1
  <1>7. Offset[m] = Offset[m - 1] + Size(m) /\ Size(m) \in Nat \ {0}
    BY <1>1, <1>5, <1>6, Code DEF Sums
  <1>8. j = m - 1 \/ Offset[j] < Offset[m - 1]
    BY <1>5, <1>6
  <1>9. QED
    BY <1>5, <1>6, <1>7, <1>8

(* Ends is a set of positive numbers; there is an end behind each offset of the
   procedure, and the first of them is the next. *)
LEMMA EndsOfCode ==
  ASSUME hook \in Hooks
  PROVE  /\ cbSource \in Ends /\ Ends \subseteq 1 .. cbSource
         /\ Ends \subseteq Nat \ {0}
         /\ \A at \in Nat : (\E e \in Ends : e > at) =>
              /\ NextEnd(at) \in Ends /\ NextEnd(at) > at
              /\ \A e \in Ends : e > at => NextEnd(at) <= e
  <1>1. /\ hook \in Hook /\ hook.code # <<>> /\ hook.code[Length].op # "segment"
        /\ hook.code \in Seq(Instruction)
    BY HooksAssumption, CodeAssumption DEF Length, Hook
  <1>2. /\ Length \in Nat /\ DOMAIN hook.code = 1 .. Length /\ Length # 0
        /\ Offset \in [0 .. Length -> Nat] /\ Offset[0] = 0
        /\ cbSource = Offset[Length]
    BY <1>1, Code, Offsets DEF Sums, Length, cbSource
  <1>3. cbSource \in Ends
    BY <1>1, <1>2 DEF Ends
  <1>4. ASSUME NEW e \in Ends PROVE e \in 1 .. cbSource /\ e \in Nat \ {0}
    <2>1. PICK k \in 1 .. Length : e = Offset[k]
      BY <1>2 DEF Ends
    <2>2. Offset[0] < Offset[k] /\ (k = Length \/ Offset[k] < Offset[Length])
      BY <1>1, <1>2, OffsetsRise
    <2>3. QED
      BY <1>2, <2>1, <2>2
  <1>5. ASSUME NEW at \in Nat, \E e \in Ends : e > at
        PROVE  /\ NextEnd(at) \in Ends /\ NextEnd(at) > at
               /\ \A e \in Ends : e > at => NextEnd(at) <= e
    <2> DEFINE later == {e \in Ends : e > at}
               first == CHOOSE e \in later : \A f \in later : e <= f
    <2>1. later # {} /\ later \in SUBSET Nat
      BY <1>2, <1>4, <1>5
    <2>2. NextEnd(at) = first
      BY DEF NextEnd
    <2>3. first \in later /\ \A f \in later : first <= f
      <3> HIDE DEF later
      <3>1. \E e \in later : \A f \in later : e <= f
        BY <2>1, LeastNumber
      <3>2. QED
        BY <3>1
    <2> HIDE DEF first
    <2>4. QED
      BY <2>2, <2>3
  <1>6. QED
    BY <1>3, <1>4, <1>5

(* What is said of the procedure alone stays. *)
LEMMA SameProcedure ==
  ASSUME hook' = hook
  PROVE  /\ UNCHANGED <<Offset, Ends, cbSource, SizeOfJmpSequence, Room>>
         /\ UNCHANGED FindFinalTarget
         /\ ReadRight' = ReadRight /\ Length' = Length
         /\ \A at : NextEnd(at)' = NextEnd(at)
  <1>1. Offset' = Offset
    BY DEF Offset
  <1>2. UNCHANGED <<Ends, cbSource, SizeOfJmpSequence, Room>> /\ Length' = Length
    BY <1>1 DEF Ends, cbSource, SizeOfJmpSequence, Room, Length
  <1>3. UNCHANGED FindFinalTarget
    BY DEF FindFinalTarget
  <1>4. ReadRight' = ReadRight
    BY <1>2, <1>3 DEF ReadRight
  <1>5. \A at : NextEnd(at)' = NextEnd(at)
    BY <1>2 DEF NextEnd
  <1>6. QED
    BY <1>1, <1>2, <1>3, <1>4, <1>5

LEMMA Jump == SizeOfJmpSequence \in {5, 15}
  BY DEF SizeOfJmpSequence, bJmp32, bJmp64

LEMMA RoomFits ==
  ASSUME hook \in Hook
  PROVE  Room \in Nat /\ (hook.cbCallgate >= bJmp64 => Room <= hook.cbCallgate - bJmp64)
  <1>1. hook.cbCallgate \in Nat /\ SIZE_T \in Nat /\ SIZE_T > 0
    BY SizeAssumption DEF Hook
  <1>2. ASSUME NEW a \in Int, NEW n \in Nat, n > 0
        PROVE  a % n \in Nat /\ (a >= 0 => a % n <= a)
    BY <1>2
  <1>3. QED
    BY <1>1, <1>2 DEF Room, bJmp64
-----------------------------------------------------------------------------
(***************************************************************************)
(* The installation.  The bytes of the procedure are only overwritten when *)
(* the gate is finished, and no further than they have been copied.        *)
(***************************************************************************)
Types ==
  /\ hook \in Hooks
  /\ pc \in {"attach", "relocate", "refused", "gateJmp", "patch", "fill",
             "restore", "fault", "attached", "rejected"}
  /\ cbCopied \in Nat /\ garbled \subseteq 0 .. cbCopied
  /\ written \in 0 .. cbCopied
  /\ dll = IF pc = "attached" THEN "loaded"
           ELSE IF pc = "rejected" THEN "unloaded" ELSE "attaching"
  /\ failed \subseteq Failures

Progress ==
  /\ gateJmp \in {0, cbCopied}
  /\ pc \in {"attach", "relocate", "refused", "gateJmp"} => gateJmp = 0 /\ written = 0
  /\ pc \in {"gateJmp", "patch", "fill", "restore", "fault", "attached"} =>
       cbCopied >= SizeOfJmpSequence
  /\ pc \in {"patch", "fill", "restore", "fault", "attached"} => gateJmp = cbCopied
  /\ written > 0 => gateJmp = cbCopied /\ cbCopied >= SizeOfJmpSequence
  /\ pc = "patch" => written < SizeOfJmpSequence
  /\ pc = "fill" => written >= SizeOfJmpSequence
  /\ pc \in {"restore", "attached"} => written = cbCopied
  /\ cbCopied <= Room

(* A patch that is given up is given up for one of two reasons. *)
Stopped ==
  /\ pc = "fault" => PageEnds
  /\ pc = "rejected" /\ written > 0 => "RestoreSource" \in failed \/ PageEnds

Installation == Types /\ Progress /\ Stopped

LEMMA InitInstallation == Init => Installation
  <1> SUFFICES ASSUME Init PROVE Installation
    OBVIOUS
  <1>1. hook \in Hook /\ Room \in Nat
    BY HooksAssumption, RoomFits DEF Init
  <1>2. QED
    BY <1>1 DEF Init, Installation, Types, Progress, Stopped

LEMMA RelocateInstallation ==
  ASSUME Installation, Relocate
  PROVE  Installation'
  <1>1. /\ pc = "relocate" /\ UNCHANGED <<hook, gateJmp, written, dll, thread>>
        /\ hook \in Hook /\ cbCopied \in Nat /\ Room \in Nat
        /\ written = 0 /\ gateJmp = 0
    BY HooksAssumption, RoomFits DEF Installation, Types, Progress, Relocate
  <1>2. UNCHANGED <<SizeOfJmpSequence, Room>> /\ SizeOfJmpSequence \in {5, 15}
    BY <1>1, SameProcedure, Jump
  <1>3. CASE Goto("refused") /\ UNCHANGED <<cbCopied, garbled>>
    BY <1>1, <1>2, <1>3 DEF Goto, Installation, Types, Progress, Stopped
  <1>4. CASE ~(Goto("refused") /\ UNCHANGED <<cbCopied, garbled>>)
    <2>1. PICK i \in InstructionsAt(cbCopied) :
            LET size == SizeOf(i, hook.x64)
                left == Room - cbCopied - size
            IN  /\ left >= 0 \/ ~(left < 0)
                /\ cbCopied' = cbCopied + size
                /\ garbled' \in {garbled, garbled \cup {cbCopied}}
                /\ Goto(IF Enough(cbCopied') THEN "gateJmp"
                        ELSE IF left = 0 THEN "refused" ELSE "relocate")
      BY <1>4 DEF Relocate
    <2>2. i \in Instruction /\ hook.x64 \in BOOLEAN
      <3>1. \A k \in DOMAIN hook.code : hook.code[k] \in Instruction
        BY <1>1, Code
      <3>2. QED
        BY <1>1, <2>1, <3>1, HooksAssumption, Code DEF InstructionsAt
    <2> DEFINE size == SizeOf(i, hook.x64)
    <2>3. size \in Nat
      BY <2>2, SizePositive
    <2>4. cbCopied' = cbCopied + size /\ cbCopied + size <= Room
          /\ garbled' \in {garbled, garbled \cup {cbCopied}}
      BY <1>1, <2>1, <2>3
    <2>5. /\ pc' \in {"gateJmp", "refused", "relocate"} /\ UNCHANGED failed
          /\ pc' = "gateJmp" => cbCopied' >= SizeOfJmpSequence
      BY <2>1, <2>3, <1>1 DEF Goto, Enough
    <2> HIDE DEF size
    <2>6. garbled' \subseteq 0 .. cbCopied'
      BY <1>1, <2>3, <2>4 DEF Installation, Types
    <2>7. QED
      BY <1>1, <1>2, <2>3, <2>4, <2>5, <2>6 DEF Installation, Types, Progress, Stopped
  <1>5. QED
    BY <1>3, <1>4

LEMMA InstallationStep ==
  ASSUME Installation, [Next]_vars
  PROVE  Installation' /\ hook' = hook
  <1> USE DEF Installation, Types
  <1>1. hook' = hook /\ hook \in Hook
    BY HooksAssumption
       DEF Next, vars, Install, Attach, Relocate, Refuse, WriteGateJmp, Patch, Fill, Restore
  <1>2. /\ UNCHANGED <<SizeOfJmpSequence, Room>> /\ SizeOfJmpSequence \in {5, 15}
        /\ Room \in Nat
    BY <1>1, SameProcedure, Jump, RoomFits
  <1>3. CASE UNCHANGED <<hook, pc, cbCopied, garbled, gateJmp, written, dll, failed>>
    BY <1>2, <1>3 DEF Progress, Stopped, PageEnds
  <1>4. CASE Attach
    <2>1. /\ pc = "attach" /\ pc' \in {"rejected", "refused", "relocate"}
          /\ failed' \subseteq Failures
          /\ dll' = IF pc' = "rejected" THEN "unloaded" ELSE dll
          /\ UNCHANGED <<cbCopied, garbled, gateJmp, written>>
      BY <1>4 DEF Attach, Fail, Reject, Goto
    <2>2. QED
      BY <1>1, <1>2, <2>1 DEF Progress, Stopped
  <1>5. CASE Relocate
    BY <1>1, <1>5, RelocateInstallation
  <1>6. CASE Refuse
    <2>1. /\ pc = "refused" /\ pc' = "rejected" /\ dll' = "unloaded"
          /\ failed' \subseteq Failures
          /\ UNCHANGED <<cbCopied, garbled, gateJmp, written>>
      BY <1>6 DEF Refuse, Fail, Reject
    <2>2. QED
      BY <1>1, <1>2, <2>1 DEF Progress, Stopped
  <1>7. CASE WriteGateJmp
    <2>1. /\ pc = "gateJmp" /\ pc' \in {"rejected", "patch"} /\ gateJmp' = cbCopied
          /\ dll' = IF pc' = "rejected" THEN "unloaded" ELSE dll
          /\ failed' \subseteq Failures
          /\ UNCHANGED <<cbCopied, garbled, written>>
      BY <1>7 DEF WriteGateJmp, JmpToSource, Fail, Reject, Goto
    <2>2. QED
      BY <1>1, <1>2, <2>1 DEF Progress, Stopped
  <1>8. CASE Patch
    <2>1. PICK n \in written + 1 .. SizeOfJmpSequence :
            /\ written' = n
            /\ pc' = IF n = SizeOfJmpSequence THEN "fill" ELSE "patch"
      BY <1>8 DEF Patch, Goto
    <2>2. /\ pc = "patch" /\ UNCHANGED <<cbCopied, garbled, gateJmp, dll, failed>>
      BY <1>8 DEF Patch, Goto
    <2>3. written \in Nat /\ n \in Nat
      BY <1>2
    <2>4. QED
      BY <1>1, <1>2, <2>1, <2>2, <2>3 DEF Progress, Stopped
  <1>9. CASE Fill
    <2>1. /\ pc = "fill" /\ UNCHANGED <<cbCopied, garbled, gateJmp, dll, failed>>
          /\ hook.page \in Nat
      BY <1>1, <1>9 DEF Fill, Goto, Hook
    <2>2. CASE \E n \in written + 1 .. cbCopied : n <= Writable /\ written' = n /\ Goto("fill")
      <3>1. PICK n \in written + 1 .. cbCopied : written' = n /\ pc' = "fill"
        BY <2>2 DEF Goto
      <3>2. n \in Nat /\ n > written
        OBVIOUS
      <3>3. QED
        BY <1>1, <1>2, <2>1, <3>1, <3>2 DEF Progress, Stopped
    <2>3. CASE written = cbCopied /\ Goto("restore") /\ UNCHANGED written
      BY <1>1, <1>2, <2>1, <2>3 DEF Progress, Stopped, Goto
    <2>4. CASE /\ written < cbCopied /\ written >= Writable
               /\ Goto("fault") /\ UNCHANGED written
      <3>1. PageEnds
        BY <1>2, <2>1, <2>4 DEF PageEnds, Writable
      <3>2. PageEnds'
        BY <1>1, <1>2, <2>1, <3>1 DEF PageEnds
      <3>3. QED
        BY <1>1, <1>2, <2>1, <2>4, <3>2 DEF Progress, Stopped, Goto
    <2>5. QED
      BY <1>9, <2>2, <2>3, <2>4 DEF Fill
  <1>10. CASE Restore
    <2>1. /\ pc \in {"restore", "fault"} /\ UNCHANGED <<cbCopied, garbled, gateJmp, written>>
          /\ \/ pc' = "rejected" /\ dll' = "unloaded" /\ "RestoreSource" \in failed'
             \/ pc' = "rejected" /\ dll' = "unloaded" /\ pc = "fault"
             \/ pc' = "attached" /\ dll' = "loaded" /\ pc = "restore"
          /\ failed' \subseteq Failures
      BY <1>10 DEF Restore, Fail, Reject, Goto
    <2>2. PageEnds' = PageEnds
      BY <1>1, <1>2, <2>1 DEF PageEnds
    <2>3. QED
      BY <1>1, <1>2, <2>1, <2>2 DEF Progress, Stopped
  <1>11. QED
    BY <1>1, <1>3, <1>4, <1>5, <1>6, <1>7, <1>8, <1>9, <1>10 DEF Next, Install, vars

LEMMA InstallationInvariant == Spec => []Installation
  BY InitInstallation, InstallationStep, PTL DEF Spec

(* Instructions and jump fit in the gate: the room is computed for the longest
   jump, so that a gate with that much room is never overrun, whatever the
   procedure, the decoder's reading of it, and the width of size_t. *)
THEOREM GateNotOverrun == Spec => []GateIsNotOverrun
  <1>1. ASSUME Installation PROVE GateIsNotOverrun
    <2>1. /\ hook \in Hook /\ cbCopied \in Nat /\ cbCopied <= Room
          /\ SizeOfJmpSequence \in {5, 15} /\ bJmp64 = 15 /\ hook.cbCallgate \in Nat
      BY <1>1, HooksAssumption, Jump DEF Installation, Types, Progress, Hook, bJmp64
    <2>2. hook.cbCallgate >= 15 => cbCopied <= hook.cbCallgate - 15
      BY <2>1, RoomFits
    <2>3. QED
      BY <2>1, <2>2 DEF GateIsNotOverrun
  <1>2. QED
    BY <1>1, InstallationInvariant, PTL

(* A jump to an unloaded hook is left in the procedure only if restoring the
   protection failed or the bytes lie on two pages. *)
THEOREM NoDanglingHook == Spec => []HookNeverDangles
  <1>1. ASSUME Installation PROVE HookNeverDangles
    BY <1>1 DEF Installation, Types, Stopped, HookNeverDangles
  <1>2. QED
    BY <1>1, InstallationInvariant, PTL
-----------------------------------------------------------------------------
(***************************************************************************)
(* The threads.  Wherever a thread is, in the procedure or in the gate, it *)
(* has executed the instructions that end at or before its position, each  *)
(* of them once and in order.                                              *)
(***************************************************************************)
Where == {"out", "source", "hook", "gate", "returned", "answered", "crashed"}
ThreadType == [where : Where, at : Nat, ran : Seq(Ends), late : BOOLEAN, hooked : BOOLEAN]

Rising(ran) == \A i, j \in DOMAIN ran : i < j => ran[i] < ran[j]
RanTo(ran, at) == {ran[i] : i \in DOMAIN ran} = {e \in Ends : e <= at}

Executed(th) ==
  /\ th.at \in Ends \cup {0}
  /\ Rising(th.ran) /\ RanTo(th.ran, th.at)
  /\ th.where = "out" => th.at = 0 /\ ~th.late /\ ~th.hooked
  /\ th.where \in {"hook", "gate"} =>
       /\ written >= SizeOfJmpSequence /\ FindFinalTarget = "source"
       /\ th.hooked /\ th.at <= cbCopied
  /\ th.where = "hook" => th.at = 0
  /\ th.where = "returned" => th.at = cbSource

Threading ==
  /\ thread \in [Threads -> ThreadType]
  /\ \A t \in Threads : Executed(thread[t])

LEMMA InitThreading == Init => Threading
  <1> SUFFICES ASSUME Init PROVE Threading
    OBVIOUS
  <1>1. Ends \subseteq Nat \ {0}
    BY EndsOfCode DEF Init
  <1>2. Out \in ThreadType
    BY DEF Out, ThreadType, Where
  <1>3. Out.ran = <<>> /\ Out.at = 0 /\ DOMAIN Out.ran = {} /\ Out.where = "out"
        /\ ~Out.late /\ ~Out.hooked
    BY DEF Out
  <1>4. {e \in Ends : e <= 0} = {} /\ Rising(Out.ran)
    <2>1. \A e \in Ends : ~(e <= 0)
      BY <1>1
    <2>2. Rising(Out.ran)
      BY <1>3 DEF Rising
    <2>3. QED
      BY <2>1, <2>2
  <1>5. Executed(Out)
    BY <1>3, <1>4 DEF Executed, RanTo
  <1>6. QED
    BY <1>2, <1>5 DEF Init, Threading

(* One more instruction has run. *)
LEMMA AdvanceExecuted ==
  ASSUME hook \in Hooks, NEW at \in Nat, NEW ran \in Seq(Ends),
         Rising(ran), RanTo(ran, at), \E e \in Ends : e > at
  PROVE  LET end == NextEnd(at)
         IN  /\ end \in Ends /\ end \in Nat /\ Append(ran, end) \in Seq(Ends)
             /\ Rising(Append(ran, end)) /\ RanTo(Append(ran, end), end)
  <1> DEFINE end == NextEnd(at)
             n == Len(ran)
             more == Append(ran, end)
  <1>1. /\ end \in Ends /\ end > at /\ \A e \in Ends : e > at => end <= e
        /\ Ends \subseteq Nat
    BY EndsOfCode
  <1> HIDE DEF end
  <1>2. /\ n \in Nat /\ DOMAIN ran = 1 .. n /\ DOMAIN more = 1 .. n + 1
        /\ \A i \in 1 .. n : more[i] = ran[i] /\ ran[i] \in Ends
        /\ more[n + 1] = end /\ more \in Seq(Ends)
    BY <1>1
  <1> HIDE DEF more, n
  <1>3. \A i \in 1 .. n : ran[i] <= at
    BY <1>2 DEF RanTo
  <1>4. ASSUME NEW i \in DOMAIN more, NEW j \in DOMAIN more, i < j
        PROVE  more[i] < more[j]
    <2>1. i \in 1 .. n
      BY <1>2, <1>4
    <2>2. more[i] = ran[i] /\ ran[i] \in Nat /\ ran[i] <= at
      BY <1>1, <1>2, <1>3, <2>1
    <2>3. CASE j = n + 1
      BY <1>1, <1>2, <2>2, <2>3
    <2>4. CASE j # n + 1
      <3>1. j \in 1 .. n
        BY <1>2, <2>4
      <3>2. QED
        BY <1>2, <1>4, <2>1, <3>1 DEF Rising
    <2>5. QED
      BY <2>3, <2>4
  <1>5. Rising(more)
    BY <1>4 DEF Rising
  <1>6. {more[i] : i \in DOMAIN more} = {ran[i] : i \in DOMAIN ran} \cup {end}
    BY <1>2
  <1>7. {e \in Ends : e <= end} = {e \in Ends : e <= at} \cup {end}
    <2>1. ASSUME NEW e \in Ends PROVE e <= end <=> e <= at \/ e = end
      <3>1. e \in Nat /\ end \in Nat /\ (e > at => end <= e)
        BY <1>1
      <3>2. QED
        BY <1>1, <3>1
    <2>2. QED
      BY <1>1, <2>1
  <1>8. RanTo(more, end)
    BY <1>6, <1>7 DEF RanTo
  <1>9. QED
    BY <1>1, <1>2, <1>5, <1>8 DEF more, end

(* What a thread has executed stays right while the installation goes on. *)
LEMMA InstallThreading ==
  ASSUME Installation, Threading, Install
  PROVE  Threading'
  <1>1. hook' = hook /\ UNCHANGED thread
    BY DEF Install, Attach, Relocate, Refuse, WriteGateJmp, Patch, Fill, Restore
  <1>2. /\ UNCHANGED <<Ends, cbSource, SizeOfJmpSequence>> /\ UNCHANGED FindFinalTarget
        /\ SizeOfJmpSequence \in {5, 15}
    BY <1>1, SameProcedure, Jump
  <1>3. written > 0 => written' >= written /\ cbCopied' = cbCopied
    <2>1. CASE Patch \/ Fill
      BY <2>1 DEF Patch, Fill, Goto, Installation, Types
    <2>2. CASE ~(Patch \/ Fill)
      BY <2>2 DEF Install, Attach, Relocate, Refuse, WriteGateJmp, Restore, Goto, Reject,
                  Installation, Types, Progress
    <2>3. QED
      BY <2>1, <2>2
  <1>4. written \in Nat /\ cbCopied \in Nat /\ written' \in Nat
    BY InstallationStep DEF Next, Installation, Types
  <1>5. ThreadType' = ThreadType
    BY <1>2 DEF ThreadType
  <1>6. ASSUME NEW t \in Threads
        PROVE  Executed(thread[t])'
    BY <1>1, <1>2, <1>3, <1>4, <1>6 DEF Threading, Executed, Rising, RanTo
  <1>7. QED
    BY <1>1, <1>5, <1>6 DEF Threading

LEMMA ProgramThreading ==
  ASSUME Installation, Threading, NEW t \in Threads, Program(t),
         UNCHANGED <<hook, pc, cbCopied, garbled, gateJmp, written, dll, failed>>
  PROVE  Threading'
  <1> DEFINE th == thread[t]
             new == thread'[t]
  <1>1. /\ UNCHANGED <<Ends, cbSource, SizeOfJmpSequence>> /\ UNCHANGED FindFinalTarget
        /\ ThreadType' = ThreadType /\ SizeOfJmpSequence \in {5, 15}
    BY SameProcedure, Jump DEF ThreadType
  <1>2. /\ th \in ThreadType /\ Executed(th) /\ thread \in [Threads -> ThreadType]
        /\ hook \in Hooks /\ th.at \in Nat /\ th.ran \in Seq(Ends)
    BY DEF Threading, ThreadType, Installation, Types
  <1>3. /\ cbSource \in Ends /\ Ends \subseteq 1 .. cbSource /\ cbSource \in Nat
        /\ written \in Nat /\ cbCopied \in Nat
    <2>1. cbSource \in Ends /\ Ends \subseteq 1 .. cbSource
      BY <1>2, EndsOfCode
    <2>2. QED
      BY <2>1 DEF Installation, Types
  <1>4. \A x : Executed(x)' <=> Executed(x)
    BY <1>1 DEF Executed, Rising, RanTo
  <1>5. SUFFICES ASSUME NEW n \in ThreadType, Executed(n),
                        thread' = [thread EXCEPT ![t] = n]
                 PROVE  Threading'
    <2>1. CASE Call(t)
      <3> DEFINE n == [th EXCEPT !.where = "source", !.late = Attached]
      <3>1. th.where = "out" /\ thread' = [thread EXCEPT ![t] = n]
        BY <1>2, <2>1 DEF Call
      <3>2. n \in ThreadType /\ Executed(n)
        <4>1. Attached \in BOOLEAN
          BY DEF Attached
        <4>2. n \in ThreadType
          BY <1>2, <4>1 DEF ThreadType, Where
        <4>3. n.where = "source" /\ n.at = th.at /\ n.ran = th.ran
          BY <1>2 DEF ThreadType
        <4> HIDE DEF n
        <4>4. QED
          BY <1>2, <3>1, <4>2, <4>3 DEF Executed
      <3>3. QED
        BY <3>1, <3>2
    <2>2. ASSUME NEW where, thread' = [thread EXCEPT ![t].where = where],
                 \/ where = "crashed"
                 \/ where = "answered"
                 \/ where = "returned" /\ th.at >= cbSource
                 \/ where = "gate" /\ th.where = "hook"
          PROVE  \E n \in ThreadType : Executed(n) /\ thread' = [thread EXCEPT ![t] = n]
      <3> DEFINE n == [th EXCEPT !.where = where]
      <3>1. thread' = [thread EXCEPT ![t] = n]
        BY <1>2, <2>2
      <3>2. where = "returned" => th.at = cbSource
        BY <1>2, <1>3, <2>2 DEF Executed
      <3>3. n \in ThreadType /\ Executed(n)
        BY <1>2, <2>2, <3>2 DEF ThreadType, Where, Executed
      <3>4. QED
        BY <3>1, <3>3
    <2>3. ASSUME Advance(t, NextEnd(th.at)), th.where \in {"source", "gate"},
                 \E e \in Ends : e > th.at,
                 th.where = "gate" => \E e \in Ends : th.at < e /\ e <= cbCopied
          PROVE  \E n \in ThreadType : Executed(n) /\ thread' = [thread EXCEPT ![t] = n]
      <3> DEFINE end == NextEnd(th.at)
                 n == [th EXCEPT !.at = end, !.ran = Append(@, end)]
      <3>1. thread' = [thread EXCEPT ![t] = n]
        BY <1>2, <2>3 DEF Advance
      <3>2. /\ end \in Ends /\ end \in Nat /\ Append(th.ran, end) \in Seq(Ends)
            /\ Rising(Append(th.ran, end)) /\ RanTo(Append(th.ran, end), end)
        BY <1>2, <2>3, AdvanceExecuted DEF Executed
      <3>3. th.where = "gate" => end <= cbCopied
        BY <1>2, <1>3, <2>3, <3>2, EndsOfCode
      <3> HIDE DEF end
      <3>4. n \in ThreadType
        BY <1>2, <3>2 DEF ThreadType
      <3>5. n.at = end /\ n.ran = Append(th.ran, end) /\ n.where = th.where
            /\ n.hooked = th.hooked
        BY <1>2 DEF ThreadType
      <3> HIDE DEF n
      <3>6. Executed(n)
        BY <1>2, <2>3, <3>2, <3>3, <3>5 DEF Executed
      <3>7. QED
        BY <3>1, <3>4, <3>6
    <2>4. CASE RunSource(t)
      <3>1. th.where = "source" /\ th.at < cbSource
        BY <2>4 DEF RunSource
      <3>2. CASE Advance(t, NextEnd(th.at))
        BY <1>3, <2>3, <3>1, <3>2
      <3>3. CASE /\ th.at = 0 /\ Overwritten >= SizeOfJmpSequence
                 /\ thread' = [thread EXCEPT ![t].where = "hook", ![t].hooked = TRUE]
        <4> DEFINE n == [th EXCEPT !.where = "hook", !.hooked = TRUE]
        <4>1. thread' = [thread EXCEPT ![t] = n]
          BY <1>2, <3>3
        <4>2. FindFinalTarget = "source" /\ written >= SizeOfJmpSequence
          BY <1>1, <3>3 DEF Overwritten
        <4>3. n \in ThreadType /\ Executed(n)
          <5>1. n \in ThreadType
            BY <1>2 DEF ThreadType, Where
          <5>2. n.where = "hook" /\ n.at = 0 /\ n.ran = th.ran /\ n.hooked
            BY <1>2, <3>3 DEF ThreadType
          <5> HIDE DEF n
          <5>3. QED
            BY <1>2, <1>3, <3>3, <4>2, <5>1, <5>2 DEF Executed
        <4>4. QED
          BY <4>1, <4>3
      <3>4. CASE Crash(t)
        BY <2>2, <3>4 DEF Crash
      <3>5. QED
        BY <2>4, <3>2, <3>3, <3>4 DEF RunSource
    <2>5. CASE Return(t)
      BY <2>2, <2>5 DEF Return
    <2>6. CASE RunHook(t)
      BY <2>2, <2>6 DEF RunHook, Crash
    <2>7. CASE RunGate(t)
      <3>1. CASE Crash(t)
        BY <2>2, <3>1 DEF Crash
      <3>2. CASE /\ th.at = cbCopied
                 /\ thread' = [thread EXCEPT ![t].where = "source", ![t].at = gateJmp]
        <4> DEFINE n == [th EXCEPT !.where = "source", !.at = gateJmp]
        <4>1. thread' = [thread EXCEPT ![t] = n]
          BY <1>2, <3>2
        <4>2. th.where = "gate" /\ written >= SizeOfJmpSequence
          BY <1>2, <2>7 DEF RunGate, Executed
        <4>3. gateJmp = th.at
          BY <1>1, <1>3, <3>2, <4>2 DEF Installation, Progress
        <4>4. n \in ThreadType /\ Executed(n)
          BY <1>2, <4>3 DEF ThreadType, Where, Executed
        <4>5. QED
          BY <4>1, <4>4
      <3>3. CASE /\ \E e \in Ends : th.at < e /\ e <= cbCopied
                 /\ Advance(t, NextEnd(th.at))
        <4>1. th.where = "gate"
          BY <2>7 DEF RunGate
        <4>2. \E e \in Ends : e > th.at
          BY <1>2, <1>3, <3>3
        <4>3. QED
          BY <2>3, <3>3, <4>1, <4>2
      <3>4. QED
        BY <2>7, <3>1, <3>2, <3>3 DEF RunGate
    <2>8. QED
      BY <2>1, <2>4, <2>5, <2>6, <2>7 DEF Program
  <1>6. thread' \in [Threads -> ThreadType]
    BY <1>2, <1>5
  <1>7. ASSUME NEW u \in Threads PROVE Executed(thread'[u])
    <2>1. thread'[u] = IF u = t THEN n ELSE thread[u]
      BY <1>2, <1>5
    <2>2. QED
      BY <1>5, <2>1 DEF Threading
  <1>8. QED
    BY <1>1, <1>4, <1>6, <1>7 DEF Threading

LEMMA ThreadingInvariant == Spec => []Threading
  <1>1. ASSUME Installation, Threading, [Next]_vars PROVE Threading'
    <2>1. CASE UNCHANGED vars
      <3>1. /\ UNCHANGED <<Ends, cbSource, SizeOfJmpSequence>> /\ UNCHANGED FindFinalTarget
            /\ UNCHANGED <<thread, written, cbCopied>>
        BY <2>1, SameProcedure DEF vars
      <3>2. QED
        BY <1>1, <3>1 DEF Threading, ThreadType, Executed, Rising, RanTo
    <2>2. CASE Install
      BY <1>1, <2>2, InstallThreading
    <2>3. ASSUME NEW t \in Threads, Program(t),
                 UNCHANGED <<hook, pc, cbCopied, garbled, gateJmp, written, dll, failed>>
          PROVE  Threading'
      BY <1>1, <2>3, ProgramThreading
    <2>4. QED
      BY <1>1, <2>1, <2>2, <2>3 DEF Next
  <1>2. QED
    BY <1>1, InitThreading, InstallationInvariant, PTL DEF Spec

(* The gate, the patch and the threads stay within the procedure. *)
THEOREM TypeCorrect == Spec => []TypeOK
  <1>1. ASSUME Installation, Threading PROVE TypeOK
    <2>1. /\ Types /\ gateJmp \in 0 .. cbCopied
          /\ cbSource \in Ends /\ Ends \subseteq 1 .. cbSource /\ Ends \subseteq Nat \ {0}
      BY <1>1, EndsOfCode DEF Installation, Types, Progress
    <2>2. ASSUME NEW t \in Threads
          PROVE  /\ thread[t] \in ThreadType /\ thread[t].at \in 0 .. cbSource
      <3>1. thread[t] \in ThreadType /\ thread[t].at \in Ends \cup {0}
        BY <1>1 DEF Threading, Executed
      <3>2. QED
        BY <2>1, <3>1
    <2>3. QED
      BY <2>1, <2>2 DEF TypeOK, Types, ThreadType, Where
  <1>2. QED
    BY <1>1, InstallationInvariant, ThreadingInvariant, PTL

(* As many ends are in a rising list of all of them as there are ends. *)
LEMMA RisingLength ==
  ASSUME NEW S \in SUBSET Nat, NEW ran \in Seq(S), Rising(ran),
         {ran[i] : i \in DOMAIN ran} = S
  PROVE  Len(ran) = Cardinality(S)
  <1>1. Len(ran) \in Nat /\ DOMAIN ran = 1 .. Len(ran) /\ ran \in [1 .. Len(ran) -> S]
    OBVIOUS
  <1>2. ASSUME NEW i \in 1 .. Len(ran), NEW j \in 1 .. Len(ran), ran[i] = ran[j]
        PROVE  i = j
    <2>1. ~(ran[i] < ran[j]) /\ ~(ran[j] < ran[i])
      <3>1. ran[i] \in Nat
        BY <1>1
      <3>2. \A n \in Nat : ~(n < n)
        OBVIOUS
      <3>3. QED
        BY <1>2, <3>1, <3>2
    <2>2. ~(i < j) /\ ~(j < i)
      BY <1>1, <2>1 DEF Rising
    <2>3. QED
      BY <1>1, <2>2
  <1>3. ran \in Bijection(1 .. Len(ran), S)
    BY <1>1, <1>2 DEF Bijection, Injection, Surjection, IsInjective
  <1>4. QED
    BY <1>1, <1>3, FS_CountingElements DEF ExistsBijection

(* "The functionality of each instruction is identical in the new location": a
   call that comes back has run each instruction of the procedure once and in
   order, whichever way it took and whatever was patched meanwhile; a gate that
   cuts an instruction in two or holds a rewritten one never lets it back. *)
THEOREM FunctionKept == Spec => []SameFunction
  <1>1. ASSUME Installation, Threading, NEW t \in Threads, thread[t].where = "returned"
        PROVE  /\ Len(thread[t].ran) = Cardinality(Ends)
               /\ \A i \in 1 .. Len(thread[t].ran) - 1 :
                    thread[t].ran[i] < thread[t].ran[i + 1]
    <2> DEFINE ran == thread[t].ran
    <2>1. /\ ran \in Seq(Ends) /\ Rising(ran) /\ RanTo(ran, cbSource)
      BY <1>1 DEF Threading, Executed, ThreadType
    <2>2. Ends \subseteq 1 .. cbSource /\ Ends \subseteq Nat
      BY <1>1, EndsOfCode DEF Installation, Types
    <2>3. {e \in Ends : e <= cbSource} = Ends
      <3>1. cbSource \in Nat
        BY <1>1, EndsOfCode DEF Installation, Types
      <3>2. \A e \in Ends : e <= cbSource
        BY <2>2, <3>1
      <3>3. QED
        BY <3>2
    <2>4. {ran[i] : i \in DOMAIN ran} = Ends
      BY <2>1, <2>3 DEF RanTo
    <2> HIDE DEF ran
    <2>5. Len(ran) = Cardinality(Ends)
      BY <2>1, <2>2, <2>4, RisingLength
    <2>6. \A i \in 1 .. Len(ran) - 1 : ran[i] < ran[i + 1]
      BY <2>1 DEF Rising
    <2>7. QED
      BY <2>5, <2>6 DEF ran
  <1>2. Installation /\ Threading => SameFunction
    BY <1>1 DEF SameFunction
  <1>3. QED
    BY <1>2, InstallationInvariant, ThreadingInvariant, PTL
-----------------------------------------------------------------------------
(***************************************************************************)
(* Calls that start after the installation.                                *)
(***************************************************************************)
Hooked ==
  \A t \in Threads :
    /\ thread[t].late => Attached
    /\ pc = "attached" /\ FindFinalTarget = "source" /\ thread[t].late =>
         thread[t].hooked \/ (thread[t].where = "source" /\ thread[t].at = 0)

LEMMA StillLate ==
  ASSUME Threading, NEW t \in Threads, Program(t), ~Call(t)
  PROVE  /\ thread'[t].late = thread[t].late
         /\ thread[t].hooked => thread'[t].hooked
  <1> DEFINE th == thread[t]
             new == thread'[t]
  <1>1. thread \in [Threads -> ThreadType] /\ th \in ThreadType
    BY DEF Threading
  <1>2. CASE RunSource(t)
    BY <1>1, <1>2 DEF RunSource, Advance, Crash, ThreadType
  <1>3. CASE Return(t) \/ RunHook(t)
    <2>1. PICK where : thread' = [thread EXCEPT ![t].where = where]
      BY <1>3 DEF Return, RunHook, Crash
    <2>2. QED
      BY <1>1, <2>1 DEF ThreadType
  <1>4. CASE RunGate(t)
    BY <1>1, <1>4 DEF RunGate, Advance, Crash, ThreadType
  <1>5. QED
    BY <1>2, <1>3, <1>4 DEF Program

LEMMA HookedStep ==
  ASSUME Installation, Threading, Hooked, [Next]_vars
  PROVE  Hooked'
  <1>1. UNCHANGED FindFinalTarget
    BY InstallationStep, SameProcedure
  <1>2. Attached => pc' = pc
    BY DEF Next, vars, Install, Attach, Relocate, Refuse, WriteGateJmp, Patch, Fill,
           Restore, Attached
  <1>3. CASE UNCHANGED vars
    BY <1>1, <1>3 DEF Hooked, vars, Attached
  <1>4. CASE Install
    <2>1. UNCHANGED thread /\ ~Attached
      BY <1>4 DEF Install, Attach, Relocate, Refuse, WriteGateJmp, Patch, Fill, Restore, Attached
    <2>2. QED
      BY <2>1 DEF Hooked
  <1>5. ASSUME NEW t \in Threads, Program(t),
               UNCHANGED <<hook, pc, cbCopied, garbled, gateJmp, written, dll, failed>>
        PROVE  Hooked'
    <2> DEFINE th == thread[t]
               new == thread'[t]
    <2>1. /\ thread \in [Threads -> ThreadType] /\ th \in ThreadType /\ Executed(th)
          /\ SizeOfJmpSequence \in {5, 15} /\ cbSource \in Nat \ {0}
      BY Jump, EndsOfCode DEF Threading, Installation, Types
    <2>2. \A u \in Threads \ {t} : thread'[u] = thread[u]
      BY <1>5, <2>1 DEF Program, Call, RunSource, Return, RunHook, RunGate, Advance, Crash
    <2>3. CASE Call(t)
      BY <1>1, <1>5, <2>1, <2>2, <2>3 DEF Call, Hooked, Attached, Executed, ThreadType
    <2>4. CASE ~Call(t)
      <3>1. new.late = th.late /\ (th.hooked => new.hooked)
        BY <1>5, <2>4, StillLate
      <3>2. ASSUME pc = "attached", FindFinalTarget = "source", th.where = "source", th.at = 0
            PROVE  new.hooked
        <4>1. /\ Overwritten = written /\ written >= SizeOfJmpSequence /\ written \in Nat
              /\ dll = "loaded"
          BY <3>2 DEF Overwritten, Installation, Types, Progress
        <4>2. RunSource(t)
          BY <1>5, <2>1, <2>4, <3>2 DEF Program, Return, RunHook, RunGate
        <4>3. thread' = [thread EXCEPT ![t].where = "hook", ![t].hooked = TRUE]
          BY <2>1, <3>2, <4>1, <4>2 DEF RunSource
        <4>4. QED
          BY <2>1, <4>3 DEF ThreadType
      <3>3. QED
        BY <1>1, <1>5, <2>2, <3>1, <3>2 DEF Hooked, Attached
    <2>5. QED
      BY <2>3, <2>4
  <1>6. QED
    BY <1>3, <1>4, <1>5 DEF Next

(* Every call that starts once the DLL is attached comes to the hook before it
   comes back, where FindFinalTarget follows the jumps as the processor does. *)
THEOREM LaterCallsHooked == Spec => []EveryLaterCallIsHooked
  <1>1. Init => Hooked
    <2>1. SUFFICES ASSUME Init PROVE Hooked
      OBVIOUS
    <2>2. \A t \in Threads : thread[t] = Out
      BY <2>1 DEF Init
    <2>3. QED
      BY <2>2 DEF Hooked, Out
  <1>2. ASSUME Installation, Threading, Hooked PROVE EveryLaterCallIsHooked
    <2>1. SUFFICES ASSUME pc = "attached", Followed, NEW t \in Threads, thread[t].late,
                          thread[t].where \in {"returned", "answered"}
                   PROVE  thread[t].hooked
      BY DEF EveryLaterCallIsHooked
    <2>2. FindFinalTarget = "source"
      <3>1. hook.stubs \in Seq(Stub)
        BY <1>2, HooksAssumption DEF Installation, Types, Hook
      <3>2. \A i \in DOMAIN hook.stubs : hook.stubs[i] \in Stub
        BY <3>1
      <3>3. QED
        BY <2>1, <3>2 DEF Followed, FindFinalTarget, Stub
    <2>3. QED
      BY <1>2, <2>1, <2>2 DEF Hooked
  <1>3. QED
    BY <1>1, <1>2, HookedStep, InstallationInvariant, ThreadingInvariant, PTL DEF Spec
-----------------------------------------------------------------------------
(***************************************************************************)
(* A procedure that the decoder reads right is copied in entire            *)
(* instructions, and no displacement is rewritten.                         *)
(***************************************************************************)
CopiedTo(k) ==
  /\ cbCopied = Offset[k]
  /\ pc \in {"attach", "relocate"} =>
       cbCopied < SizeOfJmpSequence /\ \A j \in 1 .. k : hook.code[j].op # "ret"

Entire == ReadRight => garbled = {} /\ \E k \in 0 .. Length : CopiedTo(k)

LEMMA InitEntire == Init => Entire
  <1> SUFFICES ASSUME Init PROVE Entire
    OBVIOUS
  <1>1. Length \in Nat /\ Offset[0] = 0 /\ SizeOfJmpSequence \in {5, 15}
    BY HooksAssumption, Code, Offsets, Jump DEF Init, Sums
  <1>2. 0 \in 0 .. Length /\ CopiedTo(0)
    BY <1>1 DEF Init, CopiedTo
  <1>3. QED
    BY <1>2 DEF Init, Entire

(* The instruction that is copied next is that of the procedure. *)
LEMMA InstructionFound ==
  ASSUME hook \in Hooks, ReadRight, NEW k \in 0 .. Length, CopiedTo(k), pc = "relocate"
  PROVE  k + 1 \in 1 .. Length /\ InstructionsAt(cbCopied) = {hook.code[k + 1]}
  <1>1. /\ Length \in Nat /\ hook \in Hook /\ DOMAIN hook.code = 1 .. Length
        /\ Offset \in [0 .. Length -> Nat] /\ cbSource = Offset[Length]
        /\ SizeOfJmpSequence \in {5, 15} /\ k \in Nat /\ k <= Length
    BY HooksAssumption, Code, Offsets, Jump DEF cbSource, Length
  <1>2. k # Length
    <2>1. SUFFICES ASSUME k = Length PROVE FALSE
      OBVIOUS
    <2>2. cbSource < SizeOfJmpSequence /\ \A j \in DOMAIN hook.code : hook.code[j].op # "ret"
      BY <1>1, <2>1 DEF CopiedTo
    <2>3. cbSource \in Nat
      BY <1>1
    <2>4. QED
      BY <1>1, <2>2, <2>3 DEF ReadRight
  <1>3. k + 1 \in 1 .. Length
    BY <1>1, <1>2
  <1> DEFINE here == {j \in DOMAIN hook.code : Offset[j - 1] = cbCopied}
  <1>4. ASSUME NEW j \in 1 .. Length, Offset[j - 1] = Offset[k]
        PROVE  j = k + 1
    <2>1. j - 1 \in 0 .. Length
      BY <1>1
    <2>2. ~(j - 1 < k) /\ ~(k < j - 1)
      <3>1. \A n \in Nat : ~(n < n)
        OBVIOUS
      <3>2. QED
        BY <1>1, <1>4, <2>1, <3>1, OffsetsRise
    <2>3. QED
      BY <1>1, <2>1, <2>2
  <1>5. here = {k + 1}
    BY <1>1, <1>3, <1>4, SMTT(30) DEF CopiedTo
  <1>6. InstructionsAt(cbCopied) = {hook.code[j] : j \in here}
    BY <1>5 DEF InstructionsAt, ReadRight
  <1>7. QED
    BY <1>3, <1>5, <1>6

LEMMA RelocateEntire ==
  ASSUME Apart, Installation, Entire, ReadRight, Relocate
  PROVE  garbled' = {} /\ \E k \in 0 .. Length : CopiedTo(k)'
  <1>1. /\ pc = "relocate" /\ hook' = hook /\ hook \in Hooks /\ hook \in Hook
        /\ garbled = {} /\ cbCopied \in Nat /\ Room \in Nat
    BY HooksAssumption, RoomFits DEF Relocate, Installation, Types, Entire
  <1>2. UNCHANGED <<Offset, SizeOfJmpSequence, Room>> /\ SizeOfJmpSequence \in {5, 15}
    BY <1>1, SameProcedure, Jump
  <1>3. PICK k \in 0 .. Length : CopiedTo(k)
    BY DEF Entire
  <1>4. k + 1 \in 1 .. Length /\ InstructionsAt(cbCopied) = {hook.code[k + 1]}
    BY <1>1, <1>3, InstructionFound
  <1> DEFINE i == hook.code[k + 1]
             size == SizeOf(i, hook.x64)
  <1>5. /\ i \in Instruction /\ hook.x64 \in BOOLEAN /\ Expected(i, hook.x64)
        /\ size \in Nat \ {0} /\ DOMAIN hook.code = 1 .. Length /\ Length \in Nat
    <2>1. /\ i \in Instruction /\ hook.x64 \in BOOLEAN /\ DOMAIN hook.code = 1 .. Length
          /\ Length \in Nat
      BY <1>1, <1>4, Code
    <2>2. Expected(i, hook.x64)
      BY <1>4, <2>1 DEF ReadRight, Expected
    <2>3. QED
      BY <2>1, <2>2, SizePositive
  <1>6. CASE Goto("refused") /\ UNCHANGED <<cbCopied, garbled>>
    BY <1>1, <1>2, <1>3, <1>6 DEF CopiedTo, Goto
  <1>7. CASE ~(Goto("refused") /\ UNCHANGED <<cbCopied, garbled>>)
    <2>1. \A distance \in Distances :
            Relative(i, hook.x64) =>
              ~RecalculateDisplacement(DisplacementSize(i, hook.x64), distance)
      BY <1>5, NothingRelative
    <2> HIDE DEF i
    <2>2. /\ i.op # "ret" /\ ~Relative(i, hook.x64)
          /\ cbCopied' = cbCopied + size /\ garbled' = garbled
          /\ Goto(IF Enough(cbCopied') THEN "gateJmp"
                  ELSE IF Room - cbCopied - size = 0 THEN "refused" ELSE "relocate")
      BY <1>4, <1>7, <2>1 DEF Relocate, i
    <2>3. ~(i.op = "group5" /\ i.reg \in {3, 5})
      BY <2>2 DEF Relative
    <2>4. size = TrueSize(i, hook.x64)
      BY <1>5, <2>3, SizesAgree
    <2> HIDE DEF size
    <2>5. Offset[k + 1] = Offset[k] + size /\ k \in Nat
      <3>1. k + 1 \in 0 .. Length /\ k + 1 # 0 /\ (k + 1) - 1 = k /\ k \in Nat
        BY <1>4, <1>5
      <3>2. Offset[k + 1] = Offset[(k + 1) - 1] + Size(k + 1)
        BY <1>1, <3>1, Offsets DEF Sums
      <3>3. QED
        BY <2>4, <3>1, <3>2 DEF Size, i
    <2>6. cbCopied' = Offset'[k + 1]
      BY <1>2, <1>3, <2>2, <2>5 DEF CopiedTo
    <2>7. pc' \in {"attach", "relocate"} => cbCopied' < SizeOfJmpSequence'
      BY <1>1, <1>2, <1>5, <2>2 DEF Goto, Enough, size
    <2>8. \A j \in 1 .. k + 1 : hook'.code[j].op # "ret"
      BY <1>1, <1>3, <2>2, <2>5 DEF CopiedTo, i
    <2>9. CopiedTo(k + 1)'
      BY <2>6, <2>7, <2>8 DEF CopiedTo
    <2>10. k + 1 \in 0 .. Length
      BY <1>4
    <2>11. QED
      BY <1>1, <2>2, <2>9, <2>10
  <1>8. QED
    BY <1>6, <1>7

LEMMA EntireStep ==
  ASSUME Apart, Installation, Entire, [Next]_vars
  PROVE  Entire'
  <1>1. /\ UNCHANGED <<Offset, SizeOfJmpSequence>> /\ ReadRight' = ReadRight
        /\ Length' = Length /\ hook' = hook
    BY InstallationStep, SameProcedure
  <1>2. SUFFICES ASSUME ReadRight
                 PROVE  garbled' = {} /\ \E k \in 0 .. Length : CopiedTo(k)'
    BY <1>1 DEF Entire
  <1>3. CASE Relocate
    BY <1>2, <1>3, RelocateEntire
  <1>4. CASE ~Relocate
    <2>1. UNCHANGED <<cbCopied, garbled>>
      BY <1>4 DEF Next, vars, Install, Attach, Refuse, WriteGateJmp, Patch, Fill, Restore
    <2>2. pc' \in {"attach", "relocate"} => pc \in {"attach", "relocate"}
      BY <1>4 DEF Next, vars, Install, Attach, Refuse, WriteGateJmp, Patch, Fill, Restore,
                  Goto, Reject
    <2>3. PICK k \in 0 .. Length : CopiedTo(k)
      BY <1>2 DEF Entire
    <2>4. CopiedTo(k)'
      BY <1>1, <2>1, <2>2, <2>3 DEF CopiedTo
    <2>5. QED
      BY <1>2, <2>1, <2>4 DEF Entire
  <1>5. QED
    BY <1>3, <1>4

LEMMA EntireInvariant ==
  ASSUME Apart
  PROVE  Spec => []Entire
  <1>1. Installation /\ Entire /\ [Next]_vars => Entire'
    BY EntireStep
  <1>2. QED
    BY <1>1, InitEntire, InstallationInvariant, PTL DEF Spec

LEMMA EntireCopy ==
  ASSUME Installation, Entire, ReadRight
  PROVE  /\ garbled = {}
         /\ cbCopied > 0 => cbCopied \in Ends
  <1>1. garbled = {}
    BY DEF Entire
  <1>2. ASSUME cbCopied > 0 PROVE cbCopied \in Ends
    <2>1. PICK k \in 0 .. Length : cbCopied = Offset[k]
      BY DEF Entire, CopiedTo
    <2>2. /\ hook \in Hook /\ Offset[0] = 0 /\ Length \in Nat
          /\ DOMAIN hook.code = 1 .. Length
      BY HooksAssumption, Offsets, Code DEF Sums, Installation, Types
    <2>3. k \in 1 .. Length
      BY <1>2, <2>1, <2>2
    <2>4. QED
      BY <2>1, <2>2, <2>3 DEF Ends, ReadRight
  <1>3. QED
    BY <1>1, <1>2

(* "Entire instructions are copied": the decoder, following its tables through
   any procedure without the forms that ReadRight names, stops at the end of an
   instruction wherever the bytes for the jump end. *)
THEOREM WholeInstructions ==
  ASSUME Apart
  PROVE  Spec => []EntireInstructions
  <1>1. ASSUME Installation, Entire PROVE EntireInstructions
    <2>1. gateJmp > 0 => cbCopied > 0
      BY <1>1 DEF Installation, Types, Progress
    <2>2. QED
      BY <1>1, <2>1, EntireCopy DEF EntireInstructions, CopiesEntireInstructions
  <1>2. QED
    BY <1>1, EntireInvariant, InstallationInvariant, PTL

(* A call that starts after an installation without a rest of it finds either
   the procedure as it was or a hook and a gate that work. *)
Sheltered(th) ==
  /\ th.where # "crashed"
  /\ pc = "attached" /\ th.where = "source" => th.at = 0 \/ th.at >= written

Safe ==
  ReadRight /\ ~(dll = "unloaded" /\ written > 0) =>
    \A t \in Threads : thread[t].late => Sheltered(thread[t])

LEMMA SafeProgram ==
  ASSUME Installation, Threading, Hooked, Entire, NEW t \in Threads, Program(t),
         UNCHANGED <<hook, pc, cbCopied, garbled, gateJmp, written, dll, failed>>,
         ReadRight, ~(dll = "unloaded" /\ written > 0),
         thread[t].late => Sheltered(thread[t]), thread'[t].late
  PROVE  Sheltered(thread[t])'
  <1> DEFINE th == thread[t]
             new == thread'[t]
  <1>1. /\ thread \in [Threads -> ThreadType] /\ th \in ThreadType /\ Executed(th)
        /\ SizeOfJmpSequence \in {5, 15} /\ hook \in Hooks /\ written \in Nat
        /\ cbCopied \in Nat /\ th.at \in Nat /\ FindFinalTarget = "source"
        /\ Overwritten = written
    BY Jump DEF Threading, Installation, Types, ThreadType, ReadRight, Overwritten
  <1>2. CASE Call(t)
    <2>1. new.where = "source" /\ new.at = 0
      BY <1>1, <1>2 DEF Call, Executed, ThreadType
    <2>2. QED
      BY <2>1 DEF Sheltered
  <1>3. CASE ~Call(t)
    <2>1. new.late = th.late
      BY <1>3, StillLate
    <2>2. /\ th.late /\ Sheltered(th)
          /\ pc = "attached" \/ (pc = "rejected" /\ written = 0)
      <3>1. th.late
        BY <2>1
      <3>2. Attached /\ (pc = "rejected" => dll = "unloaded")
        BY <3>1 DEF Hooked, Installation, Types
      <3>3. pc = "rejected" => written = 0
        BY <1>1, <3>2
      <3>4. QED
        BY <3>1, <3>2, <3>3 DEF Attached
    <2>3. th.where \in {"hook", "gate"} => pc = "attached" /\ dll = "loaded"
      BY <1>1, <2>2 DEF Executed, Installation, Types
    <2>4. CASE RunSource(t)
      <3>1. th.where = "source" /\ th.at < cbSource
        BY <2>4 DEF RunSource
      <3>2. CASE th.at >= Overwritten /\ Advance(t, NextEnd(th.at))
        <4>1. /\ cbSource \in Ends /\ Ends \subseteq Nat
          BY <1>1, EndsOfCode
        <4>2. NextEnd(th.at) > th.at /\ NextEnd(th.at) \in Nat
          BY <1>1, <3>1, <4>1, EndsOfCode
        <4>3. new.where = "source" /\ new.at = NextEnd(th.at)
          BY <1>1, <3>1, <3>2 DEF Advance, ThreadType
        <4>4. QED
          BY <1>1, <3>2, <4>2, <4>3 DEF Sheltered
      <3>3. CASE thread' = [thread EXCEPT ![t].where = "hook", ![t].hooked = TRUE]
        <4>1. new.where = "hook"
          BY <1>1, <3>3 DEF ThreadType
        <4>2. QED
          BY <4>1 DEF Sheltered
      <3>4. ~(/\ th.at < Overwritten
              /\ th.at > 0 \/ Overwritten < SizeOfJmpSequence \/ dll = "unloaded")
        BY <1>1, <2>2, <3>1 DEF Sheltered, Installation, Types, Progress
      <3>5. QED
        BY <2>4, <3>2, <3>3, <3>4 DEF RunSource
    <2>5. CASE Return(t)
      <3>1. new.where = "returned"
        BY <1>1, <2>5 DEF Return, ThreadType
      <3>2. QED
        BY <3>1 DEF Sheltered
    <2>6. CASE RunHook(t)
      <3>1. new.where \in {"answered", "gate"}
        BY <1>1, <2>3, <2>6 DEF RunHook, ThreadType
      <3>2. QED
        BY <3>1 DEF Sheltered
    <2>7. CASE RunGate(t)
      <3>1. /\ th.where = "gate" /\ pc = "attached" /\ dll = "loaded"
            /\ written >= SizeOfJmpSequence /\ th.at <= cbCopied
        BY <1>1, <2>3, <2>7 DEF RunGate, Executed
      <3>2. /\ written = cbCopied /\ gateJmp = cbCopied
            /\ garbled = {} /\ cbCopied \in Ends
        BY <1>1, <3>1, EntireCopy DEF Installation, Progress
      <3>3. CASE th.at = cbCopied
        <4>1. new.where = "source" /\ new.at = cbCopied
          BY <1>1, <2>7, <3>1, <3>2, <3>3 DEF RunGate, ThreadType
        <4>2. QED
          BY <1>1, <3>2, <4>1 DEF Sheltered
      <3>4. CASE th.at # cbCopied
        <4>1. th.at \notin garbled /\ \E e \in Ends : th.at < e /\ e <= cbCopied
          BY <1>1, <3>1, <3>2, <3>4
        <4>2. Advance(t, NextEnd(th.at))
          BY <2>7, <3>1, <3>4, <4>1 DEF RunGate
        <4>3. new.where = "gate"
          BY <1>1, <3>1, <4>2 DEF Advance, ThreadType
        <4>4. QED
          BY <4>3 DEF Sheltered
      <3>5. QED
        BY <3>3, <3>4
    <2>8. QED
      BY <1>3, <2>4, <2>5, <2>6, <2>7 DEF Program
  <1>4. QED
    BY <1>2, <1>3

LEMMA SafeStep ==
  ASSUME Installation, Threading, Hooked, Entire, Safe, [Next]_vars
  PROVE  Safe'
  <1>1. ReadRight' = ReadRight /\ hook' = hook
    BY InstallationStep, SameProcedure
  <1>2. Attached => UNCHANGED <<pc, dll, written>>
    BY DEF Next, vars, Install, Attach, Relocate, Refuse, WriteGateJmp, Patch, Fill,
           Restore, Attached
  <1>3. CASE UNCHANGED vars
    BY <1>1, <1>3 DEF Safe, Sheltered, vars
  <1>4. CASE Install
    <2>1. UNCHANGED thread /\ ~Attached
      BY <1>4 DEF Install, Attach, Relocate, Refuse, WriteGateJmp, Patch, Fill, Restore, Attached
    <2>2. \A t \in Threads : ~thread'[t].late
      BY <2>1 DEF Hooked
    <2>3. QED
      BY <2>2 DEF Safe
  <1>5. ASSUME NEW t \in Threads, Program(t),
               UNCHANGED <<hook, pc, cbCopied, garbled, gateJmp, written, dll, failed>>
        PROVE  Safe'
    <2>1. SUFFICES ASSUME ReadRight, ~(dll = "unloaded" /\ written > 0),
                          NEW u \in Threads, thread'[u].late
                   PROVE  Sheltered(thread[u])'
      BY <1>1, <1>5 DEF Safe
    <2>2. CASE u = t
      BY <1>5, <2>1, <2>2, SafeProgram DEF Safe
    <2>3. CASE u # t
      <3>1. thread'[u] = thread[u]
        BY <1>5, <2>3 DEF Threading, Program, Call, RunSource, Return, RunHook, RunGate,
                          Advance, Crash
      <3>2. QED
        BY <1>5, <2>1, <3>1 DEF Safe, Sheltered
    <2>4. QED
      BY <2>2, <2>3
  <1>6. QED
    BY <1>3, <1>4, <1>5 DEF Next

(* A later call is safe whatever the number of threads and however long the
   procedure, unless the DLL was unloaded with its jump still in place. *)
THEOREM LaterCallsStaySafe ==
  ASSUME Apart
  PROVE  Spec => []LaterCallsAreSafe
  <1>1. Init => Hooked /\ Safe
    <2>1. SUFFICES ASSUME Init PROVE Hooked /\ Safe
      OBVIOUS
    <2>2. \A t \in Threads : thread[t] = Out
      BY <2>1 DEF Init
    <2>3. QED
      BY <2>2 DEF Hooked, Safe, Out
  <1>2. Safe => LaterCallsAreSafe
    BY DEF Safe, LaterCallsAreSafe, Sheltered
  <1>3. QED
    BY <1>1, <1>2, HookedStep, SafeStep, EntireInvariant, InstallationInvariant,
       ThreadingInvariant, PTL DEF Spec
=============================================================================
