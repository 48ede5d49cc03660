----------------------------- MODULE Relocation -----------------------------
(***************************************************************************)
(* How CoJack reads machine code (CoJack/Cojack.h): the size it gives an   *)
(* instruction, from the instruction tables and the bytes ModRM and SIB,   *)
(* and what it does with a relative displacement.                          *)
(*                                                                         *)
(* An instruction is a record.  op names its row of the tables, one name   *)
(* for all opcodes with the same row; prefixes are the bytes 66h, 67h and  *)
(* REX.W in front of it; mod, reg, rm are the fields of ModRM and base is  *)
(* the field of SIB.  Fields that an instruction does not have are 0, as   *)
(* ResetDecodeInfo leaves them.                                            *)
(***************************************************************************)
EXTENDS Integers, FiniteSets

CONSTANTS CHAR_MAX, SHRT_MAX, LONG_MAX (* the largest values of CHAR, SHORT, LONG *)

(* The rows of the tables: size of opcode and immediate in their 16-bit form. *)
TableSize ==
  [ push |-> 1, pushImm8 |-> 2, pushImm |-> 3, mov |-> 1, aluImm8 |-> 2,
    movImm |-> 3, movRegImm |-> 3, movOffset |-> 3, enter |-> 4, test8 |-> 1,
    test |-> 1, group5 |-> 1, movzx |-> 1, jcc8 |-> 2, jcc |-> 3, call |-> 3,
    segment |-> 1, ret |-> 1, invalid |-> 0 ]

Opcodes    == DOMAIN TableSize
ModRM      == {"mov", "aluImm8", "movImm", "test8", "test", "group5", "movzx"}
Extend32   == {"pushImm", "movImm", "movRegImm", "jcc", "call"}
Extend64   == {"movRegImm"}
IsAddress  == {"movOffset"}
IsRelative == {"jcc8", "jcc", "call"}
TwoByte    == {"movzx", "jcc"}         (* rows of the table behind 0Fh *)

Prefixes == {"operand", "address", "rexW"}

Instruction ==
  [op : Opcodes, prefixes : SUBSET Prefixes, mod : 0 .. 3, reg : 0 .. 7,
   rm : 0 .. 7, base : 0 .. 7]

Has(i, prefix) == prefix \in i.prefixes
-----------------------------------------------------------------------------
(* Bytes of displacement that the field mod asks for. *)
ByMod(mod, none, long) == <<none, 1, long, 0>>[mod + 1]

IsEncodedRIP(i) == ~Has(i, "address") /\ i.mod = 0 /\ i.rm = 5
IsEncodedSIB(i) == ~Has(i, "address") /\ i.mod # 3 /\ i.rm = 4

(* Without the displacement of an address that is no register. *)
GetSizeOfMod(i, x64) == ByMod(i.mod, 0, 4)
GetSizeOfModRM(i, x64) ==
  IF Has(i, "address") /\ ~(x64 /\ Has(i, "rexW"))
  THEN ByMod(i.mod, IF i.rm = 6 THEN 2 ELSE 0, 2)
  ELSE ByMod(i.mod, IF i.rm = 5 THEN 4 ELSE 0, 4)

GetSizeOfSIB(i) == IF i.base = 5 THEN ByMod(i.mod, 4, 4) ELSE 0

(* The rows of F6h, F7h and FFh depend on the field reg. *)
OpInfoSize(i) ==
  CASE i.op = "test8"  /\ i.reg = 0         -> TableSize[i.op] + 1
    [] i.op = "test"   /\ i.reg = 0         -> TableSize[i.op] + 2
    [] i.op = "group5" /\ i.reg \in {3, 5}  -> 3
    [] OTHER                                -> TableSize[i.op]

Extends32(i) == \/ i.op \in Extend32
                \/ i.op = "test" /\ i.reg = 0
                \/ i.op = "group5" /\ i.reg \in {3, 5}

Relative(i, x64) == \/ i.op \in IsRelative
                    \/ i.op = "group5" /\ i.reg \in {3, 4, 5}
                    \/ i.op \in ModRM /\ x64 /\ IsEncodedRIP(i)

AddressBytes(i, x64) ==
  IF i.op \notin IsAddress THEN 0
  ELSE IF x64 THEN (IF Has(i, "address") THEN 2 ELSE 6)
              ELSE (IF Has(i, "address") THEN 0 ELSE 2)

(* With a relative operand the operand prefix is ignored in 64-bit mode. The
   displacement relative to rIP is only noticed after the size is known. *)
ImmediateBytes(i, x64) ==
  IF x64 /\ i.op \in Extend64 /\ Has(i, "rexW") THEN 6
  ELSE IF ~Extends32(i) THEN 0
  ELSE IF Has(i, "operand")
          /\ ~(x64 /\ (i.op \in IsRelative \/ i.op = "group5")) THEN 0
  ELSE 2

GetSizeOfOpCode(i, x64) ==
  OpInfoSize(i) + AddressBytes(i, x64) + ImmediateBytes(i, x64)

(* The bytes between pbBase and pbStream when the instruction was read. *)
ModRMBytes(i, x64) ==
  IF i.op \notin ModRM THEN 0
  ELSE 1 + (IF IsEncodedSIB(i) THEN 1 + GetSizeOfSIB(i) ELSE 0)
         + GetSizeOfModRM(i, x64)

Leading(i) == Cardinality(i.prefixes) + (IF i.op \in TwoByte THEN 1 ELSE 0)

SizeOf(i, x64) ==
  IF i.op = "invalid" THEN Leading(i) + 1
  ELSE Leading(i) + ModRMBytes(i, x64) + GetSizeOfOpCode(i, x64)
-----------------------------------------------------------------------------
(* RecalculateDisplacement: whether a displacement of that many bytes can hold
   the distance.  The upper bound for four bytes is LONG_MIN in the code. *)
RecalculateAsMeant(size, distance) ==
  \E max \in {CASE size = 1 -> CHAR_MAX [] size = 2 -> SHRT_MAX
                [] size \in {4, 6} -> LONG_MAX [] OTHER -> -1} :
    max >= 0 /\ distance \in -(max + 1) .. max
RecalculateDisplacement(size, distance) ==
  CASE size = 1 -> -(CHAR_MAX + 1) <= distance /\ distance <= CHAR_MAX
    [] size = 2 -> -(SHRT_MAX + 1) <= distance /\ distance <= SHRT_MAX
    [] size = 4 -> distance = -(LONG_MAX + 1)
    [] size = 6 -> -(LONG_MAX + 1) <= distance /\ distance <= LONG_MAX
    [] OTHER    -> FALSE

DisplacementSize(i, x64) == GetSizeOfOpCode(i, x64) - 1
-----------------------------------------------------------------------------
(* What the processor makes of the same bytes (the reference of the check, from
   the format of x86 instructions, not from the code). *)
AddressForm(i, x64) ==
  IF Has(i, "address") /\ ~x64
  THEN ByMod(i.mod, IF i.rm = 6 THEN 2 ELSE 0, 2)
  ELSE LET sib == i.mod # 3 /\ i.rm = 4
           disp32 == IF i.rm = 5 \/ (sib /\ i.base = 5) THEN 4 ELSE 0
       IN  (IF sib THEN 1 ELSE 0) + ByMod(i.mod, disp32, 4)

OperandBytes(i, x64) ==
  LET z == IF Has(i, "operand") /\ ~(x64 /\ Has(i, "rexW")) THEN 2 ELSE 4
  IN  CASE i.op \in {"pushImm8", "aluImm8"}     -> 1
        [] i.op \in {"pushImm", "movImm"}       -> z
        [] i.op = "movRegImm"                   -> IF x64 /\ Has(i, "rexW") THEN 8 ELSE z
        [] i.op = "movOffset"                   ->
             IF x64 THEN (IF Has(i, "address") THEN 4 ELSE 8)
                    ELSE (IF Has(i, "address") THEN 2 ELSE 4)
        [] i.op = "enter"                       -> 3
        [] i.op = "test8" /\ i.reg = 0          -> 1
        [] i.op = "test" /\ i.reg = 0           -> z
        [] i.op = "jcc8"                        -> 1
        [] i.op \in {"jcc", "call"}             -> IF x64 THEN 4 ELSE z
        [] OTHER                                -> 0

TrueSize(i, x64) ==
  Leading(i) + 1 + (IF i.op \in ModRM THEN 1 + AddressForm(i, x64) ELSE 0)
  + OperandBytes(i, x64)
=============================================================================
