--------------------------- MODULE MCHookInstall ----------------------------
(* Small instances of HookInstall: prologues of procedures as compilers write
   them, and some that the decoder does not expect. *)
EXTENDS HookInstall

Plain(op) == [op |-> op, prefixes |-> {}, mod |-> 0, reg |-> 0, rm |-> 0, base |-> 0]
Operand(op, mod, rm, base) == [Plain(op) EXCEPT !.mod = mod, !.rm = rm, !.base = base]
Rex(i) == [i EXCEPT !.prefixes = {"rexW"}]

Push == Plain("push")
Move == Operand("mov", 3, 5, 0)          (* mov ebp, esp        *)
Load == Operand("mov", 1, 5, 0)          (* mov eax, [ebp + 8]  *)
Local == Operand("mov", 1, 4, 4)         (* mov eax, [esp + 4]  *)
Indexed == Operand("mov", 1, 4, 5)       (* mov eax, [ebp + ecx + 8] *)
Sub == Operand("aluImm8", 3, 4, 0)       (* sub esp, 20h        *)
Absolute == Operand("mov", 0, 5, 0)      (* mov eax, [n]        *)
Rip == Operand("mov", 0, 5, 0)           (* mov rax, [rip + n]  *)

Usual32 == <<Move, Push, Move, Push, Load, Load>>
Seh32   == <<Plain("pushImm8"), Plain("pushImm"), Plain("call"), Load>>
Fs32    == <<Plain("segment"), Plain("movOffset"), Push, Push, Load>>
Usual64 == <<Rex(Local), Rex(Local), Push, Rex(Sub), Rex(Move), Rex(Move)>>
Rip64   == <<Rex(Rip), Rex(Local), Rex(Local), Rex(Local)>>

Of32(code, stubs) ==
  [x64 |-> FALSE, stubs |-> stubs, code |-> code, page |-> 4096, far |-> TRUE,
   cbCallgate |-> 64, suspended |-> FALSE]
Of64(code, far) == [Of32(code, <<>>) EXCEPT !.x64 = TRUE, !.far = far]

Import == [jump |-> "indirect", back |-> FALSE]
Thunk  == [jump |-> "near", back |-> TRUE]
Short  == [jump |-> "short", back |-> TRUE]

(* Every row of the tables with the forms of its operands, as the first
   instruction of a procedure. *)
Forms == {Operand("mov", 3, 0, 0), Operand("mov", 0, 5, 0), Operand("mov", 0, 6, 0),
          Operand("mov", 0, 4, 5), Operand("mov", 1, 4, 4), Operand("mov", 2, 0, 0)}

Rows ==
  {[form EXCEPT !.op = op, !.prefixes = prefixes, !.reg = reg] :
     form \in Forms, op \in ModRM, reg \in {0, 3},
     prefixes \in {{}, {"operand"}}}
  \cup {[Plain(op) EXCEPT !.prefixes = prefixes] : op \in Opcodes \ ModRM,
         prefixes \in {{}, {"operand"}, {"address"}, {"rexW"}}}

OfRow(row, x64) ==
  [Of32(<<row, Push, Push, Push, Push, Push>>, <<>>) EXCEPT
     !.x64 = x64, !.far = FALSE, !.suspended = TRUE]

MCHooks ==
  {OfRow(row, x64) : row \in {r \in Rows : "rexW" \notin r.prefixes}, x64 \in BOOLEAN}
  \cup {OfRow(row, TRUE) : row \in Rows}
  \cup
  {Of32(Usual32, <<Import, Thunk>>), Of32(Usual32, <<Short>>), Of32(Seh32, <<>>),
   Of32(Fs32, <<Import>>), Of64(Usual64, TRUE), Of64(Usual64, FALSE),
   Of64(Rip64, FALSE),
   [Of32(Usual32, <<>>) EXCEPT !.suspended = TRUE],
   [Of32(Seh32, <<>>) EXCEPT !.page = 6],
   [Of32(<<Local, Local, Load>>, <<>>) EXCEPT !.page = 2],
   [Of32(Seh32, <<>>) EXCEPT !.cbCallgate = 20],
   [Of32(Usual32, <<>>) EXCEPT !.cbCallgate = 18],
   [Of32(Usual32, <<>>) EXCEPT !.cbCallgate = 15],
   [Of32(Usual32, <<>>) EXCEPT !.cbCallgate = 8],
   [Of64(Usual64, TRUE) EXCEPT !.cbCallgate = 30],
   [Of64(Usual64, TRUE) EXCEPT !.cbCallgate = 20],
   Of32(<<Push, Absolute, Load, Load, Load>>, <<>>),
   Of32(<<Plain("call"), Load, Load>>, <<>>),
   Of32(<<Push, Plain("jcc8"), Load, Load>>, <<>>),
   Of32(<<Push, Plain("ret")>>, <<Thunk>>),
   Of32(<<Indexed, Push, Load>>, <<>>),
   Of32(<<Push, Push, Push, Push, Plain("segment"), Move, Load>>, <<>>)}

IndexedHooks == {Of32(<<Push, Indexed, Load, Load>>, <<>>)}

MCMisread == {Push, Load}
MCDistances == {4, -7}
=============================================================================
