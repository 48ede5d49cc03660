---------------------------- MODULE HookInstall -----------------------------
(***************************************************************************)
(* How OeyEnc.dll takes the place of MimeOleCreateMessage: DllMain,        *)
(* _BindProvider and _MimeOleCreateMessage (OeyEnc.Dll) and                *)
(* InstallProcedureHook (CoJack/Cojack.h), with the other threads of the   *)
(* mail program that call the procedure meanwhile.                         *)
(*                                                                         *)
(* The first instructions of the procedure are copied to a call gate that  *)
(* ends in a jump to the rest, and are overwritten with a jump to the      *)
(* hook.  Bytes are known by their offset in the procedure.                *)
(***************************************************************************)
EXTENDS Relocation, Sequences

CONSTANTS
  Hooks,      (* the procedures that are hooked, and in which process      *)
  Misread,    (* instructions found where no instruction of them begins    *)
  Distances,  (* displacements that a relative instruction needs           *)
  SIZE_T,     (* the numbers of type size_t are below it                   *)
  Threads,    (* the threads that call the procedure                       *)
  Failures    (* the system calls that may fail                            *)

(* A jump on the way to the procedure, as an import or a thunk has them. *)
Stub == [jump : {"short", "word", "near", "indirect"}, back : BOOLEAN]

Hook ==
  [x64 : BOOLEAN,
   stubs : Seq(Stub),         (* what the address of the procedure leads to *)
   code : Seq(Instruction),   (* the procedure                              *)
   page : Nat,                (* its bytes up to the next page              *)
   far : BOOLEAN,             (* the hook is out of the reach of a LONG     *)
   cbCallgate : Nat,
   suspended : BOOLEAN]       (* no thread runs until the DLL is attached   *)

Calls == {"GetModuleHandle", "UnprotectGate", "RestoreGate",
          "UnprotectSource", "RestoreSource"}

ASSUME HooksAssumption == Hooks \subseteq Hook /\ Misread \subseteq Instruction
ASSUME SizeAssumption == SIZE_T \in Nat \ {0}
ASSUME FailuresAssumption == Failures \subseteq Calls

(* A procedure has an instruction, and does not end in the middle of one. *)
ASSUME CodeAssumption ==
  \A h \in Hooks : h.code # <<>> /\ h.code[Len(h.code)].op # "segment"

VARIABLES
  hook,
  pc,           (* the step of InstallProcedureHook that runs next         *)
  cbCopied,     (* how much of the procedure is in the call gate           *)
  garbled,      (* where the gate has a displacement that was rewritten    *)
  gateJmp,      (* where the jump at the end of the gate leads; 0: none    *)
  written,      (* how much of the procedure is overwritten                *)
  dll,          (* whether OeyEnc.dll is in the process                    *)
  failed,       (* the system calls that have failed                       *)
  thread        (* where each thread is and what it has executed           *)

vars == <<hook, pc, cbCopied, garbled, gateJmp, written, dll, failed, thread>>

Out == [where |-> "out", at |-> 0, ran |-> <<>>, late |-> FALSE,
        hooked |-> FALSE]

Init ==
  /\ hook \in Hooks
  /\ pc = "attach" /\ cbCopied = 0 /\ garbled = {} /\ gateJmp = 0
  /\ written = 0 /\ dll = "attaching" /\ failed = {}
  /\ thread = [t \in Threads |-> Out]
-----------------------------------------------------------------------------
bJmp32 == 5
bJmp64 == 15
SizeOfJmpSequence == IF hook.x64 /\ hook.far THEN bJmp64 ELSE bJmp32

(* Where the k-th instruction of the procedure ends.  The prefixes that the
   tables list as instructions belong to the instruction behind them. *)
Offset[k \in 0 .. Len(hook.code)] ==
  IF k = 0 THEN 0 ELSE Offset[k - 1] + TrueSize(hook.code[k], hook.x64)

Ends == {Offset[k] : k \in {j \in DOMAIN hook.code : hook.code[j].op # "segment"}}
NextEnd(at) == LET later == {e \in Ends : e > at}
               IN  CHOOSE e \in later : \A f \in later : e <= f
cbSource == Offset[Len(hook.code)]

(* FindFinalTarget takes the displacement of a short jump for unsigned, and
   reads 16-bit and indirect jumps of 64-bit code as those of 32-bit code. *)
FindForward ==                         (* no displacement has a sign *)
  IF \E i \in DOMAIN hook.stubs : hook.stubs[i].back THEN "astray" ELSE "source"
FindFinalTarget ==
  IF \A i \in DOMAIN hook.stubs :
       \/ hook.stubs[i].jump = "near"
       \/ hook.stubs[i].jump = "short" /\ ~hook.stubs[i].back
       \/ hook.stubs[i].jump \in {"word", "indirect"} /\ ~hook.x64
  THEN "source" ELSE "astray"

Overwritten == IF FindFinalTarget = "source" THEN written ELSE 0

(* The room for the copied instructions, in unsigned arithmetic. *)
RoomForAll == hook.cbCallgate % SIZE_T        (* no room for the jump *)
Room == (hook.cbCallgate - bJmp64) % SIZE_T

(* What the decoder may find at an offset. *)
InstructionsAt(at) ==
  LET here == {k \in DOMAIN hook.code : Offset[k - 1] = at}
  IN  IF FindFinalTarget = "source" /\ here # {}
      THEN {hook.code[k] : k \in here}
      ELSE Misread

Goto(step) == pc' = step /\ UNCHANGED failed
Fail(call) == call \in Failures /\ failed' = failed \cup {call}

(* DllMain answers FALSE, and the loader unloads the DLL. *)
Reject == pc' = "rejected" /\ dll' = "unloaded"
-----------------------------------------------------------------------------
(* _BindProvider, and InstallProcedureHook up to the copying. *)
Attach ==
  /\ pc = "attach"
  /\ \/ (Fail("GetModuleHandle") \/ Fail("UnprotectGate")) /\ Reject
     \/ /\ hook.cbCallgate <= (IF hook.x64 THEN bJmp64 ELSE bJmp32)
        /\ Reject /\ UNCHANGED failed
     \/ /\ hook.cbCallgate > (IF hook.x64 THEN bJmp64 ELSE bJmp32)
        /\ Goto(IF Room = 0 THEN "refused" ELSE "relocate") /\ UNCHANGED dll
  /\ UNCHANGED <<hook, cbCopied, garbled, gateJmp, written, thread>>

EnoughForOffset(copied) == copied >= SizeOfJmpSequence - 1
Enough(copied) == copied >= SizeOfJmpSequence

(* One instruction goes into the gate.  A displacement is written back from
   the record that holds it, of which it is not the first field. *)
Relocate ==
  /\ pc = "relocate"
  /\ \E i \in InstructionsAt(cbCopied) :
       LET size == SizeOf(i, hook.x64)
           left == Room - cbCopied - size
       IN  IF i.op = "ret" \/ left < 0
           THEN Goto("refused") /\ UNCHANGED <<cbCopied, garbled>>
           ELSE \E distance \in Distances :
                  IF Relative(i, hook.x64)
                     /\ ~RecalculateDisplacement(DisplacementSize(i, hook.x64), distance)
                  THEN Goto("refused") /\ UNCHANGED <<cbCopied, garbled>>
                  ELSE /\ cbCopied' = cbCopied + size
                       /\ garbled' = IF Relative(i, hook.x64)
                                     THEN garbled \cup {cbCopied} ELSE garbled
                       /\ Goto(IF Enough(cbCopied') THEN "gateJmp"
                               ELSE IF left = 0 THEN "refused" ELSE "relocate")
  /\ UNCHANGED <<hook, gateJmp, written, dll, thread>>

(* The protection of the gate is restored also when nothing was relocated. *)
Refuse ==
  /\ pc = "refused"
  /\ Fail("RestoreGate") \/ UNCHANGED failed
  /\ Reject
  /\ UNCHANGED <<hook, cbCopied, garbled, gateJmp, written, thread>>

(* The displacement is taken from behind the copied instructions. *)
JmpFromGate == 2 * cbCopied            (* taken from the start of the gate *)
JmpToSource == cbCopied

WriteGateJmp ==
  /\ pc = "gateJmp"
  /\ gateJmp' = JmpToSource
  /\ \/ (Fail("RestoreGate") \/ Fail("UnprotectSource")) /\ Reject
     \/ Goto("patch") /\ UNCHANGED dll
  /\ UNCHANGED <<hook, cbCopied, garbled, written, thread>>

(* The bytes are written in ascending order, any number of them at a time. *)
Patch ==
  /\ pc = "patch"
  /\ \E n \in written + 1 .. SizeOfJmpSequence :
       /\ written' = n
       /\ Goto(IF n = SizeOfJmpSequence THEN "fill" ELSE "patch")
  /\ UNCHANGED <<hook, cbCopied, garbled, gateJmp, dll, thread>>

(* VirtualProtect has made whole pages writable, for the bytes of the jump. *)
Writable == IF hook.page < SizeOfJmpSequence THEN cbCopied ELSE hook.page

Fill ==
  /\ pc = "fill"
  /\ \/ /\ \E n \in written + 1 .. cbCopied : n <= Writable /\ written' = n
        /\ Goto("fill")
     \/ /\ written = cbCopied
        /\ Goto("restore") /\ UNCHANGED written
     \/ /\ written < cbCopied /\ written >= Writable
        /\ Goto("fault") /\ UNCHANGED written
  /\ UNCHANGED <<hook, cbCopied, garbled, gateJmp, dll, thread>>

(* The gate is protected again at the end, too. *)
RestoreBoth ==
  /\ pc \in {"restore", "fault"}
  /\ \/ (Fail("RestoreSource") \/ Fail("RestoreGate")) /\ Reject
     \/ pc = "fault" /\ Reject /\ UNCHANGED failed
     \/ pc = "restore" /\ Goto("attached") /\ dll' = "loaded"
  /\ UNCHANGED <<hook, cbCopied, garbled, gateJmp, written, thread>>

(* A fault leaves DllMain as an exception once the protection is restored. *)
Restore ==
  /\ pc \in {"restore", "fault"}
  /\ \/ Fail("RestoreSource") /\ Reject
     \/ pc = "fault" /\ Reject /\ UNCHANGED failed
     \/ pc = "restore" /\ Goto("attached") /\ dll' = "loaded"
  /\ UNCHANGED <<hook, cbCopied, garbled, gateJmp, written, thread>>
-----------------------------------------------------------------------------
Attached == pc \in {"attached", "rejected"}

Call(t) ==
  /\ thread[t].where = "out"
  /\ hook.suspended => Attached
  /\ thread' = [thread EXCEPT ![t].where = "source", ![t].late = Attached]

(* A thread that fetches an instruction finds the old bytes or the new ones;
   a jump that is not complete, or a byte in the middle of the new ones, is
   no instruction of anybody. *)
Crash(t) == thread' = [thread EXCEPT ![t].where = "crashed"]

Advance(t, end) ==
  thread' = [thread EXCEPT ![t].at = end, ![t].ran = Append(@, end)]

RunSource(t) ==
  /\ thread[t].where = "source" /\ thread[t].at < cbSource
  /\ LET at == thread[t].at
     IN  \/ at >= Overwritten /\ Advance(t, NextEnd(at))
         \/ /\ at = 0 /\ Overwritten >= SizeOfJmpSequence /\ dll # "unloaded"
            /\ thread' = [thread EXCEPT ![t].where = "hook", ![t].hooked = TRUE]
         \/ /\ at < Overwritten
            /\ at > 0 \/ Overwritten < SizeOfJmpSequence \/ dll = "unloaded"
            /\ Crash(t)

Return(t) ==
  /\ thread[t].where = "source" /\ thread[t].at >= cbSource
  /\ thread' = [thread EXCEPT ![t].where = "returned"]

(* _MimeOleCreateMessage, or what it does when the message is not created. *)
RunHook(t) ==
  /\ thread[t].where = "hook"
  /\ IF dll = "unloaded" THEN Crash(t)
     ELSE \/ thread' = [thread EXCEPT ![t].where = "answered"]
          \/ thread' = [thread EXCEPT ![t].where = "gate"]

(* The gate holds the bytes of the procedure, and the processor finds the
   instructions in them that it found before. *)
RunGate(t) ==
  /\ thread[t].where = "gate"
  /\ LET at == thread[t].at
     IN  IF dll = "unloaded" THEN Crash(t)
         ELSE IF at = cbCopied
         THEN thread' = [thread EXCEPT ![t].where = "source", ![t].at = gateJmp]
         ELSE IF at \notin garbled /\ \E e \in Ends : at < e /\ e <= cbCopied
         THEN Advance(t, NextEnd(at))
         ELSE Crash(t)

Install == Attach \/ Relocate \/ Refuse \/ WriteGateJmp \/ Patch \/ Fill \/ Restore

Program(t) == Call(t) \/ RunSource(t) \/ Return(t) \/ RunHook(t) \/ RunGate(t)

Next ==
  \/ Install
  \/ \E t \in Threads :
       /\ Program(t)
       /\ UNCHANGED <<hook, pc, cbCopied, garbled, gateJmp, written, dll, failed>>

Spec == Init /\ [][Next]_vars
-----------------------------------------------------------------------------
(* Every variable has its type; the overwritten bytes have been copied. *)
TypeOK ==
  /\ hook \in Hooks
  /\ pc \in {"attach", "relocate", "refused", "gateJmp", "patch", "fill",
             "restore", "fault", "attached", "rejected"}
  /\ cbCopied \in Nat /\ garbled \subseteq 0 .. cbCopied
  /\ gateJmp \in 0 .. cbCopied
  /\ written \in 0 .. cbCopied
  /\ dll \in {"attaching", "loaded", "unloaded"}
  /\ failed \subseteq Failures
  /\ \A t \in Threads :
       /\ thread[t].where \in {"out", "source", "hook", "gate", "returned",
                              "answered", "crashed"}
       /\ thread[t].at \in 0 .. cbSource
       /\ thread[t].ran \in Seq(Ends)
       /\ thread[t].late \in BOOLEAN /\ thread[t].hooked \in BOOLEAN

(* "Entire instructions are copied": what is in a finished gate ends where an
   instruction of the procedure ends. *)
CopiesEntireInstructions == gateJmp > 0 => cbCopied \in Ends

(* The decoder reads the procedure as the processor does: no displacement of
   eight or more bits belongs to a SIB with base 5 (it would be counted twice),
   no prefix is taken for an instruction, and in 64-bit code no address prefix
   and no pair of 66h and REX.W changes a size.  Nor does it read on behind the
   end of the procedure. *)
ReadRight ==
  /\ FindFinalTarget = "source"
  /\ cbSource >= SizeOfJmpSequence \/ \E k \in DOMAIN hook.code : hook.code[k].op = "ret"
  /\ \A k \in DOMAIN hook.code :
       LET i == hook.code[k]
       IN  /\ i.op # "segment"
           /\ ~(i.op \in ModRM /\ i.rm = 4 /\ i.mod \in {1, 2} /\ i.base = 5)
           /\ hook.x64 => /\ ~(i.op \in ModRM /\ Has(i, "address"))
                          /\ ~{"operand", "rexW"} \subseteq i.prefixes

(* Of such a procedure only entire instructions are copied, wherever the bytes
   for the jump end (_RelocateInstructionStream). *)
EntireInstructions == ReadRight => CopiesEntireInstructions

(* "The functionality of each instruction is identical in the new location": a
   call of the original procedure that comes back, through the gate or not, has
   executed each of its instructions, once and in order. *)
SameFunction ==
  \A t \in Threads :
    thread[t].where = "returned" =>
      /\ Len(thread[t].ran) = Cardinality(Ends)
      /\ \A i \in 1 .. Len(thread[t].ran) - 1 : thread[t].ran[i] < thread[t].ran[i + 1]

(* The bytes of the page that Fill cannot reach. *)
PageEnds == SizeOfJmpSequence <= hook.page /\ hook.page < cbCopied

(* The jump to the hook stays only while the hook is in memory, unless the
   restoring of the protection fails after the patch or the bytes to fill lie
   on two pages (InstallProcedureHook reports a failure, DllMain answers FALSE
   and the DLL is unloaded, but nothing takes the jump back). *)
HookNeverDangles ==
  dll = "unloaded" /\ written > 0 => "RestoreSource" \in failed \/ PageEnds

(* Only threads that were in the procedure during the installation can find
   half a jump; a later call finds a hook that works or none. *)
LaterCallsAreSafe ==
  ReadRight /\ ~(dll = "unloaded" /\ written > 0) =>
    \A t \in Threads : thread[t].late => thread[t].where # "crashed"

(* The jumps whose displacement FindFinalTarget reads as the processor does. *)
Followed ==
  \A i \in DOMAIN hook.stubs :
    IF hook.stubs[i].jump = "short" THEN ~hook.stubs[i].back
    ELSE hook.x64 => hook.stubs[i].jump = "near"

(* Once the DLL is attached every new call reaches the hook first: the hook is
   where the chain of jumps ends. *)
EveryLaterCallIsHooked ==
  pc = "attached" /\ Followed =>
    \A t \in Threads :
      thread[t].late /\ thread[t].where \in {"returned", "answered"}
        => thread[t].hooked

(* Instructions and jump fit in the gate, if it has the room for the longest
   jump (the guard of InstallProcedureHook asks for less in 32-bit code). *)
GateIsNotOverrun ==
  hook.cbCallgate >= bJmp64 =>
    cbCopied + (IF gateJmp = 0 THEN 0 ELSE SizeOfJmpSequence) <= hook.cbCallgate
=============================================================================
