------------------------------- MODULE Launch -------------------------------
(***************************************************************************)
(* How OeyEnc.exe brings OeyEnc.dll into the mail program: _tWinMain and   *)
(* what it calls (OeyEnc.Exe/WinMain.cpp), LoadLibraryInProcess and        *)
(* ResumeProcessWithModule (CoJack/Cojack.h), and the routines they run in *)
(* the other process (CoJack/i386, CoJack/amd64).                          *)
(*                                                                         *)
(* A mail program that is running gets a new thread that loads the DLL.    *)
(* Otherwise one is created without letting it run, and its first thread   *)
(* loads the DLL in an asynchronous procedure call, sets an event and      *)
(* frees the memory with its own code.  Either process may end at any      *)
(* time, by itself or by somebody else's hand.                             *)
(***************************************************************************)
EXTENDS Naturals

CONSTANTS
  Requests,    (* how the loader may be started                            *)
  Failures,    (* the calls that may fail                                  *)
  MaxPrompts   (* how often a wrong password is tried                      *)

Request == [machine : {"i386", "amd64"},   (* what it is built for         *)
            running : BOOLEAN,     (* the mail program is running          *)
            shellOpen : BOOLEAN,   (* a message file is opened             *)
            user : BOOLEAN,        (* for the account of another user      *)
            identity : BOOLEAN]    (* an identity is to be logged on       *)

Calls == {"ExpandModulePath", "OpenProcess", "Inject", "WaitThread",
          "Resource", "LogonUser", "Identity", "GetOePath", "CreateProcess",
          "Prepare", "ResumeThread", "WaitEvent", "LoadLibrary"}

ASSUME RequestsAssumption == Requests \subseteq Request
ASSUME FailuresAssumption == Failures \subseteq Calls
ASSUME MaxPromptsAssumption == MaxPrompts \in Nat

VARIABLES
  request,
  pc,        (* what _tWinMain does next                                   *)
  dwErr,     (* "none", "error" or "cancelled"                             *)
  userName,  (* g_szUserName is not empty                                  *)
  prompts,   (* how many wrong passwords were given                        *)
  failed,    (* the calls that have failed                                 *)
  event,     (* the event of ResumeProcessWithModule is set                *)
  process    (* the mail program that was running, and the one created     *)

vars == <<request, pc, dwErr, userName, prompts, failed, event, process>>

(* remote is the progress of the routine in the other process: a thread that
   returned 0 is "finished", one that returned something else "failed".  memory
   is whether its code is there. *)
NoProcess == [state |-> "none", code |-> "none", account |-> "none",
              dll |-> FALSE, memory |-> "none", remote |-> "none"]

Init ==
  /\ request \in Requests
  /\ pc = "start" /\ dwErr = "none" /\ prompts = 0 /\ failed = {}
  /\ userName = request.user /\ event = FALSE
  /\ process =
       [existing |-> IF request.running
                     THEN [NoProcess EXCEPT !.state = "running"] ELSE NoProcess,
        created |-> NoProcess]

Alive(p) == process[p].state \in {"running", "suspended"}
Exits(p, code) ==
  process' = [process EXCEPT ![p].state = "exited", ![p].code = code]

Fail(call) == call \in Failures /\ failed' = failed \cup {call}
Goto(step) == pc' = step /\ UNCHANGED <<dwErr, failed>>
Leave(step, err) == pc' = step /\ dwErr' = err
-----------------------------------------------------------------------------
(* The failures of _ExpandModulePath and of _GetOePath set no error. *)
Start ==
  /\ pc = "start"
  /\ \/ Fail("ExpandModulePath") /\ Leave("cleanup", "none")
     \/ Goto(IF Alive("existing") THEN "open" ELSE "logon")
  /\ UNCHANGED <<request, userName, prompts, event, process>>

Open ==
  /\ pc = "open"
  /\ \/ Fail("OpenProcess") /\ Leave("cleanup", "error")
     \/ ~Alive("existing") /\ Leave("cleanup", "error") /\ UNCHANGED failed
     \/ Alive("existing") /\ Goto("inject")
  /\ UNCHANGED <<request, userName, prompts, event, process>>

(* LoadLibraryInProcess up to the wait; when a call fails nothing is left. *)
Inject ==
  /\ pc = "inject"
  /\ \/ /\ Fail("Inject") \/ (~Alive("existing") /\ UNCHANGED failed)
        /\ Leave("cleanup", "error") /\ UNCHANGED process
     \/ /\ Alive("existing")
        /\ process' = [process EXCEPT !.existing.memory = "used",
                                      !.existing.remote = "queued"]
        /\ Goto("waitThread")
  /\ UNCHANGED <<request, userName, prompts, event>>

(* The exit code of the thread is the result.  When the process ends, the code
   of the process is that of the thread. *)
ThreadEnded == process.existing.remote \in {"finished", "failed"} \/ ~Alive("existing")
ThreadCode ==
  IF Alive("existing")
  THEN IF process.existing.remote = "failed" THEN "error" ELSE "none"
  ELSE IF process.existing.code = "zero" THEN "none" ELSE "error"

AfterThread(err) ==
  /\ Leave(IF err # "none" THEN "cleanup"
           ELSE IF request.shellOpen THEN "path" ELSE "activate", err)
  /\ process' = [process EXCEPT !.existing.memory = "freed"]
  /\ UNCHANGED <<request, userName, prompts, event>>

WaitThreadOnly ==                        (* the exit code is not asked for *)
  /\ pc = "waitThread"
  /\ \/ Fail("WaitThread") /\ AfterThread("error")
     \/ ThreadEnded /\ AfterThread("none") /\ UNCHANGED failed

WaitThreadAWhile ==                      (* the wait has a timeout *)
  /\ pc = "waitThread"
  /\ \/ Fail("WaitThread") /\ AfterThread("error")
     \/ ThreadEnded /\ AfterThread(ThreadCode) /\ UNCHANGED failed
     \/ ~ThreadEnded /\ AfterThread("error") /\ UNCHANGED failed

WaitThread ==
  /\ pc = "waitThread"
  /\ \/ Fail("WaitThread") /\ AfterThread("error")
     \/ ThreadEnded /\ AfterThread(ThreadCode) /\ UNCHANGED failed
-----------------------------------------------------------------------------
(* The shell opens a message file for the account the loader runs under. *)
LogOn ==
  /\ pc = "logon"
  /\ \/ /\ ~request.shellOpen /\ userName
        /\ \/ Fail("Resource") /\ Leave("cleanup", "error")
           \/ Goto("prompt")
     \/ (request.shellOpen \/ ~userName) /\ Goto("identity")
  /\ UNCHANGED <<request, userName, prompts, event, process>>

(* The loop of _PromptForWindowsCredentials ends without an error also when
   LogonUser fails for another reason than the password, and the name that was
   typed, or emptied, takes the place of the one asked for. *)
Prompt ==
  /\ pc = "prompt"
  /\ \/ Leave("cleanup", "cancelled") /\ UNCHANGED <<failed, userName, prompts>>
     \/ Goto("identity") /\ userName' = TRUE /\ UNCHANGED prompts
     \/ /\ Fail("LogonUser") /\ Leave("identity", "none")
        /\ userName' \in BOOLEAN /\ UNCHANGED prompts
     \/ /\ prompts < MaxPrompts /\ prompts' = prompts + 1
        /\ Goto("prompt") /\ UNCHANGED userName
  /\ UNCHANGED <<request, event, process>>

(* _LogonIdentity, for which the name may just have been emptied. *)
LogOnIdentity ==
  /\ pc = "identity"
  /\ \/ /\ ~request.shellOpen /\ ~userName /\ request.identity
        /\ Fail("Identity") /\ Leave("cleanup", "error")
     \/ Goto("path")
  /\ UNCHANGED <<request, userName, prompts, event, process>>

GetOePath ==
  /\ pc = "path"
  /\ \/ Fail("GetOePath") /\ Leave("cleanup", "none")
     \/ Goto("create")
  /\ UNCHANGED <<request, userName, prompts, event, process>>

CreateOeProcess ==
  /\ pc = "create"
  /\ \/ Fail("CreateProcess") /\ Leave("cleanup", "error") /\ UNCHANGED process
     \/ /\ process' =
              [process EXCEPT !.created.state = "suspended",
                 !.created.account = IF ~request.shellOpen /\ userName
                                     THEN "named" ELSE "current"]
        /\ Goto("prepare")
  /\ UNCHANGED <<request, userName, prompts, event>>

(* ResumeProcessWithModule up to QueueUserAPC: memory, event, addresses, the
   handle of the event for the other process, the code, the call.  When one of
   them fails the memory is freed. *)
Prepared ==
  /\ Alive("created")
  /\ process' = [process EXCEPT !.created.memory = "used",
                                !.created.remote = "queued"]
  /\ Goto("resume")

PrepareOr(step) ==
  /\ pc = "prepare"
  /\ \/ /\ Fail("Prepare") \/ (~Alive("created") /\ UNCHANGED failed)
        /\ Leave(step, "error") /\ UNCHANGED process
     \/ Prepared
  /\ UNCHANGED <<request, userName, prompts, event>>

PrepareOrLeave == PrepareOr("cleanup") (* the process is kept *)
Prepare == PrepareOr("terminate")

(* The result of ResumeThread is not looked at. *)
Resume ==
  /\ pc = "resume"
  /\ \/ Fail("ResumeThread") /\ UNCHANGED process
     \/ /\ process' = IF Alive("created")
                      THEN [process EXCEPT !.created.state = "running"] ELSE process
        /\ UNCHANGED failed
  /\ pc' = "waitEvent" /\ UNCHANGED <<request, dwErr, userName, prompts, event>>

(* Of two objects that are signalled the wait reports the first, the process. *)
WaitEventOr(other) ==
  /\ pc = "waitEvent"
  /\ \/ other /\ Leave("terminate", "error") /\ UNCHANGED failed
     \/ ~other /\ event /\ Goto("activate")
     \/ Fail("WaitEvent") /\ Leave("terminate", "error")
  /\ UNCHANGED <<request, userName, prompts, event, process>>

WaitEventOnly == WaitEventOr(FALSE)          (* the process is not waited for *)
WaitEventAWhile == WaitEventOr(~event)         (* the wait has a timeout *)
WaitEvent == WaitEventOr(~Alive("created"))

Terminate ==
  /\ pc = "terminate"
  /\ IF Alive("created") THEN Exits("created", "error") ELSE UNCHANGED process
  /\ Goto("cleanup")
  /\ UNCHANGED <<request, userName, prompts, event>>

Activate ==
  /\ pc = "activate" /\ Goto("cleanup")
  /\ UNCHANGED <<request, userName, prompts, event, process>>

Cleanup ==
  /\ pc = "cleanup" /\ Goto("done")
  /\ UNCHANGED <<request, userName, prompts, event, process>>
-----------------------------------------------------------------------------
(* The routine in the other process.  LoadLibrary fails if DllMain does. *)
Remote(p, from, to) ==
  /\ process[p].state = "running" /\ process[p].remote = from
  /\ process[p].memory = "used"
  /\ process' = [process EXCEPT ![p].remote = to]

RemoteLoad(p) ==
  /\ process[p].state = "running" /\ process[p].memory = "used"
  /\ process[p].remote = "queued"
  /\ \/ /\ process' = [process EXCEPT ![p].remote = "loaded", ![p].dll = TRUE]
        /\ UNCHANGED failed
     \/ Fail("LoadLibrary") /\ process' = [process EXCEPT ![p].remote = "unloadable"]
  /\ UNCHANGED event

(* The thread is meant to return 0 or the last error.  The xor between the test
   of what LoadLibraryW returned and the jump sets the flag the jump looks at:
   the 64-bit thread always returns 0, the 32-bit one always the last error,
   which can be any after LoadLibraryW went well. *)
ThreadReturn ==
  /\ \/ Remote("existing", "loaded", "finished")
     \/ request.machine = "amd64" /\ Remote("existing", "unloadable", "finished")
     \/ /\ request.machine = "i386"
        /\ \E from \in {"loaded", "unloadable"} : Remote("existing", from, "failed")
  /\ UNCHANGED <<event, failed>>

(* The asynchronous procedure.  The 64-bit one ends the process when the DLL
   was not loaded, the 32-bit one runs into bytes that are no code. *)
SetClosedEvent ==                        (* the handle is closed before *)
  Remote("created", "loaded", "signalled") /\ UNCHANGED <<event, failed>>

SetEvent ==
  /\ Remote("created", "loaded", "signalled")
  /\ event' = TRUE /\ UNCHANGED failed
CloseEvent ==
  /\ Remote("created", "signalled", "closed")
  /\ UNCHANGED <<event, failed>>
KeepMemory ==
  Remote("created", "closed", "finished") /\ UNCHANGED <<event, failed>>
FreeMemory ==
  /\ process.created.state = "running" /\ process.created.remote = "closed"
  /\ process' = [process EXCEPT !.created.remote = "finished",
                                !.created.memory = "freed"]
  /\ UNCHANGED <<event, failed>>
GiveUp ==
  /\ process.created.state = "running" /\ process.created.remote = "unloadable"
  /\ Exits("created", "error")
  /\ UNCHANGED <<event, failed>>

(* Code that was freed is executed. *)
Crash(p) ==
  /\ process[p].state = "running" /\ process[p].memory = "freed"
  /\ process[p].remote \in {"queued", "loaded", "unloadable", "signalled", "closed"}
  /\ Exits(p, "crash")
  /\ UNCHANGED <<event, failed>>

Exit(p) ==
  /\ Alive(p)
  /\ \E code \in {"zero", "error"} : Exits(p, code)
  /\ UNCHANGED <<event, failed>>

Routine ==
  \/ \E p \in DOMAIN process : RemoteLoad(p) \/ Crash(p)
  \/ ThreadReturn \/ SetEvent \/ CloseEvent \/ FreeMemory \/ GiveUp

Loader ==
  \/ Start \/ Open \/ Inject \/ WaitThread \/ LogOn \/ Prompt \/ LogOnIdentity
  \/ GetOePath \/ CreateOeProcess \/ Prepare \/ Resume \/ WaitEvent
  \/ Terminate \/ Activate \/ Cleanup

Next ==
  \/ Loader
  \/ /\ Routine \/ \E p \in DOMAIN process : Exit(p)
     /\ UNCHANGED <<request, pc, dwErr, userName, prompts>>

(* The loader and the routine in the other process go on when they can.  No
   call need ever fail, and no process need end by itself. *)
Spec ==
  /\ Init /\ [][Next]_vars
  /\ WF_vars(Loader /\ UNCHANGED failed)
  /\ WF_vars(Routine /\ UNCHANGED <<request, pc, dwErr, userName, prompts, failed>>)
-----------------------------------------------------------------------------
(* Every variable has its type; a routine that is yet to run has its code. *)
TypeOK ==
  /\ request \in Requests
  /\ pc \in {"start", "open", "inject", "waitThread", "logon", "prompt",
             "identity", "path", "create", "prepare", "resume", "waitEvent",
             "terminate", "activate", "cleanup", "done"}
  /\ dwErr \in {"none", "error", "cancelled"}
  /\ prompts \in 0 .. MaxPrompts /\ failed \subseteq Failures
  /\ userName \in BOOLEAN /\ event \in BOOLEAN
  /\ \A p \in {"existing", "created"} :
       /\ process[p].state \in {"none", "running", "suspended", "exited"}
       /\ process[p].code \in {"none", "zero", "error", "crash"}
       /\ process[p].account \in {"none", "current", "named"}
       /\ process[p].dll \in BOOLEAN
       /\ process[p].memory \in {"none", "used", "freed"}
       /\ process[p].remote \in {"none", "queued", "loaded", "unloadable",
                                 "signalled", "closed", "finished", "failed"}
  /\ process.created.remote \in {"queued", "loaded"} => process.created.memory = "used"

(* A loader that ends without an error has done what it was asked for.  The DLL
   is in a mail program, but for two calls whose failure sets no error
   (_tWinMain), a mail program that ended with code 0 while its thread was
   waited for, and a 64-bit one whose thread returned 0 although LoadLibraryW
   had failed.  And a process it created runs under the account asked for, but
   for one whose user emptied the name while LogonUser did not answer: that one
   runs as the user who started the loader. *)
DllLoaded ==
  \/ process.existing.dll \/ process.created.dll
  \/ failed \cap {"ExpandModulePath", "GetOePath"} # {}
  \/ process.existing.code = "zero"
  \/ /\ request.machine = "amd64" /\ "LoadLibrary" \in failed
     /\ process.existing.remote = "finished"

AccountAskedFor ==
  \/ process.created.account = IF request.user /\ ~request.shellOpen
                               THEN "named" ELSE "current"
  \/ process.created.account = "current" /\ "LogonUser" \in failed

NoErrorMeansDone ==
  pc = "done" /\ dwErr = "none" =>
    /\ DllLoaded
    /\ process.created.state # "none" => AccountAskedFor

(* The process that the loader created goes on only with the DLL: it is never
   left suspended, nor running without (TerminateProcess in _tWinMain). *)
KeptOnlyWithTheDll ==
  pc = "done" /\ Alive("created") =>
    process.created.state = "running" /\ process.created.dll

(* A process that has the DLL is killed only if waiting for it failed. *)
LoadedIsNotKilled ==
  pc = "terminate" /\ Alive("created") /\ process.created.dll =>
    "WaitEvent" \in failed

(* The memory of a routine is not freed while the routine runs in it, neither
   by the loader nor by the routine, unless the wait for the thread failed
   (the cleanup of LoadLibraryInProcess frees it all the same). *)
NeverRunsFreedMemory ==
  \A p \in {"existing", "created"} :
    process[p].code = "crash" => "WaitThread" \in failed

(* What the loader waits for has happened, or is yet to come from a routine that
   can still run in a process that runs: the thread that ends, the event that is
   set or, with the DLL not loaded, the process that ends.  Only a thread that
   could not be resumed is waited for in vain. *)
OnItsWay(p) ==
  /\ process[p].state = "running" /\ process[p].memory = "used"
  /\ process[p].remote \in {"queued", "loaded", "unloadable"}

NeverWaitsInVain ==
  /\ pc = "waitThread" => ThreadEnded \/ OnItsWay("existing")
  /\ pc = "waitEvent" /\ "ResumeThread" \notin failed =>
       event \/ ~Alive("created") \/ OnItsWay("created")

(* The loader comes to its end, whatever the other process does; only a thread
   that could not be resumed is waited for without end. *)
LoaderEnds == <>(pc = "done" \/ "ResumeThread" \in failed)

(* The routine in the created process frees its memory and its handle, even if
   the loader is gone, unless the process ends before. *)
RoutineCleansUp ==
  process.created.state = "running" /\ process.created.remote = "queued"
    ~> process.created.memory = "freed" \/ process.created.state = "exited"
=============================================================================
