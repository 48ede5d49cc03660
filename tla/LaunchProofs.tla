---------------------------- MODULE LaunchProofs -----------------------------
(***************************************************************************)
(* The safety properties of Launch, for every set of requests and of       *)
(* calls that may fail.                                                    *)
(***************************************************************************)
EXTENDS Launch, TLAPS

States == {"none", "running", "suspended", "exited"}
Codes == {"none", "zero", "error", "crash"}
Memories == {"none", "used", "freed"}
Remotes == {"none", "queued", "loaded", "unloadable", "signalled", "closed",
            "finished", "failed"}
Accounts == {"none", "current", "named"}
Process == [state : States, code : Codes, account : Accounts, dll : BOOLEAN,
            memory : Memories, remote : Remotes]
Steps == {"start", "open", "inject", "waitThread", "logon", "prompt", "identity",
          "path", "create", "prepare", "resume", "waitEvent", "terminate",
          "activate", "cleanup", "done"}

(* Every variable has its type; here a process is a record. *)
Typed ==
  /\ request \in Requests /\ pc \in Steps
  /\ dwErr \in {"none", "error", "cancelled"}
  /\ prompts \in 0 .. MaxPrompts /\ failed \subseteq Failures
  /\ userName \in BOOLEAN /\ event \in BOOLEAN
  /\ process \in [existing : Process, created : Process]

Early == {"start", "open", "inject", "waitThread", "logon", "prompt", "identity",
          "path", "create"}
Loaded == {"loaded", "signalled", "closed", "finished"}
Running == {"queued", "loaded", "unloadable", "signalled", "closed"}

(* How far the created process can be when the loader is at each step. *)
CreatedInStep ==
  /\ pc \in Early => process.created = NoProcess
  /\ pc = "prepare" => process.created.state # "running"
  /\ pc \in Early \cup {"prepare"} => process.created.remote = "none"
  /\ pc = "resume" => process.created.state # "running"
  /\ pc = "activate" => process.created.state # "suspended"

(* What the routine of the created process has done. *)
CreatedRoutine ==
  /\ process.created.remote \in Running => process.created.memory = "used"
  /\ process.created.remote \notin {"none", "queued"}
       => process.created.state # "suspended"
  /\ process.created.remote \in Loaded => process.created.dll
  /\ process.created.dll => process.created.remote \in Loaded
  /\ event => process.created.dll
  /\ process.created.code # "crash"

(* What the thread in the existing process has done. *)
ExistingThread ==
  /\ process.existing.remote = "loaded" => process.existing.dll
  /\ process.existing.remote = "unloadable" => "LoadLibrary" \in failed
  /\ process.existing.remote = "finished" /\ ~process.existing.dll
       => request.machine = "amd64" /\ "LoadLibrary" \in failed
  /\ process.existing.remote \notin {"signalled", "closed"}
  /\ process.existing.code = "zero" => process.existing.state = "exited"
  /\ pc = "waitThread" => process.existing.remote # "none"
  /\ process.existing.memory = "freed" /\ process.existing.remote \in Running
       /\ process.existing.state = "running" => "WaitThread" \in failed
  /\ process.existing.code = "crash" => "WaitThread" \in failed

(* The name is the one asked for, or LogonUser did not answer. *)
Account ==
  /\ userName # request.user => "LogonUser" \in failed
  /\ userName => request.user
  /\ pc = "prompt" => userName
  /\ process.created.state # "none" => AccountAskedFor

(* What is known where the loader succeeds, gives up, and ends. *)
Ends ==
  /\ pc = "terminate" => dwErr = "error"
  /\ pc = "activate" \/ (pc \in {"cleanup", "done"} /\ dwErr = "none") => DllLoaded
  /\ pc \in {"activate", "cleanup", "done"} /\ Alive("created")
       => process.created.state = "running" /\ process.created.dll
  /\ pc = "terminate" /\ Alive("created") /\ process.created.dll
       => "WaitEvent" \in failed

IInv == Typed /\ CreatedInStep /\ CreatedRoutine /\ ExistingThread /\ Account /\ Ends
-----------------------------------------------------------------------------
(* The invariant holds when _tWinMain begins. *)
LEMMA Initially == Init => IInv
<1> SUFFICES ASSUME Init PROVE IInv
  OBVIOUS
<1> USE DEF Process, States, Codes, Accounts, Memories, Remotes
<1>1. NoProcess \in Process /\ NoProcess.state = "none" /\ NoProcess.code = "none"
      /\ NoProcess.account = "none" /\ ~NoProcess.dll /\ NoProcess.memory = "none"
      /\ NoProcess.remote = "none"
  BY DEF NoProcess
<1>2. PICK p \in Process :
        /\ process = [existing |-> p, created |-> NoProcess]
        /\ p.code = "none" /\ ~p.dll /\ p.memory = "none" /\ p.remote = "none"
  <2>1. CASE request.running
    <3> DEFINE p == [NoProcess EXCEPT !.state = "running"]
    <3>1. p \in Process /\ p.code = "none" /\ ~p.dll /\ p.memory = "none"
          /\ p.remote = "none"
      BY DEF NoProcess
    <3>2. process = [existing |-> p, created |-> NoProcess]
      BY <2>1 DEF Init
    <3> QED
      BY <3>1, <3>2
  <2>2. CASE ~request.running
    BY <1>1, <2>2 DEF Init
  <2> QED
    BY <2>1, <2>2
<1>3. Typed
  <2>1. process \in [existing : Process, created : Process]
    BY <1>1, <1>2
  <2>2. prompts \in 0 .. MaxPrompts
    BY MaxPromptsAssumption DEF Init
  <2>3. userName \in BOOLEAN
    BY RequestsAssumption DEF Init, Request
  <2> QED
    BY <2>1, <2>2, <2>3 DEF Init, Typed, Steps
<1>4. CreatedInStep /\ CreatedRoutine /\ ExistingThread /\ Account /\ Ends
  BY <1>1, <1>2 DEF Init, CreatedInStep, CreatedRoutine, ExistingThread, Account,
    Ends, Early, Loaded, Running, Alive
<1> QED
  BY <1>3, <1>4 DEF IInv

(* No step of _tWinMain breaks it. *)
LEMMA LoaderKeeps == IInv /\ Loader => IInv'
<1> SUFFICES ASSUME IInv, Loader PROVE IInv'
  OBVIOUS
<1> USE DEF IInv, Typed, CreatedInStep, CreatedRoutine, ExistingThread, Account,
    Ends, DllLoaded, AccountAskedFor, Process, States, Codes, Accounts, Memories, Remotes, Steps, Early, Loaded,
    Running, NoProcess, Alive, Goto, Leave, Fail
<1>1. CASE Inject
  <2>1. CASE pc' = "cleanup"
    <3>1. /\ pc = "inject" /\ dwErr' = "error" /\ failed \subseteq failed'
          /\ failed' \subseteq Failures
          /\ UNCHANGED <<request, userName, prompts, event, process>>
      BY <1>1, <2>1 DEF Inject
    <3> QED
      BY <2>1, <3>1
  <2>2. CASE pc' # "cleanup"
    <3>1. process' = [process EXCEPT !.existing.memory = "used",
                                     !.existing.remote = "queued"]
      BY <1>1, <2>2 DEF Inject
    <3>2. /\ pc = "inject" /\ pc' = "waitThread" /\ Alive("existing")
          /\ UNCHANGED <<request, dwErr, userName, prompts, event, failed>>
      BY <1>1, <2>2 DEF Inject
    <3>3. /\ process' \in [existing : Process, created : Process]
          /\ process'.created = process.created
          /\ process'.existing.memory = "used" /\ process'.existing.remote = "queued"
          /\ process'.existing.state = process.existing.state
          /\ process'.existing.code = process.existing.code
      BY <3>1, ZenonT(60)
    <3> QED
      BY <3>2, <3>3
  <2> QED
    BY <2>1, <2>2
<1>2. CASE WaitThread
  <2>1. process' = [process EXCEPT !.existing.memory = "freed"]
    BY <1>2 DEF WaitThread, AfterThread
  <2>2. /\ process' \in [existing : Process, created : Process]
        /\ process'.created = process.created
        /\ process'.existing.remote = process.existing.remote
        /\ process'.existing.state = process.existing.state
        /\ process'.existing.code = process.existing.code
        /\ process'.existing.dll = process.existing.dll
    BY <2>1
  <2>3. /\ pc = "waitThread" /\ UNCHANGED <<request, userName, prompts, event>>
    BY <1>2 DEF WaitThread, AfterThread
  <2>4. CASE Fail("WaitThread") /\ AfterThread("error")
    <3>1. /\ "WaitThread" \in failed' /\ failed' \subseteq Failures
          /\ failed \subseteq failed' /\ pc' = "cleanup" /\ dwErr' = "error"
      BY <2>4 DEF AfterThread
    <3> QED
      BY <2>2, <2>3, <3>1
  <2>5. CASE ThreadEnded /\ AfterThread(ThreadCode) /\ UNCHANGED failed
    <3>1. process.existing.state \in {"none", "exited"}
          \/ process.existing.remote \in {"finished", "failed"}
      BY <2>5 DEF ThreadEnded
    <3>2. ThreadCode = "none" =>
            \/ process.existing.dll \/ process.existing.code = "zero"
            \/ /\ request.machine = "amd64" /\ "LoadLibrary" \in failed
               /\ process.existing.remote = "finished"
      BY <2>5, <3>1 DEF ThreadCode, ThreadEnded
    <3>3. ThreadCode \in {"none", "error"}
      BY DEF ThreadCode
    <3>4. /\ pc' \in {"cleanup", "path", "activate"} /\ dwErr' = ThreadCode
          /\ pc' \in {"path", "activate"} => dwErr' = "none"
          /\ failed' = failed
      BY <2>5 DEF AfterThread
    <3> HIDE DEF ThreadCode
    <3> QED
      BY <2>2, <2>3, <3>1, <3>2, <3>3, <3>4
  <2> QED
    BY <1>2, <2>4, <2>5 DEF WaitThread
<1>3. CASE Prepare
  <2>1. CASE Prepared
    <3>1. process' = [process EXCEPT !.created.memory = "used",
                                     !.created.remote = "queued"]
      BY <2>1 DEF Prepared
    <3>2. /\ process' \in [existing : Process, created : Process]
          /\ process'.existing = process.existing
          /\ process'.created.memory = "used" /\ process'.created.remote = "queued"
          /\ process'.created.state = process.created.state
          /\ process'.created.account = process.created.account
          /\ process'.created.code = process.created.code
          /\ process'.created.dll = process.created.dll
      BY <3>1, ZenonT(60)
    <3>3. /\ pc = "prepare" /\ pc' = "resume"
          /\ UNCHANGED <<request, dwErr, userName, prompts, event, failed>>
      BY <1>3, <2>1 DEF Prepare, PrepareOr, Prepared
    <3> QED
      BY <3>2, <3>3
  <2>2. CASE ~Prepared
    <3>1. /\ pc = "prepare" /\ pc' = "terminate" /\ dwErr' = "error"
          /\ failed \subseteq failed' /\ failed' \subseteq Failures
          /\ UNCHANGED <<request, userName, prompts, event, process>>
      BY <1>3, <2>2 DEF Prepare, PrepareOr
    <3> QED
      BY <3>1
  <2> QED
    BY <2>1, <2>2
<1>4. CASE Start
  BY <1>4 DEF Start
<1>5. CASE Open
  BY <1>5 DEF Open
<1>6. CASE LogOn
  BY <1>6 DEF LogOn
<1>7. CASE Prompt
  <2>1. prompts' \in 0 .. MaxPrompts
    <3>1. prompts' = prompts \/ (prompts < MaxPrompts /\ prompts' = prompts + 1)
      BY <1>7 DEF Prompt
    <3>2. prompts \in 0 .. MaxPrompts
      OBVIOUS
    <3> QED
      BY ONLY <3>1, <3>2, MaxPromptsAssumption
  <2>2. /\ pc = "prompt" /\ UNCHANGED <<request, event, process>>
        /\ failed \subseteq failed' /\ failed' \subseteq Failures
        /\ \/ pc' = "cleanup" /\ dwErr' = "cancelled"
           \/ pc' = "identity" /\ dwErr' \in {"none", dwErr}
           \/ pc' = "prompt" /\ dwErr' = dwErr
    BY <1>7 DEF Prompt
  <2>3. userName /\ request.user
    BY <2>2
  <2>4. /\ userName' \in BOOLEAN
        /\ userName' \/ "LogonUser" \in failed'
        /\ pc' = "prompt" => userName'
    <3>1. \/ userName' = userName
          \/ pc' = "identity" /\ userName' = TRUE
          \/ pc' = "identity" /\ userName' \in BOOLEAN /\ "LogonUser" \in failed'
      BY <1>7 DEF Prompt
    <3> QED
      BY <2>3, <3>1
  <2>5. Account'
    <3>1. userName' # request'.user => "LogonUser" \in failed'
      BY <2>2, <2>3, <2>4, RequestsAssumption DEF Request
    <3>2. process.created = NoProcess /\ process' = process
      BY <2>2
    <3>3. process'.created.state = "none"
      BY <3>2
    <3>4. request'.user
      BY <2>2, <2>3
    <3> QED
      BY <2>4, <3>1, <3>3, <3>4, Zenon DEF Account
  <2>6. Typed' /\ CreatedInStep' /\ CreatedRoutine'
    BY <2>1, <2>2, <2>4
  <2>7. ExistingThread' /\ Ends'
    BY <2>2
  <2> QED
    BY <2>5, <2>6, <2>7 DEF IInv
<1>8. CASE GetOePath
  BY <1>8 DEF GetOePath
<1>9. CASE CreateOeProcess
  <2>1. CASE pc' = "cleanup"
    BY <1>9, <2>1 DEF CreateOeProcess
  <2>2. CASE pc' # "cleanup"
    <3> DEFINE account == IF ~request.shellOpen /\ userName THEN "named" ELSE "current"
    <3>1. /\ process' = [process EXCEPT !.created.state = "suspended",
                                        !.created.account = account]
          /\ pc = "create" /\ pc' = "prepare"
          /\ UNCHANGED <<request, dwErr, userName, prompts, event, failed>>
      BY <1>9, <2>2 DEF CreateOeProcess
    <3>2. account \in Accounts
      OBVIOUS
    <3>3. \/ account = IF request.user /\ ~request.shellOpen THEN "named" ELSE "current"
          \/ account = "current" /\ "LogonUser" \in failed
      OBVIOUS
    <3> HIDE DEF account
    <3>4. /\ process' \in [existing : Process, created : Process]
          /\ process'.existing = process.existing
          /\ process'.created.state = "suspended"
          /\ process'.created.account = account
          /\ process'.created.memory = process.created.memory
          /\ process'.created.remote = process.created.remote
          /\ process'.created.code = process.created.code
          /\ process'.created.dll = process.created.dll
      BY <3>1, <3>2, ZenonT(60)
    <3> QED
      BY <3>1, <3>3, <3>4
  <2> QED
    BY <2>1, <2>2
<1>10. CASE Resume
  BY <1>10 DEF Resume
<1>11. CASE WaitEvent
  BY <1>11 DEF WaitEventOr, WaitEvent
<1>12. CASE Terminate
  BY <1>12 DEF Exits, Terminate
<1>13. CASE Activate
  BY <1>13 DEF Activate
<1>14. CASE Cleanup
  BY <1>14 DEF Cleanup
<1>15. CASE LogOnIdentity
  BY <1>15 DEF LogOnIdentity
<1> HIDE DEF IInv
<1> QED
  BY <1>1, <1>2, <1>3, <1>4, <1>5, <1>6, <1>7, <1>8, <1>9, <1>10, <1>11,
     <1>12, <1>13, <1>14, <1>15 DEF Loader

(* Nor does a step of the code in the other processes. *)
LEMMA RoutineKeeps ==
  IInv /\ Routine /\ UNCHANGED <<request, pc, dwErr, userName, prompts>> => IInv'
<1> SUFFICES ASSUME IInv, Routine, UNCHANGED <<request, pc, dwErr, userName, prompts>>
             PROVE IInv'
  OBVIOUS
<1> USE DEF IInv, Typed, CreatedInStep, CreatedRoutine, ExistingThread, Account,
    Ends, DllLoaded, AccountAskedFor, Process, States, Codes, Accounts, Memories, Remotes, Steps, Early, Loaded,
    Running, NoProcess, Alive, Exits, Fail
<1>1. CASE RemoteLoad("existing")
  <2>1. /\ process' \in [existing : Process, created : Process]
        /\ process'.created = process.created
        /\ process'.existing.state = process.existing.state
        /\ process'.existing.code = process.existing.code
        /\ process'.existing.memory = process.existing.memory
        /\ process.existing.state = "running" /\ process.existing.memory = "used"
        /\ process.existing.remote = "queued"
        /\ \/ process'.existing.remote = "loaded" /\ process'.existing.dll
           \/ /\ process'.existing.remote = "unloadable" /\ "LoadLibrary" \in failed'
              /\ process'.existing.dll = process.existing.dll
    BY <1>1 DEF RemoteLoad
  <2>2. failed \subseteq failed' /\ failed' \subseteq Failures /\ UNCHANGED event
    BY <1>1 DEF RemoteLoad
  <2> QED
    BY <2>1, <2>2
<1>2. CASE RemoteLoad("created")
  BY <1>2 DEF RemoteLoad
<1>3. CASE Crash("existing")
  <2>1. /\ process' \in [existing : Process, created : Process]
        /\ process'.created = process.created
        /\ process'.existing.state = "exited"
        /\ process'.existing.code = "crash"
        /\ process'.existing.dll = process.existing.dll
        /\ process'.existing.memory = process.existing.memory
        /\ process'.existing.remote = process.existing.remote
        /\ process.existing.state = "running"
        /\ "WaitThread" \in failed
    BY <1>3 DEF Crash
  <2>2. UNCHANGED <<event, failed>>
    BY <1>3 DEF Crash
  <2> QED
    BY <2>1, <2>2
<1>4. CASE Crash("created")
  BY <1>4 DEF Crash
<1>5. CASE ThreadReturn
  <2>1. /\ process' \in [existing : Process, created : Process]
        /\ process'.created = process.created
        /\ process'.existing.state = process.existing.state
        /\ process'.existing.code = process.existing.code
        /\ process'.existing.dll = process.existing.dll
        /\ process'.existing.memory = process.existing.memory
        /\ \/ process.existing.remote = "loaded"
              /\ process'.existing.remote = "finished"
           \/ /\ request.machine = "amd64" /\ process.existing.remote = "unloadable"
              /\ process'.existing.remote = "finished"
           \/ process'.existing.remote = "failed"
        /\ process.existing.remote \in {"loaded", "unloadable"}
    BY <1>5 DEF ThreadReturn, Remote
  <2>2. UNCHANGED <<event, failed>>
    BY <1>5 DEF ThreadReturn
  <2> QED
    BY <2>1, <2>2
<1>6. CASE SetEvent
  BY <1>6 DEF SetEvent, Remote
<1>7. CASE CloseEvent
  BY <1>7 DEF CloseEvent, Remote
<1>8. CASE FreeMemory
  <2>1. /\ process' \in [existing : Process, created : Process]
        /\ process'.existing = process.existing
        /\ process'.created.state = process.created.state
        /\ process'.created.account = process.created.account
        /\ process'.created.code = process.created.code
        /\ process'.created.dll = process.created.dll
        /\ process'.created.memory = "freed"
        /\ process'.created.remote = "finished"
        /\ process.created.remote = "closed"
    BY <1>8 DEF FreeMemory
  <2>2. UNCHANGED <<event, failed>>
    BY <1>8 DEF FreeMemory
  <2> QED
    BY <2>1, <2>2
<1>9. CASE GiveUp
  BY <1>9 DEF GiveUp
<1>10. DOMAIN process = {"existing", "created"}
  OBVIOUS
<1> QED
  BY <1>1, <1>2, <1>3, <1>4, <1>5, <1>6, <1>7, <1>8, <1>9, <1>10 DEF Routine

(* Nor does a process that ends. *)
LEMMA ExitKeeps ==
  ASSUME IInv, NEW p \in DOMAIN process, Exit(p),
         UNCHANGED <<request, pc, dwErr, userName, prompts>>
  PROVE  IInv'
<1> USE DEF IInv, Typed, CreatedInStep, CreatedRoutine, ExistingThread, Account,
    Ends, DllLoaded, AccountAskedFor, Process, States, Codes, Accounts, Memories, Remotes, Steps, Early, Loaded,
    Running, NoProcess, Alive, Exits
<1>1. CASE p = "existing"
  <2>1. PICK code \in {"zero", "error"} :
          process' = [process EXCEPT !.existing.state = "exited",
                                     !.existing.code = code]
    BY <1>1 DEF Exit
  <2>2. /\ process' \in [existing : Process, created : Process]
        /\ process'.created = process.created
        /\ process'.existing.state = "exited"
        /\ process'.existing.code \in {"zero", "error"}
        /\ process'.existing.dll = process.existing.dll
        /\ process'.existing.memory = process.existing.memory
        /\ process'.existing.remote = process.existing.remote
        /\ process.existing.state # "exited"
    BY <1>1, <2>1, ZenonT(60) DEF Exit
  <2>3. UNCHANGED <<event, failed>>
    BY <1>1 DEF Exit
  <2> QED
    BY <2>2, <2>3
<1>2. CASE p = "created"
  BY <1>2 DEF Exit
<1> QED
  BY <1>1, <1>2

(* What is known at every step of the loader and of the routines it starts. *)
THEOREM Invariance == Spec => []IInv
<1>1. IInv /\ [Next]_vars => IInv'
  <2> SUFFICES ASSUME IInv, [Next]_vars PROVE IInv'
    OBVIOUS
  <2>1. CASE Loader
    BY <2>1, LoaderKeeps
  <2>2. CASE Routine /\ UNCHANGED <<request, pc, dwErr, userName, prompts>>
    BY <2>2, RoutineKeeps
  <2>3. CASE /\ \E p \in DOMAIN process : Exit(p)
             /\ UNCHANGED <<request, pc, dwErr, userName, prompts>>
    BY <2>3, ExitKeeps
  <2>4. CASE UNCHANGED vars
    BY <2>4 DEF vars, IInv, Typed, CreatedInStep, CreatedRoutine,
                ExistingThread, Account, Ends, DllLoaded, AccountAskedFor, Alive
  <2> QED
    BY <2>1, <2>2, <2>3, <2>4 DEF Next
<1> QED
  BY <1>1, Initially, PTL DEF Spec

(* Every variable keeps its type, and code that is yet to run is in memory. *)
THEOREM TypeCorrect == Spec => []TypeOK
<1>1. IInv => TypeOK
  BY DEF IInv, Typed, CreatedRoutine, TypeOK, Steps, Process, States, Codes,
         Accounts, Memories, Remotes, Running
<1> QED
  BY <1>1, Invariance, PTL

(* _tWinMain that ends without an error has loaded the DLL and created the
   process for the account asked for, but for the cases NoErrorMeansDone names:
   the calls that set no error, a mail program that ended with code 0, the 64-bit
   thread that returns 0 in any case, and the name emptied while LogonUser did
   not answer. *)
THEOREM SuccessMeansDone == Spec => []NoErrorMeansDone
<1>1. IInv => NoErrorMeansDone
  BY DEF IInv, Ends, Account, NoErrorMeansDone
<1> QED
  BY <1>1, Invariance, PTL

(* _tWinMain leaves no process behind that it created and that runs without the
   DLL, or does not run. *)
THEOREM NoProcessWithoutTheDll == Spec => []KeptOnlyWithTheDll
<1>1. IInv => KeptOnlyWithTheDll
  BY DEF IInv, Ends, KeptOnlyWithTheDll
<1> QED
  BY <1>1, Invariance, PTL

(* TerminateProcess is called for a process that has the DLL only after
   WaitForMultipleObjects failed. *)
THEOREM NoLoadedProcessIsKilled == Spec => []LoadedIsNotKilled
<1>1. IInv => LoadedIsNotKilled
  BY DEF IInv, Ends, LoadedIsNotKilled
<1> QED
  BY <1>1, Invariance, PTL

(* The code in the other process is not freed while it runs, unless the wait
   for its thread failed (LoadLibraryInProcess). *)
THEOREM CodeOutlivesItsThread == Spec => []NeverRunsFreedMemory
<1>1. IInv => NeverRunsFreedMemory
  BY DEF IInv, CreatedRoutine, ExistingThread, NeverRunsFreedMemory
<1> QED
  BY <1>1, Invariance, PTL
-----------------------------------------------------------------------------
(* What the loader has to know when it begins to wait: the routine is under
   way, and no step of it ends it without a signal. *)
Waits ==
  /\ process.existing.state # "suspended"
  /\ pc \in {"start", "open", "inject"} => process.existing.remote = "none"
  /\ pc = "waitThread" => process.existing.memory = "used"
  /\ pc \in {"resume", "waitEvent"} => process.created.remote # "none"
  /\ pc = "waitEvent" /\ "ResumeThread" \notin failed
       => process.created.state # "suspended"
  /\ process.created.remote # "failed"
  /\ process.created.remote \in {"signalled", "closed", "finished"} => event

LEMMA WaitsInitially == Init => Waits
<1> SUFFICES ASSUME Init PROVE Waits
  OBVIOUS
<1>1. /\ process.created = NoProcess /\ pc = "start"
      /\ process.existing \in {NoProcess, [NoProcess EXCEPT !.state = "running"]}
  BY DEF Init
<1>2. process.existing.state # "suspended" /\ process.existing.remote = "none"
  BY <1>1 DEF NoProcess
<1>3. process.created.remote = "none"
  BY <1>1 DEF NoProcess
<1> QED
  BY <1>1, <1>2, <1>3 DEF Waits

(* The steps of the loader that change a process. *)
LEMMA LoaderWaits ==
  ASSUME IInv, Waits, Loader
  PROVE  Waits'
<1> USE DEF IInv, Typed, Process
<1>1. CASE Inject /\ pc' # "cleanup"
  <2>1. /\ process' = [process EXCEPT !.existing.memory = "used",
                                      !.existing.remote = "queued"]
        /\ pc' = "waitThread" /\ event' = event
    BY <1>1 DEF Inject, Leave, Goto
  <2>2. /\ process'.created = process.created
        /\ process'.existing.memory = "used"
        /\ process'.existing.state = process.existing.state
    BY <2>1, ZenonT(60)
  <2> QED
    BY <2>1, <2>2 DEF Waits
<1>2. CASE WaitThread
  <2>1. /\ process' = [process EXCEPT !.existing.memory = "freed"]
        /\ pc' \in {"cleanup", "path", "activate"} /\ event' = event
    BY <1>2 DEF WaitThread, AfterThread, Leave
  <2>2. /\ process'.created = process.created
        /\ process'.existing.state = process.existing.state
    BY <2>1
  <2> QED
    BY <2>1, <2>2 DEF Waits
<1>3. CASE Prepare /\ Prepared
  <2>1. /\ process' = [process EXCEPT !.created.memory = "used",
                                      !.created.remote = "queued"]
        /\ pc' = "resume" /\ event' = event
    BY <1>3 DEF Prepare, PrepareOr, Prepared, Goto
  <2>2. process'.existing = process.existing /\ process'.created.remote = "queued"
    BY <2>1, ZenonT(60)
  <2> QED
    BY <2>1, <2>2 DEF Waits
<1>4. CASE CreateOeProcess /\ pc' = "prepare"
  <2> DEFINE account == IF ~request.shellOpen /\ userName THEN "named" ELSE "current"
  <2>1. /\ process' = [process EXCEPT !.created.state = "suspended",
                                      !.created.account = account]
        /\ event' = event
    BY <1>4 DEF CreateOeProcess, Leave, Goto
  <2> HIDE DEF account
  <2>2. /\ process'.existing = process.existing
        /\ process'.created.remote = process.created.remote
    BY <2>1, ZenonT(60)
  <2> QED
    BY <1>4, <2>1, <2>2 DEF Waits
<1>5. CASE Resume
  <2>1. /\ pc = "resume" /\ pc' = "waitEvent" /\ event' = event
        /\ \/ "ResumeThread" \in failed' /\ process' = process
           \/ /\ Alive("created")
              /\ process' = [process EXCEPT !.created.state = "running"]
           \/ ~Alive("created") /\ process' = process
    BY <1>5 DEF Resume, Fail
  <2>2. CASE process' = process
    BY <2>1, <2>2 DEF Waits, Alive
  <2>3. CASE process' = [process EXCEPT !.created.state = "running"]
    <3>1. /\ process'.existing = process.existing
          /\ process'.created.state = "running"
          /\ process'.created.remote = process.created.remote
      BY <2>3
    <3> QED
      BY <2>1, <3>1 DEF Waits
  <2> QED
    BY <2>1, <2>2, <2>3
<1>6. CASE Terminate
  <2>1. pc' = "cleanup" /\ event' = event
    BY <1>6 DEF Terminate, Goto
  <2>2. /\ process'.existing = process.existing
        /\ process'.created.remote = process.created.remote
    BY <1>6 DEF Terminate, Exits
  <2> QED
    BY <2>1, <2>2 DEF Waits
<1>7. CASE UNCHANGED <<process, event>> /\ pc' \notin {"waitThread", "resume", "waitEvent"}
           /\ (pc' \in {"open", "inject"} => pc \in {"start", "open"}) /\ pc' # "start"
  BY <1>7 DEF Waits
<1>8. CASE (Inject /\ pc' = "cleanup") \/ (Prepare /\ ~Prepared)
           \/ (CreateOeProcess /\ pc' # "prepare")
  <2>1. UNCHANGED <<process, event>> /\ pc' \in {"cleanup", "terminate"}
    BY <1>8 DEF Inject, Prepare, PrepareOr, CreateOeProcess, Leave, Goto
  <2> QED
    BY <1>7, <2>1
<1>9. CASE Start \/ Open \/ LogOn \/ Prompt \/ LogOnIdentity \/ GetOePath
           \/ WaitEvent \/ Activate \/ Cleanup
  <2>1. UNCHANGED <<process, event>>
    BY <1>9 DEF Start, Open, LogOn, Prompt, LogOnIdentity, GetOePath, WaitEvent,
                WaitEventOr, Activate, Cleanup
  <2>2. \/ pc = "start" /\ pc' \in {"cleanup", "open", "logon"}
        \/ pc = "open" /\ pc' \in {"cleanup", "inject"}
        \/ pc' \in {"cleanup", "prompt", "identity", "path", "create",
                    "terminate", "activate", "done"}
    BY <1>9 DEF Start, Open, LogOn, Prompt, LogOnIdentity, GetOePath, WaitEvent,
                WaitEventOr, Activate, Cleanup, Leave, Goto
  <2> QED
    BY <1>7, <2>1, <2>2
<1> QED
  BY <1>1, <1>2, <1>3, <1>4, <1>5, <1>6, <1>8, <1>9 DEF Loader

(* A process that changes without the loader. *)
LEMMA RoutineWaits ==
  ASSUME IInv, Waits, Routine, UNCHANGED <<request, pc, dwErr, userName, prompts>>
  PROVE  Waits'
<1> USE DEF IInv, Typed, Process
<1>1. \/ RemoteLoad("existing") \/ RemoteLoad("created")
      \/ Crash("existing") \/ Crash("created")
      \/ ThreadReturn \/ SetEvent \/ CloseEvent \/ FreeMemory \/ GiveUp
  BY DEF Routine
<1>2. CASE /\ process'.created = process.created
           /\ process'.existing.state = process.existing.state
           /\ process'.existing.memory = process.existing.memory
           /\ process.existing.remote # "none" /\ event' = event
           /\ failed \subseteq failed'
  BY <1>2 DEF Waits
<1>3. CASE RemoteLoad("existing")
  <2>1. /\ process'.created = process.created
        /\ process'.existing.state = process.existing.state
        /\ process'.existing.memory = process.existing.memory
        /\ process.existing.remote = "queued" /\ event' = event
    BY <1>3 DEF RemoteLoad
  <2>2. failed \subseteq failed'
    BY <1>3 DEF RemoteLoad, Fail
  <2> QED
    BY <1>2, <2>1, <2>2
<1>4. CASE ThreadReturn
  <2>1. /\ process'.created = process.created
        /\ process'.existing.state = process.existing.state
        /\ process'.existing.memory = process.existing.memory
        /\ process.existing.remote # "none" /\ event' = event /\ failed' = failed
    BY <1>4 DEF ThreadReturn, Remote
  <2> QED
    BY <1>2, <2>1
<1>5. CASE Crash("existing")
  <2>1. /\ process'.created = process.created
        /\ process'.existing.state = "exited"
        /\ process'.existing.memory = process.existing.memory
        /\ process'.existing.remote = process.existing.remote
        /\ event' = event /\ failed' = failed
    BY <1>5 DEF Crash, Exits
  <2> QED
    BY <2>1 DEF Waits
<1>6. CASE RemoteLoad("created")
  <2>1. /\ process'.existing = process.existing
        /\ process'.created.state = process.created.state
        /\ process'.created.remote \in {"loaded", "unloadable"}
        /\ event' = event /\ failed \subseteq failed'
    BY <1>6 DEF RemoteLoad, Fail
  <2> QED
    BY <2>1 DEF Waits
<1>7. CASE Crash("created") \/ GiveUp
  <2>1. /\ process'.existing = process.existing
        /\ process'.created.state = "exited"
        /\ process'.created.remote = process.created.remote
        /\ event' = event /\ failed' = failed
    BY <1>7 DEF Crash, GiveUp, Exits
  <2> QED
    BY <2>1 DEF Waits
<1>8. CASE SetEvent \/ CloseEvent
  <2>1. /\ process'.existing = process.existing
        /\ process'.created.state = process.created.state
        /\ process'.created.remote \in {"signalled", "closed"}
        /\ \/ event' = TRUE
           \/ event' = event /\ process.created.remote = "signalled"
        /\ failed' = failed
    BY <1>8 DEF SetEvent, CloseEvent, Remote
  <2> QED
    BY <2>1 DEF Waits
<1>9. CASE FreeMemory
  <2>1. /\ process' = [process EXCEPT !.created.remote = "finished",
                                      !.created.memory = "freed"]
        /\ process.created.remote = "closed" /\ event' = event /\ failed' = failed
    BY <1>9 DEF FreeMemory
  <2>2. /\ process'.existing = process.existing
        /\ process'.created.state = process.created.state
        /\ process'.created.remote = "finished"
    BY <2>1, ZenonT(60)
  <2> QED
    BY <2>1, <2>2 DEF Waits
<1> QED
  BY <1>1, <1>3, <1>4, <1>5, <1>6, <1>7, <1>8, <1>9

LEMMA ExitWaits ==
  ASSUME IInv, Waits, NEW p \in DOMAIN process, Exit(p),
         UNCHANGED <<request, pc, dwErr, userName, prompts>>
  PROVE  Waits'
<1> USE DEF IInv, Typed, Process
<1>1. PICK code \in {"zero", "error"} :
        process' = [process EXCEPT ![p].state = "exited", ![p].code = code]
  BY DEF Exit, Exits
<1>2. p \in {"existing", "created"} /\ event' = event /\ failed' = failed
  BY DEF Exit
<1>3. CASE p = "existing"
  <2>1. process' = [process EXCEPT !.existing.state = "exited",
                                   !.existing.code = code]
    BY <1>1, <1>3
  <2>2. /\ process'.created = process.created
        /\ process'.existing.state = "exited"
        /\ process'.existing.memory = process.existing.memory
        /\ process'.existing.remote = process.existing.remote
    BY <2>1, ZenonT(60)
  <2> QED
    BY <1>2, <2>2 DEF Waits
<1>4. CASE p = "created"
  <2>1. process' = [process EXCEPT !.created.state = "exited",
                                   !.created.code = code]
    BY <1>1, <1>4
  <2>2. /\ process'.existing = process.existing
        /\ process'.created.state = "exited"
        /\ process'.created.remote = process.created.remote
    BY <2>1, ZenonT(60)
  <2> QED
    BY <1>2, <2>2 DEF Waits
<1> QED
  BY <1>2, <1>3, <1>4

LEMMA WaitsInvariant == Spec => [](IInv /\ Waits)
<1>1. IInv /\ Waits /\ [Next]_vars => Waits'
  <2> SUFFICES ASSUME IInv, Waits, [Next]_vars PROVE Waits'
    OBVIOUS
  <2>1. CASE Loader
    BY <2>1, LoaderWaits
  <2>2. CASE Routine /\ UNCHANGED <<request, pc, dwErr, userName, prompts>>
    BY <2>2, RoutineWaits
  <2>3. CASE /\ \E p \in DOMAIN process : Exit(p)
             /\ UNCHANGED <<request, pc, dwErr, userName, prompts>>
    BY <2>3, ExitWaits
  <2>4. CASE UNCHANGED vars
    BY <2>4 DEF vars, Waits
  <2> QED
    BY <2>1, <2>2, <2>3, <2>4 DEF Next
<1> QED
  BY <1>1, WaitsInitially, Invariance, PTL DEF Spec

(* NeverWaitsInVain for every set of requests and of calls that may fail: the
   INFINITE waits of LoadLibraryInProcess and ResumeProcessWithModule are for a
   routine that has run or still can, or for a process that has ended. *)
THEOREM NoWaitIsInVain == Spec => []NeverWaitsInVain
<1>1. IInv /\ Waits => NeverWaitsInVain
  <2> SUFFICES ASSUME IInv, Waits PROVE NeverWaitsInVain
    OBVIOUS
  <2> USE DEF IInv, Typed, Process
  <2>1. ASSUME pc = "waitThread" PROVE ThreadEnded \/ OnItsWay("existing")
    <3>1. /\ process.existing.memory = "used" /\ process.existing.remote # "none"
          /\ process.existing.remote \notin {"signalled", "closed"}
          /\ process.existing.state # "suspended"
      BY <2>1 DEF Waits, ExistingThread
    <3> QED
      BY <3>1 DEF OnItsWay, ThreadEnded, Alive, States, Remotes
  <2>2. ASSUME pc = "waitEvent", "ResumeThread" \notin failed
        PROVE  event \/ ~Alive("created") \/ OnItsWay("created")
    <3>1. /\ process.created.remote \notin {"none", "failed"}
          /\ process.created.state # "suspended"
          /\ process.created.remote \in {"signalled", "closed", "finished"} => event
          /\ process.created.remote \in {"queued", "loaded", "unloadable"}
               => process.created.memory = "used"
      BY <2>2 DEF Waits, CreatedRoutine, Running
    <3> QED
      BY <3>1 DEF OnItsWay, Alive, States, Remotes
  <2> QED
    BY <2>1, <2>2 DEF NeverWaitsInVain
<1> QED
  BY <1>1, WaitsInvariant, PTL
-----------------------------------------------------------------------------
(* What the loader and the two processes have ahead of them. *)
StepsLeft(step) ==
  CASE step = "start" -> 15
    [] step = "open" -> 14
    [] step = "inject" -> 13
    [] step = "waitThread" -> 12
    [] step = "logon" -> 11
    [] step = "prompt" -> 10
    [] step = "identity" -> 9
    [] step = "path" -> 8
    [] step = "create" -> 7
    [] step = "prepare" -> 6
    [] step = "resume" -> 5
    [] step = "waitEvent" -> 4
    [] step = "terminate" -> 3
    [] step = "activate" -> 2
    [] step = "cleanup" -> 1
    [] OTHER -> 0

LifeLeft(state) ==
  CASE state = "none" -> 3
    [] state = "suspended" -> 2
    [] state = "running" -> 1
    [] OTHER -> 0

RoutineLeft(remote) ==
  CASE remote = "none" -> 5
    [] remote = "queued" -> 4
    [] remote \in {"loaded", "unloadable"} -> 3
    [] remote = "signalled" -> 2
    [] remote = "closed" -> 1
    [] OTHER -> 0

Left(p) == LifeLeft(process[p].state) + RoutineLeft(process[p].remote)
LoaderLeft == StepsLeft(pc) + (MaxPrompts - prompts)

Ahead == LoaderLeft + Left("existing") + Left("created")

LEMMA Lefts ==
  ASSUME IInv
  PROVE  LoaderLeft \in Nat /\ Left("existing") \in Nat /\ Left("created") \in Nat
<1>1. MaxPrompts - prompts \in Nat
  BY MaxPromptsAssumption DEF IInv, Typed
<1>2. \A step : StepsLeft(step) \in Nat
  BY DEF StepsLeft
<1>3. \A state : LifeLeft(state) \in Nat
  BY DEF LifeLeft
<1>4. \A remote : RoutineLeft(remote) \in Nat
  BY DEF RoutineLeft
<1> QED
  BY <1>1, <1>2, <1>3, <1>4 DEF LoaderLeft, Left

LEMMA LeftsAfter ==
  ASSUME IInv'
  PROVE  LoaderLeft' \in Nat /\ Left("existing")' \in Nat /\ Left("created")' \in Nat
<1>1. MaxPrompts - prompts' \in Nat
  <2>1. prompts' \in 0 .. MaxPrompts
    BY DEF IInv, Typed
  <2>2. ASSUME NEW m \in Nat, NEW k \in 0 .. m PROVE m - k \in Nat
    OBVIOUS
  <2> QED
    BY <2>1, <2>2, MaxPromptsAssumption
<1>2. \A step : StepsLeft(step) \in Nat
  BY DEF StepsLeft
<1>3. \A state : LifeLeft(state) \in Nat
  BY DEF LifeLeft
<1>4. \A remote : RoutineLeft(remote) \in Nat
  BY DEF RoutineLeft
<1> QED
  BY <1>1, <1>2, <1>3, <1>4 DEF LoaderLeft, Left

(* A step lowers what one of them has left and lets nothing grow. *)
LEMMA OneLess ==
  ASSUME IInv, IInv',
         \/ /\ LoaderLeft' < LoaderLeft
            /\ Left("existing")' <= Left("existing")
            /\ Left("created")' <= Left("created")
         \/ /\ LoaderLeft' = LoaderLeft
            /\ \/ /\ Left("existing")' < Left("existing")
                  /\ Left("created")' <= Left("created")
               \/ /\ Left("existing")' <= Left("existing")
                  /\ Left("created")' < Left("created")
  PROVE  Ahead' < Ahead
<1>1. /\ LoaderLeft \in Nat /\ Left("existing") \in Nat /\ Left("created") \in Nat
      /\ LoaderLeft' \in Nat /\ Left("existing")' \in Nat /\ Left("created")' \in Nat
  BY Lefts, LeftsAfter
<1> DEFINE a == LoaderLeft
           b == Left("existing")
           c == Left("created")
           x == LoaderLeft'
           y == Left("existing")'
           z == Left("created")'
<1>2. Ahead = a + b + c /\ Ahead' = x + y + z
  BY DEF Ahead
<1>3. \/ x < a /\ y <= b /\ z <= c
      \/ x = a /\ y < b /\ z <= c
      \/ x = a /\ y <= b /\ z < c
  OBVIOUS
<1> HIDE DEF a, b, c, x, y, z
<1>4. /\ a \in Nat /\ b \in Nat /\ c \in Nat
      /\ x \in Nat /\ y \in Nat /\ z \in Nat
  BY <1>1 DEF a, b, c, x, y, z
<1> QED
  BY <1>2, <1>3, <1>4

LEMMA LoaderGoesOn ==
  ASSUME IInv, Waits, Loader
  PROVE  /\ LoaderLeft' < LoaderLeft
         /\ Left("existing")' <= Left("existing")
         /\ Left("created")' <= Left("created")
<1> USE DEF IInv, Typed, Process
<1>1. LoaderLeft' < LoaderLeft
  <2>1. \/ pc' = pc /\ pc = "prompt" /\ prompts' = prompts + 1
        \/ StepsLeft(pc') < StepsLeft(pc) /\ prompts' = prompts
    <3>1. CASE Start \/ Open \/ LogOn \/ LogOnIdentity \/ GetOePath \/ Activate
               \/ Cleanup
      BY <3>1 DEF Start, Open, LogOn, LogOnIdentity, GetOePath, Activate, Cleanup, Goto, Leave,
                  StepsLeft
    <3>2. CASE Prompt
      BY <3>2 DEF Prompt, Goto, Leave, StepsLeft
    <3>3. CASE Inject \/ CreateOeProcess \/ Resume \/ Terminate
      BY <3>3 DEF Inject, CreateOeProcess, Resume, Terminate, Goto, Leave, StepsLeft
    <3>4. CASE WaitThread
      BY <3>4 DEF WaitThread, AfterThread, Leave, StepsLeft
    <3>5. CASE Prepare
      BY <3>5 DEF Prepare, PrepareOr, Prepared, Goto, Leave, StepsLeft
    <3>6. CASE WaitEvent
      BY <3>6 DEF WaitEvent, WaitEventOr, Goto, Leave, StepsLeft
    <3> QED
      BY <3>1, <3>2, <3>3, <3>4, <3>5, <3>6 DEF Loader
  <2>2. /\ StepsLeft(pc) \in Nat /\ StepsLeft(pc') \in Nat
        /\ prompts \in Nat /\ MaxPrompts \in Nat
    BY MaxPromptsAssumption DEF StepsLeft
  <2> QED
    BY <2>1, <2>2 DEF LoaderLeft
<1>2. CASE UNCHANGED process
  <2>1. Left("existing")' = Left("existing") /\ Left("created")' = Left("created")
    BY <1>2 DEF Left
  <2>2. Left("existing") \in Nat /\ Left("created") \in Nat
    BY Lefts
  <2> QED
    BY <1>1, <2>1, <2>2
<1>3. CASE /\ process'.existing.state = process.existing.state
           /\ process'.existing.remote = process.existing.remote
           /\ LifeLeft(process'.created.state) <= LifeLeft(process.created.state)
           /\ RoutineLeft(process'.created.remote) <= RoutineLeft(process.created.remote)
  <2>1. Left("existing")' = Left("existing") /\ Left("existing") \in Nat
    BY <1>3, Lefts DEF Left
  <2>2. Left("created")' <= Left("created")
    <3>1. /\ LifeLeft(process'.created.state) \in Nat
          /\ LifeLeft(process.created.state) \in Nat
      BY DEF LifeLeft
    <3>2. /\ RoutineLeft(process'.created.remote) \in Nat
          /\ RoutineLeft(process.created.remote) \in Nat
      BY DEF RoutineLeft
    <3> QED
      BY <1>3, <3>1, <3>2 DEF Left
  <2> QED
    BY <1>1, <2>1, <2>2
<1>4. CASE Inject /\ ~(UNCHANGED process)
  <2>1. /\ process' = [process EXCEPT !.existing.memory = "used",
                                      !.existing.remote = "queued"]
        /\ process.existing.remote = "none"
    BY <1>4 DEF Inject, Waits
  <2>2. /\ process'.created = process.created
        /\ process'.existing.state = process.existing.state
        /\ process'.existing.remote = "queued"
    BY <2>1, ZenonT(60)
  <2>3. Left("created")' = Left("created") /\ Left("created") \in Nat
    BY <2>2, Lefts DEF Left
  <2>4. Left("existing")' <= Left("existing")
    <3>1. /\ LifeLeft(process'.existing.state) = LifeLeft(process.existing.state)
          /\ LifeLeft(process.existing.state) \in Nat
          /\ RoutineLeft(process'.existing.remote) = 4
          /\ RoutineLeft(process.existing.remote) = 5
      BY <2>1, <2>2 DEF LifeLeft, RoutineLeft
    <3> QED
      BY <3>1 DEF Left
  <2> QED
    BY <1>1, <2>3, <2>4
<1>5. CASE WaitThread
  <2>1. process' = [process EXCEPT !.existing.memory = "freed"]
    BY <1>5 DEF WaitThread, AfterThread
  <2>2. /\ process'.created = process.created
        /\ process'.existing.state = process.existing.state
        /\ process'.existing.remote = process.existing.remote
    BY <2>1
  <2>3. /\ LifeLeft(process'.created.state) <= LifeLeft(process.created.state)
        /\ RoutineLeft(process'.created.remote) <= RoutineLeft(process.created.remote)
    BY <2>2 DEF LifeLeft, RoutineLeft
  <2> QED
    BY <1>3, <2>2, <2>3
<1>6. CASE Prepare /\ Prepared
  <2>1. /\ process' = [process EXCEPT !.created.memory = "used",
                                      !.created.remote = "queued"]
        /\ process.created.remote = "none"
    BY <1>6 DEF Prepared, Prepare, PrepareOr, CreatedInStep
  <2>2. /\ process'.existing = process.existing
        /\ process'.created.state = process.created.state
        /\ process'.created.remote = "queued"
    BY <2>1, ZenonT(60)
  <2>3. /\ LifeLeft(process'.created.state) <= LifeLeft(process.created.state)
        /\ RoutineLeft(process'.created.remote) <= RoutineLeft(process.created.remote)
    BY <2>1, <2>2 DEF LifeLeft, RoutineLeft
  <2> QED
    BY <1>3, <2>2, <2>3
<1>7. CASE CreateOeProcess /\ ~(UNCHANGED process)
  <2> DEFINE account == IF ~request.shellOpen /\ userName THEN "named" ELSE "current"
  <2>1. /\ process' = [process EXCEPT !.created.state = "suspended",
                                      !.created.account = account]
        /\ process.created.state = "none"
    BY <1>7 DEF CreateOeProcess, CreatedInStep, Early, NoProcess
  <2> HIDE DEF account
  <2>2. /\ process'.existing = process.existing
        /\ process'.created.state = "suspended"
        /\ process'.created.remote = process.created.remote
    BY <2>1, ZenonT(60)
  <2>3. /\ LifeLeft(process'.created.state) <= LifeLeft(process.created.state)
        /\ RoutineLeft(process'.created.remote) <= RoutineLeft(process.created.remote)
    BY <2>1, <2>2 DEF LifeLeft, RoutineLeft
  <2> QED
    BY <1>3, <2>2, <2>3
<1>8. CASE (Resume \/ Terminate) /\ ~(UNCHANGED process)
  <2>1. /\ Alive("created")
        /\ \/ process' = [process EXCEPT !.created.state = "running"]
           \/ process' = [process EXCEPT !.created.state = "exited",
                                         !.created.code = "error"]
    BY <1>8 DEF Resume, Terminate, Exits
  <2>2. /\ process'.existing = process.existing
        /\ process'.created.state \in {"running", "exited"}
        /\ process'.created.remote = process.created.remote
    <3>1. CASE process' = [process EXCEPT !.created.state = "running"]
      BY <3>1
    <3>2. CASE process' = [process EXCEPT !.created.state = "exited",
                                          !.created.code = "error"]
      BY <3>2, ZenonT(60)
    <3> QED
      BY <2>1, <3>1, <3>2
  <2>3. /\ LifeLeft(process'.created.state) <= LifeLeft(process.created.state)
        /\ RoutineLeft(process'.created.remote) <= RoutineLeft(process.created.remote)
    BY <2>1, <2>2 DEF LifeLeft, RoutineLeft, Alive
  <2> QED
    BY <1>3, <2>2, <2>3
<1>9. CASE Start \/ Open \/ LogOn \/ Prompt \/ LogOnIdentity \/ GetOePath
           \/ WaitEvent \/ Activate \/ Cleanup \/ (Prepare /\ ~Prepared)
  BY <1>2, <1>9 DEF Start, Open, LogOn, Prompt, LogOnIdentity, GetOePath,
                    WaitEvent, WaitEventOr, Activate, Cleanup, Prepare, PrepareOr
<1> QED
  BY <1>2, <1>4, <1>5, <1>6, <1>7, <1>8, <1>9 DEF Loader

LEMMA OtherLess ==
  ASSUME IInv, NEW p \in {"existing", "created"}, NEW q \in {"existing", "created"},
         p # q, process'[q] = process[q],
         \/ /\ process'[p].state = process[p].state
            /\ RoutineLeft(process'[p].remote) < RoutineLeft(process[p].remote)
         \/ /\ process'[p].remote = process[p].remote
            /\ LifeLeft(process'[p].state) < LifeLeft(process[p].state)
  PROVE  Left(p)' < Left(p) /\ Left(q)' <= Left(q)
<1>1. /\ RoutineLeft(process'[p].remote) \in Nat /\ RoutineLeft(process[p].remote) \in Nat
      /\ RoutineLeft(process[q].remote) \in Nat
  BY DEF RoutineLeft
<1>2. /\ LifeLeft(process'[p].state) \in Nat /\ LifeLeft(process[p].state) \in Nat
      /\ LifeLeft(process[q].state) \in Nat
  BY DEF LifeLeft
<1>3. Left(p)' < Left(p)
  BY <1>1, <1>2 DEF Left
<1>4. Left(q)' <= Left(q)
  BY <1>1, <1>2 DEF Left
<1> QED
  BY <1>3, <1>4

(* The routine runs from one end to the other, and a process ends once. *)
LEMMA OthersGoOn ==
  ASSUME IInv, Routine \/ \E p \in DOMAIN process : Exit(p),
         UNCHANGED <<request, pc, dwErr, userName, prompts>>
  PROVE  /\ LoaderLeft' = LoaderLeft
         /\ \/ /\ Left("existing")' < Left("existing")
               /\ Left("created")' <= Left("created")
            \/ /\ Left("existing")' <= Left("existing")
               /\ Left("created")' < Left("created")
<1> DEFINE Goes(p) ==
      \/ /\ process'[p].state = process[p].state
         /\ RoutineLeft(process'[p].remote) < RoutineLeft(process[p].remote)
      \/ /\ process'[p].remote = process[p].remote
         /\ LifeLeft(process'[p].state) < LifeLeft(process[p].state)
<1>1. LoaderLeft' = LoaderLeft
  BY DEF LoaderLeft
<1>2. DOMAIN process = {"existing", "created"}
  BY DEF IInv, Typed
<1>3. CASE process'.created = process.created /\ Goes("existing")
  <2>1. Left("existing")' < Left("existing") /\ Left("created")' <= Left("created")
    BY <1>3, OtherLess
  <2> QED
    BY <1>1, <2>1
<1>4. CASE process'.existing = process.existing /\ Goes("created")
  <2>1. Left("created")' < Left("created") /\ Left("existing")' <= Left("existing")
    BY <1>4, OtherLess
  <2> QED
    BY <1>1, <2>1
<1>5. ASSUME NEW p \in {"existing", "created"}, RemoteLoad(p)
      PROVE  /\ p = "existing" => process'.created = process.created
             /\ p = "created" => process'.existing = process.existing
             /\ Goes(p)
  <2>1. /\ p = "existing" => process'.created = process.created
        /\ p = "created" => process'.existing = process.existing
        /\ process'[p].state = process[p].state
        /\ process'[p].remote \in {"loaded", "unloadable"}
        /\ process[p].remote = "queued"
    BY <1>5 DEF RemoteLoad, IInv, Typed, Process
  <2> QED
    BY <2>1 DEF RoutineLeft
<1>6. ASSUME NEW p \in {"existing", "created"}, Crash(p) \/ Exit(p)
      PROVE  /\ p = "existing" => process'.created = process.created
             /\ p = "created" => process'.existing = process.existing
             /\ Goes(p)
  <2>1. /\ p = "existing" => process'.created = process.created
        /\ p = "created" => process'.existing = process.existing
        /\ process'[p].state = "exited"
        /\ process'[p].remote = process[p].remote
    BY <1>6 DEF Crash, Exit, Exits, IInv, Typed, Process
  <2>2. process[p].state \in {"running", "suspended"}
    BY <1>6 DEF Crash, Exit, Alive
  <2> QED
    BY <2>1, <2>2 DEF LifeLeft
<1>7. CASE ThreadReturn
  <2>1. /\ process'.created = process.created
        /\ process'.existing.state = process.existing.state
        /\ process'.existing.remote \in {"finished", "failed"}
        /\ process.existing.remote \in {"loaded", "unloadable"}
    BY <1>7 DEF ThreadReturn, Remote, IInv, Typed, Process
  <2> QED
    BY <1>3, <2>1 DEF RoutineLeft
<1>8. CASE SetEvent \/ CloseEvent
  <2>1. /\ process'.existing = process.existing
        /\ process'.created.state = process.created.state
        /\ \/ process'.created.remote = "signalled" /\ process.created.remote = "loaded"
           \/ process'.created.remote = "closed" /\ process.created.remote = "signalled"
    BY <1>8 DEF SetEvent, CloseEvent, Remote, IInv, Typed, Process
  <2> QED
    BY <1>4, <2>1 DEF RoutineLeft
<1>9. CASE FreeMemory
  <2>1. /\ process' = [process EXCEPT !.created.remote = "finished",
                                      !.created.memory = "freed"]
        /\ process.created.remote = "closed"
    BY <1>9 DEF FreeMemory
  <2>2. /\ process'.existing = process.existing
        /\ process'.created.state = process.created.state
        /\ process'.created.remote = "finished"
    BY <2>1, ZenonT(60) DEF IInv, Typed, Process
  <2> QED
    BY <1>4, <2>1, <2>2 DEF RoutineLeft
<1>10. CASE GiveUp
  <2>1. /\ process'.existing = process.existing
        /\ process'.created.state = "exited"
        /\ process'.created.remote = process.created.remote
        /\ process.created.state = "running"
    BY <1>10 DEF GiveUp, Exits, IInv, Typed, Process
  <2> QED
    BY <1>4, <2>1 DEF LifeLeft
<1>11. CASE \E p \in DOMAIN process : RemoteLoad(p) \/ Crash(p) \/ Exit(p)
  <2>1. PICK p \in {"existing", "created"} : RemoteLoad(p) \/ Crash(p) \/ Exit(p)
    BY <1>2, <1>11
  <2>2. /\ p = "existing" => process'.created = process.created
        /\ p = "created" => process'.existing = process.existing
        /\ Goes(p)
    BY <1>5, <1>6, <2>1
  <2> HIDE DEF Goes
  <2>3. CASE p = "existing"
    BY <1>3, <2>2, <2>3
  <2>4. CASE p = "created"
    BY <1>4, <2>2, <2>4
  <2> QED
    BY <2>1, <2>3, <2>4
<1> QED
  BY <1>7, <1>8, <1>9, <1>10, <1>11 DEF Routine

(* Why LoaderEnds and RoutineCleansUp hold: every step of the loader, of a routine
   and of a process that ends lowers a number that is never below zero.  So nobody
   goes on for ever; NoWaitIsInVain is what excludes that somebody stops too
   early. *)
THEOREM EverybodyEnds == Spec => [](Ahead \in Nat) /\ [][Ahead' < Ahead]_vars
<1>1. IInv => Ahead \in Nat
  BY Lefts DEF Ahead
<1>2. IInv /\ Waits /\ IInv' /\ [Next]_vars => [Ahead' < Ahead]_vars
  <2> SUFFICES ASSUME IInv, Waits, IInv', Next PROVE Ahead' < Ahead
    OBVIOUS
  <2>1. CASE Loader
    BY <2>1, LoaderGoesOn, OneLess
  <2>2. CASE /\ Routine \/ \E p \in DOMAIN process : Exit(p)
             /\ UNCHANGED <<request, pc, dwErr, userName, prompts>>
    BY <2>2, OthersGoOn, OneLess
  <2> QED
    BY <2>1, <2>2 DEF Next
<1> QED
  BY <1>1, <1>2, WaitsInvariant, PTL DEF Spec
=============================================================================
