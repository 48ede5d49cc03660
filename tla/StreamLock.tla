----------------------------- MODULE StreamLock -----------------------------
(***************************************************************************)
(* The lock of CMemoryStreamT (inc/StreamImpl.h) over an allocator for     *)
(* several threads: threads that share streams and copy them into each     *)
(* other.  MemoryStream says what a call does; here a call is its lock and *)
(* its way out.                                                            *)
(*                                                                         *)
(* owner and depth are the critical section of a stream, which its owner   *)
(* may enter again.  kept is history: how often a call came back without   *)
(* Unlock.                                                                 *)
(***************************************************************************)
EXTENDS Integers

CONSTANTS
  Threads, Streams,
  None,            (* nobody                                               *)
  Copies,          (* the pairs <<this, pstm>> that threads call CopyTo on *)
  Rank,            (* an order of the streams                              *)
  MaxKept          (* bound: locks that one stream may lose                *)

ASSUME ThreadAssumption == None \notin Threads
ASSUME CopyAssumption   == Copies \subseteq Streams \X Streams
ASSUME RankAssumption   == Rank \in [Streams -> Nat]
ASSUME KeptAssumption   == MaxKept \in Nat

(* Streams are copied in one direction only, as from the message into streams
   that are made for its parts. *)
Ordered == \A c \in Copies : c[1] # c[2] => Rank[c[2]] < Rank[c[1]]

VARIABLES owner, depth, kept, pc, stream, pstm

vars == <<owner, depth, kept, pc, stream, pstm>>

Init ==
  /\ owner = [s \in Streams |-> None]
  /\ depth = [s \in Streams |-> 0]
  /\ kept = [s \in Streams |-> 0]
  /\ pc = [t \in Threads |-> "idle"]
  /\ stream \in [Threads -> Streams] /\ pstm = stream
-----------------------------------------------------------------------------
(* EnterCriticalSection and LeaveCriticalSection *)
Lock(t, s) ==
  /\ owner[s] \in {None, t}
  /\ owner' = [owner EXCEPT ![s] = t]
  /\ depth' = [depth EXCEPT ![s] = @ + 1]

Unlock(s) ==
  /\ depth' = [depth EXCEPT ![s] = @ - 1]
  /\ owner' = [owner EXCEPT ![s] = IF depth[s] = 1 THEN None ELSE @]

Keep(s) ==
  /\ kept[s] < MaxKept
  /\ kept' = [kept EXCEPT ![s] = @ + 1]

Goto(t, from, to) == pc[t] = from /\ pc' = [pc EXCEPT ![t] = to]

(* Read, Write, Seek, SetSize, Stat and GetMemoryInfo lock the stream first
   and have one way out. *)
Call(t) ==
  /\ Goto(t, "idle", "lock")
  /\ \E s \in Streams : stream' = [stream EXCEPT ![t] = s]
  /\ UNCHANGED <<owner, depth, kept, pstm>>

Enter(t) ==
  /\ Goto(t, "lock", "use")
  /\ Lock(t, stream[t])
  /\ UNCHANGED <<kept, stream, pstm>>

Leave(t) ==
  /\ Goto(t, "use", "idle")
  /\ Unlock(stream[t])
  /\ UNCHANGED <<kept, stream, pstm>>
-----------------------------------------------------------------------------
(* CopyTo.  A round reads under the lock of this and writes to pstm, which
   locks itself; a failure goes to __CLEANUP, behind Unlock. *)
CallEitherWay(t) ==       (* mutant: streams are copied back as well *)
  /\ Goto(t, "idle", "copyLock")
  /\ \E c \in Copies, i \in {1, 2} : /\ stream' = [stream EXCEPT ![t] = c[i]]
                                     /\ pstm' = [pstm EXCEPT ![t] = c[3 - i]]
  /\ UNCHANGED <<owner, depth, kept>>

CallCopyTo(t) ==
  /\ Goto(t, "idle", "copyLock")
  /\ \E c \in Copies : /\ stream' = [stream EXCEPT ![t] = c[1]]
                       /\ pstm' = [pstm EXCEPT ![t] = c[2]]
  /\ UNCHANGED <<owner, depth, kept>>

EnterCopy(t) ==
  /\ Goto(t, "copyLock", "copy")
  /\ Lock(t, stream[t])
  /\ UNCHANGED <<kept, stream, pstm>>

CopyToSelf(t) ==
  /\ pstm[t] = stream[t]
  /\ Goto(t, "copy", "idle")
  /\ Keep(stream[t])
  /\ UNCHANGED <<owner, depth, stream, pstm>>

ReadRound(t) ==
  /\ pstm[t] # stream[t]
  /\ Goto(t, "copy", "writeLock")
  /\ UNCHANGED <<owner, depth, kept, stream, pstm>>

ReadTooMuch(t) ==
  /\ pstm[t] # stream[t]
  /\ Goto(t, "copy", "idle")
  /\ Keep(stream[t])
  /\ UNCHANGED <<owner, depth, stream, pstm>>

WriteUnlocked(t) ==       (* mutant: the destination does not lock *)
  /\ Goto(t, "writeLock", "write")
  /\ UNCHANGED <<owner, depth, kept, stream, pstm>>

WriteLock(t) ==
  /\ Goto(t, "writeLock", "write")
  /\ Lock(t, pstm[t])
  /\ UNCHANGED <<kept, stream, pstm>>

Written(t) ==
  /\ Goto(t, "write", "copy")
  /\ Unlock(pstm[t])
  /\ UNCHANGED <<kept, stream, pstm>>

WriteFails(t) ==
  /\ Goto(t, "write", "idle")
  /\ Unlock(pstm[t]) /\ Keep(stream[t])
  /\ UNCHANGED <<stream, pstm>>

CopiedLocked(t) ==        (* mutant: no Unlock at the end either *)
  /\ pstm[t] # stream[t]
  /\ Goto(t, "copy", "idle")
  /\ UNCHANGED <<owner, depth, kept, stream, pstm>>

Copied(t) ==
  /\ pstm[t] # stream[t]
  /\ Goto(t, "copy", "idle")
  /\ Unlock(stream[t])
  /\ UNCHANGED <<kept, stream, pstm>>

Next ==
  \E t \in Threads :
    \/ Call(t) \/ Enter(t) \/ Leave(t) \/ CallCopyTo(t)
    \/ EnterCopy(t) \/ CopyToSelf(t)
    \/ ReadRound(t) \/ ReadTooMuch(t)
    \/ WriteLock(t) \/ Written(t) \/ WriteFails(t) \/ Copied(t)

Spec == Init /\ [][Next]_vars
-----------------------------------------------------------------------------
(* A thread is inside a stream: in one of its calls, or in a copy from it or
   to it. *)
Inside(t, s) ==
  \/ pc[t] \in {"use", "copy", "writeLock", "write"} /\ stream[t] = s
  \/ pc[t] = "write" /\ pstm[t] = s

Waits(t)  == pc[t] \in {"lock", "copyLock", "writeLock"}
Wanted(t) == IF pc[t] = "writeLock" THEN pstm[t] ELSE stream[t]

(* t cannot go on before u does, and u has not lost the lock in a failure. *)
WaitsFor(t, u) ==
  /\ Waits(t) /\ t # u
  /\ owner[Wanted(t)] = u /\ kept[Wanted(t)] = 0

(* The type invariant *)
TypeOK ==
  /\ owner \in [Streams -> Threads \cup {None}]
  /\ depth \in [Streams -> Nat]
  /\ kept \in [Streams -> 0 .. MaxKept]
  /\ pc \in [Threads -> {"idle", "lock", "use", "copyLock", "copy",
                         "writeLock", "write"}]
  /\ stream \in [Threads -> Streams] /\ pstm \in [Threads -> Streams]

(* Whoever works on a stream has its lock: also in the write of a copy between
   two streams, and however many locks were lost before (StreamImpl.h:455-520). *)
LockedWhileUsed ==
  \A t \in Threads, s \in Streams : Inside(t, s) => owner[s] = t

(* A stream is locked as often as it is used and as calls on it have failed to
   unlock it: each other way out of a call gives the lock back. *)
OnlyFailuresKeep ==
  \A s \in Streams :
    /\ depth[s] = kept[s] + (IF \E t \in Threads : Inside(t, s) THEN 1 ELSE 0)
    /\ owner[s] = None <=> depth[s] = 0

(* CopyTo calls Write of another stream under its own lock (462-513).  If the
   streams are copied in one direction only, no threads wait for each other in
   a circle, except for locks that were lost. *)
NoDeadlock ==
  \A W \in (SUBSET Threads) \ {{}} :
    \E t \in W : \A u \in W : ~WaitsFor(t, u)
=============================================================================
