-------------------------- MODULE StreamLockProofs ---------------------------
(***************************************************************************)
(* The lock of the streams, for any number of threads, streams and lost    *)
(* locks: whoever works on a stream has its lock, only failures keep one,  *)
(* and threads that copy in one direction do not wait for each other.      *)
(***************************************************************************)
EXTENDS StreamLock, WellFoundedInduction, TLAPS

(* A copy is one of Copies, and writes to another stream. *)
Copying ==
  \A t \in Threads :
    /\ pc[t] \in {"copyLock", "copy", "writeLock", "write"} =>
         <<stream[t], pstm[t]>> \in Copies
    /\ pc[t] \in {"writeLock", "write"} => pstm[t] # stream[t]

IInv == TypeOK /\ Copying /\ LockedWhileUsed /\ OnlyFailuresKeep

USE ThreadAssumption, CopyAssumption, KeptAssumption

LEMMA Initially ==
  ASSUME Init
  PROVE  IInv
  <1>1. TypeOK
    BY DEF Init, TypeOK
  <1>2. \A t \in Threads, s \in Streams : ~Inside(t, s)
    BY DEF Init, Inside
  <1>3. Copying
    BY DEF Init, Copying
  <1>4. LockedWhileUsed
    BY <1>2 DEF LockedWhileUsed
  <1>5. OnlyFailuresKeep
    BY <1>2 DEF OnlyFailuresKeep, Init
  <1>6. QED
    BY <1>1, <1>3, <1>4, <1>5 DEF IInv

(* A step of one thread t leaves the others where they are. *)
LEMMA OthersStay ==
  ASSUME NEW t \in Threads, NEW u \in Threads \ {t}, NEW s \in Streams,
         TypeOK, \E to : pc' = [pc EXCEPT ![t] = to],
         \/ stream' = stream
         \/ \E r \in Streams : stream' = [stream EXCEPT ![t] = r],
         \/ pstm' = pstm
         \/ \E r \in Streams : pstm' = [pstm EXCEPT ![t] = r]
  PROVE  /\ Inside(u, s)' <=> Inside(u, s)
         /\ pc'[u] = pc[u] /\ stream'[u] = stream[u] /\ pstm'[u] = pstm[u]
  <1>1. pc'[u] = pc[u] /\ stream'[u] = stream[u] /\ pstm'[u] = pstm[u]
    BY DEF TypeOK
  <1>2. QED
    BY <1>1 DEF Inside

(* What a step of thread t can be for a stream: nothing, or one of the ways in
   and out. *)
Stays(t, s) ==
  /\ owner'[s] = owner[s] /\ depth'[s] = depth[s] /\ kept'[s] = kept[s]
  /\ Inside(t, s)' <=> Inside(t, s)

Locks(t, s) ==
  /\ owner[s] \in {None, t} /\ owner'[s] = t
  /\ depth'[s] = depth[s] + 1 /\ kept'[s] = kept[s]
  /\ ~Inside(t, s) /\ Inside(t, s)'

Unlocks(t, s) ==
  /\ owner'[s] = IF depth[s] = 1 THEN None ELSE owner[s]
  /\ depth'[s] = depth[s] - 1 /\ kept'[s] = kept[s]
  /\ Inside(t, s) /\ ~Inside(t, s)'

Fails(t, s) ==
  /\ owner'[s] = owner[s] /\ depth'[s] = depth[s] /\ kept'[s] = kept[s] + 1
  /\ Inside(t, s) /\ ~Inside(t, s)'

StreamStep(t, s) ==
  Stays(t, s) \/ Locks(t, s) \/ Unlocks(t, s) \/ Fails(t, s)

ThreadStep(t) ==
  /\ \E to : pc' = [pc EXCEPT ![t] = to]
  /\ \/ stream' = stream
     \/ \E r \in Streams : stream' = [stream EXCEPT ![t] = r]
  /\ \/ pstm' = pstm
     \/ \E r \in Streams : pstm' = [pstm EXCEPT ![t] = r]

(* The account of a stream is kept by each of the four. *)
LEMMA AccountIsKept ==
  ASSUME IInv, NEW t \in Threads, NEW s \in Streams, ThreadStep(t),
         StreamStep(t, s)
  PROVE  /\ \A u \in Threads : Inside(u, s)' => owner'[s] = u
         /\ depth'[s] \in Nat
         /\ depth'[s] = kept'[s] + (IF \E u \in Threads : Inside(u, s)' THEN 1 ELSE 0)
         /\ owner'[s] = None <=> depth'[s] = 0
  <1> DEFINE In(u) == Inside(u, s)
             After(u) == Inside(u, s)'
  <1>1. \A u \in Threads \ {t} : After(u) <=> In(u)
    BY OthersStay DEF IInv, ThreadStep
  <1>2. /\ depth[s] \in Nat /\ kept[s] \in Nat
        /\ depth[s] = kept[s] + (IF \E u \in Threads : In(u) THEN 1 ELSE 0)
        /\ owner[s] = None <=> depth[s] = 0
    BY DEF IInv, OnlyFailuresKeep, TypeOK
  <1>3. \A u \in Threads : In(u) => owner[s] = u
    BY DEF IInv, LockedWhileUsed
  <1>4. \/ /\ owner'[s] = owner[s] /\ depth'[s] = depth[s] /\ kept'[s] = kept[s]
           /\ After(t) <=> In(t)
        \/ /\ owner[s] \in {None, t} /\ owner'[s] = t
           /\ depth'[s] = depth[s] + 1 /\ kept'[s] = kept[s]
           /\ ~In(t) /\ After(t)
        \/ /\ owner'[s] = IF depth[s] = 1 THEN None ELSE owner[s]
           /\ depth'[s] = depth[s] - 1 /\ kept'[s] = kept[s]
           /\ In(t) /\ ~After(t)
        \/ /\ owner'[s] = owner[s] /\ depth'[s] = depth[s]
           /\ kept'[s] = kept[s] + 1
           /\ In(t) /\ ~After(t)
    BY DEF StreamStep, Stays, Locks, Unlocks, Fails
  <1> HIDE DEF In, After
  <1>5. \A u \in Threads : After(u) => owner'[s] = u
    BY <1>1, <1>2, <1>3, <1>4
  <1>6. depth'[s] \in Nat
    BY <1>1, <1>2, <1>3, <1>4
  <1>7. depth'[s] = kept'[s] + (IF \E u \in Threads : After(u) THEN 1 ELSE 0)
    BY <1>1, <1>2, <1>3, <1>4
  <1>8. owner'[s] = None <=> depth'[s] = 0
    BY <1>1, <1>2, <1>3, <1>4
  <1>9. QED
    BY <1>5, <1>6, <1>7, <1>8 DEF After

(* TypeOK, but for the sign of depth, which the account gives. *)
Types ==
  /\ owner \in [Streams -> Threads \cup {None}]
  /\ depth \in [Streams -> Int]
  /\ kept \in [Streams -> 0 .. MaxKept]
  /\ pc \in [Threads -> {"idle", "lock", "use", "copyLock", "copy",
                         "writeLock", "write"}]
  /\ stream \in [Threads -> Streams] /\ pstm \in [Threads -> Streams]

LEMMA TypesNow ==
  ASSUME IInv
  PROVE  Types
  BY DEF IInv, TypeOK, Types

Steps(t) == ThreadStep(t) /\ \A s \in Streams : StreamStep(t, s)

(* The calls other than CopyTo: one way in, and one out. *)
LEMMA CallSteps ==
  ASSUME IInv, NEW t \in Threads, Call(t)
  PROVE  Steps(t) /\ Types' /\ Copying'
  <1> USE DEF Call, Goto
  <1>1. Types
    BY TypesNow
  <1>2. ThreadStep(t)
    BY DEF ThreadStep
  <1>3. Types'
    BY <1>1 DEF Types
  <1>4. \A s \in Streams : StreamStep(t, s)
    BY <1>1 DEF Types, StreamStep, Stays, Inside
  <1>5. Copying'
    BY <1>1 DEF IInv, Copying, Types
  <1>6. QED
    BY <1>2, <1>3, <1>4, <1>5 DEF Steps

LEMMA EnterSteps ==
  ASSUME IInv, NEW t \in Threads, Enter(t) \/ EnterCopy(t)
  PROVE  Steps(t) /\ Types' /\ Copying'
  <1> USE DEF Enter, EnterCopy, Goto, Lock
  <1>1. Types
    BY TypesNow
  <1>2. ThreadStep(t)
    BY DEF ThreadStep
  <1>3. Types'
    BY <1>1 DEF Types
  <1>4. \A s \in Streams : StreamStep(t, s)
    BY <1>1 DEF Types, StreamStep, Stays, Locks, Inside
  <1>5. Copying'
    BY <1>1 DEF IInv, Copying, Types
  <1>6. QED
    BY <1>2, <1>3, <1>4, <1>5 DEF Steps

LEMMA LeaveSteps ==
  ASSUME IInv, NEW t \in Threads, Leave(t)
  PROVE  Steps(t) /\ Types' /\ Copying'
  <1> USE DEF Leave, Goto, Unlock
  <1>1. Types
    BY TypesNow
  <1>2. ThreadStep(t)
    BY DEF ThreadStep
  <1>3. Types'
    BY <1>1 DEF Types
  <1>4. \A s \in Streams : StreamStep(t, s)
    BY <1>1 DEF Types, StreamStep, Stays, Unlocks, Inside
  <1>5. Copying'
    BY <1>1 DEF IInv, Copying, Types
  <1>6. QED
    BY <1>2, <1>3, <1>4, <1>5 DEF Steps

(* CopyTo. *)
LEMMA CallCopyToSteps ==
  ASSUME IInv, NEW t \in Threads, CallCopyTo(t)
  PROVE  Steps(t) /\ Types' /\ Copying'
  <1> USE DEF CallCopyTo, Goto
  <1>1. Types
    BY TypesNow
  <1>2. PICK c \in Copies : /\ stream' = [stream EXCEPT ![t] = c[1]]
                            /\ pstm' = [pstm EXCEPT ![t] = c[2]]
    OBVIOUS
  <1>3. c[1] \in Streams /\ c[2] \in Streams /\ c = <<c[1], c[2]>>
    OBVIOUS
  <1>4. ThreadStep(t)
    BY <1>2, <1>3 DEF ThreadStep
  <1>5. Types'
    BY <1>1, <1>2, <1>3 DEF Types
  <1>6. \A s \in Streams : StreamStep(t, s)
    BY <1>1, <1>2 DEF Types, StreamStep, Stays, Inside
  <1>7. Copying'
    BY <1>1, <1>2, <1>3 DEF IInv, Copying, Types
  <1>8. QED
    BY <1>4, <1>5, <1>6, <1>7 DEF Steps

LEMMA FailureSteps ==
  ASSUME IInv, NEW t \in Threads, CopyToSelf(t) \/ ReadTooMuch(t)
  PROVE  Steps(t) /\ Types' /\ Copying'
  <1> USE DEF CopyToSelf, ReadTooMuch, Goto, Keep
  <1>1. Types
    BY TypesNow
  <1>2. ThreadStep(t)
    BY DEF ThreadStep
  <1>3. Types'
    BY <1>1 DEF Types
  <1>4. \A s \in Streams : StreamStep(t, s)
    BY <1>1 DEF Types, StreamStep, Stays, Fails, Inside
  <1>5. Copying'
    BY <1>1 DEF IInv, Copying, Types
  <1>6. QED
    BY <1>2, <1>3, <1>4, <1>5 DEF Steps

LEMMA ReadRoundSteps ==
  ASSUME IInv, NEW t \in Threads, ReadRound(t)
  PROVE  Steps(t) /\ Types' /\ Copying'
  <1> USE DEF ReadRound, Goto
  <1>1. Types
    BY TypesNow
  <1>2. ThreadStep(t)
    BY DEF ThreadStep
  <1>3. Types'
    BY <1>1 DEF Types
  <1>4. \A s \in Streams : StreamStep(t, s)
    BY <1>1 DEF Types, StreamStep, Stays, Inside
  <1>5. Copying'
    BY <1>1 DEF IInv, Copying, Types
  <1>6. QED
    BY <1>2, <1>3, <1>4, <1>5 DEF Steps

LEMMA WriteLockSteps ==
  ASSUME IInv, NEW t \in Threads, WriteLock(t)
  PROVE  Steps(t) /\ Types' /\ Copying'
  <1> USE DEF WriteLock, Goto, Lock
  <1>1. Types
    BY TypesNow
  <1>2. ThreadStep(t)
    BY DEF ThreadStep
  <1>3. Types'
    BY <1>1 DEF Types
  <1>4. pstm[t] # stream[t]
    BY DEF IInv, Copying
  <1>5. \A s \in Streams : StreamStep(t, s)
    BY <1>1, <1>4 DEF Types, StreamStep, Stays, Locks, Inside
  <1>6. Copying'
    BY <1>1 DEF IInv, Copying, Types
  <1>7. QED
    BY <1>2, <1>3, <1>5, <1>6 DEF Steps

LEMMA WrittenSteps ==
  ASSUME IInv, NEW t \in Threads, Written(t) \/ WriteFails(t)
  PROVE  Steps(t) /\ Types' /\ Copying'
  <1> USE DEF Written, WriteFails, Goto, Unlock, Keep
  <1>1. Types
    BY TypesNow
  <1>2. ThreadStep(t)
    BY DEF ThreadStep
  <1>3. Types'
    BY <1>1 DEF Types
  <1>4. pstm[t] # stream[t]
    BY DEF IInv, Copying
  <1>5. \A s \in Streams : StreamStep(t, s)
    BY <1>1, <1>4 DEF Types, StreamStep, Stays, Unlocks, Fails, Inside
  <1>6. Copying'
    BY <1>1 DEF IInv, Copying, Types
  <1>7. QED
    BY <1>2, <1>3, <1>5, <1>6 DEF Steps

LEMMA CopiedSteps ==
  ASSUME IInv, NEW t \in Threads, Copied(t)
  PROVE  Steps(t) /\ Types' /\ Copying'
  <1> USE DEF Copied, Goto, Unlock
  <1>1. Types
    BY TypesNow
  <1>2. ThreadStep(t)
    BY DEF ThreadStep
  <1>3. Types'
    BY <1>1 DEF Types
  <1>4. \A s \in Streams : StreamStep(t, s)
    BY <1>1 DEF Types, StreamStep, Stays, Unlocks, Inside
  <1>5. Copying'
    BY <1>1 DEF IInv, Copying, Types
  <1>6. QED
    BY <1>2, <1>3, <1>4, <1>5 DEF Steps

LEMMA NextSteps ==
  ASSUME IInv, Next
  PROVE  \E t \in Threads : Steps(t) /\ Types' /\ Copying'
  <1>1. PICK t \in Threads :
          \/ Call(t) \/ Enter(t) \/ Leave(t) \/ CallCopyTo(t)
          \/ EnterCopy(t) \/ CopyToSelf(t)
          \/ ReadRound(t) \/ ReadTooMuch(t)
          \/ WriteLock(t) \/ Written(t) \/ WriteFails(t) \/ Copied(t)
    BY DEF Next
  <1>2. Steps(t) /\ Types' /\ Copying'
    BY <1>1, CallSteps, EnterSteps, LeaveSteps, CallCopyToSteps, FailureSteps,
       ReadRoundSteps, WriteLockSteps, WrittenSteps, CopiedSteps
  <1>3. QED
    BY <1>2

LEMMA Inductive ==
  ASSUME IInv, [Next]_vars
  PROVE  IInv'
  <1>1. CASE UNCHANGED vars
    BY <1>1 DEF IInv, vars, TypeOK, Copying, LockedWhileUsed, OnlyFailuresKeep,
                Inside
  <1>2. CASE Next
    <2>1. PICK t \in Threads : Steps(t) /\ Types' /\ Copying'
      BY <1>2, NextSteps
    <2>2. ASSUME NEW s \in Streams
          PROVE  /\ \A u \in Threads : Inside(u, s)' => owner'[s] = u
                 /\ depth'[s] \in Nat
                 /\ depth'[s] = kept'[s] + (IF \E u \in Threads : Inside(u, s)'
                                            THEN 1 ELSE 0)
                 /\ owner'[s] = None <=> depth'[s] = 0
      BY <2>1, AccountIsKept DEF Steps
    <2>3. TypeOK'
      BY <2>1, <2>2 DEF Types, TypeOK
    <2>4. LockedWhileUsed'
      BY <2>2 DEF LockedWhileUsed
    <2>5. OnlyFailuresKeep'
      BY <2>2 DEF OnlyFailuresKeep
    <2>6. QED
      BY <2>1, <2>3, <2>4, <2>5 DEF IInv
  <1>3. QED
    BY <1>1, <1>2

LEMMA Invariance == Spec => []IInv
  BY Initially, Inductive, PTL DEF Spec

(* The types of the locks, whatever is lost. *)
THEOREM TypeCorrect == Spec => []TypeOK
  <1>1. IInv => TypeOK
    BY DEF IInv
  <1>2. QED
    BY <1>1, Invariance, PTL

(* LockedWhileUsed for any number of threads and streams and any copies. *)
THEOREM LocksExclude == Spec => []LockedWhileUsed
  <1>1. IInv => LockedWhileUsed
    BY DEF IInv
  <1>2. QED
    BY <1>1, Invariance, PTL

(* OnlyFailuresKeep likewise: of the ways out of a call only the jumps of CopyTo
   behind its Unlock leave a stream locked. *)
THEOREM OnlyFailuresLoseLocks == Spec => []OnlyFailuresKeep
  <1>1. IInv => OnlyFailuresKeep
    BY DEF IInv
  <1>2. QED
    BY <1>1, Invariance, PTL

(* What a lost lock means for everybody else: the stream never changes hands
   again, as nothing but its owner could unlock it once more often than it locks
   it, and no way out of a call does. *)
LostIsLost ==
  \A s \in Streams :
    kept[s] > 0 => owner'[s] = owner[s] /\ owner[s] # None /\ kept'[s] > 0

LEMMA StepKeepsLost ==
  ASSUME IInv, [Next]_vars
  PROVE  LostIsLost
  <1> SUFFICES ASSUME NEW s \in Streams, kept[s] > 0
               PROVE  owner'[s] = owner[s] /\ owner[s] # None /\ kept'[s] > 0
    BY DEF LostIsLost
  <1>1. /\ kept[s] \in Nat /\ depth[s] \in Nat
        /\ depth[s] = kept[s] + (IF \E t \in Threads : Inside(t, s) THEN 1 ELSE 0)
        /\ owner[s] = None <=> depth[s] = 0
    BY DEF IInv, TypeOK, OnlyFailuresKeep
  <1>2. owner[s] # None
    BY <1>1
  <1>3. CASE UNCHANGED vars
    BY <1>2, <1>3 DEF vars
  <1>4. CASE Next
    <2>1. PICK t \in Threads : StreamStep(t, s)
      BY <1>4, NextSteps DEF Steps
    <2>2. CASE Stays(t, s) \/ Locks(t, s) \/ Fails(t, s)
      BY <1>1, <1>2, <2>2 DEF Stays, Locks, Fails
    <2>3. CASE Unlocks(t, s)
      <3>1. depth[s] = kept[s] + 1
        BY <1>1, <2>3 DEF Unlocks
      <3>2. depth[s] # 1
        BY <1>1, <3>1
      <3>3. QED
        BY <1>2, <2>3, <3>2 DEF Unlocks
    <2>4. QED
      BY <2>1, <2>2, <2>3 DEF StreamStep
  <1>5. QED
    BY <1>3, <1>4

(* A stream whose CopyTo has jumped behind Unlock is its thread's for good: every
   other thread that uses it waits for ever (StreamImpl.h:471, 493, 500, 513). *)
THEOREM LostLocksStayLost == Spec => [][LostIsLost]_vars
  <1>1. IInv /\ [Next]_vars => [LostIsLost]_vars
    BY StepKeepsLost
  <1>2. QED
    BY <1>1, Invariance, PTL DEF Spec

(* Every set of natural numbers that is not empty has a least one. *)
LEMMA LeastNumber ==
  ASSUME NEW S \in SUBSET Nat, S # {}
  PROVE  \E m \in S : \A n \in S : m <= n
  <1> DEFINE R == {r \in Nat \X Nat : r[1] < r[2]}
  <1>1. IsWellFoundedOn(R, Nat)
    BY NatLessThanWellFounded DEF OpToRel
  <1>2. PICK m \in S : \A n \in S : <<n, m>> \notin R
    <2> HIDE DEF R
    <2> QED
      BY <1>1, WFMin
  <1>3. \A n \in S : m \in Nat /\ n \in Nat /\ ~(n < m)
    BY <1>2
  <1>4. QED
    BY <1>3

(* Who waits for a thread that waits itself waits for the stream that this one
   copies from, and this one wants a stream of lower rank. *)
LEMMA WaitsGoDown ==
  ASSUME Ordered, IInv, NEW t \in Threads, NEW u \in Threads,
         WaitsFor(t, u), Waits(u)
  PROVE  Rank[Wanted(u)] < Rank[Wanted(t)]
  <1> DEFINE s == Wanted(t)
  <1>1. s \in Streams
    BY DEF IInv, TypeOK, Wanted
  <1>2. owner[s] = u /\ kept[s] = 0
    BY DEF WaitsFor
  <1> HIDE DEF s
  <1>3. depth[s] # 0
    BY <1>1, <1>2 DEF IInv, OnlyFailuresKeep
  <1>4. PICK v \in Threads : Inside(v, s)
    BY <1>1, <1>2, <1>3 DEF IInv, OnlyFailuresKeep
  <1>5. v = u
    BY <1>1, <1>2, <1>4 DEF IInv, LockedWhileUsed
  <1>6. pc[u] = "writeLock" /\ stream[u] = s
    BY <1>4, <1>5 DEF Inside, Waits
  <1>7. <<s, pstm[u]>> \in Copies /\ pstm[u] # s
    BY <1>6 DEF IInv, Copying
  <1>8. Rank[pstm[u]] < Rank[s]
    <2> DEFINE c == <<s, pstm[u]>>
    <2>1. c \in Copies /\ c[1] = s /\ c[2] = pstm[u] /\ c[1] # c[2]
      BY <1>7
    <2> HIDE DEF c
    <2>2. QED
      BY <2>1 DEF Ordered
  <1>9. Wanted(u) = pstm[u]
    BY <1>6 DEF Wanted
  <1>10. QED
    BY <1>8, <1>9 DEF s

LEMMA NobodyWaitsInACircle ==
  ASSUME Ordered, IInv
  PROVE  NoDeadlock
  <1> SUFFICES ASSUME NEW W \in SUBSET Threads, W # {},
                      \A t \in W : \E u \in W : WaitsFor(t, u)
               PROVE  FALSE
    BY DEF NoDeadlock
  <1> DEFINE R == {Rank[Wanted(t)] : t \in W}
  <1>1. \A t \in W : Rank[Wanted(t)] \in Nat
    BY RankAssumption DEF IInv, TypeOK, Wanted
  <1>2. R \in SUBSET Nat /\ R # {}
    BY <1>1
  <1>3. PICK m \in R : \A n \in R : m <= n
    <2> HIDE DEF R
    <2> QED
      BY <1>2, LeastNumber
  <1>4. PICK t \in W : m = Rank[Wanted(t)]
    BY <1>3
  <1>5. PICK u \in W : WaitsFor(t, u)
    BY <1>4
  <1>6. Waits(u)
    BY <1>5 DEF WaitsFor
  <1>7. Rank[Wanted(u)] < Rank[Wanted(t)]
    BY <1>5, <1>6, WaitsGoDown
  <1>8. Rank[Wanted(u)] \in R
    OBVIOUS
  <1>9. Rank[Wanted(t)] <= Rank[Wanted(u)]
    BY <1>3, <1>4, <1>8
  <1>10. QED
    BY <1>1, <1>7, <1>9

(* NoDeadlock for any number of threads and streams: the lock that CopyTo holds
   while it calls Write of another stream (462-513) closes no circle if the
   streams have an order in which they are copied. *)
THEOREM OneDirectionNeverBlocks == Ordered => (Spec => []NoDeadlock)
  <1> SUFFICES ASSUME Ordered
               PROVE  Spec => []NoDeadlock
    OBVIOUS
  <1>1. IInv => NoDeadlock
    BY NobodyWaitsInACircle
  <1>2. QED
    BY <1>1, Invariance, PTL
=============================================================================
