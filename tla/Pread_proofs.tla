---------------------------- MODULE Pread_proofs ----------------------------
(***************************************************************************)
(* Proofs about pread.c, and about the macro of builds without pread, for  *)
(* every set of threads, file size and offsets.                            *)
(***************************************************************************)
EXTENDS Pread, PreadMacro, TLAPS

USE ReadConstants, NoThreadAssumption

\* What BytesAt returns at a legal position is an answer, and never -1.
LEMMA BytesAtType ==
    ASSUME NEW p \in Nat
    PROVE  /\ BytesAt(p) \in Answers
           /\ BytesAt(p) # Failed
           /\ Available(p) \in Nat
<1>1. Available(p) \in Nat
  BY DEF Available
<1> QED
  BY <1>1 DEF BytesAt, Answers, Failed

\* The critical section protects the descriptor: its owner, and only its
\* owner, is between the two _lseek calls; after the second the position is
\* the owner's offset; a call that has bytes has those of its own offset.
Positioned ==
    \A t \in Thread :
        /\ pc[t] = "read" => position = offset[t] /\ offset[t] >= 0
        /\ pc[t] \in {"seek", "read"} => prev[t] # -1
        /\ pc[t] \in {"tell", "seek", "read"} => cc[t] = Failed
        /\ pc[t] = "tell" => prev[t] = -1
        /\ pc[t] \in {"done", "leave", "returned"} =>
              cc[t] = Failed \/ (offset[t] >= 0 /\ cc[t] = BytesAt(offset[t]))
        /\ pc[t] = "leave" /\ prev[t] # -1 => position = prev[t]
        /\ pc[t] = "enter" => prev[t] = -1 /\ cc[t] = Failed
        /\ pc[t] \in {"done"} /\ prev[t] = -1 => cc[t] = Failed

IInv == TypeOK /\ MutualExclusion /\ Positioned

\* Initially no thread is in pread.
LEMMA InitIInv == Init => IInv
<1> SUFFICES ASSUME Init PROVE IInv
  OBVIOUS
<1>1. TypeOK
  BY DEF Init, TypeOK, Points, Answers, NoAnswer
<1>2. MutualExclusion
  BY DEF Init, MutualExclusion, Critical
<1>3. Positioned
  BY DEF Init, Positioned
<1> QED
  BY <1>1, <1>2, <1>3 DEF IInv

\* Every statement of pread.c keeps the invariant.
LEMMA StepIInv == IInv /\ [Next]_vars => IInv'
<1> SUFFICES ASSUME IInv, [Next]_vars PROVE IInv'
  OBVIOUS
<1> USE DEF IInv, TypeOK, Points
<1>1. CASE UNCHANGED vars
  BY <1>1 DEF vars, MutualExclusion, Critical, Positioned
<1>2. ASSUME NEW t \in Thread, NEW o \in Offset, Call(t, o) PROVE IInv'
  <2>1. TypeOK'
    BY <1>2 DEF Call, Failed, Answers
  <2>2. MutualExclusion'
    BY <1>2 DEF Call, MutualExclusion, Critical
  <2>3. Positioned'
    BY <1>2 DEF Call, Positioned, MutualExclusion, Critical
  <2> QED BY <2>1, <2>2, <2>3
<1>3. ASSUME NEW t \in Thread, EnterCriticalSection(t) PROVE IInv'
  <2>1. TypeOK'
    BY <1>3 DEF EnterCriticalSection
  <2>2. MutualExclusion'
    BY <1>3 DEF EnterCriticalSection, MutualExclusion, Critical
  <2>3. Positioned'
    BY <1>3 DEF EnterCriticalSection, Positioned, MutualExclusion, Critical
  <2> QED BY <2>1, <2>2, <2>3
<1>4. ASSUME NEW t \in Thread, Tell(t) PROVE IInv'
  <2>1. TypeOK'
    BY <1>4 DEF Tell
  <2>2. MutualExclusion'
    BY <1>4 DEF Tell, MutualExclusion, Critical
  <2>3. Positioned'
    BY <1>4 DEF Tell, Positioned, MutualExclusion, Critical
  <2> QED BY <2>1, <2>2, <2>3
<1>5. ASSUME NEW t \in Thread, Seek(t) PROVE IInv'
  <2>0. offset[t] \in Int
    OBVIOUS
  <2>1. TypeOK'
    <3>1. position' \in Nat
      BY <1>5, <2>0 DEF Seek
    <3> QED BY <1>5, <3>1 DEF Seek
  <2>2. MutualExclusion'
    BY <1>5 DEF Seek, MutualExclusion, Critical
  <2>3. Positioned'
    BY <1>5 DEF Seek, Positioned, MutualExclusion, Critical
  <2> QED BY <2>1, <2>2, <2>3
<1>6. ASSUME NEW t \in Thread, Read(t) PROVE IInv'
  <2>0. BytesAt(position) \in Answers /\ Available(position) \in Nat
    BY BytesAtType
  <2>1. TypeOK'
    BY <1>6, <2>0 DEF Read
  <2>2. MutualExclusion'
    BY <1>6 DEF Read, MutualExclusion, Critical
  <2>3. Positioned'
    BY <1>6 DEF Read, Positioned, MutualExclusion, Critical
  <2> QED BY <2>1, <2>2, <2>3
<1>7. ASSUME NEW t \in Thread, Restore(t) PROVE IInv'
  <2>1. TypeOK'
    BY <1>7 DEF Restore
  <2>2. MutualExclusion'
    BY <1>7 DEF Restore, MutualExclusion, Critical
  <2>3. Positioned'
    BY <1>7 DEF Restore, Positioned, MutualExclusion, Critical
  <2> QED BY <2>1, <2>2, <2>3
<1>8. ASSUME NEW t \in Thread, LeaveCriticalSection(t) PROVE IInv'
  <2>1. TypeOK'
    BY <1>8 DEF LeaveCriticalSection
  <2>2. MutualExclusion'
    BY <1>8 DEF LeaveCriticalSection, MutualExclusion, Critical
  <2>3. Positioned'
    BY <1>8 DEF LeaveCriticalSection, Positioned, MutualExclusion, Critical
  <2> QED BY <2>1, <2>2, <2>3
<1> QED
  BY <1>1, <1>2, <1>3, <1>4, <1>5, <1>6, <1>7, <1>8 DEF Next, Inside

\* The inductive invariant of pread.c: nothing but the owner of the section moves
\* the position.
THEOREM InvariantHolds == Spec => []IInv
BY InitIInv, StepIInv, PTL DEF Spec

\* Types hold in every reachable state of pread.c.
THEOREM TypeCorrect == Spec => []TypeOK
BY InvariantHolds, PTL DEF IInv

\* At most one thread is between the first and the last _lseek.
THEOREM ExclusiveSection == Spec => []MutualExclusion
BY InvariantHolds, PTL DEF IInv

\* A successful pread returns the bytes of its own offset.
THEOREM ReadsOwnBytes == Spec => []OwnBytes
<1>1. IInv => OwnBytes
  BY DEF IInv, Positioned, OwnBytes
<1> QED
  BY <1>1, InvariantHolds, PTL

-----------------------------------------------------------------------------
(* Refinement of the positional read. *)

\* Initially nobody has asked for anything.
LEMMA RefineInit == Init => P!PInit
BY DEF Init, P!PInit, P!NoAnswer, NoAnswer, phaseBar, answerBar, positionBar, Saved

\* A call is an Ask, leaving the critical section is an Answer, and the steps
\* between them change nothing a user of the positional read can see.
LEMMA RefineStep == IInv /\ [Next]_vars => [P!PNext]_(P!pvars)
<1> SUFFICES ASSUME IInv, [Next]_vars PROVE [P!PNext]_(P!pvars)
  OBVIOUS
<1> USE DEF IInv, TypeOK, Points
<1>1. CASE UNCHANGED vars
  BY <1>1 DEF vars, P!pvars, phaseBar, answerBar, positionBar, Saved
<1>2. ASSUME NEW t \in Thread, NEW o \in Offset, Call(t, o)
      PROVE  P!Ask(t, o)
  <2>1. preadsc # t
    BY <1>2 DEF Call, MutualExclusion, Critical
  <2>2. positionBar' = positionBar
    BY <1>2, <2>1 DEF Call, positionBar, Saved, MutualExclusion, Critical
  <2>3. phaseBar' = [phaseBar EXCEPT ![t] = "asked"] /\ phaseBar[t] # "asked"
    BY <1>2 DEF Call, phaseBar
  <2>4. answerBar' = [answerBar EXCEPT ![t] = NoAnswer]
    BY <1>2 DEF Call, answerBar
  <2> QED
    BY <1>2, <2>2, <2>3, <2>4 DEF Call, P!Ask, P!NoAnswer, NoAnswer
<1>3. ASSUME NEW t \in Thread,
             EnterCriticalSection(t) \/ Tell(t) \/ Seek(t) \/ Read(t) \/ Restore(t)
      PROVE  UNCHANGED P!pvars
  <2>1. phaseBar' = phaseBar
    BY <1>3 DEF EnterCriticalSection, Tell, Seek, Read, Restore, phaseBar
  <2>2. answerBar' = answerBar
    BY <1>3 DEF EnterCriticalSection, Tell, Seek, Read, Restore, answerBar
  <2>3. positionBar' = positionBar
    <3>1. CASE EnterCriticalSection(t)
      BY <3>1 DEF EnterCriticalSection, positionBar, Saved
    <3>2. CASE Tell(t)
      BY <3>2 DEF Tell, positionBar, Saved, MutualExclusion, Critical, Positioned
    <3>3. CASE Seek(t)
      BY <3>3 DEF Seek, positionBar, Saved, MutualExclusion, Critical, Positioned
    <3>4. CASE Read(t)
      BY <3>4 DEF Read, positionBar, Saved, MutualExclusion, Critical, Positioned
    <3>5. CASE Restore(t)
      BY <3>5 DEF Restore, positionBar, Saved, MutualExclusion, Critical
    <3> QED BY <1>3, <3>1, <3>2, <3>3, <3>4, <3>5
  <2>4. offset' = offset
    BY <1>3 DEF EnterCriticalSection, Tell, Seek, Read, Restore
  <2> QED
    BY <2>1, <2>2, <2>3, <2>4 DEF P!pvars
<1>4. ASSUME NEW t \in Thread, LeaveCriticalSection(t) PROVE P!Answer(t)
  <2>1. preadsc = t
    BY <1>4 DEF LeaveCriticalSection, MutualExclusion, Critical
  <2>2. positionBar' = positionBar
    BY <1>4, <2>1 DEF LeaveCriticalSection, positionBar, Saved
  <2>3. phaseBar' = [phaseBar EXCEPT ![t] = "answered"] /\ phaseBar[t] = "asked"
    BY <1>4 DEF LeaveCriticalSection, phaseBar
  <2>4. answerBar' = [answerBar EXCEPT ![t] = cc[t]]
    BY <1>4 DEF LeaveCriticalSection, answerBar
  <2>5. cc[t] = Failed \/ (offset[t] >= 0 /\ cc[t] = BytesAt(offset[t]))
    BY <1>4 DEF LeaveCriticalSection, Positioned
  <2> QED
    BY <1>4, <2>2, <2>3, <2>4, <2>5
    DEF LeaveCriticalSection, P!Answer, P!Failed, Failed, P!BytesAt, BytesAt,
        P!Available, Available
<1>5. ASSUME NEW t \in Thread, NEW o \in Offset, Call(t, o) PROVE P!PNext
  BY <1>2, <1>5 DEF P!PNext
<1>6. ASSUME NEW t \in Thread, LeaveCriticalSection(t) PROVE P!PNext
  BY <1>4, <1>6 DEF P!PNext
<1>7. \/ \E t \in Thread, o \in Offset : Call(t, o)
      \/ \E t \in Thread : LeaveCriticalSection(t)
      \/ \E t \in Thread : EnterCriticalSection(t) \/ Tell(t) \/ Seek(t)
                             \/ Read(t) \/ Restore(t)
      \/ UNCHANGED vars
  BY DEF Next, Inside
<1> QED
  BY <1>1, <1>3, <1>5, <1>6, <1>7

\* pread.c implements the positional read the lookups rely on.
THEOREM PreadRefinesPositionalRead == Spec => ImplementsPositionalRead
<1>1. Spec => []IInv
  BY InvariantHolds
<1>2. Spec => P!PSpec
  BY <1>1, RefineInit, RefineStep, PTL DEF Spec, P!PSpec
<1> QED
  BY <1>2 DEF ImplementsPositionalRead

-----------------------------------------------------------------------------
(* The macro. *)

MacroTypeOK ==
    /\ at \in [Thread -> {"idle", "seek", "read", "returned"}]
    /\ wanted \in [Thread -> Offset]
    /\ got = [t \in Thread |-> got[t]]
    /\ disturbed \subseteq Thread

\* A thread about to read that nobody disturbed finds the position it sought.
Undisturbed ==
    \A t \in Thread : at[t] = "read" /\ t \notin disturbed => fdPosition = wanted[t]

MInv == MacroTypeOK /\ Undisturbed /\ MacroOwnBytes

\* A thread does not disturb itself.
LEMMA OthersDisturb ==
    ASSUME NEW t \in Thread, Disturb(t), MacroTypeOK
    PROVE  /\ disturbed' \subseteq Thread /\ disturbed \subseteq disturbed'
           /\ t \in disturbed' => t \in disturbed
           /\ \A u \in Thread \ {t} : at[u] = "read" => u \in disturbed'
BY DEF Disturb, MacroTypeOK

\* Initially no thread is in the macro.
LEMMA MacroInitInv == MacroInit => MInv
BY DEF MacroInit, MInv, MacroTypeOK, Undisturbed, MacroOwnBytes

\* Every call keeps the invariant.
LEMMA MacroStepInv == MInv /\ [MacroNext]_mvars => MInv'
<1> SUFFICES ASSUME MInv, [MacroNext]_mvars PROVE MInv'
  OBVIOUS
<1> USE DEF MInv, MacroTypeOK
<1>1. CASE UNCHANGED mvars
  BY <1>1 DEF mvars, Undisturbed, MacroOwnBytes
<1>2. ASSUME NEW t \in Thread, NEW o \in Offset, MacroCall(t, o) PROVE MInv'
  BY <1>2 DEF MacroCall, Undisturbed, MacroOwnBytes
<1>3. ASSUME NEW t \in Thread, MacroSeek(t) PROVE MInv'
  <2>1. CASE UNCHANGED <<fdPosition, disturbed>> /\ got' = [got EXCEPT ![t] = Failed]
             /\ at' = [at EXCEPT ![t] = "returned"]
    BY <1>3, <2>1 DEF MacroSeek, Undisturbed, MacroOwnBytes
  <2>2. CASE Disturb(t) /\ fdPosition' = wanted[t] /\ UNCHANGED got
             /\ at' = [at EXCEPT ![t] = "read"]
    <3>1. MacroTypeOK' /\ wanted' = wanted
      BY <1>3, <2>2, OthersDisturb DEF MacroSeek
    <3>2. Undisturbed'
      BY <2>2, <3>1, OthersDisturb DEF Undisturbed
    <3>3. MacroOwnBytes'
      BY <2>2, <3>1, OthersDisturb DEF MacroOwnBytes
    <3> QED BY <3>1, <3>2, <3>3
  <2> QED BY <1>3, <2>1, <2>2 DEF MacroSeek
<1>4. ASSUME NEW t \in Thread, MacroRead(t) PROVE MInv'
  <2>0. at[t] = "read" /\ at' = [at EXCEPT ![t] = "returned"] /\ wanted' = wanted
    BY <1>4 DEF MacroRead
  <2>1. CASE UNCHANGED <<fdPosition, disturbed>> /\ got' = [got EXCEPT ![t] = Failed]
    BY <2>0, <2>1 DEF Undisturbed, MacroOwnBytes
  <2>2. CASE Disturb(t) /\ got' = [got EXCEPT ![t] = BytesAt(fdPosition)]
    <3>1. MacroTypeOK'
      BY <2>0, <2>2, OthersDisturb
    <3>2. Undisturbed'
      BY <2>0, <2>2, OthersDisturb DEF Undisturbed
    <3>3. t \notin disturbed' => got'[t] = BytesAt(wanted[t])
      BY <2>0, <2>2, OthersDisturb DEF Undisturbed
    <3>4. MacroOwnBytes'
      BY <2>0, <2>2, <3>3, OthersDisturb DEF MacroOwnBytes
    <3> QED BY <3>1, <3>2, <3>4
  <2> QED BY <1>4, <2>1, <2>2 DEF MacroRead
<1> QED
  BY <1>1, <1>2, <1>3, <1>4 DEF MacroNext

\* For any number of threads, a read through the macro that nobody disturbed
\* between its lseek and its read returns the bytes of its own offset.
THEOREM MacroReadsOwnBytes == MacroSpec => []MacroOwnBytes
<1>1. MInv => MacroOwnBytes
  BY DEF MInv
<1> QED
  BY <1>1, MacroInitInv, MacroStepInv, PTL DEF MacroSpec
=============================================================================
