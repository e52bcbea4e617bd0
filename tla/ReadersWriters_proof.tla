------------------------ MODULE ReadersWriters_proof ------------------------
(***************************************************************************)
(* Proofs about ReadersWriters for every finite set of readers and writers *)
(* and every limit, with any children killed at any moment.                *)
(***************************************************************************)
EXTENDS ReadersWriters, FiniteSetTheorems, TLAPS

LEMMA InitType == Init => TypeOK
BY RWAssumption DEF Init, TypeOK, Procs

LEMMA NextType ==
  ASSUME TypeOK, [Next]_vars
  PROVE  TypeOK'
<1> USE RWAssumption DEF TypeOK, Goto, At, Running, sems, Procs
<1>1. ASSUME NEW p \in Procs, Test(p) \/ Wake(p)
      PROVE  TypeOK'
  BY <1>1 DEF Test, Wake
<1>2. ASSUME NEW r \in Readers, StartRead(r) \/ StopRead(r)
      PROVE  TypeOK'
  BY <1>2 DEF StartRead, StopRead
<1>3. ASSUME NEW r \in Readers, Read(r)
      PROVE  TypeOK'
  BY <1>3 DEF Read
<1>4. ASSUME NEW w \in Writers, StartWrite(w) \/ StopWrite(w)
      PROVE  TypeOK'
  BY <1>4 DEF StartWrite, StopWrite
<1>5. ASSUME NEW w \in Writers, Load(w) \/ Store(w)
      PROVE  TypeOK'
  BY <1>5 DEF Load, Store
<1>6. ASSUME NEW p \in Procs, Kill(p) \/ Wait(p)
      PROVE  TypeOK'
  BY <1>6 DEF Kill, Wait
<1>7. ASSUME NEW p \in Procs, Fork(p)
      PROVE  TypeOK'
  BY <1>7 DEF Fork, Unborn
<1>8. CASE ForkFails \/ Remove
  BY <1>8 DEF ForkFails, Remove
<1>9. CASE UNCHANGED vars
  BY <1>9 DEF vars
<1> QED
  BY <1>1, <1>2, <1>3, <1>4, <1>5, <1>6, <1>7, <1>8, <1>9
     DEF Next, ReaderStep, WriterStep, MainStep

(* Every state is well typed; a reader never writes, a writer never reads. *)
THEOREM TypeCorrect == Spec => []TypeOK
<1>1. TypeOK /\ [Next]_vars => TypeOK'
  BY NextType
<1> QED  BY <1>1, InitType, PTL DEF Spec

-----------------------------------------------------------------------------
(* The semaphores count the children inside.  How one child moving changes *)
(* the two sets:                                                           *)
LEMMA SetsFinite ==
  /\ IsFiniteSet(Reading) /\ IsFiniteSet(Writing) /\ IsFiniteSet(Committed)
  /\ Cardinality(Reading) \in Nat /\ Cardinality(Writing) \in Nat
  /\ Cardinality(Committed) \in Nat
<1>1. IsFiniteSet(Reading) /\ IsFiniteSet(Writing) /\ IsFiniteSet(Committed)
  BY FS_Subset, RWAssumption DEF Reading, Writing, Committed
<1> QED  BY <1>1, FS_CardinalityType

LEMMA InitCount == Init => SemaphoresCount /\ WriterExclusive
<1> SUFFICES ASSUME Init PROVE SemaphoresCount /\ WriterExclusive
  OBVIOUS
<1>1. Reading = {} /\ Writing = {}
  BY DEF Init, Reading, Writing, Procs
<1> QED  BY <1>1, FS_EmptySet DEF Init, SemaphoresCount, WriterExclusive

LEMMA StartReadCount ==
  ASSUME TypeOK, SemaphoresCount, WriterExclusive, NEW r \in Readers, StartRead(r)
  PROVE  SemaphoresCount' /\ WriterExclusive'
<1> USE RWAssumption DEF TypeOK, Procs
<1>1. /\ Reading' = Reading \cup {r} /\ r \notin Reading
      /\ Writing' = Writing
  BY DEF StartRead, Goto, At, Reading, Writing
<1>2. Cardinality(Reading') = Cardinality(Reading) + 1
  BY <1>1, SetsFinite, FS_AddElement
<1>3. Writing = {}
  BY SetsFinite, FS_EmptySet DEF SemaphoresCount, StartRead
<1> QED  BY <1>1, <1>2, <1>3 DEF SemaphoresCount, WriterExclusive, StartRead

LEMMA StopReadCount ==
  ASSUME TypeOK, SemaphoresCount, WriterExclusive, NEW r \in Readers, StopRead(r)
  PROVE  SemaphoresCount' /\ WriterExclusive'
<1> USE RWAssumption DEF TypeOK, Procs
<1>1. /\ Reading' = Reading \ {r} /\ r \in Reading
      /\ Writing' = Writing
  BY DEF StopRead, Goto, At, Running, Reading, Writing
<1>2. Cardinality(Reading') = Cardinality(Reading) - 1
  BY <1>1, SetsFinite, FS_RemoveElement
<1> QED  BY <1>1, <1>2 DEF SemaphoresCount, WriterExclusive, StopRead

LEMMA StartWriteCount ==
  ASSUME TypeOK, SemaphoresCount, WriterExclusive, NEW w \in Writers, StartWrite(w)
  PROVE  SemaphoresCount' /\ WriterExclusive'
<1> USE RWAssumption DEF TypeOK, Procs
<1>1. Reading = {} /\ Writing = {}
  BY SetsFinite, FS_EmptySet DEF SemaphoresCount, StartWrite
<1>2. Reading' = Reading /\ Writing' = {w}
  BY <1>1 DEF StartWrite, Goto, At, Reading, Writing
<1>3. Cardinality({w}) = 1
  BY FS_Singleton
<1> QED  BY <1>1, <1>2, <1>3, FS_EmptySet DEF SemaphoresCount, WriterExclusive, StartWrite

LEMMA StopWriteCount ==
  ASSUME TypeOK, SemaphoresCount, WriterExclusive, NEW w \in Writers, StopWrite(w)
  PROVE  SemaphoresCount' /\ WriterExclusive'
<1> USE RWAssumption DEF TypeOK, Procs
<1>1. w \in Writing /\ Writing = {w} /\ Reading = {}
  BY DEF StopWrite, At, Running, Writing, WriterExclusive
<1>2. Reading' = Reading /\ Writing' = {}
  BY <1>1 DEF StopWrite, Goto, At, Reading, Writing
<1>3. Cardinality({w}) = 1
  BY FS_Singleton
<1> QED  BY <1>1, <1>2, <1>3, FS_EmptySet DEF SemaphoresCount, WriterExclusive, StopWrite

(* All other steps leave semaphores and sets as they are. *)
LEMMA OtherCount ==
  ASSUME TypeOK, SemaphoresCount, WriterExclusive,
         \/ \E p \in Procs : Test(p) \/ Wake(p) \/ Kill(p) \/ Fork(p) \/ Wait(p)
         \/ \E r \in Readers : Read(r)
         \/ \E w \in Writers : Load(w) \/ Store(w)
         \/ ForkFails \/ Remove \/ UNCHANGED vars
  PROVE  /\ SemaphoresCount' /\ WriterExclusive'
         /\ UNCHANGED <<Reading, Writing>>
<1> USE RWAssumption DEF TypeOK, Procs
<1>1. UNCHANGED sems
  BY DEF Test, Wake, Kill, Fork, Wait, Read, Load, Store, ForkFails, Remove, vars, sems
<1>2. UNCHANGED <<Reading, Writing>>
  <2>1. CASE \E p \in Procs : Test(p) \/ Wake(p)
    BY <2>1 DEF Test, Wake, Goto, At, Reading, Writing
  <2>2. CASE \E p \in Procs : Kill(p) \/ Wait(p)
    BY <2>2 DEF Kill, Wait, Reading, Writing
  <2>3. CASE \E p \in Procs : Fork(p)
    BY <2>3 DEF Fork, Unborn, Goto, Reading, Writing
  <2>4. CASE \E r \in Readers : Read(r)
    BY <2>4 DEF Read, Goto, At, Reading, Writing
  <2>5. CASE \E w \in Writers : Load(w) \/ Store(w)
    BY <2>5 DEF Load, Store, Goto, At, Reading, Writing
  <2>6. CASE ForkFails \/ Remove \/ UNCHANGED vars
    BY <2>6 DEF ForkFails, Remove, vars, Reading, Writing
  <2> QED  BY <2>1, <2>2, <2>3, <2>4, <2>5, <2>6
<1> QED  BY <1>1, <1>2 DEF SemaphoresCount, WriterExclusive, sems

LEMMA NextCount ==
  ASSUME TypeOK, SemaphoresCount, WriterExclusive, [Next]_vars
  PROVE  SemaphoresCount' /\ WriterExclusive'
BY RWAssumption, StartReadCount, StopReadCount, StartWriteCount, StopWriteCount, OtherCount
   DEF Next, ReaderStep, WriterStep, MainStep, Procs

(* The semaphores count the children inside, and writers work alone.       *)
THEOREM SemaphoresCountHolds == Spec => [](SemaphoresCount /\ WriterExclusive)
<1>1. TypeOK /\ (SemaphoresCount /\ WriterExclusive) /\ [Next]_vars
        => (SemaphoresCount /\ WriterExclusive)'
  BY NextCount
<1> QED  BY <1>1, InitCount, TypeCorrect, PTL DEF Spec

(* A writer works alone, whatever children were killed.                    *)
THEOREM WriterExclusiveHolds == Spec => []WriterExclusive
BY SemaphoresCountHolds, PTL

-----------------------------------------------------------------------------
(* While a writer is between its load and its store nobody stores.         *)
LEMMA NextLoaded ==
  ASSUME TypeOK, WriterExclusive, LoadedStands, [Next]_vars
  PROVE  LoadedStands'
<1> USE RWAssumption DEF TypeOK, Procs, LoadedStands, Goto, At, Running
<1>1. ASSUME NEW w \in Writers, Store(w)
      PROVE  LoadedStands'
  <2>1. \A v \in Writers : pc[v] = "store" => v = w
    BY <1>1 DEF Store, WriterExclusive, Writing
  <2> QED  BY <1>1, <2>1 DEF Store
<1>2. ASSUME NEW w \in Writers, Load(w)
      PROVE  LoadedStands'
  BY <1>2 DEF Load
<1>3. ASSUME UNCHANGED <<counter, tmp>>,
             \A w \in Writers : pc'[w] = "store" => pc[w] = "store"
      PROVE  LoadedStands'
  BY <1>3
<1>4. ASSUME NEW p \in Procs, Test(p) \/ Wake(p) \/ Kill(p) \/ Wait(p)
      PROVE  LoadedStands'
  BY <1>3, <1>4 DEF Test, Wake, Kill, Wait
<1>5. ASSUME NEW p \in Procs, Fork(p)
      PROVE  LoadedStands'
  BY <1>3, <1>5 DEF Fork, Unborn
<1>6. ASSUME NEW r \in Readers, StartRead(r) \/ Read(r) \/ StopRead(r)
      PROVE  LoadedStands'
  BY <1>3, <1>6 DEF StartRead, Read, StopRead
<1>7. ASSUME NEW w \in Writers, StartWrite(w) \/ StopWrite(w)
      PROVE  LoadedStands'
  BY <1>3, <1>7 DEF StartWrite, StopWrite
<1>8. CASE ForkFails \/ Remove \/ UNCHANGED vars
  BY <1>3, <1>8 DEF ForkFails, Remove, vars
<1> QED
  BY <1>1, <1>2, <1>4, <1>5, <1>6, <1>7, <1>8
     DEF Next, ReaderStep, WriterStep, MainStep

(* No increment is lost.                                                   *)
THEOREM LoadedStandsHolds == Spec => []LoadedStands
<1>1. Init => LoadedStands
  BY DEF Init, LoadedStands, Procs
<1>2. TypeOK /\ WriterExclusive /\ LoadedStands /\ [Next]_vars => LoadedStands'
  BY NextLoaded
<1> QED  BY <1>1, <1>2, TypeCorrect, WriterExclusiveHolds, PTL DEF Spec

(* How the counter and the set of committed writers move together: a store *)
(* takes its writer out of the set, and nobody enters it at the limit.     *)
LEMMA CommittedMoves ==
  ASSUME TypeOK, LoadedStands, [Next]_vars
  PROVE  \/ /\ counter' = counter + 1
            /\ \E w \in Committed : Committed' = Committed \ {w}
         \/ /\ counter' = counter
            /\ counter >= Limit => Committed' \subseteq Committed
<1> USE RWAssumption DEF TypeOK, Procs, Committed, Goto, At, Running
<1>1. ASSUME NEW w \in Writers, Store(w)
      PROVE  counter' = counter + 1 /\ w \in Committed /\ Committed' = Committed \ {w}
  BY <1>1 DEF Store, LoadedStands
<1>2. ASSUME NEW p \in Procs, Test(p) \/ Wake(p) \/ Kill(p) \/ Wait(p)
      PROVE  counter' = counter /\ (counter >= Limit => Committed' \subseteq Committed)
  BY <1>2 DEF Test, Wake, Kill, Wait
<1>3. ASSUME NEW p \in Procs, Fork(p)
      PROVE  counter' = counter /\ Committed' \subseteq Committed
  BY <1>3 DEF Fork, Unborn
<1>4. ASSUME NEW r \in Readers, StartRead(r) \/ Read(r) \/ StopRead(r)
      PROVE  counter' = counter /\ Committed' \subseteq Committed
  BY <1>4 DEF StartRead, Read, StopRead
<1>5. ASSUME NEW w \in Writers, StartWrite(w) \/ Load(w) \/ StopWrite(w)
      PROVE  counter' = counter /\ Committed' \subseteq Committed
  BY <1>5 DEF StartWrite, Load, StopWrite
<1>6. ASSUME ForkFails \/ Remove \/ UNCHANGED vars
      PROVE  counter' = counter /\ Committed' \subseteq Committed
  BY <1>6 DEF ForkFails, Remove, vars
<1>7. CASE \E w \in Writers : Store(w)
  BY <1>1, <1>7
<1>8. CASE ~ \E w \in Writers : Store(w)
  <2>1. counter' = counter /\ (counter >= Limit => Committed' \subseteq Committed)
    BY <1>2, <1>3, <1>4, <1>5, <1>6, <1>8 DEF Next, ReaderStep, WriterStep, MainStep
  <2> QED  BY <2>1
<1> QED  BY <1>7, <1>8

LEMMA NextOvershoot ==
  ASSUME TypeOK, LoadedStands, Overshoot, [Next]_vars
  PROVE  Overshoot'
<1> USE RWAssumption DEF TypeOK
<1>w. Cardinality(Writers) \in Nat /\ Committed \subseteq Writers
  BY FS_CardinalityType DEF Committed
<1>f. IsFiniteSet(Committed) /\ Cardinality(Committed) \in Nat
  BY SetsFinite
<1>1. CASE /\ counter' = counter + 1
           /\ \E w \in Committed : Committed' = Committed \ {w}
  <2>1. PICK w \in Committed : Committed' = Committed \ {w}
    BY <1>1
  <2>2. Cardinality(Committed') = Cardinality(Committed) - 1
    BY <2>1, <1>f, FS_RemoveElement
  <2>3. Cardinality(Committed) <= Cardinality(Writers)
    BY <1>w, FS_Subset
  <2> QED  BY <1>1, <1>w, <1>f, <2>2, <2>3 DEF Overshoot
<1>2. CASE /\ counter' = counter
           /\ counter >= Limit => Committed' \subseteq Committed
  <2>1. counter >= Limit => /\ Cardinality(Committed') <= Cardinality(Committed)
                            /\ Cardinality(Committed') \in Nat
    BY <1>2, <1>f, FS_Subset, FS_CardinalityType
  <2> QED  BY <1>2, <1>w, <1>f, <2>1 DEF Overshoot
<1> QED  BY CommittedMoves, <1>1, <1>2

(* The final value exceeds the limit by less than the number of writers.   *)
THEOREM OvershootHolds == Spec => []Overshoot
<1>1. Init => Overshoot
  BY RWAssumption DEF Init, Overshoot
<1>2. TypeOK /\ LoadedStands /\ Overshoot /\ [Next]_vars => Overshoot'
  BY NextOvershoot
<1> QED  BY <1>1, <1>2, TypeCorrect, LoadedStandsHolds, PTL DEF Spec

-----------------------------------------------------------------------------
(* main's bookkeeping of its children. *)
LEMMA NextReaping ==
  ASSUME TypeOK, Reaping, [Next]_vars
  PROVE  Reaping'
<1> USE DEF TypeOK, Goto, At, Running, Procs
<1>1. ASSUME NEW p \in Procs, Wait(p)
      PROVE  Reaping'
  BY <1>1 DEF Wait, Reaping
<1>2. ASSUME NEW p \in Procs, Fork(p)
      PROVE  Reaping'
  BY <1>2 DEF Fork, Unborn, Reaping
<1>3. CASE ForkFails \/ Remove
  BY <1>3 DEF ForkFails, Remove, Reaping
<1>4. ASSUME UNCHANGED <<main, reaped, ipc>>,
             \A p \in Procs : pc[p] = "exit" => pc'[p] = "exit"
      PROVE  Reaping'
  BY <1>4 DEF Reaping
<1>5. ASSUME NEW p \in Procs, Test(p) \/ Wake(p) \/ Kill(p)
      PROVE  Reaping'
  BY <1>4, <1>5 DEF Test, Wake, Kill
<1>6. ASSUME NEW r \in Readers, StartRead(r) \/ Read(r) \/ StopRead(r)
      PROVE  Reaping'
  BY <1>4, <1>6 DEF StartRead, Read, StopRead
<1>7. ASSUME NEW w \in Writers, StartWrite(w) \/ Load(w) \/ Store(w) \/ StopWrite(w)
      PROVE  Reaping'
  BY <1>4, <1>7 DEF StartWrite, Load, Store, StopWrite
<1>8. CASE UNCHANGED vars
  BY <1>4, <1>8 DEF vars
<1> QED
  BY RWAssumption, <1>1, <1>2, <1>3, <1>5, <1>6, <1>7, <1>8
     DEF Next, ReaderStep, WriterStep, MainStep

(* main removes the semaphores after every child has ended by itself.      *)
THEOREM ReapingHolds == Spec => []Reaping
<1>1. Init => Reaping
  BY DEF Init, Reaping
<1>2. TypeOK /\ Reaping /\ [Next]_vars => Reaping'
  BY NextReaping
<1> QED  BY <1>1, <1>2, TypeCorrect, PTL DEF Spec

(* The semaphores are removed after the last child has left: Reaping says  *)
(* that main had waited for all of them by then.                           *)
THEOREM RemovedWhenUnusedHolds == Spec => []RemovedWhenUnused
<1>1. Reaping => RemovedWhenUnused
  BY DEF Reaping, RemovedWhenUnused
<1> QED  BY <1>1, ReapingHolds, PTL

-----------------------------------------------------------------------------
(* Which steps move the counter and the readings. *)
LEMMA DataMoves ==
  ASSUME [Next]_vars
  PROVE  \/ \E w \in Writers : Store(w)
         \/ \E r \in Readers : Read(r)
         \/ UNCHANGED <<counter, seen>>
BY DEF Next, ReaderStep, WriterStep, MainStep, Test, Wake, StartRead, StopRead, StartWrite,
   Load, StopWrite, Kill, Fork, ForkFails, Wait, Remove, vars

(* A reader killed inside stops the counter for good.                      *)
THEOREM DeadReaderBlocksHolds == Spec => DeadReaderBlocks
<1>1. ASSUME WriterExclusive, [Next]_vars, Reading \cap killed # {}
      PROVE  counter' = counter
  <2>1. Writing = {}
    BY <1>1 DEF WriterExclusive
  <2>2. ~ \E w \in Writers : Store(w)
    BY <2>1 DEF Store, At, Writing
  <2> QED  BY <1>1, <2>2, DataMoves DEF Read
<1>2. WriterExclusive /\ [Next]_vars
        => [Reading \cap killed # {} => counter' = counter]_vars
  BY <1>1
<1> QED  BY <1>2, WriterExclusiveHolds, PTL DEF Spec, DeadReaderBlocks

(* What each reader saw is not ahead of the counter, so it never falls.    *)
SeenBehind == \A r \in Readers : seen[r] <= counter

LEMMA NextSeen ==
  ASSUME TypeOK, LoadedStands, SeenBehind, [Next]_vars
  PROVE  SeenBehind' /\ \A r \in Readers : seen'[r] >= seen[r]
<1> USE DEF TypeOK
<1>1. CASE \E w \in Writers : Store(w)
  BY <1>1 DEF Store, At, LoadedStands, SeenBehind
<1>2. CASE \E r \in Readers : Read(r)
  BY <1>2 DEF Read, SeenBehind
<1>3. CASE UNCHANGED <<counter, seen>>
  BY <1>3 DEF SeenBehind
<1> QED  BY DataMoves, <1>1, <1>2, <1>3

(* No reader sees the integer go back.                                     *)
THEOREM SeenNeverFallsHolds == Spec => SeenNeverFalls
<1>1. Init => SeenBehind
  BY DEF Init, SeenBehind
<1>2. TypeOK /\ LoadedStands /\ SeenBehind /\ [Next]_vars => SeenBehind'
  BY NextSeen
<1>3. TypeOK /\ LoadedStands /\ SeenBehind /\ [Next]_vars
        => [\A r \in Readers : seen'[r] >= seen[r]]_vars
  BY NextSeen
<1> QED
  BY <1>1, <1>2, <1>3, TypeCorrect, LoadedStandsHolds, PTL DEF Spec, SeenNeverFalls

(* The program implements the shared counter: whole increments, at most    *)
(* |Writers| - 1 of them beyond the limit, and readers that see the value. *)
THEOREM Refinement == Spec => Implements
<1>1. Init => SC!CInit
  BY DEF Init, SC!CInit
<1>2. TypeOK /\ LoadedStands /\ Overshoot /\ [Next]_vars => [SC!CNext]_(SC!cvars)
  <2> SUFFICES ASSUME TypeOK, LoadedStands, Overshoot, [Next]_vars
               PROVE  [SC!CNext]_(SC!cvars)
    OBVIOUS
  <2> USE RWAssumption DEF TypeOK
  <2>1. ASSUME NEW w \in Writers, Store(w)
        PROVE  SC!Increment
    <3>1. w \in Committed /\ counter' = counter + 1 /\ seen' = seen
      BY <2>1 DEF Store, At, Committed, LoadedStands
    <3>2. Cardinality(Committed) \in Nat \ {0} /\ Cardinality(Writers) \in Nat \ {0}
      BY <2>1, <3>1, SetsFinite, FS_EmptySet, FS_CardinalityType
    <3>3. counter < Limit + Cardinality(Writers) - 1
      <4>1. CASE counter >= Limit
        BY <4>1, <3>2 DEF Overshoot
      <4>2. CASE counter < Limit
        BY <4>2, <3>2
      <4> QED  BY <4>1, <4>2
    <3> QED  BY <3>1, <3>3 DEF SC!Increment
  <2>2. ASSUME NEW r \in Readers, Read(r)
        PROVE  SC!Look(r)
    BY <2>2 DEF Read, SC!Look
  <2> QED  BY DataMoves, <2>1, <2>2 DEF SC!CNext, SC!cvars
<1> QED
  BY <1>1, <1>2, TypeCorrect, LoadedStandsHolds, OvershootHolds, PTL DEF Spec, Implements, SC!CSpec
=============================================================================
