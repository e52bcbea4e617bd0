----------------------- MODULE ProducerConsumer_proof -----------------------
(***************************************************************************)
(* Proofs about ProducerConsumer for every number of producers, consumers, *)
(* rounds and cells, with any children killed at any moment.               *)
(***************************************************************************)
EXTENDS ProducerConsumer, FiniteSetTheorems, TLAPS

(* The actions grouped as the proofs treat them. *)
LEMMA StepCases ==
  ASSUME [Next]_vars
  PROVE  \/ \E p \in Producers : ProducerBegin(p) \/ ProducerEnd(p)
         \/ \E c \in Consumers : ConsumerBegin(c) \/ ConsumerEnd(c)
         \/ \E p \in Producers : ProducerLoad(p) \/ ProducerStore(p)
         \/ \E c \in Consumers : ConsumerLoad(c) \/ ConsumerStore(c)
         \/ \E p \in Procs : Kill(p) \/ Fork(p) \/ Wait(p)
         \/ ForkFails \/ Remove
         \/ UNCHANGED vars
BY PCAssumption DEF Next, ProducerStep, ConsumerStep, MainStep, Procs

-----------------------------------------------------------------------------
LEMMA InitType == Init => TypeOK
BY PCAssumption DEF Init, TypeOK, FULL, BIN, EMPTY

LEMMA NextType ==
  ASSUME TypeOK, [Next]_vars
  PROVE  TypeOK'
<1> USE PCAssumption DEF TypeOK
<1>1. ASSUME NEW p \in Procs, NEW s \in {FULL, EMPTY}, Begin(p, s)
      PROVE  TypeOK'
  BY <1>1 DEF Begin, FULL, BIN, EMPTY
<1>2. ASSUME NEW p \in Procs, NEW s \in {FULL, EMPTY}, End(p, s)
      PROVE  TypeOK'
  BY <1>2 DEF End, FULL, BIN, EMPTY
<1>3. ASSUME NEW p \in Producers, ProducerLoad(p) \/ ProducerStore(p)
      PROVE  TypeOK'
  BY <1>3 DEF ProducerLoad, ProducerStore, Procs
<1>4. ASSUME NEW c \in Consumers, ConsumerLoad(c) \/ ConsumerStore(c)
      PROVE  TypeOK'
  BY <1>4 DEF ConsumerLoad, ConsumerStore, Procs
<1>5. ASSUME NEW p \in Procs, Kill(p) \/ Fork(p) \/ Wait(p)
      PROVE  TypeOK'
  <2>1. CASE Kill(p)
    BY <2>1 DEF Kill
  <2>2. CASE Fork(p)
    BY <2>2 DEF Fork, Unborn
  <2>3. CASE Wait(p)
    BY <2>3 DEF Wait
  <2> QED  BY <1>5, <2>1, <2>2, <2>3
<1>6. CASE ForkFails \/ Remove
  BY <1>6 DEF ForkFails, Remove
<1>7. CASE UNCHANGED vars
  BY <1>7 DEF vars
<1> QED
  BY StepCases, <1>1, <1>2, <1>3, <1>4, <1>5, <1>6, <1>7
     DEF ProducerBegin, ProducerEnd, ConsumerBegin, ConsumerEnd, Procs

(* Every state is well typed: all pointers and semaphores stay natural     *)
(* numbers, and a child that has not ended has a round left.               *)
THEOREM TypeCorrect == Spec => []TypeOK
<1>1. Init => TypeOK
  BY InitType
<1>2. TypeOK /\ [Next]_vars => TypeOK'
  BY NextType
<1> QED  BY <1>1, <1>2, PTL DEF Spec

-----------------------------------------------------------------------------
(* The semaphores.  A begin finds BIN at 1, so nobody is inside; an end    *)
(* gives its unit back while its child is the only one inside.             *)
LEMMA InitAccount == Init => SemaphoresAccount
BY PCAssumption DEF Init, SemaphoresAccount, Counters, Unread, InCS, Procs, FULL, BIN, EMPTY

LEMMA BeginAccount ==
  ASSUME TypeOK, SemaphoresAccount,
         \/ \E p \in Producers : ProducerBegin(p)
         \/ \E c \in Consumers : ConsumerBegin(c)
  PROVE  SemaphoresAccount'
<1>1. PICK p \in Procs :
                      \/ p \in Producers /\ Begin(p, EMPTY)
                      \/ p \in Consumers /\ Begin(p, FULL)
  BY DEF ProducerBegin, ConsumerBegin, Procs
<1> USE PCAssumption DEF TypeOK, FULL, BIN, EMPTY
<1>2. /\ sem[BIN] = 1 /\ sem'[BIN] = 0 /\ InCS = {}
      /\ UNCHANGED <<cptr, pptr, tmp>>
      /\ pc' = [pc EXCEPT ![p] = "load"]
      /\ Counters(Unread, Cells - Unread)
  <2>1. /\ sem[BIN] >= 1 /\ sem'[BIN] = sem[BIN] - 1
        /\ UNCHANGED <<cptr, pptr, tmp>>
        /\ pc' = [pc EXCEPT ![p] = "load"]
    BY <1>1 DEF Begin
  <2>2. InCS = {}
    BY <2>1 DEF SemaphoresAccount
  <2> QED  BY <2>1, <2>2 DEF SemaphoresAccount
<1>3. InCS' = {p}
  BY <1>2 DEF InCS
<1>4. CASE p \in Producers /\ Begin(p, EMPTY)
  <2>1. Counters(Unread, Cells - Unread - 1)'
    BY <1>2, <1>4 DEF Begin, Counters, Unread
  <2>2. \A q \in Procs : q # p => pc'[q] \notin {"load", "store", "leave"}
    BY <1>2 DEF InCS
  <2>3. p \notin Consumers /\ pc'[p] = "load"
    BY <1>2, <1>4
  <2> QED  BY <1>2, <1>3, <2>1, <2>2, <2>3 DEF SemaphoresAccount, Procs
<1>5. CASE p \in Consumers /\ Begin(p, FULL)
  <2>1. Counters(Unread - 1, Cells - Unread)'
    BY <1>2, <1>5 DEF Begin, Counters, Unread
  <2>2. \A q \in Procs : q # p => pc'[q] \notin {"load", "store", "leave"}
    BY <1>2 DEF InCS
  <2>3. p \notin Producers /\ pc'[p] = "load"
    BY <1>2, <1>5
  <2> QED  BY <1>2, <1>3, <2>1, <2>2, <2>3 DEF SemaphoresAccount, Procs
<1> QED  BY <1>1, <1>4, <1>5

LEMMA EndAccount ==
  ASSUME TypeOK, SemaphoresAccount,
         \/ \E p \in Producers : ProducerEnd(p)
         \/ \E c \in Consumers : ConsumerEnd(c)
  PROVE  SemaphoresAccount'
<1>1. PICK p \in Procs :
                      \/ p \in Producers /\ End(p, FULL)
                      \/ p \in Consumers /\ End(p, EMPTY)
  BY DEF ProducerEnd, ConsumerEnd, Procs
<1> USE PCAssumption DEF TypeOK, FULL, BIN, EMPTY
<1>2. /\ InCS = {p} /\ sem[BIN] = 0 /\ sem'[BIN] = 1
      /\ UNCHANGED <<cptr, pptr, tmp>>
  <2>1. /\ p \in InCS /\ sem'[BIN] = sem[BIN] + 1
        /\ UNCHANGED <<cptr, pptr, tmp>>
    BY <1>1 DEF End, InCS
  <2>2. \A q \in InCS : q = p
    BY <2>1 DEF SemaphoresAccount
  <2>3. sem[BIN] = 0
    BY <2>1 DEF SemaphoresAccount
  <2> QED  BY <2>1, <2>2, <2>3
<1>3. InCS' = {}
  BY <1>1, <1>2 DEF End, InCS
<1>4. Counters(Unread, Cells - Unread)'
  <2>1. CASE p \in Producers /\ End(p, FULL)
    BY <2>1, <1>2 DEF End, SemaphoresAccount, Counters, Unread
  <2>2. CASE p \in Consumers /\ End(p, EMPTY)
    BY <2>2, <1>2 DEF End, SemaphoresAccount, Counters, Unread
  <2> QED  BY <1>1, <2>1, <2>2
<1> QED  BY <1>2, <1>3, <1>4 DEF SemaphoresAccount, InCS, Procs

LEMMA AccessAccount ==
  ASSUME TypeOK, SemaphoresAccount,
         \/ \E p \in Producers : ProducerLoad(p) \/ ProducerStore(p)
         \/ \E c \in Consumers : ConsumerLoad(c) \/ ConsumerStore(c)
  PROVE  SemaphoresAccount'
<1> USE PCAssumption DEF TypeOK, FULL, BIN, EMPTY
<1>1. ASSUME NEW p \in Producers, ProducerLoad(p)
      PROVE  SemaphoresAccount'
  BY <1>1 DEF ProducerLoad, SemaphoresAccount, Counters, Unread, InCS, Procs
<1>2. ASSUME NEW p \in Producers, ProducerStore(p)
      PROVE  SemaphoresAccount'
  BY <1>2 DEF ProducerStore, SemaphoresAccount, Counters, Unread, InCS, Procs
<1>3. ASSUME NEW c \in Consumers, ConsumerLoad(c)
      PROVE  SemaphoresAccount'
  BY <1>3 DEF ConsumerLoad, SemaphoresAccount, Counters, Unread, InCS, Procs
<1>4. ASSUME NEW c \in Consumers, ConsumerStore(c)
      PROVE  SemaphoresAccount'
  BY <1>4 DEF ConsumerStore, SemaphoresAccount, Counters, Unread, InCS, Procs
<1> QED  BY <1>1, <1>2, <1>3, <1>4

LEMMA OtherAccount ==
  ASSUME TypeOK, SemaphoresAccount,
         \/ \E p \in Procs : Kill(p) \/ Fork(p) \/ Wait(p)
         \/ ForkFails \/ Remove \/ UNCHANGED vars
  PROVE  SemaphoresAccount'
<1>1. UNCHANGED <<sem, cptr, pptr, tmp>>
  BY DEF Kill, Fork, Wait, ForkFails, Remove, vars
<1>2. \A p \in Procs : \/ pc'[p] = pc[p]
                       \/ {pc[p], pc'[p]} \subseteq {"unborn", "sleep"}
  BY DEF Kill, Fork, Wait, ForkFails, Remove, vars, Unborn, TypeOK
<1>3. InCS' = InCS
  BY <1>2 DEF InCS
<1>4. \A p \in Procs : pc'[p] \in {"load", "store", "leave"} => pc'[p] = pc[p]
  BY <1>2
<1> QED  BY <1>1, <1>3, <1>4 DEF SemaphoresAccount, Counters, Unread, Procs

LEMMA NextAccount ==
  ASSUME TypeOK, SemaphoresAccount, [Next]_vars
  PROVE  SemaphoresAccount'
BY StepCases, BeginAccount, EndAccount, AccessAccount, OtherAccount

(* Semaphores and pointers agree at every point of every child.            *)
THEOREM AccountCorrect == Spec => []SemaphoresAccount
<1>1. Init => SemaphoresAccount
  BY InitAccount
<1>2. TypeOK /\ SemaphoresAccount /\ [Next]_vars => SemaphoresAccount'
  BY NextAccount
<1> QED  BY <1>1, <1>2, TypeCorrect, PTL DEF Spec

(* At most one child is inside, and the buffer is within its bounds: both  *)
(* read off the accounts.                                                  *)
THEOREM MutualExclusionHolds == Spec => []MutualExclusion
<1>1. SemaphoresAccount => MutualExclusion
  BY DEF SemaphoresAccount, MutualExclusion
<1> QED  BY <1>1, AccountCorrect, PTL

LEMMA AccountBounds ==
  ASSUME TypeOK, SemaphoresAccount
  PROVE  BufferBounds
<1> USE PCAssumption DEF TypeOK, FULL, BIN, EMPTY
<1>1. CASE InCS = {}
  BY <1>1 DEF SemaphoresAccount, Counters, Unread, BufferBounds
<1>2. CASE InCS # {}
  <2>1. PICK p \in Procs : pc[p] \in {"load", "store", "leave"}
    BY <1>2 DEF InCS
  <2> QED  BY <2>1 DEF SemaphoresAccount, Counters, Unread, BufferBounds, Procs
<1> QED  BY <1>1, <1>2

(* The buffer neither overflows its cells nor is read ahead of the writers.*)
THEOREM BufferBoundsHold == Spec => []BufferBounds
BY AccountBounds, AccountCorrect, TypeCorrect, PTL

(* A producer prints the letter it wrote: nobody moves pptr in between.    *)
THEOREM PrintsOwnLetterHolds == Spec => []PrintsOwnLetter
<1>1. SemaphoresAccount => PrintsOwnLetter
  BY DEF SemaphoresAccount, PrintsOwnLetter
<1> QED  BY <1>1, AccountCorrect, PTL

-----------------------------------------------------------------------------
(* The consumers' shares.                                                  *)
LEMMA InitShares == Init => EachLetterOnce
<1> SUFFICES ASSUME Init PROVE EachLetterOnce
  OBVIOUS
<1>1. 0 .. cptr - 1 = {}
  BY DEF Init
<1>2. \A c \in Consumers : got[c] = {}
  BY DEF Init
<1> QED  BY <1>1, <1>2 DEF EachLetterOnce

LEMMA NextShares ==
  ASSUME TypeOK, SemaphoresAccount, EachLetterOnce, [Next]_vars
  PROVE  EachLetterOnce'
<1>1. CASE UNCHANGED <<cptr, got>>
  BY <1>1 DEF EachLetterOnce
<1>2. ASSUME NEW c \in Consumers, ConsumerStore(c)
      PROVE  EachLetterOnce'
  <2>1. /\ tmp[c] = cptr /\ cptr \in Nat /\ cptr' = cptr + 1
        /\ got' = [got EXCEPT ![c] = @ \cup {cptr}]
    BY <1>2 DEF ConsumerStore, SemaphoresAccount, TypeOK
  <2>2. \A d \in Consumers : got'[d] = IF d = c THEN got[d] \cup {cptr} ELSE got[d]
    BY <2>1 DEF TypeOK
  <2>3. \A d \in Consumers : cptr \notin got[d]
    BY <2>1 DEF EachLetterOnce
  <2>4. UNION {got'[d] : d \in Consumers} = (UNION {got[d] : d \in Consumers}) \cup {cptr}
    <3>1. ASSUME NEW d \in Consumers, NEW x \in got'[d]
          PROVE  x \in (UNION {got[e] : e \in Consumers}) \cup {cptr}
      BY <2>2
    <3>2. ASSUME NEW d \in Consumers, NEW x \in got[d]
          PROVE  x \in UNION {got'[e] : e \in Consumers}
      BY <2>2
    <3>3. cptr \in UNION {got'[e] : e \in Consumers}
      BY <2>2
    <3> QED  BY <3>1, <3>2, <3>3
  <2>5. 0 .. cptr' - 1 = (0 .. cptr - 1) \cup {cptr}
    BY <2>1
  <2>6. \A d, e \in Consumers : d # e => got'[d] \cap got'[e] = {}
    BY <2>2, <2>3 DEF EachLetterOnce
  <2>7. UNION {got'[d] : d \in Consumers} = 0 .. cptr' - 1
    BY <2>4, <2>5 DEF EachLetterOnce
  <2> QED  BY <2>6, <2>7 DEF EachLetterOnce
<1>3. UNCHANGED <<cptr, got>> \/ \E c \in Consumers : ConsumerStore(c)
  BY StepCases DEF ProducerBegin, ProducerEnd, ConsumerBegin, ConsumerEnd, Begin, End,
     ProducerLoad, ProducerStore, ConsumerLoad, Kill, Fork, Wait, ForkFails, Remove, vars
<1> QED  BY <1>1, <1>2, <1>3

(* Every letter is consumed once, by one consumer, in order.               *)
THEOREM EachLetterOnceHolds == Spec => []EachLetterOnce
<1>1. TypeOK /\ SemaphoresAccount /\ EachLetterOnce /\ [Next]_vars => EachLetterOnce'
  BY NextShares
<1> QED  BY <1>1, InitShares, TypeCorrect, AccountCorrect, PTL DEF Spec

-----------------------------------------------------------------------------
(* main.                                                                   *)
LEMMA NextReaping ==
  ASSUME TypeOK, Reaping, [Next]_vars
  PROVE  Reaping'
<1>1. ASSUME NEW p \in Procs, Kill(p)
      PROVE  Reaping'
  BY <1>1 DEF Kill, Reaping
<1>2. ASSUME NEW p \in Procs, Fork(p)
      PROVE  Reaping'
  BY <1>2 DEF Fork, Unborn, Reaping, TypeOK
<1>3. ASSUME NEW p \in Procs, Wait(p)
      PROVE  Reaping'
  BY <1>3 DEF Wait, Reaping, TypeOK
<1>4. CASE ForkFails \/ Remove
  BY <1>4 DEF ForkFails, Remove, Reaping
<1>5. ASSUME UNCHANGED <<main, reaped, ipc>>,
             \A p \in Procs : pc[p] = "exit" => pc'[p] = "exit"
      PROVE  Reaping'
  BY <1>5 DEF Reaping, TypeOK
<1>6. ASSUME NEW p \in Procs, NEW s, Begin(p, s) \/ End(p, s)
      PROVE  Reaping'
  BY <1>5, <1>6 DEF Begin, End, TypeOK
<1>7. ASSUME NEW p \in Producers, ProducerLoad(p) \/ ProducerStore(p)
      PROVE  Reaping'
  BY <1>5, <1>7 DEF ProducerLoad, ProducerStore, TypeOK, Procs
<1>8. ASSUME NEW c \in Consumers, ConsumerLoad(c) \/ ConsumerStore(c)
      PROVE  Reaping'
  BY <1>5, <1>8 DEF ConsumerLoad, ConsumerStore, TypeOK, Procs
<1>9. CASE UNCHANGED vars
  BY <1>9 DEF vars, Reaping
<1> QED
  BY StepCases, <1>1, <1>2, <1>3, <1>4, <1>6, <1>7, <1>8, <1>9
     DEF ProducerBegin, ProducerEnd, ConsumerBegin, ConsumerEnd, Procs

(* main removes its semaphores only after it has waited for every child,   *)
(* and goes on only while every child it has waited for ended by itself.   *)
THEOREM ReapingHolds == Spec => []Reaping
<1>1. Init => Reaping
  BY DEF Init, Reaping
<1>2. TypeOK /\ Reaping /\ [Next]_vars => Reaping'
  BY NextReaping
<1> QED  BY <1>1, <1>2, TypeCorrect, PTL DEF Spec

-----------------------------------------------------------------------------
(* The letters that the children of S have written or read so far, each    *)
(* counted by its child and its round: a pointer is their number.          *)
Stored(p) == IF pc[p] = "leave" THEN round[p] + 1 ELSE round[p]
Letters(S) == {x \in S \X (0 .. Items - 1) : x[2] < Stored(x[1])}
Work ==
  /\ \A p \in Procs : pc[p] = "exit" => round[p] = Items
  /\ pptr = Cardinality(Letters(Producers)) /\ cptr = Cardinality(Letters(Consumers))

LEMMA LettersFinite ==
  ASSUME NEW S, IsFiniteSet(S)
  PROVE  IsFiniteSet(Letters(S)) /\ IsFiniteSet(S \X (0 .. Items - 1))
         /\ Cardinality(S \X (0 .. Items - 1)) = Cardinality(S) * Items
<1>1. /\ IsFiniteSet(0 .. Items - 1) /\ Cardinality(0 .. Items - 1) = Items
  BY FS_Interval, PCAssumption
<1>2. /\ IsFiniteSet(S \X (0 .. Items - 1))
      /\ Cardinality(S \X (0 .. Items - 1)) = Cardinality(S) * Items
  BY <1>1, FS_Product
<1>3. Letters(S) \in SUBSET (S \X (0 .. Items - 1))
  BY DEF Letters
<1> QED  BY <1>2, <1>3, FS_Subset

(* A store adds the letter of its child's round. *)
LEMMA LettersGrow ==
  ASSUME TypeOK, NEW S, S \subseteq Procs, IsFiniteSet(S), NEW p \in S,
         pc[p] = "store", pc' = [pc EXCEPT ![p] = "leave"], UNCHANGED round
  PROVE  Cardinality(Letters(S)') = Cardinality(Letters(S)) + 1
<1> DEFINE x == <<p, round[p]>>
<1>1. round[p] \in 0 .. Items - 1
  BY PCAssumption DEF TypeOK
<1>2. x \in S \X (0 .. Items - 1) /\ x[1] = p /\ x[2] = round[p]
  BY <1>1
<1>3. x \notin Letters(S)
  BY <1>1, <1>2 DEF Letters, Stored
<1>4. \A q \in S : Stored(q)' = IF q = p THEN round[p] + 1 ELSE Stored(q)
  BY DEF TypeOK, Stored
<1>5. ASSUME NEW y \in S \X (0 .. Items - 1)
      PROVE  y \in Letters(S)' <=> y \in Letters(S) \/ y = x
  <2>1. y[1] \in S /\ y[2] \in Nat /\ y = <<y[1], y[2]>> /\ Stored(p) = round[p] /\ round[p] \in Nat
    BY <1>1, <1>5 DEF Stored
  <2>2. CASE y[1] = p
    <3>1. y[2] < round[p] + 1 <=> y[2] < round[p] \/ y[2] = round[p]
      BY <2>1
    <3> QED  BY <1>4, <1>5, <2>1, <2>2, <3>1 DEF Letters
  <2>3. CASE y[1] # p
    BY <1>4, <1>5, <2>1, <2>3 DEF Letters
  <2> QED  BY <2>2, <2>3
<1> HIDE DEF x
<1>6. Letters(S)' = Letters(S) \cup {x}
  <2>1. Letters(S)' \subseteq S \X (0 .. Items - 1) /\ Letters(S) \subseteq S \X (0 .. Items - 1)
    BY DEF Letters
  <2> QED  BY <1>2, <1>5, <2>1
<1> QED  BY <1>3, <1>6, LettersFinite, FS_AddElement

LEMMA LettersStay ==
  ASSUME NEW S, \A q \in S : Stored(q)' = Stored(q)
  PROVE  Letters(S)' = Letters(S)
BY DEF Letters

LEMMA InitWork == Init => Work
<1> SUFFICES ASSUME Init PROVE Work
  OBVIOUS
<1>1. ASSUME NEW S, S \subseteq Procs
      PROVE  Letters(S) = {}
  <2>1. \A q \in S : Stored(q) = 0
    BY <1>1 DEF Init, Stored
  <2> QED  BY <2>1 DEF Letters
<1>2. Letters(Producers) = {} /\ Letters(Consumers) = {}
  BY <1>1 DEF Procs
<1> QED  BY <1>2, FS_EmptySet DEF Init, Work

LEMMA NextWork ==
  ASSUME TypeOK, SemaphoresAccount, Work, [Next]_vars
  PROVE  Work'
<1>0. /\ Producers \subseteq Procs /\ Consumers \subseteq Procs /\ Producers \cap Consumers = {}
      /\ IsFiniteSet(Producers) /\ IsFiniteSet(Consumers)
  BY PCAssumption DEF Procs
<1>1. ASSUME UNCHANGED <<pptr, cptr>>, \A q \in Procs : Stored(q)' = Stored(q),
             \A q \in Procs : pc'[q] = "exit" => round'[q] = Items
      PROVE  Work'
  <2>1. Letters(Producers)' = Letters(Producers) /\ Letters(Consumers)' = Letters(Consumers)
    BY <1>0, <1>1, LettersStay
  <2> QED  BY <1>1, <2>1 DEF Work
<1>2. ASSUME NEW p \in Procs, NEW s, Begin(p, s)
      PROVE  Work'
  <2>1. UNCHANGED <<pptr, cptr, round>> /\ pc[p] = "sleep" /\ pc' = [pc EXCEPT ![p] = "load"]
    BY <1>2 DEF Begin
  <2>2. \A q \in Procs : Stored(q)' = Stored(q) /\ (pc'[q] = "exit" => pc[q] = "exit")
    BY <2>1 DEF Stored, TypeOK
  <2> QED  BY <1>1, <2>1, <2>2 DEF Work
<1>3. ASSUME NEW p \in Procs, NEW s, End(p, s)
      PROVE  Work'
  <2>1. /\ UNCHANGED <<pptr, cptr>> /\ pc[p] = "leave" /\ round' = [round EXCEPT ![p] = @ + 1]
        /\ pc' = [pc EXCEPT ![p] = IF round[p] + 1 < Items THEN "sleep" ELSE "exit"]
    BY <1>3 DEF End
  <2>2. round[p] \in Nat /\ round[p] < Items /\ Items \in Nat
    BY <2>1, PCAssumption DEF TypeOK
  <2>3. \A q \in Procs : Stored(q)' = Stored(q)
    BY <2>1, <2>2 DEF Stored, TypeOK
  <2>4. \A q \in Procs : pc'[q] = "exit" => round'[q] = Items
    BY <2>1, <2>2 DEF Work, TypeOK
  <2> QED  BY <1>1, <2>1, <2>3, <2>4
<1>4. ASSUME NEW p \in Procs, UNCHANGED round, pc[p] = "store", pc' = [pc EXCEPT ![p] = "leave"]
      PROVE  \A q \in Procs : /\ pc'[q] = "exit" => round'[q] = Items
                              /\ q # p => Stored(q)' = Stored(q)
  BY <1>4 DEF Work, TypeOK, Stored
<1>5. ASSUME NEW p \in Producers, ProducerStore(p)
      PROVE  Work'
  <2>1. /\ UNCHANGED <<round, cptr>> /\ pc[p] = "store" /\ pc' = [pc EXCEPT ![p] = "leave"]
        /\ pptr' = pptr + 1
    BY <1>5 DEF ProducerStore, SemaphoresAccount
  <2>2. Cardinality(Letters(Producers)') = Cardinality(Letters(Producers)) + 1
    BY <1>0, <2>1, LettersGrow
  <2>3. Letters(Consumers)' = Letters(Consumers)
    BY <1>0, <1>4, <2>1, LettersStay
  <2> QED  BY <1>0, <1>4, <2>1, <2>2, <2>3 DEF Work
<1>6. ASSUME NEW c \in Consumers, ConsumerStore(c)
      PROVE  Work'
  <2>1. /\ UNCHANGED <<round, pptr>> /\ pc[c] = "store" /\ pc' = [pc EXCEPT ![c] = "leave"]
        /\ cptr' = cptr + 1
    BY <1>6 DEF ConsumerStore, SemaphoresAccount
  <2>2. Cardinality(Letters(Consumers)') = Cardinality(Letters(Consumers)) + 1
    BY <1>0, <2>1, LettersGrow
  <2>3. Letters(Producers)' = Letters(Producers)
    BY <1>0, <1>4, <2>1, LettersStay
  <2> QED  BY <1>0, <1>4, <2>1, <2>2, <2>3 DEF Work
<1>7. ASSUME UNCHANGED <<pptr, cptr, round>>,
             \A q \in Procs : \/ pc'[q] = pc[q]
                              \/ {pc[q], pc'[q]} \cap {"leave", "exit"} = {}
      PROVE  Work'
  BY <1>1, <1>7 DEF Work, Stored
<1>8. CASE \/ \E p \in Producers : ProducerLoad(p)
           \/ \E c \in Consumers : ConsumerLoad(c)
           \/ \E p \in Procs : Kill(p) \/ Fork(p) \/ Wait(p)
           \/ ForkFails \/ Remove \/ UNCHANGED vars
  <2>1. UNCHANGED <<pptr, cptr, round>>
    BY <1>8 DEF ProducerLoad, ConsumerLoad, Kill, Fork, Wait, ForkFails, Remove, vars
  <2>2. \A q \in Procs : \/ pc'[q] = pc[q]
                         \/ {pc[q], pc'[q]} \cap {"leave", "exit"} = {}
    BY <1>0, <1>8 DEF ProducerLoad, ConsumerLoad, Kill, Fork, Wait, ForkFails, Remove, vars, Unborn, TypeOK
  <2> QED  BY <1>7, <2>1, <2>2
<1> QED
  BY StepCases, <1>0, <1>2, <1>3, <1>5, <1>6, <1>8
     DEF ProducerBegin, ProducerEnd, ConsumerBegin, ConsumerEnd

(* Each pointer counts what its children have done, whoever is killed.     *)
THEOREM WorkCounted == Spec => []Work
<1>1. TypeOK /\ SemaphoresAccount /\ Work /\ [Next]_vars => Work'
  BY NextWork
<1> QED  BY <1>1, InitWork, TypeCorrect, AccountCorrect, PTL DEF Spec

(* What main leaves behind has a cause. *)
Caused == main = "failed" => Unborn # {} \/ reaped \cap killed # {}

LEMMA NextCaused ==
  ASSUME TypeOK, Caused, [Next]_vars
  PROVE  Caused'
<1>1. CASE ForkFails
  BY <1>1 DEF ForkFails, Caused, Unborn
<1>2. ASSUME NEW p \in Procs, Wait(p)
      PROVE  Caused'
  BY <1>2 DEF Wait, Caused
<1>3. ASSUME UNCHANGED main, killed \subseteq killed', UNCHANGED reaped,
             main = "failed" => \A q \in Procs : pc[q] = "unborn" => pc'[q] = "unborn"
      PROVE  Caused'
  BY <1>3 DEF Caused, Unborn
<1>4. ASSUME NEW p \in Procs, Kill(p)
      PROVE  Caused'
  BY <1>3, <1>4 DEF Kill
<1>5. ASSUME NEW p \in Procs, Fork(p)
      PROVE  Caused'
  BY <1>5 DEF Fork, Caused
<1>6. CASE Remove
  BY <1>6 DEF Remove, Caused
<1>7. ASSUME NEW p \in Procs, NEW s, Begin(p, s) \/ End(p, s)
      PROVE  Caused'
  BY <1>3, <1>7 DEF Begin, End, TypeOK
<1>8. ASSUME NEW p \in Producers, ProducerLoad(p) \/ ProducerStore(p)
      PROVE  Caused'
  BY <1>3, <1>8 DEF ProducerLoad, ProducerStore, TypeOK, Procs
<1>9. ASSUME NEW c \in Consumers, ConsumerLoad(c) \/ ConsumerStore(c)
      PROVE  Caused'
  BY <1>3, <1>9 DEF ConsumerLoad, ConsumerStore, TypeOK, Procs
<1>10. CASE UNCHANGED vars
  BY <1>3, <1>10 DEF vars
<1> QED
  BY StepCases, <1>1, <1>2, <1>4, <1>5, <1>6, <1>7, <1>8, <1>9, <1>10
     DEF ProducerBegin, ProducerEnd, ConsumerBegin, ConsumerEnd, Procs

(* main removes its IPC objects after everybody has done all its work, and *)
(* leaves them behind only after a failed fork or a killed child.          *)
THEOREM RemovedAfterUseHolds == Spec => []RemovedAfterUse
<1>1. ASSUME TypeOK, Reaping, Work, Caused
      PROVE  RemovedAfterUse
  <2>1. ASSUME ipc = "removed"
        PROVE  \A p \in Procs : pc[p] = "exit" /\ round[p] = Items
    BY <1>1, <2>1 DEF Reaping, Work
  <2>2. ASSUME ipc = "removed", NEW S, S \subseteq Procs, IsFiniteSet(S)
        PROVE  Cardinality(Letters(S)) = Cardinality(S) * Items
    <3>1. \A q \in S : Stored(q) = Items
      BY <2>1, <2>2 DEF Stored
    <3>2. Letters(S) = S \X (0 .. Items - 1)
      BY <3>1, PCAssumption DEF Letters
    <3> QED  BY <2>2, <3>2, LettersFinite
  <2>3. Producers \subseteq Procs /\ Consumers \subseteq Procs
    BY DEF Procs
  <2>4. ipc = "removed" => /\ pptr = Cardinality(Producers) * Items
                           /\ cptr = Cardinality(Consumers) * Items
    BY <1>1, <2>2, <2>3, PCAssumption DEF Work
  <2> QED  BY <1>1, <2>1, <2>4 DEF RemovedAfterUse, Caused
<1>2. Init => Caused
  BY DEF Init, Caused
<1>3. TypeOK /\ Caused /\ [Next]_vars => Caused'
  BY NextCaused
<1> QED  BY <1>1, <1>2, <1>3, TypeCorrect, ReapingHolds, WorkCounted, PTL DEF Spec

-----------------------------------------------------------------------------
(* A child killed inside keeps everybody out for good: BIN stays 0.        *)
THEOREM DeadHolderBlocksHolds == Spec => DeadHolderBlocks
<1>1. ASSUME TypeOK, SemaphoresAccount, [Next]_vars, InCS \cap killed # {}
      PROVE  InCS' \subseteq InCS
  <2> USE <1>1 DEF TypeOK
  <2>1. sem[BIN] = 0
    BY DEF SemaphoresAccount
  <2>2. ASSUME NEW q \in Procs, pc'[q] \in {"load", "store", "leave"},
               pc[q] \notin {"load", "store", "leave"}
        PROVE  FALSE
    <3>1. \E s \in {FULL, EMPTY} : Begin(q, s)
      BY <2>2, StepCases DEF ProducerBegin, ProducerEnd, ConsumerBegin, ConsumerEnd, Begin,
         End, ProducerLoad, ProducerStore, ConsumerLoad, ConsumerStore, Kill, Fork, Wait,
         ForkFails, Remove, vars, Procs
    <3> QED  BY <3>1, <2>1 DEF Begin
  <2> QED  BY <2>2 DEF InCS
<1>2. TypeOK /\ SemaphoresAccount /\ [Next]_vars
        => [InCS \cap killed # {} => InCS' \subseteq InCS]_vars
  BY <1>1
<1> QED  BY <1>2, TypeCorrect, AccountCorrect, PTL DEF Spec, DeadHolderBlocks

(* The program implements the abstract buffer, killed children included.   *)
THEOREM Refinement == Spec => Implements
<1>1. Init => BB!BInit
  BY DEF Init, BB!BInit
<1>2. TypeOK /\ SemaphoresAccount /\ [Next]_vars => [BB!BNext]_(BB!bvars)
  <2> SUFFICES ASSUME TypeOK, SemaphoresAccount, [Next]_vars
               PROVE  [BB!BNext]_(BB!bvars)
    OBVIOUS
  <2> USE PCAssumption DEF TypeOK
  <2>1. ASSUME NEW p \in Producers, ProducerStore(p)
        PROVE  BB!Put
    <3>1. Counters(Unread, Cells - Unread - 1) /\ tmp[p] = pptr
      BY <2>1 DEF ProducerStore, SemaphoresAccount
    <3>2. pptr - cptr < Cells
      BY <3>1 DEF Counters, Unread, EMPTY, FULL, BIN
    <3> QED  BY <2>1, <3>1, <3>2 DEF ProducerStore, BB!Put
  <2>2. ASSUME NEW c \in Consumers, ConsumerStore(c)
        PROVE  BB!Get(c)
    <3>1. Counters(Unread - 1, Cells - Unread) /\ tmp[c] = cptr
      BY <2>2 DEF ConsumerStore, SemaphoresAccount
    <3>2. cptr < pptr
      BY <3>1 DEF Counters, Unread, EMPTY, FULL, BIN
    <3> QED  BY <2>2, <3>1, <3>2 DEF ConsumerStore, BB!Get
  <2>3. \/ UNCHANGED <<cptr, pptr, got>>
        \/ \E p \in Producers : ProducerStore(p)
        \/ \E c \in Consumers : ConsumerStore(c)
    BY StepCases DEF ProducerBegin, ProducerEnd, ConsumerBegin, ConsumerEnd, Begin, End,
       ProducerLoad, ConsumerLoad, Kill, Fork, Wait, ForkFails, Remove, vars
  <2> QED  BY <2>1, <2>2, <2>3 DEF BB!BNext, BB!bvars
<1> QED  BY <1>1, <1>2, TypeCorrect, AccountCorrect, PTL DEF Spec, Implements, BB!BSpec
=============================================================================
