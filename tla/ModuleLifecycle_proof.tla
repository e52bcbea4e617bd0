------------------------ MODULE ModuleLifecycle_proof ------------------------
(***************************************************************************)
(* Proofs about ModuleLifecycle for every number of command lines and of   *)
(* other modules.                                                          *)
(***************************************************************************)
EXTENDS ModuleLifecycle, TLAPS

(* What my_module_exit has still to undo after its first k calls. *)
Left(k) == {Registrations[i] : i \in k + 1 .. 4}

(* Commands run only in a live module; what is registered is what          *)
(* my_module_init has called for and my_module_exit has not yet undone.    *)
Undone ==
  /\ calls \in 0 .. 4
  /\ registered \subseteq Everything
  /\ phase = "init" => calls < 4
  /\ phase # "live" => Idle
  /\ phase = "exit" => registered \subseteq Left(calls)
  /\ phase = "absent" => registered = {}

LEMMA Four == Len(Registrations) = 4 /\ Everything = Left(0) /\ Left(4) = {}
BY DEF Registrations, Everything, Left

(* A call of my_module_exit takes the first of what is left. *)
LEMMA LeftShrinks ==
  ASSUME NEW k \in 0 .. 3
  PROVE  Left(k) \ {Registrations[k + 1]} \subseteq Left(k + 1)
<1>1. ASSUME NEW i \in k + 1 .. 4, i # k + 1
      PROVE  i \in k + 2 .. 4
  BY <1>1
<1> QED  BY <1>1 DEF Left

LEMMA InitUndone == Init => Undone
BY DEF Init, Undone, Idle, Out

(* Steps of insmod, rmmod and of the module's own functions. *)
LEMMA LifeUndone ==
  ASSUME Undone, \/ Insmod \/ Register \/ RegisterFails \/ Rmmod \/ Deregister \/ Free
  PROVE  Undone'
<1>1. CASE Insmod
  BY <1>1 DEF Insmod, Undone, Idle
<1>2. CASE Register
  <2>1. calls \in 0 .. 3 /\ calls' = calls + 1
    BY <1>2 DEF Register, Undone
  <2>2. Registrations[calls + 1] \in Everything
    BY <2>1 DEF Everything
  <2>3. registered' \subseteq Everything
    BY <1>2, <2>2 DEF Register, Undone
  <2>4. phase' \in {"init", "live"} /\ (phase' = "init" => calls' < 4)
    BY <1>2, <2>1, Four DEF Register
  <2>5. Idle'
    BY <1>2 DEF Register, Undone, Idle
  <2> QED  BY <2>1, <2>3, <2>4, <2>5 DEF Undone
<1>3. CASE RegisterFails
  BY <1>3 DEF RegisterFails, Undone, Idle
<1>4. CASE Rmmod
  BY <1>4, Four DEF Rmmod, Undone, Idle
<1>5. CASE Deregister
  <2>1. calls \in 0 .. 3 /\ calls' = calls + 1
    BY <1>5, Four DEF Deregister, Undone
  <2>2. registered' \subseteq Left(calls')
    BY <1>5, <2>1, LeftShrinks DEF Deregister, Undone
  <2> QED  BY <1>5, <2>1, <2>2 DEF Deregister, Undone, Idle
<1>6. CASE Free
  BY <1>6, Four DEF Free, Undone, Idle
<1> QED  BY <1>1, <1>2, <1>3, <1>4, <1>5, <1>6

(* Steps of a command line: only a live module lets one begin. *)
LEMMA RunUndone ==
  ASSUME Undone, NEW c \in Commands, Run(c)
  PROVE  Undone'
<1>1. UNCHANGED life
  BY DEF Run, Test, SavePrev, Delete, SetHidden, Add, SetExposed, Close, Oops, Open, Goto
<1>2. CASE phase = "live"
  BY <1>1, <1>2 DEF life, Undone
<1>3. CASE phase # "live"
  <2>1. command[c].at = "out"
    BY <1>3 DEF Undone, Idle
  <2>2. FALSE
    BY <1>3, <2>1 DEF Run, Test, SavePrev, Delete, SetHidden, Add, SetExposed, Close, Oops,
                      Open, Goto
  <2> QED  BY <2>2
<1> QED  BY <1>2, <1>3

LEMMA NextUndone ==
  ASSUME Undone, [Next]_vars
  PROVE  Undone'
<1>1. ASSUME NEW m \in Others, Load(m) \/ Unload(m)
      PROVE  Undone'
  BY <1>1 DEF Load, Unload, life, Undone, Idle
<1>2. CASE UNCHANGED vars
  BY <1>2 DEF vars, Undone, Idle
<1> QED  BY <1>1, <1>2, LifeUndone, RunUndone DEF Next

(* After a removal the kernel knows none of the module's functions and no  *)
(* process runs one, with any number of command lines and other modules.   *)
THEOREM RemovedClean == Spec => []NothingLeft
<1>1. Undone => NothingLeft
  BY DEF Undone, NothingLeft
<1> QED  BY <1>1, InitUndone, NextUndone, PTL DEF Spec

-----------------------------------------------------------------------------
(* The links of an element lead to an element, or are poisoned. *)
Link == Elements \cup {Poison}
Links == [next : [Elements -> Link], prev : [Elements -> Link]]

LEMMA ExceptIn ==
  ASSUME NEW S, NEW T, NEW f \in [S -> T], NEW a, NEW v \in T
  PROVE  [f EXCEPT ![a] = v] \in [S -> T]
OBVIOUS

LEMMA AddedLinks ==
  ASSUME list \in Links, NEW e \in Elements, NEW p \in Elements
  PROVE  Added(e, p) \in Links
<1> DEFINE n == list.next[p]
<1>1. n \in Link /\ e \in Link /\ p \in Link
  BY DEF Links, Link
<1>2. [list.next EXCEPT ![e] = n, ![p] = e] \in [Elements -> Link]
  BY <1>1 DEF Links
<1>3. [list.prev EXCEPT ![n] = e, ![e] = p] \in [Elements -> Link]
  BY <1>1 DEF Links
<1> QED  BY <1>2, <1>3 DEF Added, Links

LEMMA UnlinkedLinks ==
  ASSUME list \in Links, NEW e \in Elements
  PROVE  Unlinked(e) \in Links
<1>1. list.next[e] \in Link /\ list.prev[e] \in Link
  BY DEF Links
<1>2. [list.next EXCEPT ![list.prev[e]] = list.next[e]] \in [Elements -> Link]
  BY <1>1, ExceptIn DEF Links
<1>3. [list.prev EXCEPT ![list.next[e]] = list.prev[e]] \in [Elements -> Link]
  BY <1>1, ExceptIn DEF Links
<1> QED  BY <1>2, <1>3 DEF Unlinked, Links

LEMMA DeletedLinks ==
  ASSUME list \in Links, NEW e \in Elements
  PROVE  Deleted(e) \in Links /\ DeletedRcu(e) \in Links
<1> DEFINE u == Unlinked(e)
<1>1. u \in Links /\ Poison \in Link
  BY UnlinkedLinks DEF Link
<1> HIDE DEF u
<1>2. u.next \in [Elements -> Link] /\ u.prev \in [Elements -> Link]
  BY <1>1 DEF Links
<1>3. /\ [u.next EXCEPT ![e] = Poison] \in [Elements -> Link]
      /\ [u.prev EXCEPT ![e] = Poison] \in [Elements -> Link]
  BY <1>1, <1>2, ExceptIn
<1>4. [u EXCEPT !.prev[e] = Poison] = [u EXCEPT !.prev = [u.prev EXCEPT ![e] = Poison]]
  OBVIOUS
<1>5. [u EXCEPT !.prev[e] = Poison] \in Links
  BY <1>1, <1>3, <1>4 DEF Links
<1> QED  BY <1>2, <1>3, <1>5 DEF Deleted, DeletedRcu, Links, u

(* The part of the types that is not about the registrations. *)
Types ==
  /\ list \in Links
  /\ loaded \subseteq Others
  /\ phase \in {"absent", "init", "live", "exit", "failed"}
  /\ flag_hidden \in {0, 1}
  /\ module_prev \in Elements \cup {Null, Poison}
  /\ command \in [Commands -> [at : CommandAt, type : {"hide", "unhide"}]]
  /\ together \in BOOLEAN /\ torn \in BOOLEAN

LEMMA InitTypes == Init => Types
<1> SUFFICES ASSUME Init PROVE Types
  OBVIOUS
<1>1. list \in Links
  BY DEF Init, Links, Link, Elements
<1> QED  BY <1>1 DEF Init, Types, Out, CommandAt

(* A command goes from one place to another. *)
LEMMA GotoTypes ==
  ASSUME Types, NEW c \in Commands, NEW from, NEW to \in CommandAt, Goto(c, from, to)
  PROVE  /\ command' \in [Commands -> [at : CommandAt, type : {"hide", "unhide"}]]
         /\ loaded' \subseteq Others
         /\ phase' \in {"absent", "init", "live", "exit", "failed"}
<1>1. command[c] \in [at : CommandAt, type : {"hide", "unhide"}]
  BY DEF Types
<1>2. [command[c] EXCEPT !.at = to] \in [at : CommandAt, type : {"hide", "unhide"}]
  BY <1>1
<1>3. command' = [command EXCEPT ![c] = [command[c] EXCEPT !.at = to]]
  BY DEF Goto
<1>4. command' \in [Commands -> [at : CommandAt, type : {"hide", "unhide"}]]
  BY <1>2, <1>3 DEF Types
<1> QED  BY <1>4 DEF Types, Goto, life

LEMMA RunTypes ==
  ASSUME Types, NEW c \in Commands, Run(c)
  PROVE  Types'
<1>1. command[c] \in [at : CommandAt, type : {"hide", "unhide"}] /\ Self \in Elements
  BY DEF Types, Elements
<1>2. CASE Test(c)
  BY <1>2, GotoTypes DEF Test, Types, own, log, CommandAt
<1>3. CASE SavePrev(c)
  <2>1. module_prev' \in Elements \cup {Null, Poison}
    BY <1>1, <1>3 DEF SavePrev, Types, Links, Link
  <2> QED  BY <1>3, <2>1, GotoTypes DEF SavePrev, Types, log, CommandAt
<1>4. CASE Delete(c)
  <2>1. list' \in Links
    BY <1>1, <1>4, DeletedLinks DEF Delete, Types
  <2> QED  BY <1>4, <2>1, GotoTypes DEF Delete, Types, own, log, CommandAt
<1>5. CASE SetHidden(c)
  BY <1>5, GotoTypes DEF SetHidden, Types, log, CommandAt
<1>6. CASE Add(c)
  <2>1. list' \in Links
    BY <1>1, <1>6, AddedLinks DEF Add, Types
  <2>2. torn' \in BOOLEAN
    BY <1>6 DEF Add
  <2> QED  BY <1>6, <2>1, <2>2, GotoTypes DEF Add, Types, own, CommandAt
<1>7. CASE SetExposed(c)
  BY <1>7, GotoTypes DEF SetExposed, Types, log, CommandAt
<1>8. CASE Close(c)
  BY <1>8, GotoTypes DEF Close, Types, own, log, CommandAt
<1>9. CASE Oops(c)
  <2>1. [command[c] EXCEPT !.at = "out"] \in [at : CommandAt, type : {"hide", "unhide"}]
    BY <1>1 DEF CommandAt
  <2>2. command' = [command EXCEPT ![c] = [command[c] EXCEPT !.at = "out"]]
    BY <1>9 DEF Oops
  <2>3. command' \in [Commands -> [at : CommandAt, type : {"hide", "unhide"}]]
    BY <2>1, <2>2 DEF Types
  <2> QED  BY <1>9, <2>3 DEF Oops, Types, own, log, life
<1>10. ASSUME NEW type \in {"hide", "unhide"}, Open(c, type)
       PROVE  Types'
  <2>1. [at |-> "test", type |-> type] \in [at : CommandAt, type : {"hide", "unhide"}]
    BY DEF CommandAt
  <2>2. command' \in [Commands -> [at : CommandAt, type : {"hide", "unhide"}]]
    BY <1>10, <2>1 DEF Open, Types
  <2>3. together' \in BOOLEAN
    BY <1>10 DEF Open
  <2> QED  BY <1>10, <2>2, <2>3 DEF Open, Types, own, life
<1> QED  BY <1>2, <1>3, <1>4, <1>5, <1>6, <1>7, <1>8, <1>9, <1>10 DEF Run

LEMMA NextTypes ==
  ASSUME Types, [Next]_vars
  PROVE  Types'
<1>1. Self \in Elements /\ Modules \in Elements
  BY DEF Elements
<1>2. ASSUME NEW m \in Others, Load(m)
      PROVE  Types'
  <2>1. m \in Elements
    BY DEF Elements
  <2>2. list' \in Links
    BY <1>1, <1>2, <2>1, AddedLinks DEF Load, Types
  <2> QED  BY <1>2, <2>2 DEF Load, Types, life, own, log
<1>3. ASSUME NEW m \in Others, Unload(m)
      PROVE  Types'
  <2>1. m \in Elements
    BY DEF Elements
  <2>2. list' \in Links
    BY <1>3, <2>1, DeletedLinks DEF Unload, Types
  <2> QED  BY <1>3, <2>2 DEF Unload, Types, life, own, log
<1>4. CASE Insmod
  <2>1. list' \in Links
    BY <1>1, <1>4, AddedLinks DEF Insmod, Types
  <2> QED  BY <1>4, <2>1 DEF Insmod, Types, log
<1>5. CASE Register
  BY <1>5 DEF Register, Types, own, log
<1>6. CASE RegisterFails
  <2>1. list' \in Links
    BY <1>1, <1>6, DeletedLinks DEF RegisterFails, Types
  <2> QED  BY <1>6, <2>1 DEF RegisterFails, Types, own, log
<1>7. CASE Rmmod
  BY <1>7 DEF Rmmod, Types, own, log
<1>8. CASE Deregister
  BY <1>8 DEF Deregister, Types, own, log
<1>9. CASE Free
  <2>1. list' \in Links
    BY <1>1, <1>9, DeletedLinks DEF Free, Types
  <2> QED  BY <1>9, <2>1 DEF Free, Types, own, log
<1>10. CASE UNCHANGED vars
  BY <1>10 DEF vars, Types
<1> QED  BY <1>2, <1>3, <1>4, <1>5, <1>6, <1>7, <1>8, <1>9, <1>10, RunTypes DEF Next

(* The state stays in its types, whatever becomes of the list.             *)
THEOREM TypeCorrect == Spec => []TypeOK
<1>1. Undone /\ Types => TypeOK
  BY Four DEF Undone, Types, TypeOK, Links, Link
<1> QED  BY <1>1, InitUndone, NextUndone, InitTypes, NextTypes, PTL DEF Spec

-----------------------------------------------------------------------------
(* The elements R form one ring through the head: the links lead from      *)
(* element to element, those back are the inverse of those forth, and who  *)
(* follows them from the head meets them all.                              *)
Ring(next, prev, R) ==
  /\ Modules \in R
  /\ \A e \in R : /\ next[e] \in R /\ prev[e] \in R
                  /\ next[prev[e]] = e /\ prev[next[e]] = e
  /\ \A S \in SUBSET R : Modules \in S /\ (\A x \in S : next[x] \in S) => S = R

(* Only the links of the elements of the ring count. *)
LEMMA RingAgrees ==
  ASSUME NEW R, NEW n, NEW p, NEW n2, NEW p2, Ring(n, p, R),
         \A e \in R : n2[e] = n[e] /\ p2[e] = p[e]
  PROVE  Ring(n2, p2, R)
<1>1. ASSUME NEW S \in SUBSET R, Modules \in S, \A x \in S : n2[x] \in S
      PROVE  S = R
  <2>1. \A x \in S : n[x] \in S
    BY <1>1
  <2> QED  BY <1>1, <2>1 DEF Ring
<1>2. \A e \in R : /\ n2[e] \in R /\ p2[e] \in R
                   /\ n2[p2[e]] = e /\ p2[n2[e]] = e
  BY DEF Ring
<1> QED  BY <1>1, <1>2 DEF Ring

(* No element but the head is its own neighbour. *)
LEMMA RingProper ==
  ASSUME NEW R, NEW n, NEW p, Ring(n, p, R), NEW e \in R, e # Modules
  PROVE  n[e] # e /\ p[e] # e
<1>1. ASSUME n[e] = e
      PROVE  FALSE
  <2>1. \A x \in R \ {e} : n[x] \in R \ {e}
    BY <1>1 DEF Ring
  <2>2. Modules \in R \ {e} /\ R \ {e} \in SUBSET R
    BY DEF Ring
  <2>3. R \ {e} = R
    BY <2>1, <2>2 DEF Ring
  <2> QED  BY <2>3
<1>2. p[e] = e => n[e] = e
  BY DEF Ring
<1> QED  BY <1>1, <1>2

(* list_add behind an element of the ring. *)
LEMMA RingAdd ==
  ASSUME NEW R \in SUBSET Elements, NEW n \in [Elements -> Link], NEW p \in [Elements -> Link],
         Ring(n, p, R), NEW e \in Elements \ R, NEW q \in R
  PROVE  Ring([n EXCEPT ![e] = n[q], ![q] = e], [p EXCEPT ![n[q]] = e, ![e] = q], R \cup {e})
<1> DEFINE n2 == [n EXCEPT ![e] = n[q], ![q] = e]
           p2 == [p EXCEPT ![n[q]] = e, ![e] = q]
<1>1. n[q] \in R /\ q \in Elements /\ n[q] \in Elements /\ q # e /\ n[q] # e
  BY DEF Ring
<1>2. /\ n2[e] = n[q] /\ n2[q] = e
      /\ \A x \in R \ {q} : n2[x] = n[x]
  BY <1>1
<1>3. /\ p2[e] = q /\ p2[n[q]] = e
      /\ \A x \in R \ {n[q]} : p2[x] = p[x]
  BY <1>1
<1> HIDE DEF n2, p2
<1>4. \A x \in R \ {q} : n[x] # n[q]
  BY DEF Ring
<1>5. \A x \in R \ {n[q]} : p[x] # q
  BY DEF Ring
<1>6. ASSUME NEW x \in R \cup {e}
      PROVE  /\ n2[x] \in R \cup {e} /\ p2[x] \in R \cup {e}
             /\ n2[p2[x]] = x /\ p2[n2[x]] = x
  <2>1. CASE x = e
    BY <1>1, <1>2, <1>3, <2>1
  <2>2. CASE x \in R
    <3>1. n[x] \in R /\ p[x] \in R /\ n[p[x]] = x /\ p[n[x]] = x
      BY <2>2 DEF Ring
    <3>2. n2[x] \in R \cup {e} /\ p2[n2[x]] = x
      BY <1>1, <1>2, <1>3, <1>4, <2>2, <3>1
    <3>3. p2[x] \in R \cup {e} /\ n2[p2[x]] = x
      BY <1>1, <1>2, <1>3, <1>5, <2>2, <3>1
    <3> QED  BY <3>2, <3>3
  <2> QED  BY <2>1, <2>2
<1>7. ASSUME NEW S \in SUBSET (R \cup {e}), Modules \in S, \A x \in S : n2[x] \in S
      PROVE  S = R \cup {e}
  <2>1. \A x \in S \ {e} : n[x] \in S \ {e}
    <3> SUFFICES ASSUME NEW x \in S \ {e} PROVE n[x] \in S \ {e}
      OBVIOUS
    <3>1. CASE x = q
      BY <1>1, <1>2, <1>7, <3>1
    <3>2. CASE x # q
      <4>1. n2[x] = n[x] /\ n[x] \in R
        BY <1>2, <3>2 DEF Ring
      <4> QED  BY <1>7, <4>1
    <3> QED  BY <3>1, <3>2
  <2>2. Modules \in S \ {e} /\ S \ {e} \in SUBSET R
    BY <1>7 DEF Ring
  <2>3. S \ {e} = R
    BY <2>1, <2>2 DEF Ring
  <2>4. e \in S
    BY <1>2, <1>7, <2>3
  <2> QED  BY <2>3, <2>4
<1>8. Ring(n2, p2, R \cup {e})
  BY <1>6, <1>7 DEF Ring
<1> QED  BY <1>8 DEF n2, p2

(* __list_del_entry of an element of the ring. *)
LEMMA RingDelete ==
  ASSUME NEW R \in SUBSET Elements, NEW n \in [Elements -> Link], NEW p \in [Elements -> Link],
         Ring(n, p, R), NEW e \in R, e # Modules
  PROVE  Ring([n EXCEPT ![p[e]] = n[e]], [p EXCEPT ![n[e]] = p[e]], R \ {e})
<1> DEFINE n2 == [n EXCEPT ![p[e]] = n[e]]
           p2 == [p EXCEPT ![n[e]] = p[e]]
<1>1. n[e] \in R \ {e} /\ p[e] \in R \ {e} /\ n[p[e]] = e /\ p[n[e]] = e
  BY RingProper DEF Ring
<1>2. n2[p[e]] = n[e] /\ \A x \in R \ {p[e]} : n2[x] = n[x]
  BY <1>1
<1>3. p2[n[e]] = p[e] /\ \A x \in R \ {n[e]} : p2[x] = p[x]
  BY <1>1
<1> HIDE DEF n2, p2
<1>4. \A x \in R \ {e} : /\ x # p[e] => n[x] \in R \ {e} /\ n[x] # n[e]
                         /\ x # n[e] => p[x] \in R \ {e} /\ p[x] # p[e]
  BY <1>1 DEF Ring
<1>5. ASSUME NEW x \in R \ {e}
      PROVE  /\ n2[x] \in R \ {e} /\ p2[x] \in R \ {e}
             /\ n2[p2[x]] = x /\ p2[n2[x]] = x
  <2>1. n[x] \in R /\ p[x] \in R /\ n[p[x]] = x /\ p[n[x]] = x
    BY DEF Ring
  <2>2. n2[x] \in R \ {e} /\ p2[n2[x]] = x
    BY <1>1, <1>2, <1>3, <1>4, <2>1
  <2>3. p2[x] \in R \ {e} /\ n2[p2[x]] = x
    BY <1>1, <1>2, <1>3, <1>4, <2>1
  <2> QED  BY <2>2, <2>3
<1>6. ASSUME NEW S \in SUBSET (R \ {e}), Modules \in S, \A x \in S : n2[x] \in S
      PROVE  S = R \ {e}
  <2> DEFINE T == IF p[e] \in S THEN S \cup {e} ELSE S
  <2>1. ASSUME NEW x \in T
        PROVE  n[x] \in T
    <3>1. CASE x = e
      <4>1. p[e] \in S
        BY <1>6, <3>1
      <4> QED  BY <1>2, <1>6, <3>1, <4>1
    <3>2. CASE x = p[e] /\ x # e
      BY <1>1, <3>2
    <3>3. CASE x # p[e] /\ x # e
      BY <1>2, <1>6, <3>3
    <3> QED  BY <3>1, <3>2, <3>3
  <2>2. T \in SUBSET R /\ Modules \in T
    BY <1>6
  <2>3. T = R
    BY <2>1, <2>2 DEF Ring
  <2> QED  BY <1>6, <2>3
<1>7. Ring(n2, p2, R \ {e})
  BY <1>5, <1>6 DEF Ring
<1> QED  BY <1>7 DEF n2, p2

(* What lsmod and rmmod find is the ring without its head. *)
LEMMA RingListed ==
  ASSUME NEW R \in SUBSET Elements, Ring(list.next, list.prev, R)
  PROVE  Listed = R \ {Modules}
<1>1. Poison \notin R
  BY LifecycleAssumption
<1>2. ASSUME NEW e \in Listed
      PROVE  e \in R \ {Modules}
  <2>1. e # Modules
    BY LifecycleAssumption DEF Listed
  <2>2. R \in SUBSET Elements /\ Modules \in R /\ \A x \in R : list.next[x] \in R \cup {Poison}
    BY DEF Ring
  <2> QED  BY <2>1, <2>2 DEF Listed
<1>3. ASSUME NEW e \in R \ {Modules}
      PROVE  e \in Listed
  <2>1. ASSUME NEW S \in SUBSET Elements, Modules \in S,
               \A x \in S : list.next[x] \in S \cup {Poison}
        PROVE  e \in S
    <3>1. \A x \in S \cap R : list.next[x] \in S \cap R
      BY <1>1, <2>1 DEF Ring
    <3>2. Modules \in S \cap R /\ S \cap R \in SUBSET R
      BY <2>1 DEF Ring
    <3>3. S \cap R = R
      BY <3>1, <3>2 DEF Ring
    <3> QED  BY <3>3
  <2> QED  BY <2>1 DEF Listed, Elements
<1> QED  BY <1>2, <1>3


-----------------------------------------------------------------------------
(* Two command lines have not run at a time, and no freed element has been *)
(* put to use.                                                             *)
Quiet == ~together /\ ~torn

(* The modules that should be met in the list. *)
Linked == loaded \cup (IF InList THEN {Self} ELSE {})

(* At most one command line runs, and what it has found of the flag still  *)
(* holds; a module that comes or goes is not hidden; the list is a ring.   *)
Alone == \A c, d \in Commands : command[c].at # "out" /\ command[d].at # "out" => c = d
FlagFits ==
  /\ \A c \in Commands : /\ command[c].at \in {"save", "delete", "set"} => flag_hidden = 0
                         /\ command[c].at \in {"add", "clear"} => flag_hidden = 1
  /\ phase \in {"init", "exit"} => flag_hidden = 0
Whole == Ring(list.next, list.prev, Linked \cup {Modules})
Sound == Alone /\ FlagFits /\ module_prev # Self /\ Whole

LEMMA LinkedElements ==
  ASSUME Types
  PROVE  /\ Linked \cup {Modules} \in SUBSET Elements /\ loaded \in SUBSET Elements
         /\ Self \notin loaded /\ Modules \notin Linked
         /\ list.next \in [Elements -> Link] /\ list.prev \in [Elements -> Link]
BY LifecycleAssumption DEF Types, Linked, Elements, Links

LEMMA InitSound == Init => Sound
<1> SUFFICES ASSUME Init PROVE Sound
  OBVIOUS
<1>1. Linked \cup {Modules} = {Modules}
  BY DEF Init, Linked, InList
<1>2. list.next[Modules] = Modules /\ list.prev[Modules] = Modules
  BY DEF Init, Elements
<1>3. Ring(list.next, list.prev, {Modules})
  BY <1>2 DEF Ring
<1>4. Whole
  BY <1>1, <1>3 DEF Whole
<1>5. module_prev # Self
  BY LifecycleAssumption DEF Init, Elements
<1> QED  BY <1>4, <1>5 DEF Init, Sound, Alone, FlagFits, Out

(* A step that leaves the list and who should be in it alone. *)
LEMMA WholeStays ==
  ASSUME Whole, UNCHANGED list, Linked' = Linked
  PROVE  Whole'
BY DEF Whole

(* The three ways the list changes. *)
LEMMA WholeAdds ==
  ASSUME Types, Whole, NEW e \in Elements \ (Linked \cup {Modules}),
         NEW q \in Linked \cup {Modules}, list' = Added(e, q), Linked' = Linked \cup {e}
  PROVE  Whole'
<1> DEFINE R == Linked \cup {Modules}
<1>1. Ring([list.next EXCEPT ![e] = list.next[q], ![q] = e],
           [list.prev EXCEPT ![list.next[q]] = e, ![e] = q], R \cup {e})
  BY LinkedElements, RingAdd DEF Whole
<1>2. /\ list'.next = [list.next EXCEPT ![e] = list.next[q], ![q] = e]
      /\ list'.prev = [list.prev EXCEPT ![list.next[q]] = e, ![e] = q]
  BY DEF Added
<1>3. (Linked \cup {Modules})' = R \cup {e}
  OBVIOUS
<1> QED  BY <1>1, <1>2, <1>3 DEF Whole

LEMMA WholeDeletes ==
  ASSUME Types, Whole, NEW e \in Linked, list' \in {Deleted(e), DeletedRcu(e)},
         Linked' = Linked \ {e}
  PROVE  Whole'
<1> DEFINE R == Linked \cup {Modules}
           n == [list.next EXCEPT ![list.prev[e]] = list.next[e]]
           p == [list.prev EXCEPT ![list.next[e]] = list.prev[e]]
<1>1. e # Modules /\ R \in SUBSET Elements
  BY LinkedElements
<1>2. Ring(n, p, R \ {e})
  BY <1>1, LinkedElements, RingDelete DEF Whole
<1>3. n \in [Elements -> Link] /\ p \in [Elements -> Link]
  BY <1>1, LinkedElements, ExceptIn DEF Whole, Ring
<1>4. \A x \in R \ {e} : list'.next[x] = n[x] /\ list'.prev[x] = p[x]
  <2>1. Unlinked(e).next = n /\ Unlinked(e).prev = p
    BY DEF Unlinked
  <2>2. CASE list' = Deleted(e)
    <3>1. list'.next = [n EXCEPT ![e] = Poison] /\ list'.prev = [p EXCEPT ![e] = Poison]
      BY <2>1, <2>2 DEF Deleted
    <3> HIDE DEF n, p
    <3> QED  BY <1>1, <1>3, <3>1
  <2>3. CASE list' = DeletedRcu(e)
    <3>1. Unlinked(e) = [next |-> n, prev |-> p]
      BY DEF Unlinked
    <3> HIDE DEF n, p
    <3>2. list' = [[next |-> n, prev |-> p] EXCEPT !.prev[e] = Poison]
      BY <2>3, <3>1 DEF DeletedRcu
    <3>3. list'.next = n /\ list'.prev = [p EXCEPT ![e] = Poison]
      BY <3>2
    <3> QED  BY <1>1, <1>3, <3>3
  <2> QED  BY <2>2, <2>3
<1> HIDE DEF n, p
<1>5. Ring(list'.next, list'.prev, R \ {e})
  BY <1>2, <1>4, RingAgrees
<1>6. (Linked \cup {Modules})' = R \ {e}
  BY <1>1
<1> QED  BY <1>5, <1>6 DEF Whole

-----------------------------------------------------------------------------
(* Only command lines look at module_prev and flag_hidden or at the log.   *)
LEMMA IdleSound ==
  ASSUME Types, Undone, Sound,
         \/ \E m \in Others : Load(m) \/ Unload(m)
         \/ Insmod \/ Register \/ RegisterFails \/ Rmmod \/ Deregister \/ Free
  PROVE  Sound'
<1>0. /\ Modules \in Elements /\ Self \in Elements /\ Self # Modules
      /\ Linked \cup {Modules} \in SUBSET Elements /\ Self \notin loaded /\ Modules \notin Linked
  BY LinkedElements, LifecycleAssumption DEF Elements
<1>1. command' = command /\ Alone'
  BY DEF Load, Unload, Insmod, Register, RegisterFails, Rmmod, Deregister, Free, Sound, Alone
<1>2. ASSUME NEW m \in Others, Load(m)
      PROVE  Sound'
  <2>1. m \in Elements \ (Linked \cup {Modules}) /\ Modules \in Linked \cup {Modules}
    BY <1>0, <1>2, LifecycleAssumption DEF Load, Linked, Elements
  <2>2. InList' = InList
    BY <1>2 DEF Load, life, own, InList, At
  <2>3. Linked' = Linked \cup {m}
    BY <1>2, <2>2 DEF Load, Linked
  <2>4. Whole'
    BY <1>2, <2>1, <2>3, WholeAdds DEF Load, Sound
  <2> QED  BY <1>1, <1>2, <2>4 DEF Load, Sound, FlagFits, life, own
<1>3. ASSUME NEW m \in Others, Unload(m)
      PROVE  Sound'
  <2>1. m \in Linked
    BY <1>3 DEF Unload, Linked
  <2>2. InList' = InList
    BY <1>3 DEF Unload, life, own, InList, At
  <2>3. Linked' = Linked \ {m}
    BY <1>3, <2>2, LifecycleAssumption DEF Unload, Linked
  <2>4. Whole'
    BY <1>3, <2>1, <2>3, WholeDeletes DEF Unload, Sound
  <2> QED  BY <1>1, <1>3, <2>4 DEF Unload, Sound, FlagFits, life, own
<1>4. CASE Insmod
  <2>1. ~InList /\ InList' /\ Idle
    BY <1>4 DEF Insmod, InList, At, Undone, Idle
  <2>2. Self \in Elements \ (Linked \cup {Modules}) /\ Modules \in Linked \cup {Modules}
    BY <1>0, <2>1 DEF Linked
  <2>3. Linked' = Linked \cup {Self}
    BY <1>4, <2>1 DEF Insmod, Linked
  <2>4. Whole'
    BY <1>4, <2>2, <2>3, WholeAdds DEF Insmod, Sound
  <2>5. FlagFits' /\ module_prev' # Self
    BY <1>4, <2>1, LifecycleAssumption DEF Insmod, FlagFits, Idle, Elements
  <2> QED  BY <1>1, <2>4, <2>5 DEF Sound
<1>5. CASE Register
  <2>1. Idle /\ flag_hidden = 0 /\ flag_hidden' = 0 /\ phase' \in {"init", "live"}
    BY <1>5 DEF Register, Undone, Sound, FlagFits, own
  <2>2. InList /\ InList'
    BY <1>1, <1>5, <2>1 DEF Register, InList, At, Idle
  <2>3. Whole'
    BY <1>5, <2>2, WholeStays DEF Register, Linked, Sound
  <2>4. FlagFits'
    BY <1>1, <2>1 DEF FlagFits, Idle
  <2> QED  BY <1>1, <1>5, <2>3, <2>4 DEF Register, Sound, own
<1>6. CASE RegisterFails
  <2>1. Idle /\ flag_hidden = 0 /\ flag_hidden' = 0 /\ phase' = "failed"
    BY <1>6 DEF RegisterFails, Undone, Sound, FlagFits, own
  <2>2. InList /\ ~InList'
    BY <1>1, <1>6, <2>1 DEF RegisterFails, InList, At, Idle
  <2>3. Self \in Linked /\ Linked' = Linked \ {Self}
    BY <1>0, <1>6, <2>2 DEF RegisterFails, Linked
  <2>4. Whole'
    BY <1>6, <2>3, WholeDeletes DEF RegisterFails, Sound
  <2>5. FlagFits'
    BY <1>1, <2>1 DEF FlagFits, Idle
  <2> QED  BY <1>1, <1>6, <2>4, <2>5 DEF RegisterFails, Sound, own
<1>7. CASE Rmmod
  <2>1. Self \in Linked
    BY <1>0, <1>7, RingListed DEF Rmmod, Sound, Whole
  <2>2. InList
    BY <1>0, <2>1 DEF Linked
  <2>3. flag_hidden = 0 /\ flag_hidden' = 0 /\ InList'
    BY <1>1, <1>7, <2>2 DEF Rmmod, InList, At, own
  <2>4. Whole'
    BY <1>7, <2>2, <2>3, WholeStays DEF Rmmod, Linked, Sound
  <2> QED  BY <1>1, <1>7, <2>3, <2>4 DEF Rmmod, Sound, FlagFits, own
<1>8. CASE Deregister
  <2>1. InList' = InList
    BY <1>8 DEF Deregister, InList, At, own
  <2>2. Whole'
    BY <1>8, <2>1, WholeStays DEF Deregister, Linked, Sound
  <2> QED  BY <1>1, <1>8, <2>2 DEF Deregister, Sound, FlagFits, own
<1>9. CASE Free
  <2>1. Idle /\ flag_hidden = 0 /\ flag_hidden' = 0 /\ phase' = "absent"
    BY <1>9 DEF Free, Undone, Sound, FlagFits, own
  <2>2. InList /\ ~InList'
    BY <1>1, <1>9, <2>1 DEF Free, InList, At, Idle
  <2>3. Self \in Linked /\ Linked' = Linked \ {Self}
    BY <1>0, <1>9, <2>2 DEF Free, Linked
  <2>4. Whole'
    BY <1>9, <2>3, WholeDeletes DEF Free, Sound
  <2>5. FlagFits'
    BY <1>1, <2>1 DEF FlagFits, Idle
  <2> QED  BY <1>1, <1>9, <2>4, <2>5 DEF Free, Sound, own
<1> QED  BY <1>2, <1>3, <1>4, <1>5, <1>6, <1>7, <1>8, <1>9


(* A command line that goes from one place to another is the only one.     *)
LEMMA OneMoves ==
  ASSUME Types, Undone, Sound, NEW c \in Commands, NEW from, NEW to,
         Goto(c, from, to), from # "out"
  PROVE  /\ command[c].at = from /\ command'[c].at = to
         /\ \A d \in Commands \ {c} : command[d].at = "out" /\ command'[d].at = "out"
         /\ phase = "live" /\ phase' = "live" /\ loaded' = loaded
         /\ Alone'
<1>1. command[c] \in [at : CommandAt, type : {"hide", "unhide"}]
  BY DEF Types
<1>2. command[c].at = from /\ command'[c].at = to
  BY <1>1 DEF Goto, Types
<1>3. \A d \in Commands \ {c} : command[d].at = "out" /\ command'[d].at = "out"
  BY <1>2 DEF Goto, Sound, Alone, Types
<1>4. phase = "live" /\ phase' = "live" /\ loaded' = loaded
  BY <1>2 DEF Goto, Undone, Idle, life
<1> QED  BY <1>2, <1>3, <1>4 DEF Alone

LEMMA RunSound ==
  ASSUME Types, Undone, Sound, NEW c \in Commands, Run(c), Quiet'
  PROVE  Sound'
<1> USE DEF FlagFits
<1>0. /\ Modules \in Elements /\ Self \in Elements /\ Self # Modules
      /\ Linked \cup {Modules} \in SUBSET Elements /\ Self \notin loaded /\ Modules \notin Linked
  BY LinkedElements, LifecycleAssumption DEF Elements
<1>1. CASE Test(c)
  <2> DEFINE to == CASE command[c].type = "hide" /\ flag_hidden = 0 -> "save"
                     [] command[c].type = "unhide" /\ flag_hidden = 1 -> "add"
                     [] OTHER -> "close"
  <2>1. Goto(c, "test", to) /\ UNCHANGED <<list, own>>
    BY <1>1 DEF Test
  <2>2. /\ to \in {"save", "add", "close"}
        /\ to = "save" => flag_hidden = 0
        /\ to = "add" => flag_hidden = 1
    OBVIOUS
  <2> HIDE DEF to
  <2>3. /\ command[c].at = "test" /\ command'[c].at = to
        /\ \A d \in Commands \ {c} : command[d].at = "out" /\ command'[d].at = "out"
        /\ phase = "live" /\ phase' = "live" /\ loaded' = loaded
        /\ Alone'
    BY <2>1, OneMoves
  <2>4. InList' = InList
    BY <2>1, <2>2, <2>3 DEF InList, At, own
  <2>5. Whole'
    BY <2>1, <2>3, <2>4, WholeStays DEF Sound, Linked
  <2> QED  BY <2>1, <2>2, <2>3, <2>5 DEF Sound, own
<1>2. CASE SavePrev(c)
  <2>1. /\ command[c].at = "save" /\ command'[c].at = "delete"
        /\ \A d \in Commands \ {c} : command[d].at = "out" /\ command'[d].at = "out"
        /\ phase = "live" /\ phase' = "live" /\ loaded' = loaded
        /\ Alone'
    BY <1>2, OneMoves DEF SavePrev
  <2>2. flag_hidden = 0 /\ flag_hidden' = 0 /\ list' = list
    BY <1>2, <2>1 DEF SavePrev, Sound
  <2>3. InList /\ InList'
    BY <2>1, <2>2 DEF InList, At
  <2>4. Whole'
    BY <2>1, <2>2, <2>3, WholeStays DEF Sound, Linked
  <2>5. Self \in Linked \cup {Modules}
    BY <2>3 DEF Linked
  <2>6. module_prev' # Self
    BY <1>0, <1>2, <2>5, RingProper DEF SavePrev, Sound, Whole
  <2> QED  BY <2>1, <2>2, <2>4, <2>6 DEF Sound
<1>3. CASE Delete(c)
  <2>1. /\ command[c].at = "delete" /\ command'[c].at = "set"
        /\ \A d \in Commands \ {c} : command[d].at = "out" /\ command'[d].at = "out"
        /\ phase = "live" /\ phase' = "live" /\ loaded' = loaded
        /\ Alone'
    BY <1>3, OneMoves DEF Delete
  <2>2. flag_hidden = 0 /\ UNCHANGED <<flag_hidden, module_prev>> /\ list' = Deleted(Self)
    BY <1>3, <2>1 DEF Delete, Sound, own
  <2>3. InList /\ ~InList'
    BY <2>1, <2>2 DEF InList, At
  <2>4. Self \in Linked /\ Linked' = Linked \ {Self}
    BY <1>0, <2>1, <2>3 DEF Linked
  <2>5. Whole'
    BY <2>2, <2>4, WholeDeletes DEF Sound
  <2> QED  BY <2>1, <2>2, <2>5 DEF Sound
<1>4. CASE SetHidden(c)
  <2>1. /\ command[c].at = "set" /\ command'[c].at = "close"
        /\ \A d \in Commands \ {c} : command[d].at = "out" /\ command'[d].at = "out"
        /\ phase = "live" /\ phase' = "live" /\ loaded' = loaded
        /\ Alone'
    BY <1>4, OneMoves DEF SetHidden
  <2>2. flag_hidden' = 1 /\ UNCHANGED <<list, module_prev>>
    BY <1>4 DEF SetHidden
  <2>3. ~InList /\ ~InList'
    BY <2>1, <2>2 DEF InList, At
  <2>4. Whole'
    BY <2>1, <2>2, <2>3, WholeStays DEF Sound, Linked
  <2> QED  BY <2>1, <2>2, <2>4 DEF Sound
<1>5. CASE Add(c)
  <2>1. /\ command[c].at = "add" /\ command'[c].at = "clear"
        /\ \A d \in Commands \ {c} : command[d].at = "out" /\ command'[d].at = "out"
        /\ phase = "live" /\ phase' = "live" /\ loaded' = loaded
        /\ Alone'
    BY <1>5, OneMoves DEF Add
  <2>2. /\ flag_hidden = 1 /\ UNCHANGED <<flag_hidden, module_prev>>
        /\ list' = Added(Self, module_prev)
    BY <1>5, <2>1 DEF Add, Sound, own
  <2>3. module_prev \in Linked \cup {Modules}
    <3>1. ~Gone(module_prev) /\ module_prev \in Elements /\ module_prev # Self
      BY <1>5 DEF Add, Quiet, Sound
    <3> QED  BY <3>1 DEF Gone, Linked, Elements
  <2>4. ~InList /\ InList'
    BY <2>1, <2>2 DEF InList, At
  <2>5. Self \in Elements \ (Linked \cup {Modules}) /\ Linked' = Linked \cup {Self}
    BY <1>0, <2>1, <2>4 DEF Linked
  <2>6. Whole'
    BY <2>2, <2>3, <2>5, WholeAdds DEF Sound
  <2> QED  BY <2>1, <2>2, <2>6 DEF Sound
<1>6. CASE SetExposed(c)
  <2>1. /\ command[c].at = "clear" /\ command'[c].at = "close"
        /\ \A d \in Commands \ {c} : command[d].at = "out" /\ command'[d].at = "out"
        /\ phase = "live" /\ phase' = "live" /\ loaded' = loaded
        /\ Alone'
    BY <1>6, OneMoves DEF SetExposed
  <2>2. flag_hidden' = 0 /\ UNCHANGED <<list, module_prev>>
    BY <1>6 DEF SetExposed
  <2>3. InList /\ InList'
    BY <2>1, <2>2 DEF InList, At
  <2>4. Whole'
    BY <2>1, <2>2, <2>3, WholeStays DEF Sound, Linked
  <2> QED  BY <2>1, <2>2, <2>4 DEF Sound
<1>7. CASE Close(c)
  <2>1. /\ command[c].at = "close" /\ command'[c].at = "out"
        /\ \A d \in Commands \ {c} : command[d].at = "out" /\ command'[d].at = "out"
        /\ phase = "live" /\ phase' = "live" /\ loaded' = loaded
        /\ Alone'
    BY <1>7, OneMoves DEF Close
  <2>2. UNCHANGED <<list, flag_hidden, module_prev>>
    BY <1>7 DEF Close, own
  <2>3. InList' = InList
    BY <2>1, <2>2 DEF InList, At
  <2>4. Whole'
    BY <2>1, <2>2, <2>3, WholeStays DEF Sound, Linked
  <2> QED  BY <2>1, <2>2, <2>4 DEF Sound
<1>8. CASE Oops(c)
  <2>1. /\ command[c].at \in {"delete", "add"} /\ command'[c].at = "out"
        /\ \A d \in Commands \ {c} : command[d].at = "out" /\ command'[d].at = "out"
        /\ UNCHANGED <<list, flag_hidden, module_prev, phase, loaded>>
    <3>1. command[c] \in [at : CommandAt, type : {"hide", "unhide"}]
      BY DEF Types
    <3> QED  BY <1>8, <3>1 DEF Oops, own, life, Sound, Alone, Types
  <2>2. InList' = InList
    BY <2>1 DEF InList, At
  <2>3. Whole'
    BY <2>1, <2>2, WholeStays DEF Sound, Linked
  <2> QED  BY <2>1, <2>3 DEF Sound, Alone
<1>9. ASSUME NEW type \in {"hide", "unhide"}, Open(c, type)
      PROVE  Sound'
  <2>1. /\ command'[c].at = "test"
        /\ \A d \in Commands : command[d].at = "out"
        /\ \A d \in Commands \ {c} : command'[d].at = "out"
        /\ UNCHANGED <<list, flag_hidden, module_prev, phase, loaded>>
    BY <1>9 DEF Open, own, life, Quiet, Types
  <2>2. InList' = InList
    BY <2>1 DEF InList, At
  <2>3. Whole'
    BY <2>1, <2>2, WholeStays DEF Sound, Linked
  <2> QED  BY <2>1, <2>3 DEF Sound, Alone
<1> QED  BY <1>1, <1>2, <1>3, <1>4, <1>5, <1>6, <1>7, <1>8, <1>9 DEF Run

LEMMA NextSound ==
  ASSUME Types, Undone, Quiet => Sound, [Next]_vars
  PROVE  (Quiet => Sound)'
<1> SUFFICES ASSUME Quiet' PROVE Sound'
  OBVIOUS
<1>1. CASE UNCHANGED vars
  <2>1. Quiet /\ UNCHANGED <<list, Linked>>
    BY <1>1 DEF vars, Quiet, Linked, InList, At
  <2>2. Whole'
    BY <2>1, WholeStays DEF Sound
  <2> QED  BY <1>1, <2>1, <2>2 DEF vars, Sound, Alone, FlagFits
<1>2. ASSUME NEW c \in Commands, Run(c)
      PROVE  Sound'
  <2>1. Quiet
    <3>1. CASE Add(c)
      BY <3>1 DEF Add, Quiet
    <3>2. ASSUME NEW type \in {"hide", "unhide"}, Open(c, type)
          PROVE  Quiet
      BY <3>2 DEF Open, Quiet
    <3>3. CASE UNCHANGED log
      BY <3>3 DEF log, Quiet
    <3> QED  BY <1>2, <3>1, <3>2, <3>3
             DEF Run, Test, SavePrev, Delete, SetHidden, SetExposed, Close, Oops
  <2> QED  BY <1>2, <2>1, RunSound
<1>3. CASE \/ \E m \in Others : Load(m) \/ Unload(m)
           \/ Insmod \/ Register \/ RegisterFails \/ Rmmod \/ Deregister \/ Free
  <2>1. Quiet
    BY <1>3 DEF Quiet, Load, Unload, Insmod, Register, RegisterFails, Rmmod, Deregister,
                Free, log
  <2> QED  BY <1>3, <2>1, IdleSound
<1> QED  BY <1>1, <1>2, <1>3 DEF Next

LEMMA QuietSound == Spec => [](Types /\ Undone /\ (Quiet => Sound))
<1>1. Init => Types /\ Undone /\ (Quiet => Sound)
  BY InitUndone, InitTypes, InitSound
<1>2. Types /\ Undone /\ (Quiet => Sound) /\ [Next]_vars
        => (Types /\ Undone /\ (Quiet => Sound))'
  BY NextUndone, NextTypes, NextSound
<1> QED  BY <1>1, <1>2, PTL DEF Spec

(* The list is whole, however many modules come and go while this one      *)
(* hides and shows itself.                                                 *)
THEOREM ListSoundHolds == Spec => []ListSound
<1>1. Types /\ (Quiet => Sound) => ListSound
  <2> SUFFICES ASSUME Types, Sound, Quiet PROVE ListSound
    BY DEF ListSound, Quiet
  <2>1. Listed = Linked
    BY LinkedElements, RingListed DEF Sound, Whole
  <2>2. \A e \in Linked \cup {Modules} : list.prev[list.next[e]] = e
    BY DEF Sound, Whole, Ring
  <2> QED  BY <2>1, <2>2 DEF ListSound, Linked
<1> QED  BY <1>1, QuietSound, PTL

(* No rmmod removes the hidden module: it is not in the list.              *)
THEOREM HiddenStaysHolds == Spec => HiddenStays
<1>1. Types /\ Undone /\ (Quiet => Sound) /\ [Next]_vars
        => [flag_hidden = 1 /\ phase = "live" /\ ~together /\ ~torn => phase' = "live"]_vars
  <2> SUFFICES ASSUME Types, Undone, Sound, Quiet, flag_hidden = 1, phase = "live", [Next]_vars
               PROVE  phase' = "live"
    BY DEF Quiet
  <2>1. ~Rmmod
    <3> SUFFICES ASSUME Rmmod PROVE FALSE
      OBVIOUS
    <3>1. Self \in Linked
      BY LinkedElements, RingListed DEF Rmmod, Sound, Whole
    <3>2. InList
      BY <3>1, LinkedElements DEF Linked
    <3> QED  BY <3>2 DEF Rmmod, InList, At
  <2>2. ASSUME NEW c \in Commands, Run(c)
        PROVE  phase' = phase
    BY <2>2 DEF Run, Test, SavePrev, Delete, SetHidden, Add, SetExposed, Close, Oops, Open,
                Goto, life
  <2>3. ASSUME NEW m \in Others, Load(m) \/ Unload(m)
        PROVE  phase' = phase
    BY <2>3 DEF Load, Unload, life
  <2>4. CASE UNCHANGED vars
    BY <2>4 DEF vars
  <2> QED  BY <2>1, <2>2, <2>3, <2>4 DEF Next, Insmod, Register, RegisterFails, Deregister, Free
<1> QED  BY <1>1, QuietSound, PTL DEF Spec, HiddenStays
=============================================================================
