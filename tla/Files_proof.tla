----------------------------- MODULE Files_proof ----------------------------
(***************************************************************************)
(* Proofs about MyFs for every number of mount points and every length of  *)
(* inode_pointers, and about OpenFiles for every text, every buffer and    *)
(* every number of letters written.                                        *)
(***************************************************************************)
EXTENDS MyFs, OpenFiles, SequenceTheorems, TLAPS

Places == [at : MountAt, index : Nat, private : Objects \cup {Null}]

Types ==
  /\ phase \in {"absent", "init", "live", "exit", "failed"}
  /\ registered \in BOOLEAN
  /\ inode_pointers \in [0 .. MAX_CACHE_SIZE - 1 -> Objects \cup {Null, Garbage}]
  /\ cached_count \in Nat
  /\ slab \subseteq Objects
  /\ mount \in [Mounters -> Places]
  /\ freed \in Nat
  /\ overlap \in BOOLEAN /\ lacked \in BOOLEAN
  /\ corrupt \in {"no", "overrun", "free", "put", "null"}

(* While mounts have not overlapped one mounter at most is in              *)
(* cache_get_inode, and the count stands where that one's step says.       *)
Alone ==
  ~overlap =>
    /\ cached_count <= MAX_CACHE_SIZE
    /\ \A m, n \in Mounters : Inside(m) /\ Inside(n) => m = n
    /\ \A m \in Mounters :
         /\ mount[m].at = "bump" => cached_count < MAX_CACHE_SIZE
         /\ mount[m].at = "store" => cached_count = mount[m].index /\ mount[m].index < MAX_CACHE_SIZE
         /\ mount[m].at = "alloc" => cached_count = mount[m].index + 1

(* Where mounts cannot be, there are none. *)
Quiet == phase \in {"absent", "exit"} => \A m \in Mounters : mount[m].at = "out"

-----------------------------------------------------------------------------
LEMMA InitAlone == Init => Types /\ Alone /\ Quiet
<1> SUFFICES ASSUME Init PROVE Types /\ Alone /\ Quiet
  OBVIOUS
<1> USE MyFsAssumption DEF Init, Unmounted
<1>1. mount \in [Mounters -> Places]
  BY DEF Places, MountAt
<1>2. inode_pointers \in [0 .. MAX_CACHE_SIZE - 1 -> Objects \cup {Null, Garbage}]
  OBVIOUS
<1>3. Types
  BY <1>1, <1>2 DEF Types
<1>4. \A m \in Mounters : mount[m].at = "out"
  OBVIOUS
<1> QED  BY <1>3, <1>4 DEF Alone, Quiet, Inside

(* A mounter moves to a place and no other one does. *)
LEMMA MoveMoves ==
  ASSUME Types, NEW m \in Mounters, NEW from, NEW p \in Places, Move(m, from, p)
  PROVE  /\ mount' \in [Mounters -> Places]
         /\ mount'[m] = p
         /\ \A n \in Mounters : n # m => mount'[n] = mount[n]
         /\ phase \in {"init", "live"} /\ UNCHANGED <<phase, registered, freed>>
         /\ mount[m].at = from
BY DEF Types, Move, module

LEMMA PlaceAt ==
  ASSUME NEW p \in Places, NEW here \in MountAt, NEW i \in Nat, NEW o \in Objects \cup {Null}
  PROVE  /\ [p EXCEPT !.at = here] \in Places
         /\ [p EXCEPT !.at = here, !.index = i] \in Places
         /\ [p EXCEPT !.at = here, !.private = o] \in Places
         /\ [p EXCEPT !.at = here].at = here
         /\ [p EXCEPT !.at = here].index = p.index
         /\ [p EXCEPT !.at = here].private = p.private
         /\ [p EXCEPT !.at = here, !.index = i].at = here
         /\ [p EXCEPT !.at = here, !.index = i].index = i
         /\ [p EXCEPT !.at = here, !.index = i].private = p.private
         /\ [p EXCEPT !.at = here, !.private = o].at = here
         /\ [p EXCEPT !.at = here, !.private = o].index = p.index
         /\ [p EXCEPT !.at = here, !.private = o].private = o
BY DEF Places

(* What a step of a mounter does to its own place and to those of others. *)
LEMMA MountMoves ==
  ASSUME Types, NEW m \in Mounters, MountStep(m)
  PROVE  /\ mount' \in [Mounters -> Places]
         /\ \A n \in Mounters : n # m => mount'[n] = mount[n]
         /\ phase \in {"init", "live"} /\ UNCHANGED <<phase, registered, freed>>
<1> DEFINE Done == /\ mount' \in [Mounters -> Places]
                   /\ \A n \in Mounters : n # m => mount'[n] = mount[n]
                   /\ phase \in {"init", "live"} /\ UNCHANGED <<phase, registered, freed>>
<1>0. mount[m] \in Places /\ cached_count \in Nat
  BY DEF Types
<1>a. ASSUME NEW from, NEW p \in Places, Move(m, from, p)
      PROVE  Done
  BY <1>a, MoveMoves
<1>u. Unmounted \in Places /\ [Unmounted EXCEPT !.at = "check"] \in Places
  BY DEF Unmounted, Places, MountAt
<1>at. {"out", "check", "bump", "store", "alloc", "root", "mounted"} \subseteq MountAt /\ 0 \in Nat
  BY DEF MountAt
<1> HIDE DEF Done
<1>1. Mount(m) => Done
  BY <1>a, <1>u DEF Mount
<1>2. Check(m) => Done
  <2>1. [mount[m] EXCEPT !.at = IF cached_count = MAX_CACHE_SIZE THEN "root" ELSE "bump"]
          \in Places
    BY <1>0, <1>at, PlaceAt, 0 \in Nat DEF Places
  <2> QED  BY <2>1, <1>a DEF Check
<1>3. LoadCount(m) => Done
  <2>1. [mount[m] EXCEPT !.at = "store", !.index = cached_count] \in Places
    BY <1>0, <1>at DEF Places
  <2> QED  BY <2>1, <1>a DEF LoadCount
<1>4. StoreCount(m) => Done
  <2>1. [mount[m] EXCEPT !.at = "alloc"] \in Places
    BY <1>0, <1>at DEF Places
  <2> QED  BY <2>1, <1>a DEF StoreCount
<1>5. ASSUME NEW o \in (Objects \ slab) \cup {Null}, Alloc(m, o)
      PROVE  Done
  <2>1. [mount[m] EXCEPT !.at = "root", !.private = o] \in Places
    BY <1>0, <1>at DEF Places
  <2> QED  BY <2>1, <1>5, <1>a DEF Alloc
<1>8. AllocEarly(m) => Done
  BY DEF AllocEarly, Done, Types, module
<1>6. MakeRoot(m) => Done
  <2>1. [mount[m] EXCEPT !.at = "mounted", !.index = 0] \in Places
    BY <1>0, <1>at DEF Places
  <2> QED  BY <2>1, <1>a DEF MakeRoot
<1>7. MakeRootFails(m) \/ Umount(m) => Done
  BY <1>a, <1>u DEF MakeRootFails, Umount
<1> QED  BY <1>1, <1>2, <1>3, <1>4, <1>5, <1>6, <1>7, <1>8 DEF MountStep, Done

LEMMA NextTypes ==
  ASSUME Types, Next
  PROVE  Types'
<1> USE MyFsAssumption
<1>1. CASE ModuleStep
  <2> USE DEF module, cache, notes
  <2>1. CASE Register
    BY <2>1 DEF Register, Types
  <2>2. CASE Allocate
    <3>1. [i \in 0 .. MAX_CACHE_SIZE - 1 |-> Garbage]
            \in [0 .. MAX_CACHE_SIZE - 1 -> Objects \cup {Null, Garbage}]
      OBVIOUS
    <3> QED  BY <2>2, <3>1 DEF Allocate, Types
  <2>3. CASE AllocateFails
    BY <2>3 DEF AllocateFails, Types
  <2>5. CASE Rmmod
    BY <2>5 DEF Rmmod, Types
  <2>6. CASE Unregister
    BY <2>6 DEF Unregister, Types
  <2>4. CASE Free
    BY <2>4 DEF Free, Types
  <2> QED  BY <1>1, <2>1, <2>2, <2>3, <2>4, <2>5, <2>6 DEF ModuleStep
<1>2. ASSUME NEW m \in Mounters, MountStep(m)
      PROVE  Types'
  <2>0. /\ mount' \in [Mounters -> Places]
        /\ phase \in {"init", "live"} /\ UNCHANGED <<phase, registered, freed>>
    BY <1>2, MountMoves
  <2>i. mount[m].index \in Nat
    BY DEF Types, Places
  <2> USE DEF cache, notes
  <2>1. CASE Mount(m)
    BY <2>0, <2>1 DEF Mount, Types
  <2>2. CASE Check(m) \/ LoadCount(m) \/ MakeRoot(m) \/ Umount(m)
    BY <2>0, <2>2 DEF Check, LoadCount, MakeRoot, Umount, Types
  <2>3. CASE StoreCount(m)
    BY <2>0, <2>i, <2>3 DEF StoreCount, Types
  <2>4. ASSUME NEW o \in (Objects \ slab) \cup {Null}, Alloc(m, o)
        PROVE  Types'
    <3>1. slab' \subseteq Objects
      BY <2>4 DEF Alloc, Types
    <3>2. inode_pointers' \in [0 .. MAX_CACHE_SIZE - 1 -> Objects \cup {Null, Garbage}]
      BY <2>4 DEF Alloc, Types
    <3> QED  BY <2>0, <2>4, <3>1, <3>2 DEF Alloc, Types
  <2>5. CASE MakeRootFails(m) \/ AllocEarly(m)
    BY <2>0, <2>5 DEF MakeRootFails, AllocEarly, Types
  <2> QED  BY <1>2, <2>1, <2>2, <2>3, <2>4, <2>5 DEF MountStep
<1> QED  BY <1>1, <1>2 DEF Next

(* Where the place of the mounter that steps leads. *)
LEMMA MountLeads ==
  ASSUME Types, NEW m \in Mounters, MountStep(m)
  PROVE  \/ Mount(m) /\ mount[m].at = "out" /\ mount'[m].at = "check"
         \/ Check(m) /\ mount[m].at = "check"
              /\ mount'[m].at = IF cached_count = MAX_CACHE_SIZE THEN "root" ELSE "bump"
         \/ LoadCount(m) /\ mount[m].at = "bump" /\ mount'[m].at = "store"
              /\ mount'[m].index = cached_count
         \/ StoreCount(m) /\ mount[m].at = "store" /\ mount'[m].at = "alloc"
              /\ mount'[m].index = mount[m].index
         \/ \E o \in (Objects \ slab) \cup {Null} : Alloc(m, o) /\ mount[m].at = "alloc"
              /\ mount'[m].at = "root" /\ mount'[m].private = o
         \/ AllocEarly(m) /\ mount[m].at = "alloc" /\ mount'[m] = mount[m]
         \/ MakeRoot(m) /\ mount[m].at = "root" /\ mount'[m].at = "mounted"
              /\ mount'[m].private = mount[m].private
         \/ MakeRootFails(m) /\ mount[m].at = "root" /\ mount'[m].at = "out"
         \/ Umount(m) /\ mount[m].at = "mounted" /\ mount'[m].at = "out"
<1>0. mount[m] \in Places
  BY DEF Types
<1>1. \A from, p : Move(m, from, p) => mount[m].at = from /\ mount'[m] = p
  BY DEF Types, Move
<1> USE DEF Places, Unmounted
<1>2. Mount(m) => mount[m].at = "out" /\ mount'[m].at = "check"
  BY <1>1 DEF Mount
<1>3. Check(m) => mount[m].at = "check"
              /\ mount'[m].at = IF cached_count = MAX_CACHE_SIZE THEN "root" ELSE "bump"
  BY <1>0, <1>1 DEF Check
<1>4. LoadCount(m) => mount[m].at = "bump" /\ mount'[m].at = "store"
              /\ mount'[m].index = cached_count
  BY <1>0, <1>1 DEF LoadCount
<1>5. StoreCount(m) => mount[m].at = "store" /\ mount'[m].at = "alloc"
              /\ mount'[m].index = mount[m].index
  BY <1>0, <1>1 DEF StoreCount
<1>6. \A o : Alloc(m, o) => mount[m].at = "alloc"
              /\ mount'[m].at = "root" /\ mount'[m].private = o
  <2> SUFFICES ASSUME NEW o, Alloc(m, o)
               PROVE  mount[m].at = "alloc" /\ mount'[m].at = "root" /\ mount'[m].private = o
    OBVIOUS
  <2>1. LET q == [mount[m] EXCEPT !.at = "root", !.private = o]
        IN  q.at = "root" /\ q.private = o
    BY <1>0
  <2>2. mount[m].at = "alloc" /\ mount'[m] = [mount[m] EXCEPT !.at = "root", !.private = o]
    BY <1>1 DEF Alloc
  <2> QED  BY <2>1, <2>2
<1>7. MakeRoot(m) => mount[m].at = "root" /\ mount'[m].at = "mounted"
              /\ mount'[m].private = mount[m].private
  <2>1. LET q == [mount[m] EXCEPT !.at = "mounted", !.index = 0]
        IN  q.at = "mounted" /\ q.private = mount[m].private
    BY <1>0
  <2> QED  BY <2>1, <1>1 DEF MakeRoot
<1>8. MakeRootFails(m) => mount[m].at = "root" /\ mount'[m].at = "out"
  BY <1>1 DEF MakeRootFails
<1>9. Umount(m) => mount[m].at = "mounted" /\ mount'[m].at = "out"
  BY <1>1 DEF Umount
<1>10. AllocEarly(m) => mount[m].at = "alloc" /\ mount'[m] = mount[m]
  BY DEF AllocEarly
<1> HIDE DEF Places, Unmounted
<1> QED  BY <1>2, <1>3, <1>4, <1>5, <1>6, <1>7, <1>8, <1>9, <1>10 DEF MountStep

LEMMA NextAlone ==
  ASSUME Types, Alone, Quiet, Next
  PROVE  Alone' /\ Quiet'
<1> USE MyFsAssumption
<1>1. CASE ModuleStep
  <2>1. UNCHANGED mount
    BY <1>1 DEF ModuleStep, Register, Allocate, AllocateFails, Rmmod, Free, Unregister
  <2>2. Quiet'
    BY <1>1, <2>1 DEF Quiet, ModuleStep, Register, Allocate, AllocateFails, Rmmod, Free,
                      Unregister
  <2>3. CASE ~Register
    <3>1. overlap' = overlap /\ cached_count' = cached_count
      BY <1>1, <2>3 DEF ModuleStep, Allocate, AllocateFails, Rmmod, Free, Unregister, notes,
                        cache
    <3> QED  BY <3>1, <2>1, <2>2 DEF Alone, Inside
  <2>4. CASE Register
    <3>1. \A n \in Mounters : mount'[n].at = "out"
      BY <2>1, <2>4 DEF Register, Quiet
    <3>2. cached_count' = 0
      BY <2>4 DEF Register
    <3> QED  BY <3>1, <3>2, <2>2 DEF Alone, Inside
  <2> QED  BY <2>3, <2>4
<1>2. ASSUME NEW m \in Mounters, MountStep(m)
      PROVE  Alone' /\ Quiet'
  <2>0. /\ \A n \in Mounters : n # m => mount'[n] = mount[n]
        /\ phase' \in {"init", "live"}
    BY <1>2, MountMoves
  <2>q. Quiet'
    BY <2>0 DEF Quiet
  <2>t. cached_count \in Nat /\ mount[m].index \in Nat
    BY DEF Types, Places
  <2> USE DEF cache, notes
  <2>1. CASE Mount(m)
    <3>1. ~overlap' => ~overlap /\ \A n \in Mounters : ~Inside(n)
      BY <2>1 DEF Mount
    <3>2. cached_count' = cached_count /\ mount'[m].at = "check"
      BY <2>1, MoveMoves, <1>2, MountLeads DEF Mount, Move
    <3> QED  BY <2>0, <2>q, <3>1, <3>2 DEF Alone, Inside
  <2>2. CASE ~Mount(m)
    <3>1. overlap' = overlap
      BY <1>2, <2>2 DEF MountStep, Check, LoadCount, StoreCount, Alloc, AllocEarly,
                        MakeRoot, MakeRootFails, Umount
    <3>2. SUFFICES ASSUME ~overlap PROVE Alone'
      BY <2>q, <3>1 DEF Alone
    <3>3. Inside(m)' => Inside(m)
      BY <1>2, <2>2, MountLeads DEF Inside
    <3>4. \A n, k \in Mounters : Inside(n)' /\ Inside(k)' => n = k
      BY <3>2, <3>3, <2>0 DEF Alone, Inside
    <3>5. CASE ~Inside(m)
      <4>1. cached_count' = cached_count
        BY <1>2, <2>2, <3>5, MountLeads
           DEF Inside, MakeRoot, MakeRootFails, Umount
      <4> QED  BY <4>1, <3>1, <3>2, <3>3, <3>4, <3>5, <2>0 DEF Alone, Inside
    <3>6. CASE Inside(m)
      <4>1. \A n \in Mounters : n # m => ~Inside(n)'
        BY <3>2, <3>6, <2>0 DEF Alone, Inside
      <4>2. /\ cached_count' <= MAX_CACHE_SIZE
            /\ mount'[m].at = "bump" => cached_count' < MAX_CACHE_SIZE
            /\ mount'[m].at = "store" =>
                 cached_count' = mount'[m].index /\ mount'[m].index < MAX_CACHE_SIZE
            /\ mount'[m].at = "alloc" => cached_count' = mount'[m].index + 1
        <5>1. CASE mount[m].at = "check"
          <6>1. cached_count' = cached_count
            BY <1>2, <5>1, MountLeads DEF Check
          <6> QED  BY <1>2, <5>1, <6>1, <3>2, <2>t, MountLeads DEF Alone
        <5>2. CASE mount[m].at = "bump"
          <6>1. cached_count' = cached_count
            BY <1>2, <5>2, MountLeads DEF LoadCount
          <6> QED  BY <1>2, <5>2, <6>1, <3>2, <2>t, MountLeads DEF Alone
        <5>3. CASE mount[m].at = "store"
          <6>1. cached_count' = mount[m].index + 1
            BY <1>2, <5>3, MountLeads DEF StoreCount
          <6> QED  BY <1>2, <5>3, <6>1, <3>2, <2>t, MountLeads DEF Alone
        <5>4. CASE mount[m].at = "alloc"
          <6>1. cached_count' = cached_count
            BY <1>2, <5>4, MountLeads DEF Alloc, AllocEarly
          <6> QED  BY <1>2, <5>4, <6>1, <3>2, <2>t, MountLeads DEF Alone
        <5> QED  BY <3>6, <5>1, <5>2, <5>3, <5>4 DEF Inside
      <4> QED  BY <4>1, <4>2, <3>4 DEF Alone, Inside
    <3> QED  BY <3>5, <3>6
  <2> QED  BY <2>1, <2>2, <2>q
<1> QED  BY <1>1, <1>2 DEF Next

LEMMA SameAlone ==
  ASSUME Types, Alone, Quiet, UNCHANGED vars
  PROVE  Types' /\ Alone' /\ Quiet'
BY DEF vars, Types, Alone, Quiet, Inside

(* While mounts have not overlapped one mounter at a time is inside.       *)
THEOREM AloneHolds == Spec => [](Types /\ Alone /\ Quiet)
<1>1. Types /\ Alone /\ Quiet /\ [Next]_vars => (Types /\ Alone /\ Quiet)'
  BY NextTypes, NextAlone, SameAlone
<1> QED  BY <1>1, InitAlone, PTL DEF Spec

(* The state stays in its types; cached_count passes the limit only after  *)
(* mounts have overlapped.                                                 *)
THEOREM TypeCorrect == Spec => []TypeOK
<1>1. Types /\ Alone /\ Quiet => TypeOK
  BY DEF Types, Places, Alone, TypeOK
<1> QED  BY <1>1, AloneHolds, PTL

-----------------------------------------------------------------------------
InRoot(m) == mount[m].at \in {"root", "mounted"}

(* Nobody holds an object before it is allocated. *)
Bare == \A m \in Mounters : ~InRoot(m) => mount[m].private = Null

LEMMA InitOwn == Init => Bare /\ PrivateOwn
BY DEF Init, Bare, PrivateOwn, InRoot, Unmounted

LEMMA NextBare ==
  ASSUME Types, Bare, Next
  PROVE  Bare'
<1>1. CASE ModuleStep
  <2>1. UNCHANGED mount
    BY <1>1 DEF ModuleStep, Register, Allocate, AllocateFails, Rmmod, Free, Unregister
  <2> QED  BY <2>1 DEF Bare, InRoot
<1>2. ASSUME NEW m \in Mounters, MountStep(m)
      PROVE  Bare'
  <2>1. \A n \in Mounters : n # m => mount'[n] = mount[n]
    BY <1>2, MountMoves
  <2>2. mount'[m].at \notin {"root", "mounted"} =>
          mount'[m].private = Null
    <3>0. mount[m] \in Places
      BY DEF Types
    <3>1. \A from, p : Move(m, from, p) => mount[m].at = from /\ mount'[m] = p
      BY DEF Types, Move
    <3>2. Mount(m) \/ MakeRootFails(m) \/ Umount(m) => mount'[m].private = Null
      BY <3>1 DEF Mount, MakeRootFails, Umount, Unmounted
    <3>3. Check(m) => ~InRoot(m) /\ mount'[m].private = mount[m].private
      BY <3>0, <3>1 DEF Check, Places, InRoot
    <3>4. LoadCount(m) => ~InRoot(m) /\ mount'[m].private = mount[m].private
      <4>1. LET q == [mount[m] EXCEPT !.at = "store", !.index = cached_count]
            IN  q.private = mount[m].private
        BY <3>0 DEF Places
      <4> QED  BY <3>1, <4>1 DEF LoadCount, InRoot
    <3>5. StoreCount(m) => ~InRoot(m) /\ mount'[m].private = mount[m].private
      BY <3>0, <3>1 DEF StoreCount, Places, InRoot
    <3>6. AllocEarly(m) => ~InRoot(m) /\ mount'[m].private = mount[m].private
      BY DEF AllocEarly, InRoot
    <3> QED  BY <1>2, <3>2, <3>3, <3>4, <3>5, <3>6, MountLeads DEF Bare
  <2> QED  BY <2>1, <2>2 DEF Bare, InRoot
<1> QED  BY <1>1, <1>2 DEF Next

LEMMA NextOwn ==
  ASSUME Types, Quiet, Bare, PrivateOwn, Next
  PROVE  PrivateOwn'
<1>1. CASE ModuleStep
  <2>1. UNCHANGED mount
    BY <1>1 DEF ModuleStep, Register, Allocate, AllocateFails, Rmmod, Free, Unregister
  <2>2. slab' = slab \/ phase \in {"absent", "exit"}
    BY <1>1 DEF ModuleStep, Register, Allocate, AllocateFails, Rmmod, Free, Unregister, cache
  <2>3. CASE slab' = slab
    BY <2>1, <2>3 DEF PrivateOwn
  <2>4. CASE phase \in {"absent", "exit"}
    BY <2>1, <2>4 DEF PrivateOwn, Quiet
  <2> QED  BY <2>2, <2>3, <2>4
<1>2. ASSUME NEW m \in Mounters, MountStep(m)
      PROVE  PrivateOwn'
  <2>1. \A n \in Mounters : n # m => mount'[n] = mount[n]
    BY <1>2, MountMoves
  <2>2. CASE slab' = slab /\ (InRoot(m)' => mount'[m].private \in {mount[m].private, Null}
                                             /\ (InRoot(m) \/ mount'[m].private = Null))
    BY <2>1, <2>2 DEF PrivateOwn, InRoot
  <2>3. ASSUME NEW o \in (Objects \ slab) \cup {Null}, Alloc(m, o), mount'[m].private = o
        PROVE  PrivateOwn'
    <3>1. slab' = slab \cup ({o} \ {Null})
      BY <2>3 DEF Alloc
    <3> QED  BY <2>1, <2>3, <3>1 DEF PrivateOwn
  <2>4. CASE ~\E o \in (Objects \ slab) \cup {Null} : Alloc(m, o) /\ mount'[m].private = o
    <3>1. slab' = slab
      BY <1>2, <2>4, MountLeads DEF Mount, Check, LoadCount, StoreCount, AllocEarly,
                                    MakeRoot, MakeRootFails, Umount, cache
    <3>2. Check(m) => mount'[m].private = mount[m].private /\ mount[m].at = "check"
      <4>1. mount[m] \in Places
        BY DEF Types
      <4>2. \A from, p : Move(m, from, p) => mount[m].at = from /\ mount'[m] = p
        BY DEF Types, Move
      <4> QED  BY <4>1, <4>2 DEF Check, Places
    <3>3. InRoot(m)' => mount'[m].private \in {mount[m].private, Null}
                         /\ (InRoot(m) \/ mount'[m].private = Null)
      BY <1>2, <2>4, <3>2, MountLeads DEF InRoot, Bare
    <3> QED  BY <2>2, <3>1, <3>3
  <2> QED  BY <2>3, <2>4
<1> QED  BY <1>1, <1>2 DEF Next

LEMMA SameOwn ==
  ASSUME Bare, PrivateOwn, UNCHANGED vars
  PROVE  Bare' /\ PrivateOwn'
BY DEF vars, Bare, PrivateOwn, InRoot

(* The roots of two mounts never share an object of the cache, and none is *)
(* freed under a mount, however many mount at the same time.               *)
THEOREM ObjectsPrivate == Spec => []PrivateOwn
<1>1. Types /\ Alone /\ Quiet /\ Bare /\ PrivateOwn /\ [Next]_vars => (Bare /\ PrivateOwn)'
  BY NextBare, NextOwn, SameOwn
<1> QED  BY <1>1, InitOwn, AloneHolds, PTL DEF Spec

-----------------------------------------------------------------------------
Low  == IF phase = "exit" THEN freed ELSE 0
High == IF \E m \in Mounters : mount[m].at = "alloc" THEN cached_count - 1 ELSE cached_count

(* While mounts have not overlapped the slots in use are the objects of    *)
(* the cache, each once, or NULL; the slot being allocated is not one.     *)
Slots ==
  ~overlap =>
    /\ corrupt # "overrun"
    /\ phase = "absent" => slab = {}
    /\ phase = "init" => High = 0
    /\ phase = "exit" => freed <= cached_count
    /\ phase \in {"init", "live", "exit"} =>
         /\ \A i, j \in Low .. High - 1 : inode_pointers[i] = inode_pointers[j]
                                          /\ inode_pointers[i] # Null => i = j
         /\ slab = {inode_pointers[i] : i \in Low .. High - 1} \ {Null}

LEMMA InitSlots == Init => Slots
BY DEF Init, Slots, Low, High

LEMMA QuietHigh ==
  ASSUME Quiet, phase \in {"absent", "exit"}
  PROVE  High = cached_count
BY DEF Quiet, High

(* A step of the module keeps the slots. *)
LEMMA ModuleSlots ==
  ASSUME Types, Alone, Quiet, Quiet', Slots, corrupt = "no", ModuleStep
  PROVE  Slots'
<1> USE MyFsAssumption DEF module, cache, notes
<1>0. cached_count \in Nat /\ freed \in Nat
  BY DEF Types
<1>1. CASE Register
  <2>1. \A n \in Mounters : mount'[n].at = "out"
    BY <1>1 DEF Register, Quiet
  <2>2. cached_count' = 0 /\ slab' = {} /\ corrupt' = corrupt /\ phase' = "init"
    BY <1>1 DEF Register
  <2>3. High' = 0 /\ Low' = 0
    BY <2>1, <2>2 DEF High, Low
  <2>4. Low' .. High' - 1 = {}
    BY <2>3
  <2> QED  BY <2>2, <2>3, <2>4 DEF Slots
<1>2. CASE Allocate
  <2>1. High' = High /\ Low' = 0
    BY <1>2 DEF Allocate, High, Low
  <2>2. ~overlap => slab = {} /\ Low' .. High' - 1 = {}
    <3>1. ~overlap => High = 0 /\ Low = 0 /\ slab = {inode_pointers[i] : i \in Low .. High - 1} \ {Null}
      BY <1>2 DEF Allocate, Slots, Low
    <3>2. 0 .. 0 - 1 = {}
      OBVIOUS
    <3> QED  BY <2>1, <3>1, <3>2
  <2> QED  BY <1>2, <2>2 DEF Allocate, Slots
<1>3. CASE AllocateFails
  BY <1>3 DEF AllocateFails, Slots
<1>4. CASE Rmmod
  <2>1. High' = High /\ High = cached_count /\ Low' = Low
    BY <1>4 DEF Rmmod, High, Low
  <2> QED  BY <1>4, <1>0, <2>1 DEF Rmmod, Slots
<1>5. CASE Free
  <2> SUFFICES ASSUME ~overlap PROVE Slots'
    BY <1>5 DEF Free, Slots
  <2>1. High = cached_count /\ High' = High /\ Low = freed /\ Low' = freed + 1
    BY <1>5, QuietHigh DEF Free, High, Low
  <2>2. freed \in Low .. High - 1
    BY <1>0, <1>5, <2>1 DEF Free
  <2>3. freed < MAX_CACHE_SIZE
    BY <1>0, <1>5 DEF Free, Alone
  <2>4. slab' = slab \ {inode_pointers[freed]} /\ corrupt' # "overrun"
    BY <1>5, <2>3 DEF Free
  <2>5. /\ \A i, j \in Low .. High - 1 : inode_pointers[i] = inode_pointers[j]
                                         /\ inode_pointers[i] # Null => i = j
        /\ slab = {inode_pointers[i] : i \in Low .. High - 1} \ {Null}
    BY <1>5 DEF Free, Slots
  <2>6. Low' .. High' - 1 = (Low .. High - 1) \ {freed}
    BY <1>0, <2>1
  <2>7. slab' = {inode_pointers[i] : i \in Low' .. High' - 1} \ {Null}
    BY <2>2, <2>4, <2>5, <2>6
  <2>8. freed' <= cached_count'
    BY <1>0, <1>5 DEF Free
  <2> QED  BY <1>5, <2>4, <2>5, <2>6, <2>7, <2>8 DEF Free, Slots
<1>6. CASE Unregister
  <2>1. High = cached_count /\ Low = freed
    BY <1>6, QuietHigh DEF Unregister, Low
  <2>2. Low .. High - 1 = {}
    BY <1>0, <1>6, <2>1 DEF Unregister
  <2> QED  BY <1>6, <2>2 DEF Unregister, Slots
<1> QED  BY <1>1, <1>2, <1>3, <1>4, <1>5, <1>6 DEF ModuleStep

(* A step of a mounter keeps the slots. *)
LEMMA MountSlots ==
  ASSUME Types, Alone, Alone', Quiet, Slots, corrupt = "no", NEW m \in Mounters, MountStep(m)
  PROVE  Slots'
<1> USE MyFsAssumption DEF cache, notes
<1>0. /\ \A n \in Mounters : n # m => mount'[n] = mount[n]
      /\ phase \in {"init", "live"} /\ phase' = phase
  BY MountMoves
<1>1. cached_count \in Nat /\ mount[m].index \in Nat
  BY DEF Types, Places
<1>2. Low = 0 /\ Low' = 0
  BY <1>0 DEF Low
<1>3. CASE Mount(m) \/ Check(m) \/ LoadCount(m) \/ MakeRoot(m) \/ MakeRootFails(m) \/ Umount(m)
  <2>1. mount[m].at # "alloc" /\ mount'[m].at # "alloc"
    BY <1>3, MountLeads DEF Mount, Check, LoadCount, MakeRoot, MakeRootFails, Umount, Move
  <2>2. UNCHANGED <<cached_count, inode_pointers, slab>>
        /\ (overlap => overlap') /\ corrupt' \in {"no", "put"}
    <3>1. CASE Mount(m)
      BY <3>1 DEF Mount
    <3>2. CASE MakeRootFails(m)
      BY <3>2 DEF MakeRootFails
    <3>3. CASE Check(m) \/ LoadCount(m) \/ MakeRoot(m) \/ Umount(m)
      BY <3>3 DEF Check, LoadCount, MakeRoot, Umount
    <3> QED  BY <1>3, <3>1, <3>2, <3>3
  <2>3. High' = High
    BY <1>0, <2>1, <2>2 DEF High
  <2> QED  BY <1>0, <1>2, <2>2, <2>3 DEF Slots
<1>4. CASE StoreCount(m)
  <2> SUFFICES ASSUME ~overlap PROVE Slots'
    BY <1>4 DEF StoreCount, Slots
  <2>1. mount[m].at = "store" /\ mount'[m].at = "alloc"
    BY <1>4, MountLeads DEF StoreCount, Move
  <2>2. cached_count = mount[m].index
    BY <2>1 DEF Alone
  <2>3. \A n \in Mounters : mount[n].at # "alloc"
    BY <2>1 DEF Alone, Inside
  <2>4. High = cached_count /\ High' = cached_count
    <3>1. High = cached_count
      BY <2>3 DEF High
    <3>2. cached_count' = cached_count + 1
      BY <1>4, <2>2 DEF StoreCount
    <3>3. High' = cached_count' - 1
      BY <2>1 DEF High
    <3> QED  BY <1>1, <3>1, <3>2, <3>3
  <2>5. High' = High
    BY <1>1, <2>4
  <2> QED  BY <1>0, <1>2, <1>4, <2>5 DEF StoreCount, Slots
<1>5. ASSUME NEW o \in (Objects \ slab) \cup {Null}, Alloc(m, o), mount[m].at = "alloc",
             mount'[m].at = "root"
      PROVE  Slots'
  <2> SUFFICES ASSUME ~overlap PROVE Slots'
    BY <1>5 DEF Alloc, Slots
  <2> DEFINE k == mount[m].index
  <2>1. cached_count = k + 1 /\ k < MAX_CACHE_SIZE /\ k \in 0 .. MAX_CACHE_SIZE - 1
    BY <1>1, <1>5 DEF Alone
  <2>2. \A n \in Mounters : mount'[n].at # "alloc"
    BY <1>0, <1>5 DEF Alone, Inside
  <2>3. High = k /\ High' = k + 1
    BY <1>1, <1>5, <2>1, <2>2 DEF High, Alloc
  <2>4. inode_pointers' = [inode_pointers EXCEPT ![k] = o] /\ corrupt' = corrupt
    BY <1>5, <2>1 DEF Alloc
  <2>5. slab' = slab \cup ({o} \ {Null}) /\ o \notin slab
    BY <1>5 DEF Alloc, Types
  <2>6. /\ \A i, j \in 0 .. k - 1 : inode_pointers[i] = inode_pointers[j] /\ inode_pointers[i] # Null => i = j
        /\ slab = {inode_pointers[i] : i \in 0 .. k - 1} \ {Null}
    BY <1>0, <1>2, <2>3 DEF Slots
  <2>7. inode_pointers'[k] = o
        /\ \A i \in 0 .. k - 1 : inode_pointers'[i] = inode_pointers[i]
    BY <1>1, <2>1, <2>4 DEF Types
  <2>8. Low' .. High' - 1 = (0 .. k - 1) \cup {k}
    BY <1>1, <1>2, <2>3
  <2> HIDE DEF k
  <2>9. slab' = {inode_pointers'[i] : i \in Low' .. High' - 1} \ {Null}
    BY <2>5, <2>6, <2>7, <2>8
  <2>10. \A i, j \in Low' .. High' - 1 : inode_pointers'[i] = inode_pointers'[j]
                                         /\ inode_pointers'[i] # Null => i = j
    BY <2>5, <2>6, <2>7, <2>8
  <2>11. phase' = "live"
    BY <1>0, <1>5 DEF Alloc
  <2> QED  BY <2>4, <2>9, <2>10, <2>11 DEF Slots
<1>6. CASE AllocEarly(m)
  BY <1>6 DEF AllocEarly, module, Slots, High, Low
<1> QED  BY <1>3, <1>4, <1>5, <1>6, MountLeads

LEMMA NextSlots ==
  ASSUME Types, Alone, Alone', Quiet, Quiet', Slots, [Next]_vars
  PROVE  Slots'
<1>1. CASE Next
  BY <1>1, ModuleSlots, MountSlots DEF Next
<1>2. CASE UNCHANGED vars
  BY <1>2 DEF vars, Slots, Low, High
<1> QED  BY <1>1, <1>2

-----------------------------------------------------------------------------
(* Mounts may overlap from here on.  No object is in two entries, one that *)
(* is in an entry myfs_exit has yet to come to is in the cache, and NULL   *)
(* comes from an allocation.                                               *)
Entries ==
  /\ corrupt = "free" => lacked
  /\ phase \in {"live", "exit"} =>
       /\ \A i, j \in 0 .. MAX_CACHE_SIZE - 1 :
            inode_pointers[i] = inode_pointers[j] /\ inode_pointers[i] \in Objects => i = j
       /\ \A i \in 0 .. MAX_CACHE_SIZE - 1 :
            /\ inode_pointers[i] = Null => lacked
            /\ inode_pointers[i] \in Objects /\ (phase = "exit" => freed <= i) => inode_pointers[i] \in slab

(* Each entry below the count has been written, or is about to be: by a    *)
(* mounter that has it for its index.  Two may have the same.              *)
Given(i) ==
  \/ phase # "init" /\ i < MAX_CACHE_SIZE /\ inode_pointers[i] # Garbage
  \/ \E m \in Mounters : mount[m].at = "alloc" /\ mount[m].index = i
NoGap ==
  corrupt = "no" /\ phase \in {"init", "live", "exit"} =>
    /\ \A i \in Nat : i < cached_count => Given(i)
    /\ \A m \in Mounters : mount[m].at = "store" => \A i \in Nat : i < mount[m].index => Given(i)

LEMMA InitEntries == Init => Entries /\ NoGap
BY DEF Init, Entries, NoGap

(* A step of the module. *)
LEMMA ModuleEntries ==
  ASSUME Types, Quiet, Entries, NoGap, corrupt = "no", ModuleStep
  PROVE  Entries' /\ NoGap'
<1> USE MyFsAssumption DEF module, cache, notes
<1>0. cached_count \in Nat /\ freed \in Nat
      /\ inode_pointers \in [0 .. MAX_CACHE_SIZE - 1 -> Objects \cup {Null, Garbage}]
  BY DEF Types
<1>1. CASE Register
  <2>1. \A m \in Mounters : mount'[m].at = "out"
    BY <1>1 DEF Register, Quiet
  <2>2. cached_count' = 0 /\ corrupt' = "no" /\ phase' = "init"
    BY <1>1 DEF Register
  <2> QED  BY <2>1, <2>2 DEF Entries, NoGap
<1>2. CASE Allocate
  <2>1. \A i \in 0 .. MAX_CACHE_SIZE - 1 : inode_pointers'[i] = Garbage
    BY <1>2 DEF Allocate
  <2>2. phase = "init" /\ phase' = "live"
        /\ UNCHANGED <<corrupt, lacked, mount, cached_count>>
    BY <1>2 DEF Allocate
  <2>3. \A i : Given(i) => Given(i)'
    BY <2>2 DEF Given
  <2>4. NoGap'
    BY <2>2, <2>3 DEF NoGap
  <2>5. Entries'
    BY <2>1, <2>2 DEF Entries
  <2> QED  BY <2>4, <2>5
<1>3. CASE AllocateFails
  BY <1>3 DEF AllocateFails, Entries, NoGap
<1>4. CASE Rmmod
  <2>1. \A i : Given(i) => Given(i)'
    BY <1>4 DEF Rmmod, Given
  <2>2. NoGap'
    BY <1>4, <2>1 DEF Rmmod, NoGap
  <2>3. Entries'
    BY <1>4 DEF Rmmod, Entries
  <2> QED  BY <2>2, <2>3
<1>5. CASE Free
  <2>1. \A m \in Mounters : mount[m].at = "out"
    BY <1>5 DEF Free, Quiet
  <2>2. Given(freed)
    BY <1>0, <1>5 DEF Free, NoGap
  <2>3. freed \in 0 .. MAX_CACHE_SIZE - 1 /\ inode_pointers[freed] \in Objects \cup {Null}
    BY <1>0, <2>1, <2>2 DEF Given
  <2>4. CASE inode_pointers[freed] \in slab
    <3>1. slab' = slab \ {inode_pointers[freed]} /\ freed' = freed + 1 /\ phase = "exit"
          /\ UNCHANGED <<corrupt, lacked, phase, inode_pointers, mount, cached_count>>
      BY <1>5, <2>3, <2>4 DEF Free
    <3>2. \A i \in 0 .. MAX_CACHE_SIZE - 1 :
            freed' <= i => freed <= i /\ i # freed
      BY <1>0, <3>1
    <3>3. Entries'
      BY <2>3, <3>1, <3>2 DEF Entries
    <3>4. \A i : Given(i) => Given(i)'
      BY <3>1 DEF Given
    <3>5. NoGap'
      BY <3>1, <3>4 DEF NoGap
    <3> QED  BY <3>3, <3>5
  <2>5. CASE inode_pointers[freed] \notin slab
    <3>1. corrupt' = "free" /\ freed' = freed + 1 /\ phase = "exit"
          /\ UNCHANGED <<slab, lacked, phase, inode_pointers>>
      BY <1>5, <2>5 DEF Free
    <3>2. inode_pointers[freed] = Null
      BY <1>0, <2>3, <2>5, <3>1 DEF Entries
    <3>3. lacked
      BY <2>3, <3>1, <3>2 DEF Entries
    <3>4. \A i \in 0 .. MAX_CACHE_SIZE - 1 : freed' <= i => freed <= i
      BY <1>0, <3>1
    <3> QED  BY <3>1, <3>3, <3>4 DEF Entries, NoGap
  <2> QED  BY <2>4, <2>5
<1>6. CASE Unregister
  BY <1>6 DEF Unregister, Entries, NoGap
<1> QED  BY <1>1, <1>2, <1>3, <1>4, <1>5, <1>6 DEF ModuleStep

(* A step of a mounter. *)
LEMMA MountEntries ==
  ASSUME Types, Entries, NoGap, corrupt = "no", NEW m \in Mounters, MountStep(m)
  PROVE  Entries' /\ NoGap'
<1> USE MyFsAssumption DEF cache, notes
<1>0. /\ \A n \in Mounters : n # m => mount'[n] = mount[n]
      /\ phase \in {"init", "live"} /\ phase' = phase
  BY MountMoves
<1>1. cached_count \in Nat /\ mount[m].index \in Nat
      /\ inode_pointers \in [0 .. MAX_CACHE_SIZE - 1 -> Objects \cup {Null, Garbage}]
  BY DEF Types, Places
<1>2. CASE Mount(m) \/ Check(m) \/ MakeRoot(m) \/ MakeRootFails(m) \/ Umount(m)
  <2>1. /\ mount[m].at # "alloc"
        /\ mount'[m].at \notin {"alloc", "store"}
    BY <1>2, MountLeads DEF Mount, Check, MakeRoot, MakeRootFails, Umount, Move
  <2>2. UNCHANGED <<cached_count, inode_pointers, slab, lacked>> /\ corrupt' \in {"no", "put"}
    BY <1>2 DEF Mount, Check, MakeRoot, MakeRootFails, Umount
  <2>3. \A i : Given(i) => Given(i)'
    BY <1>0, <2>1, <2>2 DEF Given
  <2>4. NoGap'
    BY <1>0, <2>1, <2>2, <2>3 DEF NoGap
  <2>5. Entries'
    BY <1>0, <2>2 DEF Entries
  <2> QED  BY <2>4, <2>5
<1>3. CASE LoadCount(m)
  <2>1. mount[m].at = "bump" /\ mount'[m].at = "store" /\ mount'[m].index = cached_count
    BY <1>3, MountLeads DEF LoadCount, Move
  <2>2. UNCHANGED <<cached_count, inode_pointers, slab, lacked, corrupt>>
    BY <1>3 DEF LoadCount
  <2>3. \A i : Given(i) => Given(i)'
    BY <1>0, <2>1, <2>2 DEF Given
  <2>4. NoGap'
    BY <1>0, <2>1, <2>2, <2>3 DEF NoGap
  <2>5. Entries'
    BY <1>0, <2>2 DEF Entries
  <2> QED  BY <2>4, <2>5
<1>4. CASE StoreCount(m)
  <2>1. mount[m].at = "store" /\ mount'[m].at = "alloc" /\ mount'[m].index = mount[m].index
    BY <1>4, MountLeads DEF StoreCount, Move
  <2>2. UNCHANGED <<inode_pointers, slab, lacked, corrupt>> /\ cached_count' = mount[m].index + 1
    BY <1>4 DEF StoreCount
  <2>3. \A i : Given(i) => Given(i)'
    BY <1>0, <2>1, <2>2 DEF Given
  <2>4. Given(mount[m].index)'
    BY <2>1 DEF Given
  <2>5. \A i \in Nat : i < cached_count' => i < mount[m].index \/ i = mount[m].index
    BY <1>1, <2>2
  <2>6. \A i \in Nat : i < cached_count' => Given(i)'
    BY <1>0, <2>1, <2>3, <2>4, <2>5 DEF NoGap
  <2>7. NoGap'
    BY <1>0, <2>1, <2>2, <2>3, <2>6 DEF NoGap
  <2>8. Entries'
    BY <1>0, <2>2 DEF Entries
  <2> QED  BY <2>7, <2>8
<1>5. ASSUME NEW o \in (Objects \ slab) \cup {Null}, Alloc(m, o), mount[m].at = "alloc",
             mount'[m].at = "root"
      PROVE  Entries' /\ NoGap'
  <2> DEFINE k == mount[m].index
  <2>1. /\ phase = "live" /\ slab' = slab \cup ({o} \ {Null}) /\ lacked' = (lacked \/ o = Null)
        /\ cached_count' = cached_count
    BY <1>5 DEF Alloc
  <2>2. CASE k < MAX_CACHE_SIZE
    <3>1. k \in 0 .. MAX_CACHE_SIZE - 1
      BY <1>1, <2>2
    <3>2. inode_pointers' = [inode_pointers EXCEPT ![k] = o] /\ corrupt' = corrupt
      BY <1>5, <2>2 DEF Alloc
    <3> HIDE DEF k
    <3>3. inode_pointers'[k] = o /\ \A i \in 0 .. MAX_CACHE_SIZE - 1 : i # k => inode_pointers'[i] = inode_pointers[i]
      BY <1>1, <3>1, <3>2
    <3>4. o \notin slab /\ o # Garbage /\ (o \in Objects => slab' = slab \cup {o}) /\ slab \subseteq slab'
      BY <2>1 DEF Types
    <3>5. \A i \in 0 .. MAX_CACHE_SIZE - 1 : inode_pointers[i] \in Objects => inode_pointers[i] \in slab
      BY <2>1 DEF Entries
    <3>6. \A i, j \in 0 .. MAX_CACHE_SIZE - 1 :
            inode_pointers'[i] = inode_pointers'[j] /\ inode_pointers'[i] \in Objects => i = j
      BY <2>1, <3>3, <3>4, <3>5 DEF Entries
    <3>7. \A i \in 0 .. MAX_CACHE_SIZE - 1 :
            /\ inode_pointers'[i] = Null => lacked'
            /\ inode_pointers'[i] \in Objects => inode_pointers'[i] \in slab'
      BY <2>1, <3>3, <3>4, <3>5 DEF Entries
    <3>8. Entries'
      BY <3>2, <3>6, <3>7 DEF Entries
    <3>9. ASSUME NEW i \in Nat, Given(i)  PROVE Given(i)'
      <4>1. CASE i = k
        BY <1>0, <2>1, <3>1, <3>3, <3>4, <4>1 DEF Given
      <4>2. CASE i # k
        <5>1. i < MAX_CACHE_SIZE => i \in 0 .. MAX_CACHE_SIZE - 1
          OBVIOUS
        <5> QED  BY <1>0, <2>1, <3>3, <3>9, <4>2, <5>1 DEF Given, k
      <4> QED  BY <4>1, <4>2
    <3>10. NoGap'
      BY <1>0, <1>5, <2>1, <3>2, <3>9 DEF NoGap
    <3> QED  BY <3>8, <3>10
  <2>3. CASE ~(k < MAX_CACHE_SIZE)
    <3>1. corrupt' = "overrun" /\ inode_pointers' = inode_pointers
      BY <1>5, <2>3 DEF Alloc
    <3>2. slab \subseteq slab' /\ (lacked => lacked')
      BY <2>1
    <3>3. NoGap'
      BY <3>1 DEF NoGap
    <3>4. Entries'
      BY <1>0, <2>1, <3>1, <3>2 DEF Entries
    <3> QED  BY <3>3, <3>4
  <2> QED  BY <2>2, <2>3
<1>6. CASE AllocEarly(m)
  BY <1>6 DEF AllocEarly, module, Entries, NoGap
<1> QED  BY <1>2, <1>3, <1>4, <1>5, <1>6, MountLeads

LEMMA NextEntries ==
  ASSUME Types, Quiet, Entries, NoGap, [Next]_vars
  PROVE  Entries' /\ NoGap'
<1>1. CASE Next
  BY <1>1, ModuleEntries, MountEntries DEF Next
<1>2. CASE UNCHANGED vars
  BY <1>2 DEF vars, Entries, NoGap, Given
<1> QED  BY <1>1, <1>2

(* However mounts interleave, myfs_exit frees no object twice and nothing  *)
(* but objects of the cache, unless an allocation failed; as long as they  *)
(* do not overlap, the array is never overrun and an unloaded module       *)
(* leaves no object in the cache.                                          *)
THEOREM UnloadsCleanAlways == Spec => []UnloadsClean
<1>1. Types /\ Alone /\ Quiet /\ (Types /\ Alone /\ Quiet)' /\ Slots /\ [Next]_vars => Slots'
  BY NextSlots
<1>2. Types /\ Alone /\ Quiet /\ Entries /\ NoGap /\ [Next]_vars => (Entries /\ NoGap)'
  BY NextEntries
<1>3. Slots /\ Entries => UnloadsClean
  BY DEF Slots, Entries, UnloadsClean
<1> QED  BY <1>1, <1>2, <1>3, InitSlots, InitEntries, AloneHolds, PTL DEF Spec

-----------------------------------------------------------------------------
(* The programs of sem_06/lab_08.                                          *)
FilesTypes ==
  /\ prog \in Reading \cup Writing
  /\ at \in [Streams -> {"start", "run", "eof", "close", "done"}]
  /\ prog \in Reading => \A i \in Streams : at[i] \in {"start", "run", "eof"}
  /\ turn \in Streams
  /\ file \in Seq(Nat)
  /\ pos \in [Streams -> Nat]
  /\ buf \in [Streams -> Seq(Nat)]
  /\ printed \in Seq([by : Streams, letter : Nat])

(* What a writer has written or holds, by the place it is at.              *)
WriterInv ==
  prog \in Writing =>
    /\ \A i \in Streams :
         /\ at[i] # "eof"
         /\ pos[i] + Len(buf[i]) <= Letters
         /\ prog \in Stdio => at[i] = "done" \/ pos[i] = 0
         /\ prog \notin Stdio => buf[i] = <<>> /\ pos[i] <= Len(file)
         /\ at[i] = "start" => pos[i] = 0 /\ buf[i] = <<>>
         /\ at[i] = "run" => pos[i] + Len(buf[i]) < Letters
         /\ at[i] = "close" => pos[i] + Len(buf[i]) = Letters
         /\ at[i] = "done" => /\ buf[i] = <<>>
                              /\ pos[i] = Letters \/ (prog = "02v4" /\ i = 2)
    /\ at[2] # "start" => at[1] # "start"

(* What two descriptors have written over each other.                      *)
MayHold(k, n) ==
  \/ \E i \in Streams : k <= pos[i] /\ n = Letter(i, k)
  \/ pos[1] < k /\ pos[2] < k /\ n = 0

DescriptorInv ==
  prog \in {"02v3", "02v4"} =>
    /\ \A k \in 1 .. Len(file) : MayHold(k, file[k])
    /\ prog = "02v3" =>
         /\ pos[1] = pos[2] \/ pos[1] = pos[2] + 1
         /\ turn = 1 <=> pos[1] = pos[2]
         /\ \A k \in 1 .. pos[2] : file[k] = Letter(2, k)

(* What two streams hold, and what the file has of the one closed first.   *)
Own(i) == [k \in 1 .. Letters |-> Letter(i, k)]

ClosedFirst == IF prog = "03v1" THEN 1 ELSE 2

StreamInv ==
  prog \in {"03v1", "03v2"} =>
    LET f == ClosedFirst  l == Other(ClosedFirst) IN
    /\ \A i \in Streams : \A k \in 1 .. Len(buf[i]) : buf[i][k] = Letter(i, k)
    /\ at[1] # "start" /\ at[1] # "done" /\ at[2] # "done" => file = <<>>
    /\ at[l] = "done" => at[f] = "done" /\ file = Own(l)
    /\ at[f] = "done" /\ at[l] # "done" => at[l] # "start" /\ file = Own(f)

WriteInv == FilesTypes /\ WriterInv /\ DescriptorInv /\ StreamInv


-----------------------------------------------------------------------------
(* A function on 1 .. n with values in a set is a sequence of length n.    *)
LEMMA SequenceOf ==
  ASSUME NEW S, NEW n \in Nat, NEW s \in [1 .. n -> S]
  PROVE  s \in Seq(S) /\ Len(s) = n
BY SMT

LEMMA OneLetter == ASSUME NEW n \in Nat PROVE <<n>> \in Seq(Nat) /\ Len(<<n>>) = 1 /\ <<n>>[1] = n
OBVIOUS

LEMMA LetterNat == ASSUME NEW i \in Streams, NEW k \in Nat \ {0} PROVE Letter(i, k) \in Nat
BY DEF Letter, Streams

(* What a write leaves: the letters written where it was written, the rest *)
(* of the file where it was not.                                           *)
LEMMA OverlayProperties ==
  ASSUME NEW f \in Seq(Nat), NEW p \in Nat, NEW s \in Seq(Nat), p <= Len(f)
  PROVE  /\ Overlay(f, p, s) \in Seq(Nat)
         /\ p + Len(s) > Len(f) => Len(Overlay(f, p, s)) = p + Len(s)
         /\ p + Len(s) <= Len(f) => Len(Overlay(f, p, s)) = Len(f)
         /\ \A k \in 1 .. Len(Overlay(f, p, s)) :
              /\ p < k /\ k <= p + Len(s) => Overlay(f, p, s)[k] = s[k - p]
              /\ ~(p < k /\ k <= p + Len(s)) => /\ k \in 1 .. Len(f)
                                                /\ Overlay(f, p, s)[k] = f[k]
<1> DEFINE n == IF p + Len(s) > Len(f) THEN p + Len(s) ELSE Len(f)
           val(k) == IF p < k /\ k <= p + Len(s) THEN s[k - p] ELSE f[k]
<1>0. Len(f) \in Nat /\ Len(s) \in Nat
  BY LenProperties
<1>1. n \in Nat
  BY <1>0
<1>2. \A k \in 1 .. n : val(k) \in Nat
  <2> SUFFICES ASSUME NEW k \in 1 .. n PROVE val(k) \in Nat
    OBVIOUS
  <2>1. CASE p < k /\ k <= p + Len(s)
    <3>1. k - p \in 1 .. Len(s)
      BY <1>0, <2>1
    <3> QED  BY <2>1, <3>1, ElementOfSeq
  <2>2. CASE ~(p < k /\ k <= p + Len(s))
    <3>1. k \in 1 .. Len(f)
      BY <1>0, <2>2
    <3> QED  BY <2>2, <3>1, ElementOfSeq
  <2> QED  BY <2>1, <2>2
<1>3. Overlay(f, p, s) = [k \in 1 .. n |-> val(k)]
  BY DEF Overlay
<1>4. [k \in 1 .. n |-> val(k)] \in [1 .. n -> Nat]
  BY <1>2
<1> HIDE DEF val
<1>5. Overlay(f, p, s) \in Seq(Nat) /\ Len(Overlay(f, p, s)) = n
  <2> HIDE DEF n
  <2> QED  BY <1>1, <1>3, <1>4, SequenceOf
<1>6. \A k \in 1 .. n : Overlay(f, p, s)[k] = val(k)
  BY <1>3
<1>7. \A k \in 1 .. n : ~(p < k /\ k <= p + Len(s)) => k \in 1 .. Len(f)
  BY <1>0
<1> QED  BY <1>0, <1>5, <1>6, <1>7 DEF val

-----------------------------------------------------------------------------
LEMMA FilesInitTypes == FilesInit => FilesTypes
<1> SUFFICES ASSUME FilesInit PROVE FilesTypes
  OBVIOUS
<1>1. Text \in Seq(Nat)
  <2>1. Text \in [1 .. TextLength -> Nat]
    BY OpenFilesAssumption DEF Text
  <2> QED  BY <2>1, OpenFilesAssumption, SequenceOf
<1>2. \A n \in OldLengths : Old(n) \in Seq(Nat)
  <2> SUFFICES ASSUME NEW n \in OldLengths PROVE Old(n) \in Seq(Nat)
    OBVIOUS
  <2>1. n \in Nat /\ Old(n) \in [1 .. n -> Nat]
    BY OpenFilesAssumption DEF Old
  <2> QED  BY <2>1, SequenceOf
<1>3. file \in Seq(Nat)
  BY <1>1, <1>2 DEF FilesInit
<1> QED  BY <1>3 DEF FilesInit, FilesTypes, Streams

(* Where a reader reads and what it gets.                                  *)
LEMMA FillGets ==
  ASSUME FilesTypes, NEW i \in Streams, Fill(i)
  PROVE  \E s \in Seq(Nat) :
           /\ \A k \in 1 .. Len(s) : s[k] = file[pos[Place(i)] + k]
           /\ Place(i) \in Streams
           /\ pos[Place(i)] + Len(s) <= Len(file) \/ s = <<>>
           /\ s = <<>> => pos[Place(i)] >= Len(file)
           /\ prog \in {"02v1", "02v2"} => Len(s) <= 1
           /\ pos' = [pos EXCEPT ![Place(i)] = pos[Place(i)] + Len(s)]
           /\ buf' = [buf EXCEPT ![i] = s]
           /\ at' = [j \in Streams |-> IF s = <<>> /\ (j = i \/ prog = "02v1")
                                       THEN "eof" ELSE at[j]]
<1> DEFINE p == pos[Place(i)]
           n == IF p + Chunk < Len(file) THEN p + Chunk ELSE Len(file)
           s == SubSeq(file, p + 1, n)
<1>1. Place(i) \in Streams
  BY DEF Place, Streams
<1>2. p \in Nat /\ Len(file) \in Nat /\ file \in Seq(Nat)
  BY <1>1, LenProperties DEF FilesTypes
<1>3. /\ Chunk \in Nat
      /\ Chunk = 0 => Len(file) = 0
      /\ prog \in {"02v1", "02v2"} => Chunk <= 1
  BY <1>2, OpenFilesAssumption DEF Chunk, Stdio
<1>4. n \in Nat /\ n <= Len(file) /\ n <= p + Chunk
  BY <1>2, <1>3
<1>5. \A k \in p + 1 .. n : file[k] \in Nat
  <2> SUFFICES ASSUME NEW k \in p + 1 .. n PROVE file[k] \in Nat
    OBVIOUS
  <2>1. k \in 1 .. Len(file)
    BY <1>2, <1>4
  <2> QED  BY <2>1, <1>2, ElementOfSeq
<1>6. /\ s \in Seq(Nat)
      /\ Len(s) = IF p + 1 <= n THEN n - p ELSE 0
      /\ \A k \in 1 .. n - p : s[k] = file[p + k]
  <2> HIDE DEF p, n
  <2>1. p + 1 \in Int /\ n \in Int /\ n - (p + 1) + 1 = n - p
    BY <1>2, <1>4
  <2>2. /\ s \in Seq(Nat)
        /\ Len(s) = IF p + 1 <= n THEN n - (p + 1) + 1 ELSE 0
        /\ \A k \in 1 .. n - (p + 1) + 1 : s[k] = file[p + 1 + k - 1]
    BY <1>5, <2>1, SubSeqProperties
  <2>3. \A k \in 1 .. n - p : p + 1 + k - 1 = p + k
    BY <1>2, <1>4
  <2> QED  BY <2>1, <2>2, <2>3
<1>7. \A k \in 1 .. Len(s) : s[k] = file[p + k]
  <2> HIDE DEF p, n, s
  <2> QED  BY <1>2, <1>4, <1>6
<1>8. p + Len(s) <= Len(file) \/ s = <<>>
  <2>1. Len(s) = 0 => s = <<>>
    BY <1>6, EmptySeq
  <2> HIDE DEF p, n, s
  <2> QED  BY <1>2, <1>4, <1>6, <2>1
<1>9. s = <<>> => p >= Len(file)
  <2> HAVE s = <<>>
  <2>1. Len(s) = 0
    BY EmptySeq
  <2>2. n <= p
    <3> HIDE DEF p, n, s
    <3> QED  BY <1>2, <1>4, <1>6, <2>1
  <2> QED  BY <2>2, <1>2, <1>3
<1>10. prog \in {"02v1", "02v2"} => Len(s) <= 1
  <2> HIDE DEF p, n, s
  <2> QED  BY <1>2, <1>3, <1>4, <1>6
<1>11. /\ pos' = [pos EXCEPT ![Place(i)] = p + Len(s)]
       /\ buf' = [buf EXCEPT ![i] = s]
       /\ at' = [j \in Streams |-> IF s = <<>> /\ (j = i \/ prog = "02v1")
                                   THEN "eof" ELSE at[j]]
  BY DEF Fill
<1>12. s \in Seq(Nat)
  BY <1>6
<1> HIDE DEF s
<1> USE <1>12
<1> WITNESS s \in Seq(Nat)
<1> QED  BY <1>1, <1>7, <1>8, <1>9, <1>10, <1>11

(* Where a writer writes.                                                  *)
LEMMA PutPuts ==
  ASSUME FilesTypes, WriterInv, NEW i \in Streams, Put(i)
  PROVE  \E n \in Nat :
           /\ n = Letter(i, pos[i] + Len(buf[i]) + 1)
           /\ prog \in Stdio =>
                /\ buf' = [buf EXCEPT ![i] = Append(buf[i], n)]
                /\ UNCHANGED <<file, pos>>
           /\ prog \notin Stdio =>
                /\ file' = Overlay(file, pos[i], <<n>>)
                /\ pos' = [pos EXCEPT ![i] = pos[i] + 1]
                /\ UNCHANGED buf
           /\ at' = [at EXCEPT ![i] = IF pos[i] + Len(buf[i]) + 1 = Letters
                                      THEN "close" ELSE at[i]]
           /\ turn' = Other(i)
           /\ UNCHANGED <<prog, printed>>
<1>1. pos[i] \in Nat /\ Len(buf[i]) \in Nat
  BY LenProperties DEF FilesTypes
<1>2. Letter(i, pos[i] + Len(buf[i]) + 1) \in Nat
  BY <1>1, LetterNat
<1> QED  BY <1>2 DEF Put

LEMMA OtherStream == ASSUME NEW i \in Streams PROVE Other(i) \in Streams /\ Other(i) # i
BY DEF Other, Streams

LEMMA FilesStepTypes ==
  ASSUME FilesTypes, WriterInv, [FilesNext]_filesVars
  PROVE  FilesTypes'
<1> USE DEF FilesTypes
<1>1. ASSUME NEW i \in Streams, Open(i) PROVE FilesTypes'
  BY <1>1, EmptySeq DEF Open
<1>2. ASSUME NEW i \in Streams, Fill(i) PROVE FilesTypes'
  <2>1. UNCHANGED <<prog, turn, file, printed>>
    BY <1>2 DEF Fill
  <2>2. PICK s \in Seq(Nat) :
          /\ \A k \in 1 .. Len(s) : s[k] = file[pos[Place(i)] + k]
          /\ Place(i) \in Streams
          /\ pos[Place(i)] + Len(s) <= Len(file) \/ s = <<>>
          /\ s = <<>> => pos[Place(i)] >= Len(file)
          /\ prog \in {"02v1", "02v2"} => Len(s) <= 1
          /\ pos' = [pos EXCEPT ![Place(i)] = pos[Place(i)] + Len(s)]
          /\ buf' = [buf EXCEPT ![i] = s]
          /\ at' = [j \in Streams |-> IF s = <<>> /\ (j = i \/ prog = "02v1")
                                      THEN "eof" ELSE at[j]]
    BY <1>2, FillGets, Zenon
  <2>3. Len(s) \in Nat
    BY LenProperties
  <2>4. prog \in Reading
    BY <1>2 DEF Fill
  <2>5. /\ Place(i) \in Streams
        /\ pos' = [pos EXCEPT ![Place(i)] = pos[Place(i)] + Len(s)]
        /\ buf' = [buf EXCEPT ![i] = s]
        /\ at' = [j \in Streams |-> IF s = <<>> /\ (j = i \/ prog = "02v1")
                                    THEN "eof" ELSE at[j]]
    BY <2>2, Zenon
  <2> QED  BY <2>1, <2>3, <2>4, <2>5
<1>3. ASSUME NEW i \in Streams, Show(i) PROVE FilesTypes'
  <2>1. buf[i] \in Seq(Nat) /\ buf[i] # <<>>
    BY <1>3 DEF Show
  <2>2. Head(buf[i]) \in Nat /\ Tail(buf[i]) \in Seq(Nat)
    BY <2>1, HeadTailProperties
  <2>3. [by |-> i, letter |-> Head(buf[i])] \in [by : Streams, letter : Nat]
    BY <2>2
  <2>4. printed' \in Seq([by : Streams, letter : Nat])
    BY <1>3, <2>3, AppendProperties DEF Show
  <2> QED  BY <1>3, <2>2, <2>4, OtherStream DEF Show
<1>4. ASSUME NEW i \in Streams, Put(i) PROVE FilesTypes'
  <2>1. PICK n \in Nat :
           /\ prog \in Stdio =>
                /\ buf' = [buf EXCEPT ![i] = Append(buf[i], n)]
                /\ UNCHANGED <<file, pos>>
           /\ prog \notin Stdio =>
                /\ file' = Overlay(file, pos[i], <<n>>)
                /\ pos' = [pos EXCEPT ![i] = pos[i] + 1]
                /\ UNCHANGED buf
           /\ at' = [at EXCEPT ![i] = IF pos[i] + Len(buf[i]) + 1 = Letters
                                      THEN "close" ELSE at[i]]
           /\ turn' = Other(i)
           /\ UNCHANGED <<prog, printed>>
    BY <1>4, PutPuts
  <2>2. turn' \in Streams /\ at' \in [Streams -> {"start", "run", "eof", "close", "done"}]
    BY <2>1, OtherStream
  <2>3. CASE prog \in Stdio
    <3>1. Append(buf[i], n) \in Seq(Nat)
      BY AppendProperties
    <3>2. prog \notin Reading
      BY <1>4 DEF Put, Writing, Reading
    <3> QED  BY <2>1, <2>2, <2>3, <3>1, <3>2
  <2>4. CASE prog \notin Stdio
    <3>1. prog \in Writing /\ prog \notin Reading
      BY <1>4 DEF Put, Writing, Reading
    <3>2. pos[i] <= Len(file) /\ pos[i] \in Nat /\ <<n>> \in Seq(Nat)
      BY <2>4, <3>1, OneLetter DEF WriterInv
    <3>3. Overlay(file, pos[i], <<n>>) \in Seq(Nat)
      BY <3>2, OverlayProperties
    <3>a. file' = Overlay(file, pos[i], <<n>>) /\ UNCHANGED buf
      BY ONLY <2>1, <2>4, Zenon
    <3>b. pos' = [pos EXCEPT ![i] = pos[i] + 1]
      BY ONLY <2>1, <2>4, Zenon
    <3>c. pos[i] + 1 \in Nat
      BY <3>2
    <3>d. pos' \in [Streams -> Nat]
      BY <3>b, <3>c
    <3>4. file' \in Seq(Nat) /\ pos' \in [Streams -> Nat] /\ buf' = buf
      BY <3>3, <3>a, <3>d
    <3>5. UNCHANGED <<prog, printed>>
      BY <2>1
    <3> QED  BY <2>2, <3>1, <3>4, <3>5
  <2> QED  BY <2>3, <2>4
<1>5. ASSUME NEW i \in Streams, Close(i) PROVE FilesTypes'
  <2>1. prog \in Writing /\ prog' = prog
    BY <1>5 DEF Close
  <2>2. pos[i] \in Nat /\ Len(file) \in Nat /\ Len(buf[i]) \in Nat /\ buf[i] \in Seq(Nat)
    BY LenProperties
  <2>3. pos[i] <= Len(file)
    <3>1. at[i] = "close"
      BY <1>5 DEF Close
    <3>2. (prog \in Stdio => at[i] = "done" \/ pos[i] = 0) /\ (prog \notin Stdio => pos[i] <= Len(file))
      BY <2>1 DEF WriterInv
    <3> QED  BY <2>2, <3>1, <3>2
  <2>4. file' \in Seq(Nat)
    BY <1>5, <2>2, <2>3, OverlayProperties DEF Close
  <2>5. pos' \in [Streams -> Nat] /\ buf' \in [Streams -> Seq(Nat)]
    BY <1>5, <2>2, EmptySeq DEF Close
  <2>6. \A j \in Streams : prog \notin Reading
    BY <2>1 DEF Reading, Writing
  <2> QED  BY <1>5, <2>1, <2>4, <2>5, <2>6 DEF Close
<1>6. CASE Exit
  <2>1. 2 \in Streams /\ prog \notin Reading
    BY <1>6 DEF Exit, Streams, Reading
  <2> QED  BY <1>6, <2>1 DEF Exit
<1>7. CASE UNCHANGED filesVars
  BY <1>7 DEF filesVars
<1> QED  BY <1>1, <1>2, <1>3, <1>4, <1>5, <1>6, <1>7 DEF FilesNext, Ended

-----------------------------------------------------------------------------
(* What a letter written does to the counts.                               *)
LEMMA PutCounts ==
  ASSUME FilesTypes, WriterInv, NEW i \in Streams, Put(i)
  PROVE  /\ prog \in Writing /\ prog' = prog /\ at[i] = "run"
         /\ pos[i] + Len(buf[i]) + 1 <= Letters
         /\ pos'[i] + Len(buf'[i]) = pos[i] + Len(buf[i]) + 1
         /\ at'[i] = IF pos[i] + Len(buf[i]) + 1 = Letters THEN "close" ELSE "run"
         /\ \A j \in Streams : j # i => pos'[j] = pos[j] /\ buf'[j] = buf[j] /\ at'[j] = at[j]
         /\ prog \in Stdio => pos' = pos /\ file' = file
         /\ prog \notin Stdio => /\ buf' = buf
                                 /\ pos'[i] = pos[i] + 1
                                 /\ pos'[i] <= Len(file') /\ Len(file') >= Len(file)
<1>1. pos[i] \in Nat /\ Len(buf[i]) \in Nat /\ Len(file) \in Nat /\ Letters \in Nat
  BY LenProperties, OpenFilesAssumption DEF FilesTypes
<1>2. prog \in Writing /\ prog' = prog /\ at[i] = "run"
  BY DEF Put, MayRun
<1>3. pos[i] + Len(buf[i]) + 1 <= Letters
  BY <1>1, <1>2 DEF WriterInv
<1>4. PICK n \in Nat :
        /\ prog \in Stdio =>
             /\ buf' = [buf EXCEPT ![i] = Append(buf[i], n)]
             /\ UNCHANGED <<file, pos>>
        /\ prog \notin Stdio =>
             /\ file' = Overlay(file, pos[i], <<n>>)
             /\ pos' = [pos EXCEPT ![i] = pos[i] + 1]
             /\ UNCHANGED buf
        /\ at' = [at EXCEPT ![i] = IF pos[i] + Len(buf[i]) + 1 = Letters
                                   THEN "close" ELSE at[i]]
  BY PutPuts
<1>5. /\ at'[i] = IF pos[i] + Len(buf[i]) + 1 = Letters THEN "close" ELSE "run"
      /\ \A j \in Streams : j # i => at'[j] = at[j]
  BY <1>2, <1>4 DEF FilesTypes
<1>6. CASE prog \in Stdio
  <2>1. buf' = [buf EXCEPT ![i] = Append(buf[i], n)] /\ pos' = pos /\ file' = file
    BY <1>4, <1>6
  <2>2. Len(Append(buf[i], n)) = Len(buf[i]) + 1
    BY AppendProperties DEF FilesTypes
  <2>3. Len(buf'[i]) = Len(buf[i]) + 1 /\ \A j \in Streams : j # i => buf'[j] = buf[j]
    BY <2>1, <2>2 DEF FilesTypes
  <2>4. pos'[i] + Len(buf'[i]) = pos[i] + Len(buf[i]) + 1
    BY <1>1, <2>1, <2>3
  <2>5. \A j \in Streams : j # i => pos'[j] = pos[j] /\ buf'[j] = buf[j] /\ at'[j] = at[j]
    BY <1>5, <2>1, <2>3
  <2> QED  BY <1>2, <1>3, <1>5, <1>6, <2>1, <2>4, <2>5
<1>7. CASE prog \notin Stdio
  <2>1. file' = Overlay(file, pos[i], <<n>>) /\ buf' = buf
    BY ONLY <1>4, <1>7, Zenon
  <2>2. pos' = [pos EXCEPT ![i] = pos[i] + 1]
    BY ONLY <1>4, <1>7, Zenon
  <2>3. pos'[i] = pos[i] + 1 /\ \A j \in Streams : j # i => pos'[j] = pos[j]
    BY <2>2 DEF FilesTypes
  <2>4. <<n>> \in Seq(Nat) /\ Len(<<n>>) = 1 /\ file \in Seq(Nat) /\ pos[i] <= Len(file)
    BY OneLetter, <1>2, <1>7 DEF WriterInv, FilesTypes
  <2>5. /\ pos[i] + 1 > Len(file) => Len(file') = pos[i] + 1
        /\ pos[i] + 1 <= Len(file) => Len(file') = Len(file)
    BY <1>1, <2>1, <2>4, OverlayProperties
  <2>6. pos'[i] <= Len(file') /\ Len(file') >= Len(file)
    BY <1>1, <2>3, <2>5
  <2> QED  BY <1>1, <1>2, <1>3, <1>5, <1>7, <2>1, <2>3, <2>6
<1> QED  BY <1>6, <1>7

LEMMA WriterStep ==
  ASSUME FilesTypes, WriterInv, [FilesNext]_filesVars
  PROVE  WriterInv'
<1> SUFFICES ASSUME prog' \in Writing PROVE WriterInv'
  BY DEF WriterInv
<1>0. prog' = prog
  BY DEF FilesNext, Open, Fill, Show, Put, Close, Exit, Ended, filesVars
<1>t. /\ \A j \in Streams : pos[j] \in Nat /\ Len(buf[j]) \in Nat /\ buf[j] \in Seq(Nat)
      /\ Len(file) \in Nat /\ file \in Seq(Nat)
      /\ Letters \in Nat \ {0}
  BY LenProperties, OpenFilesAssumption DEF FilesTypes
<1>w. /\ \A j \in Streams :
           /\ at[j] # "eof"
           /\ pos[j] + Len(buf[j]) <= Letters
           /\ prog \in Stdio => at[j] = "done" \/ pos[j] = 0
           /\ prog \notin Stdio => buf[j] = <<>> /\ pos[j] <= Len(file)
           /\ at[j] = "start" => pos[j] = 0 /\ buf[j] = <<>>
           /\ at[j] = "run" => pos[j] + Len(buf[j]) < Letters
           /\ at[j] = "close" => pos[j] + Len(buf[j]) = Letters
           /\ at[j] = "done" => /\ buf[j] = <<>>
                                /\ pos[j] = Letters \/ (prog = "02v4" /\ j = 2)
      /\ at[2] # "start" => at[1] # "start"
  BY <1>0 DEF WriterInv
<1>s. 1 \in Streams /\ 2 \in Streams /\ \A j \in Streams : j = 1 \/ j = 2
  BY DEF Streams
<1>e. Len(<<>>) = 0
  BY EmptySeq
<1>1. ASSUME NEW i \in Streams, Open(i) PROVE WriterInv'
  <2>1. /\ at[i] = "start" /\ (i = 2 => at[1] # "start")
        /\ at'[i] = "run" /\ \A j \in Streams : j # i => at'[j] = at[j]
        /\ pos' = pos /\ buf' = buf
    BY <1>1 DEF Open, FilesTypes
  <2>2. prog \notin Stdio => file' = file
    BY <1>1 DEF Open, Stdio
  <2>3. at'[2] # "start" => at'[1] # "start"
    BY <1>w, <1>s, <2>1
  <2>4. pos[i] + Len(buf[i]) < Letters /\ at[i] # "done" /\ pos[i] = 0
    BY <1>t, <1>w, <1>e, <2>1
  <2> QED  BY <1>0, <1>w, <2>1, <2>2, <2>3, <2>4 DEF WriterInv
<1>2. ASSUME NEW i \in Streams, Put(i) PROVE WriterInv'
  <2>1. /\ at[i] = "run"
        /\ pos[i] + Len(buf[i]) + 1 <= Letters
        /\ pos'[i] + Len(buf'[i]) = pos[i] + Len(buf[i]) + 1
        /\ at'[i] = IF pos[i] + Len(buf[i]) + 1 = Letters THEN "close" ELSE "run"
        /\ \A j \in Streams : j # i => pos'[j] = pos[j] /\ buf'[j] = buf[j] /\ at'[j] = at[j]
        /\ prog \in Stdio => pos' = pos /\ file' = file
        /\ prog \notin Stdio => /\ buf' = buf
                                /\ pos'[i] = pos[i] + 1
                                /\ pos'[i] <= Len(file') /\ Len(file') >= Len(file)
    BY <1>2, PutCounts
  <2>2. at'[2] # "start" => at'[1] # "start"
    BY <1>w, <1>s, <2>1
  <2>3. /\ at'[i] \in {"run", "close"}
        /\ pos'[i] + Len(buf'[i]) <= Letters
        /\ prog \in Stdio => pos'[i] = 0
        /\ prog \notin Stdio => buf'[i] = <<>> /\ pos'[i] <= Len(file')
        /\ at'[i] = "run" => pos'[i] + Len(buf'[i]) < Letters
        /\ at'[i] = "close" => pos'[i] + Len(buf'[i]) = Letters
    BY <1>t, <1>w, <2>1
  <2>4. ASSUME NEW j \in Streams, j # i
        PROVE  /\ pos'[j] = pos[j] /\ buf'[j] = buf[j] /\ at'[j] = at[j]
               /\ prog \notin Stdio => pos'[j] <= Len(file')
    <3>1. prog \notin Stdio => Len(file') \in Nat
      BY <1>2, FilesStepTypes, LenProperties DEF FilesTypes
    <3> QED  BY <1>t, <1>w, <2>1, <2>4, <3>1
  <2> QED  BY <1>0, <1>w, <2>2, <2>3, <2>4 DEF WriterInv
<1>3. ASSUME NEW i \in Streams, Close(i) PROVE WriterInv'
  <2>1. /\ at[i] = "close"
        /\ at'[i] = "done" /\ \A j \in Streams : j # i => at'[j] = at[j]
        /\ pos'[i] = pos[i] + Len(buf[i]) /\ \A j \in Streams : j # i => pos'[j] = pos[j]
        /\ buf'[i] = <<>> /\ \A j \in Streams : j # i => buf'[j] = buf[j]
        /\ file' = Overlay(file, pos[i], buf[i])
    BY <1>3 DEF Close, FilesTypes
  <2>2. at'[2] # "start" => at'[1] # "start"
    BY <1>w, <1>s, <2>1
  <2>3. pos'[i] = Letters
    BY <1>w, <2>1
  <2>4. prog \notin Stdio => Len(file') = Len(file) /\ pos'[i] = pos[i]
    <3> HAVE prog \notin Stdio
    <3>1. buf[i] = <<>> /\ pos[i] <= Len(file) /\ Len(buf[i]) = 0
      BY <1>w, <1>e
    <3>2. pos[i] + Len(buf[i]) = pos[i]
      BY <1>t, <3>1
    <3>3. pos[i] + Len(buf[i]) <= Len(file) => Len(Overlay(file, pos[i], buf[i])) = Len(file)
      BY <1>t, <3>1, OverlayProperties
    <3> QED  BY <2>1, <3>1, <3>2, <3>3
  <2>5. /\ pos'[i] + Len(buf'[i]) = Letters
        /\ prog \notin Stdio => buf'[i] = <<>> /\ pos'[i] <= Len(file')
    BY <1>t, <1>w, <1>e, <2>1, <2>3, <2>4
  <2>6. \A j \in Streams : j # i /\ prog \notin Stdio => pos'[j] <= Len(file')
    BY <1>w, <2>1, <2>4
  <2> QED  BY <1>0, <1>w, <1>t, <2>1, <2>2, <2>3, <2>5, <2>6 DEF WriterInv
<1>4. CASE Exit
  <2>1. /\ prog = "02v4" /\ at[1] = "done"
        /\ at'[2] = "done" /\ \A j \in Streams : j # 2 => at'[j] = at[j]
        /\ pos' = pos /\ buf' = buf /\ file' = file
    BY <1>4 DEF Exit, FilesTypes, Streams
  <2>2. prog \notin Stdio
    BY <2>1 DEF Stdio
  <2>3. at'[1] # "start"
    BY <1>s, <2>1
  <2> QED  BY <1>0, <1>w, <1>s, <2>1, <2>2, <2>3 DEF WriterInv
<1>5. CASE UNCHANGED filesVars
  BY <1>5 DEF filesVars, WriterInv
<1>6. ASSUME NEW i \in Streams, Fill(i) \/ Show(i) PROVE FALSE
  BY <1>0, <1>6 DEF Fill, Show, Reading, Writing
<1> QED  BY <1>1, <1>2, <1>3, <1>4, <1>5, <1>6 DEF FilesNext, Ended

-----------------------------------------------------------------------------
(* What a write through a descriptor does to the file.                     *)
LEMMA DescriptorPut ==
  ASSUME FilesTypes, WriterInv, prog \notin Stdio, NEW i \in Streams, Put(i)
  PROVE  /\ pos[i] + 1 \in 1 .. Len(file')
         /\ file'[pos[i] + 1] = Letter(i, pos[i] + 1)
         /\ \A k \in 1 .. Len(file') :
              k # pos[i] + 1 => k \in 1 .. Len(file) /\ file'[k] = file[k]
<1>1. pos[i] \in Nat /\ pos[i] <= Len(file) /\ buf[i] = <<>> /\ file \in Seq(Nat)
  BY DEF FilesTypes, WriterInv, Put
<1>2. Len(buf[i]) = 0 /\ Len(file) \in Nat
  BY <1>1, EmptySeq, LenProperties
<1>3. pos[i] + Len(buf[i]) + 1 = pos[i] + 1
  BY <1>1, <1>2
<1>4. PICK n \in Nat :
        /\ n = Letter(i, pos[i] + Len(buf[i]) + 1)
        /\ prog \notin Stdio => file' = Overlay(file, pos[i], <<n>>)
  BY PutPuts
<1>5. n = Letter(i, pos[i] + 1) /\ file' = Overlay(file, pos[i], <<n>>)
  BY ONLY <1>3, <1>4, prog \notin Stdio, Zenon
<1> DEFINE s == <<n>>
<1>6. s \in Seq(Nat) /\ Len(s) = 1 /\ s[1] = n
  BY OneLetter
<1>a. file' = Overlay(file, pos[i], s)
  BY <1>5
<1> HIDE DEF s
<1>c. /\ pos[i] + Len(s) > Len(file) => Len(Overlay(file, pos[i], s)) = pos[i] + Len(s)
      /\ pos[i] + Len(s) <= Len(file) => Len(Overlay(file, pos[i], s)) = Len(file)
      /\ \A k \in 1 .. Len(Overlay(file, pos[i], s)) :
           /\ pos[i] < k /\ k <= pos[i] + Len(s) => Overlay(file, pos[i], s)[k] = s[k - pos[i]]
           /\ ~(pos[i] < k /\ k <= pos[i] + Len(s)) => /\ k \in 1 .. Len(file)
                                                       /\ Overlay(file, pos[i], s)[k] = file[k]
  BY <1>1, <1>6, OverlayProperties
<1>b. /\ pos[i] + Len(s) > Len(file) => Len(file') = pos[i] + Len(s)
      /\ pos[i] + Len(s) <= Len(file) => Len(file') = Len(file)
      /\ \A k \in 1 .. Len(file') :
           /\ pos[i] < k /\ k <= pos[i] + Len(s) => file'[k] = s[k - pos[i]]
           /\ ~(pos[i] < k /\ k <= pos[i] + Len(s)) => /\ k \in 1 .. Len(file)
                                                       /\ file'[k] = file[k]
  BY ONLY <1>a, <1>c
<1>7. /\ pos[i] + 1 > Len(file) => Len(file') = pos[i] + 1
      /\ pos[i] + 1 <= Len(file) => Len(file') = Len(file)
      /\ \A k \in 1 .. Len(file') :
           /\ pos[i] < k /\ k <= pos[i] + 1 => file'[k] = s[k - pos[i]]
           /\ ~(pos[i] < k /\ k <= pos[i] + 1) => /\ k \in 1 .. Len(file)
                                                  /\ file'[k] = file[k]
  BY <1>6, <1>b
<1>8. pos[i] + 1 \in 1 .. Len(file') /\ pos[i] + 1 - pos[i] = 1
  BY <1>1, <1>2, <1>7
<1>9. file'[pos[i] + 1] = n
  BY <1>1, <1>6, <1>7, <1>8
<1>10. \A k \in 1 .. Len(file') : k # pos[i] + 1 => ~(pos[i] < k /\ k <= pos[i] + 1)
  BY <1>1
<1> QED  BY <1>5, <1>7, <1>8, <1>9, <1>10

(* close of a descriptor has nothing to write.                             *)
LEMMA DescriptorClose ==
  ASSUME FilesTypes, WriterInv, prog \notin Stdio, NEW i \in Streams, Close(i)
  PROVE  /\ Len(file') = Len(file)
         /\ \A k \in 1 .. Len(file') : file'[k] = file[k]
         /\ pos' = pos
<1>1. prog \in Writing
  BY DEF FilesTypes, Close, Reading, Writing
<1>2. pos[i] \in Nat /\ pos[i] <= Len(file) /\ buf[i] = <<>> /\ file \in Seq(Nat) /\ pos \in [Streams -> Nat]
  BY <1>1 DEF FilesTypes, WriterInv
<1>3. Len(buf[i]) = 0 /\ Len(file) \in Nat /\ buf[i] \in Seq(Nat)
  BY <1>2, EmptySeq, LenProperties
<1>4. pos[i] + Len(buf[i]) = pos[i]
  BY <1>2, <1>3
<1>5. file' = Overlay(file, pos[i], buf[i]) /\ pos' = [pos EXCEPT ![i] = pos[i]]
  BY <1>4 DEF Close
<1>c. pos[i] \in Nat /\ pos[i] <= Len(file) /\ file \in Seq(Nat) /\ buf[i] \in Seq(Nat)
  BY <1>2, <1>3
<1>b. /\ pos[i] + Len(buf[i]) > Len(file) => Len(Overlay(file, pos[i], buf[i])) = pos[i] + Len(buf[i])
      /\ pos[i] + Len(buf[i]) <= Len(file) => Len(Overlay(file, pos[i], buf[i])) = Len(file)
      /\ \A k \in 1 .. Len(Overlay(file, pos[i], buf[i])) :
           /\ pos[i] < k /\ k <= pos[i] + Len(buf[i]) => Overlay(file, pos[i], buf[i])[k] = buf[i][k - pos[i]]
           /\ ~(pos[i] < k /\ k <= pos[i] + Len(buf[i])) => /\ k \in 1 .. Len(file)
                                                            /\ Overlay(file, pos[i], buf[i])[k] = file[k]
  BY ONLY <1>c, OverlayProperties
<1>a. /\ pos[i] + Len(buf[i]) <= Len(file) => Len(file') = Len(file)
      /\ \A k \in 1 .. Len(file') :
           ~(pos[i] < k /\ k <= pos[i] + Len(buf[i])) => file'[k] = file[k]
  BY ONLY <1>b, <1>5
<1>6. /\ pos[i] <= Len(file) => Len(file') = Len(file)
      /\ \A k \in 1 .. Len(file') :
           ~(pos[i] < k /\ k <= pos[i]) => file'[k] = file[k]
  BY <1>4, <1>a
<1>7. \A k \in 1 .. Len(file') : ~(pos[i] < k /\ k <= pos[i])
  BY <1>2
<1>8. pos' = pos
  BY <1>2, <1>5
<1> QED  BY <1>2, <1>6, <1>7, <1>8

LEMMA DescriptorStep ==
  ASSUME FilesTypes, WriterInv, DescriptorInv, [FilesNext]_filesVars
  PROVE  DescriptorInv'
<1> SUFFICES ASSUME prog' \in {"02v3", "02v4"} PROVE DescriptorInv'
  BY DEF DescriptorInv
<1>0. prog' = prog
  BY DEF FilesNext, Open, Fill, Show, Put, Close, Exit, Ended, filesVars
<1>p. prog \in {"02v3", "02v4"} /\ prog \notin Stdio
  BY <1>0 DEF Stdio
<1>s. 1 \in Streams /\ 2 \in Streams /\ \A j \in Streams : j = 1 \/ j = 2
  BY DEF Streams
<1>t. (\A j \in Streams : pos[j] \in Nat) /\ Len(file) \in Nat
  BY LenProperties DEF FilesTypes
<1>d. /\ \A k \in 1 .. Len(file) : MayHold(k, file[k])
      /\ prog = "02v3" =>
           /\ pos[1] = pos[2] \/ pos[1] = pos[2] + 1
           /\ turn = 1 <=> pos[1] = pos[2]
           /\ \A k \in 1 .. pos[2] : file[k] = Letter(2, k)
  BY <1>p DEF DescriptorInv
<1>l. \A j \in Streams : pos[j] <= Len(file)
  BY <1>p DEF WriterInv, Writing
<1>1. ASSUME NEW i \in Streams, Open(i) PROVE DescriptorInv'
  <2>1. UNCHANGED <<prog, pos, file, turn>>
    BY <1>1, <1>p DEF Open
  <2> QED  BY <2>1 DEF DescriptorInv, MayHold
<1>2. ASSUME NEW i \in Streams, Put(i) PROVE DescriptorInv'
  <2>1. /\ pos'[i] = pos[i] + 1
        /\ \A j \in Streams : j # i => pos'[j] = pos[j]
    BY <1>2, <1>p, PutCounts
  <2>2. /\ pos[i] + 1 \in 1 .. Len(file')
        /\ file'[pos[i] + 1] = Letter(i, pos[i] + 1)
        /\ \A k \in 1 .. Len(file') :
             k # pos[i] + 1 => k \in 1 .. Len(file) /\ file'[k] = file[k]
    BY <1>2, <1>p, DescriptorPut
  <2>3. ASSUME NEW k \in 1 .. Len(file')
        PROVE  MayHold(k, file[k])'
    <3>1. CASE k = pos[i] + 1
      <4>1. k <= pos'[i] /\ file'[k] = Letter(i, k)
        BY <1>t, <2>1, <2>2, <3>1
      <4> QED  BY <4>1 DEF MayHold
    <3>2. CASE k # pos[i] + 1
      <4>1. k \in 1 .. Len(file) /\ file'[k] = file[k]
        BY <2>2, <3>2
      <4>2. MayHold(k, file[k])
        BY <1>d, <4>1
      <4>3. \A j \in Streams : (k <= pos[j] => k <= pos'[j]) /\ (pos[j] < k => pos'[j] < k)
        BY <1>t, <2>1, <3>2
      <4> QED  BY <1>s, <4>1, <4>2, <4>3 DEF MayHold
    <3> QED  BY <3>1, <3>2
  <2>4. CASE prog = "02v3"
    <3>1. turn = i /\ turn' = Other(i)
      BY <1>2, <1>p, <2>4, OtherStream DEF Put, MayRun, Threaded, WriterInv
    <3>2. turn' = 3 - i
      BY <3>1 DEF Other
    <3>3. CASE i = 1
      <4>1. pos[1] = pos[2] /\ pos'[1] = pos[2] + 1 /\ pos'[2] = pos[2] /\ turn' = 2
        BY <1>d, <1>s, <2>1, <2>4, <3>1, <3>2, <3>3
      <4>2. \A k \in 1 .. pos'[2] : file'[k] = Letter(2, k)
        <5> SUFFICES ASSUME NEW k \in 1 .. pos'[2] PROVE file'[k] = Letter(2, k)
          OBVIOUS
        <5>0. pos[2] \in Nat /\ Len(file') \in Nat /\ pos[2] + 1 <= Len(file')
          BY <1>s, <1>t, <2>2, <3>3, <4>1
        <5>1. k \in 1 .. pos[2] /\ k # pos[i] + 1 /\ k \in 1 .. Len(file')
          BY <3>3, <4>1, <5>0
        <5> QED  BY <1>d, <2>2, <2>4, <5>1
      <4>3. pos'[1] # pos'[2] /\ turn' # 1
        BY <1>s, <1>t, <4>1
      <4> QED  BY <1>0, <2>3, <4>1, <4>2, <4>3 DEF DescriptorInv, MayHold
    <3>4. CASE i = 2
      <4>1. pos[1] = pos[2] + 1 /\ pos'[1] = pos[1] /\ pos'[2] = pos[2] + 1 /\ turn' = 1
        BY <1>d, <1>s, <2>1, <2>4, <3>1, <3>2, <3>4
      <4>2. \A k \in 1 .. pos'[2] : file'[k] = Letter(2, k)
        <5> SUFFICES ASSUME NEW k \in 1 .. pos'[2] PROVE file'[k] = Letter(2, k)
          OBVIOUS
        <5>1. CASE k = pos[2] + 1
          BY <2>2, <3>4, <5>1
        <5>2. CASE k # pos[2] + 1
          <6>0. pos[2] \in Nat /\ Len(file') \in Nat /\ pos[2] + 1 <= Len(file')
            BY <1>s, <1>t, <2>2, <3>4
          <6>1. k \in 1 .. pos[2] /\ k # pos[i] + 1 /\ k \in 1 .. Len(file')
            BY <3>4, <4>1, <5>2, <6>0
          <6> QED  BY <1>d, <2>2, <2>4, <6>1
        <5> QED  BY <5>1, <5>2
      <4> QED  BY <1>0, <2>3, <4>1, <4>2 DEF DescriptorInv, MayHold
    <3> QED  BY <1>s, <3>3, <3>4
  <2>5. CASE prog # "02v3"
    BY <1>0, <2>3, <2>5 DEF DescriptorInv, MayHold
  <2> QED  BY <2>4, <2>5
<1>3. ASSUME NEW i \in Streams, Close(i) PROVE DescriptorInv'
  <2>1. /\ Len(file') = Len(file)
        /\ \A k \in 1 .. Len(file') : file'[k] = file[k]
        /\ pos' = pos
    BY <1>3, <1>p, DescriptorClose
  <2>2. turn' = turn
    BY <1>3 DEF Close
  <2>3. \A k \in 1 .. Len(file') : MayHold(k, file[k])'
    BY <1>d, <2>1 DEF MayHold
  <2>4. \A k \in 1 .. pos[2] : k \in 1 .. Len(file')
    BY <1>l, <1>s, <1>t, <2>1
  <2> QED  BY <1>0, <1>d, <2>1, <2>2, <2>3, <2>4 DEF DescriptorInv, MayHold
<1>4. CASE Exit
  BY <1>4 DEF Exit, DescriptorInv, MayHold
<1>5. CASE UNCHANGED filesVars
  BY <1>5 DEF filesVars, DescriptorInv, MayHold
<1>6. ASSUME NEW i \in Streams, Fill(i) \/ Show(i) PROVE FALSE
  BY <1>p, <1>6 DEF Fill, Show, Reading
<1> QED  BY <1>1, <1>2, <1>3, <1>4, <1>5, <1>6 DEF FilesNext, Ended

-----------------------------------------------------------------------------
LEMMA OwnLetters ==
  ASSUME NEW i \in Streams
  PROVE  /\ Own(i) \in Seq(Nat) /\ Len(Own(i)) = Letters
         /\ \A k \in 1 .. Letters : Own(i)[k] = Letter(i, k)
<1>1. Letters \in Nat
  BY OpenFilesAssumption
<1>2. \A k \in 1 .. Letters : Letter(i, k) \in Nat
  BY <1>1, LetterNat
<1>3. Own(i) \in [1 .. Letters -> Nat]
  BY <1>2 DEF Own
<1>4. \A k \in 1 .. Letters : Own(i)[k] = Letter(i, k)
  BY DEF Own
<1> QED  BY <1>1, <1>3, <1>4, SequenceOf

(* A stream that is flushed replaces a file that is not longer.            *)
LEMMA FlushReplaces ==
  ASSUME NEW i \in Streams, NEW f \in Seq(Nat), NEW s \in Seq(Nat),
         Len(f) <= Letters, Len(s) = Letters,
         \A k \in 1 .. Len(s) : s[k] = Letter(i, k)
  PROVE  Overlay(f, 0, s) = Own(i)
<1>0. Len(f) \in Nat /\ Letters \in Nat
  BY LenProperties, OpenFilesAssumption
<1>p. PICK p \in Nat : p = 0
  OBVIOUS
<1>q. p <= Len(f)
  BY <1>0, <1>p
<1>o. /\ Overlay(f, p, s) \in Seq(Nat)
      /\ p + Len(s) > Len(f) => Len(Overlay(f, p, s)) = p + Len(s)
      /\ p + Len(s) <= Len(f) => Len(Overlay(f, p, s)) = Len(f)
      /\ \A k \in 1 .. Len(Overlay(f, p, s)) :
           /\ p < k /\ k <= p + Len(s) => Overlay(f, p, s)[k] = s[k - p]
           /\ ~(p < k /\ k <= p + Len(s)) => /\ k \in 1 .. Len(f)
                                             /\ Overlay(f, p, s)[k] = f[k]
  BY ONLY <1>q, f \in Seq(Nat), s \in Seq(Nat), p \in Nat, OverlayProperties
<1>1. /\ Overlay(f, 0, s) \in Seq(Nat)
      /\ 0 + Len(s) > Len(f) => Len(Overlay(f, 0, s)) = 0 + Len(s)
      /\ 0 + Len(s) <= Len(f) => Len(Overlay(f, 0, s)) = Len(f)
      /\ \A k \in 1 .. Len(Overlay(f, 0, s)) :
           0 < k /\ k <= 0 + Len(s) => Overlay(f, 0, s)[k] = s[k - 0]
  BY ONLY <1>p, <1>o
<1>2. Len(Overlay(f, 0, s)) = Letters
  BY <1>0, <1>1
<1>3. ASSUME NEW k \in 1 .. Letters PROVE Overlay(f, 0, s)[k] = Own(i)[k]
  <2>1. k \in 1 .. Len(Overlay(f, 0, s)) /\ 0 < k /\ k <= 0 + Len(s) /\ k - 0 = k
    BY <1>0, <1>2
  <2>2. Overlay(f, 0, s)[k] = s[k]
    BY <1>1, <2>1
  <2> QED  BY <2>2, OwnLetters
<1> DEFINE g == Overlay(f, 0, s)
           h == Own(i)
<1>4. g \in Seq(Nat) /\ h \in Seq(Nat) /\ Len(g) = Len(h) /\ \A k \in 1 .. Len(g) : g[k] = h[k]
  BY <1>1, <1>2, <1>3, OwnLetters
<1>5. g = h
  <2> HIDE DEF g, h
  <2> QED  BY <1>4, SeqEqual
<1> QED  BY <1>5

LEMMA StreamStep ==
  ASSUME FilesTypes, WriterInv, StreamInv, [FilesNext]_filesVars
  PROVE  StreamInv'
<1> SUFFICES ASSUME prog' \in {"03v1", "03v2"} PROVE StreamInv'
  BY DEF StreamInv
<1>0. prog' = prog
  BY DEF FilesNext, Open, Fill, Show, Put, Close, Exit, Ended, filesVars
<1>p. prog \in {"03v1", "03v2"} /\ prog \in Stdio
  BY <1>0 DEF Stdio
<1>s. 1 \in Streams /\ 2 \in Streams /\ \A j \in Streams : j = 1 \/ j = 2
  BY DEF Streams
<1>c. ClosedFirst' = ClosedFirst
  BY <1>0 DEF ClosedFirst
<1>f. PICK f \in Streams : f = ClosedFirst
  BY <1>s DEF ClosedFirst
<1>l. PICK l \in Streams : l = Other(ClosedFirst) /\ l = 3 - f /\ l # f
  BY <1>f, OtherStream DEF Other
<1>g. \A j \in Streams : j = f \/ j = l
  BY <1>s, <1>f, <1>l
<1>d. /\ \A i \in Streams : \A k \in 1 .. Len(buf[i]) : buf[i][k] = Letter(i, k)
      /\ at[1] # "start" /\ at[1] # "done" /\ at[2] # "done" => file = <<>>
      /\ at[l] = "done" => at[f] = "done" /\ file = Own(l)
      /\ at[f] = "done" /\ at[l] # "done" => at[l] # "start" /\ file = Own(f)
  BY <1>p, <1>f, <1>l DEF StreamInv
<1>w. /\ \A j \in Streams :
           /\ at[j] = "done" \/ pos[j] = 0
           /\ at[j] = "close" => pos[j] + Len(buf[j]) = Letters
      /\ at[2] # "start" => at[1] # "start"
  BY <1>p DEF WriterInv, Writing
<1> DEFINE Goal ==
      /\ \A i \in Streams : \A k \in 1 .. Len(buf'[i]) : buf'[i][k] = Letter(i, k)
      /\ at'[1] # "start" /\ at'[1] # "done" /\ at'[2] # "done" => file' = <<>>
      /\ at'[l] = "done" => at'[f] = "done" /\ file' = Own(l)
      /\ at'[f] = "done" /\ at'[l] # "done" => at'[l] # "start" /\ file' = Own(f)
<1>v. Goal => StreamInv'
  <2>1. Other(ClosedFirst)' = l /\ ClosedFirst' = f
    BY <1>c, <1>f, <1>l DEF Other
  <2> QED  BY <2>1 DEF StreamInv, Own, Letter
<1>1. ASSUME NEW i \in Streams, Open(i) PROVE Goal
  <2>1. /\ at[i] = "start"
        /\ at'[i] = "run" /\ \A j \in Streams : j # i => at'[j] = at[j]
        /\ file' = <<>> /\ buf' = buf
    BY <1>1, <1>p DEF Open, FilesTypes
  <2>2. at'[l] # "done" /\ at'[f] # "done"
    BY <1>d, <1>g, <2>1
  <2> QED  BY <1>d, <2>1, <2>2
<1>2. ASSUME NEW i \in Streams, Put(i) PROVE Goal
  <2>1. /\ at[i] = "run" /\ at'[i] \in {"run", "close"}
        /\ \A j \in Streams : j # i => at'[j] = at[j] /\ buf'[j] = buf[j]
        /\ file' = file
    BY <1>2, <1>p, PutCounts
  <2>2. PICK n \in Nat :
          /\ n = Letter(i, pos[i] + Len(buf[i]) + 1)
          /\ prog \in Stdio => buf' = [buf EXCEPT ![i] = Append(buf[i], n)]
    BY <1>2, PutPuts
  <2>3. buf[i] \in Seq(Nat) /\ Len(buf[i]) \in Nat /\ pos[i] = 0
    BY <1>w, <2>1, LenProperties DEF FilesTypes
  <2>4. n = Letter(i, Len(buf[i]) + 1)
    BY <2>2, <2>3
  <2>5. buf'[i] = Append(buf[i], n)
    BY <1>p, <2>2 DEF FilesTypes
  <2>6. \A k \in 1 .. Len(buf'[i]) : buf'[i][k] = Letter(i, k)
    <3>1. /\ Len(Append(buf[i], n)) = Len(buf[i]) + 1
          /\ \A k \in 1 .. Len(buf[i]) : Append(buf[i], n)[k] = buf[i][k]
          /\ Append(buf[i], n)[Len(buf[i]) + 1] = n
      BY <2>3, AppendProperties
    <3>2. \A k \in 1 .. Len(buf[i]) + 1 : k \in 1 .. Len(buf[i]) \/ k = Len(buf[i]) + 1
      BY <2>3
    <3> QED  BY <1>d, <2>4, <2>5, <3>1, <3>2
  <2> QED  BY <1>d, <1>g, <1>s, <2>1, <2>6
<1>3. ASSUME NEW i \in Streams, Close(i) PROVE Goal
  <2>1. /\ at[i] = "close"
        /\ at'[i] = "done" /\ \A j \in Streams : j # i => at'[j] = at[j]
        /\ buf'[i] = <<>> /\ \A j \in Streams : j # i => buf'[j] = buf[j]
        /\ file' = Overlay(file, pos[i], buf[i])
    BY <1>3 DEF Close, FilesTypes
  <2>2. pos[i] = 0 /\ buf[i] \in Seq(Nat) /\ Len(buf[i]) \in Nat /\ Len(buf[i]) = Letters /\ file \in Seq(Nat)
    BY <1>w, <2>1, LenProperties DEF FilesTypes
  <2>3. Len(file) <= Letters => file' = Own(i)
    BY <1>d, <2>1, <2>2, FlushReplaces
  <2>4. Len(<<>>) <= Letters /\ Letters \in Nat
    BY EmptySeq, OpenFilesAssumption
  <2>5. \A j \in Streams : \A k \in 1 .. Len(buf'[j]) : buf'[j][k] = Letter(j, k)
    <3>1. \A k \in 1 .. Len(buf'[i]) : FALSE
      BY <2>1, EmptySeq
    <3> QED  BY <1>d, <2>1, <3>1
  <2>6. CASE i = f
    <3>1. at[l] # "done" /\ at[l] # "start"
      <4>1. CASE prog = "03v1"
        <5>1. i = 1 /\ l = 2
          BY <2>6, <4>1, <1>f, <1>l DEF ClosedFirst
        <5>2. at[2] = "close"
          BY <1>3, <4>1, <5>1 DEF Close, Other
        <5> QED  BY <5>1, <5>2
      <4>2. CASE prog = "03v2"
        <5>1. i = 2 /\ l = 1
          BY <2>6, <4>2, <1>f, <1>l DEF ClosedFirst
        <5>2. at[1] # "start"
          BY <1>w, <2>1, <5>1
        <5>3. at[1] # "done"
          BY <1>d, <2>1, <2>6, <5>1
        <5> QED  BY <5>1, <5>2, <5>3
      <4> QED  BY <1>p, <4>1, <4>2
    <3>2. file = <<>>
      BY <1>d, <1>s, <1>g, <1>l, <2>1, <2>6, <3>1
    <3>3. file' = Own(f)
      BY <2>3, <2>4, <2>6, <3>2
    <3>4. at'[l] # "done" /\ at'[l] # "start" /\ at'[f] = "done"
      BY <1>l, <2>1, <2>6, <3>1
    <3> QED  BY <1>s, <1>f, <1>g, <2>5, <3>3, <3>4
  <2>7. CASE i = l
    <3>1. at[f] = "done"
      <4>1. CASE prog = "03v1"
        <5>1. i = 2 /\ f = 1
          BY <2>7, <4>1, <1>f, <1>l DEF ClosedFirst
        <5> QED  BY <1>3, <4>1, <5>1 DEF Close, Other
      <4>2. CASE prog = "03v2"
        <5>1. i = 1 /\ f = 2
          BY <2>7, <4>2, <1>f, <1>l DEF ClosedFirst
        <5> QED  BY <1>3, <4>2, <5>1 DEF Close
      <4> QED  BY <1>p, <4>1, <4>2
    <3>2. file = Own(f)
      BY <1>d, <2>1, <2>7, <3>1
    <3>3. Len(file) <= Letters
      BY <2>4, <3>2, OwnLetters
    <3>4. at'[f] = "done" /\ at'[l] = "done" /\ file' = Own(l)
      BY <1>l, <2>1, <2>3, <2>7, <3>1, <3>3
    <3> QED  BY <1>s, <1>f, <1>l, <1>g, <2>5, <3>4
  <2> QED  BY <1>g, <2>6, <2>7
<1>4. ASSUME Exit PROVE Goal
  BY <1>4, <1>p DEF Exit
<1>5. ASSUME UNCHANGED filesVars PROVE Goal
  BY <1>5, <1>d DEF filesVars
<1>6. ASSUME NEW i \in Streams, Fill(i) \/ Show(i) PROVE FALSE
  BY <1>p, <1>6 DEF Fill, Show, Reading
<1>7. Goal
  <2> HIDE DEF Goal
  <2> QED  BY <1>1, <1>2, <1>3, <1>4, <1>5, <1>6 DEF FilesNext, Ended
<1> QED  BY <1>v, <1>7

LEMMA WriteInit == FilesInit => WriteInv
<1> SUFFICES ASSUME FilesInit PROVE WriteInv
  OBVIOUS
<1>1. FilesTypes
  BY FilesInitTypes
<1>2. /\ \A i \in Streams : at[i] = "start" /\ pos[i] = 0 /\ buf[i] = <<>>
      /\ turn = 1
  BY DEF FilesInit
<1>3. Letters \in Nat \ {0} /\ Len(<<>>) = 0 /\ Len(file) \in Nat
  BY <1>1, OpenFilesAssumption, EmptySeq, LenProperties DEF FilesTypes
<1>s. 1 \in Streams /\ 2 \in Streams
  BY DEF Streams
<1>4. WriterInv
  BY <1>2, <1>3, <1>s DEF WriterInv
<1>5. DescriptorInv
  <2> SUFFICES ASSUME prog \in {"02v3", "02v4"} PROVE DescriptorInv
    BY DEF DescriptorInv
  <2>1. prog \notin Reading
    BY DEF Reading
  <2>2. PICK n \in OldLengths : file = Old(n)
    BY <2>1 DEF FilesInit
  <2>3. n \in Nat /\ Old(n) \in [1 .. n -> Nat] /\ \A k \in 1 .. n : Old(n)[k] = 0
    BY OpenFilesAssumption DEF Old
  <2>4. Len(file) = n
    BY <2>2, <2>3, SequenceOf
  <2>5. \A k \in 1 .. Len(file) : file[k] = 0 /\ pos[1] < k /\ pos[2] < k
    BY <1>2, <1>s, <2>2, <2>3, <2>4
  <2>6. \A k \in 1 .. pos[2] : FALSE
    BY <1>2, <1>s
  <2> QED  BY <1>2, <1>s, <2>5, <2>6 DEF DescriptorInv, MayHold
<1>6. StreamInv
  <2>1. \A i \in Streams : \A k \in 1 .. Len(buf[i]) : FALSE
    BY <1>2, <1>3
  <2>2. ClosedFirst \in Streams /\ Other(ClosedFirst) \in Streams
    BY <1>s, OtherStream DEF ClosedFirst
  <2> QED  BY <1>2, <1>s, <2>1, <2>2 DEF StreamInv
<1> QED  BY <1>1, <1>4, <1>5, <1>6 DEF WriteInv

(* The inductive invariant of the programs that write.                     *)
THEOREM WriteInvariance == FilesSpec => []WriteInv
<1>1. WriteInv /\ [FilesNext]_filesVars => WriteInv'
  BY FilesStepTypes, WriterStep, DescriptorStep, StreamStep DEF WriteInv
<1> QED  BY <1>1, WriteInit, PTL DEF FilesSpec

(* However many letters are written, over a file of any length, and        *)
(* however the two threads run, the last writer of each place is the one   *)
(* the order of closing or the joins determine.                            *)
THEOREM LastWriterWinsHolds == FilesSpec => []LastWriterWins
<1>1. WriteInv => LastWriterWins
  <2> SUFFICES ASSUME WriteInv, prog \in Writing, Over PROVE LastWriterWins
    BY DEF LastWriterWins
  <2>s. 1 \in Streams /\ 2 \in Streams
    BY DEF Streams
  <2>t. Letters \in Nat /\ Len(file) \in Nat /\ pos[1] \in Nat /\ pos[2] \in Nat
    BY <2>s, OpenFilesAssumption, LenProperties DEF WriteInv, FilesTypes
  <2>1. \A i \in Streams : at[i] = "done"
    BY DEF Over, WriteInv, WriterInv
  <2>2. \A i \in Streams : /\ buf[i] = <<>>
                           /\ pos[i] = Letters \/ (prog = "02v4" /\ i = 2)
                           /\ pos[i] + Len(buf[i]) <= Letters
                           /\ prog \notin Stdio => pos[i] <= Len(file)
    BY <2>1 DEF WriteInv, WriterInv
  <2>3. pos[2] <= Letters
    BY <2>s, <2>t, <2>2, EmptySeq
  <2>4. pos[1] = Letters
    BY <2>s, <2>2
  <2>5. CASE prog \in {"02v3", "02v4"}
    <3>0. prog \notin Stdio
      BY <2>5 DEF Stdio
    <3>1. Len(file) >= Letters
      BY <2>s, <2>t, <2>2, <2>4, <3>0
    <3>2. \A k \in 1 .. Len(file) : MayHold(k, file[k])
      BY <2>5 DEF WriteInv, DescriptorInv
    <3>3. \A k \in Letters + 1 .. Len(file) : file[k] = 0
      <4> SUFFICES ASSUME NEW k \in Letters + 1 .. Len(file) PROVE file[k] = 0
        OBVIOUS
      <4>1. k \in 1 .. Len(file) /\ ~(k <= pos[1]) /\ ~(k <= pos[2])
        BY <2>t, <2>3, <2>4
      <4> QED  BY <3>2, <4>1 DEF MayHold, Streams
    <3>4. \A k \in 1 .. Letters :
            /\ prog = "02v4" /\ k <= pos[2] => file[k] \in {Letter(1, k), Letter(2, k)}
            /\ prog = "02v4" /\ k > pos[2] => file[k] = Letter(1, k)
            /\ prog = "02v3" => file[k] = Letter(2, k)
      <4> SUFFICES ASSUME NEW k \in 1 .. Letters
                   PROVE  /\ prog = "02v4" /\ k <= pos[2] => file[k] \in {Letter(1, k), Letter(2, k)}
                          /\ prog = "02v4" /\ k > pos[2] => file[k] = Letter(1, k)
                          /\ prog = "02v3" => file[k] = Letter(2, k)
        OBVIOUS
      <4>1. k \in 1 .. Len(file) /\ k <= pos[1]
        BY <2>t, <2>4, <3>1
      <4>2. \/ file[k] = Letter(1, k)
            \/ k <= pos[2] /\ file[k] = Letter(2, k)
        BY <2>t, <3>2, <4>1 DEF MayHold, Streams
      <4>3. prog = "02v3" => k \in 1 .. pos[2]
        BY <2>s, <2>t, <2>2
      <4>4. prog = "02v3" => file[k] = Letter(2, k)
        BY <4>3 DEF WriteInv, DescriptorInv
      <4>5. k > pos[2] => ~(k <= pos[2])
        BY <2>t
      <4> QED  BY <4>2, <4>4, <4>5
    <3>5. CASE prog = "02v3"
      BY <3>1, <3>3, <3>4, <3>5 DEF LastWriterWins
    <3>6. CASE prog = "02v4"
      <4>1. \A k \in 1 .. Letters : k <= pos[2] \/ k > pos[2]
        BY <2>t
      <4> QED  BY <3>1, <3>3, <3>4, <3>6, <4>1 DEF LastWriterWins
    <3> QED  BY <2>5, <3>5, <3>6
  <2>6. CASE prog \in {"03v1", "03v2"}
    <3>1. file = Own(Other(ClosedFirst)) /\ Other(ClosedFirst) \in Streams
      <4>1. Other(ClosedFirst) \in Streams
        BY <2>s, OtherStream DEF ClosedFirst
      <4> QED  BY <2>1, <2>6, <4>1 DEF WriteInv, StreamInv
    <3>2. prog = "03v1" => Other(ClosedFirst) = 2
      BY DEF Other, ClosedFirst
    <3>3. prog = "03v2" => Other(ClosedFirst) = 1
      BY DEF Other, ClosedFirst
    <3>4. Len(file) = Letters /\ \A k \in 1 .. Letters : file[k] = Letter(Other(ClosedFirst), k)
      BY <3>1, OwnLetters
    <3>5. Len(file) >= Letters
      BY <2>t, <3>4
    <3>6. prog \notin {"02v3", "02v4"}
      BY <2>6
    <3> QED  BY <2>6, <3>2, <3>3, <3>4, <3>5, <3>6 DEF LastWriterWins
  <2> QED  BY <2>5, <2>6 DEF Writing
<1> QED  BY <1>1, WriteInvariance, PTL

-----------------------------------------------------------------------------
(* What a reader has read ahead, and what of it it has printed.            *)
Elements(s) == {s[k] : k \in 1 .. Len(s)}

Told(out, i) == {out[k].letter : k \in {j \in 1 .. Len(out) : out[j].by = i}}

Rising(s) == \A j, k \in 1 .. Len(s) : j < k => s[j] < s[k]

InOrder(out) ==
  \A j, k \in 1 .. Len(out) : j < k /\ out[j].by = out[k].by => out[j].letter < out[k].letter

ReaderInv ==
  prog \in Reading =>
    /\ file = Text
    /\ InOrder(printed)
    /\ \A i \in Streams :
         /\ pos[i] <= TextLength
         /\ at[i] = "eof" => buf[i] = <<>> /\ pos[Place(i)] = TextLength
         /\ Rising(buf[i])
         /\ \A x \in Told(printed, i), y \in Elements(buf[i]) : x < y
         /\ Told(printed, i) \cup Elements(buf[i]) \subseteq 1 .. pos[Place(i)]

(* One descriptor gives each letter to one stream, two give each stream    *)
(* every letter.                                                           *)
SharedInv ==
  prog \in {"01v1", "01v2"} =>
    /\ 1 .. pos[1] \subseteq Told(printed, 1) \cup Elements(buf[1])
                             \cup Told(printed, 2) \cup Elements(buf[2])
    /\ \A x \in Told(printed, 1) \cup Elements(buf[1]), y \in Told(printed, 2) \cup Elements(buf[2]) : x # y

SeparateInv ==
  prog \in {"02v1", "02v2"} => \A i \in Streams : 1 .. pos[i] \subseteq Told(printed, i) \cup Elements(buf[i])

(* task_02 v1 reads a letter from each of its descriptors in turn.         *)
TurnsInv ==
  prog = "02v1" =>
    /\ \A i \in Streams : Len(buf[i]) <= 1
    /\ at[1] = "eof" <=> at[2] = "eof"
    /\ turn = 1 => buf[2] = <<>> /\ pos[1] = pos[2] + Len(buf[1])
    /\ turn = 2 => buf[1] = <<>> /\ pos[1] + Len(buf[2]) = pos[2] + 1

ReadInv == FilesTypes /\ ReaderInv /\ SharedInv /\ SeparateInv /\ TurnsInv

-----------------------------------------------------------------------------
LEMMA NoElements == Elements(<<>>) = {}
<1>1. 1 .. Len(<<>>) = {}
  BY EmptySeq
<1> QED  BY <1>1 DEF Elements

(* The first element of a rising sequence and those behind it.             *)
LEMMA TailElements ==
  ASSUME NEW s \in Seq(Nat), s # <<>>
  PROVE  /\ Head(s) \in Elements(s) /\ Elements(Tail(s)) \subseteq Elements(s)
         /\ Elements(s) \subseteq {Head(s)} \cup Elements(Tail(s))
         /\ Rising(s) => /\ Rising(Tail(s))
                         /\ \A y \in Elements(Tail(s)) : Head(s) < y
<1>1. Len(s) \in Nat \ {0} /\ Head(s) = s[1]
  BY EmptySeq
<1>2. /\ Len(Tail(s)) = Len(s) - 1
      /\ \A k \in 1 .. Len(Tail(s)) : Tail(s)[k] = s[k + 1]
  BY HeadTailProperties
<1>3. \A k \in 1 .. Len(Tail(s)) : k + 1 \in 1 .. Len(s) /\ 1 < k + 1
  BY <1>1, <1>2
<1>4. \A k \in 1 .. Len(s) : k = 1 \/ (k - 1 \in 1 .. Len(Tail(s)) /\ k - 1 + 1 = k)
  BY <1>1, <1>2
<1>5. Head(s) \in Elements(s)
  BY <1>1 DEF Elements
<1>6. Elements(Tail(s)) \subseteq Elements(s)
  BY <1>2, <1>3 DEF Elements
<1>7. Elements(s) \subseteq {Head(s)} \cup Elements(Tail(s))
  <2> SUFFICES ASSUME NEW k \in 1 .. Len(s) PROVE s[k] \in {Head(s)} \cup Elements(Tail(s))
    BY DEF Elements
  <2>1. CASE k = 1
    BY <1>1, <2>1
  <2>2. CASE k # 1
    <3>1. k - 1 \in 1 .. Len(Tail(s)) /\ Tail(s)[k - 1] = s[k]
      BY <1>2, <1>4, <2>2
    <3> QED  BY <3>1 DEF Elements
  <2> QED  BY <2>1, <2>2
<1>8. Rising(s) => \A y \in Elements(Tail(s)) : Head(s) < y
  <2> SUFFICES ASSUME Rising(s), NEW k \in 1 .. Len(Tail(s)) PROVE Head(s) < Tail(s)[k]
    BY DEF Elements
  <2>1. 1 \in 1 .. Len(s) /\ k + 1 \in 1 .. Len(s) /\ 1 < k + 1
    BY <1>1, <1>3
  <2> QED  BY <1>1, <1>2, <2>1 DEF Rising
<1>9. Rising(s) => Rising(Tail(s))
  <2> SUFFICES ASSUME Rising(s), NEW j \in 1 .. Len(Tail(s)), NEW k \in 1 .. Len(Tail(s)), j < k
               PROVE  Tail(s)[j] < Tail(s)[k]
    BY DEF Rising
  <2>1. j + 1 \in 1 .. Len(s) /\ k + 1 \in 1 .. Len(s) /\ j + 1 < k + 1
    BY <1>3
  <2> QED  BY <1>2, <2>1 DEF Rising
<1> QED  BY <1>5, <1>6, <1>7, <1>8, <1>9

(* What one more letter printed adds to what a stream has printed.         *)
LEMMA ToldAppend ==
  ASSUME NEW out \in Seq([by : Streams, letter : Nat]), NEW i \in Streams, NEW n \in Nat
  PROVE  LET more == Append(out, [by |-> i, letter |-> n]) IN
         /\ Told(more, i) = Told(out, i) \cup {n}
         /\ \A j \in Streams : j # i => Told(more, j) = Told(out, j)
         /\ InOrder(out) /\ (\A x \in Told(out, i) : x < n) => InOrder(more)
<1> DEFINE e == [by |-> i, letter |-> n]
           more == Append(out, e)
           m == Len(out)
<1>1. e \in [by : Streams, letter : Nat] /\ e.by = i /\ e.letter = n
  OBVIOUS
<1>2. m \in Nat
  BY LenProperties
<1> HIDE DEF e
<1>3. /\ Len(more) = m + 1
      /\ \A k \in 1 .. m : more[k] = out[k]
      /\ more[m + 1] = e
  BY <1>1, AppendProperties
<1> HIDE DEF more
<1>4. \A k : k \in 1 .. Len(more) <=> k \in 1 .. m \/ k = m + 1
  BY <1>2, <1>3
<1>5. m + 1 \notin 1 .. m
  BY <1>2
<1>6. Told(more, i) = Told(out, i) \cup {n}
  <2>1. ASSUME NEW x PROVE x \in Told(more, i) <=> x \in Told(out, i) \cup {n}
    <3>1. x \in Told(more, i) <=> \E k \in 1 .. Len(more) : more[k].by = i /\ x = more[k].letter
      BY DEF Told
    <3>2. x \in Told(out, i) <=> \E k \in 1 .. m : out[k].by = i /\ x = out[k].letter
      BY DEF Told
    <3> QED  BY <1>1, <1>3, <1>4, <3>1, <3>2
  <2> QED  BY <2>1
<1>7. ASSUME NEW j \in Streams, j # i PROVE Told(more, j) = Told(out, j)
  <2>1. ASSUME NEW x PROVE x \in Told(more, j) <=> x \in Told(out, j)
    <3>1. x \in Told(more, j) <=> \E k \in 1 .. Len(more) : more[k].by = j /\ x = more[k].letter
      BY DEF Told
    <3>2. x \in Told(out, j) <=> \E k \in 1 .. m : out[k].by = j /\ x = out[k].letter
      BY DEF Told
    <3> QED  BY <1>1, <1>3, <1>4, <1>7, <3>1, <3>2
  <2> QED  BY <2>1
<1>8. ASSUME InOrder(out), \A x \in Told(out, i) : x < n PROVE InOrder(more)
  <2> SUFFICES ASSUME NEW j \in 1 .. Len(more), NEW k \in 1 .. Len(more),
                      j < k, more[j].by = more[k].by
               PROVE  more[j].letter < more[k].letter
    BY DEF InOrder
  <2>1. j \in 1 .. m
    BY <1>2, <1>3
  <2>2. CASE k \in 1 .. m
    BY <1>3, <1>8, <2>1, <2>2 DEF InOrder
  <2>3. CASE k = m + 1
    <3>1. out[j].by = i /\ more[j].letter = out[j].letter /\ more[k].letter = n
      BY <1>1, <1>3, <2>1, <2>3
    <3>2. out[j].letter \in Told(out, i)
      BY <2>1, <3>1 DEF Told
    <3> QED  BY <1>8, <3>1, <3>2
  <2> QED  BY <1>4, <2>2, <2>3
<1> QED  BY <1>6, <1>7, <1>8 DEF more, e

(* What a read adds to what a stream holds.                                *)
LEMMA FillHolds ==
  ASSUME FilesTypes, ReaderInv, NEW i \in Streams, Fill(i)
  PROVE  \E n \in Nat :
           /\ prog \in Reading /\ prog' = prog /\ turn' = turn /\ printed' = printed /\ file' = file
           /\ Place(i) \in Streams /\ at[i] = "run" /\ buf[i] = <<>>
           /\ pos' = [pos EXCEPT ![Place(i)] = pos[Place(i)] + n]
           /\ pos[Place(i)] + n <= TextLength
           /\ prog \in {"02v1", "02v2"} => n <= 1
           /\ \A j \in Streams : j # i => buf'[j] = buf[j]
           /\ Len(buf'[i]) = n /\ (n = 0 => buf'[i] = <<>> /\ pos[Place(i)] = TextLength)
           /\ Rising(buf'[i])
           /\ Elements(buf'[i]) = pos[Place(i)] + 1 .. pos[Place(i)] + n
           /\ at' = [j \in Streams |-> IF n = 0 /\ (j = i \/ prog = "02v1")
                                       THEN "eof" ELSE at[j]]
<1>1. /\ prog \in Reading /\ prog' = prog /\ turn' = turn /\ printed' = printed /\ file' = file
      /\ at[i] = "run" /\ buf[i] = <<>>
  BY DEF Fill, MayRun
<1>2. PICK s \in Seq(Nat) :
           /\ \A k \in 1 .. Len(s) : s[k] = file[pos[Place(i)] + k]
           /\ Place(i) \in Streams
           /\ pos[Place(i)] + Len(s) <= Len(file) \/ s = <<>>
           /\ s = <<>> => pos[Place(i)] >= Len(file)
           /\ prog \in {"02v1", "02v2"} => Len(s) <= 1
           /\ pos' = [pos EXCEPT ![Place(i)] = pos[Place(i)] + Len(s)]
           /\ buf' = [buf EXCEPT ![i] = s]
           /\ at' = [j \in Streams |-> IF s = <<>> /\ (j = i \/ prog = "02v1")
                                       THEN "eof" ELSE at[j]]
  BY FillGets
<1>3. PICK p \in Nat : p = pos[Place(i)]
  BY <1>2 DEF FilesTypes
<1>4. PICK n \in Nat : n = Len(s)
  BY LenProperties
<1>5. file = Text /\ p <= TextLength /\ TextLength \in Nat
  BY <1>1, <1>2, <1>3, OpenFilesAssumption DEF ReaderInv
<1>6. Len(file) = TextLength /\ \A k \in 1 .. TextLength : file[k] = k
  <2>1. Text \in [1 .. TextLength -> Nat] /\ \A k \in 1 .. TextLength : Text[k] = k
    BY <1>5 DEF Text
  <2> QED  BY <1>5, <2>1, SequenceOf
<1>7. s = <<>> <=> n = 0
  BY <1>4, EmptySeq
<1>8. p + n <= TextLength /\ (n = 0 => p = TextLength)
  BY <1>2, <1>3, <1>4, <1>5, <1>6, <1>7
<1>9. \A k \in 1 .. n : s[k] = p + k
  <2> SUFFICES ASSUME NEW k \in 1 .. n PROVE s[k] = p + k
    OBVIOUS
  <2>1. p + k \in 1 .. TextLength
    BY <1>5, <1>8
  <2> QED  BY <1>2, <1>3, <1>4, <1>6, <2>1
<1>10. Rising(s)
  BY <1>4, <1>9 DEF Rising
<1>11. Elements(s) = p + 1 .. p + n
  <2>1. Elements(s) \subseteq p + 1 .. p + n
    BY <1>4, <1>9 DEF Elements
  <2>2. ASSUME NEW x \in p + 1 .. p + n PROVE x \in Elements(s)
    <3>1. x - p \in 1 .. n /\ p + (x - p) = x
      OBVIOUS
    <3> QED  BY <1>4, <1>9, <3>1 DEF Elements
  <2> QED  BY <2>1, <2>2
<1>12. buf'[i] = s /\ \A j \in Streams : j # i => buf'[j] = buf[j]
  BY <1>2 DEF FilesTypes
<1>13. at' = [j \in Streams |-> IF n = 0 /\ (j = i \/ prog = "02v1") THEN "eof" ELSE at[j]]
  BY <1>2, <1>7
<1>14. /\ pos' = [pos EXCEPT ![Place(i)] = pos[Place(i)] + n]
       /\ pos[Place(i)] + n <= TextLength
       /\ n = 0 => buf'[i] = <<>> /\ pos[Place(i)] = TextLength
       /\ prog \in {"02v1", "02v2"} => n <= 1
       /\ Elements(buf'[i]) = pos[Place(i)] + 1 .. pos[Place(i)] + n
  BY <1>2, <1>3, <1>4, <1>7, <1>8, <1>11, <1>12
<1> WITNESS n \in Nat
<1> QED  BY <1>1, <1>2, <1>4, <1>10, <1>12, <1>13, <1>14

(* What a letter printed moves from what a stream holds to what it said.   *)
LEMMA ShowShows ==
  ASSUME FilesTypes, ReaderInv, NEW i \in Streams, Show(i)
  PROVE  \E n \in Nat :
           /\ prog \in Reading /\ prog' = prog /\ turn' = Other(i) /\ pos' = pos /\ file' = file
           /\ at' = at /\ at[i] = "run"
           /\ \A j \in Streams : j # i => buf'[j] = buf[j]
           /\ Len(buf[i]) \in Nat \ {0} /\ Len(buf'[i]) = Len(buf[i]) - 1
           /\ Rising(buf'[i]) /\ InOrder(printed')
           /\ n \in Elements(buf[i])
           /\ Elements(buf'[i]) \subseteq Elements(buf[i])
           /\ Elements(buf[i]) \subseteq {n} \cup Elements(buf'[i])
           /\ \A y \in Elements(buf'[i]) : n < y
           /\ Told(printed', i) = Told(printed, i) \cup {n}
           /\ \A j \in Streams : j # i => Told(printed', j) = Told(printed, j)
<1>1. /\ prog \in Reading /\ prog' = prog /\ turn' = Other(i) /\ pos' = pos /\ file' = file
      /\ at' = at /\ at[i] = "run" /\ buf[i] # <<>> /\ buf[i] \in Seq(Nat)
      /\ printed' = Append(printed, [by |-> i, letter |-> Head(buf[i])])
      /\ buf'[i] = Tail(buf[i]) /\ \A j \in Streams : j # i => buf'[j] = buf[j]
  BY DEF Show, MayRun, FilesTypes
<1>2. /\ Len(buf[i]) \in Nat \ {0} /\ Len(buf'[i]) = Len(buf[i]) - 1
      /\ Head(buf[i]) \in Nat
  BY <1>1, EmptySeq, HeadTailProperties
<1>3. Rising(buf[i]) /\ InOrder(printed) /\ \A x \in Told(printed, i), y \in Elements(buf[i]) : x < y
  BY <1>1 DEF ReaderInv
<1>4. /\ Head(buf[i]) \in Elements(buf[i]) /\ Elements(buf'[i]) \subseteq Elements(buf[i])
      /\ Elements(buf[i]) \subseteq {Head(buf[i])} \cup Elements(buf'[i])
      /\ Rising(buf'[i])
      /\ \A y \in Elements(buf'[i]) : Head(buf[i]) < y
  BY <1>1, <1>3, TailElements
<1>5. PICK n \in Nat : n = Head(buf[i])
  BY <1>2
<1>6. printed \in Seq([by : Streams, letter : Nat])
      /\ printed' = Append(printed, [by |-> i, letter |-> n])
      /\ \A x \in Told(printed, i) : x < n
  BY <1>1, <1>3, <1>4, <1>5 DEF FilesTypes
<1> DEFINE more == Append(printed, [by |-> i, letter |-> n])
<1>8. /\ Told(more, i) = Told(printed, i) \cup {n}
      /\ \A j \in Streams : j # i => Told(more, j) = Told(printed, j)
      /\ InOrder(printed) /\ (\A x \in Told(printed, i) : x < n) => InOrder(more)
  <2>1. printed \in Seq([by : Streams, letter : Nat])
    BY <1>6
  <2> QED  BY <2>1, ToldAppend
<1>9. printed' = more
  BY <1>6
<1> HIDE DEF more
<1>7. /\ Told(printed', i) = Told(printed, i) \cup {n}
      /\ \A j \in Streams : j # i => Told(printed', j) = Told(printed, j)
      /\ InOrder(printed')
  BY <1>3, <1>6, <1>8, <1>9
<1> WITNESS n \in Nat
<1> QED  BY <1>1, <1>2, <1>4, <1>5, <1>7

LEMMA PlaceStays == ASSUME prog' = prog, NEW i \in Streams PROVE Place(i)' = Place(i) /\ Place(i) \in Streams
BY DEF Place, Streams

LEMMA ReaderStep ==
  ASSUME FilesTypes, ReaderInv, TurnsInv, [FilesNext]_filesVars
  PROVE  ReaderInv'
<1> SUFFICES ASSUME prog' \in Reading PROVE ReaderInv'
  BY DEF ReaderInv
<1>0. prog' = prog /\ prog \in Reading
  BY DEF FilesNext, Open, Fill, Show, Put, Close, Exit, Ended, filesVars
<1>t. (\A j \in Streams : pos[j] \in Nat) /\ TextLength \in Nat
  BY OpenFilesAssumption DEF FilesTypes
<1>r. /\ file = Text
      /\ InOrder(printed)
      /\ \A j \in Streams :
           /\ pos[j] <= TextLength
           /\ at[j] = "eof" => buf[j] = <<>> /\ pos[Place(j)] = TextLength
           /\ Rising(buf[j])
           /\ \A x \in Told(printed, j), y \in Elements(buf[j]) : x < y
           /\ Told(printed, j) \cup Elements(buf[j]) \subseteq 1 .. pos[Place(j)]
  BY <1>0 DEF ReaderInv
<1>p. \A j \in Streams : Place(j)' = Place(j) /\ Place(j) \in Streams
  BY <1>0, PlaceStays
<1>v. ASSUME file' = Text, InOrder(printed'),
             \A j \in Streams :
               /\ pos'[j] <= TextLength
               /\ at'[j] = "eof" => buf'[j] = <<>> /\ pos'[Place(j)] = TextLength
               /\ Rising(buf'[j])
               /\ \A x \in Told(printed', j), y \in Elements(buf'[j]) : x < y
               /\ Told(printed', j) \cup Elements(buf'[j]) \subseteq 1 .. pos'[Place(j)]
      PROVE  ReaderInv'
  <2>1. Text' = Text
    BY DEF Text
  <2> QED  BY <1>p, <1>v, <2>1 DEF ReaderInv
<1>1. ASSUME NEW i \in Streams, Open(i) PROVE ReaderInv'
  <2>1. /\ file' = file /\ pos' = pos /\ buf' = buf /\ printed' = printed
        /\ at'[i] = "run" /\ \A j \in Streams : j # i => at'[j] = at[j]
    BY <1>1, <1>0 DEF Open, FilesTypes, Reading
  <2>2. \A j \in Streams : at'[j] = "eof" => at[j] = "eof"
    BY <2>1
  <2> QED  BY <1>r, <1>v, <2>1, <2>2
<1>2. ASSUME NEW i \in Streams, Fill(i) PROVE ReaderInv'
  <2>1. PICK n \in Nat :
           /\ prog \in Reading /\ prog' = prog /\ turn' = turn /\ printed' = printed /\ file' = file
           /\ Place(i) \in Streams /\ at[i] = "run" /\ buf[i] = <<>>
           /\ pos' = [pos EXCEPT ![Place(i)] = pos[Place(i)] + n]
           /\ pos[Place(i)] + n <= TextLength
           /\ \A j \in Streams : j # i => buf'[j] = buf[j]
           /\ n = 0 => buf'[i] = <<>> /\ pos[Place(i)] = TextLength
           /\ Rising(buf'[i])
           /\ Elements(buf'[i]) = pos[Place(i)] + 1 .. pos[Place(i)] + n
           /\ at' = [j \in Streams |-> IF n = 0 /\ (j = i \/ prog = "02v1")
                                       THEN "eof" ELSE at[j]]
    BY <1>2, FillHolds
  <2>2. PICK p \in Nat : p = pos[Place(i)]
    BY <1>t, <2>1
  <2>3. /\ pos'[Place(i)] = p + n
        /\ \A q \in Streams : q # Place(i) => pos'[q] = pos[q]
    BY <2>1, <2>2 DEF FilesTypes
  <2>4. /\ \A q \in Streams : pos'[q] <= TextLength /\ pos'[q] \in Nat /\ pos[q] <= pos'[q]
        /\ \A q \in Streams : pos[q] = TextLength => pos'[q] = TextLength
    BY <1>r, <1>t, <2>1, <2>2, <2>3
  <2>5. Elements(buf'[i]) = p + 1 .. p + n
    BY <2>1, <2>2
  <2>6. \A x \in Told(printed, i) : x \in 1 .. p
    BY <1>r, <2>2
  <2>7. \A x \in Told(printed, i), y \in Elements(buf'[i]) : x < y
    BY <2>5, <2>6
  <2>8. Told(printed, i) \cup Elements(buf'[i]) \subseteq 1 .. p + n
    BY <2>5, <2>6
  <2>9. ASSUME NEW j \in Streams, j # i
        PROVE  Told(printed, j) \cup Elements(buf[j]) \subseteq 1 .. pos'[Place(j)]
    <3>1. pos[Place(j)] <= pos'[Place(j)] /\ pos[Place(j)] \in Nat /\ pos'[Place(j)] \in Nat
      BY <1>p, <1>t, <2>4
    <3> QED  BY <1>r, <3>1
  <2>10. ASSUME NEW j \in Streams, at'[j] = "eof"
         PROVE  buf'[j] = <<>> /\ pos'[Place(j)] = TextLength
    <3>1. CASE at[j] = "eof"
      <4>1. buf[j] = <<>> /\ pos[Place(j)] = TextLength /\ j # i
        BY <1>r, <2>1, <3>1
      <4> QED  BY <1>p, <2>1, <2>4, <4>1
    <3>2. CASE at[j] # "eof"
      <4>1. n = 0 /\ (j = i \/ prog = "02v1")
        BY <2>1, <2>10, <3>2
      <4>2. CASE j = i
        BY <1>p, <2>1, <2>4, <4>1, <4>2
      <4>3. CASE j # i
        <5>0. prog = "02v1" /\ Place(1) = 1 /\ Place(2) = 2 /\ Other(i) = j
          BY <4>1, <4>3 DEF Place, Other, Streams
        <5>1. at[Other(i)] # "eof"
          BY <3>2, <5>0
        <5>2. turn = i
          BY <1>2, <5>0, <5>1 DEF Fill, MayRun, Threaded
        <5>s. 1 \in Streams /\ 2 \in Streams /\ Len(<<>>) = 0
          BY EmptySeq DEF Streams
        <5>3. CASE i = 1
          <6>1. j = 2 /\ buf[2] = <<>> /\ pos[1] = pos[2] + 0 /\ pos[1] = TextLength
            BY <2>1, <4>1, <5>0, <5>2, <5>3, <5>s DEF Other, TurnsInv
          <6>2. pos[2] = TextLength
            BY <1>t, <5>s, <6>1
          <6> QED  BY <2>1, <2>4, <4>3, <5>0, <5>s, <6>1, <6>2
        <5>4. CASE i = 2
          <6>1. pos[1] + 0 = pos[2] + 1 /\ pos[2] = TextLength
            BY <2>1, <4>1, <5>0, <5>2, <5>4, <5>s DEF TurnsInv
          <6>2. pos[1] <= TextLength
            BY <1>r, <5>s
          <6> QED  BY <1>t, <5>s, <6>1, <6>2
        <5> QED  BY <5>3, <5>4 DEF Streams
      <4> QED  BY <4>2, <4>3
    <3> QED  BY <3>1, <3>2
  <2>11. ASSUME NEW j \in Streams
         PROVE  /\ Rising(buf'[j])
                /\ \A x \in Told(printed', j), y \in Elements(buf'[j]) : x < y
                /\ Told(printed', j) \cup Elements(buf'[j]) \subseteq 1 .. pos'[Place(j)]
    <3>1. CASE j = i
      BY <2>1, <2>3, <2>7, <2>8, <3>1
    <3>2. CASE j # i
      BY <1>r, <2>1, <2>9, <3>2
    <3> QED  BY <3>1, <3>2
  <2> QED  BY <1>r, <1>v, <2>1, <2>4, <2>10, <2>11
<1>3. ASSUME NEW i \in Streams, Show(i) PROVE ReaderInv'
  <2>1. PICK n \in Nat :
           /\ prog \in Reading /\ prog' = prog /\ pos' = pos /\ file' = file
           /\ at' = at /\ at[i] = "run"
           /\ \A j \in Streams : j # i => buf'[j] = buf[j]
           /\ Rising(buf'[i]) /\ InOrder(printed')
           /\ n \in Elements(buf[i])
           /\ Elements(buf'[i]) \subseteq Elements(buf[i])
           /\ Elements(buf[i]) \subseteq {n} \cup Elements(buf'[i])
           /\ \A y \in Elements(buf'[i]) : n < y
           /\ Told(printed', i) = Told(printed, i) \cup {n}
           /\ \A j \in Streams : j # i => Told(printed', j) = Told(printed, j)
    BY <1>3, ShowShows
  <2>2. ASSUME NEW j \in Streams
        PROVE  /\ Rising(buf'[j])
               /\ \A x \in Told(printed', j), y \in Elements(buf'[j]) : x < y
               /\ Told(printed', j) \cup Elements(buf'[j]) \subseteq 1 .. pos'[Place(j)]
    <3>1. CASE j = i
      <4>1. \A x \in Told(printed', i), y \in Elements(buf'[i]) : x < y
        BY <1>r, <2>1
      <4>2. Told(printed', i) \cup Elements(buf'[i]) \subseteq Told(printed, i) \cup Elements(buf[i])
        BY <2>1
      <4> QED  BY <1>r, <2>1, <3>1, <4>1, <4>2
    <3>2. CASE j # i
      BY <1>r, <2>1, <3>2
    <3> QED  BY <3>1, <3>2
  <2>3. \A j \in Streams : at'[j] = "eof" => buf'[j] = <<>> /\ pos'[Place(j)] = TextLength
    BY <1>r, <2>1
  <2> QED  BY <1>r, <1>v, <2>1, <2>2, <2>3
<1>4. ASSUME NEW i \in Streams, Put(i) \/ Close(i) \/ Exit PROVE FALSE
  <2>1. at[i] # "close"
    BY <1>0 DEF FilesTypes
  <2> QED  BY <1>0, <1>4, <2>1 DEF Put, Close, Exit, Reading, Writing
<1>5. CASE UNCHANGED filesVars
  <2>1. UNCHANGED <<file, pos, buf, at, printed>>
    BY <1>5 DEF filesVars
  <2> QED  BY <1>r, <1>v, <2>1
<1> QED  BY <1>1, <1>2, <1>3, <1>4, <1>5, 1 \in {1, 2} DEF FilesNext, Ended, Streams

(* The streams of one descriptor share the letters.                        *)
LEMMA SharedStep ==
  ASSUME FilesTypes, ReaderInv, SharedInv, [FilesNext]_filesVars
  PROVE  SharedInv'
<1> SUFFICES ASSUME prog' \in {"01v1", "01v2"} PROVE SharedInv'
  BY DEF SharedInv
<1>0. prog' = prog
  BY DEF FilesNext, Open, Fill, Show, Put, Close, Exit, Ended, filesVars
<1>m. prog \in {"01v1", "01v2"} /\ prog \in Reading /\ \A j \in Streams : Place(j) = 1
  BY <1>0 DEF Place, Reading
<1>s. 1 \in Streams /\ 2 \in Streams /\ \A j \in Streams : j = 1 \/ j = 2
  BY DEF Streams
<1>a. /\ \A x \in 1 .. pos[1] : \E j \in Streams : x \in Told(printed, j) \cup Elements(buf[j])
      /\ \A j, k \in Streams : \A x \in Told(printed, j) \cup Elements(buf[j]),
                                   y \in Told(printed, k) \cup Elements(buf[k]) : j # k => x # y
  BY <1>m, <1>s DEF SharedInv
<1>b. \A j \in Streams : Told(printed, j) \cup Elements(buf[j]) \subseteq 1 .. pos[1]
  BY <1>m DEF ReaderInv
<1>v. ASSUME \A x \in 1 .. pos'[1] : \E j \in Streams : x \in Told(printed', j) \cup Elements(buf'[j]),
             \A x \in Told(printed', 1) \cup Elements(buf'[1]),
                y \in Told(printed', 2) \cup Elements(buf'[2]) : x # y
      PROVE  SharedInv'
  BY <1>s, <1>v DEF SharedInv
<1>1. ASSUME UNCHANGED <<pos, buf, printed>> PROVE SharedInv'
  BY <1>0, <1>1, <1>m DEF SharedInv
<1>2. ASSUME NEW i \in Streams, Fill(i) PROVE SharedInv'
  <2>1. PICK n \in Nat :
           /\ printed' = printed /\ buf[i] = <<>>
           /\ pos' = [pos EXCEPT ![Place(i)] = pos[Place(i)] + n]
           /\ \A j \in Streams : j # i => buf'[j] = buf[j]
           /\ Elements(buf'[i]) = pos[Place(i)] + 1 .. pos[Place(i)] + n
    BY <1>2, FillHolds
  <2>2. PICK p \in Nat : p = pos[1]
    BY <1>s DEF FilesTypes
  <2>3. pos'[1] = p + n /\ Elements(buf'[i]) = p + 1 .. p + n /\ Elements(buf[i]) = {}
    BY <1>m, <1>s, <2>1, <2>2, NoElements DEF FilesTypes
  <2>4. ASSUME NEW x \in 1 .. p + n
        PROVE  \E j \in Streams : x \in Told(printed', j) \cup Elements(buf'[j])
    <3>1. CASE x \in 1 .. p
      <4>1. PICK j \in Streams : x \in Told(printed, j) \cup Elements(buf[j])
        BY <1>a, <2>2, <3>1
      <4>2. x \in Told(printed', j) \cup Elements(buf'[j])
        BY <2>1, <2>3, <4>1
      <4> QED  BY <4>2
    <3>2. CASE x \notin 1 .. p
      <4>1. x \in p + 1 .. p + n
        BY <3>2
      <4> QED  BY <2>3, <4>1
    <3> QED  BY <3>1, <3>2
  <2>5. ASSUME NEW j \in Streams, j # i,
               NEW x \in Told(printed, j) \cup Elements(buf[j]),
               NEW y \in Told(printed, i) \cup Elements(buf'[i])
        PROVE  x # y
    <3>1. x \in 1 .. p
      BY <1>b, <2>2
    <3>2. CASE y \in Told(printed, i)
      BY <1>a, <2>5, <3>2
    <3>3. CASE y \in p + 1 .. p + n
      BY <3>1, <3>3
    <3> QED  BY <2>3, <3>2, <3>3
  <2>6. CASE i = 1
    <3>1. /\ Told(printed', 2) \cup Elements(buf'[2]) = Told(printed, 2) \cup Elements(buf[2])
          /\ Told(printed', 1) \cup Elements(buf'[1]) = Told(printed, 1) \cup Elements(buf'[1])
      BY <1>s, <2>1, <2>6
    <3>2. \A x \in Told(printed, 2) \cup Elements(buf[2]),
             y \in Told(printed, 1) \cup Elements(buf'[1]) : x # y
      BY <1>s, <2>5, <2>6
    <3>3. \A x \in Told(printed', 1) \cup Elements(buf'[1]),
             y \in Told(printed', 2) \cup Elements(buf'[2]) : x # y
      BY <3>1, <3>2
    <3>4. \A x \in 1 .. pos'[1] : \E j \in Streams : x \in Told(printed', j) \cup Elements(buf'[j])
      BY <2>3, <2>4
    <3> QED  BY <1>v, <3>3, <3>4
  <2>7. CASE i = 2
    <3>1. /\ Told(printed', 1) \cup Elements(buf'[1]) = Told(printed, 1) \cup Elements(buf[1])
          /\ Told(printed', 2) \cup Elements(buf'[2]) = Told(printed, 2) \cup Elements(buf'[2])
      BY <1>s, <2>1, <2>7
    <3>2. \A x \in Told(printed, 1) \cup Elements(buf[1]),
             y \in Told(printed, 2) \cup Elements(buf'[2]) : x # y
      BY <1>s, <2>5, <2>7
    <3>3. \A x \in Told(printed', 1) \cup Elements(buf'[1]),
             y \in Told(printed', 2) \cup Elements(buf'[2]) : x # y
      BY <3>1, <3>2
    <3>4. \A x \in 1 .. pos'[1] : \E j \in Streams : x \in Told(printed', j) \cup Elements(buf'[j])
      BY <2>3, <2>4
    <3> QED  BY <1>v, <3>3, <3>4
  <2> QED  BY <1>s, <2>6, <2>7
<1>3. ASSUME NEW i \in Streams, Show(i) PROVE SharedInv'
  <2>1. PICK n \in Nat :
           /\ pos' = pos
           /\ \A j \in Streams : j # i => buf'[j] = buf[j]
           /\ n \in Elements(buf[i])
           /\ Elements(buf'[i]) \subseteq Elements(buf[i])
           /\ Elements(buf[i]) \subseteq {n} \cup Elements(buf'[i])
           /\ Told(printed', i) = Told(printed, i) \cup {n}
           /\ \A j \in Streams : j # i => Told(printed', j) = Told(printed, j)
    BY <1>3, ShowShows
  <2>2. \A j \in Streams : Told(printed', j) \cup Elements(buf'[j]) = Told(printed, j) \cup Elements(buf[j])
    <3>1. Told(printed', i) \cup Elements(buf'[i]) = Told(printed, i) \cup Elements(buf[i])
      BY <2>1
    <3> QED  BY <2>1, <3>1
  <2> QED  BY <1>a, <1>s, <1>v, <2>1, <2>2
<1>4. ASSUME NEW i \in Streams, Put(i) \/ Close(i) \/ Exit PROVE FALSE
  <2>1. at[i] # "close"
    BY <1>m DEF FilesTypes
  <2> QED  BY <1>m, <1>4, <2>1 DEF Put, Close, Exit, Reading, Writing
<1>5. ASSUME NEW i \in Streams, Open(i) PROVE SharedInv'
  BY <1>1, <1>5 DEF Open
<1>6. CASE UNCHANGED filesVars
  BY <1>1, <1>6 DEF filesVars
<1> QED  BY <1>2, <1>3, <1>4, <1>5, <1>6, <1>s DEF FilesNext, Ended

(* A descriptor of its own gives a stream every letter.                    *)
LEMMA SeparateStep ==
  ASSUME FilesTypes, ReaderInv, SeparateInv, [FilesNext]_filesVars
  PROVE  SeparateInv'
<1> SUFFICES ASSUME prog' \in {"02v1", "02v2"} PROVE SeparateInv'
  BY DEF SeparateInv
<1>0. prog' = prog
  BY DEF FilesNext, Open, Fill, Show, Put, Close, Exit, Ended, filesVars
<1>m. prog \in {"02v1", "02v2"} /\ prog \in Reading /\ \A j \in Streams : Place(j) = j
  BY <1>0 DEF Place, Reading
<1>s. 1 \in Streams
  BY DEF Streams
<1>a. \A j \in Streams : 1 .. pos[j] \subseteq Told(printed, j) \cup Elements(buf[j])
  BY <1>m DEF SeparateInv
<1>1. ASSUME UNCHANGED <<pos, buf, printed>> PROVE SeparateInv'
  BY <1>0, <1>1, <1>m DEF SeparateInv
<1>2. ASSUME NEW i \in Streams, Fill(i) PROVE SeparateInv'
  <2>1. PICK n \in Nat :
           /\ printed' = printed /\ buf[i] = <<>>
           /\ pos' = [pos EXCEPT ![Place(i)] = pos[Place(i)] + n]
           /\ \A j \in Streams : j # i => buf'[j] = buf[j]
           /\ Elements(buf'[i]) = pos[Place(i)] + 1 .. pos[Place(i)] + n
    BY <1>2, FillHolds
  <2>2. PICK p \in Nat : p = pos[i]
    BY DEF FilesTypes
  <2>3. /\ pos'[i] = p + n /\ \A j \in Streams : j # i => pos'[j] = pos[j]
        /\ Elements(buf'[i]) = p + 1 .. p + n /\ Elements(buf[i]) = {}
    BY <1>m, <2>1, <2>2, NoElements DEF FilesTypes
  <2>4. 1 .. p + n \subseteq Told(printed', i) \cup Elements(buf'[i])
    <3>1. \A x \in 1 .. p + n : x \in 1 .. p \/ x \in p + 1 .. p + n
      OBVIOUS
    <3>2. 1 .. p \subseteq Told(printed, i)
      BY <1>a, <2>2, <2>3
    <3> QED  BY <2>1, <2>3, <3>1, <3>2
  <2>5. \A j \in Streams : 1 .. pos'[j] \subseteq Told(printed', j) \cup Elements(buf'[j])
    BY <1>a, <2>1, <2>3, <2>4
  <2> QED  BY <2>5 DEF SeparateInv
<1>3. ASSUME NEW i \in Streams, Show(i) PROVE SeparateInv'
  <2>1. PICK n \in Nat :
           /\ pos' = pos
           /\ \A j \in Streams : j # i => buf'[j] = buf[j]
           /\ Elements(buf[i]) \subseteq {n} \cup Elements(buf'[i])
           /\ Told(printed', i) = Told(printed, i) \cup {n}
           /\ \A j \in Streams : j # i => Told(printed', j) = Told(printed, j)
    BY <1>3, ShowShows
  <2>2. \A j \in Streams : Told(printed, j) \cup Elements(buf[j]) \subseteq Told(printed', j) \cup Elements(buf'[j])
    <3>1. Told(printed, i) \cup Elements(buf[i]) \subseteq Told(printed', i) \cup Elements(buf'[i])
      BY <2>1
    <3> QED  BY <2>1, <3>1
  <2>3. \A j \in Streams : 1 .. pos'[j] \subseteq Told(printed', j) \cup Elements(buf'[j])
    BY <1>a, <2>1, <2>2
  <2> QED  BY <2>3 DEF SeparateInv
<1>4. ASSUME NEW i \in Streams, Put(i) \/ Close(i) \/ Exit PROVE FALSE
  <2>1. at[i] # "close"
    BY <1>m DEF FilesTypes
  <2> QED  BY <1>m, <1>4, <2>1 DEF Put, Close, Exit, Reading, Writing
<1>5. ASSUME NEW i \in Streams, Open(i) PROVE SeparateInv'
  BY <1>1, <1>5 DEF Open
<1>6. CASE UNCHANGED filesVars
  BY <1>1, <1>6 DEF filesVars
<1> QED  BY <1>2, <1>3, <1>4, <1>5, <1>6, <1>s DEF FilesNext, Ended

LEMMA TurnsStep ==
  ASSUME FilesTypes, ReaderInv, TurnsInv, [FilesNext]_filesVars
  PROVE  TurnsInv'
<1> SUFFICES ASSUME prog' = "02v1" PROVE TurnsInv'
  BY DEF TurnsInv
<1>0. prog' = prog
  BY DEF FilesNext, Open, Fill, Show, Put, Close, Exit, Ended, filesVars
<1>m. prog = "02v1" /\ prog \in Reading /\ prog \notin Threaded /\ \A j \in Streams : Place(j) = j
  BY <1>0 DEF Place, Reading, Threaded
<1>s. /\ 1 \in Streams /\ 2 \in Streams /\ \A j \in Streams : j = 1 \/ j = 2
      /\ Other(1) = 2 /\ Other(2) = 1
  BY DEF Streams, Other
<1>t. (\A j \in Streams : pos[j] \in Nat /\ Len(buf[j]) \in Nat) /\ Len(<<>>) = 0 /\ turn \in {1, 2}
  BY LenProperties, EmptySeq DEF FilesTypes, Streams
<1>a. /\ \A j \in Streams : Len(buf[j]) <= 1
      /\ at[1] = "eof" <=> at[2] = "eof"
      /\ turn = 1 => buf[2] = <<>> /\ pos[1] = pos[2] + Len(buf[1])
      /\ turn = 2 => buf[1] = <<>> /\ pos[1] + Len(buf[2]) = pos[2] + 1
  BY <1>m DEF TurnsInv
<1>1. ASSUME NEW i \in Streams, Open(i) PROVE TurnsInv'
  <2>1. /\ at[i] = "start" /\ (i = 2 => at[1] # "start")
        /\ at'[i] = "run" /\ \A j \in Streams : j # i => at'[j] = at[j]
        /\ UNCHANGED <<buf, pos, turn, prog>>
    BY <1>1 DEF Open, FilesTypes
  <2>2. at[1] # "eof" /\ at[2] # "eof"
    BY <1>a, <1>s, <2>1
  <2>3. at'[1] # "eof" /\ at'[2] # "eof"
    BY <1>s, <2>1, <2>2
  <2> QED  BY <1>a, <2>1, <2>3 DEF TurnsInv
<1>2. ASSUME NEW i \in Streams, Fill(i) PROVE TurnsInv'
  <2>1. PICK n \in Nat :
           /\ turn' = turn /\ at[i] = "run" /\ buf[i] = <<>>
           /\ pos' = [pos EXCEPT ![Place(i)] = pos[Place(i)] + n]
           /\ prog \in {"02v1", "02v2"} => n <= 1
           /\ \A j \in Streams : j # i => buf'[j] = buf[j]
           /\ Len(buf'[i]) = n
           /\ at' = [j \in Streams |-> IF n = 0 /\ (j = i \/ prog = "02v1")
                                       THEN "eof" ELSE at[j]]
    BY <1>2, FillHolds
  <2>2. n <= 1 /\ pos'[i] = pos[i] + n /\ \A j \in Streams : j # i => pos'[j] = pos[j]
    BY <1>m, <2>1 DEF FilesTypes
  <2>3. at[Other(i)] # "eof"
    BY <1>a, <1>s, <2>1
  <2>4. turn = i
    BY <1>2, <1>m, <2>3 DEF Fill, MayRun
  <2>5. at'[1] = "eof" <=> at'[2] = "eof"
    BY <1>a, <1>m, <1>s, <2>1
  <2>6. \A j \in Streams : Len(buf'[j]) <= 1
    BY <1>a, <2>1, <2>2
  <2>7. CASE i = 1
    <3>1. buf'[2] = <<>> /\ pos'[2] = pos[2] /\ pos'[1] = pos[1] + n /\ pos[1] = pos[2] + 0 /\ Len(buf'[1]) = n
      BY <1>a, <1>s, <1>t, <2>1, <2>2, <2>4, <2>7
    <3>2. pos'[1] = pos'[2] + Len(buf'[1]) /\ turn' = 1
      BY <1>s, <1>t, <2>1, <2>4, <2>7, <3>1
    <3> QED  BY <2>5, <2>6, <3>1, <3>2 DEF TurnsInv
  <2>8. CASE i = 2
    <3>1. buf'[1] = <<>> /\ pos'[1] = pos[1] /\ pos'[2] = pos[2] + n /\ pos[1] + 0 = pos[2] + 1 /\ Len(buf'[2]) = n
      BY <1>a, <1>s, <1>t, <2>1, <2>2, <2>4, <2>8
    <3>2. pos'[1] + Len(buf'[2]) = pos'[2] + 1 /\ turn' = 2
      BY <1>s, <1>t, <2>1, <2>4, <2>8, <3>1
    <3> QED  BY <2>5, <2>6, <3>1, <3>2 DEF TurnsInv
  <2> QED  BY <1>s, <2>7, <2>8
<1>3. ASSUME NEW i \in Streams, Show(i) PROVE TurnsInv'
  <2>1. /\ turn' = Other(i) /\ pos' = pos /\ at' = at /\ at[i] = "run"
        /\ \A j \in Streams : j # i => buf'[j] = buf[j]
        /\ Len(buf[i]) \in Nat \ {0} /\ Len(buf'[i]) = Len(buf[i]) - 1
    BY <1>3, ShowShows
  <2>2. at[Other(i)] # "eof"
    BY <1>a, <1>s, <2>1
  <2>3. turn = i
    BY <1>3, <1>m, <2>2 DEF Show, MayRun
  <2>4. buf[i] \in Seq(Nat) /\ buf[i] # <<>> /\ buf'[i] = Tail(buf[i])
    BY <1>3 DEF Show, FilesTypes
  <2>5. Len(buf[i]) = 1 /\ Len(buf'[i]) = 0
    <3>1. Len(buf[i]) <= 1 /\ Len(buf[i]) \in Nat \ {0}
      BY <1>a, <2>1
    <3>a. PICK m \in Nat \ {0} : m = Len(buf[i])
      BY <3>1
    <3>b. m <= 1
      BY <3>1, <3>a
    <3>c. m = 1
      BY ONLY m \in Nat \ {0}, <3>b
    <3>2. Len(buf[i]) = 1
      BY <3>a, <3>c
    <3> QED  BY <2>1, <3>2
  <2>6. buf'[i] = <<>>
    <3>1. buf'[i] \in Seq(Nat)
      BY <2>4, HeadTailProperties
    <3> QED  BY <2>5, <3>1, EmptySeq
  <2>7. \A j \in Streams : Len(buf'[j]) <= 1
    BY <1>a, <2>1, <2>5
  <2>8. CASE i = 1
    <3>1. turn' = 2 /\ buf'[1] = <<>> /\ buf'[2] = <<>> /\ pos[1] = pos[2] + 1
      BY <1>a, <1>s, <2>1, <2>3, <2>5, <2>6, <2>8
    <3>2. pos'[1] + Len(buf'[2]) = pos'[2] + 1
      BY <1>s, <1>t, <2>1, <3>1
    <3> QED  BY <1>a, <2>1, <2>7, <3>1, <3>2 DEF TurnsInv
  <2>9. CASE i = 2
    <3>1. turn' = 1 /\ buf'[1] = <<>> /\ buf'[2] = <<>> /\ pos[1] + 1 = pos[2] + 1
      BY <1>a, <1>s, <2>1, <2>3, <2>5, <2>6, <2>9
    <3>2. pos'[1] = pos'[2] + Len(buf'[1])
      BY <1>s, <1>t, <2>1, <3>1
    <3> QED  BY <1>a, <2>1, <2>7, <3>1, <3>2 DEF TurnsInv
  <2> QED  BY <1>s, <2>8, <2>9
<1>4. ASSUME NEW i \in Streams, Put(i) \/ Close(i) \/ Exit PROVE FALSE
  <2>1. at[i] # "close"
    BY <1>m DEF FilesTypes
  <2> QED  BY <1>m, <1>4, <2>1 DEF Put, Close, Exit, Reading, Writing
<1>5. CASE UNCHANGED filesVars
  BY <1>5 DEF filesVars, TurnsInv
<1> QED  BY <1>1, <1>2, <1>3, <1>4, <1>5, <1>s DEF FilesNext, Ended

LEMMA ReadInit == FilesInit => ReadInv
<1> SUFFICES ASSUME FilesInit PROVE ReadInv
  OBVIOUS
<1>1. FilesTypes
  BY FilesInitTypes
<1>2. /\ \A i \in Streams : at[i] = "start" /\ pos[i] = 0 /\ buf[i] = <<>>
      /\ turn = 1 /\ printed = <<>>
  BY DEF FilesInit
<1>3. Len(<<>>) = 0 /\ TextLength \in Nat /\ 1 .. 0 = {}
  BY EmptySeq, OpenFilesAssumption
<1>4. \A i \in Streams : Told(printed, i) = {} /\ Elements(buf[i]) = {} /\ Rising(buf[i]) /\ Len(buf[i]) = 0
  <2>1. \A k \in 1 .. Len(<<>>) : FALSE
    BY <1>3
  <2> QED  BY <1>2, <1>3, <2>1, NoElements DEF Told, Rising
<1>s. 1 \in Streams /\ 2 \in Streams
  BY DEF Streams
<1>5. ReaderInv
  <2> SUFFICES ASSUME prog \in Reading PROVE ReaderInv
    BY DEF ReaderInv
  <2>1. file = Text
    BY DEF FilesInit, Reading, Writing
  <2>2. InOrder(printed)
    BY <1>2, <1>3 DEF InOrder
  <2> QED  BY <1>2, <1>3, <1>4, <2>1, <2>2 DEF ReaderInv
<1>6. SharedInv /\ SeparateInv
  <2>1. \A i \in Streams : 1 .. pos[i] = {}
    BY <1>2, <1>3
  <2> QED  BY <1>4, <1>s, <2>1 DEF SharedInv, SeparateInv
<1>7. TurnsInv
  BY <1>2, <1>3, <1>4, <1>s DEF TurnsInv
<1> QED  BY <1>1, <1>5, <1>6, <1>7 DEF ReadInv

(* The inductive invariant of the programs that read.                      *)
THEOREM ReadInvariance == FilesSpec => []ReadInv
<1>1. WriteInv /\ ReadInv /\ [FilesNext]_filesVars => ReadInv'
  BY FilesStepTypes, ReaderStep, SharedStep, SeparateStep, TurnsStep DEF ReadInv, WriteInv
<1> QED  BY <1>1, WriteInvariance, ReadInit, PTL DEF FilesSpec

(* For a text of every length and a buffer of every size, and however the  *)
(* threads interleave: two streams on one descriptor print each letter     *)
(* once between them, two descriptors print the whole text each.           *)
THEOREM ReadsEachLetterHolds == FilesSpec => []ReadsEachLetter
<1>1. ReadInv => ReadsEachLetter
  <2> SUFFICES ASSUME ReadInv, prog \in Reading PROVE ReadsEachLetter
    BY DEF ReadsEachLetter
  <2> USE DEF ReadInv
  <2>s. 1 \in Streams /\ 2 \in Streams
    BY DEF Streams
  <2>1. \A i \in Streams : Said(i) = Told(printed, i)
    BY DEF Said, Told
  <2>2. InOrder(printed)
    BY DEF ReaderInv
  <2>3. Over => \A i \in Streams : Elements(buf[i]) = {} /\ pos[Place(i)] = TextLength
    <3> HAVE Over
    <3>1. \A i \in Streams : at[i] = "eof"
      BY DEF Over, FilesTypes
    <3> QED  BY <3>1, NoElements DEF ReaderInv
  <2>4. \A i \in Streams : Told(printed, i) \cup Elements(buf[i]) \subseteq 1 .. pos[Place(i)]
    BY DEF ReaderInv
  <2>5. ASSUME prog \in {"01v1", "01v2"}
        PROVE  /\ \A j, k \in 1 .. Len(printed) : printed[j].letter = printed[k].letter => j = k
               /\ Over => Said(1) \cup Said(2) = 1 .. TextLength
    <3>1. /\ 1 .. pos[1] \subseteq Told(printed, 1) \cup Elements(buf[1])
                                     \cup Told(printed, 2) \cup Elements(buf[2])
          /\ \A x \in Told(printed, 1) \cup Elements(buf[1]), y \in Told(printed, 2) \cup Elements(buf[2]) : x # y
      BY <2>5 DEF SharedInv
    <3>2. Place(1) = 1 /\ Place(2) = 1
      BY <2>5 DEF Place
    <3>3. ASSUME NEW j \in 1 .. Len(printed), NEW k \in 1 .. Len(printed),
                 printed[j].letter = printed[k].letter
          PROVE  j = k
      <4>1. /\ printed[j].by \in Streams /\ printed[k].by \in Streams
            /\ printed[j].letter \in Nat /\ printed[k].letter \in Nat
        <5>1. /\ printed[j] \in [by : Streams, letter : Nat]
              /\ printed[k] \in [by : Streams, letter : Nat]
          BY ElementOfSeq DEF FilesTypes
        <5> QED  BY <5>1
      <4>2. /\ printed[j].letter \in Told(printed, printed[j].by)
            /\ printed[k].letter \in Told(printed, printed[k].by)
        BY DEF Told
      <4>3. printed[j].by = printed[k].by
        BY <3>1, <3>3, <4>1, <4>2 DEF Streams
      <4>4. j < k \/ k < j \/ j = k
        BY LenProperties DEF FilesTypes
      <4> QED  BY <2>2, <3>3, <4>1, <4>3, <4>4 DEF InOrder
    <3>4. ASSUME Over PROVE Said(1) \cup Said(2) = 1 .. TextLength
      BY <2>s, <2>1, <2>3, <2>4, <3>1, <3>2, <3>4
    <3> QED  BY <3>3, <3>4
  <2>6. ASSUME prog \in {"02v1", "02v2"}, Over, NEW i \in Streams
        PROVE  Said(i) = 1 .. TextLength
    <3>1. Place(i) = i
      BY <2>6 DEF Place
    <3>2. 1 .. pos[i] \subseteq Told(printed, i) \cup Elements(buf[i])
      BY <2>6 DEF SeparateInv
    <3> QED  BY <2>1, <2>3, <2>4, <2>6, <3>1, <3>2
  <2>7. \A j, k \in 1 .. Len(printed) :
           j < k /\ printed[j].by = printed[k].by => printed[j].letter < printed[k].letter
    BY <2>2 DEF InOrder
  <2> QED  BY <2>5, <2>6, <2>7 DEF ReadsEachLetter
<1> QED  BY <1>1, ReadInvariance, PTL
=============================================================================
