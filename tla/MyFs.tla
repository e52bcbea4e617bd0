-------------------------------- MODULE MyFs --------------------------------
(***************************************************************************)
(* sem_06/lab_05/myfs.c: a file system without files.  Every mount takes   *)
(* one object from a slab cache and notes it in inode_pointers; unmounting *)
(* gives nothing back, only myfs_exit frees what was noted.  Processes     *)
(* mount at the same time: nothing guards cached_count.  Allocations of    *)
(* the kernel may fail; insmod, rmmod, mount and umount are external.      *)
(***************************************************************************)
EXTENDS Naturals, FiniteSets

CONSTANTS Mounters,        \* mount points, each mounted by its own process
          MAX_CACHE_SIZE,  \* entries of inode_pointers (128)
          Objects,         \* places of objects in the slab cache
          Null, Garbage    \* no object; what kmalloc leaves in the array

ASSUME MyFsAssumption ==
  /\ MAX_CACHE_SIZE \in Nat \ {0}
  /\ {Null, Garbage} \cap Objects = {} /\ Null # Garbage

VARIABLES
  phase,           \* of the module
  registered,      \* the kernel knows the file system
  inode_pointers, cached_count,
  slab,            \* objects taken from my_inode_cache
  mount,           \* what each mounter is at: [at, index, private]
  freed,           \* the loop variable of myfs_exit
  overlap,         \* two mounters have been in cache_get_inode at a time
  lacked,          \* kmem_cache_alloc has failed
  corrupt          \* how memory was corrupted; the model stops there

module == <<phase, registered, freed>>
cache  == <<inode_pointers, cached_count, slab>>
notes  == <<overlap, lacked, corrupt>>
vars   == <<phase, registered, inode_pointers, cached_count, slab, mount, freed,
            overlap, lacked, corrupt>>

Unmounted == [at |-> "out", index |-> 0, private |-> Null]

Init ==
  /\ phase = "absent" /\ registered = FALSE
  /\ inode_pointers = [i \in 0 .. MAX_CACHE_SIZE - 1 |-> Garbage]
  /\ cached_count = 0 /\ slab = {}
  /\ mount = [m \in Mounters |-> Unmounted]
  /\ freed = 0
  /\ overlap = FALSE /\ lacked = FALSE /\ corrupt = "no"

-----------------------------------------------------------------------------
(* myfs_init: the file system is registered first (nothing has changed if  *)
(* that fails), and can be mounted from then on.  Where the array or the   *)
(* cache cannot be had, it stays registered, and the kernel frees the      *)
(* module all the same.                                                    *)
Register ==
  /\ phase = "absent"
  /\ phase' = "init" /\ registered' = TRUE
  /\ cached_count' = 0
  /\ slab' = {} /\ overlap' = FALSE /\ lacked' = FALSE
  /\ UNCHANGED <<inode_pointers, mount, freed, corrupt>>

Allocate ==
  /\ phase = "init"
  /\ phase' = "live"
  /\ inode_pointers' = [i \in 0 .. MAX_CACHE_SIZE - 1 |-> Garbage]
  /\ UNCHANGED <<registered, cached_count, slab, mount, freed, notes>>

AllocateFails ==
  /\ phase = "init"
  /\ phase' = "failed"
  /\ UNCHANGED <<registered, cache, mount, freed, notes>>

(* rmmod: no mount holds the module. *)
Rmmod ==
  /\ phase = "live"
  /\ \A m \in Mounters : mount[m].at = "out"
  /\ phase' = "exit" /\ freed' = 0
  /\ UNCHANGED <<registered, cache, mount, notes>>

(* myfs_exit frees what the array says; anything but an object of the      *)
(* cache, NULL too, must not be given to kmem_cache_free.                  *)
Free ==
  /\ phase = "exit" /\ freed < cached_count
  /\ freed' = freed + 1
  /\ IF freed < MAX_CACHE_SIZE /\ inode_pointers[freed] \in slab
     THEN slab' = slab \ {inode_pointers[freed]} /\ UNCHANGED notes
     ELSE corrupt' = "free" /\ UNCHANGED <<slab, overlap, lacked>>
  /\ UNCHANGED <<phase, registered, inode_pointers, cached_count, mount>>

(* kmem_cache_destroy, kfree, unregister_filesystem. *)
Unregister ==
  /\ phase = "exit" /\ freed = cached_count
  /\ phase' = "absent" /\ registered' = FALSE
  /\ UNCHANGED <<cache, mount, freed, notes>>

-----------------------------------------------------------------------------
(* myfs_mount, myfs_fill_sb, myfs_make_inode, cache_get_inode *)
Inside(m) == mount[m].at \in {"check", "bump", "store", "alloc"}

Move(m, from, p) ==
  /\ phase \in {"init", "live"} /\ mount[m].at = from
  /\ mount' = [mount EXCEPT ![m] = p]
  /\ UNCHANGED module

(* new_inode may fail: then the mount does, and nothing has changed.       *)
Mount(m) ==
  /\ Move(m, "out", [Unmounted EXCEPT !.at = "check"])
  /\ overlap' = (overlap \/ \E n \in Mounters : Inside(n))
  /\ UNCHANGED <<cache, lacked, corrupt>>

(* Fault: once the array is full its last object is handed out again. *)
CheckReuses(m) ==
  /\ Move(m, "check",
       IF cached_count = MAX_CACHE_SIZE
       THEN [mount[m] EXCEPT !.at = "root", !.private = inode_pointers[MAX_CACHE_SIZE - 1]]
       ELSE [mount[m] EXCEPT !.at = "bump"])
  /\ UNCHANGED <<cache, notes>>

(* At the limit the inode does without an object of the cache.             *)
Check(m) ==
  /\ Move(m, "check", [mount[m] EXCEPT !.at = IF cached_count = MAX_CACHE_SIZE
                                              THEN "root" ELSE "bump"])
  /\ UNCHANGED <<cache, notes>>

(* cached_count++ is a load and a store. *)
LoadCount(m) ==
  /\ Move(m, "bump", [mount[m] EXCEPT !.at = "store", !.index = cached_count])
  /\ UNCHANGED <<cache, notes>>

StoreCount(m) ==
  /\ Move(m, "store", [mount[m] EXCEPT !.at = "alloc"])
  /\ cached_count' = mount[m].index + 1
  /\ UNCHANGED <<inode_pointers, slab, notes>>

(* kmem_cache_alloc, whose result goes into the array, NULL too. *)
Alloc(m, o) ==
  /\ phase = "live"
  /\ Move(m, "alloc", [mount[m] EXCEPT !.at = "root", !.private = o])
  /\ slab' = slab \cup ({o} \ {Null})
  /\ lacked' = (lacked \/ o = Null)
  /\ IF mount[m].index < MAX_CACHE_SIZE
     THEN inode_pointers' = [inode_pointers EXCEPT ![mount[m].index] = o] /\ UNCHANGED corrupt
     ELSE corrupt' = "overrun" /\ UNCHANGED inode_pointers
  /\ UNCHANGED <<cached_count, overlap>>

(* The same while my_inode_cache and inode_pointers are NULL.              *)
AllocEarly(m) ==
  /\ phase = "init" /\ mount[m].at = "alloc"
  /\ corrupt' = "null"
  /\ UNCHANGED <<module, cache, mount, overlap, lacked>>

MakeRoot(m) ==
  /\ Move(m, "root", [mount[m] EXCEPT !.at = "mounted", !.index = 0])
  /\ UNCHANGED <<cache, notes>>

(* d_make_root drops the inode when it fails, and iput drops it again.     *)
MakeRootFails(m) ==
  /\ Move(m, "root", Unmounted)
  /\ corrupt' = "put"
  /\ UNCHANGED <<cache, overlap, lacked>>

(* Fault: the count goes down with every unmount. *)
UmountCounts(m) ==
  /\ Move(m, "mounted", Unmounted)
  /\ cached_count' = cached_count - 1
  /\ UNCHANGED <<inode_pointers, slab, notes>>

(* myfs_put_super gives nothing back. *)
Umount(m) ==
  /\ Move(m, "mounted", Unmounted)
  /\ UNCHANGED <<cache, notes>>

MountStep(m) ==
  \/ Mount(m) \/ Check(m) \/ LoadCount(m) \/ StoreCount(m)
  \/ \E o \in (Objects \ slab) \cup {Null} : Alloc(m, o)
  \/ AllocEarly(m) \/ MakeRoot(m) \/ MakeRootFails(m) \/ Umount(m)

ModuleStep == \/ Register \/ Allocate \/ AllocateFails
              \/ Rmmod \/ Free \/ Unregister

Next == corrupt = "no" /\ (ModuleStep \/ \E m \in Mounters : MountStep(m))

Spec == Init /\ [][Next]_vars

-----------------------------------------------------------------------------
MountAt == {"out", "check", "bump", "store", "alloc", "root", "mounted"}

TypeOK ==
  /\ phase \in {"absent", "init", "live", "exit", "failed"}
  /\ registered \in BOOLEAN
  /\ inode_pointers \in [0 .. MAX_CACHE_SIZE - 1 -> Objects \cup {Null, Garbage}]
  /\ cached_count \in Nat /\ (~overlap => cached_count <= MAX_CACHE_SIZE)
  /\ slab \subseteq Objects
  /\ mount \in [Mounters -> [at : MountAt, index : Nat, private : Objects \cup {Null}]]
  /\ freed \in Nat
  /\ overlap \in BOOLEAN /\ lacked \in BOOLEAN
  /\ corrupt \in {"no", "overrun", "free", "put", "null"}

(* The roots of two mounts never share an object, and an object stays in   *)
(* the cache as long as a mount uses it, even when mounts overlap.         *)
PrivateOwn ==
  \A m \in Mounters : mount[m].at \in {"root", "mounted"} /\ mount[m].private # Null =>
    /\ mount[m].private \in slab
    /\ \A n \in Mounters \ {m} :
         mount[n].at \in {"root", "mounted"} => mount[n].private # mount[m].private

(* However often file systems were mounted and unmounted, myfs_exit gives  *)
(* kmem_cache_free nothing twice and nothing but objects of the cache,     *)
(* also after mounts that took the same index at the same time; only a     *)
(* NULL of an allocation that failed gets there.  And unless mounts have   *)
(* overlapped the array is not overrun and no object is left in the cache. *)
UnloadsClean ==
  /\ corrupt = "free" => lacked
  /\ corrupt = "overrun" \/ (phase = "absent" /\ slab # {}) => overlap
=============================================================================
