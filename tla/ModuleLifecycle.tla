--------------------------- MODULE ModuleLifecycle ---------------------------
(***************************************************************************)
(* course_work/code/core_module.c: loading and unloading the traffic       *)
(* module, and the commands `hide' and `unhide' of cli.c, which take it    *)
(* out of the kernel's list of modules and put it back behind the element  *)
(* it stood behind, while other modules are loaded and unloaded.  The      *)
(* kernel's part (the list, insmod, rmmod, the count of open devices) is   *)
(* external.  A list operation is one step; the tests and assignments of   *)
(* hide and unhide around it are steps of their own.                       *)
(***************************************************************************)
EXTENDS Naturals, Sequences, FiniteSets

CONSTANTS Others,    \* the other modules
          Commands,  \* processes that run the command line
          Self,      \* this module
          Modules,   \* modules, the head of the kernel's list
          Poison,    \* LIST_POISON, what list_del leaves in an element
          Null       \* a pointer not set yet

Elements == Others \cup {Self, Modules}

ASSUME LifecycleAssumption ==
  /\ Self \notin Others /\ Modules \notin Others \cup {Self}
  /\ {Poison, Null} \cap Elements = {} /\ Poison # Null

VARIABLES
  list,         \* [next, prev]: the links of the elements
  loaded,       \* the other modules in memory
  phase,        \* of this module
  calls,        \* calls made by my_module_init, or my_module_exit
  registered,   \* the hook and devices that the kernel knows
  flag_hidden, module_prev,
  command,      \* where each command line is: [at, type]
  together,     \* two command lines have been in write_command at a time
  torn          \* unhide has used an element that was no longer in memory

own  == <<flag_hidden, module_prev>>
life == <<phase, calls, registered>>
log  == <<together, torn>>
vars == <<list, loaded, phase, calls, registered, flag_hidden, module_prev, command,
          together, torn>>

(* The registrations in the order of my_module_init and my_module_exit. *)
Registrations == <<"hook", "l2", "stats", "ctrl">>
Everything == {Registrations[i] : i \in 1 .. 4}

Out == [at |-> "out", type |-> "hide"]

Init ==
  /\ list = [next |-> [e \in Elements |-> IF e = Modules THEN Modules ELSE Poison],
             prev |-> [e \in Elements |-> IF e = Modules THEN Modules ELSE Poison]]
  /\ loaded = {}
  /\ phase = "absent" /\ calls = 0 /\ registered = {}
  /\ flag_hidden = 0 /\ module_prev = Null
  /\ command = [c \in Commands |-> Out]
  /\ together = FALSE /\ torn = FALSE

-----------------------------------------------------------------------------
(* <linux/list.h>.  A write through a poisoned link, which only modules   *)
(* that come and go in a list already broken can meet, changes nothing.    *)
Added(e, p) ==     \* list_add(e, p)
  LET n == list.next[p]
  IN  [next |-> [list.next EXCEPT ![e] = n, ![p] = e],
       prev |-> [list.prev EXCEPT ![n] = e, ![e] = p]]

Unlinked(e) ==     \* __list_del_entry(e)
  [next |-> [list.next EXCEPT ![list.prev[e]] = list.next[e]],
   prev |-> [list.prev EXCEPT ![list.next[e]] = list.prev[e]]]

Deleted(e) ==      \* list_del(e)
  [next |-> [Unlinked(e).next EXCEPT ![e] = Poison],
   prev |-> [Unlinked(e).prev EXCEPT ![e] = Poison]]

DeletedRcu(e) == [Unlinked(e) EXCEPT !.prev[e] = Poison]   \* list_del_rcu(e)

(* The elements met on the way from the head: what lsmod and rmmod find.   *)
(* They are in every set that has the first and with each the next.        *)
Listed ==
  {e \in Others \cup {Self} :
     \A S \in SUBSET Elements :
       Modules \in S /\ (\A x \in S : list.next[x] \in S \cup {Poison}) => e \in S}

(* Other modules come and go. *)
Load(m) ==
  /\ m \notin loaded
  /\ loaded' = loaded \cup {m}
  /\ list' = Added(m, Modules)
  /\ UNCHANGED <<life, own, command, log>>

Unload(m) ==
  /\ m \in loaded /\ m \in Listed
  /\ loaded' = loaded \ {m}
  /\ list' = DeletedRcu(m)
  /\ UNCHANGED <<life, own, command, log>>

-----------------------------------------------------------------------------
(* insmod links the module, with its variables at their initial values,    *)
(* and calls my_module_init.                                               *)
Insmod ==
  /\ phase = "absent"
  /\ phase' = "init" /\ calls' = 0
  /\ list' = Added(Self, Modules)
  /\ flag_hidden' = 0 /\ module_prev' = Null
  /\ UNCHANGED <<loaded, registered, command, log>>

(* The next call of my_module_init; the result of nf_register_net_hook is  *)
(* not looked at.                                                          *)
Register ==
  /\ phase = "init"
  /\ calls' = calls + 1
  /\ \/ registered' = registered \cup {Registrations[calls + 1]}
     \/ calls = 0 /\ UNCHANGED registered
  /\ phase' = IF calls + 1 = Len(Registrations) THEN "live" ELSE "init"
  /\ UNCHANGED <<list, loaded, own, command, log>>

(* A misc_register fails: my_module_init returns its code and the kernel   *)
(* frees the module; what it had registered stays registered.              *)
RegisterFails ==
  /\ phase = "init" /\ calls > 0
  /\ phase' = "failed"
  /\ list' = DeletedRcu(Self)
  /\ UNCHANGED <<loaded, calls, registered, own, command, log>>

(* rmmod finds the module in the list and nobody has a device open.        *)
Rmmod ==
  /\ phase = "live" /\ Self \in Listed
  /\ \A c \in Commands : command[c].at = "out"
  /\ phase' = "exit" /\ calls' = 0
  /\ UNCHANGED <<list, loaded, registered, own, command, log>>

(* Fault: the last device is forgotten. *)
DeregisterButLast ==
  /\ phase = "exit" /\ calls < Len(Registrations)
  /\ calls' = calls + 1
  /\ registered' = registered \ ({Registrations[calls + 1]} \ {"ctrl"})
  /\ UNCHANGED <<list, loaded, phase, own, command, log>>

(* The next call of my_module_exit. *)
Deregister ==
  /\ phase = "exit" /\ calls < Len(Registrations)
  /\ calls' = calls + 1
  /\ registered' = registered \ {Registrations[calls + 1]}
  /\ UNCHANGED <<list, loaded, phase, own, command, log>>

(* my_module_exit returned: the kernel unlinks and frees the module. *)
Free ==
  /\ phase = "exit" /\ calls = Len(Registrations)
  /\ phase' = "absent"
  /\ list' = DeletedRcu(Self)
  /\ UNCHANGED <<loaded, calls, registered, own, command, log>>

-----------------------------------------------------------------------------
(* hide_unhide of cli.c and write_command. *)
Goto(c, from, to) ==
  /\ command[c].at = from
  /\ command' = [command EXCEPT ![c].at = to]
  /\ UNCHANGED <<loaded, life>>

(* The kernel lets nobody open a device of a module that is going.         *)
Open(c, type) ==
  /\ command[c].at = "out"
  /\ "ctrl" \in registered /\ phase = "live"
  /\ command' = [command EXCEPT ![c] = [at |-> "test", type |-> type]]
  /\ together' = (together \/ \E d \in Commands : command[d].at # "out")
  /\ UNCHANGED <<list, loaded, life, own, torn>>

Test(c) ==
  /\ Goto(c, "test", CASE command[c].type = "hide" /\ flag_hidden = 0 -> "save"
                       [] command[c].type = "unhide" /\ flag_hidden = 1 -> "add"
                       [] OTHER -> "close")
  /\ UNCHANGED <<list, own, log>>

SavePrev(c) ==
  /\ Goto(c, "save", "delete")
  /\ module_prev' = list.prev[Self]
  /\ UNCHANGED <<list, flag_hidden, log>>

(* Fault: hide only sets its flag. *)
DeleteNot(c) ==
  /\ Goto(c, "delete", "set")
  /\ UNCHANGED <<list, own, log>>

Delete(c) ==
  /\ Poison \notin {list.prev[Self], list.next[Self]}
  /\ Goto(c, "delete", "set")
  /\ list' = Deleted(Self)
  /\ UNCHANGED <<own, log>>

SetHidden(c) ==
  /\ Goto(c, "set", "close")
  /\ flag_hidden' = 1
  /\ UNCHANGED <<list, module_prev, log>>

(* No element is there any more. *)
Gone(e) == e \in {Poison, Null} \cup (Others \ loaded)

(* list_add(&THIS_MODULE->list, module_prev): where the element module_prev *)
(* is no longer in memory, the access may go through to what was there.    *)
Add(c) ==
  /\ module_prev \in Elements
  /\ Goto(c, "add", "clear")
  /\ list' = Added(Self, module_prev)
  /\ torn' = (torn \/ Gone(module_prev))
  /\ UNCHANGED <<own, together>>

SetExposed(c) ==
  /\ Goto(c, "clear", "close")
  /\ flag_hidden' = 0
  /\ UNCHANGED <<list, module_prev, log>>

Close(c) ==
  /\ Goto(c, "close", "out")
  /\ UNCHANGED <<list, own, log>>

(* The process dies in the kernel where it follows a poisoned link or one  *)
(* into freed memory, and its device is closed.                            *)
Oops(c) ==
  /\ \/ command[c].at = "delete" /\ Poison \in {list.prev[Self], list.next[Self]}
     \/ command[c].at = "add" /\ Gone(module_prev)
  /\ command' = [command EXCEPT ![c].at = "out"]
  /\ UNCHANGED <<list, loaded, life, own, log>>

Run(c) == \/ Test(c) \/ SavePrev(c) \/ Delete(c) \/ SetHidden(c)
          \/ Add(c) \/ SetExposed(c) \/ Close(c) \/ Oops(c)
          \/ \E type \in {"hide", "unhide"} : Open(c, type)

Next == \/ \E m \in Others : Load(m) \/ Unload(m)
        \/ Insmod \/ Register \/ RegisterFails \/ Rmmod \/ Deregister \/ Free
        \/ \E c \in Commands : Run(c)

Spec == Init /\ [][Next]_vars

-----------------------------------------------------------------------------
CommandAt == {"out", "test", "save", "delete", "set", "add", "clear", "close"}

TypeOK ==
  /\ list \in [next : [Elements -> Elements \cup {Poison}],
               prev : [Elements -> Elements \cup {Poison}]]
  /\ loaded \subseteq Others
  /\ phase \in {"absent", "init", "live", "exit", "failed"}
  /\ calls \in 0 .. Len(Registrations)
  /\ registered \subseteq Everything
  /\ flag_hidden \in {0, 1}
  /\ module_prev \in Elements \cup {Null, Poison}
  /\ command \in [Commands -> [at : CommandAt, type : {"hide", "unhide"}]]
  /\ together \in BOOLEAN /\ torn \in BOOLEAN

Idle == \A c \in Commands : command[c].at = "out"
At(place) == \E c \in Commands : command[c].at = place

(* Where the module stands in the list: it is out of it when its flag says *)
(* so, and from the deletion to the setting of the flag; it is in it from  *)
(* the insertion to the clearing of the flag.                              *)
InList == /\ phase \in {"init", "live", "exit"}
          /\ At("clear") \/ (flag_hidden = 0 /\ ~At("set"))

(* The list is whole: every module in memory that is not hidden is met on  *)
(* the way from the head and no other, and the links back match; whatever  *)
(* modules come and go between the steps of hide and unhide.  (Two command *)
(* lines have not run at a time, and no freed element has been put to use.)*)
ListSound ==
  ~together /\ ~torn =>
    LET linked == loaded \cup (IF InList THEN {Self} ELSE {})
    IN  /\ Listed = linked
        /\ \A e \in linked \cup {Modules} : list.prev[list.next[e]] = e

(* docs/main.tex:545: the module is hidden so that nobody can remove it.   *)
(* While the flag is set no rmmod succeeds (as long as above).        *)
HiddenStays == [][flag_hidden = 1 /\ phase = "live" /\ ~together /\ ~torn
                   => phase' = "live"]_vars

(* After a removal the kernel knows none of the module's functions, and no *)
(* process is in one of them.                                              *)
NothingLeft == phase = "absent" => registered = {} /\ Idle
=============================================================================
