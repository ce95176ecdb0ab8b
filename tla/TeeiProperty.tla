---------------------------- MODULE TeeiProperty ----------------------------
(***************************************************************************)
(* The property list of teei_daemon (common/400/teei_daemon/main.c,        *)
(* teei_list.h): the main thread, in handle_vfs_command, appends an entry  *)
(* for each property the TEE wants set and posts a semaphore; the thread   *)
(* property_setting_fn waits for it, reads the first entry before it locks *)
(* the list, removes the entry under the lock, sets the property and frees *)
(* the entry.                                                              *)
(*                                                                         *)
(* handle_vfs_command is in a library outside this repository: from its    *)
(* arguments (the mutex, the semaphore and the list) it is taken to lock,  *)
(* append, unlock and post.  Its writes to the list are single steps,      *)
(* because the other thread reads the list outside the lock.               *)
(***************************************************************************)
EXTENDS Integers, Sequences, FiniteSets

CONSTANTS
  Entry,    \* addresses malloc may return for a teei_property_struct
  Head0,    \* g_property_list
  Poison,   \* LIST_POISON_NEXT and LIST_POISON_PREV
  Setting, Nothing,
  None      \* no thread, no entry

\* Assumed of the constants.
TeeiPropertyAssumption ==
  /\ IsFiniteSet(Entry)
  /\ Head0 \notin Entry /\ Poison \notin Entry \cup {Head0} /\ None \notin Entry \cup {Head0}
  /\ None \notin {"vfs", "setting"}
  /\ Nothing \notin Setting

Node == Entry \cup {Head0}

VARIABLES
  next, prev,   \* the links of the nodes
  content,      \* path and property_context of an entry; Nothing when it is free
  sem,          \* g_setting_sem
  mutex,        \* property_list_mutex: its owner
  vfs,          \* the main thread: where it is, the entry it adds and the old tail
  settingPc, entry, \* property_setting_fn
  property      \* the last property that was set

list == <<next, prev, content>>
propertyVars == <<list, sem, mutex, vfs, settingPc, entry, property>>

INIT_LIST_HEAD ==
  /\ next = [n \in Node |-> IF n = Head0 THEN Head0 ELSE Poison]
  /\ prev = [n \in Node |-> IF n = Head0 THEN Head0 ELSE Poison]

PropertyInit ==
  /\ INIT_LIST_HEAD
  /\ content = [e \in Entry |-> Nothing]
  /\ sem = 0 /\ mutex = None
  /\ vfs = [pc |-> "idle", e |-> None, last |-> None]
  /\ settingPc = "wait" /\ entry = None /\ property = Nothing

-----------------------------------------------------------------------------
(***************************************************************************)
(* The main thread.                                                        *)
(***************************************************************************)
Vfs(l) == vfs' = [vfs EXCEPT !.pc = l]

VfsRequest(s) ==
  /\ vfs.pc = "idle"
  /\ \E e \in Entry :
       /\ content[e] = Nothing
       /\ content' = [content EXCEPT ![e] = s]
       /\ vfs' = [pc |-> "lock", e |-> e, last |-> None]
  /\ UNCHANGED <<next, prev, sem, mutex, settingPc, entry, property>>

VfsLock ==
  /\ vfs.pc = "lock" /\ mutex = None /\ mutex' = "vfs" /\ Vfs("add1")
  /\ UNCHANGED <<list, sem, settingPc, entry, property>>

\* teei_list_add_tail: __teei_list_add between the old last node and the head.
teei_list_add_tail ==
  \/ /\ vfs.pc = "add1"
     /\ prev' = [prev EXCEPT ![vfs.e] = prev[Head0]]
     /\ vfs' = [vfs EXCEPT !.pc = "add2", !.last = prev[Head0]]
     /\ UNCHANGED next
  \/ /\ vfs.pc = "add2"
     /\ next' = [next EXCEPT ![vfs.e] = Head0] /\ Vfs("add3") /\ UNCHANGED prev
  \/ /\ vfs.pc = "add3"
     /\ next' = [next EXCEPT ![vfs.last] = vfs.e] /\ Vfs("add4") /\ UNCHANGED prev
  \/ /\ vfs.pc = "add4"
     /\ prev' = [prev EXCEPT ![Head0] = vfs.e] /\ Vfs("unlock") /\ UNCHANGED next

VfsAdd == teei_list_add_tail /\ UNCHANGED <<content, sem, mutex, settingPc, entry, property>>

VfsUnlock ==
  /\ vfs.pc = "unlock" /\ mutex' = None /\ Vfs("post")
  /\ UNCHANGED <<list, sem, settingPc, entry, property>>

VfsPost ==
  /\ vfs.pc = "post" /\ sem' = sem + 1
  /\ vfs' = [pc |-> "idle", e |-> None, last |-> None]
  /\ UNCHANGED <<list, mutex, settingPc, entry, property>>

-----------------------------------------------------------------------------
(***************************************************************************)
(* property_setting_fn.  A sem_wait that is interrupted is tried again,    *)
(* which changes nothing.                                                  *)
(***************************************************************************)
Wait ==
  /\ settingPc = "wait" /\ sem > 0 /\ sem' = sem - 1 /\ settingPc' = "first"
  /\ UNCHANGED <<list, mutex, vfs, entry, property>>

\* list_first_entry: the node after the head, which is never null.
FirstEntry ==
  /\ settingPc = "first" /\ entry' = next[Head0] /\ settingPc' = "lock"
  /\ UNCHANGED <<list, sem, mutex, vfs, property>>

Lock ==
  /\ settingPc = "lock" /\ mutex = None /\ mutex' = "setting" /\ settingPc' = "del"
  /\ UNCHANGED <<list, sem, vfs, entry, property>>

\* Mutant of teei_list_del: the back link of the following node is forgotten.
teei_list_del_forward(e) ==
  /\ next' = [[next EXCEPT ![prev[e]] = next[e]] EXCEPT ![e] = Poison]
  /\ prev' = [prev EXCEPT ![e] = Poison]

teei_list_del(e) ==
  /\ next' = [[next EXCEPT ![prev[e]] = next[e]] EXCEPT ![e] = Poison]
  /\ prev' = [[prev EXCEPT ![next[e]] = prev[e]] EXCEPT ![e] = Poison]

\* The removal and the unlock; every other access to the links is under the
\* lock or reads only the head.
RemoveEntry ==
  /\ settingPc = "del" /\ teei_list_del(entry)
  /\ mutex' = None /\ settingPc' = "set"
  /\ UNCHANGED <<content, sem, vfs, entry, property>>

\* Mutant of SetProperty: the entry is freed before its property is set.
SetProperty_freed ==
  /\ settingPc = "set" /\ entry \in Entry
  /\ property' \in Setting
  /\ content' = [content EXCEPT ![entry] = Nothing]
  /\ entry' = None /\ settingPc' = "wait"
  /\ UNCHANGED <<next, prev, sem, mutex, vfs>>

\* property_set and the frees.
SetProperty ==
  /\ settingPc = "set" /\ entry \in Entry
  /\ property' = content[entry]
  /\ content' = [content EXCEPT ![entry] = Nothing]
  /\ entry' = None /\ settingPc' = "wait"
  /\ UNCHANGED <<next, prev, sem, mutex, vfs>>

VfsStep     == VfsLock \/ VfsAdd \/ VfsUnlock \/ VfsPost
SettingStep == Wait \/ FirstEntry \/ Lock \/ RemoveEntry \/ SetProperty

PropertyNext == VfsStep \/ SettingStep \/ \E s \in Setting : VfsRequest(s)

\* Both threads are scheduled.  Nothing is assumed of the order in which the
\* lock is granted: the memory for entries ends before the main thread could
\* hold the other one up for ever.
PropertySpec ==
  /\ PropertyInit /\ [][PropertyNext]_propertyVars
  /\ WF_propertyVars(VfsStep) /\ WF_propertyVars(SettingStep)

-----------------------------------------------------------------------------
\* The entries in the order of the forward links.
WalkOf(links) ==
  LET to[n \in 0 .. Cardinality(Entry)] ==
        IF n = 0 THEN links[Head0]
        ELSE IF to[n - 1] \in Entry THEN links[to[n - 1]] ELSE to[n - 1]
      len == Cardinality({n \in 0 .. Cardinality(Entry) : to[n] \in Entry})
  IN  [n \in 1 .. len |-> to[n - 1]]
Walk == WalkOf(next)

\* The daemon implements the queue of settings: the list read forward is the
\* queue, the removed entry the current setting.
Q == INSTANCE PropertyQueue WITH
       pending <- [i \in 1 .. Len(Walk) |-> content[Walk[i]]],
       current <- IF settingPc = "set" THEN content[entry] ELSE Nothing,
       applied <- property
ImplementsQueue == Q!Spec

\* When nobody changes it the list is a ring through the head: its back links
\* mirror its forward links, it holds live entries only, and exactly as many
\* as were posted or are about to be posted or taken.  The entry read before
\* the lock is still the first one under it, and never the head itself.
ListIsWhole ==
  /\ settingPc \in {"lock", "del"} => entry \in Entry /\ entry = next[Head0]
  /\ mutex = None =>
       LET w == Walk
       IN  /\ \A i \in 1 .. Len(w) - 1 : prev[w[i + 1]] = w[i]
           /\ prev[Head0] = (IF w = <<>> THEN Head0 ELSE w[Len(w)])
           /\ w # <<>> => prev[w[1]] = Head0 /\ next[w[Len(w)]] = Head0
           /\ \A i \in 1 .. Len(w) : content[w[i]] # Nothing
           /\ Len(w) = sem + (IF vfs.pc = "post" THEN 1 ELSE 0)
                           + (IF settingPc \in {"first", "lock"} THEN 1 ELSE 0)

=============================================================================
