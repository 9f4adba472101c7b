------------------------------- MODULE Threads -------------------------------
(***************************************************************************)
(* Threads of one process that share the library: its initialisation       *)
(* (init.c), the keyword indexes that the parser builds on first use       *)
(* (parsing/peg_lookup.h) and the handler of signals (signal_handling.c).  *)
(***************************************************************************)
EXTENDS Naturals

CONSTANTS
  Threads,
  EarlyThreads,  (* those that may come before skit_init has returned once *)
  Keywords,
  Indexes,       (* keyword indexes: of the callers, and                   *)
  Global,        (* the one of the process                                 *)
  MaxLookups,    (* lookups of a thread                                    *)
  Tracers,       (* the threads that push the tracing handler              *)
  NoThread

ASSUME ThreadsAssumption ==
  /\ NoThread \notin Threads /\ EarlyThreads \subseteq Threads /\ Tracers \subseteq Threads
  /\ Global \in Indexes /\ MaxLookups \in Nat

VARIABLES
  pc,             (* where each thread is                                  *)
  init_called,    (* skit__init_called                                     *)
  key_created,    (* skit__thread_init_called is a key of its own          *)
  specific,       (* what each thread has under that key                   *)
  context,        (* which threads have a skit_thread_context              *)
  buffers,        (* which threads have a scratch and a path buffer        *)
  lookup_mutex,   (* the owner of skit_peg__lookup_mutex                   *)
  global_index,   (* whether skit_peg__global_index is there               *)
  mutex,          (* the owner of each index's mutex                       *)
  suffix_table,   (* whether each index has its suffix_table               *)
  trie,           (* the keywords in each index's trie and table           *)
  index,          (* skit__peg_lookup_index of each thread                 *)
  lookups,        (* how many lookups each thread has begun                *)
  action,         (* the process's handler of NULL_DEREF                   *)
  old_action,     (* what each thread saved of it, if it did               *)
                  (* History variables, that no guard reads:               *)
  first,          (* the thread that pushed when no other had              *)
  overlapped      (* it has popped when another had not                    *)

initVars == <<init_called, key_created, specific, context, buffers>>
indexVars == <<lookup_mutex, global_index, mutex, suffix_table, trie, index, lookups>>
signalVars == <<action, old_action, first, overlapped>>
vars == <<pc, initVars, indexVars, signalVars>>

Init ==
  /\ pc = [t \in Threads |-> "start"]
  /\ init_called = FALSE /\ key_created = FALSE
  /\ specific = [t \in Threads |-> FALSE] /\ context = [t \in Threads |-> FALSE]
  /\ buffers = [t \in Threads |-> FALSE]
  /\ lookup_mutex = NoThread /\ global_index = FALSE
  /\ mutex = [i \in Indexes |-> NoThread] /\ suffix_table = [i \in Indexes |-> FALSE]
  /\ trie = [i \in Indexes |-> {}] /\ index = [t \in Threads |-> Global]
  /\ lookups = [t \in Threads |-> 0]
  /\ action = "default" /\ old_action = [t \in Threads |-> "none"]
  /\ first = NoThread /\ overlapped = FALSE

Goes(t, from, to) == pc[t] = from /\ pc' = [pc EXCEPT ![t] = to]

(***************************************************************************)
(* Initialisation.  Until it is created the key is 0, which is the key of  *)
(* the thread's context, as no key was made before it.                     *)
(***************************************************************************)
skit_thread_init_was_called(t) == init_called /\ IF key_created THEN specific[t] ELSE context[t]

SKIT_THREAD_ENTRY_POINT(t) ==
  LET was_called == init_called /\ (key_created => specific[t])
  IN  /\ context' = [context EXCEPT ![t] = TRUE]
      /\ buffers' = [buffers EXCEPT ![t] = @ \/ ~was_called]
      /\ specific' = [specific EXCEPT ![t] = @ \/ ~was_called]
(* A mutant: the buffers that the code leaks are freed, and the thread is  *)
(* not told to make them again.                                            *)
SKIT_THREAD_EXIT_POINT_freeing(t) ==
  /\ context' = [context EXCEPT ![t] = FALSE]
  /\ buffers' = [buffers EXCEPT ![t] = FALSE]
  /\ UNCHANGED specific
SKIT_THREAD_EXIT_POINT(t) ==
  /\ context' = [context EXCEPT ![t] = FALSE]
  /\ specific' = [specific EXCEPT ![t] = FALSE]
  /\ UNCHANGED buffers

(* SKIT_USE_FEATURE_EMULATION calls skit_init if nobody did.               *)
UseFeatures(t) ==
  /\ Goes(t, "start", IF init_called THEN "idle" ELSE "init")
  /\ t \in EarlyThreads \/ key_created
  /\ UNCHANGED <<initVars, indexVars, signalVars>>
SetInitCalled(t) ==
  /\ Goes(t, "init", "modules") /\ init_called' = TRUE
  /\ UNCHANGED <<key_created, specific, context, buffers, indexVars, signalVars>>
(* The modules' initialisers use features themselves.                      *)
InitModules(t) ==
  /\ Goes(t, "modules", "modules_entered") /\ SKIT_THREAD_ENTRY_POINT(t)
  /\ UNCHANGED <<init_called, key_created, indexVars, signalVars>>
LeaveModules(t) ==
  /\ Goes(t, "modules_entered", "create_key") /\ SKIT_THREAD_EXIT_POINT(t)
  /\ UNCHANGED <<init_called, key_created, indexVars, signalVars>>
CreateKey(t) ==
  /\ Goes(t, "create_key", "idle")
  /\ key_created' = TRUE /\ specific' = [u \in Threads |-> FALSE]
  /\ UNCHANGED <<init_called, context, buffers, indexVars, signalVars>>

(* The first construct that a thread enters, and the last that it leaves.  *)
Enter(t) ==
  /\ pc[t] = "idle" /\ ~context[t] /\ SKIT_THREAD_ENTRY_POINT(t)
  /\ UNCHANGED <<pc, init_called, key_created, indexVars, signalVars>>
Leave(t) ==
  /\ pc[t] = "idle" /\ context[t] /\ SKIT_THREAD_EXIT_POINT(t)
  /\ UNCHANGED <<pc, init_called, key_created, indexVars, signalVars>>

(***************************************************************************)
(* Keyword lookup                                                          *)
(***************************************************************************)
LookUp(t) ==
  \E i \in Indexes :
    /\ Goes(t, "idle", IF i = Global THEN "lock_global" ELSE "lock")
    /\ context[t] /\ lookups[t] < MaxLookups
    /\ lookups' = [lookups EXCEPT ![t] = @ + 1] /\ index' = [index EXCEPT ![t] = i]
    /\ UNCHANGED <<initVars, lookup_mutex, global_index, mutex, suffix_table, trie, signalVars>>

LockGlobal(t) ==
  /\ Goes(t, "lock_global", IF global_index THEN "unlock_global" ELSE "new")
  /\ lookup_mutex = NoThread /\ lookup_mutex' = t
  /\ UNCHANGED <<initVars, global_index, mutex, suffix_table, trie, index, lookups, signalVars>>
skit_peg_lookup_index_ctor(i) ==
  /\ mutex' = [mutex EXCEPT ![i] = NoThread]
  /\ suffix_table' = [suffix_table EXCEPT ![i] = FALSE]
  /\ trie' = [trie EXCEPT ![i] = {}]
NewGlobal(t) ==
  /\ Goes(t, "new", "unlock_global") /\ global_index' = TRUE /\ skit_peg_lookup_index_ctor(Global)
  /\ UNCHANGED <<initVars, lookup_mutex, index, lookups, signalVars>>
UnlockGlobal(t) ==
  /\ Goes(t, "unlock_global", "lock") /\ lookup_mutex' = NoThread
  /\ UNCHANGED <<initVars, global_index, mutex, suffix_table, trie, index, lookups, signalVars>>

(* A mutant: a table that is there saves the lock.                         *)
LockIndex_double_checked(t) ==
  /\ Goes(t, "lock", IF suffix_table[index[t]] THEN "get" ELSE "fill")
  /\ IF suffix_table[index[t]] THEN UNCHANGED mutex
     ELSE mutex[index[t]] = NoThread /\ mutex' = [mutex EXCEPT ![index[t]] = t]
  /\ suffix_table' = [suffix_table EXCEPT ![index[t]] = TRUE]
  /\ UNCHANGED <<initVars, lookup_mutex, global_index, trie, index, lookups, signalVars>>
(* A mutant: only a thread that filled the index gives its mutex back.     *)
LockIndex_held(t) ==
  /\ Goes(t, "lock", IF suffix_table[index[t]] THEN "get" ELSE "fill")
  /\ mutex[index[t]] = NoThread /\ mutex' = [mutex EXCEPT ![index[t]] = t]
  /\ suffix_table' = [suffix_table EXCEPT ![index[t]] = TRUE]
  /\ UNCHANGED <<initVars, lookup_mutex, global_index, trie, index, lookups, signalVars>>
(* The table is allocated before it is filled.                             *)
LockIndex(t) ==
  /\ Goes(t, "lock", IF suffix_table[index[t]] THEN "unlock" ELSE "fill")
  /\ mutex[index[t]] = NoThread /\ mutex' = [mutex EXCEPT ![index[t]] = t]
  /\ suffix_table' = [suffix_table EXCEPT ![index[t]] = TRUE]
  /\ UNCHANGED <<initVars, lookup_mutex, global_index, trie, index, lookups, signalVars>>
AddKeyword(t) ==
  \E keyword \in Keywords \ trie[index[t]] :
    /\ pc[t] = "fill" /\ trie' = [trie EXCEPT ![index[t]] = @ \cup {keyword}]
    /\ UNCHANGED <<pc, initVars, lookup_mutex, global_index, mutex, suffix_table, index, lookups, signalVars>>
Filled(t) ==
  /\ Goes(t, "fill", "unlock") /\ trie[index[t]] = Keywords
  /\ UNCHANGED <<initVars, indexVars, signalVars>>
UnlockIndex(t) ==
  /\ Goes(t, "unlock", "get") /\ mutex' = [mutex EXCEPT ![index[t]] = NoThread]
  /\ UNCHANGED <<initVars, lookup_mutex, global_index, suffix_table, trie, index, lookups, signalVars>>
(* The lookup itself is after the unlock.                                  *)
Get(t) == Goes(t, "get", "idle") /\ UNCHANGED <<initVars, indexVars, signalVars>>

(* A caller frees its index, that no thread is using, and makes another.   *)
Renew(i) ==
  /\ i # Global /\ \A t \in Threads : pc[t] # "idle" => index[t] # i
  /\ skit_peg_lookup_index_ctor(i)
  /\ UNCHANGED <<pc, initVars, lookup_mutex, global_index, index, lookups, signalVars>>

(***************************************************************************)
(* The tracing handler of the process, and what each thread saved for its  *)
(* pop.  Nothing keeps threads from overlapping.                           *)
(***************************************************************************)
(* A mutant: the action is saved after it was replaced.                    *)
skit_push_tracing_sig_handler_late(t) ==
  /\ old_action' = [old_action EXCEPT ![t] = "tracing"] /\ action' = "tracing"
skit_push_tracing_sig_handler(t) ==
  /\ old_action' = [old_action EXCEPT ![t] = action] /\ action' = "tracing"
skit_pop_tracing_sig_handler(t) ==
  /\ action' = old_action[t] /\ old_action' = [old_action EXCEPT ![t] = "none"]
Push(t) ==
  /\ t \in Tracers /\ pc[t] = "idle" /\ old_action[t] = "none" /\ skit_push_tracing_sig_handler(t)
  /\ first' = IF \A u \in Threads : old_action[u] = "none" THEN t ELSE first
  /\ UNCHANGED <<pc, initVars, indexVars, overlapped>>
Pop(t) ==
  /\ pc[t] = "idle" /\ old_action[t] # "none" /\ skit_pop_tracing_sig_handler(t)
  /\ overlapped' = (overlapped \/ (t = first /\ \E u \in Threads \ {t} : old_action[u] # "none"))
  /\ UNCHANGED <<pc, initVars, indexVars, first>>

Initialises(t) == UseFeatures(t) \/ SetInitCalled(t) \/ InitModules(t) \/ LeaveModules(t) \/ CreateKey(t)
LooksUp(t) ==
  \/ LockGlobal(t) \/ NewGlobal(t) \/ UnlockGlobal(t)
  \/ LockIndex(t) \/ AddKeyword(t) \/ Filled(t) \/ UnlockIndex(t) \/ Get(t)
Uses(t) == Enter(t) \/ Leave(t) \/ LookUp(t) \/ Push(t) \/ Pop(t)
Next ==
  \/ \E t \in Threads : Initialises(t) \/ LooksUp(t) \/ Uses(t)
  \/ \E i \in Indexes : Renew(i)

(* A thread that is looking up goes on; nobody has to look up.             *)
Fairness == \A t \in Threads : WF_vars(LooksUp(t))
Spec == Init /\ [][Next]_vars /\ Fairness

(***************************************************************************)
(* Properties                                                              *)
(***************************************************************************)
(* Whoever reads an index, with the mutex given back, reads all of it: no  *)
(* thread finds the table while another still fills it, nor the index of   *)
(* the process made anew under it (peg_lookup.h, "Avoid the perils of      *)
(* Double-Checked Locking").                                               *)
LookupsSeeTheWholeIndex ==
  \A t \in Threads : pc[t] = "get" => suffix_table[index[t]] /\ trie[index[t]] = Keywords

(* A thread with a context has its buffers, and the library knows it: "a   *)
(* thread context [...] also implies the initialization of all skit        *)
(* modules at a thread-local level" (init.h), for every order of entering  *)
(* and leaving after skit_init has returned.                               *)
EnteredThreadsHaveBuffers ==
  \A t \in Threads : key_created /\ context[t] => buffers[t] /\ skit_thread_init_was_called(t)

(* When every thread that pushed the tracing handler has popped it, the    *)
(* process has the handler it had before (signal_handling.c), whatever the *)
(* other threads pushed and popped meanwhile, as long as the thread that   *)
(* pushed first was never the one to pop before another.  Once it was, the *)
(* other restores the tracing handler, and the program's own is lost: that *)
(* interleaving is in the model, and excepted here by `overlapped`.        *)
HandlersComeBack ==
  ~overlapped /\ (\A t \in Threads : old_action[t] = "none") => action = "default"

(* Every lookup ends: with two mutexes, one after the other, no thread is  *)
(* kept waiting for one that its owner does not give back.                 *)
LookupsEnd == \A t \in Threads : pc[t] \in {"lock_global", "lock"} ~> pc[t] = "idle"
=============================================================================
