---------------------------- MODULE ThreadsProofs ----------------------------
(***************************************************************************)
(* For any number of threads, keywords and indexes: no lookup reads an     *)
(* index that is not whole.  The invariant says who may hold each mutex,   *)
(* where the global index has yet to be made, and that a table that is     *)
(* there is full but in the hands of the thread that fills it.             *)
(***************************************************************************)
EXTENDS Threads, TLAPS

Places ==
  {"start", "init", "modules", "modules_entered", "create_key", "idle",
   "lock_global", "new", "unlock_global", "lock", "fill", "unlock", "get"}

IndexTypeOK ==
  /\ pc \in [Threads -> Places]
  /\ index \in [Threads -> Indexes]
  /\ global_index \in BOOLEAN
  /\ lookup_mutex \in Threads \cup {NoThread}
  /\ mutex \in [Indexes -> Threads \cup {NoThread}]
  /\ suffix_table \in [Indexes -> BOOLEAN]
  /\ trie \in [Indexes -> SUBSET Keywords]

(* A thread is in the section of a mutex exactly while it owns it.         *)
OwnsGlobal == \A t \in Threads : pc[t] \in {"new", "unlock_global"} <=> lookup_mutex = t
OwnsIndex ==
  \A t \in Threads, i \in Indexes : (pc[t] \in {"fill", "unlock"} /\ index[t] = i) <=> mutex[i] = t
(* Until the global index is made nobody has come to use it.               *)
MadeOnce ==
  /\ \A t \in Threads : pc[t] = "new" => ~global_index
  /\ \A t \in Threads : pc[t] \in {"unlock_global", "lock", "fill", "unlock", "get"} /\ index[t] = Global => global_index
  /\ \A t \in Threads : pc[t] \in {"lock_global", "new", "unlock_global"} => index[t] = Global
(* A table that is there is full, or its owner is filling it.              *)
FullOrBeingFilled ==
  \A i \in Indexes :
    suffix_table[i] => \/ trie[i] = Keywords
                       \/ \E t \in Threads : mutex[i] = t /\ pc[t] = "fill"
(* Who uses an index past the filling has found it whole.                  *)
WholeOnceFilled ==
  /\ \A t \in Threads : pc[t] \in {"unlock", "get"} => suffix_table[index[t]] /\ trie[index[t]] = Keywords
  /\ \A t \in Threads : pc[t] = "fill" => suffix_table[index[t]]

IInv == IndexTypeOK /\ OwnsGlobal /\ OwnsIndex /\ MadeOnce /\ FullOrBeingFilled /\ WholeOnceFilled

USE DEF IndexTypeOK, OwnsGlobal, OwnsIndex, MadeOnce, FullOrBeingFilled, WholeOnceFilled, Places

(* At the start there is no index, no owner and nobody who looks up.       *)
LEMMA InitIInv == Init => IInv
<1> SUFFICES ASSUME Init PROVE IInv
  OBVIOUS
<1>1. IndexTypeOK
  BY ThreadsAssumption DEF Init
<1>2. OwnsGlobal
  BY ThreadsAssumption DEF Init
<1>3. OwnsIndex
  BY ThreadsAssumption DEF Init
<1>4. MadeOnce
  BY ThreadsAssumption DEF Init
<1>5. FullOrBeingFilled
  BY ThreadsAssumption DEF Init
<1>6. WholeOnceFilled
  BY ThreadsAssumption DEF Init
<1>7. QED
  BY <1>1, <1>2, <1>3, <1>4, <1>5, <1>6 DEF IInv

(* A step of initialisation, of entering or leaving, or of the handlers    *)
(* moves a thread between places outside the lookup, or not at all.        *)
LEMMA ElsewhereKeepsIInv ==
  ASSUME IInv, UNCHANGED indexVars,
         pc' = pc \/ \E t \in Threads, to \in {"idle", "init", "modules", "modules_entered", "create_key"} :
                       /\ pc[t] \in {"start", "init", "modules", "modules_entered", "create_key", "get"}
                       /\ pc' = [pc EXCEPT ![t] = to]
  PROVE  IInv'
<1>1. CASE pc' = pc
  BY <1>1 DEF IInv, indexVars
<1>2. CASE \E t \in Threads, to \in {"idle", "init", "modules", "modules_entered", "create_key"} :
             /\ pc[t] \in {"start", "init", "modules", "modules_entered", "create_key", "get"}
             /\ pc' = [pc EXCEPT ![t] = to]
  <2>1. PICK t \in Threads, to \in {"idle", "init", "modules", "modules_entered", "create_key"} :
             /\ pc[t] \in {"start", "init", "modules", "modules_entered", "create_key", "get"}
             /\ pc' = [pc EXCEPT ![t] = to]
    BY <1>2
  <2>2. IndexTypeOK'
    BY <2>1 DEF IInv, indexVars
  <2>3. OwnsGlobal' /\ OwnsIndex'
    BY <2>1 DEF IInv, indexVars
  <2>4. MadeOnce'
    BY <2>1 DEF IInv, indexVars
  <2>5. FullOrBeingFilled'
    BY <2>1 DEF IInv, indexVars
  <2>6. WholeOnceFilled'
    BY <2>1 DEF IInv, indexVars
  <2>7. QED
    BY <2>2, <2>3, <2>4, <2>5, <2>6 DEF IInv
<1>3. QED
  BY <1>1, <1>2

(* The steps of a lookup: one lemma for each, one step for each conjunct.  *)
LEMMA LookUpKeepsIInv ==
  ASSUME IInv, NEW t \in Threads, LookUp(t)
  PROVE  IInv'
<1>1. IndexTypeOK'
  BY ThreadsAssumption DEF IInv, LookUp, Goes, initVars, signalVars
<1>2. OwnsGlobal'
  BY ThreadsAssumption DEF IInv, LookUp, Goes, initVars, signalVars
<1>3. OwnsIndex'
  BY ThreadsAssumption DEF IInv, LookUp, Goes, initVars, signalVars
<1>4. MadeOnce'
  BY ThreadsAssumption DEF IInv, LookUp, Goes, initVars, signalVars
<1>5. FullOrBeingFilled'
  BY ThreadsAssumption DEF IInv, LookUp, Goes, initVars, signalVars
<1>6. WholeOnceFilled'
  BY ThreadsAssumption DEF IInv, LookUp, Goes, initVars, signalVars
<1>7. QED
  BY <1>1, <1>2, <1>3, <1>4, <1>5, <1>6 DEF IInv

LEMMA LockGlobalKeepsIInv ==
  ASSUME IInv, NEW t \in Threads, LockGlobal(t)
  PROVE  IInv'
<1>1. IndexTypeOK'
  BY ThreadsAssumption DEF IInv, LockGlobal, Goes
<1>2. OwnsGlobal'
  BY ThreadsAssumption DEF IInv, LockGlobal, Goes
<1>3. OwnsIndex'
  BY ThreadsAssumption DEF IInv, LockGlobal, Goes
<1>4. MadeOnce'
  BY ThreadsAssumption DEF IInv, LockGlobal, Goes
<1>5. FullOrBeingFilled'
  BY ThreadsAssumption DEF IInv, LockGlobal, Goes
<1>6. WholeOnceFilled'
  BY ThreadsAssumption DEF IInv, LockGlobal, Goes
<1>7. QED
  BY <1>1, <1>2, <1>3, <1>4, <1>5, <1>6 DEF IInv

LEMMA NewGlobalKeepsIInv ==
  ASSUME IInv, NEW t \in Threads, NewGlobal(t)
  PROVE  IInv'
<1>1. IndexTypeOK'
  BY ThreadsAssumption DEF IInv, NewGlobal, skit_peg_lookup_index_ctor, Goes
<1>2. OwnsGlobal'
  BY ThreadsAssumption DEF IInv, NewGlobal, skit_peg_lookup_index_ctor, Goes
<1>3. OwnsIndex'
  BY ThreadsAssumption DEF IInv, NewGlobal, skit_peg_lookup_index_ctor, Goes
<1>4. MadeOnce'
  BY ThreadsAssumption DEF IInv, NewGlobal, skit_peg_lookup_index_ctor, Goes
<1>5. FullOrBeingFilled'
  BY ThreadsAssumption DEF IInv, NewGlobal, skit_peg_lookup_index_ctor, Goes
<1>6. WholeOnceFilled'
  BY ThreadsAssumption DEF IInv, NewGlobal, skit_peg_lookup_index_ctor, Goes
<1>7. QED
  BY <1>1, <1>2, <1>3, <1>4, <1>5, <1>6 DEF IInv

LEMMA UnlockGlobalKeepsIInv ==
  ASSUME IInv, NEW t \in Threads, UnlockGlobal(t)
  PROVE  IInv'
<1>1. IndexTypeOK'
  BY ThreadsAssumption DEF IInv, UnlockGlobal, Goes
<1>2. OwnsGlobal'
  BY ThreadsAssumption DEF IInv, UnlockGlobal, Goes
<1>3. OwnsIndex'
  BY ThreadsAssumption DEF IInv, UnlockGlobal, Goes
<1>4. MadeOnce'
  BY ThreadsAssumption DEF IInv, UnlockGlobal, Goes
<1>5. FullOrBeingFilled'
  BY ThreadsAssumption DEF IInv, UnlockGlobal, Goes
<1>6. WholeOnceFilled'
  BY ThreadsAssumption DEF IInv, UnlockGlobal, Goes
<1>7. QED
  BY <1>1, <1>2, <1>3, <1>4, <1>5, <1>6 DEF IInv

LEMMA LockIndexKeepsIInv ==
  ASSUME IInv, NEW t \in Threads, LockIndex(t)
  PROVE  IInv'
<1>1. IndexTypeOK'
  BY ThreadsAssumption DEF IInv, LockIndex, Goes
<1>2. OwnsGlobal'
  BY ThreadsAssumption DEF IInv, LockIndex, Goes
<1>3. OwnsIndex'
  BY ThreadsAssumption DEF IInv, LockIndex, Goes
<1>4. MadeOnce'
  BY ThreadsAssumption DEF IInv, LockIndex, Goes
<1>5. FullOrBeingFilled'
  BY ThreadsAssumption DEF IInv, LockIndex, Goes
<1>6. WholeOnceFilled'
  BY ThreadsAssumption DEF IInv, LockIndex, Goes
<1>7. QED
  BY <1>1, <1>2, <1>3, <1>4, <1>5, <1>6 DEF IInv

LEMMA AddKeywordKeepsIInv ==
  ASSUME IInv, NEW t \in Threads, AddKeyword(t)
  PROVE  IInv'
<1>1. IndexTypeOK'
  BY ThreadsAssumption DEF IInv, AddKeyword
<1>2. OwnsGlobal'
  BY ThreadsAssumption DEF IInv, AddKeyword
<1>3. OwnsIndex'
  BY ThreadsAssumption DEF IInv, AddKeyword
<1>4. MadeOnce'
  BY ThreadsAssumption DEF IInv, AddKeyword
<1>5. FullOrBeingFilled'
  BY ThreadsAssumption DEF IInv, AddKeyword
<1>6. WholeOnceFilled'
  BY ThreadsAssumption DEF IInv, AddKeyword
<1>7. QED
  BY <1>1, <1>2, <1>3, <1>4, <1>5, <1>6 DEF IInv

LEMMA FilledKeepsIInv ==
  ASSUME IInv, NEW t \in Threads, Filled(t)
  PROVE  IInv'
<1>1. IndexTypeOK'
  BY ThreadsAssumption DEF IInv, Filled, Goes, indexVars
<1>2. OwnsGlobal'
  BY ThreadsAssumption DEF IInv, Filled, Goes, indexVars
<1>3. OwnsIndex'
  BY ThreadsAssumption DEF IInv, Filled, Goes, indexVars
<1>4. MadeOnce'
  BY ThreadsAssumption DEF IInv, Filled, Goes, indexVars
<1>5. FullOrBeingFilled'
  BY ThreadsAssumption DEF IInv, Filled, Goes, indexVars
<1>6. WholeOnceFilled'
  BY ThreadsAssumption DEF IInv, Filled, Goes, indexVars
<1>7. QED
  BY <1>1, <1>2, <1>3, <1>4, <1>5, <1>6 DEF IInv

LEMMA UnlockIndexKeepsIInv ==
  ASSUME IInv, NEW t \in Threads, UnlockIndex(t)
  PROVE  IInv'
<1>1. IndexTypeOK'
  BY ThreadsAssumption DEF IInv, UnlockIndex, Goes
<1>2. OwnsGlobal'
  BY ThreadsAssumption DEF IInv, UnlockIndex, Goes
<1>3. OwnsIndex'
  BY ThreadsAssumption DEF IInv, UnlockIndex, Goes
<1>4. MadeOnce'
  BY ThreadsAssumption DEF IInv, UnlockIndex, Goes
<1>5. FullOrBeingFilled'
  BY ThreadsAssumption DEF IInv, UnlockIndex, Goes
<1>6. WholeOnceFilled'
  BY ThreadsAssumption DEF IInv, UnlockIndex, Goes
<1>7. QED
  BY <1>1, <1>2, <1>3, <1>4, <1>5, <1>6 DEF IInv

LEMMA RenewKeepsIInv ==
  ASSUME IInv, NEW i \in Indexes, Renew(i)
  PROVE  IInv'
<1>1. IndexTypeOK'
  BY ThreadsAssumption DEF IInv, Renew, skit_peg_lookup_index_ctor
<1>2. OwnsGlobal'
  BY ThreadsAssumption DEF IInv, Renew, skit_peg_lookup_index_ctor
<1>3. OwnsIndex'
  BY ThreadsAssumption DEF IInv, Renew, skit_peg_lookup_index_ctor
<1>4. MadeOnce'
  BY ThreadsAssumption DEF IInv, Renew, skit_peg_lookup_index_ctor
<1>5. FullOrBeingFilled'
  BY ThreadsAssumption DEF IInv, Renew, skit_peg_lookup_index_ctor
<1>6. WholeOnceFilled'
  BY ThreadsAssumption DEF IInv, Renew, skit_peg_lookup_index_ctor
<1>7. QED
  BY <1>1, <1>2, <1>3, <1>4, <1>5, <1>6 DEF IInv

LEMMA StepKeepsIInv == IInv /\ [Next]_vars => IInv'
<1> SUFFICES ASSUME IInv, [Next]_vars PROVE IInv'
  OBVIOUS
<1>1. ASSUME NEW t \in Threads, Initialises(t) PROVE IInv'
  <2>1. UNCHANGED indexVars
    BY <1>1 DEF Initialises, UseFeatures, SetInitCalled, InitModules, LeaveModules, CreateKey
  <2>2. \E to \in {"idle", "init", "modules", "modules_entered", "create_key"} :
          /\ pc[t] \in {"start", "init", "modules", "modules_entered", "create_key", "get"}
          /\ pc' = [pc EXCEPT ![t] = to]
    BY <1>1 DEF Initialises, UseFeatures, SetInitCalled, InitModules, LeaveModules, CreateKey, Goes
  <2>3. QED
    BY <2>1, <2>2, ElsewhereKeepsIInv
<1>2. ASSUME NEW t \in Threads, LooksUp(t) PROVE IInv'
  <2>1. CASE Get(t)
    <3>1. pc[t] = "get" /\ pc' = [pc EXCEPT ![t] = "idle"] /\ UNCHANGED indexVars
      BY <2>1 DEF Get, Goes
    <3>2. QED
      BY <3>1, ElsewhereKeepsIInv
  <2>2. QED
    BY <1>2, <2>1, LockGlobalKeepsIInv, NewGlobalKeepsIInv, UnlockGlobalKeepsIInv, LockIndexKeepsIInv,
       AddKeywordKeepsIInv, FilledKeepsIInv, UnlockIndexKeepsIInv DEF LooksUp
<1>3. ASSUME NEW t \in Threads, Uses(t) PROVE IInv'
  <2>1. CASE LookUp(t)
    BY <2>1, LookUpKeepsIInv
  <2>2. CASE Enter(t) \/ Leave(t) \/ Push(t) \/ Pop(t)
    <3>1. pc' = pc /\ UNCHANGED indexVars
      BY <2>2 DEF Enter, Leave, Push, Pop
    <3>2. QED
      BY <3>1, ElsewhereKeepsIInv
  <2>3. QED
    BY <1>3, <2>1, <2>2 DEF Uses
<1>4. CASE UNCHANGED vars
  <2>1. pc' = pc /\ UNCHANGED indexVars
    BY <1>4 DEF vars
  <2>2. QED
    BY <2>1, ElsewhereKeepsIInv
<1>5. QED
  BY <1>1, <1>2, <1>3, <1>4, RenewKeepsIInv DEF Next

(* No thread that looks up a keyword sees an index that is not whole.      *)
THEOREM WholeIndexes == Spec => []LookupsSeeTheWholeIndex
<1>1. IInv => LookupsSeeTheWholeIndex
  BY DEF IInv, LookupsSeeTheWholeIndex
<1>2. QED
  BY InitIInv, StepKeepsIInv, <1>1, PTL DEF Spec

(***************************************************************************)
(* Initialisation, if one thread only comes before skit_init has returned. *)
(***************************************************************************)
OneEarly == \E early \in Threads : EarlyThreads = {early}
Initialising == {"init", "modules", "modules_entered", "create_key"}

ThreadTypeOK ==
  /\ pc \in [Threads -> Places]
  /\ init_called \in BOOLEAN /\ key_created \in BOOLEAN
  /\ specific \in [Threads -> BOOLEAN] /\ context \in [Threads -> BOOLEAN] /\ buffers \in [Threads -> BOOLEAN]
(* Until the key is there only the early thread has begun, and it has a    *)
(* context only while the modules use features.                            *)
OnlyTheEarlyBegins ==
  /\ \A t \in Threads : pc[t] \in Initialising => ~key_created
  /\ \A t \in Threads : pc[t] = "start" => ~context[t]
  /\ ~key_created => \A t \in Threads :
       /\ t \notin EarlyThreads => pc[t] = "start"
       /\ t \in EarlyThreads => pc[t] \in Initialising \/ (pc[t] = "start" /\ ~init_called)
       /\ context[t] => pc[t] = "modules_entered"
KeyTellsOfBuffers ==
  /\ key_created => init_called
  /\ \A t \in Threads : pc[t] \in {"modules", "modules_entered", "create_key"} => init_called
  /\ key_created => \A t \in Threads : (context[t] => specific[t]) /\ (specific[t] => buffers[t])

EInv == ThreadTypeOK /\ OnlyTheEarlyBegins /\ KeyTellsOfBuffers

USE DEF Initialising, ThreadTypeOK, OnlyTheEarlyBegins, KeyTellsOfBuffers

LEMMA InitEInv == Init => EInv
<1> SUFFICES ASSUME Init PROVE EInv
  OBVIOUS
<1>1. ThreadTypeOK
  BY DEF Init
<1>2. OnlyTheEarlyBegins
  BY DEF Init
<1>3. KeyTellsOfBuffers
  BY DEF Init
<1>4. QED
  BY <1>1, <1>2, <1>3 DEF EInv

(* Steps that leave the variables of initialisation alone, and move a      *)
(* thread only once the key is there.                                      *)
LEMMA LookingUpKeepsEInv ==
  ASSUME EInv, UNCHANGED initVars,
         pc' = pc \/ \E t \in Threads, to \in Places \ ({"start"} \cup Initialising) :
                       pc[t] \notin {"start"} \cup Initialising /\ pc' = [pc EXCEPT ![t] = to]
  PROVE  EInv'
<1>1. ThreadTypeOK'
  BY DEF EInv, initVars
<1>2. OnlyTheEarlyBegins'
  BY DEF EInv, initVars
<1>3. KeyTellsOfBuffers'
  BY DEF EInv, initVars
<1>4. QED
  BY <1>1, <1>2, <1>3 DEF EInv

LEMMA InitialisingKeepsEInv ==
  ASSUME OneEarly, EInv, NEW t \in Threads, Initialises(t)
  PROVE  EInv'
<1>1. CASE UseFeatures(t)
  <2>1. ThreadTypeOK'
    BY <1>1 DEF OneEarly, EInv, UseFeatures, Goes, initVars
  <2>2. OnlyTheEarlyBegins'
    BY <1>1 DEF OneEarly, EInv, UseFeatures, Goes, initVars
  <2>3. KeyTellsOfBuffers'
    BY <1>1 DEF OneEarly, EInv, UseFeatures, Goes, initVars
  <2>4. QED
    BY <2>1, <2>2, <2>3 DEF EInv
<1>2. CASE SetInitCalled(t)
  <2>1. ThreadTypeOK'
    BY <1>2 DEF OneEarly, EInv, SetInitCalled, Goes
  <2>2. OnlyTheEarlyBegins'
    BY <1>2 DEF OneEarly, EInv, SetInitCalled, Goes
  <2>3. KeyTellsOfBuffers'
    BY <1>2 DEF OneEarly, EInv, SetInitCalled, Goes
  <2>4. QED
    BY <2>1, <2>2, <2>3 DEF EInv
<1>3. CASE InitModules(t)
  <2>1. ThreadTypeOK'
    BY <1>3 DEF OneEarly, EInv, InitModules, SKIT_THREAD_ENTRY_POINT, Goes
  <2>2. OnlyTheEarlyBegins'
    BY <1>3 DEF OneEarly, EInv, InitModules, SKIT_THREAD_ENTRY_POINT, Goes
  <2>3. KeyTellsOfBuffers'
    BY <1>3 DEF OneEarly, EInv, InitModules, SKIT_THREAD_ENTRY_POINT, Goes
  <2>4. QED
    BY <2>1, <2>2, <2>3 DEF EInv
<1>4. CASE LeaveModules(t)
  <2>1. ThreadTypeOK'
    BY <1>4 DEF OneEarly, EInv, LeaveModules, SKIT_THREAD_EXIT_POINT, Goes
  <2>2. OnlyTheEarlyBegins'
    BY <1>4 DEF OneEarly, EInv, LeaveModules, SKIT_THREAD_EXIT_POINT, Goes
  <2>3. KeyTellsOfBuffers'
    BY <1>4 DEF OneEarly, EInv, LeaveModules, SKIT_THREAD_EXIT_POINT, Goes
  <2>4. QED
    BY <2>1, <2>2, <2>3 DEF EInv
<1>5. CASE CreateKey(t)
  <2>1. ThreadTypeOK'
    BY <1>5 DEF OneEarly, EInv, CreateKey, Goes
  <2>2. OnlyTheEarlyBegins'
    BY <1>5 DEF OneEarly, EInv, CreateKey, Goes
  <2>3. KeyTellsOfBuffers'
    BY <1>5 DEF OneEarly, EInv, CreateKey, Goes
  <2>4. QED
    BY <2>1, <2>2, <2>3 DEF EInv
<1>6. QED
  BY <1>1, <1>2, <1>3, <1>4, <1>5 DEF Initialises

LEMMA EnteringKeepsEInv ==
  ASSUME EInv, NEW t \in Threads, Enter(t) \/ Leave(t)
  PROVE  EInv'
<1>1. CASE Enter(t)
  <2>1. ThreadTypeOK'
    BY <1>1 DEF EInv, Enter, SKIT_THREAD_ENTRY_POINT
  <2>2. OnlyTheEarlyBegins'
    BY <1>1 DEF EInv, Enter, SKIT_THREAD_ENTRY_POINT
  <2>3. KeyTellsOfBuffers'
    BY <1>1 DEF EInv, Enter, SKIT_THREAD_ENTRY_POINT
  <2>4. QED
    BY <2>1, <2>2, <2>3 DEF EInv
<1>2. CASE Leave(t)
  <2>1. ThreadTypeOK'
    BY <1>2 DEF EInv, Leave, SKIT_THREAD_EXIT_POINT
  <2>2. OnlyTheEarlyBegins'
    BY <1>2 DEF EInv, Leave, SKIT_THREAD_EXIT_POINT
  <2>3. KeyTellsOfBuffers'
    BY <1>2 DEF EInv, Leave, SKIT_THREAD_EXIT_POINT
  <2>4. QED
    BY <2>1, <2>2, <2>3 DEF EInv
<1>3. QED
  BY <1>1, <1>2

LEMMA StepKeepsEInv ==
  ASSUME OneEarly, EInv, [Next]_vars
  PROVE  EInv'
<1>1. ASSUME NEW t \in Threads, LooksUp(t) \/ LookUp(t) PROVE EInv'
  <2>1. UNCHANGED initVars
    BY <1>1 DEF LooksUp, LookUp, LockGlobal, NewGlobal, UnlockGlobal, LockIndex, AddKeyword, Filled, UnlockIndex, Get
  <2>2. pc' = pc \/ \E to \in Places \ ({"start"} \cup Initialising) :
                       pc[t] \notin {"start"} \cup Initialising /\ pc' = [pc EXCEPT ![t] = to]
    BY <1>1 DEF LooksUp, LookUp, LockGlobal, NewGlobal, UnlockGlobal, LockIndex, AddKeyword, Filled, UnlockIndex, Get, Goes
  <2>3. QED
    BY <2>1, <2>2, LookingUpKeepsEInv
<1>2. ASSUME NEW t \in Threads, Push(t) \/ Pop(t) PROVE EInv'
  BY <1>2, LookingUpKeepsEInv DEF Push, Pop
<1>3. ASSUME NEW i \in Indexes, Renew(i) PROVE EInv'
  BY <1>3, LookingUpKeepsEInv DEF Renew
<1>4. CASE UNCHANGED vars
  BY <1>4, LookingUpKeepsEInv DEF vars
<1>5. QED
  BY <1>1, <1>2, <1>3, <1>4, InitialisingKeepsEInv, EnteringKeepsEInv DEF Next, Uses

(* A thread with a context has its buffers and is known to have them, if   *)
(* one thread alone came before skit_init had returned.                    *)
THEOREM EnteredInitialised == OneEarly /\ Spec => []EnteredThreadsHaveBuffers
<1>1. EInv => EnteredThreadsHaveBuffers
  BY DEF EInv, EnteredThreadsHaveBuffers, skit_thread_init_was_called
<1>2. OneEarly /\ EInv /\ [Next]_vars => EInv'
  BY StepKeepsEInv
<1>3. OneEarly => []OneEarly
  <2>1. OneEarly => OneEarly'
    BY DEF OneEarly
  <2>2. QED
    BY <2>1, PTL
<1>4. QED
  BY InitEInv, <1>1, <1>2, <1>3, PTL DEF Spec

(***************************************************************************)
(* The handler                                                             *)
(***************************************************************************)
(* While the first to push has not popped before another, it is the one    *)
(* that has saved the program's handler; the handler is the program's own  *)
(* when nobody has saved one.                                              *)
HandlerTypeOK ==
  /\ old_action \in [Threads -> {"none", "default", "tracing"}]
  /\ action \in {"default", "tracing"} /\ overlapped \in BOOLEAN
FirstHasSaved ==
  ~overlapped => IF \A t \in Threads : old_action[t] = "none"
                 THEN action = "default"
                 ELSE first \in Threads /\ old_action[first] = "default"

HInv == HandlerTypeOK /\ FirstHasSaved

LEMMA StepKeepsHInv == HInv /\ [Next]_vars => HInv'
<1> SUFFICES ASSUME HInv, [Next]_vars PROVE HInv'
  OBVIOUS
<1>1. ASSUME NEW t \in Threads, Push(t) PROVE HInv'
  <2>1. HandlerTypeOK'
    BY <1>1 DEF HInv, HandlerTypeOK, Push, skit_push_tracing_sig_handler
  <2>2. FirstHasSaved'
    BY <1>1 DEF HInv, HandlerTypeOK, FirstHasSaved, Push, skit_push_tracing_sig_handler
  <2>3. QED
    BY <2>1, <2>2 DEF HInv
<1>2. ASSUME NEW t \in Threads, Pop(t) PROVE HInv'
  <2>1. HandlerTypeOK'
    BY <1>2 DEF HInv, HandlerTypeOK, Pop, skit_pop_tracing_sig_handler
  <2>2. ASSUME ~overlapped' PROVE FirstHasSaved'
    <3>1. ~overlapped /\ (t # first \/ \A u \in Threads \ {t} : old_action[u] = "none")
      BY <1>2, <2>2 DEF Pop
    <3>2. old_action[t] # "none" /\ first' = first
      BY <1>2 DEF Pop
    <3>3. first \in Threads /\ old_action[first] = "default"
      BY <3>1, <3>2 DEF HInv, FirstHasSaved
    <3>4. action' = old_action[t] /\ old_action' = [old_action EXCEPT ![t] = "none"]
      BY <1>2 DEF Pop, skit_pop_tracing_sig_handler
    <3>5. CASE t = first
      BY <3>1, <3>3, <3>4, <3>5 DEF HInv, HandlerTypeOK, FirstHasSaved
    <3>6. CASE t # first
      <4>1. first' \in Threads /\ old_action'[first'] = "default"
        BY <3>2, <3>3, <3>4, <3>6 DEF HInv, HandlerTypeOK
      <4>2. QED
        BY <4>1 DEF FirstHasSaved
    <3>7. QED
      BY <3>5, <3>6
  <2>3. QED
    BY <2>1, <2>2 DEF HInv, FirstHasSaved
<1>3. CASE UNCHANGED signalVars
  BY <1>3 DEF HInv, HandlerTypeOK, FirstHasSaved, signalVars
<1>4. ASSUME NEW t \in Threads, Initialises(t) \/ LooksUp(t) \/ Enter(t) \/ Leave(t) \/ LookUp(t)
      PROVE  UNCHANGED signalVars
  BY <1>4 DEF Initialises, UseFeatures, SetInitCalled, InitModules, LeaveModules, CreateKey, Enter, Leave,
     LooksUp, LookUp, LockGlobal, NewGlobal, UnlockGlobal, LockIndex, AddKeyword, Filled, UnlockIndex, Get
<1>5. ASSUME NEW i \in Indexes, Renew(i) PROVE UNCHANGED signalVars
  BY <1>5 DEF Renew
<1>6. CASE UNCHANGED vars
  BY <1>6, <1>3 DEF vars
<1>7. QED
  BY <1>1, <1>2, <1>3, <1>4, <1>5, <1>6 DEF Next, Uses

(* The process has its own handler back when all who pushed have popped,   *)
(* through every interleaving of pushes and pops in which the first to push *)
(* never popped before another (signal_handling.c).                        *)
THEOREM HandlerRestored == Spec => []HandlersComeBack
<1>1. Init => HInv
  BY DEF Init, HInv, HandlerTypeOK, FirstHasSaved
<1>2. HInv => HandlersComeBack
  BY DEF HInv, FirstHasSaved, HandlersComeBack
<1>3. QED
  BY <1>1, <1>2, StepKeepsHInv, PTL DEF Spec
=============================================================================
