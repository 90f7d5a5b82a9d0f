------------------------------ MODULE OsHooks ------------------------------
(***************************************************************************)
(* The table of functions that the tick interrupt, or the idle thread,     *)
(* calls, and the threads that set up and remove functions in it: any      *)
(* thread any function.  Nothing guards the table: each read and each      *)
(* write of an entry is a step.  The two tables and their operations are   *)
(* alike.                                                                  *)
(***************************************************************************)
EXTENDS Integers

CONSTANTS MAX_CUSTOM_HOOKS,
          Registrars,     \* the threads that set up and remove functions
          Hooks,          \* the functions
          NULL

ASSUME HooksAssumption ==
  /\ MAX_CUSTOM_HOOKS \in Nat
  /\ NULL \notin Hooks

VARIABLES
  hooks,          \* g_os_tick_hooks
  hookPc,         \* where each thread is
  func,           \* the function its call is about, NULL in none
  at,             \* i, in its call
  setUp,          \* history: the functions whose last call set them up
  raced,          \* history: an entry was written that another was about to write
  by,             \* history: the thread that stored the function of an entry
  setUpAtOnce,    \* history: the functions two threads were setting up at once
  contended       \* history: the functions two threads had calls about at once

overlapVars == <<setUpAtOnce, contended>>
hookVars == <<hooks, hookPc, func, at, setUp, raced, by, overlapVars>>

Entry == 0 .. MAX_CUSTOM_HOOKS - 1
Scanning == {"find", "place", "look"}
Writing == {"store", "clear"}
SettingUp == {"find", "place", "store"}

HooksInit ==
  /\ hooks = [i \in Entry |-> NULL]
  /\ hookPc = [r \in Registrars |-> "idle"]
  /\ func \in [Registrars -> {NULL}]
  /\ at = [r \in Registrars |-> 0]
  /\ setUp = {}
  /\ raced = FALSE
  /\ by = [i \in Entry |-> NULL]
  /\ setUpAtOnce = {}
  /\ contended = {}

HookGoto(r, pc) == hookPc' = [hookPc EXCEPT ![r] = pc]
NextEntry(r) == at' = [at EXCEPT ![r] = @ + 1] /\ UNCHANGED <<hookPc, func>>
FirstEntry(r) == at' = [at EXCEPT ![r] = 0] /\ UNCHANGED func
ReturnHook(r) ==
  /\ HookGoto(r, "idle")
  /\ func' = [func EXCEPT ![r] = NULL]
  /\ at' = [at EXCEPT ![r] = 0]

\* The threads other than r that are in a call about f.
Others(r, f) == {s \in Registrars \ {r} : func[s] = f}

\* os_setup_tick_function looks for the function first, os_remove_tick_function
\* at once.
BeginHookCall(r, f) ==
  /\ hookPc[r] = "idle"
  /\ \E pc \in {"find", "look"} :
       /\ HookGoto(r, pc)
       /\ setUpAtOnce' = setUpAtOnce \cup
            {g \in {f} : pc = "find" /\ \E s \in Others(r, f) : hookPc[s] \in SettingUp}
  /\ contended' = contended \cup {g \in {f} : Others(r, f) # {}}
  /\ func' = [func EXCEPT ![r] = f]
  /\ UNCHANGED <<hooks, at, setUp, raced, by>>

\* Mutant: the function is not looked for.
FindNothing(r) ==
  /\ hookPc[r] = "find"
  /\ HookGoto(r, "place")
  /\ FirstEntry(r)
  /\ UNCHANGED <<hooks, setUp, raced, by, overlapVars>>

\* A function that is in the table is set up already.
FindHook(r) ==
  /\ hookPc[r] = "find"
  /\ IF at[r] = MAX_CUSTOM_HOOKS
       THEN HookGoto(r, "place") /\ FirstEntry(r) /\ UNCHANGED setUp
       ELSE IF hooks[at[r]] = func[r]
         THEN ReturnHook(r) /\ setUp' = setUp \cup {func[r]}
         ELSE NextEntry(r) /\ UNCHANGED setUp
  /\ UNCHANGED <<hooks, raced, by, overlapVars>>

\* Mutant: the entry need not be free.
PlaceAnywhere(r) ==
  /\ hookPc[r] = "place"
  /\ HookGoto(r, "store")
  /\ UNCHANGED <<func, at>>
  /\ UNCHANGED <<hooks, setUp, raced, by, overlapVars>>

\* The first entry that is free, if there is one.
PlaceHook(r) ==
  /\ hookPc[r] = "place"
  /\ IF at[r] = MAX_CUSTOM_HOOKS
       THEN ReturnHook(r)
       ELSE IF hooks[at[r]] = NULL
         THEN HookGoto(r, "store") /\ UNCHANGED <<func, at>>
         ELSE NextEntry(r)
  /\ UNCHANGED <<hooks, setUp, raced, by, overlapVars>>

\* A function that is not in the table cannot be removed.
LookForHook(r) ==
  /\ hookPc[r] = "look"
  /\ IF at[r] = MAX_CUSTOM_HOOKS
       THEN ReturnHook(r) /\ setUp' = setUp \ {func[r]}
       ELSE IF hooks[at[r]] = func[r]
         THEN HookGoto(r, "clear") /\ UNCHANGED <<func, at, setUp>>
         ELSE NextEntry(r) /\ UNCHANGED setUp
  /\ UNCHANGED <<hooks, raced, by, overlapVars>>

WriteEntry(r, value) ==
  /\ hooks' = [hooks EXCEPT ![at[r]] = value]
  /\ raced' = (raced \/ \E s \in Registrars \ {r} :
                          hookPc[s] \in Writing /\ at[s] = at[r])
  /\ ReturnHook(r)
  /\ UNCHANGED overlapVars

StoreHook(r) ==
  /\ hookPc[r] = "store"
  /\ WriteEntry(r, func[r])
  /\ by' = [by EXCEPT ![at[r]] = r]
  /\ setUp' = setUp \cup {func[r]}

ClearHook(r) ==
  /\ hookPc[r] = "clear"
  /\ WriteEntry(r, NULL)
  /\ by' = [by EXCEPT ![at[r]] = NULL]
  /\ setUp' = setUp \ {func[r]}

HooksNext ==
  \E r \in Registrars :
    \/ \E f \in Hooks : BeginHookCall(r, f)
    \/ FindHook(r) \/ PlaceHook(r) \/ StoreHook(r)
    \/ LookForHook(r) \/ ClearHook(r)

HooksSpec == HooksInit /\ [][HooksNext]_hookVars

-----------------------------------------------------------------------------
(* What should hold. *)

HooksTypeOK ==
  /\ hooks \in [Entry -> Hooks \cup {NULL}]
  /\ hookPc \in [Registrars -> {"idle"} \cup Scanning \cup Writing]
  /\ func \in [Registrars -> Hooks \cup {NULL}]
  /\ at \in [Registrars -> 0 .. MAX_CUSTOM_HOOKS]
  /\ setUp \subseteq Hooks
  /\ raced \in BOOLEAN
  /\ by \in [Entry -> Registrars \cup {NULL}]
  /\ setUpAtOnce \subseteq Hooks
  /\ contended \subseteq Hooks

\* A function is in the table twice, to be called twice by one tick, only if two
\* threads were setting it up at once (os_setup_tick_function looks it up and
\* stores it in two loops), and even then no thread put it in twice: it takes at
\* most one entry for each thread that raced.
OnlyOverlapHooksTwice ==
  \A i, j \in Entry :
    i # j /\ hooks[i] # NULL /\ hooks[i] = hooks[j]
      => hooks[i] \in setUpAtOnce /\ by[i] # by[j]

\* A function that no two threads made calls about at once is in the table if
\* and only if the last call for it set it up and was told so, whatever threads
\* do about other functions meanwhile: for all but one kind of race, in which a
\* thread writes an entry that another has found free, or found to be its own,
\* and not yet written.  That one loses a function that
\* os_setup_tick_function accepted.
SetUpIsHooked ==
  ~raced =>
    \A f \in Hooks \ contended : f \in setUp <=> \E i \in Entry : hooks[i] = f
=============================================================================
