------------------------------ MODULE OsTimers ------------------------------
(***************************************************************************)
(* A software timer: the operations on its handle, by threads and by       *)
(* interrupts, which queue commands, and the timer daemon that carries     *)
(* them out.                                                               *)
(***************************************************************************)
EXTENDS Integers, Sequences

CONSTANTS Users,          \* the threads that use the timer
          QueueLength     \* configTIMER_QUEUE_LENGTH

ASSUME TimersAssumption == QueueLength \in Nat \ {0}

VARIABLES
  handle,         \* whether *timer_t is a handle, and not NULL
  userPc,         \* where each thread is
  commands,       \* the daemon's queue
  alive,          \* whether the timer's memory is allocated
  active,         \* whether the timer runs
  accepted,       \* history: the last command accepted, but for deletes
  deletion,       \* history: how os_timer_delete ended
  overtaken_delete, \* history: a delete came between a thread's test of the
                  \* handle and its use
  stray           \* history: the daemon was given a timer that is no more

timerVars == <<handle, userPc, commands, alive, active, accepted, deletion,
               overtaken_delete, stray>>

\* os_timer_activate and os_timer_reset, os_timer_deactivate, os_timer_change.
Command == {"start", "stop", "change"}

TimersInit ==
  /\ handle = TRUE
  /\ userPc = [u \in Users |-> "idle"]
  /\ commands = <<>>
  /\ alive = TRUE
  /\ active \in BOOLEAN
  /\ accepted = IF active THEN "start" ELSE "stop"
  /\ deletion = "none"
  /\ overtaken_delete = FALSE
  /\ stray = FALSE

HasRoom == Len(commands) < QueueLength

Post(c) ==
  /\ HasRoom
  /\ commands' = Append(commands, c)
  /\ accepted' = c

\* A call that finds NULL in the handle returns at once.
BeginTimerCall(u, c) ==
  /\ userPc[u] = "idle"
  /\ userPc' = [userPc EXCEPT ![u] = IF handle THEN c ELSE "idle"]
  /\ UNCHANGED <<handle, commands, alive, active, accepted, deletion,
                 overtaken_delete, stray>>

\* Mutant: a refused command is reported as accepted.
EndTimerCallBlind(u) ==
  /\ userPc[u] \in Command
  /\ \/ Post(userPc[u])
     \/ ~HasRoom /\ accepted' = userPc[u] /\ UNCHANGED commands
  /\ userPc' = [userPc EXCEPT ![u] = "idle"]
  /\ UNCHANGED <<handle, alive, active, deletion, overtaken_delete, stray>>

\* A thread's command is posted, or refused by a queue that is full: at once, or
\* for a change after 100 ticks.  It is the handle the call has tested that it
\* uses: one that the compiler reads again, after a delete, is NULL, and stands
\* for the same stray command.
EndTimerCall(u) ==
  /\ userPc[u] \in Command
  /\ \/ Post(userPc[u])
     \/ ~HasRoom /\ UNCHANGED <<commands, accepted>>
  /\ userPc' = [userPc EXCEPT ![u] = "idle"]
  /\ UNCHANGED <<handle, alive, active, deletion, overtaken_delete, stray>>

\* An interrupt's call runs between any two steps of the threads, but not inside
\* the critical section of os_timer_delete.
InterruptTimerCall(c) ==
  /\ handle
  /\ Post(c)
  /\ UNCHANGED <<handle, userPc, alive, active, deletion, overtaken_delete, stray>>

BeginDelete(u) ==
  /\ userPc[u] = "idle"
  /\ userPc' = [userPc EXCEPT ![u] = IF handle THEN "delete" ELSE "idle"]
  /\ UNCHANGED <<handle, commands, alive, active, accepted, deletion,
                 overtaken_delete, stray>>

\* Mutants: the handle is left as it was; a refused delete is reported as
\* accepted.
DeleteKeeping(u) ==
  /\ userPc[u] = "delete"
  /\ HasRoom
  /\ commands' = Append(commands, "delete")
  /\ deletion' = "accepted"
  /\ userPc' = [userPc EXCEPT ![u] = "idle"]
  /\ UNCHANGED <<handle, alive, active, accepted, overtaken_delete, stray>>
DeleteBlind(u) ==
  /\ userPc[u] = "delete"
  /\ commands' = IF HasRoom THEN Append(commands, "delete") ELSE commands
  /\ deletion' = "accepted"
  /\ handle' = FALSE
  /\ overtaken_delete' =
       (overtaken_delete \/ \E v \in Users \ {u} : userPc[v] # "idle")
  /\ userPc' = [userPc EXCEPT ![u] = "idle"]
  /\ UNCHANGED <<alive, active, accepted, stray>>

\* The critical section: the handle is gone whether or not the command is
\* accepted.
Delete(u) ==
  /\ userPc[u] = "delete"
  /\ IF HasRoom
       THEN commands' = Append(commands, "delete") /\ deletion' = "accepted"
       ELSE UNCHANGED commands /\ deletion' = "refused"
  /\ handle' = FALSE
  /\ overtaken_delete' =
       (overtaken_delete \/ \E v \in Users \ {u} : userPc[v] # "idle")
  /\ userPc' = [userPc EXCEPT ![u] = "idle"]
  /\ UNCHANGED <<alive, active, accepted, stray>>

\* The daemon carries out the first command.
Daemon ==
  /\ commands # <<>>
  /\ commands' = Tail(commands)
  /\ stray' = (stray \/ ~alive)
  /\ active' = (Head(commands) \in {"start", "change"})
  /\ alive' = (alive /\ Head(commands) # "delete")
  /\ UNCHANGED <<handle, userPc, accepted, deletion, overtaken_delete>>

\* A one-shot timer expires; a periodic one starts again.
Expire ==
  /\ alive
  /\ active
  /\ active' \in BOOLEAN
  /\ UNCHANGED <<handle, userPc, commands, alive, accepted, deletion,
                 overtaken_delete, stray>>

TimersNext ==
  \/ \E u \in Users : \/ \E c \in Command : BeginTimerCall(u, c)
                      \/ EndTimerCall(u) \/ BeginDelete(u) \/ Delete(u)
  \/ \E c \in Command : InterruptTimerCall(c)
  \/ Daemon \/ Expire

\* The daemon has the highest priority of all threads.
TimersFairness == WF_timerVars(Daemon)

TimersSpec == TimersInit /\ [][TimersNext]_timerVars /\ TimersFairness

-----------------------------------------------------------------------------
(* What should hold. *)

TimersTypeOK ==
  /\ handle \in BOOLEAN
  /\ userPc \in [Users -> {"idle", "delete"} \cup Command]
  /\ commands \in Seq(Command \cup {"delete"})
  /\ Len(commands) <= QueueLength
  /\ alive \in BOOLEAN
  /\ active \in BOOLEAN
  /\ accepted \in Command
  /\ deletion \in {"none", "accepted", "refused"}
  /\ overtaken_delete \in BOOLEAN
  /\ stray \in BOOLEAN

\* "Timer handle invalidation needs to be protected as a context switch may
\* create issues if same handle is used before invalidation": with it no command
\* reaches the daemon after the delete, unless another thread was already past
\* its test of the handle.
NoCommandAfterDelete == stray => overtaken_delete

\* The daemon does in the end what the last accepted command says, although
\* interrupts and threads post between its steps: a stop that was accepted
\* leaves the timer stopped once the queue is empty.
StopIsCarriedOut ==
  alive /\ commands = <<>> /\ accepted = "stop" => ~active

\* A delete that returned success frees the timer; one that the full queue
\* refused never does, as its handle is gone.
DeleteEnds == deletion = "accepted" ~> ~alive
=============================================================================
