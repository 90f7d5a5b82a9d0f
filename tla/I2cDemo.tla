------------------------------ MODULE I2cDemo ------------------------------
(***************************************************************************)
(* The I2C master and slave demonstrations: two threads, one that moves    *)
(* data first (the master's writer, the slave's reader) and then puts      *)
(* i2c_sem, and one that waits for i2c_sem and then moves data (the        *)
(* master's reader, the slave's writer).  The two programs are the same    *)
(* but for the bus transfers; only the slave repeats one that moved        *)
(* nothing.                                                                *)
(***************************************************************************)
EXTENDS Integers

CONSTANTS MaxTransfers    \* bounds the transfers of the first thread

ASSUME I2cAssumption == MaxTransfers \in Nat \ {0}

VARIABLES
  role,           \* which program the image is
  bootPc,         \* where main is
  i2c_sem,        \* the count of the binary semaphore
  leaderPc,       \* the thread that puts i2c_sem
  followerPc,     \* the thread that gets it
  led,            \* the transfers the first thread has done
  followed,       \* those the second thread has begun
  fresh           \* history: a transfer was put and none was begun since

i2cVars == <<role, bootPc, i2c_sem, leaderPc, followerPc, led, followed, fresh>>

I2cInit ==
  /\ role \in {"master", "slave"}
  /\ bootPc = "start"
  /\ i2c_sem = 0
  /\ leaderPc = "none"
  /\ followerPc = "none"
  /\ led = 0
  /\ followed = 0
  /\ fresh = FALSE

\* os_semaphore_create: a binary semaphore is created full.
CreateSem ==
  /\ bootPc = "start"
  /\ \/ bootPc' = "take" /\ i2c_sem' = 1
     \/ bootPc' = "returned" /\ UNCHANGED i2c_sem
  /\ UNCHANGED <<role, leaderPc, followerPc, led, followed, fresh>>

\* Mutant: main does not take the semaphore that was created full.
LeaveSem ==
  /\ bootPc = "take"
  /\ bootPc' = "first"
  /\ UNCHANGED <<role, i2c_sem, leaderPc, followerPc, led, followed, fresh>>

TakeSem ==
  /\ bootPc = "take"
  /\ i2c_sem = 1
  /\ i2c_sem' = 0
  /\ bootPc' = "first"
  /\ UNCHANGED <<role, leaderPc, followerPc, led, followed, fresh>>

\* The master creates its writer first, the slave its reader: both the thread
\* that leads.  Neither looks at whether os_thread_create succeeded.
CreateLeader ==
  /\ bootPc = "first"
  /\ leaderPc' \in {"none", "transfer"}
  /\ bootPc' = "second"
  /\ UNCHANGED <<role, i2c_sem, followerPc, led, followed, fresh>>

CreateFollower ==
  /\ bootPc = "second"
  /\ followerPc' \in {"none", "get"}
  /\ bootPc' = "returned"
  /\ UNCHANGED <<role, i2c_sem, leaderPc, led, followed, fresh>>

\* i2c_drv_write of the master, i2c_drv_read of the slave.
LeaderTransfer ==
  /\ leaderPc = "transfer"
  /\ led < MaxTransfers
  /\ leaderPc' = "put"
  /\ led' = led + 1
  /\ UNCHANGED <<role, bootPc, i2c_sem, followerPc, followed, fresh>>

\* The slave's read that returned no byte.
LeaderRetry ==
  /\ role = "slave"
  /\ leaderPc = "transfer"
  /\ UNCHANGED i2cVars

\* Mutant: the put only wakes a thread that is waiting.
LeaderWake ==
  /\ leaderPc = "put"
  /\ i2c_sem' = IF followerPc = "get" THEN 1 ELSE i2c_sem
  /\ leaderPc' = "transfer"
  /\ fresh' = TRUE
  /\ UNCHANGED <<role, bootPc, followerPc, led, followed>>

\* os_semaphore_put: one that finds the semaphore full is lost.
LeaderPut ==
  /\ leaderPc = "put"
  /\ i2c_sem' = 1
  /\ leaderPc' = "transfer"
  /\ fresh' = TRUE
  /\ UNCHANGED <<role, bootPc, followerPc, led, followed>>

FollowerGet ==
  /\ followerPc = "get"
  /\ i2c_sem = 1
  /\ i2c_sem' = 0
  /\ followerPc' = "transfer"
  /\ UNCHANGED <<role, bootPc, leaderPc, led, followed, fresh>>

FollowerTransfer ==
  /\ followerPc = "transfer"
  /\ followed' = followed + 1
  /\ followerPc' = "sleep"
  /\ fresh' = FALSE
  /\ UNCHANGED <<role, bootPc, i2c_sem, leaderPc, led>>

\* The end of the transfer, the prints and the sleep.
FollowerSleep ==
  /\ followerPc = "sleep"
  /\ followerPc' = "get"
  /\ UNCHANGED <<role, bootPc, i2c_sem, leaderPc, led, followed, fresh>>

Follower == FollowerGet \/ FollowerTransfer \/ FollowerSleep

I2cNext ==
  \/ CreateSem \/ TakeSem \/ CreateLeader \/ CreateFollower
  \/ LeaderTransfer \/ LeaderRetry \/ LeaderPut
  \/ Follower

\* The second thread's sleeps are bounded and the bus transfer ends.
I2cFairness == WF_i2cVars(Follower)

I2cSpec == I2cInit /\ [][I2cNext]_i2cVars /\ I2cFairness

-----------------------------------------------------------------------------
(* What should hold. *)

I2cTypeOK ==
  /\ role \in {"master", "slave"}
  /\ bootPc \in {"start", "take", "first", "second", "returned"}
  /\ i2c_sem \in {0, 1}
  /\ leaderPc \in {"none", "transfer", "put"}
  /\ followerPc \in {"none", "get", "transfer", "sleep"}
  /\ led \in 0 .. MaxTransfers
  /\ followed \in Nat
  /\ fresh \in BOOLEAN

\* "i2c_drv_read is blocked on i2c_drv_write, to ensure that data is read only
\* after a write occurs", and the other way round in the slave: the semaphore,
\* created full, lets no transfer of the second thread go before its own one of
\* the first.
FollowsATransfer ==
  followed + i2c_sem + (IF followerPc = "transfer" THEN 1 ELSE 0)
    <= led - (IF leaderPc = "put" THEN 1 ELSE 0)
  \/ bootPc = "take"

\* Puts that the semaphore coalesces are not lost on the second thread: after
\* the last of them it does one more transfer.
PutIsFollowed == fresh /\ followerPc # "none" ~> ~fresh
=============================================================================
