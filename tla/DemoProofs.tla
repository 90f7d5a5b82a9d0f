----------------------------- MODULE DemoProofs -----------------------------
(***************************************************************************)
(* The small demonstrations: the NTP client, the I2C pair's semaphore, the *)
(* UART's echo and the SSP pair's streams, for every value of their        *)
(* constants, and the pins of every board and application.                 *)
(***************************************************************************)
EXTENDS NtpClient, I2cDemo, UartEcho, SspDemo, BoardPins, SequenceTheorems,
        TLAPS

-----------------------------------------------------------------------------
(* The NTP client. *)

\* The exchanges counted are those answered since the first, of which there are
\* fewer than asked for until the synchronisation ends.
ExchangesCounted ==
  /\ maxXchange \in 1 .. 10
  /\ first => cnt = 0
  /\ answers = cnt
  /\ ntpPc \in ExchangePc => cnt < maxXchange
  /\ ~is_time_sync_started => ntpPc = "none"

NtpInv == NtpTypeOK /\ ExchangeLeavesNothing /\ ExchangesCounted

LEMMA AdjustedRange ==
  ASSUME NEW n \in Nat
  PROVE  Adjusted(n) \in 1 .. 10
BY DEF Adjusted, DEFAULT_MAX_XCHANGE

\* The clock counts from another year than the server, both modulo Wrap.
LEMMA EpochCancels ==
  ASSUME NEW t \in Stamps
  PROVE  /\ (t - Epoch) % Wrap \in 0 .. Wrap - 1
         /\ (((t - Epoch) % Wrap) + Epoch) % Wrap = t
<1>1. t \in 0 .. Wrap - 1 /\ Epoch \in 0 .. Wrap - 1 /\ Wrap \in Nat /\ Wrap > 0
  BY NtpAssumption
<1>2. CASE t >= Epoch
  BY <1>1, <1>2
<1>3. CASE t < Epoch
  <2>1. (t - Epoch) % Wrap = t - Epoch + Wrap
    BY <1>1, <1>3
  <2>2. (t + Wrap) % Wrap = t
    BY <1>1
  <2> QED
    BY <1>1, <2>1, <2>2
<1> QED
  BY <1>1, <1>2, <1>3

\* The end of an exchange, by its kind.
LEMMA EndedFacts ==
  ASSUME NtpInv, ntpPc \in ExchangePc, NEW success \in BOOLEAN, Ended(success),
         success => transmit' \in Stamps
  PROVE  /\ ntpPc' \in {"resolve", "idle"}
         /\ first' = FALSE
         /\ cnt' = IF success /\ ~first THEN cnt + 1 ELSE cnt
         /\ ntpPc' = "resolve" => cnt' < maxXchange
         /\ clock' \in (0 .. Wrap - 1) \cup {Unset}
         /\ clock' # clock =>
              /\ success /\ ~first
              /\ cnt' = maxXchange
              /\ (clock' + Epoch) % Wrap = transmit'
<1> USE DEF NtpInv, NtpTypeOK, ExchangesCounted
<1>1. CASE first
  BY <1>1 DEF Ended
<1>2. CASE ~first
  <2>1. /\ first' = FALSE
        /\ cnt' = IF success THEN cnt + 1 ELSE cnt
        /\ ntpPc' = IF success /\ cnt' < maxXchange THEN "resolve" ELSE "idle"
        /\ clock' = IF success /\ cnt' = maxXchange
                      THEN (transmit' - Epoch) % Wrap ELSE clock
    BY <1>2 DEF Ended
  <2> QED
    BY <1>2, <2>1, EpochCancels
<1> QED
  BY <1>1, <1>2

\* A failure ends the exchange and answers nothing.
LEMMA FailedFacts ==
  ASSUME NtpInv, ntpPc \in ExchangePc, Failed
  PROVE  /\ ntpPc' \in {"resolve", "idle"}
         /\ first' = FALSE
         /\ cnt' = cnt
         /\ ntpPc' = "resolve" => cnt < maxXchange
         /\ UNCHANGED <<clock, transmit, answers>>
<1>1. Ended(FALSE) /\ UNCHANGED <<transmit, answers>>
  BY DEF Failed
<1>2. UNCHANGED clock
  BY <1>1 DEF Ended
<1> QED
  BY <1>1, <1>2, EndedFacts

\* What is allocated where the thread is.
SocketsAt(pc) == IF pc \in {"send", "select", "alloc", "recv"} THEN 1 ELSE 0
BuffersAt(pc) == IF pc = "recv" THEN 1 ELSE 0

\* The two ways a step of an exchange may go.
LEMMA FailedKeeps ==
  ASSUME NtpInv, ntpPc \in ExchangePc, Failed,
         UNCHANGED <<is_time_sync_started, maxXchange>>,
         sockets' = 0, buffers' = 0
  PROVE  NtpInv'
<1>1. /\ ntpPc' \in {"resolve", "idle"}
      /\ first' = FALSE
      /\ cnt' = cnt
      /\ ntpPc' = "resolve" => cnt < maxXchange
      /\ UNCHANGED <<clock, transmit, answers>>
  BY FailedFacts
<1>2. NtpTypeOK'
  <2>1. /\ ntpPc' \in {"none", "idle"} \cup ExchangePc
        /\ sockets' \in Int
        /\ buffers' \in Int
    BY <1>1 DEF ExchangePc
  <2>2. /\ cnt' \in Nat
        /\ first' \in BOOLEAN
    BY <1>1 DEF NtpInv, NtpTypeOK
  <2> QED
    BY <1>1, <2>1, <2>2 DEF NtpInv, NtpTypeOK
<1>3. ExchangeLeavesNothing'
  BY <1>1 DEF ExchangeLeavesNothing
<1>4. ExchangesCounted'
  BY <1>1 DEF NtpInv, ExchangesCounted, ExchangePc
<1> QED
  BY <1>2, <1>3, <1>4 DEF NtpInv

LEMMA GoesOn ==
  ASSUME NtpInv, NEW from \in ExchangePc, NEW to \in ExchangePc,
         ExchangeStep(from, to),
         UNCHANGED <<is_time_sync_started, maxXchange>>,
         sockets' = SocketsAt(to), buffers' = BuffersAt(to)
  PROVE  NtpInv'
<1>1. NtpTypeOK'
  BY DEF NtpInv, NtpTypeOK, ExchangeStep, SocketsAt, BuffersAt
<1>2. ExchangeLeavesNothing'
  BY DEF ExchangeLeavesNothing, ExchangeStep, SocketsAt, BuffersAt
<1>3. ExchangesCounted'
  BY DEF NtpInv, ExchangesCounted, ExchangeStep, ExchangePc
<1> QED
  BY <1>1, <1>2, <1>3 DEF NtpInv

LEMMA NtpStepInv ==
  ASSUME NtpInv, [NtpNext]_ntpVars
  PROVE  NtpInv'
<1>1. CASE StartTimeSync
  BY <1>1 DEF StartTimeSync, NtpInv, NtpTypeOK, ExchangeLeavesNothing,
              ExchangesCounted, ExchangePc
<1>2. CASE BeginSync
  <2>1. maxXchange' \in 1 .. 10
    BY <1>2, AdjustedRange, NtpAssumption DEF BeginSync
  <2>2. NtpTypeOK'
    BY <1>2, <2>1 DEF BeginSync, NtpInv, NtpTypeOK, ExchangePc
  <2>3. ExchangeLeavesNothing'
    BY <1>2 DEF BeginSync, NtpInv, ExchangeLeavesNothing
  <2>4. ExchangesCounted'
    BY <1>2, <2>1 DEF BeginSync, NtpInv, ExchangesCounted
  <2> QED
    BY <2>2, <2>3, <2>4 DEF NtpInv
<1> DEFINE Took(pc) == sockets = SocketsAt(pc) /\ buffers = BuffersAt(pc)
<1>3. ntpPc \in ExchangePc => Took(ntpPc) /\ sockets \in Int /\ buffers \in Int
  BY DEF NtpInv, NtpTypeOK, ExchangeLeavesNothing, SocketsAt, BuffersAt
<1>4. CASE Resolve
  <2>1. ntpPc = "resolve"
    BY <1>4 DEF Resolve, ExchangeStep
  <2>2. sockets' = 0 /\ buffers' = 0
    BY <1>3, <1>4, <2>1 DEF Resolve, SocketsAt, BuffersAt, ExchangePc
  <2> QED
    BY <1>4, <2>1, <2>2, FailedKeeps, GoesOn
       DEF Resolve, SocketsAt, BuffersAt, ExchangePc
<1>5. CASE OpenSocket
  <2>1. ntpPc = "socket" /\ sockets = 0 /\ buffers = 0
    BY <1>3, <1>5 DEF OpenSocket, ExchangeStep, SocketsAt, BuffersAt, ExchangePc
  <2> QED
    BY <1>5, <2>1, FailedKeeps, GoesOn
       DEF OpenSocket, SocketsAt, BuffersAt, ExchangePc
<1>6. ASSUME NEW from \in ExchangePc, NEW to \in ExchangePc, SendOrWait(from, to),
             SocketsAt(from) = 1, SocketsAt(to) = 1,
             BuffersAt(from) = 0, BuffersAt(to) = 0
      PROVE  NtpInv'
  <2>1. ntpPc = from /\ sockets = 1 /\ buffers = 0
    BY <1>3, <1>6 DEF SendOrWait, ExchangeStep
  <2> QED
    BY <1>6, <2>1, FailedKeeps, GoesOn DEF SendOrWait, CloseSocket
<1>7. CASE SendOrWait("send", "select") \/ SendOrWait("select", "alloc")
  BY <1>6, <1>7 DEF SocketsAt, BuffersAt, ExchangePc
<1>8. CASE Alloc
  <2>1. ntpPc = "alloc" /\ sockets = 1 /\ buffers = 0
    BY <1>3, <1>8 DEF Alloc, ExchangeStep, SocketsAt, BuffersAt, ExchangePc
  <2> QED
    BY <1>8, <2>1, FailedKeeps, GoesOn
       DEF Alloc, CloseSocket, SocketsAt, BuffersAt, ExchangePc
<1>9. CASE Recv
  <2>1. ntpPc = "recv" /\ ntpPc \in ExchangePc /\ sockets' = 0 /\ buffers' = 0
    BY <1>3, <1>9 DEF Recv, CloseSocket, SocketsAt, BuffersAt, ExchangePc
  <2>2. CASE Failed
    BY <1>9, <2>1, <2>2, FailedKeeps DEF Recv
  <2>3. CASE /\ transmit' \in Stamps
             /\ answers' = IF first THEN answers ELSE answers + 1
             /\ Ended(TRUE)
    <3>1. /\ ntpPc' \in {"resolve", "idle"}
          /\ first' = FALSE
          /\ cnt' = IF ~first THEN cnt + 1 ELSE cnt
          /\ ntpPc' = "resolve" => cnt' < maxXchange
          /\ clock' \in (0 .. Wrap - 1) \cup {Unset}
      BY <2>1, <2>3, EndedFacts
    <3>2. answers' = cnt' /\ cnt' \in Nat
      BY <2>3, <3>1 DEF NtpInv, NtpTypeOK, ExchangesCounted
    <3>3. NtpTypeOK'
      <4>1. /\ ntpPc' \in {"none", "idle"} \cup ExchangePc
            /\ sockets' \in Int
            /\ buffers' \in Int
        BY <2>1, <3>1 DEF ExchangePc
      <4>2. answers' \in Nat /\ first' \in BOOLEAN
        BY <3>1, <3>2
      <4> QED
        BY <1>9, <2>3, <3>1, <3>2, <4>1, <4>2 DEF Recv, NtpInv, NtpTypeOK
    <3>4. ExchangeLeavesNothing'
      BY <2>1, <3>1 DEF ExchangeLeavesNothing
    <3>5. ExchangesCounted'
      BY <1>9, <2>1, <3>1, <3>2 DEF Recv, NtpInv, ExchangesCounted, ExchangePc
    <3> QED
      BY <3>3, <3>4, <3>5 DEF NtpInv
  <2> QED
    BY <1>9, <2>2, <2>3 DEF Recv
<1>10. CASE UNCHANGED ntpVars
  BY <1>10 DEF ntpVars, NtpInv, NtpTypeOK, ExchangeLeavesNothing, ExchangesCounted
<1> QED
  BY <1>1, <1>2, <1>4, <1>5, <1>7, <1>8, <1>9, <1>10 DEF NtpNext, NtpStep

\* The invariant of the NTP client.
THEOREM NtpInvariant == NtpSpec => []NtpInv
<1>1. NtpInit => NtpInv
  <2> HAVE NtpInit
  <2>1. NtpTypeOK
    <3>1. maxXchange \in Nat /\ sockets \in Int /\ buffers \in Int
      BY DEF NtpInit, DEFAULT_MAX_XCHANGE
    <3>2. cnt \in Nat /\ answers \in Nat
      BY DEF NtpInit
    <3>3. transmit \in Stamps \cup {Junk} /\ clock \in (0 .. Wrap - 1) \cup {Unset}
      BY DEF NtpInit
    <3> QED
      BY <3>1, <3>2, <3>3 DEF NtpInit, NtpTypeOK
  <2>2. ExchangeLeavesNothing
    BY DEF NtpInit, ExchangeLeavesNothing
  <2>3. ExchangesCounted
    BY DEF NtpInit, ExchangesCounted, ExchangePc, DEFAULT_MAX_XCHANGE
  <2> QED
    BY <2>1, <2>2, <2>3 DEF NtpInv
<1>2. NtpInv /\ [NtpNext]_ntpVars => NtpInv'
  BY NtpStepInv
<1> QED
  BY <1>1, <1>2, PTL DEF NtpSpec

\* An exchange closes its socket and frees its buffer whichever step fails.
THEOREM ExchangeLeavesNothingCorrect == NtpSpec => []ExchangeLeavesNothing
BY NtpInvariant, PTL DEF NtpInv

\* The clock is only ever set to what the server said last, after as many
\* answers as were asked for.
THEOREM ClockIsServerTimeCorrect == NtpSpec => ClockIsServerTime
<1> DEFINE Set == /\ answers' = maxXchange /\ maxXchange \in 1 .. 10
                  /\ transmit' \in Stamps
                  /\ (clock' + Epoch) % Wrap = transmit'
<1>1. NtpInv /\ [NtpNext]_ntpVars => [clock' # clock => Set]_ntpVars
  <2> SUFFICES ASSUME NtpInv, NtpNext, clock' # clock
               PROVE  Set
    OBVIOUS
  <2>1. ntpPc \in ExchangePc => ~Failed
    BY FailedFacts
  <2>2. Recv /\ Ended(TRUE) /\ transmit' \in Stamps
             /\ answers' = IF first THEN answers ELSE answers + 1
    BY <2>1 DEF NtpNext, NtpStep, StartTimeSync, BeginSync, Resolve, OpenSocket,
                SendOrWait, Alloc, Recv, ExchangeStep, ExchangePc
  <2>3. ntpPc \in ExchangePc
    BY <2>2 DEF Recv, ExchangePc
  <2> QED
    BY <2>2, <2>3, EndedFacts DEF NtpInv, ExchangesCounted
<1> QED
  BY <1>1, NtpInvariant, PTL DEF NtpSpec, ClockIsServerTime
-----------------------------------------------------------------------------
(* The I2C pair. *)

\* Nothing runs before main has created it, and main takes the semaphore, which
\* was created full, before it creates anything.
BootOrder ==
  /\ bootPc \in {"start", "take", "first"} =>
       leaderPc = "none" /\ followerPc = "none" /\ led = 0 /\ followed = 0
  /\ bootPc = "second" => followerPc = "none"
  /\ bootPc = "start" => i2c_sem = 0
  /\ leaderPc = "none" => led = 0

I2cInv == I2cTypeOK /\ BootOrder /\ FollowsATransfer

\* The invariant of the I2C pair.
THEOREM I2cInvariant == I2cSpec => []I2cInv
<1>1. I2cInit => I2cInv
  <2> HAVE I2cInit
  <2>1. I2cTypeOK
    <3>1. led \in 0 .. MaxTransfers /\ i2c_sem \in {0, 1} /\ followed \in Nat
      BY I2cAssumption DEF I2cInit
    <3> QED
      BY <3>1 DEF I2cInit, I2cTypeOK
  <2>2. BootOrder
    BY DEF I2cInit, BootOrder
  <2>3. FollowsATransfer
    BY DEF I2cInit, FollowsATransfer
  <2> QED
    BY <2>1, <2>2, <2>3 DEF I2cInv
<1>2. I2cInv /\ [I2cNext]_i2cVars => I2cInv'
  <2> SUFFICES ASSUME I2cInv, [I2cNext]_i2cVars PROVE I2cInv'
    OBVIOUS
  <2> USE I2cAssumption DEF I2cInv, I2cTypeOK, BootOrder, FollowsATransfer
  <2>1. CASE CreateSem
    BY <2>1 DEF CreateSem
  <2>2. CASE TakeSem
    BY <2>2 DEF TakeSem
  <2>3. CASE CreateLeader
    BY <2>3 DEF CreateLeader
  <2>4. CASE CreateFollower
    BY <2>4 DEF CreateFollower
  <2>5. CASE LeaderTransfer
    BY <2>5 DEF LeaderTransfer
  <2>6. CASE LeaderPut
    BY <2>6 DEF LeaderPut
  <2>7. CASE FollowerGet
    BY <2>7 DEF FollowerGet
  <2>8. CASE FollowerTransfer
    <3>1. followed' \in Nat
      BY <2>8 DEF FollowerTransfer
    <3>2. I2cTypeOK'
      BY <2>8, <3>1 DEF FollowerTransfer
    <3>3. FollowsATransfer'
      BY <2>8 DEF FollowerTransfer
    <3> QED
      BY <2>8, <3>2, <3>3 DEF FollowerTransfer
  <2>9. CASE FollowerSleep
    BY <2>9 DEF FollowerSleep
  <2>10. CASE UNCHANGED i2cVars
    BY <2>10 DEF i2cVars
  <2> QED
    BY <2>1, <2>2, <2>3, <2>4, <2>5, <2>6, <2>7, <2>8, <2>9, <2>10
       DEF I2cNext, Follower, LeaderRetry
<1> QED
  BY <1>1, <1>2, PTL DEF I2cSpec

\* However the two threads and main interleave, and in either program, the
\* second thread has begun no more transfers than the first has finished.
THEOREM FollowsATransferCorrect == I2cSpec => []FollowsATransfer
BY I2cInvariant, PTL DEF I2cInv

-----------------------------------------------------------------------------
(* The UART's echo. *)

\* Failed reads shift the line but do not reach the last place of buf.
LastPlaceKept ==
  /\ buf[BUFSIZE - 1] = "NUL"
  /\ uartPc = "read" => ~dropped

UartInv == UartTypeOK /\ LastPlaceKept /\ LineIsEchoed

LEMMA CharFacts ==
  /\ {"CR", "LF", "NUL"} \subseteq Char
  /\ Letters \subseteq Char
BY DEF Char

LEMMA PlaceFacts ==
  ASSUME count \in Nat
  PROVE  /\ BUFSIZE - 1 \in Place
         /\ Room => count \in Place /\ count + 1 \in Place /\ count + 1 < BUFSIZE - 1
         /\ \A i \in 1 .. BUFSIZE - 3 : i - 1 \in Place
BY UartAssumption DEF Room, Place

LEMMA UartStepInv ==
  ASSUME UartInv, [UartNext]_uartVars
  PROVE  UartInv'
<1>1. ASSUME NEW c \in Letters \cup {"CR"}, ReadChar(c) PROVE UartInv'
  <2>1. /\ Room /\ uartPc = "read" /\ ~dropped /\ c \in Char
        /\ count \in Nat /\ line \in Seq(Char) /\ temp \in Char
        /\ buf \in [Place -> Char]
        /\ BUFSIZE \in Nat /\ BUFSIZE > 3
    BY <1>1, CharFacts, UartAssumption
       DEF ReadChar, UartInv, UartTypeOK, LastPlaceKept
  <2>2. /\ Append(line, c) \in Seq(Char)
        /\ Len(Append(line, c)) = Len(line) + 1
        /\ \A i \in 1 .. Len(line) : Append(line, c)[i] = line[i]
        /\ Append(line, c)[Len(line) + 1] = c
        /\ Len(line) \in Nat
    BY <2>1
  <2>3. ~failed => /\ count = Len(line) /\ Len(line) <= BUFSIZE - 3
                   /\ \A i \in 1 .. Len(line) : buf[i - 1] = line[i]
    BY <2>1 DEF UartInv, LineIsEchoed
  <2>4. CASE c = "CR" \/ Full
    <3>1. /\ temp' = "CR" /\ count' = count + 2 /\ uartPc' = "flushed"
          /\ dropped' = (c # "CR")
          /\ line' = IF c = "CR" THEN line ELSE Append(line, c)
          /\ UNCHANGED failed
      BY <1>1, <2>4 DEF ReadChar, Flush
    <3>2. /\ buf' \in [Place -> Char]
          /\ buf'[BUFSIZE - 1] = buf[BUFSIZE - 1]
          /\ \A i \in Place : i < count => buf'[i] = buf[i]
      BY <1>1, <2>1, <2>4, CharFacts, PlaceFacts DEF ReadChar, Flush
    <3>3. UartTypeOK' /\ LastPlaceKept'
      BY <2>1, <2>2, <3>1, <3>2, CharFacts DEF UartInv, UartTypeOK, LastPlaceKept
    <3>4. ~failed => count' = Len(line) + 2
      BY <2>1, <2>3, <3>1
    <3>5. LineIsEchoed'
      <4>1. (IF dropped' THEN Len(line') - 1 ELSE Len(line')) = Len(line)
        <5>1. CASE c = "CR"
          BY <3>1, <5>1
        <5>2. CASE c # "CR"
          <6>1. dropped' = TRUE /\ Len(line') = Len(line) + 1
            BY <2>2, <3>1, <5>2
          <6> QED
            BY <2>2, <6>1
        <5> QED
          BY <5>1, <5>2
      <4>2. ~failed => \A i \in 1 .. Len(line) : line'[i] = line[i] /\ buf'[i - 1] = line[i]
        BY <2>1, <2>2, <2>3, <3>1, <3>2 DEF Place
      <4> QED
        BY <2>1, <2>3, <3>1, <3>2, <3>4, <4>1, <4>2
           DEF LineIsEchoed, UartInv, LastPlaceKept
    <3> QED
      BY <3>3, <3>5 DEF UartInv
  <2>5. CASE ~(c = "CR" \/ Full)
    <3>1. /\ Store(c) /\ line' = Append(line, c) /\ UNCHANGED failed
      BY <1>1, <2>5 DEF ReadChar
    <3>2. /\ buf' \in [Place -> Char]
          /\ buf'[BUFSIZE - 1] = buf[BUFSIZE - 1]
          /\ buf'[count] = c
          /\ \A i \in Place : i < count => buf'[i] = buf[i]
      BY <2>1, <3>1, PlaceFacts DEF Store
    <3>3. UartTypeOK' /\ LastPlaceKept'
      BY <2>1, <2>2, <3>1, <3>2 DEF UartInv, UartTypeOK, LastPlaceKept, Store
    <3>4. LineIsEchoed'
      <4>1. ~failed => \A i \in 1 .. Len(line') : buf'[i - 1] = line'[i]
        BY <2>1, <2>2, <2>3, <3>1, <3>2 DEF Place
      <4>2. ~failed => count' = Len(line') /\ Len(line') <= BUFSIZE - 3
        BY <2>1, <2>2, <2>3, <2>5, <3>1 DEF Store, Full
      <4> QED
        BY <2>1, <3>1, <3>2, <4>1, <4>2
           DEF LineIsEchoed, UartInv, LastPlaceKept, Store
    <3> QED
      BY <3>3, <3>4 DEF UartInv
  <2> QED
    BY <2>4, <2>5
<1>2. CASE ReadFails
  <2>1. UartTypeOK' /\ LastPlaceKept'
    BY <1>2, PlaceFacts
       DEF ReadFails, Store, UartInv, UartTypeOK, LastPlaceKept
  <2>2. LineIsEchoed'
    BY <1>2 DEF ReadFails, LineIsEchoed
  <2> QED
    BY <2>1, <2>2 DEF UartInv
<1>3. CASE Clear
  <2>1. line' = <<>> /\ Len(line') = 0 /\ line' \in Seq(Char)
    BY <1>3, EmptySeq DEF Clear
  <2>2. UartTypeOK' /\ LastPlaceKept'
    BY <1>3, <2>1, CharFacts, PlaceFacts, UartAssumption
       DEF Clear, UartInv, UartTypeOK, LastPlaceKept
  <2>3. LineIsEchoed'
    BY <1>3, <2>1, <2>2, UartAssumption DEF Clear, LineIsEchoed, LastPlaceKept
  <2> QED
    BY <2>2, <2>3 DEF UartInv
<1>4. CASE UNCHANGED uartVars
  BY <1>4 DEF uartVars, UartInv, UartTypeOK, LastPlaceKept, LineIsEchoed
<1> QED
  BY <1>1, <1>2, <1>3, <1>4 DEF UartNext, ReadNothing

\* The invariant of the UART's echo.
THEOREM UartInvariant == UartSpec => []UartInv
<1>1. UartInit => UartInv
  <2> HAVE UartInit
  <2>1. line = <<>> /\ Len(line) = 0 /\ line \in Seq(Char)
    BY EmptySeq DEF UartInit
  <2>2. UartTypeOK /\ LastPlaceKept
    BY <2>1, CharFacts, UartAssumption
       DEF UartInit, UartTypeOK, LastPlaceKept, Place
  <2>3. LineIsEchoed
    BY <2>1, <2>2, UartAssumption DEF UartInit, LineIsEchoed, LastPlaceKept
  <2> QED
    BY <2>2, <2>3 DEF UartInv
<1>2. UartInv /\ [UartNext]_uartVars => UartInv'
  BY UartStepInv
<1> QED
  BY <1>1, <1>2, PTL DEF UartSpec

\* For a buffer of any size and any characters: unless a read failed, what is
\* written back at the end of a line is the line, within the buffer.
THEOREM LineIsEchoedCorrect == UartSpec => []LineIsEchoed
BY UartInvariant, PTL DEF UartInv

-----------------------------------------------------------------------------
(* The SSP pair: remainders and draws. *)

\* Remainders.
LEMMA ModFacts ==
  ASSUME NEW L \in Nat \ {0}
  PROVE  /\ \A x \in Nat : x % L \in 0 .. L - 1
         /\ \A x \in 0 .. L - 1 : x % L = x
         /\ L % L = 0
OBVIOUS

\* A positive multiple of L is at least L.
LEMMA Multiple ==
  ASSUME NEW L \in Nat \ {0}, NEW d \in Int, d >= 1
  PROVE  L * d \in Int /\ L * d >= L
<1>1. L * (d - 1) >= 0 /\ L * (d - 1) \in Int OBVIOUS
<1>2. L * d = L * (d - 1) + L OBVIOUS
<1>. QED BY <1>1, <1>2

\* A number has one remainder.
LEMMA Remainder ==
  ASSUME NEW L \in Nat \ {0}, NEW q \in Int, NEW r \in 0 .. L - 1,
         NEW p \in Int, NEW s \in 0 .. L - 1, L * q + r = L * p + s
  PROVE  r = s
<1>1. L * (q - p) = s - r
  <2>1. L * (q - p) = L * q - L * p OBVIOUS
  <2>2. L * q \in Int /\ L * p \in Int OBVIOUS
  <2>. QED BY <2>1, <2>2
<1>2. L * (p - q) = r - s
  <2>1. L * (p - q) = L * p - L * q OBVIOUS
  <2>2. L * q \in Int /\ L * p \in Int OBVIOUS
  <2>. QED BY <2>1, <2>2
<1>3. ~(q - p >= 1) BY <1>1, Multiple
<1>4. ~(p - q >= 1) BY <1>2, Multiple
<1>5. q = p BY <1>3, <1>4
<1>. QED BY <1>1, <1>5

\* Adding the divisor leaves the remainder.
LEMMA ModStep ==
  ASSUME NEW L \in Nat \ {0}, NEW y \in Nat
  PROVE  (L + y) % L = y % L
<1>. DEFINE z == L + y
<1>1. y = L * (y \div L) + (y % L) /\ y \div L \in Int /\ (y % L) \in 0 .. L - 1
  OBVIOUS
<1>2. z = L * (z \div L) + (z % L) /\ z \div L \in Int /\ (z % L) \in 0 .. L - 1
  OBVIOUS
<1>3. L * ((y \div L) + 1) = L * (y \div L) + L BY <1>1
<1>4. L * (y \div L) \in Int BY <1>1
<1>5. L * (z \div L) + (z % L) = L * ((y \div L) + 1) + (y % L) BY <1>1, <1>2, <1>3, <1>4
<1>6. PICK p \in Int : p = (y \div L) + 1 BY <1>1
<1>7. PICK q \in Int : q = z \div L BY <1>2
<1>8. L * q + (z % L) = L * p + (y % L) BY <1>5, <1>6, <1>7
<1>9. z % L = y % L BY <1>1, <1>2, <1>8, Remainder
<1>. QED BY <1>9

\* A generator that has come round goes on as from the start.
LEMMA AtAt ==
  ASSUME NEW x \in 1 .. Len(Draws), NEW y \in Nat
  PROVE  At(At(x) + y) = At(x + y)
<1>. DEFINE L == Len(Draws)
<1>1. L \in Nat \ {0} BY SspAssumption
<1>2. CASE x < L
  <2>1. At(x) = x BY <1>1, <1>2, ModFacts DEF At
  <2>. QED BY <2>1
<1>3. CASE x = L
  <2>1. At(x) = 0 BY <1>1, <1>3, ModFacts DEF At
  <2>2. At(L + y) = At(y) BY <1>1, ModStep DEF At
  <2>3. 0 + y = y OBVIOUS
  <2>. QED BY <1>3, <2>1, <2>2, <2>3
<1>. QED BY <1>1, <1>2, <1>3

\* What the generator returns.
LEMMA DrawFacts ==
  /\ Len(Draws) \in Nat \ {0}
  /\ \A x \in Nat : /\ At(x) \in 0 .. Len(Draws) - 1
                    /\ Draw(x) \in Nat
                    /\ Length(x) \in Nat
<1>1. Len(Draws) \in Nat \ {0} /\ SSP_BUF_LEN \in Nat \ {0} BY SspAssumption
<1>2. \A x \in Nat : At(x) \in 0 .. Len(Draws) - 1
  BY <1>1, ModFacts DEF At
<1>3. \A x \in Nat : Draw(x) \in Nat
  <2>. TAKE x \in Nat
  <2>1. PICK a \in 0 .. Len(Draws) - 1 : At(x) = a BY <1>2
  <2>2. a + 1 \in 1 .. Len(Draws) BY <1>1
  <2>. QED BY <2>1, <2>2, SspAssumption DEF Draw
<1>4. \A x \in Nat : Length(x) \in Nat
  <2>. TAKE x \in Nat
  <2>1. Draw(x) \in Nat BY <1>3
  <2>2. Draw(x) % SSP_BUF_LEN \in 0 .. SSP_BUF_LEN - 1 BY <1>1, <2>1, ModFacts
  <2>. QED BY <1>1, <2>2 DEF Length
<1>. QED BY <1>1, <1>2, <1>3, <1>4

-----------------------------------------------------------------------------
(* The messages between master and slave. *)

\* What the slave has read of its message, and all that is under way to it.
Reading == IF slavePc = "length" THEN <<>> ELSE read_data
Pipe == Reading \o (ring \o toWrite)

\* The first messages of the generator: where each starts, among the draws and
\* among all bytes.
History(n, pos, off) ==
  /\ pos \in [0 .. n -> 0 .. Len(Draws) - 1]
  /\ off \in [0 .. n -> Nat]
  /\ \A k \in 0 .. n - 1 : /\ pos[k + 1] = At(pos[k] + Length(pos[k]) + 1)
                           /\ off[k + 1] = off[k] + Length(pos[k])
  /\ \A k, l \in 0 .. n : k <= l => off[k] <= off[l]

\* p is the data of the messages from i to before m; of none if the slave, at i,
\* is ahead by messages without data.
Carries(p, pos, off, i, m) ==
  /\ Len(p) = off[m] - off[i]
  /\ \A k \in i .. m - 1 : \A j \in 1 .. Length(pos[k]) :
       p[off[k] - off[i] + j] = Draw(pos[k] + j)

\* The slave is at its message i, the master has sent those before m.
Abreast(pos, off, i, m) ==
  /\ masterAt = pos[m]
  /\ slavePc = "length" => slaveAt = pos[i]
  /\ slavePc # "length" => slaveAt = At(pos[i] + 1) /\ want = Length(pos[i])
  /\ Carries(Pipe, pos, off, i, m)

InStep ==
  \E n \in Nat : \E pos, off : \E i, m \in 0 .. n :
    History(n, pos, off) /\ Abreast(pos, off, i, m)

\* The inductive invariant: as long as nothing was lost master and slave are in step.
SspInv ==
  /\ masterAt \in Nat
  /\ toWrite \in Seq(Nat) /\ ring \in Seq(Nat) /\ read_data \in Seq(Nat)
  /\ slavePc \in {"length", "read", "verify"}
  /\ slavePc = "verify" => Len(read_data) = want
  /\ ~faulty => errors = 0 /\ InStep

\* The same, message by message.
Facts(n, pos, off) ==
  /\ \A k \in 0 .. n : /\ pos[k] \in 0 .. Len(Draws) - 1 /\ pos[k] \in Nat
                       /\ off[k] \in Nat /\ Length(pos[k]) \in Nat
                       /\ pos[k] + Length(pos[k]) + 1 \in Nat
  /\ \A k \in 0 .. n : k < n => /\ k + 1 \in 0 .. n
                                /\ pos[k + 1] = At(pos[k] + Length(pos[k]) + 1)
                                /\ off[k + 1] = off[k] + Length(pos[k])
  /\ \A k, l \in 0 .. n : k <= l => off[k] <= off[l]

\* What a history says of each message.
LEMMA HistoryFacts ==
  ASSUME NEW n \in Nat, NEW pos, NEW off, History(n, pos, off)
  PROVE  Facts(n, pos, off)
<1>1. \A k \in 0 .. n : pos[k] \in 0 .. Len(Draws) - 1 /\ off[k] \in Nat
  BY DEF History
<1>2. \A x \in 0 .. Len(Draws) - 1 : x \in Nat OBVIOUS
<1>3. \A k \in 0 .. n : pos[k] \in Nat /\ Length(pos[k]) \in Nat
  BY <1>1, <1>2, DrawFacts
<1>4. \A x, y \in Nat : x + y + 1 \in Nat OBVIOUS
<1>5. \A k \in 0 .. n : k < n => k + 1 \in 0 .. n /\ k \in 0 .. n - 1 OBVIOUS
<1>. QED BY <1>1, <1>3, <1>4, <1>5 DEF History, Facts

\* The history can be continued by a message.
LEMMA HistoryGrows ==
  ASSUME NEW n \in Nat, NEW pos, NEW off, History(n, pos, off)
  PROVE  \E pos2, off2 :
           /\ History(n + 1, pos2, off2)
           /\ \A k \in 0 .. n : pos2[k] = pos[k] /\ off2[k] = off[k]
<1>. DEFINE P == [k \in 0 .. n + 1 |-> IF k <= n THEN pos[k]
                                       ELSE At(pos[n] + Length(pos[n]) + 1)]
            O == [k \in 0 .. n + 1 |-> IF k <= n THEN off[k]
                                       ELSE off[n] + Length(pos[n])]
<1>0. Facts(n, pos, off) BY HistoryFacts
<1>1. \A k \in 0 .. n : P[k] = pos[k] /\ O[k] = off[k] OBVIOUS
<1>2. /\ P[n + 1] = At(pos[n] + Length(pos[n]) + 1)
      /\ O[n + 1] = off[n] + Length(pos[n])
  OBVIOUS
<1>3. /\ off[n] \in Nat /\ Length(pos[n]) \in Nat
      /\ pos[n] + Length(pos[n]) + 1 \in Nat
  BY <1>0 DEF Facts
<1>4. P[n + 1] \in 0 .. Len(Draws) - 1 /\ O[n + 1] \in Nat /\ O[n + 1] >= off[n]
  <2>1. P[n + 1] \in 0 .. Len(Draws) - 1 BY <1>2, <1>3, DrawFacts
  <2>. HIDE DEF P, O
  <2>. QED BY <1>2, <1>3, <2>1
<1>5. P \in [0 .. n + 1 -> 0 .. Len(Draws) - 1] /\ O \in [0 .. n + 1 -> Nat]
  BY <1>1, <1>4 DEF History
<1>. HIDE DEF P, O
<1>6. \A k \in 0 .. n : /\ P[k + 1] = At(P[k] + Length(P[k]) + 1)
                        /\ O[k + 1] = O[k] + Length(P[k])
  <2>. TAKE k \in 0 .. n
  <2>1. CASE k = n BY <1>1, <1>2, <2>1
  <2>2. CASE k # n
    <3>1. k \in 0 .. n - 1 /\ k + 1 \in 0 .. n BY <2>2
    <3>. QED BY <1>1, <3>1 DEF History
  <2>. QED BY <2>1, <2>2
<1>7. \A k, l \in 0 .. n + 1 : k <= l => O[k] <= O[l]
  <2>. TAKE k, l \in 0 .. n + 1
  <2>. HAVE k <= l
  <2>1. CASE l \in 0 .. n BY <1>1, <2>1 DEF History
  <2>2. CASE l = n + 1 /\ k \in 0 .. n
    <3>1. off[k] <= off[n] /\ off[k] \in Nat BY <2>2 DEF History
    <3>. QED BY <1>1, <1>3, <1>4, <2>2, <3>1
  <2>3. CASE l = n + 1 /\ k = n + 1 BY <1>4, <2>3
  <2>. QED BY <2>1, <2>2, <2>3
<1>8. n + 1 - 1 = n OBVIOUS
<1>9. History(n + 1, P, O) BY ONLY <1>5, <1>6, <1>7, <1>8 DEF History
<1>. QED BY <1>1, <1>9

\* The generator can be followed as far as one likes.
LEMMA Ahead ==
  ASSUME InStep
  PROVE  \E n \in Nat : \E pos, off : \E i, m \in 0 .. n :
           /\ History(n, pos, off) /\ Abreast(pos, off, i, m)
           /\ i < n /\ m < n
<1>. PICK n \in Nat : \E pos, off : \E i, m \in 0 .. n :
         History(n, pos, off) /\ Abreast(pos, off, i, m)
  BY DEF InStep
<1>. PICK pos, off : \E i, m \in 0 .. n :
         History(n, pos, off) /\ Abreast(pos, off, i, m)
  OBVIOUS
<1>1. PICK i \in 0 .. n, m \in 0 .. n :
        History(n, pos, off) /\ Abreast(pos, off, i, m)
  OBVIOUS
<1>2. PICK p, o : /\ History(n + 1, p, o)
                  /\ \A k \in 0 .. n : p[k] = pos[k] /\ o[k] = off[k]
  BY <1>1, HistoryGrows
<1>3. \A k \in i .. m - 1 : k \in 0 .. n OBVIOUS
<1>4. Carries(Pipe, p, o, i, m)
  BY <1>1, <1>2, <1>3 DEF Abreast, Carries
<1>5. Abreast(p, o, i, m) BY <1>1, <1>2, <1>4 DEF Abreast
<1>6. n + 1 \in Nat /\ i \in 0 .. n + 1 /\ m \in 0 .. n + 1 /\ i < n + 1 /\ m < n + 1
  OBVIOUS
<1>. QED BY <1>2, <1>5, <1>6

\* Another message enters.
LEMMA CarriesMore ==
  ASSUME NEW n \in Nat, NEW pos, NEW off, History(n, pos, off),
         NEW i \in 0 .. n, NEW m \in 0 .. n, m < n,
         NEW p \in Seq(Nat), NEW q \in Seq(Nat), Carries(p, pos, off, i, m),
         Len(q) = Length(pos[m]), \A j \in 1 .. Len(q) : q[j] = Draw(pos[m] + j)
  PROVE  Carries(p \o q, pos, off, i, m + 1)
<1>0. Facts(n, pos, off) BY HistoryFacts
<1>1. PICK a \in Nat, b \in Nat, c \in Nat, d \in Nat :
        off[i] = a /\ off[m] = b /\ Len(p) = c /\ Len(q) = d
  <2>1. off[i] \in Nat /\ off[m] \in Nat BY <1>0 DEF Facts
  <2>2. Len(p) \in Nat /\ Len(q) \in Nat OBVIOUS
  <2>. QED BY ONLY <2>1, <2>2
<1>C. \A x \in 1 .. c + d : (p \o q)[x] = IF x <= c THEN p[x] ELSE q[x - c]
  BY <1>1, ConcatProperties
<1>00. off[m + 1] = b + d /\ c = b - a
  BY <1>1, <1>0 DEF Facts, Carries
<1>2. Len(p \o q) = off[m + 1] - off[i]
  <2>1. Len(p \o q) = c + d BY <1>1, ConcatProperties
  <2>. QED BY <1>00, <1>1, <2>1
<1>3. ASSUME NEW k \in i .. m, NEW j \in 1 .. Length(pos[k])
      PROVE  (p \o q)[off[k] - off[i] + j] = Draw(pos[k] + j)
  <2>0. k \in 0 .. n /\ i <= k BY <1>3
  <2>1. PICK x \in Nat, y \in Nat : off[k] = x /\ Length(pos[k]) = y /\ a <= x
    BY <1>1, <2>0, <1>0 DEF Facts
  <2>2. CASE k = m
    <3>1. j \in 1 .. d BY <1>1, <1>3, <2>2
    <3>2. b - a + j = c + j /\ c + j \in 1 .. c + d /\ ~(c + j <= c) /\ c + j - c = j
      BY <1>00, <3>1
    <3>3. (p \o q)[c + j] = q[j]
      <4>1. PICK z \in 1 .. c + d : z = c + j /\ ~(z <= c) /\ z - c = j BY <3>2
      <4>2. (p \o q)[z] = q[z - c] BY ONLY <1>C, <4>1
      <4>. QED BY ONLY <4>1, <4>2
    <3>. QED BY <1>1, <2>2, <3>1, <3>2, <3>3
  <2>3. CASE k # m
    <3>1. k \in i .. m - 1 /\ k + 1 \in 0 .. n /\ k + 1 <= m BY <2>3
    <3>2. x + y <= b
      <4>1. k < n /\ k + 1 \in 0 .. n BY <2>0, <3>1
      <4>2. off[k + 1] = x + y BY <2>0, <2>1, <4>1, <1>0 DEF Facts
      <4>3. off[k + 1] <= off[m] BY <3>1, <4>1, <1>0 DEF Facts
      <4>. QED BY <1>1, <4>2, <4>3
    <3>3. j \in 1 .. y BY <1>3, <2>1
    <3>4. x - a + j \in 1 .. c /\ x - a + j \in 1 .. c + d /\ x - a + j <= c
      BY <1>00, <2>1, <3>2, <3>3
    <3>5. (p \o q)[x - a + j] = p[x - a + j] BY <1>C, <3>4
    <3>6. p[off[k] - off[i] + j] = Draw(pos[k] + j) BY <1>3, <3>1 DEF Carries
    <3>. QED BY <1>1, <2>1, <3>5, <3>6
  <2>. QED BY <2>2, <2>3
<1>4. PICK l \in Nat : l = m + 1 /\ \A k \in i .. l - 1 : k \in i .. m OBVIOUS
<1>5. \A k \in i .. l - 1 : \A j \in 1 .. Length(pos[k]) :
        (p \o q)[off[k] - off[i] + j] = Draw(pos[k] + j)
  BY <1>3, <1>4
<1>6. Len(p \o q) = off[l] - off[i] BY <1>2, <1>4
<1>7. Carries(p \o q, pos, off, i, l) BY <1>5, <1>6 DEF Carries
<1>. QED BY ONLY <1>4, <1>7

\* The slave has read its message: it is what the master sent, and the next
\* follows.
LEMMA CarriesLess ==
  ASSUME NEW n \in Nat, NEW pos, NEW off, History(n, pos, off),
         NEW i \in 0 .. n, NEW m \in 0 .. n, i < n,
         NEW r \in Seq(Nat), NEW q \in Seq(Nat), Carries(r \o q, pos, off, i, m),
         Len(r) = Length(pos[i])
  PROVE  /\ \A j \in 1 .. Len(r) : r[j] = Draw(pos[i] + j)
         /\ Carries(q, pos, off, i + 1, m)
<1>0. Facts(n, pos, off) BY HistoryFacts
<1>1. PICK a \in Nat, b \in Nat, c \in Nat, d \in Nat :
        off[i] = a /\ off[m] = b /\ Len(r) = c /\ Len(q) = d
  <2>1. off[i] \in Nat /\ off[m] \in Nat BY <1>0 DEF Facts
  <2>2. Len(r) \in Nat /\ Len(q) \in Nat OBVIOUS
  <2>. QED BY ONLY <2>1, <2>2
<1>C. \A x \in 1 .. c + d : (r \o q)[x] = IF x <= c THEN r[x] ELSE q[x - c]
  BY <1>1, ConcatProperties
<1>2. off[i + 1] = a + c /\ c + d = b - a
  <2>1. Len(r \o q) = c + d BY <1>1, ConcatProperties
  <2>. QED BY <1>1, <2>1, <1>0 DEF Facts, Carries
<1>3. ASSUME NEW j \in 1 .. Len(r) PROVE r[j] = Draw(pos[i] + j)
  <2>1. i < m
    <3>. SUFFICES ASSUME m <= i PROVE FALSE OBVIOUS
    <3>1. b <= a BY <1>1, <1>0 DEF Facts
    <3>2. j \in 1 .. c BY <1>1, <1>3
    <3>. QED BY <1>2, <3>1, <3>2
  <2>2. i \in i .. m - 1 BY <2>1
  <2>3. j \in 1 .. c BY <1>1, <1>3
  <2>4. a - a + j = j /\ j \in 1 .. c + d /\ j <= c BY <2>3
  <2>5. (r \o q)[off[i] - off[i] + j] = Draw(pos[i] + j)
    BY <1>1, <1>3, <2>2 DEF Carries
  <2>6. (r \o q)[j] = r[j] BY <1>C, <2>4
  <2>. QED BY <1>1, <2>4, <2>5, <2>6
<1>4. Len(q) = off[m] - off[i + 1] BY <1>1, <1>2
<1>5. ASSUME NEW k \in i + 1 .. m - 1, NEW j \in 1 .. Length(pos[k])
      PROVE  q[off[k] - off[i + 1] + j] = Draw(pos[k] + j)
  <2>1. /\ k \in 0 .. n /\ k + 1 \in 0 .. n /\ i + 1 \in 0 .. n /\ i + 1 <= k
        /\ k + 1 <= m /\ k \in i .. m - 1 /\ k < n
    BY <1>5
  <2>2. PICK x \in Nat, y \in Nat : off[k] = x /\ Length(pos[k]) = y
    BY <2>1, <1>0 DEF Facts
  <2>3. a + c <= x
    <3>1. off[i + 1] <= off[k] BY <2>1, <1>0 DEF Facts
    <3>. QED BY <1>2, <2>2, <3>1
  <2>4. x + y <= b
    <3>1. off[k + 1] = x + y BY <2>1, <2>2, <1>0 DEF Facts
    <3>2. off[k + 1] <= off[m] BY <2>1, <1>0 DEF Facts
    <3>. QED BY <1>1, <3>1, <3>2
  <2>5. j \in 1 .. y BY <1>5, <2>2
  <2>6. /\ x - a + j \in 1 .. c + d /\ ~(x - a + j <= c)
        /\ x - a + j - c = x - (a + c) + j
    BY <1>2, <2>3, <2>4, <2>5
  <2>7. (r \o q)[off[k] - off[i] + j] = Draw(pos[k] + j)
    BY <1>5, <2>1 DEF Carries
  <2>8. (r \o q)[x - a + j] = q[x - a + j - c]
    <3>1. PICK z \in 1 .. c + d : z = x - a + j /\ ~(z <= c) BY <2>6
    <3>2. (r \o q)[z] = q[z - c] BY ONLY <1>C, <3>1
    <3>. QED BY ONLY <3>1, <3>2
  <2>. QED BY <1>1, <1>2, <2>2, <2>6, <2>7, <2>8
<1>6. /\ \A j \in 1 .. Len(r) : r[j] = Draw(pos[i] + j)
      /\ \A k \in i + 1 .. m - 1 : \A j \in 1 .. Length(pos[k]) :
           q[off[k] - off[i + 1] + j] = Draw(pos[k] + j)
  BY <1>3, <1>5
<1>. QED BY ONLY <1>4, <1>6 DEF Carries

\* Appending is associative.
LEMMA Associative ==
  ASSUME NEW s \in Seq(Nat), NEW t \in Seq(Nat), NEW u \in Seq(Nat)
  PROVE  (s \o t) \o u = s \o (t \o u)
BY ConcatAssociative, SMT

\* The bytes under way are a sequence.
LEMMA PipeTypes ==
  ASSUME SspInv
  PROVE  /\ Reading \in Seq(Nat) /\ (ring \o toWrite) \in Seq(Nat) /\ Pipe \in Seq(Nat)
<1>1. Reading \in Seq(Nat) BY DEF SspInv, Reading
<1>2. (ring \o toWrite) \in Seq(Nat) BY ConcatProperties DEF SspInv
<1>. QED BY <1>1, <1>2, ConcatProperties DEF Pipe

\* A step that moves bytes along changes nothing else.
LEMMA PipeMoves ==
  ASSUME InStep, Pipe' = Pipe, masterAt' = masterAt, slaveAt' = slaveAt,
         want' = want, slavePc' = "length" <=> slavePc = "length"
  PROVE  InStep'
<1>. PICK n \in Nat : \E pos, off : \E i, m \in 0 .. n :
         History(n, pos, off) /\ Abreast(pos, off, i, m)
  BY DEF InStep
<1>. PICK pos, off : \E i, m \in 0 .. n :
         History(n, pos, off) /\ Abreast(pos, off, i, m)
  OBVIOUS
<1>1. PICK i \in 0 .. n, m \in 0 .. n :
        History(n, pos, off) /\ Abreast(pos, off, i, m)
  OBVIOUS
<1>2. Carries(Pipe, pos, off, i, m)' BY <1>1 DEF Abreast, Carries
<1>3. Abreast(pos, off, i, m)' BY <1>1, <1>2 DEF Abreast
<1>4. History(n, pos, off)' BY <1>1 DEF History
<1>. QED BY <1>3, <1>4 DEF InStep

\* The master appends a message to what is under way.
LEMMA MasterMessageInv == SspInv /\ MasterMessage => SspInv'
<1>. SUFFICES ASSUME SspInv, MasterMessage PROVE SspInv' OBVIOUS
<1>. DEFINE len == Length(masterAt)
            q == [j \in 1 .. len |-> Draw(masterAt + j)]
<1>1. /\ toWrite = <<>> /\ toWrite' = q /\ masterAt' = At(masterAt + len + 1)
      /\ UNCHANGED <<ring, slavePc, slaveAt, want, read_data, errors, faulty>>
  BY DEF MasterMessage, SlaveSide
<1>2. masterAt \in Nat /\ len \in Nat /\ masterAt + len + 1 \in Nat
  <2>1. masterAt \in Nat /\ len \in Nat BY DrawFacts DEF SspInv
  <2>. HIDE DEF len
  <2>. QED BY <2>1
<1>3. q \in Seq(Nat) /\ Len(q) = len /\ \A j \in 1 .. len : q[j] = Draw(masterAt + j)
  <2>. HIDE DEF len
  <2>1. \A j \in 1 .. len : masterAt + j \in Nat BY <1>2
  <2>2. \A j \in 1 .. len : Draw(masterAt + j) \in Nat BY <2>1, DrawFacts
  <2>. QED BY <1>2, <2>2
<1>4. masterAt' \in Nat
  <2>1. At(masterAt + len + 1) \in 0 .. Len(Draws) - 1 BY <1>2, DrawFacts
  <2>. QED BY <1>1, <2>1
<1>5. ~faulty => InStep'
  <2>. SUFFICES ASSUME ~faulty PROVE InStep' OBVIOUS
  <2>1. InStep BY DEF SspInv
  <2>. PICK n \in Nat : \E pos, off : \E i, m \in 0 .. n :
         History(n, pos, off) /\ Abreast(pos, off, i, m) /\ i < n /\ m < n
    BY <2>1, Ahead
  <2>. PICK pos, off : \E i, m \in 0 .. n :
         History(n, pos, off) /\ Abreast(pos, off, i, m) /\ i < n /\ m < n
    OBVIOUS
  <2>2. PICK i \in 0 .. n, m \in 0 .. n :
         History(n, pos, off) /\ Abreast(pos, off, i, m) /\ i < n /\ m < n
    OBVIOUS
  <2>3. Facts(n, pos, off) BY <2>2, HistoryFacts
  <2>4. masterAt = pos[m] /\ masterAt \in Nat /\ len \in Nat
    BY <2>2, <2>3 DEF Facts, Abreast
  <2>5. q \in Seq(Nat) /\ Len(q) = Length(pos[m])
        /\ \A j \in 1 .. Len(q) : q[j] = Draw(pos[m] + j)
    <3>. HIDE DEF q
    <3>. QED BY <1>3, <2>4
  <2>6. Pipe' = Pipe \o q
    <3>. HIDE DEF q
    <3>1. Pipe = Reading \o ring BY <1>1 DEF SspInv, Pipe
    <3>2. Pipe' = Reading \o (ring \o q) BY <1>1 DEF Pipe, Reading
    <3>3. ring \in Seq(Nat) /\ Reading \in Seq(Nat) BY PipeTypes DEF SspInv
    <3>4. (Reading \o ring) \o q = Reading \o (ring \o q) BY <2>5, <3>3, Associative
    <3>. QED BY <3>1, <3>2, <3>4
  <2>7. Carries(Pipe \o q, pos, off, i, m + 1)
    <3>. HIDE DEF q
    <3>1. Carries(Pipe, pos, off, i, m) BY <2>2 DEF Abreast
    <3>. QED BY <2>2, <2>4, <2>5, <3>1, PipeTypes, CarriesMore
  <2>8. masterAt' = pos[m + 1] /\ m + 1 \in 0 .. n
    BY <1>1, <2>2, <2>3, <2>4 DEF Facts
  <2>9. Abreast(pos, off, i, m + 1)'
    BY <1>1, <2>2, <2>6, <2>7, <2>8 DEF Abreast, Carries
  <2>10. History(n, pos, off)' BY <2>2 DEF History
  <2>. QED BY <1>1, <2>5, <2>8, <2>9, <2>10 DEF InStep
<1>. QED BY <1>1, <1>3, <1>4, <1>5 DEF SspInv

\* A byte moves to the ring, or is lost.
LEMMA MasterByteInv == SspInv /\ MasterByte => SspInv'
<1>. SUFFICES ASSUME SspInv, MasterByte PROVE SspInv' OBVIOUS
<1>1. /\ toWrite # <<>> /\ toWrite' = Tail(toWrite)
      /\ UNCHANGED <<masterAt, slavePc, slaveAt, want, read_data, errors>>
  BY DEF MasterByte, SlaveSide
<1>2. Head(toWrite) \in Nat /\ Tail(toWrite) \in Seq(Nat)
  BY <1>1, HeadTailProperties DEF SspInv
<1>3. CASE ring' = Append(ring, Head(toWrite)) /\ faulty' = faulty
  <2>1. ring' \in Seq(Nat) BY <1>2, <1>3, AppendProperties DEF SspInv
  <2>2. ring' \o toWrite' = ring \o toWrite
    <3>1. <<Head(toWrite)>> \in Seq(Nat) BY <1>2
    <3>2. ring' = ring \o <<Head(toWrite)>> BY <1>2, <1>3, AppendIsConcat DEF SspInv
    <3>3. toWrite = <<Head(toWrite)>> \o Tail(toWrite) BY <1>1, <1>2 DEF SspInv
    <3>4. (ring \o <<Head(toWrite)>>) \o Tail(toWrite)
            = ring \o (<<Head(toWrite)>> \o Tail(toWrite))
      BY <1>2, <3>1, Associative DEF SspInv
    <3>. QED BY <1>1, <3>2, <3>3, <3>4
  <2>3. Pipe' = Pipe BY <1>1, <2>2 DEF Pipe, Reading
  <2>4. ~faulty => InStep' BY <1>1, <2>3, PipeMoves DEF SspInv
  <2>. QED BY <1>1, <1>2, <1>3, <2>1, <2>4 DEF SspInv
<1>4. CASE faulty' = TRUE /\ ring' = ring
  BY <1>1, <1>2, <1>4 DEF SspInv
<1>. QED BY <1>3, <1>4 DEF MasterByte

\* The slave draws the length of the message it is at.
LEMMA SlaveLengthInv == SspInv /\ SlaveLength => SspInv'
<1>. SUFFICES ASSUME SspInv, SlaveLength PROVE SspInv' OBVIOUS
<1>1. /\ slavePc = "length" /\ slavePc' = "read" /\ read_data' = <<>>
      /\ want' = Length(slaveAt) /\ slaveAt' = At(slaveAt + 1)
      /\ UNCHANGED <<masterAt, toWrite, ring, errors, faulty>>
  BY DEF SlaveLength
<1>2. Pipe' = Pipe BY <1>1 DEF Pipe, Reading
<1>3. InStep => InStep'
  <2>. SUFFICES ASSUME InStep PROVE InStep' OBVIOUS
  <2>. PICK n \in Nat : \E pos, off : \E i, m \in 0 .. n :
         History(n, pos, off) /\ Abreast(pos, off, i, m)
    BY DEF InStep
  <2>. PICK pos, off : \E i, m \in 0 .. n :
         History(n, pos, off) /\ Abreast(pos, off, i, m)
    OBVIOUS
  <2>1. PICK i \in 0 .. n, m \in 0 .. n :
         History(n, pos, off) /\ Abreast(pos, off, i, m)
    OBVIOUS
  <2>2. Carries(Pipe, pos, off, i, m)' BY <1>2, <2>1 DEF Abreast, Carries
  <2>3. slaveAt = pos[i] BY <1>1, <2>1 DEF Abreast
  <2>4. Abreast(pos, off, i, m)' BY <1>1, <2>1, <2>2, <2>3 DEF Abreast
  <2>5. History(n, pos, off)' BY <2>1 DEF History
  <2>. QED BY <2>4, <2>5 DEF InStep
<1>4. <<>> \in Seq(Nat) OBVIOUS
<1>. QED BY <1>1, <1>3, <1>4 DEF SspInv

\* Bytes move from the ring to what was read.
LEMMA SlaveReadInv == SspInv /\ SlaveRead => SspInv'
<1>. SUFFICES ASSUME SspInv, SlaveRead PROVE SspInv' OBVIOUS
<1>1. /\ slavePc = "read"
      /\ UNCHANGED <<masterAt, toWrite, slavePc, slaveAt, want, errors, faulty>>
  BY DEF SlaveRead
<1>2. PICK n \in 0 .. Len(ring) :
        /\ read_data' = read_data \o SubSeq(ring, 1, n)
        /\ ring' = SubSeq(ring, n + 1, Len(ring))
  BY DEF SlaveRead
<1>. DEFINE a == SubSeq(ring, 1, n)
            b == SubSeq(ring, n + 1, Len(ring))
<1>3. ring \in Seq(Nat) /\ read_data \in Seq(Nat) /\ toWrite \in Seq(Nat)
      /\ Len(ring) \in Nat
  BY DEF SspInv
<1>4. a \in Seq(Nat) /\ b \in Seq(Nat) /\ a \o b = ring
  <2>1. a \in Seq(Nat)
    <3>1. \A x \in 1 .. n : ring[x] \in Nat BY <1>3
    <3>. QED BY <3>1, SubSeqProperties
  <2>2. b \in Seq(Nat)
    <3>1. \A x \in n + 1 .. Len(ring) : ring[x] \in Nat BY <1>3
    <3>2. n + 1 \in Int /\ Len(ring) \in Int BY <1>3
    <3>. QED BY <3>1, <3>2, SubSeqProperties
  <2>3. a \o b = SubSeq(ring, 1, Len(ring))
    <3>1. /\ 1 \in 1 .. Len(ring) + 1 /\ n \in 1 - 1 .. Len(ring)
          /\ Len(ring) \in n .. Len(ring)
      BY <1>3
    <3>. QED BY <1>3, <3>1, ConcatAdjacentSubSeq
  <2>4. SubSeq(ring, 1, Len(ring)) = ring BY <1>3, SubSeqFull
  <2>. QED BY <2>1, <2>2, <2>3, <2>4
<1>. HIDE DEF a, b
<1>5. read_data' = read_data \o a /\ ring' = b BY <1>2 DEF a, b
<1>6. Pipe' = Pipe
  <2>1. Pipe = read_data \o ((a \o b) \o toWrite) BY <1>1, <1>4 DEF Pipe, Reading
  <2>2. Pipe' = (read_data \o a) \o (b \o toWrite) BY <1>1, <1>5 DEF Pipe, Reading
  <2>3. (b \o toWrite) \in Seq(Nat) BY <1>3, <1>4, ConcatProperties
  <2>4. (a \o b) \o toWrite = a \o (b \o toWrite) BY <1>3, <1>4, Associative
  <2>5. (read_data \o a) \o (b \o toWrite) = read_data \o (a \o (b \o toWrite))
    BY <1>3, <1>4, <2>3, Associative
  <2>. QED BY <2>1, <2>2, <2>4, <2>5
<1>7. InStep => InStep' BY <1>1, <1>6, PipeMoves
<1>8. read_data' \in Seq(Nat) BY <1>3, <1>4, <1>5, ConcatProperties
<1>. QED BY <1>1, <1>4, <1>5, <1>7, <1>8 DEF SspInv

\* A failed read is a fault.
LEMMA SlaveReadFailsInv == SspInv /\ SlaveReadFails => SspInv'
<1>. SUFFICES ASSUME SspInv, SlaveReadFails PROVE SspInv' OBVIOUS
<1>1. \A x \in 1 .. Len(read_data) - 1 : read_data[x] \in Nat BY DEF SspInv
<1>2. Len(read_data) - 1 \in Int BY DEF SspInv
<1>3. read_data' \in Seq(Nat) BY <1>1, <1>2, SubSeqProperties DEF SlaveReadFails
<1>. QED BY <1>3 DEF SlaveReadFails, SspInv

\* The slave has read all it wants.
LEMMA SlaveDoneInv == SspInv /\ SlaveDone => SspInv'
<1>. SUFFICES ASSUME SspInv, SlaveDone PROVE SspInv' OBVIOUS
<1>1. Pipe' = Pipe BY DEF SlaveDone, Pipe, Reading
<1>2. InStep => InStep' BY <1>1, PipeMoves DEF SlaveDone
<1>. QED BY <1>2 DEF SlaveDone, SspInv

\* The slave compares its message with the draws, and goes on to the next.
LEMMA SlaveVerifyInv == SspInv /\ SlaveVerify => SspInv'
<1>. SUFFICES ASSUME SspInv, SlaveVerify PROVE SspInv' OBVIOUS
<1>. DEFINE q == ring \o toWrite
<1>1. /\ slavePc = "verify" /\ slavePc' = "length"
      /\ slaveAt' = At(slaveAt + want)
      /\ errors' = IF \E i \in 1 .. want : read_data[i] # Draw(slaveAt + i - 1)
                     THEN 1 ELSE errors
      /\ UNCHANGED <<masterAt, toWrite, ring, want, read_data, faulty>>
  BY DEF SlaveVerify
<1>2. ~faulty => InStep' /\ errors' = 0
  <2>. SUFFICES ASSUME ~faulty PROVE InStep' /\ errors' = 0 OBVIOUS
  <2>1. InStep /\ errors = 0 /\ Len(read_data) = want /\ read_data \in Seq(Nat)
    BY <1>1 DEF SspInv
  <2>. PICK n \in Nat : \E pos, off : \E i, m \in 0 .. n :
         History(n, pos, off) /\ Abreast(pos, off, i, m) /\ i < n /\ m < n
    BY <2>1, Ahead
  <2>. PICK pos, off : \E i, m \in 0 .. n :
         History(n, pos, off) /\ Abreast(pos, off, i, m) /\ i < n /\ m < n
    OBVIOUS
  <2>2. PICK i \in 0 .. n, m \in 0 .. n :
         History(n, pos, off) /\ Abreast(pos, off, i, m) /\ i < n /\ m < n
    OBVIOUS
  <2>3. Facts(n, pos, off) BY <2>2, HistoryFacts
  <2>4. q \in Seq(Nat) /\ Pipe = read_data \o q BY <1>1, PipeTypes DEF Pipe, Reading
  <2>. HIDE DEF q
  <2>5. /\ slaveAt = At(pos[i] + 1) /\ want = Length(pos[i])
        /\ Carries(read_data \o q, pos, off, i, m)
    BY <1>1, <2>2, <2>4 DEF Abreast
  <2>6. /\ \A j \in 1 .. want : read_data[j] = Draw(pos[i] + j)
        /\ Carries(q, pos, off, i + 1, m)
    <3>1. Len(read_data) = Length(pos[i]) BY <2>1, <2>5
    <3>2. /\ \A j \in 1 .. Len(read_data) : read_data[j] = Draw(pos[i] + j)
          /\ Carries(q, pos, off, i + 1, m)
      BY <2>1, <2>2, <2>4, <2>5, <3>1, CarriesLess, Zenon
    <3>. QED BY <2>1, <3>2
  <2>7. PICK x \in Nat : x = pos[i] /\ x + 1 \in 1 .. Len(Draws) /\ want \in Nat
    <3>1. PICK x \in 0 .. Len(Draws) - 1 : x = pos[i] BY <2>3 DEF Facts
    <3>2. x \in Nat /\ x + 1 \in 1 .. Len(Draws) BY DrawFacts
    <3>3. want \in Nat BY <2>3, <2>5 DEF Facts
    <3>. QED BY <3>1, <3>2, <3>3
  <2>8. \A j \in 1 .. want : Draw(slaveAt + j - 1) = Draw(pos[i] + j)
    <3>. TAKE j \in 1 .. want
    <3>1. j - 1 \in Nat /\ x + 1 + (j - 1) = x + j BY <2>7
    <3>2. At(At(x + 1) + (j - 1)) = At(x + j) BY <2>7, <3>1, AtAt
    <3>3. PICK y \in Nat : y = At(x + 1)
      <4>0. x + 1 \in Nat OBVIOUS
      <4>1. At(x + 1) \in 0 .. Len(Draws) - 1 BY <4>0, DrawFacts
      <4>. QED BY <4>1
    <3>4. y + j - 1 = y + (j - 1) BY <2>7
    <3>5. At(y + j - 1) = At(x + j) BY <3>2, <3>3, <3>4
    <3>6. Draw(y + j - 1) = Draw(x + j) BY <3>5 DEF Draw
    <3>. QED BY <2>5, <2>7, <3>3, <3>6
  <2>9. errors' = 0 BY <1>1, <2>1, <2>6, <2>8
  <2>10. slaveAt' = pos[i + 1] /\ i + 1 \in 0 .. n
    <3>1. At(At(x + 1) + want) = At(x + 1 + want) BY <2>7, AtAt
    <3>2. x + 1 + want = x + want + 1 BY <2>7
    <3>3. pos[i + 1] = At(x + want + 1) /\ i + 1 \in 0 .. n
      BY <2>2, <2>3, <2>5, <2>7 DEF Facts
    <3>. QED BY <1>1, <2>5, <2>7, <3>1, <3>2, <3>3
  <2>11. Pipe' = q
    <3>1. Pipe' = <<>> \o (ring \o toWrite) BY <1>1 DEF Pipe, Reading
    <3>. QED BY <2>4, <3>1 DEF q
  <2>12. Abreast(pos, off, i + 1, m)'
    <3>1. Carries(Pipe, pos, off, i + 1, m)' BY <2>6, <2>11 DEF Carries
    <3>. QED BY <1>1, <2>2, <2>10, <3>1 DEF Abreast
  <2>13. History(n, pos, off)' BY <2>2 DEF History
  <2>. QED BY <2>9, <2>10, <2>12, <2>13 DEF InStep
<1>. QED BY <1>1, <1>2 DEF SspInv

\* At first nothing is under way.
LEMMA SspStart == SspInit => SspInv
<1>. SUFFICES ASSUME SspInit PROVE SspInv OBVIOUS
<1>. DEFINE z == [k \in 0 .. 0 |-> 0]
<1>1. History(0, z, z)
  <2>1. 0 \in 0 .. Len(Draws) - 1 BY DrawFacts
  <2>2. z \in [0 .. 0 -> 0 .. Len(Draws) - 1] /\ z \in [0 .. 0 -> Nat] BY <2>1
  <2>3. 0 .. 0 - 1 = {} OBVIOUS
  <2>. QED BY <2>2, <2>3 DEF History
<1>2. Pipe = <<>> /\ Len(Pipe) = 0 BY DEF SspInit, Pipe, Reading
<1>3. Carries(Pipe, z, z, 0, 0)
  <2>1. 0 .. 0 - 1 = {} /\ z[0] - z[0] = 0 OBVIOUS
  <2>. QED BY <1>2, <2>1 DEF Carries
<1>4. Abreast(z, z, 0, 0)
  <2>1. z[0] = 0 OBVIOUS
  <2>. QED BY <1>3, <2>1 DEF Abreast, SspInit
<1>5. InStep
  <2>1. 0 \in Nat /\ 0 \in 0 .. 0 OBVIOUS
  <2>. QED BY <1>1, <1>4, <2>1 DEF InStep
<1>6. <<>> \in Seq(Nat) OBVIOUS
<1>. QED BY <1>5, <1>6 DEF SspInit, SspInv

\* For any generator and any size of the buffers: however master, slave and the
\* partial reads interleave, the slave finds the data it expects, as long as no
\* byte was lost and no read failed.
THEOREM SameSequenceCorrect == SspSpec => []SameSequence
<1>1. SspInv /\ UNCHANGED sspVars => SspInv'
  <2>. SUFFICES ASSUME SspInv, UNCHANGED sspVars PROVE SspInv' OBVIOUS
  <2>1. Pipe' = Pipe BY DEF sspVars, Pipe, Reading
  <2>2. InStep => InStep' BY <2>1, PipeMoves DEF sspVars
  <2>. QED BY <2>2 DEF sspVars, SspInv
<1>2. SspInv /\ [SspNext]_sspVars => SspInv'
  BY <1>1, MasterMessageInv, MasterByteInv, SlaveLengthInv, SlaveReadInv,
     SlaveReadFailsInv, SlaveDoneInv, SlaveVerifyInv
     DEF SspNext, MasterStep, SlaveStep
<1>3. SspInv => SameSequence BY DEF SspInv, SameSequence
<1>. QED BY <1>2, <1>3, SspStart, PTL DEF SspSpec

-----------------------------------------------------------------------------
(* The boards. *)

\* What an application initialises on a board has pins apart.
Apart(b, s) ==
  /\ \A i \in 1 .. Len(s) : PinsOf(b, s[i]) \subseteq Pins
  /\ \A i, j \in 1 .. Len(s) :
       s[i] # s[j] => PinsOf(b, s[i]) \cap PinsOf(b, s[j]) = {}

\* The pins of what an application initialises do not overlap, on any board.
LEMMA SetupsApart ==
  ASSUME NEW b \in Boards, NEW a \in DOMAIN Setups
  PROVE  Apart(b, Setups[a])
<1>. DEFINE Pair(p, q) == PinsOf(b, p) \cap PinsOf(b, q) = {}
            u1 == <<"uart", 1>>
            l1 == <<"led", 1>>
            l2 == <<"led", 2>>
            b1 == <<"button", 1>>
            b2 == <<"button", 2>>
            i0 == <<"i2c", 0>>
            i1 == <<"i2c", 1>>
            s1 == <<"ssp", 1>>
            a0 == <<"adc", 0>>
<1>1. /\ PinsOf(b, Console) = {2, 3}
      /\ PinsOf(b, u1) = IF b = "mw302_rd" THEN {13, 14} ELSE {}
      /\ PinsOf(b, i0) = IF b # "vd_iot_evalkit" THEN {4, 5} ELSE {}
      /\ PinsOf(b, s1) = IF b = "mw302_rd" THEN {11, 12, 13, 14} ELSE {}
      /\ PinsOf(b, a0) = {42}
  BY DEF PinsOf, UartPins, I2cPins, SspPins, AdcPins, Console
<1>2. PinsOf(b, i1) \subseteq {17, 18, 25, 26}
  BY DEF PinsOf, I2cPins
<1>3. /\ PinsOf(b, l1) \subseteq {40, 0}
      /\ PinsOf(b, l2) \subseteq {41, 40, 1}
      /\ b \notin {"knit_v1"} => PinsOf(b, l2) \subseteq {41, 1}
      /\ b = "knit_v1" => PinsOf(b, l1) = {}
  BY DEF PinsOf, LedPins
<1>4. PinsOf(b, b1) \subseteq {26, 16, 39} /\ PinsOf(b, b2) \subseteq {24, 22}
  BY DEF PinsOf, ButtonPins, Boards
<1>17. \A p \in {Console, u1, l1, l2, b1, b2, i0, i1, s1, a0} :
         PinsOf(b, p) \subseteq Pins
  BY <1>1, <1>2, <1>3, <1>4 DEF Pins
<1>5. Pair(Console, u1) /\ Pair(Console, i0) /\ Pair(Console, i1)
      /\ Pair(Console, s1) /\ Pair(Console, a0)
  BY <1>1, <1>2
<1>6. Pair(Console, l1) /\ Pair(Console, l2) /\ Pair(Console, b1)
      /\ Pair(Console, b2) /\ Pair(i0, b2) /\ Pair(b1, b2)
  BY <1>1, <1>3, <1>4
<1>7. Pair(l1, l2) /\ Pair(l1, b1) /\ Pair(l1, b2) /\ Pair(l2, b1) /\ Pair(l2, b2)
  BY <1>3, <1>4
<1>. HIDE DEF Pair
<1>8. CASE a \in {"hello_world", "wifi_basics"}
  BY <1>8, <1>17 DEF Setups, Apart
<1>9. CASE a = "ntpc_demo"
  BY <1>9, <1>17 DEF Setups, Apart
<1>10. CASE a = "aws_starter_demo"
  <2>1. Setups[a] = <<Console, b2, b1, b2, l1, l2>> BY <1>10 DEF Setups
  <2>. QED BY <1>6, <1>7, <1>17, <2>1 DEF Apart, Pair
<1>11. CASE a = "connected_maraca"
  BY <1>5, <1>6, <1>17, <1>11 DEF Setups, Apart, Pair
<1>12. CASE a = "uart_echo_demo"
  BY <1>5, <1>17, <1>12 DEF Setups, Apart, Pair
<1>13. CASE a = "i2c_demo"
  BY <1>5, <1>17, <1>13 DEF Setups, Apart, Pair
<1>14. CASE a = "ssp_demo"
  BY <1>5, <1>17, <1>14 DEF Setups, Apart, Pair
<1>15. CASE a = "adc_demo"
  BY <1>5, <1>17, <1>15 DEF Setups, Apart, Pair
<1>16. CASE a = "gpio_demo"
  BY <1>6, <1>7, <1>17, <1>16 DEF Setups, Apart, Pair
<1>. QED
  BY <1>8, <1>9, <1>10, <1>11, <1>12, <1>13, <1>14, <1>15, <1>16 DEF Setups

\* What is configured is the beginning of the setup, and what is left its end.
Progress(k) ==
  /\ setup = SubSeq(Setups[app], k + 1, Len(Setups[app]))
  /\ configured = {Setups[app][i] : i \in 1 .. k}

BoardInv ==
  /\ board \in Boards /\ app \in DOMAIN Setups
  /\ pinmux \in [Pins -> configured \cup {Unused}]
  /\ \E k \in 0 .. Len(Setups[app]) : Progress(k)
  /\ PinsKept

\* What the applications initialise.
Peripherals ==
  {Console, <<"uart", 1>>, <<"led", 1>>, <<"led", 2>>, <<"button", 1>>,
   <<"button", 2>>, <<"i2c", 0>>, <<"i2c", 1>>, <<"ssp", 1>>, <<"adc", 0>>}

\* A setup is a list of peripherals.
LEMMA SetupsAre ==
  ASSUME NEW a \in DOMAIN Setups
  PROVE  Setups[a] \in Seq(Peripherals) /\ Len(Setups[a]) \in Nat
<1>1. /\ Console \in Peripherals /\ <<"uart", 1>> \in Peripherals
      /\ <<"led", 1>> \in Peripherals /\ <<"led", 2>> \in Peripherals
      /\ <<"button", 1>> \in Peripherals /\ <<"button", 2>> \in Peripherals
      /\ <<"i2c", 0>> \in Peripherals /\ <<"i2c", 1>> \in Peripherals
      /\ <<"ssp", 1>> \in Peripherals /\ <<"adc", 0>> \in Peripherals
  BY DEF Peripherals
<1>2. CASE a = "aws_starter_demo"
  <2>1. Setups[a] = <<Console, <<"button", 2>>, <<"button", 1>>,
                      <<"button", 2>>, <<"led", 1>>, <<"led", 2>>>>
    BY <1>2 DEF Setups
  <2>. QED BY <1>1, <2>1
<1>3. CASE a \in {"hello_world", "wifi_basics", "ntpc_demo"}
  <2>1. Setups[a] = <<Console>> BY <1>3 DEF Setups
  <2>. QED BY <1>1, <2>1
<1>4. CASE a \in {"connected_maraca", "gpio_demo"}
  <2>1. PICK p \in Peripherals : Setups[a] = <<Console, p, <<"button", 2>>>>
    BY <1>1, <1>4 DEF Setups
  <2>. QED BY <1>1, <2>1
<1>5. CASE a \in {"uart_echo_demo", "i2c_demo", "ssp_demo", "adc_demo"}
  <2>1. PICK p \in Peripherals : Setups[a] = <<Console, p>>
    BY <1>1, <1>5 DEF Setups
  <2>. QED BY <1>1, <2>1
<1>. QED BY <1>2, <1>3, <1>4, <1>5 DEF Setups

\* The next peripheral takes no pin of those before it.
LEMMA ConfigureInv == BoardInv /\ Configure => BoardInv'
<1>. SUFFICES ASSUME BoardInv, Configure PROVE BoardInv' OBVIOUS
<1>. DEFINE s == Setups[app]
            n == Len(s)
<1>1. s \in Seq(Peripherals) /\ n \in Nat /\ board \in Boards
  BY SetupsAre DEF BoardInv
<1>2. PICK k \in 0 .. n : Progress(k) BY DEF BoardInv
<1>3. k < n /\ Head(setup) = s[k + 1] /\ Tail(setup) = SubSeq(s, k + 2, n)
  <2>1. setup # <<>> /\ setup = SubSeq(s, k + 1, n) BY <1>2 DEF Progress, Configure
  <2>2. k # n
    <3>. SUFFICES ASSUME k = n PROVE FALSE OBVIOUS
    <3>1. n + 1 \in Int /\ n \in Int /\ n < n + 1 BY <1>1
    <3>2. SubSeq(s, n + 1, n) = <<>> BY <3>1, SubSeqEmpty
    <3>. QED BY <2>1, <3>2
  <2>3. k + 1 \in 1 .. n /\ n \in k + 1 .. n /\ k < n /\ k + 1 + 1 = k + 2
    BY <1>1, <1>2, <2>2
  <2>4. /\ Head(SubSeq(s, k + 1, n)) = s[k + 1]
        /\ Tail(SubSeq(s, k + 1, n)) = SubSeq(s, k + 1 + 1, n)
    BY <1>1, <2>3, HeadTailOfSubSeq
  <2>. QED BY <2>1, <2>3, <2>4
<1>4. configured' = configured \cup {s[k + 1]}
  BY <1>3 DEF Configure
<1>5. configured' = {s[i] : i \in 1 .. k + 1}
  <2>1. configured = {s[i] : i \in 1 .. k} BY <1>2 DEF Progress
  <2>2. k \in Nat /\ \A i : i \in 1 .. k + 1 <=> i \in 1 .. k \/ i = k + 1
    BY <1>1, <1>2
  <2>. QED BY <1>4, <2>1, <2>2
<1>6. Progress(k + 1)' /\ k + 1 \in 0 .. Len(Setups[app'])
  <2>1. app' = app /\ setup' = SubSeq(s, k + 2, n)
    BY <1>3 DEF Configure
  <2>2. k + 1 + 1 = k + 2 /\ k + 1 \in 0 .. n BY <1>1, <1>2, <1>3
  <2>. QED BY <1>5, <2>1, <2>2 DEF Progress
<1>7. Apart(board, s) BY SetupsApart DEF BoardInv
<1>8. pinmux' = [p \in Pins |-> IF p \in PinsOf(board, s[k + 1])
                                  THEN s[k + 1] ELSE pinmux[p]]
  BY <1>3 DEF Configure
<1>9. PinsKept'
  <2>. SUFFICES ASSUME NEW q \in configured', NEW p \in PinsOf(board, q)
                PROVE  pinmux'[p] = q
    BY DEF PinsKept, Configure
  <2>1. PICK i \in 1 .. k + 1 : q = s[i] BY <1>5
  <2>2. i \in 1 .. n /\ k + 1 \in 1 .. n BY <1>1, <1>2, <1>3
  <2>3. p \in Pins BY <1>7, <2>1, <2>2 DEF Apart, Configure
  <2>4. CASE q = s[k + 1] BY <1>8, <2>3, <2>4
  <2>5. CASE q # s[k + 1]
    <3>1. q \in configured BY <1>4, <2>5
    <3>2. p \notin PinsOf(board, s[k + 1]) BY <1>7, <2>1, <2>2, <2>5 DEF Apart
    <3>. QED BY <1>8, <2>3, <3>1, <3>2 DEF BoardInv, PinsKept
  <2>. QED BY <2>4, <2>5
<1>10. pinmux' \in [Pins -> configured' \cup {Unused}]
  BY <1>4, <1>8 DEF BoardInv
<1>. QED BY <1>6, <1>9, <1>10 DEF BoardInv, Configure

\* On no board does an application take a pin from a peripheral it has already
\* initialised.
THEOREM PinsKeptCorrect == BoardSpec => []PinsKept
<1>1. BoardInit => BoardInv
  <2>. SUFFICES ASSUME BoardInit PROVE BoardInv OBVIOUS
  <2>1. setup = SubSeq(Setups[app], 1, Len(Setups[app])) /\ Len(Setups[app]) \in Nat
    BY SetupsAre DEF BoardInit
  <2>2. Progress(0) BY <2>1 DEF BoardInit, Progress
  <2>. QED BY <2>1, <2>2 DEF BoardInit, BoardInv, PinsKept
<1>2. BoardInv /\ UNCHANGED boardVars => BoardInv'
  BY DEF BoardInv, boardVars, PinsKept, Progress
<1>3. BoardInv => PinsKept BY DEF BoardInv
<1>. QED BY <1>1, <1>2, <1>3, ConfigureInv, PTL DEF BoardSpec, BoardNext
=============================================================================
