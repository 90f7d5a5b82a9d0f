------------------------------ MODULE SspDemo ------------------------------
(***************************************************************************)
(* The SSP master and slave demonstrations and the link between them.      *)
(* Both draw their numbers from rand with the same seed: the master the    *)
(* length of a message and then its bytes, the slave the length, with      *)
(* which it knows how much to read, and then the bytes to compare with.    *)
(***************************************************************************)
EXTENDS Integers, Sequences

CONSTANTS SSP_BUF_LEN,    \* BUF_LEN, of the messages and of the driver's ring
          Draws           \* what rand returns, over and over

ASSUME SspAssumption ==
  /\ SSP_BUF_LEN \in Nat \ {0}
  /\ Draws \in Seq(Nat)
  /\ Draws # <<>>

VARIABLES
  masterAt,       \* the draws the master has made
  toWrite,        \* the bytes it still has to write, as draws
  ring,           \* the slave driver's receive ring
  slavePc,        \* "length", "read" or "verify"
  slaveAt,        \* the draws the slave has made
  want,           \* the length it expects
  read_data,      \* the bytes it has read, rv of them
  errors,         \* error_cnt, at most 1
  faulty          \* history: the ring has overflowed, or a read has failed

sspVars == <<masterAt, toWrite, ring, slavePc, slaveAt, want, read_data, errors,
             faulty>>

\* The position of a draw in Draws, and its value.
At(n) == n % Len(Draws)
Draw(n) == Draws[At(n) + 1]
Length(n) == Draw(n) % SSP_BUF_LEN

SspInit ==
  /\ masterAt = 0
  /\ toWrite = <<>>
  /\ ring = <<>>
  /\ slavePc = "length"
  /\ slaveAt = 0
  /\ want = 0
  /\ read_data = <<>>
  /\ errors = 0
  /\ faulty = FALSE

SlaveSide == <<slavePc, slaveAt, want, read_data, errors>>

\* A message of the master, of Length many of the draws that follow.
MasterMessage ==
  /\ toWrite = <<>>
  /\ LET len == Length(masterAt) IN
       /\ toWrite' = [j \in 1 .. len |-> Draw(masterAt + j)]
       /\ masterAt' = At(masterAt + len + 1)
  /\ UNCHANGED <<ring, SlaveSide, faulty>>

\* ssp_drv_write clocks a byte out; the ring that is full loses it.
MasterByte ==
  /\ toWrite # <<>>
  /\ toWrite' = Tail(toWrite)
  /\ IF Len(ring) < SSP_BUF_LEN
       THEN ring' = Append(ring, Head(toWrite)) /\ UNCHANGED faulty
       ELSE faulty' = TRUE /\ UNCHANGED ring
  /\ UNCHANGED <<masterAt, SlaveSide>>

MasterStep == MasterMessage \/ MasterByte

SlaveLength ==
  /\ slavePc = "length"
  /\ want' = Length(slaveAt)
  /\ slaveAt' = At(slaveAt + 1)
  /\ read_data' = <<>>
  /\ slavePc' = "read"
  /\ UNCHANGED <<masterAt, toWrite, ring, errors, faulty>>

\* ssp_drv_read returns what there is, up to what is missing, and at once: the
\* loop ends when rv is the length.
SlaveRead ==
  /\ slavePc = "read"
  /\ Len(read_data) # want
  /\ \E n \in 0 .. Len(ring) :
       /\ n <= want - Len(read_data)
       /\ read_data' = read_data \o SubSeq(ring, 1, n)
       /\ ring' = SubSeq(ring, n + 1, Len(ring))
  /\ UNCHANGED <<masterAt, toWrite, slavePc, slaveAt, want, errors, faulty>>

\* It returns -1, which takes back the last byte that was read.  The model
\* stops short of the failure that would put rv below 0.
SlaveReadFails ==
  /\ slavePc = "read"
  /\ Len(read_data) \notin {0, want}
  /\ read_data' = SubSeq(read_data, 1, Len(read_data) - 1)
  /\ faulty' = TRUE
  /\ UNCHANGED <<masterAt, toWrite, ring, slavePc, slaveAt, want, errors>>

SlaveDone ==
  /\ slavePc = "read"
  /\ Len(read_data) = want
  /\ slavePc' = "verify"
  /\ UNCHANGED <<masterAt, toWrite, ring, slaveAt, want, read_data, errors, faulty>>

\* Mutant: the bytes to compare with are not drawn.
SlaveTrust ==
  /\ slavePc = "verify"
  /\ errors' = IF \E i \in 1 .. want : read_data[i] # Draw(slaveAt + i - 1)
                 THEN 1 ELSE errors
  /\ slavePc' = "length"
  /\ UNCHANGED <<masterAt, toWrite, ring, slaveAt, want, read_data, faulty>>

SlaveVerify ==
  /\ slavePc = "verify"
  /\ errors' = IF \E i \in 1 .. want : read_data[i] # Draw(slaveAt + i - 1)
                 THEN 1 ELSE errors
  /\ slaveAt' = At(slaveAt + want)
  /\ slavePc' = "length"
  /\ UNCHANGED <<masterAt, toWrite, ring, want, read_data, faulty>>

SlaveStep ==
  SlaveLength \/ SlaveRead \/ SlaveReadFails \/ SlaveDone \/ SlaveVerify

SspNext == MasterStep \/ SlaveStep

SspSpec == SspInit /\ [][SspNext]_sspVars

-----------------------------------------------------------------------------
(* What should hold. *)

SspTypeOK ==
  /\ masterAt \in 0 .. Len(Draws) - 1
  /\ Len(toWrite) < SSP_BUF_LEN
  /\ Len(ring) <= SSP_BUF_LEN
  /\ slavePc \in {"length", "read", "verify"}
  /\ slaveAt \in 0 .. Len(Draws) - 1
  /\ want \in 0 .. SSP_BUF_LEN - 1
  /\ Len(read_data) <= want
  /\ errors \in {0, 1}
  /\ faulty \in BOOLEAN

\* "both will use same seed and hence will generate same random numbers in
\* exact same sequence": however the two programs and the partial reads
\* interleave, the slave then finds the data it expects, as long as no byte was
\* lost and no read failed.
SameSequence == ~faulty => errors = 0
=============================================================================
