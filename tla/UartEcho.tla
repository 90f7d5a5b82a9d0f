------------------------------ MODULE UartEcho ------------------------------
(***************************************************************************)
(* uart_echo_demo: the loop that reads UART1 a character at a time, echoes *)
(* each and, at the end of a line or of the buffer, writes the line back.  *)
(***************************************************************************)
EXTENDS Integers, Sequences

CONSTANTS BUFSIZE,
          Letters         \* the characters typed, besides the carriage return

ASSUME UartAssumption ==
  /\ BUFSIZE \in Nat
  /\ BUFSIZE > 3
  /\ Letters \cap {"CR", "LF", "NUL"} = {}

VARIABLES
  buf,
  count,
  temp,           \* the character last read; a failed read leaves it as it was
  uartPc,         \* "read", or "flushed": the line is out, buf not yet cleared
  line,           \* history: the characters read since buf was last cleared
  dropped,        \* history: whether the last of them found buf full
  failed          \* history: a read has failed since then

uartVars == <<buf, count, temp, uartPc, line, dropped, failed>>

Char == Letters \cup {"CR", "LF", "NUL"}
Place == 0 .. BUFSIZE - 1

UartInit ==
  /\ buf = [i \in Place |-> "NUL"]
  /\ count = 0
  /\ temp = "NUL"
  /\ uartPc = "read"
  /\ line = <<>>
  /\ dropped = FALSE
  /\ failed = FALSE

\* Failed reads fill buf past the test for the last place but two, and then the
\* program writes behind it; the model stops short of that.
Room == count < BUFSIZE - 2

Flush(c) ==
  /\ temp' = "CR"
  /\ buf' = [buf EXCEPT ![count] = "LF", ![count + 1] = "CR"]
  /\ count' = count + 2
  /\ uartPc' = "flushed"
  /\ dropped' = (c # "CR")
  /\ line' = IF c = "CR" THEN line ELSE Append(line, c)
  /\ UNCHANGED failed

Store(c) ==
  /\ temp' = c
  /\ buf' = [buf EXCEPT ![count] = c]
  /\ count' = count + 1
  /\ UNCHANGED <<uartPc, dropped>>

\* Mutant: room for one terminator only.
FullLate == count = BUFSIZE - 2

Full == count = BUFSIZE - 3

\* uart_drv_read returns 1.
ReadChar(c) ==
  /\ uartPc = "read"
  /\ Room
  /\ IF c = "CR" \/ Full
       THEN Flush(c)
       ELSE Store(c) /\ line' = Append(line, c) /\ UNCHANGED failed

\* It returns a negative length, which is not zero.
ReadFails ==
  /\ uartPc = "read"
  /\ Room
  /\ Store(temp)
  /\ failed' = TRUE
  /\ UNCHANGED line

\* It returns 0.
ReadNothing == uartPc = "read" /\ UNCHANGED uartVars

\* memset, of all but the last place of buf.
Clear ==
  /\ uartPc = "flushed"
  /\ buf' = [i \in Place |-> IF i < BUFSIZE - 1 THEN "NUL" ELSE buf[i]]
  /\ count' = 0
  /\ uartPc' = "read"
  /\ line' = <<>>
  /\ dropped' = FALSE
  /\ failed' = FALSE
  /\ UNCHANGED temp

UartNext ==
  \/ \E c \in Letters \cup {"CR"} : ReadChar(c)
  \/ ReadFails \/ ReadNothing \/ Clear

UartSpec == UartInit /\ [][UartNext]_uartVars

-----------------------------------------------------------------------------
(* What should hold. *)

UartTypeOK ==
  /\ buf \in [Place -> Char]
  /\ count \in Nat
  /\ temp \in Char
  /\ uartPc \in {"read", "flushed"}
  /\ line \in Seq(Char)
  /\ dropped \in BOOLEAN
  /\ failed \in BOOLEAN

\* The line and its two terminators fit in buf, of which the last place stays
\* the NUL that the clearing of buf leaves out, and what is written back is what
\* was typed, but for a character that found buf full, which is replaced by the
\* end of the line; all this unless a read failed.
LineIsEchoed ==
  ~failed =>
    LET length == IF dropped THEN Len(line) - 1 ELSE Len(line) IN
    /\ length <= BUFSIZE - 3
    /\ count = IF uartPc = "read" THEN length ELSE length + 2
    /\ \A i \in 1 .. length : buf[i - 1] = line[i]
    /\ buf[BUFSIZE - 1] = "NUL"
=============================================================================
