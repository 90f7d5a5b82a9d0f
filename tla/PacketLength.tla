---------------------------- MODULE PacketLength ----------------------------
(***************************************************************************)
(* The remaining length of an MQTT packet: the encoder, which writes it    *)
(* into a buffer digit by digit, the sum that says beforehand how long the *)
(* packet will be, and the two decoders, one of which reads the digits     *)
(* from the network and the other from the buffer.                         *)
(***************************************************************************)
EXTENDS Integers, Sequences

CONSTANTS Radix,          \* 128
          Word            \* 2^32, the width of the decoders' integers

MAX_NO_OF_REMAINING_LENGTH_BYTES == 4

\* The powers of the radix as products: the provers know nothing of Radix ^ n.
Power(n) ==
  CASE n = 0 -> 1
    [] n = 1 -> Radix
    [] n = 2 -> Radix * Radix
    [] n = 3 -> Radix * Radix * Radix
    [] n = 4 -> Radix * Radix * Radix * Radix

ASSUME LengthAssumption ==
  /\ Radix \in Nat /\ Radix > 1
  /\ Word \in Nat /\ Word >= Power(MAX_NO_OF_REMAINING_LENGTH_BYTES)

\* The lengths a packet may have.
Lengths == 0 .. Power(MAX_NO_OF_REMAINING_LENGTH_BYTES) - 1

VARIABLES
  sent,           \* the length to be encoded
  rest,           \* what is left of it to encode
  encoded,        \* the bytes written: a digit, and whether another follows
  lengthPc,       \* "encode", "network", "buffer", "decoded" or "refused"
  len,            \* the bytes read
  multiplier,
  rem_len,        \* the length decoded
  received        \* the length decoded from the network

lengthVars ==
  <<sent, rest, encoded, lengthPc, len, multiplier, rem_len, received>>

LengthInit ==
  /\ sent \in Lengths
  /\ rest = sent
  /\ encoded = <<>>
  /\ lengthPc = "encode"
  /\ len = 0
  /\ multiplier = 1
  /\ rem_len = 0
  /\ received = 0

\* Mutant: the last digit is the one that is zero.
EncodeZero ==
  /\ lengthPc = "encode"
  /\ encoded' = Append(encoded, [digit |-> rest % Radix, more |-> rest > 0])
  /\ rest' = rest \div Radix
  /\ lengthPc' = IF rest > 0 THEN "encode" ELSE "network"
  /\ UNCHANGED <<sent, len, multiplier, rem_len, received>>

\* aws_iot_mqtt_internal_write_len_to_buffer
Encode ==
  /\ lengthPc = "encode"
  /\ rest' = rest \div Radix
  /\ encoded' = Append(encoded, [digit |-> rest % Radix, more |-> rest' > 0])
  /\ lengthPc' = IF rest' > 0 THEN "encode" ELSE "network"
  /\ UNCHANGED <<sent, len, multiplier, rem_len, received>>

\* aws_iot_mqtt_internal_get_final_packet_length_from_remaining_length
FinalLength(n) ==
  LET header == n + 1 IN
  header + (IF header < Power(1) THEN 1
            ELSE IF header < Power(2) THEN 2
            ELSE IF header < Power(3) THEN 3
            ELSE 4)

AddDigit(byte) ==
  /\ rem_len' = (rem_len + byte.digit * multiplier) % Word
  /\ multiplier' = (multiplier * Radix) % Word

\* _aws_iot_mqtt_internal_decode_packet_remaining_len: the count of bytes, by
\* which a longer length would be refused, is where the read stores the 1 it has
\* read, so that it never reaches the bound; the end starts the other decoder.
DecodeFromNetwork ==
  /\ lengthPc = "network"
  /\ LET byte == encoded[len + 1] IN
       IF byte.more
         THEN AddDigit(byte) /\ len' = len + 1 /\ UNCHANGED <<lengthPc, received>>
         ELSE /\ received' = (rem_len + byte.digit * multiplier) % Word
              /\ len' = 0
              /\ multiplier' = 1
              /\ rem_len' = 0
              /\ lengthPc' = "buffer"
  /\ UNCHANGED <<sent, rest, encoded>>

\* aws_iot_mqtt_internal_decode_remaining_length_from_buffer
DecodeFromBuffer ==
  /\ lengthPc = "buffer"
  /\ IF len + 1 > MAX_NO_OF_REMAINING_LENGTH_BYTES
       THEN lengthPc' = "refused" /\ UNCHANGED <<len, multiplier, rem_len>>
       ELSE /\ AddDigit(encoded[len + 1])
            /\ len' = len + 1
            /\ lengthPc' = IF encoded[len + 1].more THEN "buffer" ELSE "decoded"
  /\ UNCHANGED <<sent, rest, encoded, received>>

LengthNext == Encode \/ DecodeFromNetwork \/ DecodeFromBuffer

LengthSpec == LengthInit /\ [][LengthNext]_lengthVars

-----------------------------------------------------------------------------
(* What should hold. *)

\* What is encoded is decoded again, by both decoders, none of which refuses it
\* or overflows, and it takes no more bytes than the sum by which a request
\* checks that the packet fits its buffer.
LengthSurvives ==
  /\ lengthPc = "buffer" => received = sent
  /\ lengthPc = "decoded" => rem_len = sent /\ len = Len(encoded)
  /\ lengthPc # "refused"
  /\ lengthPc # "encode" => 1 + Len(encoded) + sent <= FinalLength(sent)
=============================================================================
