---------------------------- MODULE MC_VoyagerI2c ----------------------------
EXTENDS VoyagerI2c

\* The OV7640 answers at 0x42/0x43; i2c messages name it (0x21), name an
\* absent slave (0x30), or have a length other than PACKET_SIZE.
MCMsgs ==
  {[addr |-> 33, rd |-> TRUE, len |-> 2], [addr |-> 33, rd |-> FALSE, len |-> 2],
   [addr |-> 48, rd |-> FALSE, len |-> 2], [addr |-> 33, rd |-> FALSE, len |-> 1],
   [addr |-> 33, rd |-> FALSE, len |-> 0]}

\* A short read, as in the overrun configuration.
MCMsgsShort == MCMsgs \cup {[addr |-> 33, rd |-> TRUE, len |-> 1]}

\* A second device at 0x30 (serial 0x60) answers as well.
MCAcksTwo == {66, 67, 96}
====
