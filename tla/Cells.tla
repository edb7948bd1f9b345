-------------------------------- MODULE Cells --------------------------------
(***************************************************************************)
(* Cells on the wire.  Every field of the header takes one place instead   *)
(* of up to four, and a cell has room for MAX_PAYLOAD_SIZE places of data, *)
(* which must be enough for any handshake, as 497 bytes are.               *)
(***************************************************************************)
EXTENDS Naturals, Sequences, Functions

CONSTANT MAX_PAYLOAD_SIZE

ASSUME CellAssumption == MAX_PAYLOAD_SIZE \in Nat

HEADER_SIZE == 6
CELL_SIZE == HEADER_SIZE + MAX_PAYLOAD_SIZE

\* What bytes that cannot be read are read as.
Malformed == [error |-> "malformed"]

\* The bytes of the commands: MessageCommand.
to_u8 ==
    [Padding |-> 0, Create |-> 1, Created |-> 2, Extend |-> 3, Extended |-> 4,
     Destroy |-> 5, Begin |-> 16, Connected |-> 17, Data |-> 18, End |-> 19]

from_u8 == AntiFunction(to_u8)

Message(circuit_id, stream_id, command, data) ==
    [circuit_id |-> circuit_id, stream_id |-> stream_id, command |-> command,
     data |-> data, digest |-> 0]

\* Message::circuit
Circuit(circuit_id, command, data) == Message(circuit_id, 0, command, data)

\* Mutant: the cell is as long as its data.
ToBytesShort(m, random) ==
    <<CELL_SIZE - 1, m.circuit_id, m.stream_id, to_u8[m.command], Len(m.data),
      m.digest>> \o m.data

\* Data beyond the maximum is cut off, and what is missing is random.
to_bytes(m, random) ==
    LET n == IF Len(m.data) < MAX_PAYLOAD_SIZE THEN Len(m.data)
                                               ELSE MAX_PAYLOAD_SIZE
    IN  <<CELL_SIZE - 1, m.circuit_id, m.stream_id, to_u8[m.command], n,
          m.digest>>
        \o [i \in 1 .. MAX_PAYLOAD_SIZE |-> IF i <= n THEN m.data[i] ELSE random]

from_bytes(bytes) ==
    IF \/ Len(bytes) < CELL_SIZE
       \/ bytes[1] # CELL_SIZE - 1
       \/ bytes[4] \notin DOMAIN from_u8
       \/ bytes[5] > MAX_PAYLOAD_SIZE
    THEN Malformed
    ELSE [circuit_id |-> bytes[2], stream_id |-> bytes[3],
          command |-> from_u8[bytes[4]],
          data |-> SubSeq(bytes, HEADER_SIZE + 1, HEADER_SIZE + bytes[5]),
          digest |-> bytes[6]]

\* write_to_stream refuses what to_bytes would cut off.
Fits(m) == Len(m.data) <= MAX_PAYLOAD_SIZE

=============================================================================
