--------------------------- MODULE MCModbusFrame ---------------------------
(***************************************************************************)
(* ModbusFrame with the checksum of the code in place of the constant, in  *)
(* a small instance for TLC, and what makes both routines of Checksum the  *)
(* checksums they are called, for the bytes that occur here.               *)
(***************************************************************************)
EXTENDS ModbusFrame, Checksum

SomeCoils  == {{1, 5}}
SomeValues == {<<513, 0, 65535, 255, 256, 7>>}
SomeBits   == {0, 2}

\* The loop of CRC16_modbus divides: for whatever is checked as a frame it
\* computes the remainder.
ModbusDivides ==
  pc = "wrong" \/ (pc = "body" /\ Wanted = 0) =>
    CalCRC16(buf_recv) = ModbusRemainder(buf_recv)

\* Every entry of crc_table is the remainder of a byte, and the combination
\* of entries that of a message (here: of what the device sends first); a
\* message with its checksum gives zero, which the UDP server looks at.
Crc32Divides ==
  pc = "select" /\ taken = 0 /\ Len(sent) <= 1 =>
    /\ wire = <<>> => \A b \in Bytes : crc32_ccitt(<<b>>) = Crc32Remainder(<<b>>)
    /\ crc32_ccitt(wire) = Crc32Remainder(wire)
    /\ crc32_ccitt(GenerateCRC32(wire)) = <<0, 0>>

\* Both routines compute the checksums they are called.
ChecksumsDivide == ModbusDivides /\ Crc32Divides
=============================================================================
