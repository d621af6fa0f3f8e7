------------------------------- MODULE RtuCrc -------------------------------
(***************************************************************************)
(* crc16_modbus (app/plugins/protocols/modbus_rtu_tcp.py) for bytes of any *)
(* number of bits: twice as many of them make the CRC.                     *)
(***************************************************************************)
EXTENDS Naturals, Sequences, Bitwise

\* The inner loop: a shift for each bit, and the polynomial when a one falls out.
ShiftOut(crc, bits, polynomial) ==
  LET after[k \in 0..bits] ==
        IF k = 0 THEN crc
        ELSE IF after[k - 1] % 2 = 1 THEN (after[k - 1] \div 2) ^^ polynomial
        ELSE after[k - 1] \div 2
  IN after[bits]

\* The outer loop, given what the inner one makes of a number.
CrcOver(data, bits, shifted) ==
  LET over[k \in 0..Len(data)] ==
        IF k = 0 THEN 2^(2 * bits) - 1 ELSE shifted[over[k - 1] ^^ data[k]]
  IN over[Len(data)]

Crc(data, bits, polynomial) ==
  CrcOver(data, bits, [crc \in 0..(2^(2 * bits) - 1) |-> ShiftOut(crc, bits, polynomial)])
=============================================================================
