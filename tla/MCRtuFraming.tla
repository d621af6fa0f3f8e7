---------------------------- MODULE MCRtuFraming ----------------------------
(***************************************************************************)
(* Instances of RtuFraming for TLC: bytes of four bits, with a CRC of      *)
(* eight; streams of up to three pieces.                                   *)
(***************************************************************************)
EXTENDS RtuFraming, RtuCrc

\* 0xA001 for 8 bits; for 4 bits a polynomial of degree 8.
Polynomial == 140

\* The vector of tests/test_modbus_rtu_framer.py: check("123456789") = 0x4B37.
ASSUME KnownVector == Crc(<<49, 50, 51, 52, 53, 54, 55, 56, 57>>, 8, 40961) = 19255

\* What the inner loop makes of each number, computed once.
Table == [crc \in 0..255 |-> ShiftOut(crc, 4, Polynomial)]
NibbleCrc(body) == CrcOver(body, 4, Table)

\* The CRC follows the other bytes, its low one first.
Nibbles(body) == body \o <<NibbleCrc(body) % 16, NibbleCrc(body) \div 16>>
IsNibbles(frame) == frame = Nibbles(SubSeq(frame, 1, Len(frame) - 2))

\* A frame with one register at the sign boundary, one with two, one of another slave, an
\* exception, one without data; a bad CRC, half a frame, noise that announces a long
\* frame, noise of an unknown function.
Pieces ==
  LET one == Nibbles(<<1, 3, 2, 8, 0>>)
      two == Nibbles(<<1, 3, 4, 15, 15, 15, 14>>)
      odd == Nibbles(<<1, 3, 3, 7, 15, 1>>)
  IN { one, two, odd, Nibbles(<<2, 3, 2, 1, 1>>), Nibbles(<<1, 11, 2>>), Nibbles(<<1, 3, 0>>),
       [one EXCEPT ![7] = (@ + 1) % 16], SubSeq(two, 1, 6), <<5, 3, 15>>, <<7>>, <<3, 3>> }

ThreePieces == {a \o b \o c : a, b, c \in Pieces}

AllTypes ==
  { [address |-> 0, type |-> "int16"], [address |-> 1, type |-> "uint16"],
    [address |-> 0, type |-> "int32"], [address |-> 0, type |-> "uint32"] }
=============================================================================
