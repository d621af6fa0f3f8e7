----------------------------- MODULE RtuFraming -----------------------------
(***************************************************************************)
(* Modbus RTU frames in a byte stream: split_rtu_frames and _decode_frame  *)
(* (app/plugins/protocols/modbus_rtu_tcp.py) with the decoders of          *)
(* modbus_tcp_adapter.py.  The splitter is taken as its documentation says *)
(* it is used: called with some bytes, it scans them iteration by          *)
(* iteration of its loop and returns the frames and the rest, and the      *)
(* caller hands that rest back in front of the next bytes.  The caller     *)
(* there is, the DTU server, does not get that far: its second chunk ends  *)
(* the connection, see ExtendRaises in DtuServer.  Names that every        *)
(* specification has are prefixed: DtuProofs extends both modules.         *)
(***************************************************************************)
EXTENDS Integers, Sequences

CONSTANTS
  ByteRange,    \* 256; fewer make the same boundaries reachable with small numbers
  Streams,      \* what a device may send: frames, noise, broken frames
  HasCrc(_),    \* the last two bytes of a frame are the CRC of the others
  SlaveId,
  RegisterMap   \* registers of the device configuration, without scale and channel

Bytes == 0..(ByteRange - 1)
Types == {"uint16", "int16", "uint32", "int32"}
ReadHolding == 3
ShortestFrame == 5
LongestFrame == 5 + ByteRange - 1

ASSUME ByteAssumption == ByteRange \in Nat \ {0} /\ ByteRange % 2 = 0
ASSUME StreamAssumption == Streams \subseteq Seq(Bytes)
ASSUME RegisterAssumption == RegisterMap \subseteq [address : Nat, type : Types]

VARIABLES
  stream,    \* all the bytes there will be, of which
  arrived,   \* so many were handed to the splitter
  next,      \* and these are the rest: from the byte at next on
  scanning,  \* split_rtu_frames is running
  frames,    \* the frames returned: first and last position
  readings   \* what _decode_frame made of them, each with the position of its frame

scannerVars == <<stream, arrived, next, scanning, frames, readings>>

Positions == Nat \ {0}

ScannerTypeOK ==
  /\ stream \in Streams
  /\ arrived \in 0..Len(stream)
  /\ next \in 1..(arrived + 1)
  /\ scanning \in BOOLEAN
  /\ frames \in Seq(Positions \X Positions)

ScannerInit ==
  /\ stream \in Streams
  /\ arrived = 0 /\ next = 1
  /\ scanning = FALSE
  /\ frames = <<>> /\ readings = {}

-----------------------------------------------------------------------------
(* What the bytes at a position say; later bytes do not change it.          *)

IsException(p) == stream[p + 1] >= ByteRange \div 2
Known(p) == IsException(p) \/ stream[p + 1] = ReadHolding

FrameEnd(p) ==
  p + (IF IsException(p) THEN ShortestFrame ELSE 3 + stream[p + 2] + 2) - 1
Frame(p) == SubSeq(stream, p, FrameEnd(p))

-----------------------------------------------------------------------------
(* _decode_frame.                                                           *)

Word == ByteRange * ByteRange
WordsOf(type) == IF type \in {"uint32", "int32"} THEN 2 ELSE 1

\* registers[i] of the frame at p, counted from 0.
Register(p, i) == stream[p + 3 + 2 * i] * ByteRange + stream[p + 4 + 2 * i]

\* Mutant of Signed: the test of the sign is off by one.
SignedLate(value, modulus) == IF value > modulus \div 2 THEN value - modulus ELSE value
Signed(value, modulus) == IF value >= modulus \div 2 THEN value - modulus ELSE value

\* _decode_uint16, _decode_int16, _decode_uint32, _decode_int32
Decoded(type, p, address) ==
  LET first == Register(p, address)
      both == first * Word + Register(p, address + 1)
  IN CASE type = "uint16" -> first
       [] type = "int16" -> Signed(first, Word)
       [] type = "uint32" -> both
       [] type = "int32" -> Signed(both, Word * Word)

Fits(p, r) == r.address + WordsOf(r.type) <= stream[p + 2] \div 2

Decode(p) ==
  IF stream[p] # SlaveId \/ IsException(p) THEN {}
  ELSE { [frame |-> p, register |-> r, value |-> Decoded(r.type, p, r.address)] :
           r \in {r \in RegisterMap : Fits(p, r)} }

-----------------------------------------------------------------------------
(* split_rtu_frames.                                                        *)

\* A call with the rest of the last one (the first has none) and the bytes up to n.
Call(n) ==
  /\ ~scanning
  /\ arrived < n /\ n <= Len(stream)
  /\ arrived' = n
  /\ scanning' = TRUE
  /\ UNCHANGED <<stream, next, frames, readings>>

Rest == arrived - next + 1

Accept ==
  /\ scanning /\ Rest >= ShortestFrame
  /\ Known(next) /\ FrameEnd(next) <= arrived /\ HasCrc(Frame(next))
  /\ frames' = Append(frames, <<next, FrameEnd(next)>>)
  /\ readings' = readings \cup Decode(next)
  /\ next' = FrameEnd(next) + 1
  /\ UNCHANGED <<stream, arrived, scanning>>

\* Mutant of Resynchronize: all the bytes of a bad frame are dropped.
ResynchronizeBehind ==
  /\ scanning /\ Rest >= ShortestFrame
  /\ \/ ~Known(next) /\ next' = next + 1
     \/ /\ Known(next) /\ FrameEnd(next) <= arrived /\ ~HasCrc(Frame(next))
        /\ next' = FrameEnd(next) + 1
  /\ UNCHANGED <<stream, arrived, scanning, frames, readings>>

\* An unknown function or a wrong CRC: one byte is dropped.
Resynchronize ==
  /\ scanning /\ Rest >= ShortestFrame
  /\ ~Known(next) \/ (FrameEnd(next) <= arrived /\ ~HasCrc(Frame(next)))
  /\ next' = next + 1
  /\ UNCHANGED <<stream, arrived, scanning, frames, readings>>

\* Mutant of Wait: half a frame is given up.
WaitNot ==
  /\ scanning
  /\ IF Rest < ShortestFrame THEN scanning' = FALSE /\ UNCHANGED next
     ELSE /\ Known(next) /\ FrameEnd(next) > arrived
          /\ next' = next + 1
          /\ UNCHANGED scanning
  /\ UNCHANGED <<stream, arrived, frames, readings>>

\* Less than the shortest frame is left, or half of one: more is waited for.
Wait ==
  /\ scanning
  /\ Rest >= ShortestFrame => Known(next) /\ FrameEnd(next) > arrived
  /\ scanning' = FALSE
  /\ UNCHANGED <<stream, arrived, next, frames, readings>>

ScannerNext == (\E n \in 1..Len(stream) : Call(n)) \/ Accept \/ Resynchronize \/ Wait

ScannerSpec == ScannerInit /\ [][ScannerNext]_scannerVars

-----------------------------------------------------------------------------
(* Properties.                                                              *)

\* The bytes from p on are a valid frame that has arrived.
Genuine(p) ==
  /\ p + ShortestFrame - 1 <= arrived
  /\ Known(p) /\ FrameEnd(p) <= arrived /\ HasCrc(Frame(p))

Covered(p) == \E i \in 1..Len(frames) : frames[i][1] <= p /\ p <= frames[i][2]

\* The splitter passes no valid frame over, whatever noise, broken or half frames are around it:
\* every one that begins before the rest is reported, unless it begins inside another
\* that is.
NoFrameIsLost == \A p \in 1..(next - 1) : Genuine(p) => Covered(p)

\* What is kept between two calls is shorter than the longest frame, so that a valid
\* frame is reported before so many more bytes have come, even if the noise in front
\* of it announces a long one.
RestIsBounded == ~scanning => Rest < LongestFrame
FramesAreFound == NoFrameIsLost /\ RestIsBounded

\* Splitting the bytes up to end at once, as the documentation of the function says: the
\* frames from position p on, and where the rest begins, given the same for later p.
SplitFrom(split, end, p) ==
  IF end - p + 1 < ShortestFrame THEN <<<<>>, p>>
  ELSE IF ~Known(p) THEN split[p + 1]
  ELSE IF FrameEnd(p) > end THEN <<<<>>, p>>
  ELSE IF HasCrc(Frame(p))
  THEN <<<<<<p, FrameEnd(p)>>>> \o split[FrameEnd(p) + 1][1], split[FrameEnd(p) + 1][2]>>
  ELSE split[p + 1]
AtOnce(end) ==
  LET split[p \in 1..(end + 1)] == SplitFrom(split, end, p) IN split[1]

\* How a stream is cut between calls does not matter to split_rtu_frames: when each gets
\* the rest of the one before and some more bytes, what they found and what is left is the
\* same as when all those bytes are split at once.  It is a property of the function only.
ChunksDoNotMatter == ~scanning => <<frames, next>> = AtOnce(arrived)

\* Big-endian bytes from position p on, as a number.
Number(p, count) ==
  LET upTo[k \in 0..count] == IF k = 0 THEN 0 ELSE upTo[k - 1] * ByteRange + stream[p + k - 1]
  IN upTo[count]

\* A reading is what the bytes at the address of its register say in two's complement,
\* within the range of its type and inside the data of one reported frame.
ReadingsAreMeant ==
  \A r \in readings :
    LET count == 2 * WordsOf(r.register.type)
        place == r.frame + 3 + 2 * r.register.address
        modulus == IF count = 2 THEN Word ELSE Word * Word
        low == IF r.register.type \in {"int16", "int32"} THEN -(modulus \div 2) ELSE 0
    IN /\ (r.value - Number(place, count)) % modulus = 0
       /\ r.value \in low..(low + modulus - 1)
       /\ \E k \in 1..Len(frames) : frames[k][1] = r.frame /\ place + count + 1 <= frames[k][2]
=============================================================================
