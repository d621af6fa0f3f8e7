----------------------------- MODULE DtuProofs ------------------------------
(***************************************************************************)
(* Proofs about the way of a reading from a DTU's connection to the        *)
(* database: RtuFraming, the splitter as such, for any even number of byte *)
(* values, every stream and every way to cut it between calls, whatever    *)
(* the CRC is; and DtuServer, for any devices, batch size and bounds.      *)
(***************************************************************************)
EXTENDS RtuFraming, DtuServer, SequenceTheorems, WellFoundedInduction, TLAPS

-----------------------------------------------------------------------------
(* The scanner.                                                             *)

\* What is behind the rest does not depend on what is still to come.
Settled ==
  \A p \in 1..(next - 1) : Covered(p) \/ ~Known(p) \/ ~HasCrc(Frame(p))

ScannerInv == ScannerTypeOK /\ RestIsBounded /\ Settled

LEMMA ElementInRange ==
  ASSUME NEW S, NEW seq \in Seq(S), NEW i \in 1..Len(seq)
  PROVE  seq[i] \in S
OBVIOUS

\* The length of a frame is read from bytes that are there, and it ends behind its header.
LEMMA FrameEndBounds ==
  ASSUME stream \in Seq(Bytes), NEW p \in 1..Len(stream), p + 4 <= Len(stream)
  PROVE  /\ FrameEnd(p) \in Nat
         /\ FrameEnd(p) >= p + 4
         /\ FrameEnd(p) < p + LongestFrame
<1>1. FrameEnd(p) = p + 4 \/ FrameEnd(p) = p + (3 + stream[p + 2] + 2) - 1
  BY DEF FrameEnd, ShortestFrame
<1>2. p + 2 \in 1..Len(stream)
  <2>1. Len(stream) \in Nat
    OBVIOUS
  <2> QED BY <2>1
<1>3. stream[p + 2] \in 0..(ByteRange - 1)
  BY <1>2, ElementInRange DEF Bytes
<1> QED BY <1>1, <1>3, ByteAssumption DEF LongestFrame

LEMMA StreamFacts ==
  ASSUME ScannerTypeOK
  PROVE  /\ stream \in Seq(Bytes) /\ Len(stream) \in Nat
         /\ next \in 1..(arrived + 1) /\ arrived \in 0..Len(stream)
BY StreamAssumption DEF ScannerTypeOK

\* The scanner starts before the first byte.
LEMMA InitHolds == ScannerInit => ScannerInv
<1> SUFFICES ASSUME ScannerInit PROVE ScannerInv
  OBVIOUS
<1>1. ScannerTypeOK
  <2>1. stream \in Seq(Bytes)
    BY StreamAssumption DEF ScannerInit
  <2>2. Len(stream) \in Nat
    BY <2>1
  <2>3. frames \in Seq(Positions \X Positions)
    BY DEF ScannerInit
  <2>4. stream \in Streams /\ arrived = 0 /\ next = 1 /\ scanning = FALSE
    BY DEF ScannerInit
  <2>5. arrived \in 0..Len(stream) /\ next \in 1..(arrived + 1)
    BY <2>2, <2>4
  <2> QED BY <2>3, <2>4, <2>5 DEF ScannerTypeOK
<1>2. RestIsBounded
  BY ByteAssumption DEF ScannerInit, RestIsBounded, Rest, LongestFrame
<1>3. Settled
  BY DEF ScannerInit, Settled
<1> QED BY <1>1, <1>2, <1>3 DEF ScannerInv

\* What the bytes at a position say stays as the stream does.
LEMMA SameBytes ==
  ASSUME UNCHANGED stream, NEW p
  PROVE  /\ Known(p)' <=> Known(p)
         /\ HasCrc(Frame(p))' <=> HasCrc(Frame(p))
<1>1. Known(p)' <=> Known(p)
  BY DEF Known, IsException
<1>2. FrameEnd(p)' = FrameEnd(p)
  BY DEF FrameEnd, IsException
<1>3. Frame(p)' = Frame(p)
  BY <1>2 DEF Frame
<1> QED BY <1>1, <1>3

\* A step that adds no frame and moves the rest past bytes that begin none.
LEMMA SettledKept ==
  ASSUME ScannerInv, UNCHANGED <<stream, frames>>, next' \in Nat,
         \A p \in 1..(next' - 1) : p < next \/ ~Known(p) \/ ~HasCrc(Frame(p))
  PROVE  Settled'
<1> SUFFICES ASSUME NEW p \in 1..(next' - 1)
             PROVE  (Covered(p) \/ ~Known(p) \/ ~HasCrc(Frame(p)))'
  BY DEF Settled
<1>1. Covered(p)' <=> Covered(p)
  BY DEF Covered
<1>2. next \in Nat
  BY DEF ScannerInv, ScannerTypeOK
<1>3. CASE p < next
  <2>1. p \in 1..(next - 1)
    BY <1>2, <1>3
  <2>2. Covered(p) \/ ~Known(p) \/ ~HasCrc(Frame(p))
    BY <2>1 DEF ScannerInv, Settled
  <2> QED BY <2>2, <1>1, SameBytes
<1>4. CASE ~(p < next)
  BY <1>4, SameBytes
<1> QED BY <1>3, <1>4

LEMMA ReceiveKeeps ==
  ASSUME ScannerInv, NEW n \in 1..Len(stream), Call(n)
  PROVE  ScannerInv'
<1>1. ScannerTypeOK'
  BY DEF ScannerInv, ScannerTypeOK, Call
<1>2. RestIsBounded'
  BY DEF Call, RestIsBounded
<1>3. Settled'
  BY SettledKept DEF ScannerInv, ScannerTypeOK, Call
<1> QED BY <1>1, <1>2, <1>3 DEF ScannerInv

LEMMA AcceptKeeps ==
  ASSUME ScannerInv, Accept
  PROVE  ScannerInv'
<1> DEFINE last == FrameEnd(next)
<1>1. last \in Nat /\ last >= next + 4 /\ last <= arrived
  <2>1. /\ stream \in Seq(Bytes) /\ next \in 1..Len(stream) /\ next + 4 <= Len(stream)
        /\ last <= arrived
    BY StreamFacts DEF ScannerInv, Accept, Rest, ShortestFrame
  <2> QED BY <2>1, FrameEndBounds
<1>2. next \in 1..(arrived + 1) /\ arrived \in Nat /\ frames \in Seq(Positions \X Positions)
  <2>1. Len(stream) \in Nat
    BY StreamAssumption DEF ScannerInv, ScannerTypeOK
  <2> QED BY <2>1 DEF ScannerInv, ScannerTypeOK
<1>3. /\ frames' = Append(frames, <<next, last>>) /\ next' = last + 1
      /\ UNCHANGED <<stream, arrived, scanning>> /\ scanning
  BY DEF Accept
<1> HIDE DEF last
<1>4. ScannerTypeOK'
  <2>1. <<next, last>> \in Positions \X Positions
    BY <1>1, <1>2 DEF Positions
  <2>2. frames' \in Seq(Positions \X Positions)
    BY <2>1, <1>2, <1>3
  <2>3. next' \in 1..(arrived' + 1)
    BY <1>1, <1>2, <1>3
  <2> QED BY <2>2, <2>3, <1>3 DEF ScannerInv, ScannerTypeOK
<1>5. RestIsBounded'
  BY <1>3 DEF RestIsBounded
<1>6. Settled'
  <2> SUFFICES ASSUME NEW p \in 1..(next' - 1)
               PROVE  (Covered(p) \/ ~Known(p) \/ ~HasCrc(Frame(p)))'
    BY DEF Settled
  <2>1. /\ Len(frames) \in Nat /\ Len(frames') = Len(frames) + 1
        /\ frames'[Len(frames) + 1] = <<next, last>>
        /\ \A i \in 1..Len(frames) : frames'[i] = frames[i]
    BY <1>2, <1>3
  <2>2. CASE p < next
    <3>1. Covered(p) \/ ~Known(p) \/ ~HasCrc(Frame(p))
      BY <2>2, <1>2 DEF ScannerInv, Settled
    <3>2. Covered(p) => Covered(p)'
      BY <2>1 DEF Covered
    <3> QED BY <3>1, <3>2, <1>3, SameBytes
  <2>3. CASE p >= next
    <3>1. p <= last
      BY <1>1, <1>3
    <3>2. Covered(p)'
      BY <2>1, <2>3, <3>1 DEF Covered
    <3> QED BY <3>2
  <2> QED BY <2>2, <2>3, <1>1, <1>2, <1>3
<1> QED BY <1>4, <1>5, <1>6 DEF ScannerInv

LEMMA ResynchronizeKeeps ==
  ASSUME ScannerInv, Resynchronize
  PROVE  ScannerInv'
<1>1. /\ next' = next + 1 /\ scanning /\ arrived - next + 1 >= 5
      /\ UNCHANGED <<stream, arrived, scanning, frames>>
      /\ ~Known(next) \/ ~HasCrc(Frame(next))
  BY DEF Resynchronize, Rest, ShortestFrame
<1>2. next \in 1..(arrived + 1) /\ arrived \in Nat
  <2>1. Len(stream) \in Nat
    BY StreamAssumption DEF ScannerInv, ScannerTypeOK
  <2> QED BY <2>1 DEF ScannerInv, ScannerTypeOK
<1>3. ScannerTypeOK'
  <2>1. next' \in 1..(arrived' + 1)
    BY <1>1, <1>2
  <2> QED BY <2>1, <1>1 DEF ScannerInv, ScannerTypeOK
<1>4. RestIsBounded'
  BY <1>1 DEF RestIsBounded
<1>5. \A p \in 1..(next' - 1) : p < next \/ ~Known(p) \/ ~HasCrc(Frame(p))
  <2> SUFFICES ASSUME NEW p \in 1..(next' - 1), ~(p < next)
               PROVE  ~Known(p) \/ ~HasCrc(Frame(p))
    OBVIOUS
  <2>1. p = next
    BY <1>1, <1>2
  <2> QED BY <2>1, <1>1
<1>6. Settled'
  BY <1>1, <1>2, <1>5, SettledKept
<1> QED BY <1>3, <1>4, <1>6 DEF ScannerInv

LEMMA WaitKeeps ==
  ASSUME ScannerInv, Wait
  PROVE  ScannerInv'
<1>1. next \in 1..(arrived + 1) /\ arrived \in Nat
  <2>1. Len(stream) \in Nat
    BY StreamAssumption DEF ScannerInv, ScannerTypeOK
  <2> QED BY <2>1 DEF ScannerInv, ScannerTypeOK
<1>2. UNCHANGED <<stream, arrived, next, frames>>
  BY DEF Wait
<1>3. ScannerTypeOK'
  BY <1>2 DEF ScannerInv, ScannerTypeOK, Wait
<1>4. RestIsBounded'
  <2>1. Rest < LongestFrame
    <3>1. CASE Rest >= ShortestFrame
      <4>1. FrameEnd(next) > arrived
        BY <3>1 DEF Wait
      <4>2. stream \in Seq(Bytes) /\ next \in 1..Len(stream) /\ next + 4 <= Len(stream)
        BY <3>1, StreamFacts DEF ScannerInv, Rest, ShortestFrame
      <4>3. FrameEnd(next) \in Nat /\ FrameEnd(next) < next + LongestFrame
        BY <4>2, FrameEndBounds
      <4>4. LongestFrame \in Nat
        BY ByteAssumption DEF LongestFrame
      <4> QED BY <4>1, <4>3, <4>4, <1>1 DEF Rest
    <3>2. CASE ~(Rest >= ShortestFrame)
      BY <3>2, <1>1, ByteAssumption DEF Rest, ShortestFrame, LongestFrame
    <3> QED BY <3>1, <3>2
  <2>2. LongestFrame' = LongestFrame
    BY DEF LongestFrame
  <2> QED BY <2>1, <2>2, <1>2 DEF RestIsBounded, Rest
<1>5. \A p \in 1..(next' - 1) : p < next \/ ~Known(p) \/ ~HasCrc(Frame(p))
  BY <1>1, <1>2
<1>6. Settled'
  BY <1>1, <1>2, <1>5, SettledKept
<1> QED BY <1>3, <1>4, <1>6 DEF ScannerInv

LEMMA StutterKeeps ==
  ASSUME ScannerInv, UNCHANGED scannerVars
  PROVE  ScannerInv'
<1>1. UNCHANGED <<stream, arrived, next, scanning, frames>>
  BY DEF scannerVars
<1>2. ScannerTypeOK'
  BY <1>1 DEF ScannerInv, ScannerTypeOK
<1>3. RestIsBounded'
  <2>1. LongestFrame' = LongestFrame
    BY DEF LongestFrame
  <2> QED BY <1>1, <2>1 DEF ScannerInv, RestIsBounded, Rest
<1>4. next \in Nat
  BY DEF ScannerInv, ScannerTypeOK
<1>5. Settled'
  BY <1>1, <1>4, SettledKept
<1> QED BY <1>2, <1>3, <1>5 DEF ScannerInv

\* The inductive invariant: what is behind the rest is settled for good.
THEOREM ScannerSafe == ScannerSpec => []ScannerInv
<1>1. ScannerInv /\ [ScannerNext]_scannerVars => ScannerInv'
  BY ReceiveKeeps, AcceptKeeps, ResynchronizeKeeps, WaitKeeps, StutterKeeps DEF ScannerNext
<1> QED BY <1>1, InitHolds, PTL DEF ScannerSpec

\* The scanner never leaves what has arrived, and reports positions of the stream.
THEOREM ScannerTypeCorrect == ScannerSpec => []ScannerTypeOK
<1>1. ScannerInv => ScannerTypeOK
  BY DEF ScannerInv
<1> QED BY <1>1, ScannerSafe, PTL

\* split_rtu_frames passes over no valid frame, and keeps less than the longest frame.
THEOREM NothingIsPassedOver == ScannerSpec => []FramesAreFound
<1>1. ScannerInv => FramesAreFound
  BY DEF ScannerInv, Settled, Genuine, FramesAreFound, NoFrameIsLost
<1> QED BY <1>1, ScannerSafe, PTL

-----------------------------------------------------------------------------
(* Splitting at once.  A recursive function is the choice of a function     *)
(* that solves its equation: there is one, and each that solves it says     *)
(* what the scanner does.                                                   *)

LEMMA LeastExists ==
  ASSUME NEW S \in SUBSET Nat, S # {}
  PROVE  \E x \in S : \A y \in S : x <= y
<1> DEFINE R == OpToRel(<, Nat)
<1>1. IsWellFoundedOn(R, Nat)
  BY NatLessThanWellFounded
<1>2. \A x, y \in Nat : x < y => <<x, y>> \in R
  BY DEF OpToRel
<1> HIDE DEF R
<1>3. PICK x \in S : \A y \in S : ~(<<y, x>> \in R)
  BY <1>1, WFMin
<1>4. ASSUME NEW y \in S PROVE x <= y
  <2>1. x \in Nat /\ y \in Nat /\ ~(y < x)
    BY <1>2, <1>3
  <2> QED BY <2>1
<1> QED BY <1>4

LEMMA AppendConcat ==
  ASSUME NEW S, NEW s \in Seq(S), NEW t \in Seq(S), NEW e \in S
  PROVE  Append(s, e) \o t = s \o (<<e>> \o t)
OBVIOUS

\* g is the splitting of what lies between position m and end.
Splits(g, m, end) == g = [p \in m..(end + 1) |-> SplitFrom(g, end, p)]

\* The three things that are done with the bytes at p: they may become a frame, they begin
\* none, or they are one.
MayBecomeFrame(end, p) ==
  end - p + 1 < ShortestFrame \/ (Known(p) /\ FrameEnd(p) > end)
BeginNone(end, p) ==
  /\ ~(end - p + 1 < ShortestFrame)
  /\ ~Known(p) \/ (~(FrameEnd(p) > end) /\ ~HasCrc(Frame(p)))
AreFrame(end, p) ==
  /\ ~(end - p + 1 < ShortestFrame)
  /\ Known(p) /\ ~(FrameEnd(p) > end) /\ HasCrc(Frame(p))

LEMMA ThreeCases ==
  ASSUME NEW end, NEW p
  PROVE  MayBecomeFrame(end, p) \/ BeginNone(end, p) \/ AreFrame(end, p)
BY Zenon DEF MayBecomeFrame, BeginNone, AreFrame

LEMMA SplitWaits ==
  ASSUME NEW end, NEW p, NEW g, MayBecomeFrame(end, p)
  PROVE  SplitFrom(g, end, p) = <<<<>>, p>>
BY Zenon DEF MayBecomeFrame, SplitFrom

LEMMA SplitSkips ==
  ASSUME NEW end, NEW p, NEW g, BeginNone(end, p)
  PROVE  SplitFrom(g, end, p) = g[p + 1]
BY Zenon DEF BeginNone, SplitFrom

LEMMA SplitAccepts ==
  ASSUME NEW end, NEW p, NEW g, AreFrame(end, p)
  PROVE  SplitFrom(g, end, p) =
           <<<<<<p, FrameEnd(p)>>>> \o g[FrameEnd(p) + 1][1], g[FrameEnd(p) + 1][2]>>
BY Zenon DEF AreFrame, SplitFrom

\* What is dropped or reported lies before end.
LEMMA SplitPlaces ==
  ASSUME stream \in Seq(Bytes), NEW end \in 0..Len(stream), NEW p \in 1..(end + 1)
  PROVE  /\ BeginNone(end, p) => p + 1 \in (p + 1)..(end + 1)
         /\ AreFrame(end, p) => FrameEnd(p) \in Positions /\ FrameEnd(p) + 1 \in (p + 1)..(end + 1)
<1>1. CASE end - p + 1 < ShortestFrame
  BY <1>1 DEF BeginNone, AreFrame
<1>2. CASE ~(end - p + 1 < ShortestFrame)
  <2>1. p \in 1..Len(stream) /\ p + 4 <= Len(stream) /\ p + 4 <= end
    BY <1>2 DEF ShortestFrame
  <2>2. FrameEnd(p) \in Nat /\ FrameEnd(p) >= p + 4
    BY <2>1, FrameEndBounds
  <2> QED BY <2>1, <2>2 DEF AreFrame, Positions
<1> QED BY <1>1, <1>2

\* Frames up to end that begin at p are looked for at later positions only.
LEMMA SplitLooksOn ==
  ASSUME stream \in Seq(Bytes), NEW end \in 0..Len(stream), NEW p \in 1..(end + 1),
         NEW g, NEW h, \A q \in (p + 1)..(end + 1) : g[q] = h[q]
  PROVE  SplitFrom(g, end, p) = SplitFrom(h, end, p)
<1>1. CASE MayBecomeFrame(end, p)
  BY <1>1, SplitWaits, Zenon
<1>2. CASE BeginNone(end, p)
  <2>1. g[p + 1] = h[p + 1]
    BY <1>2, SplitPlaces
  <2> QED BY <1>2, <2>1, SplitSkips, Zenon
<1>3. CASE AreFrame(end, p)
  <2>1. g[FrameEnd(p) + 1] = h[FrameEnd(p) + 1]
    BY <1>3, SplitPlaces
  <2>2. SplitFrom(g, end, p) =
          <<<<<<p, FrameEnd(p)>>>> \o g[FrameEnd(p) + 1][1], g[FrameEnd(p) + 1][2]>>
    BY <1>3, SplitAccepts
  <2>3. SplitFrom(h, end, p) =
          <<<<<<p, FrameEnd(p)>>>> \o h[FrameEnd(p) + 1][1], h[FrameEnd(p) + 1][2]>>
    BY <1>3, SplitAccepts
  <2> QED BY <2>1, <2>2, <2>3, Zenon
<1> QED BY <1>1, <1>2, <1>3, ThreeCases

\* A splitting is extended to the left.
LEMMA SplitExtends ==
  ASSUME stream \in Seq(Bytes), NEW end \in 0..Len(stream), NEW m \in 1..(end + 1),
         NEW g, Splits(g, m + 1, end)
  PROVE  \E h : Splits(h, m, end)
<1> DEFINE h == [p \in m..(end + 1) |-> IF p = m THEN SplitFrom(g, end, p) ELSE g[p]]
<1>1. \A q \in (m + 1)..(end + 1) : g[q] = h[q] /\ g[q] = SplitFrom(g, end, q)
  <2>1. \A q \in (m + 1)..(end + 1) : g[q] = SplitFrom(g, end, q)
    BY DEF Splits
  <2> QED BY <2>1
<1>2. ASSUME NEW p \in m..(end + 1) PROVE h[p] = SplitFrom(g, end, p)
  <2>1. CASE p = m
    BY <2>1
  <2>2. CASE p # m
    <3>1. p \in (m + 1)..(end + 1)
      BY <2>2
    <3> QED BY <1>1, <3>1
  <2> QED BY <2>1, <2>2
<1>3. h = [p \in m..(end + 1) |-> h[p]]
  OBVIOUS
<1> HIDE DEF h
<1>4. ASSUME NEW p \in m..(end + 1) PROVE h[p] = SplitFrom(h, end, p)
  <2>1. p \in 1..(end + 1) /\ \A q \in (p + 1)..(end + 1) : g[q] = h[q]
    BY <1>1
  <2>2. SplitFrom(g, end, p) = SplitFrom(h, end, p)
    BY <2>1, SplitLooksOn
  <2> QED BY <1>2, <2>2
<1>5. Splits(h, m, end)
  BY <1>3, <1>4, Zenon DEF Splits
<1> QED BY <1>5

LEMMA SplitExists ==
  ASSUME stream \in Seq(Bytes), NEW end \in 0..Len(stream)
  PROVE  \E g : Splits(g, 1, end)
<1> DEFINE Found(k) == \E g : Splits(g, end + 2 - k, end)
           open == {k \in 0..(end + 1) : ~Found(k)}
<1>1. end \in Nat
  BY DEF Bytes
<1>2. Found(0)
  <2> DEFINE none == [p \in (end + 2)..(end + 1) |-> 0]
  <2>1. Splits(none, end + 2, end)
    BY <1>1 DEF Splits
  <2>2. end + 2 - 0 = end + 2
    BY <1>1
  <2> QED BY <2>1, <2>2
<1>3. ASSUME NEW k \in 0..end, Found(k) PROVE Found(k + 1)
  <2>1. /\ end + 2 - (k + 1) \in 1..(end + 1)
        /\ end + 2 - k = (end + 2 - (k + 1)) + 1
    BY <1>1
  <2> QED BY <1>3, <2>1, SplitExtends
<1>4. end + 2 - (end + 1) = 1
  BY <1>1
<1> HIDE DEF Found
<1>5. open = {}
  <2> SUFFICES ASSUME open # {} PROVE FALSE
    OBVIOUS
  <2>1. open \in SUBSET Nat
    BY <1>1
  <2>2. PICK k \in open : \A y \in open : k <= y
    BY <2>1, LeastExists
  <2>3. k \in 0..(end + 1) /\ ~Found(k)
    OBVIOUS
  <2>4. k - 1 \in 0..end /\ k - 1 \notin open /\ (k - 1) + 1 = k
    BY <1>1, <1>2, <2>2, <2>3
  <2>5. Found(k - 1)
    BY <1>1, <2>4
  <2> QED BY <1>3, <2>3, <2>4, <2>5
<1>6. Found(end + 1)
  BY <1>1, <1>5
<1> QED BY <1>4, <1>6 DEF Found

\* A splitting is a sequence of frames and a position.
LEMMA SplitTypes ==
  ASSUME stream \in Seq(Bytes), NEW end \in 0..Len(stream), NEW g, Splits(g, 1, end),
         NEW p \in 1..(end + 1)
  PROVE  g[p][1] \in Seq(Positions \X Positions) /\ g[p] = <<g[p][1], g[p][2]>>
<1> DEFINE Typed(q) == g[q][1] \in Seq(Positions \X Positions) /\ g[q] = <<g[q][1], g[q][2]>>
           open == {k \in 0..end : ~Typed(end + 1 - k)}
<1>1. end \in Nat
  BY DEF Bytes
<1>2. ASSUME NEW q \in 1..(end + 1), \A r \in (q + 1)..(end + 1) : Typed(r) PROVE Typed(q)
  <2>1. g[q] = SplitFrom(g, end, q)
    BY <1>2 DEF Splits
  <2>2. CASE MayBecomeFrame(end, q)
    <3>1. g[q] = <<<<>>, q>>
      BY <2>1, <2>2, SplitWaits, Zenon
    <3> QED BY <3>1
  <2>3. CASE BeginNone(end, q)
    <3>1. g[q] = g[q + 1]
      BY <2>1, <2>3, SplitSkips, Zenon
    <3>2. q + 1 \in (q + 1)..(end + 1)
      BY <2>3, SplitPlaces
    <3> QED BY <3>1, <3>2, <1>2
  <2>4. CASE AreFrame(end, q)
    <3> DEFINE last == FrameEnd(q)
    <3>1. g[q] = <<<<<<q, last>>>> \o g[last + 1][1], g[last + 1][2]>>
      BY <2>1, <2>4, SplitAccepts, Zenon
    <3>2. last \in Positions /\ last + 1 \in (q + 1)..(end + 1)
      BY <2>4, SplitPlaces
    <3>3. <<q, last>> \in Positions \X Positions
      BY <3>2 DEF Positions
    <3> HIDE DEF last
    <3>4. g[last + 1][1] \in Seq(Positions \X Positions)
      BY <3>2, <1>2
    <3>5. <<<<q, last>>>> \o g[last + 1][1] \in Seq(Positions \X Positions)
      BY <3>3, <3>4
    <3> QED BY <3>1, <3>5
  <2> QED BY <2>2, <2>3, <2>4, ThreeCases
<1> HIDE DEF Typed
<1>3. open = {}
  <2> SUFFICES ASSUME open # {} PROVE FALSE
    OBVIOUS
  <2>1. open \in SUBSET Nat
    BY <1>1
  <2>2. PICK k \in open : \A y \in open : k <= y
    BY <2>1, LeastExists
  <2> DEFINE q == end + 1 - k
  <2>3. k \in 0..end /\ ~Typed(q) /\ q \in 1..(end + 1)
    BY <1>1
  <2>4. ASSUME NEW r \in (q + 1)..(end + 1) PROVE Typed(r)
    <3>1. end + 1 - r \in 0..end /\ ~(k <= end + 1 - r) /\ end + 1 - (end + 1 - r) = r
      BY <1>1, <2>3
    <3>2. end + 1 - r \notin open
      BY <2>2, <3>1
    <3> QED BY <3>1, <3>2
  <2> HIDE DEF q
  <2> QED BY <1>2, <2>3, <2>4
<1>4. Typed(p)
  <2>1. end + 1 - p \in 0..end /\ end + 1 - (end + 1 - p) = p
    BY <1>1
  <2> QED BY <1>3, <2>1
<1> QED BY <1>4 DEF Typed

\* What the scanner has found and what it will find in the rest are what splitting all that
\* comes until any later moment finds.
FoundSoFar ==
  \A end \in arrived..Len(stream) : \A g :
    Splits(g, 1, end) => g[1] = <<frames \o g[next][1], g[next][2]>>

\* Between two chunks the rest begins with what may become a frame.
RestMayBecomeFrame == ~scanning => MayBecomeFrame(arrived, next)

SplitInv == FoundSoFar /\ RestMayBecomeFrame

LEMMA SameSplit ==
  ASSUME UNCHANGED stream, NEW CONSTANT g, NEW CONSTANT end
  PROVE  Splits(g, 1, end)' <=> Splits(g, 1, end)
<1>1. ASSUME NEW CONSTANT p PROVE SplitFrom(g, end, p)' = SplitFrom(g, end, p)
  <2>1. FrameEnd(p)' = FrameEnd(p)
    BY DEF FrameEnd, IsException
  <2> QED BY <2>1, SameBytes, Zenon DEF SplitFrom
<1> QED BY <1>1, Zenon DEF Splits

\* A step that finds what it passes.
LEMMA FoundKept ==
  ASSUME SplitInv, UNCHANGED stream, arrived \in Nat, arrived' \in Nat, arrived <= arrived',
         ASSUME NEW CONSTANT end \in arrived'..Len(stream), NEW CONSTANT g, Splits(g, 1, end)
         PROVE  /\ frames' \o g[next'][1] = frames \o g[next][1]
                /\ g[next'][2] = g[next][2]
  PROVE  FoundSoFar'
<1> SUFFICES ASSUME NEW CONSTANT end \in arrived'..Len(stream'), NEW CONSTANT g,
                    Splits(g, 1, end)'
             PROVE  g[1] = <<frames' \o g[next'][1], g[next'][2]>>
  BY Zenon DEF FoundSoFar
<1>1. Splits(g, 1, end)
  BY SameSplit
<1>2. end \in arrived'..Len(stream)
  OBVIOUS
<1>3. end \in arrived..Len(stream)
  BY <1>2
<1>4. g[1] = <<frames \o g[next][1], g[next][2]>>
  BY <1>1, <1>3, Zenon DEF SplitInv, FoundSoFar
<1> QED BY <1>1, <1>2, <1>4, Zenon

LEMMA InitSplits == ScannerInit => SplitInv
<1> SUFFICES ASSUME ScannerInit PROVE SplitInv
  OBVIOUS
<1>1. arrived = 0 /\ next = 1 /\ frames = <<>> /\ stream \in Seq(Bytes)
  BY StreamAssumption DEF ScannerInit
<1>2. ASSUME NEW end \in 0..Len(stream), NEW g, Splits(g, 1, end)
      PROVE  g[1] = <<frames \o g[next][1], g[next][2]>>
  <2>1. 1 \in 1..(end + 1)
    OBVIOUS
  <2>2. g[1][1] \in Seq(Positions \X Positions) /\ g[1] = <<g[1][1], g[1][2]>>
    BY <1>1, <1>2, <2>1, SplitTypes
  <2>3. <<>> \o g[1][1] = g[1][1]
    BY <2>2
  <2> QED BY <1>1, <2>2, <2>3
<1>3. MayBecomeFrame(arrived, next)
  BY <1>1 DEF MayBecomeFrame, ShortestFrame
<1> QED BY <1>1, <1>2, <1>3 DEF SplitInv, FoundSoFar, RestMayBecomeFrame

LEMMA ReceiveSplits ==
  ASSUME ScannerInv, SplitInv, NEW n \in 1..Len(stream), Call(n)
  PROVE  SplitInv'
<1>1. /\ UNCHANGED <<stream, next, frames>> /\ arrived' = n /\ scanning'
      /\ arrived \in Nat /\ n \in Nat /\ arrived <= n
  BY StreamFacts DEF ScannerInv, Call
<1>2. FoundSoFar'
  BY <1>1, FoundKept
<1> QED BY <1>1, <1>2 DEF SplitInv, RestMayBecomeFrame

LEMMA AcceptSplits ==
  ASSUME ScannerInv, SplitInv, Accept
  PROVE  SplitInv'
<1> DEFINE last == FrameEnd(next)
<1>1. /\ UNCHANGED <<stream, arrived, scanning>> /\ scanning
      /\ frames' = Append(frames, <<next, last>>) /\ next' = last + 1
  BY DEF Accept
<1>2. /\ stream \in Seq(Bytes) /\ next \in 1..(arrived + 1) /\ arrived \in 0..Len(stream)
      /\ frames \in Seq(Positions \X Positions) /\ Len(stream) \in Nat
  BY StreamFacts DEF ScannerInv, ScannerTypeOK
<1>3. ASSUME NEW CONSTANT end \in arrived'..Len(stream), NEW CONSTANT g, Splits(g, 1, end)
      PROVE  /\ frames' \o g[next'][1] = frames \o g[next][1]
             /\ g[next'][2] = g[next][2]
  <2>1. end \in 0..Len(stream) /\ next \in 1..(end + 1) /\ arrived <= end
    BY <1>1, <1>2
  <2>2. AreFrame(end, next)
    <3>1. last \in Nat
      <4>1. next \in 1..Len(stream) /\ next + 4 <= Len(stream)
        BY <1>2 DEF Accept, Rest, ShortestFrame
      <4> QED BY <1>2, <4>1, FrameEndBounds
    <3>2. ~(end - next + 1 < ShortestFrame)
      BY <1>2, <2>1 DEF Accept, Rest, ShortestFrame
    <3>3. Known(next) /\ HasCrc(Frame(next)) /\ last <= arrived
      BY DEF Accept
    <3>4. ~(last > end)
      BY <2>1, <3>1, <3>3, <1>2
    <3> QED BY <3>2, <3>3, <3>4 DEF AreFrame
  <2>3. g[next] = <<<<<<next, last>>>> \o g[last + 1][1], g[last + 1][2]>>
    <3>1. g[next] = SplitFrom(g, end, next)
      BY <1>3, <2>1 DEF Splits
    <3> QED BY <2>2, <3>1, SplitAccepts, Zenon
  <2>4. last \in Positions /\ last + 1 \in 1..(end + 1)
    BY <1>2, <2>1, <2>2, SplitPlaces
  <2>5. g[last + 1][1] \in Seq(Positions \X Positions)
    BY <1>2, <1>3, <2>1, <2>4, SplitTypes
  <2>6. <<next, last>> \in Positions \X Positions
    BY <1>2, <2>4 DEF Positions
  <2> HIDE DEF last
  <2> DEFINE S == Positions \X Positions
             new == <<next, last>>
             others == g[last + 1][1]
  <2>7. Append(frames, new) \o others = frames \o (<<new>> \o others)
    <3>1. frames \in Seq(S) /\ new \in S /\ others \in Seq(S)
      BY <1>2, <2>5, <2>6
    <3> HIDE DEF S, new, others
    <3> QED BY <3>1, AppendConcat
  <2>8. g[next][1] = <<new>> \o others /\ g[next][2] = g[last + 1][2]
    BY <2>3
  <2> QED BY <1>1, <2>7, <2>8, Zenon
<1>4. FoundSoFar'
  <2>1. stream' = stream /\ arrived \in Nat /\ arrived' \in Nat /\ arrived <= arrived'
    BY <1>1, <1>2
  <2> QED BY <2>1, <1>3, FoundKept, Zenon
<1> QED BY <1>1, <1>4 DEF SplitInv, RestMayBecomeFrame

LEMMA ResynchronizeSplits ==
  ASSUME ScannerInv, SplitInv, Resynchronize
  PROVE  SplitInv'
<1>1. UNCHANGED <<stream, arrived, scanning, frames>> /\ scanning /\ next' = next + 1
  BY DEF Resynchronize
<1>2. /\ stream \in Seq(Bytes) /\ next \in 1..(arrived + 1) /\ arrived \in 0..Len(stream)
      /\ Len(stream) \in Nat
  BY StreamFacts DEF ScannerInv
<1>3. ASSUME NEW CONSTANT end \in arrived'..Len(stream), NEW CONSTANT g, Splits(g, 1, end)
      PROVE  /\ frames' \o g[next'][1] = frames \o g[next][1]
             /\ g[next'][2] = g[next][2]
  <2>1. end \in 0..Len(stream) /\ next \in 1..(end + 1) /\ arrived <= end
    BY <1>1, <1>2
  <2>2. BeginNone(end, next)
    <3>1. FrameEnd(next) \in Nat
      <4>1. next \in 1..Len(stream) /\ next + 4 <= Len(stream)
        BY <1>2 DEF Resynchronize, Rest, ShortestFrame
      <4> QED BY <1>2, <4>1, FrameEndBounds
    <3>2. ~(end - next + 1 < ShortestFrame)
      BY <1>2, <2>1 DEF Resynchronize, Rest, ShortestFrame
    <3>3. ~Known(next) \/ (FrameEnd(next) <= arrived /\ ~HasCrc(Frame(next)))
      BY DEF Resynchronize
    <3>4. FrameEnd(next) <= arrived => ~(FrameEnd(next) > end)
      BY <2>1, <3>1, <1>2
    <3> QED BY <3>2, <3>3, <3>4 DEF BeginNone
  <2>3. g[next] = g[next + 1]
    <3>1. g[next] = SplitFrom(g, end, next)
      BY <1>3, <2>1 DEF Splits
    <3> QED BY <2>2, <3>1, SplitSkips, Zenon
  <2> QED BY <1>1, <2>3
<1>4. FoundSoFar'
  <2>1. stream' = stream /\ arrived \in Nat /\ arrived' \in Nat /\ arrived <= arrived'
    BY <1>1, <1>2
  <2> QED BY <2>1, <1>3, FoundKept, Zenon
<1> QED BY <1>1, <1>4 DEF SplitInv, RestMayBecomeFrame

LEMMA WaitSplits ==
  ASSUME ScannerInv, SplitInv, Wait
  PROVE  SplitInv'
<1>1. UNCHANGED <<stream, arrived, next, frames>> /\ arrived \in Nat /\ next \in Nat
  BY StreamFacts DEF ScannerInv, Wait
<1>2. FoundSoFar'
  <2>1. stream' = stream /\ arrived' \in Nat /\ arrived <= arrived'
    BY <1>1
  <2>2. \A g : frames' \o g[next'][1] = frames \o g[next][1] /\ g[next'][2] = g[next][2]
    BY <1>1
  <2> QED BY <1>1, <2>1, <2>2, FoundKept, Zenon
<1>3. MayBecomeFrame(arrived, next)
  <2>1. Rest >= ShortestFrame \/ arrived - next + 1 < ShortestFrame
    BY <1>1 DEF Rest, ShortestFrame
  <2> QED BY <2>1 DEF Wait, MayBecomeFrame
<1>4. MayBecomeFrame(arrived, next)'
  <2>1. FrameEnd(next)' = FrameEnd(next) /\ ShortestFrame' = ShortestFrame
    BY <1>1 DEF FrameEnd, IsException, ShortestFrame
  <2>2. Known(next)' <=> Known(next)
    BY <1>1 DEF Known, IsException
  <2> QED BY <1>1, <1>3, <2>1, <2>2 DEF MayBecomeFrame
<1> QED BY <1>2, <1>4 DEF SplitInv, RestMayBecomeFrame

LEMMA StutterSplits ==
  ASSUME ScannerInv, SplitInv, UNCHANGED scannerVars
  PROVE  SplitInv'
<1>1. UNCHANGED <<stream, arrived, next, scanning, frames>> /\ arrived \in Nat
  BY StreamFacts DEF ScannerInv, scannerVars
<1>2. FoundSoFar'
  <2>1. stream' = stream /\ arrived' \in Nat /\ arrived <= arrived'
    BY <1>1
  <2>2. \A g : frames' \o g[next'][1] = frames \o g[next][1] /\ g[next'][2] = g[next][2]
    BY <1>1
  <2> QED BY <1>1, <2>1, <2>2, FoundKept, Zenon
<1>3. MayBecomeFrame(arrived, next)' <=> MayBecomeFrame(arrived, next)
  <2>1. FrameEnd(next)' = FrameEnd(next) /\ ShortestFrame' = ShortestFrame
    BY <1>1 DEF FrameEnd, IsException, ShortestFrame
  <2>2. Known(next)' <=> Known(next)
    BY <1>1 DEF Known, IsException
  <2> QED BY <1>1, <2>1, <2>2 DEF MayBecomeFrame
<1> QED BY <1>1, <1>2, <1>3 DEF SplitInv, RestMayBecomeFrame

\* Between two chunks splitting at once finds what the scanner has found, since it has a
\* splitting, and every splitting does.
LEMMA FoundAtOnce ==
  ASSUME ScannerInv, SplitInv
  PROVE  ChunksDoNotMatter
<1> SUFFICES ASSUME ~scanning PROVE <<frames, next>> = AtOnce(arrived)
  BY DEF ChunksDoNotMatter
<1>1. /\ stream \in Seq(Bytes) /\ arrived \in 0..Len(stream) /\ Len(stream) \in Nat
      /\ next \in 1..(arrived + 1) /\ frames \in Seq(Positions \X Positions)
  BY StreamFacts DEF ScannerInv, ScannerTypeOK
<1> DEFINE g == CHOOSE h : h = [p \in 1..(arrived + 1) |-> SplitFrom(h, arrived, p)]
<1>2. AtOnce(arrived) = g[1]
  BY DEF AtOnce
<1>3. Splits(g, 1, arrived)
  BY <1>1, SplitExists, Zenon DEF Splits
<1> HIDE DEF g
<1>4. g[1] = <<frames \o g[next][1], g[next][2]>>
  <2>1. arrived \in arrived..Len(stream)
    BY <1>1
  <2> QED BY <1>3, <2>1, Zenon DEF SplitInv, FoundSoFar
<1>5. g[next] = <<<<>>, next>>
  <2>1. g[next] = SplitFrom(g, arrived, next)
    BY <1>1, <1>3 DEF Splits
  <2>2. MayBecomeFrame(arrived, next)
    BY DEF SplitInv, RestMayBecomeFrame
  <2> QED BY <2>1, <2>2, SplitWaits, Zenon
<1>6. g[next][1] = <<>> /\ g[next][2] = next
  BY <1>5
<1>7. frames \o <<>> = frames
  BY <1>1
<1> QED BY <1>2, <1>4, <1>6, <1>7, Zenon

\* However a stream is cut between calls of split_rtu_frames, each getting the rest of the
\* one before and some more bytes, they find the frames and leave the rest that one call with
\* all those bytes would find and leave.  (The DTU server makes no second call.)
THEOREM CuttingDoesNotMatter == ScannerSpec => []ChunksDoNotMatter
<1>1. ScannerInv /\ SplitInv /\ [ScannerNext]_scannerVars => SplitInv'
  BY ReceiveSplits, AcceptSplits, ResynchronizeSplits, WaitSplits, StutterSplits
     DEF ScannerNext
<1> QED BY <1>1, InitSplits, FoundAtOnce, ScannerSafe, PTL DEF ScannerSpec

-----------------------------------------------------------------------------
(* Decoding.                                                                *)

LEMMA WordEven ==
  /\ Word \in Nat \ {0} /\ Word % 2 = 0
  /\ Word * Word \in Nat \ {0} /\ (Word * Word) % 2 = 0
<1>1. ASSUME NEW m \in Nat \ {0}, m % 2 = 0 PROVE m * m \in Nat \ {0} /\ (m * m) % 2 = 0
  <2>1. PICK h \in Nat \ {0} : m = 2 * h
    <3>1. m = 2 * (m \div 2) /\ m \div 2 \in Nat \ {0}
      BY <1>1
    <3> QED BY <3>1
  <2>2. h * m \in Nat \ {0}
    BY <2>1
  <2>3. m * m = 2 * (h * m)
    BY <2>1
  <2>4. \A k \in Nat \ {0} : 2 * k \in Nat \ {0} /\ (2 * k) % 2 = 0
    OBVIOUS
  <2> QED BY <2>2, <2>3, <2>4
<1>2. Word \in Nat \ {0} /\ Word % 2 = 0
  BY <1>1, ByteAssumption DEF Word
<1> HIDE DEF Word
<1> QED BY <1>1, <1>2

\* Two digits in base m.
LEMMA TwoDigits ==
  ASSUME NEW m \in Nat, NEW a \in 0..(m - 1), NEW b \in 0..(m - 1)
  PROVE  a * m + b \in 0..(m * m - 1)
<1>1. m - 1 - a \in Nat
  OBVIOUS
<1>2. (m - 1 - a) * m \in Nat
  BY <1>1
<1>3. (m - 1 - a) * m = m * m - m - a * m
  OBVIOUS
<1>4. a * m \in Nat /\ m * m \in Nat
  OBVIOUS
<1> QED BY <1>2, <1>3, <1>4

\* A number stands for what differs from it by the modulus.
LEMMA SignedMeaning ==
  ASSUME NEW m \in Nat \ {0}, m % 2 = 0, NEW v \in 0..(m - 1)
  PROVE  /\ Signed(v, m) \in -(m \div 2)..(-(m \div 2) + m - 1)
         /\ (Signed(v, m) - v) % m = 0
<1>1. m = 2 * (m \div 2) /\ m \div 2 \in Nat
  OBVIOUS
<1>2. Signed(v, m) = v \/ Signed(v, m) = v - m
  BY DEF Signed
<1>3. (v - v) % m = 0 /\ (v - m - v) % m = 0
  <2>1. v - v = 0 /\ v - m - v = -m
    OBVIOUS
  <2>2. 0 % m = 0 /\ (-m) % m = 0
    OBVIOUS
  <2> QED BY <2>1, <2>2
<1>4. Signed(v, m) \in -(m \div 2)..(-(m \div 2) + m - 1)
  BY <1>1 DEF Signed
<1> QED BY <1>2, <1>3, <1>4

\* Number counts on, byte by byte.
LEMMA NumberCounts ==
  ASSUME NEW p, NEW count \in {2, 4}
  PROVE  \E h : /\ Number(p, count) = h[count] /\ h[0] = 0
                /\ \A k \in 1..count : h[k] = h[k - 1] * ByteRange + stream[p + k - 1]
<1> DEFINE Counts(g) == g = [k \in 0..count |-> IF k = 0 THEN 0
                                                ELSE g[k - 1] * ByteRange + stream[p + k - 1]]
           one == 0 * ByteRange + stream[p + 1 - 1]
           two == one * ByteRange + stream[p + 2 - 1]
           three == two * ByteRange + stream[p + 3 - 1]
           four == three * ByteRange + stream[p + 4 - 1]
           value == [k \in 0..count |->
                       IF k = 0 THEN 0 ELSE IF k = 1 THEN one
                       ELSE IF k = 2 THEN two ELSE IF k = 3 THEN three ELSE four]
           h == CHOOSE g : Counts(g)
<1>1. Counts(value)
  <2>1. ASSUME NEW k \in 0..count
        PROVE  value[k] = IF k = 0 THEN 0 ELSE value[k - 1] * ByteRange + stream[p + k - 1]
    <3> HIDE DEF one, two, three, four
    <3>1. k = 0 \/ k = 1 \/ k = 2 \/ k = 3 \/ k = 4
      OBVIOUS
    <3>2. CASE k = 0
      BY <3>2
    <3>3. CASE k = 1
      BY <3>3 DEF one
    <3>4. CASE k = 2
      BY <3>4 DEF two
    <3>5. CASE k = 3
      BY <3>5 DEF three
    <3>6. CASE k = 4
      BY <3>6 DEF four
    <3> QED BY <3>1, <3>2, <3>3, <3>4, <3>5, <3>6
  <2> HIDE DEF one, two, three, four
  <2> QED BY <2>1
<1>2. Number(p, count) = h[count]
  BY DEF Number
<1> HIDE DEF value
<1>3. Counts(h)
  BY <1>1
<1> HIDE DEF h
<1>4. h[0] = 0 /\ \A k \in 1..count : h[k] = h[k - 1] * ByteRange + stream[p + k - 1]
  <2>1. ASSUME NEW k \in 0..count
        PROVE  h[k] = IF k = 0 THEN 0 ELSE h[k - 1] * ByteRange + stream[p + k - 1]
    BY <1>3
  <2>2. 0 \in 0..count /\ \A k \in 1..count : k \in 0..count /\ k # 0
    OBVIOUS
  <2> QED BY <2>1, <2>2
<1> QED BY <1>2, <1>4

\* Two bytes are a register, four are two of them.
LEMMA NumberOfRegisters ==
  ASSUME NEW p \in Nat, NEW a \in Nat, NEW place \in Nat, place = p + 3 + 2 * a
  PROVE  /\ (\A i \in 0..1 : stream[place + i] \in Bytes) =>
              /\ Number(place, 2) = Register(p, a)
              /\ Register(p, a) \in 0..(Word - 1)
         /\ (\A i \in 0..3 : stream[place + i] \in Bytes) =>
              /\ Number(place, 4) = Register(p, a) * Word + Register(p, a + 1)
              /\ Register(p, a) * Word + Register(p, a + 1) \in 0..(Word * Word - 1)
<1> DEFINE byte(i) == stream[place + i]
<1>1. /\ Register(p, a) = byte(0) * ByteRange + byte(1)
      /\ Register(p, a + 1) = byte(2) * ByteRange + byte(3)
  <2>1. /\ p + 3 + 2 * a = place + 0 /\ p + 4 + 2 * a = place + 1
        /\ p + 3 + 2 * (a + 1) = place + 2 /\ p + 4 + 2 * (a + 1) = place + 3
    OBVIOUS
  <2> QED BY <2>1, Zenon DEF Register
<1>2. /\ place + 1 - 1 = place + 0 /\ place + 2 - 1 = place + 1
      /\ place + 3 - 1 = place + 2 /\ place + 4 - 1 = place + 3
  OBVIOUS
<1> HIDE DEF byte
<1>3. ASSUME byte(0) \in Bytes, byte(1) \in Bytes
      PROVE  Register(p, a) \in 0..(Word - 1)
  BY <1>1, <1>3, ByteAssumption, TwoDigits DEF Bytes, Word
<1>4. ASSUME byte(2) \in Bytes, byte(3) \in Bytes
      PROVE  Register(p, a + 1) \in 0..(Word - 1)
  BY <1>1, <1>4, ByteAssumption, TwoDigits DEF Bytes, Word
<1>5. ASSUME byte(0) \in Bytes, byte(1) \in Bytes
      PROVE  Number(place, 2) = Register(p, a)
  <2>1. PICK h : /\ Number(place, 2) = h[2] /\ h[0] = 0
                 /\ \A k \in 1..2 : h[k] = h[k - 1] * ByteRange + stream[place + k - 1]
    BY NumberCounts
  <2>2. h[1] = h[1 - 1] * ByteRange + byte(0) /\ h[2] = h[2 - 1] * ByteRange + byte(1)
    BY <2>1, <1>2 DEF byte
  <2>3. h[1] = byte(0)
    BY <2>1, <2>2, <1>5, ByteAssumption DEF Bytes
  <2> QED BY <2>1, <2>2, <2>3, <1>1
<1>6. ASSUME byte(0) \in Bytes, byte(1) \in Bytes, byte(2) \in Bytes, byte(3) \in Bytes
      PROVE  Number(place, 4) = Register(p, a) * Word + Register(p, a + 1)
  <2>1. PICK h : /\ Number(place, 4) = h[4] /\ h[0] = 0
                 /\ \A k \in 1..4 : h[k] = h[k - 1] * ByteRange + stream[place + k - 1]
    BY NumberCounts
  <2>2. /\ h[1] = h[0] * ByteRange + byte(0) /\ h[2] = h[1] * ByteRange + byte(1)
        /\ h[3] = h[2] * ByteRange + byte(2) /\ h[4] = h[3] * ByteRange + byte(3)
    BY <2>1, <1>2 DEF byte
  <2>3. h[1] = byte(0)
    BY <2>1, <2>2, <1>6, ByteAssumption DEF Bytes
  <2>4. h[2] = Register(p, a)
    BY <2>2, <2>3, <1>1
  <2>5. ASSUME NEW B \in Nat, NEW r \in Nat, NEW x \in Nat, NEW y \in Nat
        PROVE  (r * B + x) * B + y = r * (B * B) + (x * B + y)
    OBVIOUS
  <2>6. Register(p, a) \in Nat /\ byte(2) \in Nat /\ byte(3) \in Nat /\ ByteRange \in Nat
    <3>1. Word \in Nat
      BY ByteAssumption DEF Word
    <3> QED BY <3>1, <1>3, <1>6, ByteAssumption DEF Bytes
  <2>7. h[4] = (Register(p, a) * ByteRange + byte(2)) * ByteRange + byte(3)
    BY <2>2, <2>4
  <2> QED BY <2>1, <2>5, <2>6, <2>7, <1>1 DEF Word
<1>7. ASSUME byte(0) \in Bytes, byte(1) \in Bytes, byte(2) \in Bytes, byte(3) \in Bytes
      PROVE  Register(p, a) * Word + Register(p, a + 1) \in 0..(Word * Word - 1)
  <2>1. Word \in Nat
    BY ByteAssumption DEF Word
  <2> QED BY <2>1, <1>3, <1>4, <1>7, TwoDigits
<1>9. /\ (\A i \in 0..1 : stream[place + i] \in Bytes) => byte(0) \in Bytes /\ byte(1) \in Bytes
      /\ (\A i \in 0..3 : stream[place + i] \in Bytes) =>
           byte(0) \in Bytes /\ byte(1) \in Bytes /\ byte(2) \in Bytes /\ byte(3) \in Bytes
  <2>1. 0 \in 0..1 /\ 1 \in 0..1 /\ 0 \in 0..3 /\ 1 \in 0..3 /\ 2 \in 0..3 /\ 3 \in 0..3
    OBVIOUS
  <2> QED BY <2>1, Zenon DEF byte
<1> QED BY <1>3, <1>5, <1>6, <1>7, <1>9

\* Where a register lies in the stream, and how many bytes it has.
PlaceOf(r) == r.frame + 3 + 2 * r.register.address
SizeOf(r) == 2 * WordsOf(r.register.type)

\* Frames that were found have arrived.
FramesHaveArrived ==
  \A k \in 1..Len(frames) : frames[k][1] \in Nat \ {0} /\ frames[k][2] \in 0..arrived

\* A reading was decoded from a register in the data of a frame that was found.
Sourced(r) ==
  /\ r.register \in RegisterMap
  /\ \E k \in 1..Len(frames) :
       frames[k][1] = r.frame /\ PlaceOf(r) + SizeOf(r) + 1 <= frames[k][2]
  /\ r.value = Decoded(r.register.type, r.frame, r.register.address)

DecodedInv == FramesHaveArrived /\ \A r \in readings : Sourced(r)

\* A reading stays while the frames only grow.
LEMMA SourcedStays ==
  ASSUME UNCHANGED stream, NEW CONSTANT r, Sourced(r), Len(frames) \in Nat, Len(frames') \in Nat,
         Len(frames) <= Len(frames'), \A k \in 1..Len(frames) : frames'[k] = frames[k]
  PROVE  Sourced(r)'
<1>1. Decoded(r.register.type, r.frame, r.register.address)'
        = Decoded(r.register.type, r.frame, r.register.address)
  BY DEF Decoded, Register
<1>2. /\ PlaceOf(r)' = PlaceOf(r) /\ SizeOf(r)' = SizeOf(r)
  BY DEF PlaceOf, SizeOf, WordsOf
<1>3. PICK k \in 1..Len(frames) :
        frames[k][1] = r.frame /\ PlaceOf(r) + SizeOf(r) + 1 <= frames[k][2]
  BY DEF Sourced
<1>4. k \in 1..Len(frames') /\ frames'[k] = frames[k]
  BY <1>3
<1> QED BY <1>1, <1>2, <1>3, <1>4, Zenon DEF Sourced

LEMMA InitDecodes == ScannerInit => DecodedInv
BY DEF ScannerInit, DecodedInv, FramesHaveArrived

LEMMA AcceptDecodes ==
  ASSUME ScannerInv, DecodedInv, Accept
  PROVE  DecodedInv'
<1> DEFINE last == FrameEnd(next)
<1>1. /\ UNCHANGED <<stream, arrived>> /\ last <= arrived /\ Known(next)
      /\ frames' = Append(frames, <<next, last>>)
      /\ readings' = readings \cup Decode(next)
  BY DEF Accept
<1>2. /\ stream \in Seq(Bytes) /\ next \in 1..Len(stream) /\ next + 4 <= Len(stream)
      /\ arrived \in Nat /\ Len(stream) \in Nat
  BY StreamFacts DEF ScannerInv, Accept, Rest, ShortestFrame
<1>3. last \in Nat
  BY <1>2, FrameEndBounds
<1>4. frames \in Seq(Positions \X Positions) /\ <<next, last>> \in Nat \X Nat
  BY <1>2, <1>3 DEF ScannerInv, ScannerTypeOK
<1>5. /\ Len(frames) \in Nat /\ Len(frames') = Len(frames) + 1
      /\ \A k \in 1..Len(frames) : frames'[k] = frames[k]
      /\ frames'[Len(frames) + 1] = <<next, last>>
  <2> HIDE DEF last
  <2> QED BY <1>1, <1>4
<1>6. FramesHaveArrived'
  <2> SUFFICES ASSUME NEW CONSTANT k \in 1..Len(frames')
               PROVE  frames'[k][1] \in Nat \ {0} /\ frames'[k][2] \in 0..arrived'
    BY DEF FramesHaveArrived
  <2> HIDE DEF last
  <2>1. CASE k = Len(frames) + 1
    BY <2>1, <1>1, <1>2, <1>3, <1>5
  <2>2. CASE k \in 1..Len(frames)
    BY <2>2, <1>1, <1>5 DEF DecodedInv, FramesHaveArrived
  <2> QED BY <2>1, <2>2, <1>5
<1>7. ASSUME NEW CONSTANT r \in readings PROVE Sourced(r)'
  <2>1. Sourced(r) /\ stream' = stream
    BY <1>1 DEF DecodedInv
  <2>2. Len(frames') \in Nat /\ Len(frames) <= Len(frames')
    BY <1>5
  <2> QED BY <1>5, <2>1, <2>2, SourcedStays
<1>9. ASSUME NEW CONSTANT r \in Decode(next) PROVE Sourced(r)'
  <2>1. ~IsException(next)
    BY DEF Decode
  <2>2. PICK g \in RegisterMap :
          /\ Fits(next, g)
          /\ r = [frame |-> next, register |-> g, value |-> Decoded(g.type, next, g.address)]
    BY <2>1 DEF Decode
  <2>3. /\ r.frame = next /\ r.register = g
        /\ r.value = Decoded(g.type, next, g.address)
    BY <2>2
  <2>4. g.address \in Nat /\ WordsOf(g.type) \in {1, 2}
    BY <2>2, RegisterAssumption DEF WordsOf
  <2>5. stream[next + 2] \in Nat
    <3>1. next + 2 \in 1..Len(stream)
      BY <1>2
    <3>2. stream[next + 2] \in 0..(ByteRange - 1)
      BY <1>2, <3>1, ElementInRange DEF Bytes
    <3> QED BY <3>2, ByteAssumption
  <2>6. last = next + (3 + stream[next + 2] + 2) - 1
    BY <2>1 DEF FrameEnd
  <2> HIDE DEF last
  <2>7. next + 3 + 2 * g.address + 2 * WordsOf(g.type) + 1 <= last
    <3>1. g.address + WordsOf(g.type) <= stream[next + 2] \div 2
      BY <2>2 DEF Fits
    <3>2. 2 * (stream[next + 2] \div 2) <= stream[next + 2]
      BY <2>5
    <3>3. stream[next + 2] \div 2 \in Nat /\ next \in Nat
      BY <1>2, <2>5
    <3> HIDE DEF last
    <3> QED BY <2>4, <2>5, <2>6, <3>1, <3>2, <3>3
  <2>8. Decoded(g.type, next, g.address) = Decoded(g.type, r.frame, g.address)'
    BY <1>1, <2>3 DEF Decoded, Register
  <2>9. \E k \in 1..Len(frames') :
          frames'[k][1] = r.frame /\ PlaceOf(r)' + SizeOf(r)' + 1 <= frames'[k][2]
    <3>1. Len(frames) + 1 \in 1..Len(frames')
      BY <1>5
    <3>2. PlaceOf(r)' = next + 3 + 2 * g.address /\ SizeOf(r)' = 2 * WordsOf(g.type)
      BY <2>3 DEF PlaceOf, SizeOf, WordsOf
    <3> QED BY <1>5, <2>3, <2>7, <3>1, <3>2
  <2> QED BY <2>2, <2>3, <2>8, <2>9, Zenon DEF Sourced
<1> QED BY <1>1, <1>6, <1>7, <1>9 DEF DecodedInv

\* The other steps find nothing and decode nothing.
LEMMA OthersDecode ==
  ASSUME ScannerInv, DecodedInv, UNCHANGED <<stream, frames, readings>>,
         arrived \in Nat, arrived' \in Nat, arrived <= arrived'
  PROVE  DecodedInv'
<1>1. Len(frames) \in Nat
  BY DEF ScannerInv, ScannerTypeOK
<1>2. FramesHaveArrived'
  BY DEF DecodedInv, FramesHaveArrived
<1>3. ASSUME NEW CONSTANT r \in readings PROVE Sourced(r)'
  <2>1. Sourced(r) /\ Len(frames') \in Nat /\ Len(frames) <= Len(frames')
    BY <1>1 DEF DecodedInv
  <2> QED BY <2>1, <1>1, SourcedStays
<1> QED BY <1>2, <1>3 DEF DecodedInv

\* What ReadingsAreMeant says of one reading.
ModulusOf(r) == IF SizeOf(r) = 2 THEN Word ELSE Word * Word
LowOf(r) == IF r.register.type \in {"int16", "int32"} THEN -(ModulusOf(r) \div 2) ELSE 0
Meant(r) ==
  /\ (r.value - Number(PlaceOf(r), SizeOf(r))) % ModulusOf(r) = 0
  /\ r.value \in LowOf(r)..(LowOf(r) + ModulusOf(r) - 1)
  /\ \E k \in 1..Len(frames) :
       frames[k][1] = r.frame /\ PlaceOf(r) + SizeOf(r) + 1 <= frames[k][2]

\* What a frame says at a register is the number its bytes mean.
LEMMA SourcedIsMeant ==
  ASSUME ScannerInv, DecodedInv
  PROVE  ReadingsAreMeant
<1> SUFFICES ASSUME NEW r \in readings PROVE Meant(r)
  BY Zenon DEF ReadingsAreMeant, Meant, ModulusOf, LowOf, PlaceOf, SizeOf
<1> DEFINE type == r.register.type
           address == r.register.address
           place == PlaceOf(r)
<1>1. Sourced(r)
  BY DEF DecodedInv
<1>2. type \in Types /\ address \in Nat
  BY <1>1, RegisterAssumption DEF Sourced
<1>3. PICK k \in 1..Len(frames) : frames[k][1] = r.frame /\ place + SizeOf(r) + 1 <= frames[k][2]
  BY <1>1 DEF Sourced
<1>4. r.frame \in Nat \ {0} /\ frames[k][2] \in 0..arrived
  BY <1>3 DEF DecodedInv, FramesHaveArrived
<1>5. stream \in Seq(Bytes) /\ Len(stream) \in Nat /\ arrived \in 0..Len(stream)
  BY StreamFacts DEF ScannerInv
<1>6. place = r.frame + 3 + 2 * address /\ place \in Nat \ {0}
  <2>1. \A f \in Nat \ {0}, a \in Nat : f + 3 + 2 * a \in Nat \ {0}
    OBVIOUS
  <2> QED BY <1>2, <1>4, <2>1, Zenon DEF PlaceOf
<1>7. r.value = Decoded(type, r.frame, address)
  BY <1>1 DEF Sourced
<1> HIDE DEF place
<1>8. ASSUME NEW i \in Nat, i <= SizeOf(r) PROVE place + i \in 1..Len(stream)
  <2>1. SizeOf(r) \in Nat
    BY DEF SizeOf, WordsOf
  <2> DEFINE last == frames[k][2]
  <2>2. last \in 0..arrived /\ place + SizeOf(r) + 1 <= last
    BY <1>3, <1>4
  <2> HIDE DEF last
  <2> QED BY <1>5, <1>6, <1>8, <2>1, <2>2
<1>9. CASE type \in {"uint16", "int16"}
  <2>1. SizeOf(r) = 2 /\ ModulusOf(r) = Word
    BY <1>9 DEF SizeOf, ModulusOf, WordsOf
  <2>2. ASSUME NEW i \in 0..1 PROVE stream[place + i] \in Bytes
    <3>1. place + i \in 1..Len(stream)
      BY <1>8, <2>1
    <3> QED BY <1>5, <3>1, ElementInRange
  <2> DEFINE v == Register(r.frame, address)
  <2>3. Number(place, 2) = v /\ v \in 0..(Word - 1)
    BY <1>2, <1>4, <1>6, <2>2, NumberOfRegisters
  <2>4. r.value = IF type = "int16" THEN Signed(v, Word) ELSE v
    BY <1>7, <1>9 DEF Decoded
  <2> HIDE DEF v
  <2>5. /\ Signed(v, Word) \in -(Word \div 2)..(-(Word \div 2) + Word - 1)
        /\ (Signed(v, Word) - v) % Word = 0
    BY <2>3, WordEven, SignedMeaning
  <2>6. (v - v) % Word = 0
    <3>1. v - v = 0 /\ 0 % Word = 0
      BY <2>3, WordEven
    <3> QED BY <3>1
  <2>7. CASE type = "int16"
    <3>1. r.value = Signed(v, Word) /\ LowOf(r) = -(Word \div 2)
      BY <2>1, <2>4, <2>7 DEF LowOf
    <3> QED BY <1>3, <2>1, <2>3, <2>5, <3>1, Zenon DEF Meant, place
  <2>8. CASE type = "uint16"
    <3>1. r.value = v /\ LowOf(r) = 0 /\ v \in 0..(0 + Word - 1)
      BY <2>3, <2>4, <2>8, WordEven DEF LowOf
    <3> QED BY <1>3, <2>1, <2>3, <2>6, <3>1, Zenon DEF Meant, place
  <2> QED BY <1>9, <2>7, <2>8
<1>10. CASE type \in {"uint32", "int32"}
  <2>1. SizeOf(r) = 4 /\ ModulusOf(r) = Word * Word
    BY <1>10 DEF SizeOf, ModulusOf, WordsOf
  <2>2. ASSUME NEW i \in 0..3 PROVE stream[place + i] \in Bytes
    <3>1. place + i \in 1..Len(stream)
      BY <1>8, <2>1
    <3> QED BY <1>5, <3>1, ElementInRange
  <2> DEFINE v == Register(r.frame, address) * Word + Register(r.frame, address + 1)
             m == Word * Word
  <2>3. Number(place, 4) = v /\ v \in 0..(m - 1)
    BY <1>2, <1>4, <1>6, <2>2, NumberOfRegisters
  <2>4. r.value = IF type = "int32" THEN Signed(v, m) ELSE v
    BY <1>7, <1>10 DEF Decoded
  <2>5. m \in Nat \ {0} /\ m % 2 = 0
    BY WordEven
  <2> HIDE DEF v, m
  <2>6. /\ Signed(v, m) \in -(m \div 2)..(-(m \div 2) + m - 1)
        /\ (Signed(v, m) - v) % m = 0
    BY <2>3, <2>5, SignedMeaning
  <2>7. (v - v) % m = 0
    <3>1. v - v = 0 /\ 0 % m = 0
      BY <2>3, <2>5
    <3> QED BY <3>1
  <2>8. CASE type = "int32"
    <3>1. r.value = Signed(v, m) /\ LowOf(r) = -(m \div 2)
      BY <2>1, <2>4, <2>8 DEF LowOf, m
    <3> QED BY <1>3, <2>1, <2>3, <2>6, <3>1, Zenon DEF Meant, m, place
  <2>9. CASE type = "uint32"
    <3>1. r.value = v /\ LowOf(r) = 0 /\ v \in 0..(0 + m - 1)
      BY <2>3, <2>4, <2>5, <2>9 DEF LowOf
    <3> QED BY <1>3, <2>1, <2>3, <2>7, <3>1, Zenon DEF Meant, m, place
  <2> QED BY <1>10, <2>8, <2>9
<1> QED BY <1>2, <1>9, <1>10 DEF Types

\* _decode_frame decodes registers of frames that were found to the numbers their bytes
\* mean, in two's complement and within the range of the type, for every width of a byte.
THEOREM DecodedIsMeant == ScannerSpec => []ReadingsAreMeant
<1>1. ScannerInv /\ DecodedInv /\ [ScannerNext]_scannerVars => DecodedInv'
  <2> SUFFICES ASSUME ScannerInv, DecodedInv, [ScannerNext]_scannerVars PROVE DecodedInv'
    OBVIOUS
  <2>1. arrived \in Nat
    BY StreamFacts DEF ScannerInv
  <2>2. CASE Accept
    BY <2>2, AcceptDecodes
  <2>3. ASSUME NEW n \in 1..Len(stream), Call(n) PROVE DecodedInv'
    <3>1. /\ UNCHANGED <<stream, frames, readings>>
          /\ arrived' \in Nat /\ arrived <= arrived'
      BY <2>1, <2>3 DEF Call
    <3> QED BY <2>1, <3>1, OthersDecode
  <2>4. CASE Resynchronize \/ Wait \/ UNCHANGED scannerVars
    <3>1. /\ UNCHANGED <<stream, frames, readings>>
          /\ arrived' \in Nat /\ arrived <= arrived'
      BY <2>1, <2>4 DEF Resynchronize, Wait, scannerVars
    <3> QED BY <2>1, <3>1, OthersDecode
  <2> QED BY <2>2, <2>3, <2>4 DEF ScannerNext
<1> QED BY <1>1, InitDecodes, SourcedIsMeant, ScannerSafe, PTL DEF ScannerSpec

-----------------------------------------------------------------------------
(* The server: the readings after h wait in the batch b and the queue q.    *)

InPlace(b, q, h) ==
  /\ \A i \in 1..Len(b) : b[i] = h + i
  /\ \A i \in 1..Len(q) : q[i] = h + Len(b) + i

\* Of the readings up to h, x were left out, d dropped, and the others stored.
Before(A, B) == \A a \in A, b \in B : a < b
Ascending(s) == \A i, j \in 1..Len(s) : i < j => s[i] < s[j]
HandledOnce(h, s, x, d) ==
  /\ Ascending(s)
  /\ ElementsOf(s) \cup x \cup d = 1..h
  /\ x \cap (ElementsOf(s) \cup d) = {}

LEMMA WaitingInPlace ==
  ASSUME NEW S, NEW b \in Seq(S), NEW q \in Seq(S), NEW h \in Int
  PROVE  /\ Len(b \o q) = Len(b) + Len(q)
         /\ InPlace(b, q, h) <=> b \o q = [i \in 1..Len(b \o q) |-> h + i]
<1> DEFINE w == b \o q
<1>1. /\ w \in Seq(S) /\ Len(b) \in Nat /\ Len(q) \in Nat
      /\ Len(w) = Len(b) + Len(q)
      /\ \A i \in 1..(Len(b) + Len(q)) :
           w[i] = IF i <= Len(b) THEN b[i] ELSE q[i - Len(b)]
  BY ConcatProperties
<1> HIDE DEF w
<1>2. w = [i \in 1..Len(w) |-> w[i]]
  BY <1>1
<1>3. ASSUME InPlace(b, q, h), NEW i \in 1..Len(w)
      PROVE  w[i] = h + i
  <2>1. CASE i <= Len(b)
    BY <1>1, <1>3, <2>1 DEF InPlace
  <2>2. CASE ~(i <= Len(b))
    <3>1. i - Len(b) \in 1..Len(q) /\ w[i] = q[i - Len(b)]
      BY <1>1, <2>2
    <3>2. q[i - Len(b)] = h + Len(b) + (i - Len(b))
      BY <1>3, <3>1 DEF InPlace
    <3> QED BY <1>1, <3>1, <3>2
  <2> QED BY <2>1, <2>2
<1>4. ASSUME \A i \in 1..Len(w) : w[i] = h + i
      PROVE  InPlace(b, q, h)
  <2>1. ASSUME NEW i \in 1..Len(b)
        PROVE  b[i] = h + i
    BY <1>1, <1>4
  <2>2. ASSUME NEW i \in 1..Len(q)
        PROVE  q[i] = h + Len(b) + i
    <3>1. /\ Len(b) + i \in 1..(Len(b) + Len(q)) /\ ~(Len(b) + i <= Len(b))
          /\ Len(b) + i - Len(b) = i /\ h + (Len(b) + i) = h + Len(b) + i
      BY <1>1
    <3>2. w[Len(b) + i] = q[i]
      BY <1>1, <3>1
    <3> QED BY <1>1, <1>4, <3>1, <3>2
  <2> QED BY <2>1, <2>2 DEF InPlace
<1>5. InPlace(b, q, h) <=> \A i \in 1..Len(w) : w[i] = h + i
  BY <1>3, <1>4
<1>6. (\A i \in 1..Len(w) : w[i] = h + i) <=> w = [i \in 1..Len(w) |-> h + i]
  BY <1>2
<1>7. Len(w) = Len(b) + Len(q) /\ (InPlace(b, q, h) <=> w = [i \in 1..Len(w) |-> h + i])
  BY <1>1, <1>5, <1>6
<1> QED BY <1>7 DEF w

\* What is decoded next goes behind what is waiting.
LEMMA DecodedInPlace ==
  ASSUME NEW S, NEW b \in Seq(S), NEW q \in Seq(S), NEW h \in Nat, InPlace(b, q, h),
         NEW m \in Seq(S), \A i \in 1..Len(m) : m[i] = h + Len(b) + Len(q) + i
  PROVE  InPlace(b, q \o m, h)
<1> DEFINE w == q \o m
<1>1. /\ Len(b) \in Nat /\ Len(q) \in Nat /\ Len(m) \in Nat
      /\ Len(w) = Len(q) + Len(m)
      /\ \A i \in 1..(Len(q) + Len(m)) :
           w[i] = IF i <= Len(q) THEN q[i] ELSE m[i - Len(q)]
  BY ConcatProperties
<1> HIDE DEF w
<1>2. ASSUME NEW i \in 1..Len(w)
      PROVE  w[i] = h + Len(b) + i
  <2>1. CASE i <= Len(q)
    <3>1. i \in 1..Len(q) /\ w[i] = q[i]
      BY <1>1, <2>1
    <3> QED BY <3>1 DEF InPlace
  <2>2. CASE ~(i <= Len(q))
    <3>1. i - Len(q) \in 1..Len(m) /\ w[i] = m[i - Len(q)]
      BY <1>1, <2>2
    <3>2. m[i - Len(q)] = h + Len(b) + Len(q) + (i - Len(q))
      BY <3>1
    <3> QED BY <1>1, <3>1, <3>2
  <2> QED BY <2>1, <2>2
<1>3. InPlace(b, w, h)
  BY <1>2 DEF InPlace
<1> QED BY <1>3 DEF w

\* The consumer takes the reading that has waited longest.
LEMMA TakenInPlace ==
  ASSUME NEW S, NEW b \in Seq(S), NEW q \in Seq(S), q # <<>>, NEW h \in Nat,
         InPlace(b, q, h)
  PROVE  /\ Append(b, Head(q)) \in Seq(S) /\ Tail(q) \in Seq(S)
         /\ Len(Append(b, Head(q))) + Len(Tail(q)) = Len(b) + Len(q)
         /\ InPlace(Append(b, Head(q)), Tail(q), h)
<1>1. /\ Len(b) \in Nat /\ Len(q) \in Nat \ {0}
      /\ Head(q) \in S /\ Head(q) = q[1]
      /\ Append(b, Head(q)) \in Seq(S) /\ Tail(q) \in Seq(S)
      /\ Len(Append(b, Head(q))) = Len(b) + 1 /\ Len(Tail(q)) = Len(q) - 1
      /\ \A i \in 1..Len(b) : Append(b, Head(q))[i] = b[i]
      /\ Append(b, Head(q))[Len(b) + 1] = Head(q)
  OBVIOUS
<1>2. \A i \in 1..Len(Tail(q)) : Tail(q)[i] = q[i + 1]
  OBVIOUS
<1>3. ASSUME NEW i \in 1..(Len(b) + 1)
      PROVE  Append(b, Head(q))[i] = h + i
  <2>1. CASE i \in 1..Len(b)
    BY <1>1, <2>1 DEF InPlace
  <2>2. CASE i = Len(b) + 1
    BY <1>1, <2>2 DEF InPlace
  <2> QED BY <1>1, <2>1, <2>2
<1>4. ASSUME NEW i \in 1..Len(Tail(q))
      PROVE  Tail(q)[i] = h + (Len(b) + 1) + i
  <2>1. i + 1 \in 1..Len(q)
    BY <1>1
  <2>2. q[i + 1] = h + Len(b) + (i + 1)
    BY <2>1 DEF InPlace
  <2> QED BY <1>1, <1>2, <2>2
<1> QED BY <1>1, <1>3, <1>4 DEF InPlace

\* What is in the batch becomes handled, in its place.
LEMMA BatchInPlace ==
  ASSUME NEW S, NEW b \in Seq(S), NEW q \in Seq(S), NEW h \in Nat, InPlace(b, q, h)
  PROVE  InPlace(<<>>, q, h + Len(b))
<1>1. Len(b) \in Nat /\ Len(q) \in Nat /\ Len(<<>>) = 0
  OBVIOUS
<1> QED BY <1>1 DEF InPlace

LEMMA NoLength == Len(<<>>) = 0
OBVIOUS

LEMMA NumberedSequence ==
  ASSUME NEW S, NEW k \in Nat, NEW h \in Nat, \A i \in 1..k : h + i \in S,
         NEW m, m = [i \in 1..k |-> h + i]
  PROVE  m \in Seq(S) /\ Len(m) = k /\ \A i \in 1..k : m[i] = h + i
<1>1. m \in [1..k -> S]
  OBVIOUS
<1>2. m \in Seq(S)
  BY <1>1, SeqDef
<1>3. DOMAIN m = 1..k /\ DOMAIN m = 1..Len(m) /\ Len(m) \in Nat
  BY <1>2
<1>4. Len(m) = k
  BY <1>3
<1> QED BY <1>2, <1>4

LEMMA ElementsAt ==
  ASSUME NEW S, NEW s \in Seq(S)
  PROVE  /\ \A i \in 1..Len(s) : s[i] \in ElementsOf(s)
         /\ \A e \in ElementsOf(s) : \E i \in 1..Len(s) : s[i] = e
BY DEF ElementsOf

\* Whatever is written of a batch goes behind what was stored before.
LEMMA WrittenBehind ==
  ASSUME NEW S, NEW s \in Seq(S), NEW k \in Seq(S), NEW w, w = s \o k,
         Ascending(s), Ascending(k), Before(ElementsOf(s), ElementsOf(k))
  PROVE  w \in Seq(S) /\ Ascending(w) /\ ElementsOf(w) = ElementsOf(s) \cup ElementsOf(k)
<1>1. /\ w \in Seq(S) /\ Len(s) \in Nat /\ Len(k) \in Nat
      /\ Len(w) = Len(s) + Len(k)
      /\ \A i \in 1..(Len(s) + Len(k)) :
           w[i] = IF i <= Len(s) THEN s[i] ELSE k[i - Len(s)]
  BY ConcatProperties
<1>2. ASSUME NEW i \in 1..Len(s)
      PROVE  i \in 1..Len(w) /\ w[i] = s[i]
  BY <1>1
<1>3. ASSUME NEW i \in 1..Len(k)
      PROVE  Len(s) + i \in 1..Len(w) /\ w[Len(s) + i] = k[i]
  <2>1. /\ Len(s) + i \in 1..(Len(s) + Len(k)) /\ ~(Len(s) + i <= Len(s))
        /\ Len(s) + i - Len(s) = i
    BY <1>1
  <2> QED BY <1>1, <2>1
<1>4. ASSUME NEW i \in 1..Len(w), ~(i <= Len(s))
      PROVE  /\ i - Len(s) \in 1..Len(k) /\ w[i] = k[i - Len(s)]
             /\ w[i] \in ElementsOf(k)
  <2>1. i - Len(s) \in 1..Len(k) /\ w[i] = k[i - Len(s)]
    BY <1>1, <1>4
  <2> QED BY <2>1, ElementsAt
<1>5. ASSUME NEW i \in 1..Len(w), i <= Len(s)
      PROVE  i \in 1..Len(s) /\ w[i] = s[i] /\ w[i] \in ElementsOf(s)
  <2>1. i \in 1..Len(s) /\ w[i] = s[i]
    BY <1>1, <1>5
  <2> QED BY <2>1, ElementsAt
<1>6. Ascending(w)
  <2> SUFFICES ASSUME NEW i \in 1..Len(w), NEW j \in 1..Len(w), i < j
               PROVE  w[i] < w[j]
    BY DEF Ascending
  <2>1. CASE j <= Len(s)
    <3>1. i <= Len(s)
      BY <1>1, <2>1
    <3> QED BY <1>5, <2>1, <3>1 DEF Ascending
  <2>2. CASE ~(j <= Len(s)) /\ i <= Len(s)
    <3>1. w[i] \in ElementsOf(s) /\ w[j] \in ElementsOf(k)
      BY <1>4, <1>5, <2>2
    <3> QED BY <3>1 DEF Before
  <2>3. CASE ~(i <= Len(s))
    <3>1. ~(j <= Len(s))
      BY <1>1, <2>3
    <3>2. /\ i - Len(s) \in 1..Len(k) /\ w[i] = k[i - Len(s)]
          /\ j - Len(s) \in 1..Len(k) /\ w[j] = k[j - Len(s)]
      BY <1>4, <2>3, <3>1
    <3>3. i - Len(s) < j - Len(s)
      BY <1>1
    <3> QED BY <3>2, <3>3 DEF Ascending
  <2> QED BY <2>1, <2>2, <2>3
<1>7. ASSUME NEW e \in ElementsOf(w)
      PROVE  e \in ElementsOf(s) \cup ElementsOf(k)
  <2>1. PICK i \in 1..Len(w) : w[i] = e
    BY <1>1, ElementsAt
  <2> QED BY <1>4, <1>5, <2>1
<1>8. ASSUME NEW e \in ElementsOf(s) \cup ElementsOf(k)
      PROVE  e \in ElementsOf(w)
  <2>1. \A i \in 1..Len(w) : w[i] \in ElementsOf(w)
    BY <1>1, ElementsAt
  <2>2. CASE e \in ElementsOf(s)
    <3>1. PICK i \in 1..Len(s) : s[i] = e
      BY <2>2, ElementsAt
    <3> QED BY <1>2, <2>1, <3>1
  <2>3. CASE e \in ElementsOf(k)
    <3>1. PICK i \in 1..Len(k) : k[i] = e
      BY <2>3, ElementsAt
    <3> QED BY <1>3, <2>1, <3>1
  <2> QED BY <1>8, <2>2, <2>3
<1> QED BY <1>1, <1>6, <1>7, <1>8

\* A batch is handled when each of its readings was written, left out or dropped.
LEMMA BatchHandled ==
  ASSUME NEW S, NEW s \in Seq(S), NEW k \in Seq(S), NEW h \in Nat, NEW n \in Nat,
         NEW x, NEW d, HandledOnce(h, s, x, d), Ascending(k),
         NEW y, NEW c, ElementsOf(k) \cup y \cup c = (h + 1)..(h + n),
         y \cap (ElementsOf(k) \cup c) = {}, NEW w, w = s \o k
  PROVE  w \in Seq(S) /\ HandledOnce(h + n, w, x \cup y, d \cup c)
<1>1. Ascending(s) /\ ElementsOf(s) \subseteq 1..h /\ ElementsOf(k) \subseteq (h + 1)..(h + n)
  BY DEF HandledOnce
<1>2. w \in Seq(S) /\ Ascending(w) /\ ElementsOf(w) = ElementsOf(s) \cup ElementsOf(k)
  <2>1. Before(ElementsOf(s), ElementsOf(k))
    BY <1>1 DEF Before
  <2>2. s \in Seq(S) /\ k \in Seq(S) /\ w = s \o k /\ Ascending(s) /\ Ascending(k)
    BY <1>1
  <2>3. w \in Seq(S)
    BY <2>1, <2>2, WrittenBehind
  <2>4. Ascending(w)
    BY <2>1, <2>2, WrittenBehind
  <2>5. ElementsOf(w) = ElementsOf(s) \cup ElementsOf(k)
    BY <2>1, <2>2, WrittenBehind
  <2> QED BY <2>3, <2>4, <2>5
<1>3. /\ 1..(h + n) = 1..h \cup (h + 1)..(h + n)
      /\ 1..h \cap (h + 1)..(h + n) = {}
  OBVIOUS
<1>4. ElementsOf(w) \cup (x \cup y) \cup (d \cup c) = 1..(h + n)
  BY <1>2, <1>3 DEF HandledOnce
<1>5. (x \cup y) \cap (ElementsOf(w) \cup (d \cup c)) = {}
  <2>1. x \subseteq 1..h /\ d \subseteq 1..h /\ x \cap (ElementsOf(s) \cup d) = {}
    BY DEF HandledOnce
  <2>2. y \subseteq (h + 1)..(h + n) /\ c \subseteq (h + 1)..(h + n)
    OBVIOUS
  <2> QED BY <1>1, <1>2, <1>3, <2>1, <2>2
<1> QED BY <1>2, <1>4, <1>5 DEF HandledOnce

\* What is kept of a batch keeps its order.
LEMMA KeptInOrder ==
  ASSUME NEW S, NEW b \in Seq(S), NEW h \in Nat, \A i \in 1..Len(b) : b[i] = h + i,
         NEW k \in SubSequences(b)
  PROVE  k \in Seq(S) /\ Ascending(k) /\ ElementsOf(k) \subseteq (h + 1)..(h + Len(b))
<1>1. Len(b) \in Nat /\ DOMAIN b = 1..Len(b) /\ \A i \in DOMAIN b : b[i] \in S
  OBVIOUS
<1>2. PICK n \in 0..Len(b) : k \in {[i \in 1..n |-> b[f[i]]] : f \in Choices(b, n)}
  BY DEF SubSequences
<1>3. PICK f \in Choices(b, n) : k = [i \in 1..n |-> b[f[i]]]
  BY <1>2
<1>4. /\ n \in Nat /\ f \in [1..n -> 1..Len(b)]
      /\ \A i, j \in 1..n : i < j => f[i] < f[j]
  BY <1>1 DEF Choices
<1>5. k \in [1..n -> S]
  BY <1>1, <1>3, <1>4
<1>6. k \in Seq(S) /\ Len(k) = n
  <2>1. k \in Seq(S)
    BY <1>4, <1>5, SeqDef
  <2>2. DOMAIN k = 1..n /\ DOMAIN k = 1..Len(k) /\ Len(k) \in Nat
    BY <1>5, <2>1
  <2> QED BY <1>4, <2>1, <2>2
<1>7. \A i \in 1..n : f[i] \in 1..Len(b) /\ k[i] = h + f[i]
  BY <1>3, <1>4
<1>8. \A i, j \in 1..n : i < j => k[i] < k[j]
  <2> TAKE i, j \in 1..n
  <2> HAVE i < j
  <2>1. f[i] < f[j] /\ f[i] \in 1..Len(b) /\ f[j] \in 1..Len(b)
    BY <1>4, <1>7
  <2> QED BY <1>1, <1>7, <2>1
<1>9. \A i \in 1..n : k[i] \in (h + 1)..(h + Len(b))
  BY <1>1, <1>7
<1>10. ElementsOf(k) \subseteq (h + 1)..(h + Len(b))
  BY <1>6, <1>9 DEF ElementsOf
<1> QED BY <1>6, <1>8, <1>10 DEF Ascending

\* The readings of a batch are the ones whose turn it is.
LEMMA BatchElements ==
  ASSUME NEW S, NEW b \in Seq(S), NEW h \in Nat, \A i \in 1..Len(b) : b[i] = h + i
  PROVE  ElementsOf(b) = (h + 1)..(h + Len(b))
<1>1. Len(b) \in Nat /\ DOMAIN b = 1..Len(b)
  OBVIOUS
<1>2. ASSUME NEW e \in (h + 1)..(h + Len(b))
      PROVE  e \in ElementsOf(b)
  <2>1. e - h \in 1..Len(b) /\ h + (e - h) = e
    BY <1>1
  <2>2. b[e - h] = e
    BY <2>1
  <2> QED BY <1>1, <2>1, <2>2 DEF ElementsOf
<1>3. \A i \in 1..Len(b) : h + i \in (h + 1)..(h + Len(b))
  BY <1>1
<1> QED BY <1>1, <1>2, <1>3 DEF ElementsOf

-----------------------------------------------------------------------------
(* The server's inductive invariant.                                        *)

ConnectionsOK ==
  /\ expected \subseteq Dtus /\ ports \subseteq Dtus \ expected
  /\ \A d \in Dtus : conn[d] = "open" => d \in ports
  /\ conn \in [Dtus -> {"none", "open"}]
  /\ buffer \in [Dtus -> [type : {"bytearray", "bytes"}, halves : 0..1]]
  /\ connects \in 0..MaxConnects

QueuesOK ==
  /\ decoded \in 0..MaxReadings
  /\ queue \in Seq(1..MaxReadings)
  /\ batch \in Seq(1..MaxReadings)
  /\ Len(batch) <= BatchSize
  /\ stored \in Seq(1..MaxReadings)
  /\ skipped \cup dropped \subseteq 1..MaxReadings

PhasesOK ==
  /\ consumer \in {"none", "collecting", "ingesting", "exited"}
  /\ phase \in {"starting", "running", "closing", "stopped", "failed"}
  /\ phase \in {"starting", "failed"} => consumer = "none"

\* The reading in each place of batch and queue is the one whose turn it is, and those
\* before them were handled once.
Turn == decoded - (Len(batch) + Len(queue))
InTurn ==
  /\ Turn \in Nat
  /\ InPlace(batch, queue, Turn)
  /\ HandledOnce(Turn, stored, skipped, dropped)

\* Nothing is taken before there is a consumer.
NothingTaken ==
  consumer = "none" => batch = <<>> /\ stored = <<>> /\ skipped = {} /\ dropped = {}

ServerInv == ConnectionsOK /\ QueuesOK /\ PhasesOK /\ InTurn /\ NothingTaken

LEMMA TypeOKParts == TypeOK <=> ConnectionsOK /\ QueuesOK /\ PhasesOK
BY DEF TypeOK, ConnectionsOK, QueuesOK, PhasesOK

LEMMA Lengths ==
  ASSUME QueuesOK
  PROVE  /\ Len(batch) \in Nat /\ Len(queue) \in Nat /\ decoded \in Nat
         /\ Turn \in Int /\ DOMAIN stored = 1..Len(stored)
BY BoundsAssumption DEF QueuesOK, Turn

\* What a step leaves alone.
LEMMA ConnectionsStay ==
  ASSUME ConnectionsOK, UNCHANGED <<connVars, startVars>>
  PROVE  ConnectionsOK'
BY DEF ConnectionsOK, connVars, startVars

LEMMA QueuesStay ==
  ASSUME QueuesOK, InTurn, UNCHANGED <<queueVars, batch, stored, skipped, dropped>>
  PROVE  QueuesOK' /\ InTurn'
<1>1. QueuesOK'
  BY DEF QueuesOK, queueVars
<1>2. Turn' = Turn
  BY DEF Turn, queueVars
<1> QED BY <1>1, <1>2 DEF InTurn, queueVars

LEMMA TakenStays ==
  ASSUME NothingTaken, UNCHANGED <<batch, stored, skipped, dropped>>,
         consumer = "none" \/ consumer' # "none"
  PROVE  NothingTaken'
BY DEF NothingTaken

LEMMA PhasesStay ==
  ASSUME PhasesOK, UNCHANGED <<consumer, phase>>
  PROVE  PhasesOK'
BY DEF PhasesOK

LEMMA InitInTurn == Init => ServerInv
<1> SUFFICES ASSUME Init
             PROVE  ServerInv
  OBVIOUS
<1>1. NewBuffer \in [type : {"bytearray", "bytes"}, halves : 0..1]
  BY DEF NewBuffer
<1>2. ConnectionsOK
  BY <1>1, BoundsAssumption DEF Init, ConnectionsOK
<1>3. QueuesOK
  BY BoundsAssumption, BatchAssumption DEF Init, QueuesOK
<1>4. PhasesOK
  BY DEF Init, PhasesOK
<1>5. Turn = 0
  <2>1. Len(batch) = 0 /\ Len(queue) = 0 /\ decoded = 0
    BY NoLength DEF Init
  <2> QED BY <2>1 DEF Turn
<1>6. InTurn
  BY <1>5 DEF Init, InTurn, InPlace, HandledOnce, Ascending, ElementsOf
<1> QED BY <1>2, <1>3, <1>4, <1>6 DEF ServerInv, NothingTaken, Init

-----------------------------------------------------------------------------
(* The start and the stop.                                                  *)

LEMMA StartStepKeeps ==
  ASSUME ServerInv, StartStep
  PROVE  ServerInv'
<1>1. CASE Started
  <2>1. UNCHANGED <<connVars, startVars>> /\ UNCHANGED <<queueVars, batch, stored, skipped, dropped>>
    BY <1>1 DEF Started
  <2>2. PhasesOK'
    BY <1>1 DEF Started, ServerInv, PhasesOK
  <2>3. NothingTaken'
    BY <1>1 DEF Started, NothingTaken
  <2> QED BY <2>1, <2>2, <2>3, ConnectionsStay, QueuesStay DEF ServerInv
<1>2. CASE \E d \in Dtus : StartListener(d) \/ SkipDevice(d)
  <2>1. /\ UNCHANGED <<queueVars, batch, stored, skipped, dropped>>
        /\ UNCHANGED <<consumer, phase>>
    BY <1>2 DEF StartListener, SkipDevice, consumerVars
  <2>2. PICK d \in Dtus : StartListener(d) \/ SkipDevice(d)
    BY <1>2
  <2>3. ConnectionsOK'
    <3>1. CASE StartListener(d)
      BY <3>1 DEF StartListener, ServerInv, ConnectionsOK, connVars
    <3>2. CASE SkipDevice(d)
      BY <3>2 DEF SkipDevice, ServerInv, ConnectionsOK, connVars
    <3> QED BY <2>2, <3>1, <3>2
  <2>4. NothingTaken'
    BY <2>1 DEF ServerInv, NothingTaken
  <2> QED BY <2>1, <2>3, <2>4, QueuesStay, PhasesStay DEF ServerInv
<1> QED BY <1>1, <1>2 DEF StartStep

\* Before there is a consumer nothing was taken: what is lost with the process is all.
LEMMA StartRaisesKeeps ==
  ASSUME ServerInv, StartRaises
  PROVE  ServerInv'
<1>1. NewBuffer \in [type : {"bytearray", "bytes"}, halves : 0..1]
  BY DEF NewBuffer
<1>2. ConnectionsOK'
  BY <1>1 DEF StartRaises, ServerInv, ConnectionsOK
<1>3. PhasesOK'
  BY DEF StartRaises, ServerInv, PhasesOK, consumerVars
<1>4. /\ batch' = <<>> /\ stored' = <<>> /\ skipped' = {} /\ dropped' = {}
      /\ queue' = <<>> /\ decoded' = 0
  BY DEF StartRaises, ServerInv, PhasesOK, NothingTaken, consumerVars
<1>5. QueuesOK'
  BY <1>4, BoundsAssumption, BatchAssumption DEF QueuesOK
<1>6. Turn' = 0
  <2>1. Len(batch') = 0 /\ Len(queue') = 0 /\ decoded' = 0
    BY <1>4, NoLength
  <2> QED BY <2>1 DEF Turn
<1>7. InTurn'
  BY <1>4, <1>6 DEF InTurn, InPlace, HandledOnce, Ascending, ElementsOf
<1>8. NothingTaken'
  BY <1>4 DEF NothingTaken
<1> QED BY <1>2, <1>3, <1>5, <1>7, <1>8 DEF ServerInv

LEMMA StopKeeps ==
  ASSUME ServerInv, Stop \/ StopReturns
  PROVE  ServerInv'
<1>1. /\ UNCHANGED <<connVars, startVars>> /\ UNCHANGED <<queueVars, batch, stored, skipped, dropped>>
      /\ UNCHANGED consumer
  BY DEF Stop, StopReturns, consumerVars
<1>2. PhasesOK'
  BY DEF Stop, StopReturns, consumerVars, ServerInv, PhasesOK
<1>3. NothingTaken'
  BY <1>1 DEF ServerInv, NothingTaken
<1> QED BY <1>1, <1>2, <1>3, ConnectionsStay, QueuesStay DEF ServerInv

-----------------------------------------------------------------------------
(* The connections.                                                         *)

LEMMA ConnectKeeps ==
  ASSUME ServerInv, NEW d \in Dtus, Connect(d)
  PROVE  ServerInv'
<1>1. /\ UNCHANGED <<queueVars, batch, stored, skipped, dropped>>
      /\ UNCHANGED <<consumer, phase>>
  BY DEF Connect, consumerVars
<1>2. connects' \in 0..MaxConnects
  BY BoundsAssumption DEF Connect, ServerInv, ConnectionsOK
<1>3. NewBuffer \in [type : {"bytearray", "bytes"}, halves : 0..1]
  BY DEF NewBuffer
<1>4. buffer' \in [Dtus -> [type : {"bytearray", "bytes"}, halves : 0..1]]
  BY <1>3 DEF Connect, ServerInv, ConnectionsOK
<1>5. /\ conn' \in [Dtus -> {"none", "open"}]
      /\ \A e \in Dtus : conn'[e] = "open" => e \in ports
  BY DEF Connect, ServerInv, ConnectionsOK
<1>6. ConnectionsOK'
  BY <1>2, <1>4, <1>5 DEF Connect, startVars, ServerInv, ConnectionsOK
<1>7. NothingTaken'
  BY <1>1 DEF ServerInv, NothingTaken
<1> QED BY <1>1, <1>6, <1>7, QueuesStay, PhasesStay DEF ServerInv

LEMMA CloseKeeps ==
  ASSUME ConnectionsOK, NEW d \in Dtus, Close(d), UNCHANGED <<startVars, connects>>
  PROVE  ConnectionsOK'
<1>1. NewBuffer \in [type : {"bytearray", "bytes"}, halves : 0..1]
  BY DEF NewBuffer
<1>2. buffer' \in [Dtus -> [type : {"bytearray", "bytes"}, halves : 0..1]]
  BY <1>1 DEF Close, ConnectionsOK
<1>3. /\ conn' \in [Dtus -> {"none", "open"}]
      /\ \A e \in Dtus : conn'[e] = "open" => e \in ports
  BY DEF Close, ConnectionsOK
<1> QED BY <1>2, <1>3 DEF startVars, ConnectionsOK

LEMMA DisconnectKeeps ==
  ASSUME ServerInv, NEW d \in Dtus, Disconnect(d)
  PROVE  ServerInv'
<1>1. /\ UNCHANGED <<queueVars, batch, stored, skipped, dropped>>
      /\ UNCHANGED <<consumer, phase>> /\ UNCHANGED <<startVars, connects>>
  BY DEF Disconnect, consumerVars
<1>2. ConnectionsOK'
  BY <1>1, CloseKeeps DEF Disconnect, ServerInv
<1>3. NothingTaken'
  BY <1>1 DEF ServerInv, NothingTaken
<1> QED BY <1>1, <1>2, <1>3, QueuesStay, PhasesStay DEF ServerInv

LEMMA Halving ==
  ASSUME NEW n \in Nat
  PROVE  n \div 2 \in Nat /\ n % 2 \in 0..1
OBVIOUS

LEMMA ReceiveInTurn ==
  ASSUME ServerInv, NEW d \in Dtus, NEW n \in 1..MaxChunkSize, Receive(d, n)
  PROVE  ServerInv'
<1>1. UNCHANGED <<batch, stored, skipped, dropped>> /\ UNCHANGED <<consumer, phase>>
      /\ UNCHANGED <<startVars, connects>>
  BY DEF Receive, consumerVars
<1>2. NothingTaken'
  BY <1>1 DEF ServerInv, NothingTaken
<1>3. CASE ExtendRaises(d)
  <2>1. ConnectionsOK'
    BY <1>1, <1>3, CloseKeeps DEF ExtendRaises, ServerInv
  <2>2. UNCHANGED <<queueVars, batch, stored, skipped, dropped>>
    BY <1>1, <1>3 DEF ExtendRaises
  <2> QED BY <1>1, <1>2, <2>1, <2>2, QueuesStay, PhasesStay DEF ServerInv
<1>4. CASE Split(d, n)
  <2> DEFINE halves == buffer[d].halves + n
             many == halves \div 2
             more == NextReadings(many)
  <2>1. /\ decoded + many <= MaxReadings
        /\ queue' = queue \o more
        /\ decoded' = decoded + many
        /\ buffer' = [buffer EXCEPT ![d] = [type |-> "bytes", halves |-> halves % 2]]
        /\ conn' = conn
    BY <1>4 DEF Split
  <2>2. halves \in Nat
    BY BoundsAssumption DEF ServerInv, ConnectionsOK
  <2>3. many \in Nat /\ halves % 2 \in 0..1
    BY <2>2, Halving
  <2>4. more = [i \in 1..many |-> decoded + i]
    BY DEF NextReadings
  <2> HIDE DEF halves, many, more
  <2>5. ConnectionsOK'
    <3>1. [type |-> "bytes", halves |-> halves % 2]
            \in [type : {"bytearray", "bytes"}, halves : 0..1]
      BY <2>3
    <3>2. buffer' \in [Dtus -> [type : {"bytearray", "bytes"}, halves : 0..1]]
      BY <2>1, <3>1 DEF ServerInv, ConnectionsOK
    <3> QED BY <1>1, <2>1, <3>2 DEF ServerInv, ConnectionsOK, startVars
  <2>6. /\ decoded \in Nat /\ Len(batch) \in Nat /\ Len(queue) \in Nat
        /\ queue \in Seq(1..MaxReadings) /\ batch \in Seq(1..MaxReadings)
        /\ Turn = decoded - (Len(batch) + Len(queue)) /\ Turn \in Nat
    BY Lengths DEF ServerInv, InTurn, QueuesOK, Turn
  <2>7. \A i \in 1..many : decoded + i \in 1..MaxReadings
    BY <2>1, <2>3, <2>6, BoundsAssumption
  <2>8. /\ more \in Seq(1..MaxReadings) /\ Len(more) = many
        /\ \A i \in 1..many : more[i] = decoded + i
    BY <2>3, <2>4, <2>6, <2>7, NumberedSequence
  <2>9. \A i \in 1..Len(more) : more[i] = Turn + Len(batch) + Len(queue) + i
    BY <2>3, <2>6, <2>8
  <2>10. queue' \in Seq(1..MaxReadings) /\ Len(queue') = Len(queue) + many
    BY <2>1, <2>6, <2>8, ConcatProperties
  <2>11. QueuesOK'
    BY <1>1, <2>1, <2>3, <2>6, <2>10 DEF ServerInv, QueuesOK
  <2>12. InPlace(batch, queue', Turn)
    BY <2>1, <2>6, <2>8, <2>9, DecodedInPlace DEF ServerInv, InTurn
  <2>13. Turn' = Turn
    BY <1>1, <2>1, <2>3, <2>6, <2>10 DEF Turn
  <2>14. InTurn'
    BY <1>1, <2>6, <2>12, <2>13 DEF ServerInv, InTurn
  <2> QED BY <1>1, <1>2, <2>5, <2>11, <2>14, PhasesStay DEF ServerInv
<1> QED BY <1>3, <1>4 DEF Receive

-----------------------------------------------------------------------------
(* The consumer.                                                            *)

LEMMA ContinueIsTyped ==
  ASSUME PhasesOK, consumer # "none", Continue, UNCHANGED phase
  PROVE  PhasesOK' /\ consumer' # "none"
BY DEF PhasesOK, Continue

LEMMA TakeItemKeeps ==
  ASSUME ServerInv, TakeItem
  PROVE  ServerInv'
<1>1. /\ UNCHANGED <<connVars, startVars>> /\ UNCHANGED <<consumer, phase>>
      /\ UNCHANGED <<decoded, stored, skipped, dropped>>
      /\ queue # <<>> /\ Len(batch) < BatchSize /\ consumer = "collecting"
      /\ batch' = Append(batch, Head(queue)) /\ queue' = Tail(queue)
  BY DEF TakeItem
<1>2. /\ decoded \in Nat /\ Len(batch) \in Nat /\ Len(queue) \in Nat
      /\ queue \in Seq(1..MaxReadings) /\ batch \in Seq(1..MaxReadings)
      /\ Turn \in Nat
  BY Lengths DEF ServerInv, InTurn, QueuesOK
<1>3. /\ batch' \in Seq(1..MaxReadings) /\ queue' \in Seq(1..MaxReadings)
      /\ Len(batch') + Len(queue') = Len(batch) + Len(queue)
      /\ InPlace(batch', queue', Turn)
  BY <1>1, <1>2, TakenInPlace DEF ServerInv, InTurn
<1>4. Len(batch') = Len(batch) + 1
  BY <1>1, <1>2
<1>5. QueuesOK'
  BY <1>1, <1>2, <1>3, <1>4, BatchAssumption DEF ServerInv, QueuesOK
<1>6. Turn' = Turn
  BY <1>1, <1>3 DEF Turn
<1>7. InTurn'
  BY <1>1, <1>2, <1>3, <1>6 DEF ServerInv, InTurn
<1>8. NothingTaken'
  BY <1>1 DEF NothingTaken
<1> QED BY <1>1, <1>5, <1>7, <1>8, ConnectionsStay, PhasesStay DEF ServerInv

LEMMA EndOrEmptyKeeps ==
  ASSUME ServerInv, EndBatch \/ EmptyBatch
  PROVE  ServerInv'
<1>1. /\ UNCHANGED <<connVars, startVars>> /\ UNCHANGED <<queueVars, batch, stored, skipped, dropped>>
      /\ UNCHANGED phase /\ consumer = "collecting"
  BY DEF EndBatch, EmptyBatch
<1>2. PhasesOK' /\ consumer' # "none"
  <2>1. CASE EndBatch
    BY <2>1 DEF EndBatch, ServerInv, PhasesOK
  <2>2. CASE EmptyBatch
    BY <1>1, <2>2, ContinueIsTyped DEF EmptyBatch, ServerInv
  <2> QED BY <2>1, <2>2
<1> QED BY <1>1, <1>2, ConnectionsStay, QueuesStay, TakenStays DEF ServerInv

\* What a batch held is handled when its ingestion has ended, in either way.
LEMMA IngestKeeps ==
  ASSUME ServerInv, Ingest \/ IngestRaises
  PROVE  ServerInv'
<1>1. /\ UNCHANGED <<connVars, startVars>> /\ UNCHANGED queueVars
      /\ UNCHANGED phase /\ consumer = "ingesting" /\ batch' = <<>> /\ Continue
  BY DEF Ingest, IngestRaises
<1>2. PhasesOK' /\ consumer' # "none"
  BY <1>1, ContinueIsTyped DEF ServerInv
<1>3. NothingTaken'
  BY <1>2 DEF NothingTaken
<1>4. /\ decoded \in Nat /\ Len(batch) \in Nat /\ Len(queue) \in Nat
      /\ queue \in Seq(1..MaxReadings) /\ batch \in Seq(1..MaxReadings)
      /\ stored \in Seq(1..MaxReadings) /\ Turn \in Nat
      /\ Turn = decoded - (Len(batch) + Len(queue))
      /\ InPlace(batch, queue, Turn) /\ HandledOnce(Turn, stored, skipped, dropped)
      /\ \A i \in 1..Len(batch) : batch[i] = Turn + i
  BY Lengths DEF ServerInv, InTurn, QueuesOK, InPlace, Turn
<1>5. Turn' = Turn + Len(batch) /\ Turn' \in Nat
  BY <1>1, <1>4 DEF Turn, queueVars
<1>6. InPlace(batch', queue', Turn')
  BY <1>1, <1>4, <1>5, BatchInPlace DEF queueVars
<1>7. PICK kept \in SubSequences(batch) :
        /\ stored' = stored \o kept
        /\ \/ /\ skipped' = skipped \cup (ElementsOf(batch) \ ElementsOf(kept))
              /\ dropped' = dropped \cup {}
           \/ /\ skipped' = skipped \cup {}
              /\ dropped' = dropped \cup ElementsOf(batch)
  BY DEF Ingest, IngestRaises
<1>8. /\ kept \in Seq(1..MaxReadings) /\ Ascending(kept)
      /\ ElementsOf(kept) \subseteq (Turn + 1)..(Turn + Len(batch))
  BY <1>4, KeptInOrder
<1>9. ElementsOf(batch) = (Turn + 1)..(Turn + Len(batch))
  BY <1>4, BatchElements
<1>10. PICK y, c :
         /\ skipped' = skipped \cup y /\ dropped' = dropped \cup c
         /\ ElementsOf(kept) \cup y \cup c = (Turn + 1)..(Turn + Len(batch))
         /\ y \cap (ElementsOf(kept) \cup c) = {}
  <2>1. CASE /\ skipped' = skipped \cup (ElementsOf(batch) \ ElementsOf(kept))
             /\ dropped' = dropped \cup {}
    <3> DEFINE left == ElementsOf(batch) \ ElementsOf(kept)
    <3>1. /\ ElementsOf(kept) \cup left \cup {} = (Turn + 1)..(Turn + Len(batch))
          /\ left \cap (ElementsOf(kept) \cup {}) = {}
      BY <1>8, <1>9
    <3> QED BY <2>1, <3>1
  <2>2. CASE /\ skipped' = skipped \cup {}
             /\ dropped' = dropped \cup ElementsOf(batch)
    <3>1. /\ ElementsOf(kept) \cup {} \cup ElementsOf(batch) = (Turn + 1)..(Turn + Len(batch))
          /\ {} \cap (ElementsOf(kept) \cup ElementsOf(batch)) = {}
      BY <1>8, <1>9
    <3> QED BY <2>2, <3>1
  <2> QED BY <1>7, <2>1, <2>2
<1>11. /\ stored' \in Seq(1..MaxReadings)
       /\ HandledOnce(Turn + Len(batch), stored', skipped', dropped')
  <2>1. Turn \in Nat /\ Len(batch) \in Nat /\ stored \in Seq(1..MaxReadings)
        /\ HandledOnce(Turn, stored, skipped, dropped) /\ stored' = stored \o kept
    BY <1>4, <1>7
  <2>2. /\ stored' \in Seq(1..MaxReadings)
        /\ HandledOnce(Turn + Len(batch), stored', skipped \cup y, dropped \cup c)
    BY <1>8, <1>10, <2>1, BatchHandled
  <2> QED BY <1>10, <2>2
<1>12. skipped' \cup dropped' \subseteq 1..MaxReadings
  <2>1. /\ Turn + Len(batch) <= decoded /\ Turn + Len(batch) \in Nat
        /\ decoded <= MaxReadings /\ MaxReadings \in Nat
    BY <1>4, BoundsAssumption DEF ServerInv, QueuesOK
  <2> DEFINE end == Turn + Len(batch)
  <2>2. end <= MaxReadings /\ end \in Nat /\ end = Turn + Len(batch)
    BY <1>4, <2>1
  <2> HIDE DEF end
  <2>3. 1..end \subseteq 1..MaxReadings
    BY <2>1, <2>2
  <2> QED BY <1>11, <2>2, <2>3 DEF HandledOnce
<1>13. QueuesOK'
  BY <1>1, <1>11, <1>12, BatchAssumption DEF ServerInv, QueuesOK, queueVars
<1>14. InTurn'
  BY <1>5, <1>6, <1>11 DEF InTurn
<1> QED BY <1>1, <1>2, <1>3, <1>13, <1>14, ConnectionsStay DEF ServerInv

-----------------------------------------------------------------------------
(* The theorems about the server.                                           *)

LEMMA ServerStep ==
  ASSUME ServerInv, [Next]_vars
  PROVE  ServerInv'
<1>1. CASE UNCHANGED vars
  <2>1. /\ UNCHANGED <<connVars, startVars>> /\ UNCHANGED <<queueVars, batch, stored, skipped, dropped>>
        /\ UNCHANGED <<consumer, phase>>
    BY <1>1 DEF vars, consumerVars
  <2>2. NothingTaken'
    BY <2>1 DEF ServerInv, NothingTaken
  <2> QED BY <2>1, <2>2, ConnectionsStay, QueuesStay, PhasesStay DEF ServerInv
<1>2. CASE StartStep \/ StartRaises \/ Stop \/ StopReturns
  BY <1>2, StartStepKeeps, StartRaisesKeeps, StopKeeps
<1>3. CASE \E d \in Dtus : Connect(d) \/ Disconnect(d)
  BY <1>3, ConnectKeeps, DisconnectKeeps
<1>4. CASE \E d \in Dtus, n \in 1..MaxChunkSize : Receive(d, n)
  BY <1>4, ReceiveInTurn
<1>5. CASE ConsumerStep
  BY <1>5, TakeItemKeeps, EndOrEmptyKeeps, IngestKeeps DEF ConsumerStep
<1> QED BY <1>1, <1>2, <1>3, <1>4, <1>5 DEF Next

\* The inductive invariant: every reading waits or was handled in the place in which it
\* was decoded.
THEOREM ServerSafe == Spec => []ServerInv
BY InitInTurn, ServerStep, PTL DEF Spec

\* At most one batch is collected, connections are to open ports only, and without a
\* started server there is no consumer.
THEOREM ServerTypeCorrect == Spec => []TypeOK
<1>1. ServerInv => TypeOK
  BY TypeOKParts DEF ServerInv
<1> QED BY <1>1, ServerSafe, PTL

\* However chunks, flushes, failed batches and the stop interleave, readings are handled
\* in the order in which they were decoded, each stored, left out because its code is unknown
\* or dropped with its batch, and none is stored twice.
THEOREM StoredInOrder == Spec => []InOrder
<1>1. ServerInv => InOrder
  <2> SUFFICES ASSUME ServerInv
               PROVE  InOrder
    OBVIOUS
  <2>1. /\ batch \in Seq(1..MaxReadings) /\ queue \in Seq(1..MaxReadings)
        /\ Turn \in Int /\ DOMAIN stored = 1..Len(stored)
        /\ InPlace(batch, queue, Turn) /\ HandledOnce(Turn, stored, skipped, dropped)
    BY Lengths DEF ServerInv, QueuesOK, InTurn
  <2>2. /\ Len(Waiting) = Len(batch) + Len(queue)
        /\ Waiting = [i \in 1..Len(Waiting) |-> Turn + i]
    BY <2>1, WaitingInPlace DEF Waiting
  <2>3. Handled = Turn
    BY <2>2 DEF Handled, Turn
  <2>4. Accounted = 1..Turn
    BY <2>1 DEF Accounted, HandledOnce
  <2>5. \A e \in skipped : e \notin ElementsOf(stored) \cup dropped
    BY <2>1 DEF HandledOnce
  <2> QED BY <2>1, <2>2, <2>3, <2>4, <2>5 DEF InOrder, HandledOnce, Ascending
<1> QED BY <1>1, ServerSafe, PTL

-----------------------------------------------------------------------------
(* Who takes what waits.                                                    *)

Taking == consumer \in {"collecting", "ingesting"}

\* Without a consumer nothing can arrive, unless start() is still at work.
TasksOK ==
  /\ batch # <<>> => Taking
  /\ consumer = "exited" => phase \in {"closing", "stopped"}
  /\ consumer = "none" /\ phase # "starting" => queue = <<>> /\ ports = {}
  /\ phase = "stopped" => ~Taking /\ \A d \in Dtus : conn[d] = "none"

\* What every step does to the end of consumer and server.
Ending ==
  /\ consumer # "exited" /\ consumer' = "exited" => phase = "closing" /\ batch' \o queue' = <<>>
  /\ phase \notin {"stopped", "failed"}

LEMMA NothingJoined == <<>> \o <<>> = <<>>
OBVIOUS

LEMMA StartKeepsTasks ==
  ASSUME ServerInv, TasksOK, StartStep \/ StartRaises
  PROVE  TasksOK' /\ Ending
<1>1. CASE Started
  BY <1>1 DEF Started, TasksOK, Taking, Ending, ServerInv, PhasesOK, NothingTaken
<1>2. CASE \E d \in Dtus : StartListener(d) \/ SkipDevice(d)
  BY <1>2 DEF StartListener, SkipDevice, TasksOK, Taking, Ending, ServerInv, PhasesOK,
              consumerVars, connVars, queueVars
<1>3. CASE StartRaises
  BY <1>3 DEF StartRaises, TasksOK, Taking, Ending, ServerInv, PhasesOK, consumerVars
<1> QED BY <1>1, <1>2, <1>3 DEF StartStep

LEMMA StopKeepsTasks ==
  ASSUME ServerInv, TasksOK, Stop \/ StopReturns
  PROVE  TasksOK' /\ Ending
<1>1. /\ UNCHANGED <<startVars, connVars, queueVars, consumerVars>>
      /\ \/ phase = "running" /\ phase' = "closing"
         \/ phase = "closing" /\ phase' = "stopped"
  BY DEF Stop, StopReturns
<1>2. phase' = "stopped" => ~Taking /\ \A d \in Dtus : conn[d] = "none"
  BY <1>1 DEF Stop, StopReturns, Taking
<1> QED BY <1>1, <1>2 DEF TasksOK, Taking, Ending, startVars, connVars, queueVars, consumerVars

\* A connection needs an open port, and those are gone without a consumer.
LEMMA ConnectionsKeepTasks ==
  ASSUME ServerInv, TasksOK, NEW d \in Dtus,
         \/ Connect(d) \/ Disconnect(d) \/ \E n \in 1..MaxChunkSize : Receive(d, n)
  PROVE  TasksOK' /\ Ending
<1>1. d \in ports
  BY DEF Connect, Disconnect, Receive, ServerInv, ConnectionsOK
<1>2. /\ UNCHANGED <<consumerVars, startVars, phase>>
      /\ phase # "stopped" /\ phase # "failed"
  BY <1>1 DEF Connect, Disconnect, Receive, TasksOK, ServerInv, PhasesOK
<1> QED BY <1>1, <1>2 DEF TasksOK, Taking, Ending, consumerVars, startVars

LEMMA ConsumerKeepsTasks ==
  ASSUME ServerInv, TasksOK, ConsumerStep
  PROVE  TasksOK' /\ Ending
<1>1. Taking /\ UNCHANGED <<connVars, startVars, phase>>
  BY DEF ConsumerStep, TakeItem, EndBatch, EmptyBatch, Ingest, IngestRaises, Taking
<1>2. phase \notin {"starting", "stopped", "failed"}
  BY <1>1 DEF TasksOK, Taking, ServerInv, PhasesOK
<1>3. CASE TakeItem \/ EndBatch
  BY <1>1, <1>2, <1>3 DEF TakeItem, EndBatch, TasksOK, Taking, Ending
<1>4. CASE EmptyBatch \/ Ingest \/ IngestRaises
  <2>1. batch' = <<>> /\ queue' = queue /\ Continue
    BY <1>4 DEF EmptyBatch, Ingest, IngestRaises, queueVars
  <2>2. consumer' = "exited" => phase # "running" /\ queue = <<>>
    BY <2>1 DEF Continue
  <2>3. consumer' \in {"collecting", "exited"}
    BY <2>1 DEF Continue
  <2>4. phase \in {"running", "closing"}
    BY <1>2 DEF ServerInv, PhasesOK
  <2>5. Ending
    BY <2>1, <2>2, <2>4, NothingJoined DEF Ending
  <2>6. TasksOK'
    BY <1>1, <2>1, <2>2, <2>3, <2>4 DEF TasksOK, Taking
  <2> QED BY <2>5, <2>6
<1> QED BY <1>3, <1>4 DEF ConsumerStep

LEMMA TasksKept ==
  ASSUME ServerInv, TasksOK, [Next]_vars
  PROVE  TasksOK' /\ (vars' = vars \/ Ending)
<1>1. CASE UNCHANGED vars
  <2>1. /\ UNCHANGED <<consumer, batch, queue, phase>> /\ UNCHANGED <<ports, conn>>
    BY <1>1 DEF vars, startVars, connVars, queueVars, consumerVars
  <2> QED BY <1>1, <2>1 DEF TasksOK, Taking
<1>2. CASE StartStep \/ StartRaises \/ Stop \/ StopReturns
  BY <1>2, StartKeepsTasks, StopKeepsTasks
<1>3. CASE \/ \E d \in Dtus : Connect(d) \/ Disconnect(d)
           \/ \E d \in Dtus, n \in 1..MaxChunkSize : Receive(d, n)
  BY <1>3, ConnectionsKeepTasks
<1>4. CASE ConsumerStep
  BY <1>4, ConsumerKeepsTasks
<1> QED BY <1>1, <1>2, <1>3, <1>4 DEF Next

\* With nothing waiting, what was decoded is what was handled.
LEMMA AllIsHandled ==
  ServerInv /\ Waiting = <<>> => Accounted = 1..decoded
<1> SUFFICES ASSUME ServerInv, Waiting = <<>>
             PROVE  Accounted = 1..decoded
  OBVIOUS
<1>1. /\ batch \in Seq(1..MaxReadings) /\ queue \in Seq(1..MaxReadings)
      /\ DOMAIN stored = 1..Len(stored) /\ decoded \in Nat
      /\ Turn \in Int /\ HandledOnce(Turn, stored, skipped, dropped)
  BY Lengths DEF ServerInv, QueuesOK, InTurn
<1>2. Len(batch) + Len(queue) = 0
  BY <1>1, WaitingInPlace, NoLength DEF Waiting
<1>3. Turn = decoded
  BY <1>1, <1>2 DEF Turn
<1>4. Accounted = 1..Turn
  BY <1>1 DEF Accounted, HandledOnce
<1> QED BY <1>3, <1>4

\* Nobody is left behind by the consumer: what waits has one, it ends when all that was
\* decoded is accounted for, and a server that is down stays down.
THEOREM NothingIsLeftWaiting ==
  Spec => []WaitingHasConsumer /\ ExitsEmptyHanded /\ StaysDown
<1>1. Init => TasksOK
  BY DEF Init, TasksOK, Taking
<1>2. ServerInv /\ TasksOK => WaitingHasConsumer
  BY DEF ServerInv, PhasesOK, TasksOK, Taking, WaitingHasConsumer
<1>3. (ServerInv /\ Waiting = <<>> => Accounted = 1..decoded)'
  BY AllIsHandled, PTL
<1>4. ServerInv /\ ServerInv' /\ TasksOK /\ [Next]_vars =>
        /\ TasksOK'
        /\ [consumer # "exited" /\ consumer' = "exited" =>
              /\ phase = "closing" /\ Waiting' = <<>> /\ Accounted' = 1..decoded']_vars
        /\ [phase \notin {"stopped", "failed"}]_vars
  <2> SUFFICES ASSUME ServerInv, ServerInv', TasksOK, [Next]_vars
               PROVE  /\ TasksOK'
                      /\ vars' = vars \/
                           /\ consumer # "exited" /\ consumer' = "exited" =>
                                /\ phase = "closing" /\ Waiting' = <<>>
                                /\ Accounted' = 1..decoded'
                           /\ phase \notin {"stopped", "failed"}
    OBVIOUS
  <2>1. TasksOK' /\ (vars' = vars \/ Ending)
    BY TasksKept
  <2>2. Waiting' = <<>> => Accounted' = 1..decoded'
    BY <1>3
  <2> QED BY <2>1, <2>2 DEF Ending, Waiting
<1> QED BY <1>1, <1>2, <1>4, ServerSafe, PTL DEF Spec, ExitsEmptyHanded, StaysDown
=============================================================================
