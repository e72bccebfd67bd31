----------------------------- MODULE DisposalProofs -----------------------------
(***************************************************************************)
(* Theorems about what is sent to the disposal service: the trader's       *)
(* address (Addresses) and the date of disposal (DisposalDates).           *)
(*                                                                         *)
(* Whatever address is entered, of any number of lines of any length, the  *)
(* lines sent fit the service's record and read as they were entered; and  *)
(* of the formats the views have, something is cut off only when the       *)
(* record is full.  RebuildOfThree, RebuildOfFour and RebuildOfMore say    *)
(* what the rebuilt record of an address of one, of two and of more lines  *)
(* is.                                                                     *)
(*                                                                         *)
(* compare is an order, accepted dates convert if they have their hour,    *)
(* the form refuses only what is outside the window, and what is sent is   *)
(* inside it.  The properties count days with DayNumber and the code       *)
(* compares fields; DayNumberGrows relates the two, for all years.         *)
(***************************************************************************)
EXTENDS DisposalRequest, SequenceTheorems, TLAPS

----------
(* The address.                                                            *)

\* An address as the dispose handler finds it, with a town and a postcode.
AddressOK == address \in Seq(Segments) /\ Len(address) >= 2

\* Segments a line may be cut into are segments.
LEMMA CutsAreSegments ==
  ASSUME NEW s \in Segments, TooLong(s)
  PROVE  Front(s) \in Segments /\ Rest(s) \in Segments /\ Size(Front(s)) = LineMaxLength
  BY LengthsAssumption DEF Segments, TooLong, Size, Front, Rest

\* Text that the code supplies is made of segments that fit.
LEMMA SuppliedLines ==
  /\ EmptyLine \in Segments
  /\ BuildingNameOrNumberHolder \in Segments
  /\ Size(BuildingNameOrNumberHolder) <= LineMaxLength
  BY LengthsAssumption DEF EmptyLine, BuildingNameOrNumberHolder, Segments, Size

\* What is left of an address after its first n lines.
LEMMA DropLeftProperties ==
  ASSUME NEW a \in Seq(Segments), NEW n \in Nat, n < Len(a)
  PROVE  DropLeft(a, n) \in Seq(Segments) /\ Len(DropLeft(a, n)) = Len(a) - n
<1>1. \A i \in n + 1 .. Len(a) : a[i] \in Segments
  BY ElementOfSeq, LenProperties
<1> QED BY <1>1, SubSeqProperties, LenProperties DEF DropLeft

\* What is left of an address without its last n lines.
LEMMA DropRightProperties ==
  ASSUME NEW a \in Seq(Segments), NEW n \in Nat, n < Len(a)
  PROVE  /\ DropRight(a, n) \in Seq(Segments)
         /\ Len(DropRight(a, n)) = Len(a) - n
         /\ \A i \in 1 .. Len(a) - n : DropRight(a, n)[i] = a[i]
<1>1. \A i \in 1 .. Len(a) - n : a[i] \in Segments
  BY ElementOfSeq, LenProperties
<1> QED BY <1>1, SubSeqProperties, LenProperties DEF DropRight

\* Trimming keeps the number of lines and makes every line fit.
LEMMA TrimLinesFit ==
  ASSUME NEW a \in Seq(Segments)
  PROVE  /\ TrimLines(a) \in Seq(Segments)
         /\ Len(TrimLines(a)) = Len(a)
         /\ \A i \in 1 .. Len(a) : Size(TrimLines(a)[i]) <= LineMaxLength
<1>1. DOMAIN a = 1 .. Len(a) /\ Len(a) \in Nat
  BY LenProperties
<1>2. \A i \in 1 .. Len(a) : a[i] \in Segments
  BY ElementOfSeq
<1>3. \A i \in 1 .. Len(a) : TrimLines(a)[i] \in Segments /\ Size(TrimLines(a)[i]) <= LineMaxLength
  <2> SUFFICES ASSUME NEW i \in 1 .. Len(a)
               PROVE  TrimLines(a)[i] \in Segments /\ Size(TrimLines(a)[i]) <= LineMaxLength
    OBVIOUS
  <2>1. CASE TooLong(a[i])
    BY <1>1, <1>2, <2>1, CutsAreSegments, LengthsAssumption DEF TrimLines
  <2>2. CASE ~TooLong(a[i])
    BY <1>1, <1>2, <2>2, LengthsAssumption DEF TrimLines, TooLong, Size, Segments
  <2> QED BY <2>1, <2>2
<1>4. TrimLines(a) \in [1 .. Len(a) -> Segments]
  BY <1>1, <1>3 DEF TrimLines
<1> QED BY <1>1, <1>3, <1>4

\* An address of three lines or more has four once the missing ones are there.
LEMMA AssignEmptyLinesProperties ==
  ASSUME NEW a \in Seq(Segments), Len(a) >= 3
  PROVE  AssignEmptyLines(a) \in Seq(Segments) /\ Len(AssignEmptyLines(a)) >= 4
<1>1. Len(a) \in Nat /\ a[1] \in Segments /\ a[2] \in Segments /\ a # << >>
  BY ElementOfSeq, LenProperties
<1>2. CASE Len(a) = 3
  <2>1. Tail(a) \in Seq(Segments) /\ Len(Tail(a)) = 2
    BY <1>1, <1>2, HeadTailProperties
  <2>2. <<a[1], EmptyLine>> \in Seq(Segments) /\ Len(<<a[1], EmptyLine>>) = 2
    BY <1>1, SuppliedLines
  <2>3. AssignEmptyLines(a) = <<a[1], EmptyLine>> \o Tail(a)
    BY <1>2 DEF AssignEmptyLines
  <2> QED BY <2>1, <2>2, <2>3, ConcatProperties
<1>3. CASE Len(a) = 4
  <2>1. DropLeft(a, 2) \in Seq(Segments) /\ Len(DropLeft(a, 2)) = 2
    <3>1. 2 \in Nat /\ 2 < Len(a) /\ Len(a) - 2 = 2
      BY <1>3
    <3> QED BY <3>1, DropLeftProperties
  <2>2. <<a[1], a[2], EmptyLine>> \in Seq(Segments) /\ Len(<<a[1], a[2], EmptyLine>>) = 3
    BY <1>1, SuppliedLines
  <2>3. AssignEmptyLines(a) = <<a[1], a[2], EmptyLine>> \o DropLeft(a, 2)
    BY <1>3 DEF AssignEmptyLines
  <2> QED BY <2>1, <2>2, <2>3, ConcatProperties
<1>4. CASE Len(a) # 3 /\ Len(a) # 4
  <2>1. AssignEmptyLines(a) = a
    BY <1>4 DEF AssignEmptyLines
  <2>2. Len(a) >= 4
    <3>1. \A n \in Nat : n >= 3 /\ n # 3 => n >= 4
      OBVIOUS
    <3> QED BY <1>1, <1>4, <3>1
  <2> QED BY <2>1, <2>2
<1> QED BY <1>2, <1>3, <1>4

\* Moving the overflow keeps the number of lines.
LEMMA DeciderProperties ==
  ASSUME NEW a \in Seq(Segments), Len(a) >= 4
  PROVE  AddressLinesDecider(a) \in Seq(Segments) /\ Len(AddressLinesDecider(a)) = Len(a)
<1>1. Len(a) \in Nat /\ a[1] \in Segments /\ a[2] \in Segments
  BY ElementOfSeq, LenProperties
<1>2. /\ DropLeft(a, 2) \in Seq(Segments) /\ Len(DropLeft(a, 2)) = Len(a) - 2
      /\ DropLeft(a, 3) \in Seq(Segments) /\ Len(DropLeft(a, 3)) = Len(a) - 3
  BY <1>1, DropLeftProperties
<1>3. CASE TooLong(a[1]) /\ IsEmpty(a[2])
  <2>1. <<Front(a[1]), Rest(a[1])>> \in Seq(Segments) /\ Len(<<Front(a[1]), Rest(a[1])>>) = 2
    BY <1>1, <1>3, CutsAreSegments
  <2>2. AddressLinesDecider(a) = <<Front(a[1]), Rest(a[1])>> \o DropLeft(a, 2)
    BY <1>3 DEF AddressLinesDecider
  <2> QED BY <1>1, <1>2, <2>1, <2>2, ConcatProperties
<1>4. CASE TooLong(a[1]) /\ ~IsEmpty(a[2]) /\ IsEmpty(a[3])
  <2>1. /\ <<Front(a[1]), Rest(a[1]), a[2]>> \in Seq(Segments)
        /\ Len(<<Front(a[1]), Rest(a[1]), a[2]>>) = 3
    BY <1>1, <1>4, CutsAreSegments
  <2>2. AddressLinesDecider(a) = <<Front(a[1]), Rest(a[1]), a[2]>> \o DropLeft(a, 3)
    BY <1>4 DEF AddressLinesDecider
  <2> QED BY <1>1, <1>2, <2>1, <2>2, ConcatProperties
<1>5. CASE ~TooLong(a[1]) /\ TooLong(a[2]) /\ ~IsEmpty(a[2]) /\ IsEmpty(a[3])
  <2>1. /\ <<a[1], Front(a[2]), Rest(a[2])>> \in Seq(Segments)
        /\ Len(<<a[1], Front(a[2]), Rest(a[2])>>) = 3
    BY <1>1, <1>5, CutsAreSegments
  <2>2. AddressLinesDecider(a) = <<a[1], Front(a[2]), Rest(a[2])>> \o DropLeft(a, 3)
    BY <1>5 DEF AddressLinesDecider
  <2> QED BY <1>1, <1>2, <2>1, <2>2, ConcatProperties
<1>6. CASE /\ ~(TooLong(a[1]) /\ IsEmpty(a[2]))
           /\ ~(TooLong(a[1]) /\ ~IsEmpty(a[2]) /\ IsEmpty(a[3]))
           /\ ~(~TooLong(a[1]) /\ TooLong(a[2]) /\ ~IsEmpty(a[2]) /\ IsEmpty(a[3]))
  BY <1>6 DEF AddressLinesDecider
<1> QED BY <1>3, <1>4, <1>5, <1>6

----------
\* Lines of a record and its town fit.
Fits(d) ==
  /\ \A j \in DOMAIN d.line : Size(d.line[j]) <= LineMaxLength
  /\ Size(d.postTown) <= LineMaxLength

\* The rebuilt record fits: everything it sends went through the trim.
LEMMA RebuildFits ==
  ASSUME NEW a \in Seq(Segments), Len(a) >= 3
  PROVE  Fits(Rebuild(a))
<1> DEFINE decided == AddressLinesDecider(AssignEmptyLines(a))
           shorter == DropRight(decided, 1)
           legacy == TrimLines(shorter)
<1>1. decided \in Seq(Segments) /\ Len(decided) >= 4 /\ Len(decided) \in Nat
  BY AssignEmptyLinesProperties, DeciderProperties, LenProperties
<1>2. shorter \in Seq(Segments) /\ Len(shorter) >= 3 /\ Len(shorter) \in Nat
  <2> HIDE DEF decided
  <2> QED BY <1>1, DropRightProperties
<1>3. /\ legacy \in Seq(Segments) /\ Len(legacy) = Len(shorter)
      /\ \A i \in 1 .. Len(legacy) : Size(legacy[i]) <= LineMaxLength
  <2> HIDE DEF shorter
  <2> QED BY <1>2, TrimLinesFit
<1>4. /\ Rebuild(a).line = DropRight(legacy, 1)
      /\ Rebuild(a).postTown = legacy[Len(legacy)]
  BY DEF Rebuild
<1> HIDE DEF legacy, shorter, decided
<1>5. /\ DropRight(legacy, 1) \in Seq(Segments)
      /\ Len(DropRight(legacy, 1)) = Len(legacy) - 1
      /\ \A i \in 1 .. Len(legacy) - 1 : DropRight(legacy, 1)[i] = legacy[i]
  <2>1. 1 \in Nat /\ 1 < Len(legacy)
    BY <1>2, <1>3
  <2> QED BY <1>3, <2>1, DropRightProperties
<1>6. DOMAIN DropRight(legacy, 1) = 1 .. Len(legacy) - 1
  BY <1>5, LenProperties
<1> QED BY SMTT(30), <1>2, <1>3, <1>4, <1>5, <1>6 DEF Fits

\* The record of an address without a long line fits.
LEMMA BuildStandardFits ==
  ASSUME NEW a \in Seq(Segments), Len(a) >= 3,
         \A i \in 1 .. Len(a) : Size(a[i]) <= LineMaxLength
  PROVE  Fits(BuildStandard(a))
<1>1. Len(a) \in Nat
  BY LenProperties
<1>2. /\ DropRight(a, 2) \in Seq(Segments)
      /\ Len(DropRight(a, 2)) = Len(a) - 2
      /\ \A i \in 1 .. Len(a) - 2 : DropRight(a, 2)[i] = a[i]
  BY <1>1, DropRightProperties
<1>3. DOMAIN DropRight(a, 2) = 1 .. Len(a) - 2
  BY <1>2, LenProperties
<1> QED BY <1>1, <1>2, <1>3 DEF Fits, BuildStandard

\* With the supplied line an address has three lines or more, and no longer
\* ones than before.
LEMMA MandatoryLinesProperties ==
  ASSUME NEW a \in Seq(Segments), Len(a) >= 2
  PROVE  /\ MandatoryLines(a) \in Seq(Segments)
         /\ Len(MandatoryLines(a)) >= 3
         /\ ~LinesOverMaxLength(a) =>
              \A i \in 1 .. Len(MandatoryLines(a)) : Size(MandatoryLines(a)[i]) <= LineMaxLength
<1>1. Len(a) \in Nat /\ DOMAIN a = 1 .. Len(a) /\ \A i \in 1 .. Len(a) : a[i] \in Segments
  BY LenProperties, ElementOfSeq
<1>2. ~LinesOverMaxLength(a) => \A i \in 1 .. Len(a) : Size(a[i]) <= LineMaxLength
  <2> SUFFICES ASSUME ~LinesOverMaxLength(a), NEW i \in 1 .. Len(a)
               PROVE  Size(a[i]) <= LineMaxLength
    OBVIOUS
  <2>1. ~TooLong(a[i])
    BY <1>1 DEF LinesOverMaxLength
  <2>2. a[i].from \in Nat /\ a[i].to \in Nat
    BY <1>1 DEF Segments
  <2> QED BY <2>1, <2>2, LengthsAssumption DEF TooLong, Size
<1>3. CASE Len(a) = 2
  <2> DEFINE h == <<BuildingNameOrNumberHolder>>
  <2>1. h \in Seq(Segments) /\ Len(h) = 1 /\ h[1] = BuildingNameOrNumberHolder
    BY SuppliedLines
  <2>2. MandatoryLines(a) = h \o a
    BY <1>3 DEF MandatoryLines
  <2> HIDE DEF h
  <2>3. /\ h \o a \in Seq(Segments) /\ Len(h \o a) = 3
        /\ \A i \in 1 .. 3 : (h \o a)[i] = IF i <= 1 THEN h[i] ELSE a[i - 1]
    <3>1. /\ h \o a \in Seq(Segments) /\ Len(h \o a) = Len(h) + Len(a)
          /\ \A i \in 1 .. Len(h) + Len(a) :
               (h \o a)[i] = IF i <= Len(h) THEN h[i] ELSE a[i - Len(h)]
      BY <2>1, ConcatProperties
    <3>2. Len(h) = 1 /\ Len(h) + Len(a) = 3
      BY <1>3, <2>1
    <3> QED BY <3>1, <3>2
  <2> QED BY <1>2, <1>3, <2>1, <2>2, <2>3, SuppliedLines
<1>4. CASE Len(a) # 2
  BY <1>1, <1>2, <1>4 DEF MandatoryLines
<1> QED BY <1>3, <1>4

\* The record made of any address fits.
LEMMA FromFits ==
  ASSUME NEW a \in Seq(Segments), Len(a) >= 2
  PROVE  Fits(From(a))
  BY MandatoryLinesProperties, RebuildFits, BuildStandardFits DEF From

----------
\* The addresses of the initial states are sequences of segments.
LEMMA AddressesTyped ==
  ASSUME NEW a \in Addresses
  PROVE  a \in Seq(Segments) /\ Len(a) >= 2
<1>1. PICK k \in 2 .. MaxLines : \E m \in [1 .. k -> 1 .. MaxLength] :
         a = [i \in DOMAIN m |-> [line |-> i, from |-> 0, to |-> m[i]]]
  BY DEF Addresses
<1>2. PICK n \in [1 .. k -> 1 .. MaxLength] :
         a = [i \in DOMAIN n |-> [line |-> i, from |-> 0, to |-> n[i]]]
  BY <1>1
<1>3. k \in Nat /\ k >= 2 /\ DOMAIN n = 1 .. k
  BY LengthsAssumption
<1>4. a \in [1 .. k -> Segments]
  BY <1>2, <1>3, LengthsAssumption DEF Segments
<1> QED BY <1>3, <1>4

\* No line of a disposal request is longer than the service's record allows,
\* for any line length, any supplied text that fits, any number of lines
\* and any lengths of them: DisposalAddressDto.from.
THEOREM LinesAlwaysFit == AddressSpec => []LinesFit
<1>1. AddressInit => AddressOK /\ LinesFit
  BY AddressesTyped DEF AddressInit, AddressOK, LinesFit, Sent
<1>2. AddressOK /\ LinesFit /\ [AddressNext]_addressVars => (AddressOK /\ LinesFit)'
  <2>1. CASE Send
    <3>1. Fits(From(address)) \/ ~AddressOK
      BY FromFits DEF AddressOK
    <3> QED BY <2>1, <3>1 DEF Send, AddressOK, LinesFit, Fits, Sent, Size
  <2>2. CASE UNCHANGED addressVars
    BY <2>2 DEF addressVars, AddressOK, LinesFit, Sent, Size
  <2> QED BY <2>1, <2>2 DEF AddressNext
<1> QED BY <1>1, <1>2, PTL DEF AddressSpec

----------
(* Which part of which line is in the record.                              *)

\* What trimming makes of a line.
Trimmed(s) == IF TooLong(s) THEN Front(s) ELSE s

\* An address as it was entered: its lines whole, none empty.
Entered(a) ==
  /\ a \in Seq(Segments) /\ Len(a) >= 2
  /\ \A i \in 1 .. Len(a) : a[i].line = i /\ a[i].from = 0 /\ a[i].to >= 1

\* Trimming works line by line.
LEMMA TrimLinesAt ==
  ASSUME NEW a \in Seq(Segments)
  PROVE  \A i \in 1 .. Len(a) : TrimLines(a)[i] = Trimmed(a[i])
<1>1. DOMAIN a = 1 .. Len(a)
  BY LenProperties
<1> QED BY <1>1 DEF TrimLines, Trimmed

\* Dropping the first n lines moves the others up.
LEMMA DropLeftAt ==
  ASSUME NEW a \in Seq(Segments), NEW n \in Nat, n < Len(a)
  PROVE  \A i \in 1 .. Len(a) - n : DropLeft(a, n)[i] = a[i + n]
<1>1. \A i \in n + 1 .. Len(a) : a[i] \in Segments
  BY ElementOfSeq, LenProperties
<1>2. Len(a) \in Nat
  BY LenProperties
<1> QED BY <1>1, <1>2, SubSeqProperties DEF DropLeft

\* The rebuilt record of a, when d is what the decider makes of it: its lines are
\* those of d, trimmed, but for the last three, and the third last is the town.
\* The postcode is a's.
LEMMA RebuildLines ==
  ASSUME NEW a \in Seq(Segments), Len(a) >= 3,
         NEW d \in Seq(Segments), Len(d) >= 4, d = AddressLinesDecider(AssignEmptyLines(a))
  PROVE  /\ DOMAIN Rebuild(a).line = 1 .. Len(d) - 2
         /\ Len(Rebuild(a).line) = Len(d) - 2
         /\ \A i \in 1 .. Len(d) - 2 : Rebuild(a).line[i] = Trimmed(d[i])
         /\ Rebuild(a).postTown = Trimmed(d[Len(d) - 1])
         /\ Rebuild(a).postCode = a[Len(a)]
<1> DEFINE shorter == DropRight(d, 1)
           legacy == TrimLines(shorter)
           lines == DropRight(legacy, 1)
<1>1. Len(d) \in Nat
  BY LenProperties
<1>2. /\ shorter \in Seq(Segments) /\ Len(shorter) = Len(d) - 1
      /\ \A i \in 1 .. Len(d) - 1 : shorter[i] = d[i]
  BY <1>1, DropRightProperties
<1>3. /\ legacy \in Seq(Segments) /\ Len(legacy) = Len(d) - 1
      /\ \A i \in 1 .. Len(d) - 1 : legacy[i] = Trimmed(d[i])
  <2> HIDE DEF shorter
  <2> QED BY <1>2, TrimLinesFit, TrimLinesAt
<1>4. /\ Rebuild(a).line = lines /\ Rebuild(a).postTown = legacy[Len(legacy)]
      /\ Rebuild(a).postCode = a[Len(a)]
  BY DEF Rebuild
<1> DEFINE n == Len(legacy)
<1>5. n \in Nat /\ 1 < n /\ n - 1 = Len(d) - 2 /\ n = Len(d) - 1 /\ n - 1 \in Nat
  <2> HIDE DEF legacy
  <2> QED BY <1>1, <1>3
<1> HIDE DEF shorter, legacy
<1>6. /\ lines \in Seq(Segments) /\ Len(lines) = n - 1
      /\ \A i \in 1 .. n - 1 : lines[i] = legacy[i]
  <2>1. 1 \in Nat /\ 1 < Len(legacy)
    BY <1>5
  <2> QED BY <1>3, <2>1, DropRightProperties
<1> HIDE DEF lines
<1>7. DOMAIN lines = 1 .. n - 1
  BY <1>5, <1>6, LenProperties
<1>8. n \in 1 .. n /\ \A i \in 1 .. n - 1 : i \in 1 .. n
  BY <1>5
<1>9. \A i \in 1 .. n : legacy[i] = Trimmed(d[i])
  BY <1>3, <1>5
<1>10. \A i \in 1 .. n - 1 : lines[i] = Trimmed(d[i])
  BY <1>6, <1>8, <1>9
<1>11. legacy[n] = Trimmed(d[n])
  BY <1>8, <1>9
<1> HIDE DEF n
<1>12. Len(lines) = n - 1 /\ legacy[n] = Trimmed(d[Len(d) - 1])
  BY <1>5, <1>6, <1>11
<1> QED BY <1>4, <1>5, <1>7, <1>10, <1>12 DEF n

\* What fits is not trimmed, and what was cut at the front fits.
LEMMA TrimmedOnce ==
  /\ Trimmed(EmptyLine) = EmptyLine /\ IsEmpty(EmptyLine) /\ ~TooLong(EmptyLine)
  /\ \A s \in Segments : TooLong(s) => Trimmed(Front(s)) = Front(s) /\ ~IsEmpty(s)
<1>1. Size(EmptyLine) = 0 /\ ~TooLong(EmptyLine)
  BY LengthsAssumption DEF EmptyLine, Size, TooLong
<1>2. ASSUME NEW s \in Segments, TooLong(s)
      PROVE  Trimmed(Front(s)) = Front(s) /\ ~IsEmpty(s)
  <2>1. Size(Front(s)) = LineMaxLength
    BY <1>2, CutsAreSegments
  <2>2. ~TooLong(Front(s))
    BY <2>1, LengthsAssumption DEF TooLong
  <2>3. Size(s) > 0
    BY <1>2, LengthsAssumption DEF TooLong, Size, Segments
  <2> QED BY <2>2, <2>3 DEF Trimmed, IsEmpty
<1> QED BY <1>1, <1>2 DEF Trimmed, IsEmpty

\* Lines in front of what is left of an address.
LEMMA NewFront ==
  ASSUME NEW a \in Seq(Segments), NEW n \in Nat, n < Len(a), NEW p \in Seq(Segments)
  PROVE  /\ p \o DropLeft(a, n) \in Seq(Segments)
         /\ Len(p \o DropLeft(a, n)) = Len(p) + (Len(a) - n)
         /\ \A i \in 1 .. Len(p) : (p \o DropLeft(a, n))[i] = p[i]
         /\ \A i \in 1 .. Len(a) - n : (p \o DropLeft(a, n))[i + Len(p)] = a[i + n]
<1> DEFINE r == DropLeft(a, n)
<1>1. Len(a) \in Nat /\ Len(p) \in Nat
  BY LenProperties
<1>2. /\ r \in Seq(Segments) /\ Len(r) = Len(a) - n
      /\ \A i \in 1 .. Len(a) - n : r[i] = a[i + n]
  BY DropLeftProperties, DropLeftAt
<1> HIDE DEF r
<1>3. /\ p \o r \in Seq(Segments) /\ Len(p \o r) = Len(p) + Len(r)
      /\ \A i \in 1 .. Len(p) + Len(r) : (p \o r)[i] = IF i <= Len(p) THEN p[i] ELSE r[i - Len(p)]
  BY <1>2, ConcatProperties
<1>4. \A i \in 1 .. Len(p) : (p \o r)[i] = p[i]
  BY <1>1, <1>2, <1>3
<1>5. ASSUME NEW i \in 1 .. Len(a) - n PROVE (p \o r)[i + Len(p)] = a[i + n]
  <2>1. /\ i + Len(p) \in 1 .. Len(p) + Len(r) /\ ~(i + Len(p) <= Len(p))
        /\ i + Len(p) - Len(p) = i
    BY <1>1, <1>2
  <2>2. (p \o r)[i + Len(p)] = r[i]
    BY <1>3, <2>1
  <2> QED BY <1>2, <2>2
<1> QED BY <1>2, <1>3, <1>4, <1>5 DEF r

\* The missing lines of an address of one line come after it,
LEMMA EmptyLinesOfThree ==
  ASSUME NEW a \in Seq(Segments), Len(a) = 3
  PROVE  LET e == AssignEmptyLines(a)
         IN  /\ e \in Seq(Segments) /\ Len(e) = 4
             /\ e[1] = a[1] /\ e[2] = EmptyLine /\ e[3] = a[2]
<1> DEFINE p == <<a[1], EmptyLine>>
           r == Tail(a)
<1>1. a[1] \in Segments /\ a # << >>
  BY ElementOfSeq
<1>2. p \in Seq(Segments) /\ Len(p) = 2 /\ p[1] = a[1] /\ p[2] = EmptyLine
  BY <1>1, SuppliedLines
<1>3. r \in Seq(Segments) /\ Len(r) = 2 /\ r[1] = a[2]
  <2>1. r \in Seq(Segments) /\ Len(r) = Len(a) - 1
    BY <1>1, HeadTailProperties
  <2>2. \A i \in 1 .. Len(r) : r[i] = a[i + 1]
    BY <1>1, HeadTailProperties
  <2> HIDE DEF r
  <2>3. Len(r) = 2
    BY <2>1
  <2> QED BY <2>1, <2>2, <2>3
<1>4. AssignEmptyLines(a) = p \o r
  BY DEF AssignEmptyLines
<1> HIDE DEF p, r
<1>5. /\ p \o r \in Seq(Segments) /\ Len(p \o r) = Len(p) + Len(r)
      /\ \A i \in 1 .. Len(p) + Len(r) : (p \o r)[i] = IF i <= Len(p) THEN p[i] ELSE r[i - Len(p)]
  BY <1>2, <1>3, ConcatProperties
<1>6. (p \o r)[1] = p[1] /\ (p \o r)[2] = p[2] /\ (p \o r)[3] = r[1]
  BY <1>2, <1>3, <1>5
<1> QED BY <1>2, <1>3, <1>4, <1>5, <1>6

\* and that of an address of two lines after them.
LEMMA EmptyLinesOfFour ==
  ASSUME NEW a \in Seq(Segments), Len(a) = 4
  PROVE  LET e == AssignEmptyLines(a)
         IN  /\ e \in Seq(Segments) /\ Len(e) = 5
             /\ e[1] = a[1] /\ e[2] = a[2] /\ e[3] = EmptyLine /\ e[4] = a[3]
<1> DEFINE p == <<a[1], a[2], EmptyLine>>
<1>1. a[1] \in Segments /\ a[2] \in Segments
  BY ElementOfSeq
<1>2. /\ p \in Seq(Segments) /\ Len(p) = 3
      /\ p[1] = a[1] /\ p[2] = a[2] /\ p[3] = EmptyLine
  BY <1>1, SuppliedLines
<1>3. AssignEmptyLines(a) = p \o DropLeft(a, 2)
  BY DEF AssignEmptyLines
<1> HIDE DEF p
<1>4. /\ p \o DropLeft(a, 2) \in Seq(Segments)
      /\ Len(p \o DropLeft(a, 2)) = Len(p) + (Len(a) - 2)
      /\ \A i \in 1 .. Len(p) : (p \o DropLeft(a, 2))[i] = p[i]
      /\ \A i \in 1 .. Len(a) - 2 : (p \o DropLeft(a, 2))[i + Len(p)] = a[i + 2]
  <2>1. 2 \in Nat /\ 2 < Len(a)
    OBVIOUS
  <2> QED BY <1>2, <2>1, NewFront
<1>5. (p \o DropLeft(a, 2))[1 + Len(p)] = a[1 + 2]
  BY <1>4
<1> QED BY <1>2, <1>3, <1>4, <1>5

\* An address of one line, town and postcode: what the line has too much goes to
\* the second one.
LEMMA RebuildOfThree ==
  ASSUME NEW a \in Seq(Segments), Len(a) = 3
  PROVE  /\ DOMAIN Rebuild(a).line = 1 .. 2 /\ Len(Rebuild(a).line) = 2
         /\ Rebuild(a).line[1] = Trimmed(a[1])
         /\ TooLong(a[1]) => Rebuild(a).line[2] = Trimmed(Rest(a[1]))
         /\ ~TooLong(a[1]) => Rebuild(a).line[2] = EmptyLine
         /\ Rebuild(a).postTown = Trimmed(a[2])
         /\ Rebuild(a).postCode = a[3]
<1> DEFINE e == AssignEmptyLines(a)
           d == AddressLinesDecider(e)
<1>1. a[1] \in Segments
  BY ElementOfSeq
<1>2. /\ e \in Seq(Segments) /\ Len(e) = 4
      /\ e[1] = a[1] /\ e[2] = EmptyLine /\ e[3] = a[2]
  BY EmptyLinesOfThree
<1>3. /\ d \in Seq(Segments) /\ Len(d) = 4 /\ Trimmed(d[1]) = Trimmed(a[1])
      /\ TooLong(a[1]) => d[2] = Rest(a[1])
      /\ ~TooLong(a[1]) => d[2] = EmptyLine
      /\ d[3] = a[2]
  <2>1. CASE TooLong(a[1])
    <3> DEFINE p == <<Front(a[1]), Rest(a[1])>>
    <3>1. d = p \o DropLeft(e, 2)
      <4> HIDE DEF e
      <4> QED BY <1>2, <2>1, TrimmedOnce DEF AddressLinesDecider
    <3>2. p \in Seq(Segments) /\ Len(p) = 2 /\ p[1] = Front(a[1]) /\ p[2] = Rest(a[1])
      BY <1>1, <2>1, CutsAreSegments
    <3> HIDE DEF e, p
    <3>3. /\ p \o DropLeft(e, 2) \in Seq(Segments)
          /\ Len(p \o DropLeft(e, 2)) = Len(p) + (Len(e) - 2)
          /\ \A i \in 1 .. Len(p) : (p \o DropLeft(e, 2))[i] = p[i]
          /\ \A i \in 1 .. Len(e) - 2 : (p \o DropLeft(e, 2))[i + Len(p)] = e[i + 2]
      <4>1. 2 \in Nat /\ 2 < Len(e)
        BY <1>2
      <4> QED BY <1>2, <3>2, <4>1, NewFront
    <3>4. (p \o DropLeft(e, 2))[1 + Len(p)] = e[1 + 2]
      BY <1>2, <3>3
    <3>5. Trimmed(Front(a[1])) = Trimmed(a[1])
      BY <1>1, <2>1, TrimmedOnce DEF Trimmed
    <3> HIDE DEF d
    <3> QED BY <1>2, <2>1, <3>1, <3>2, <3>3, <3>4, <3>5
  <2>2. CASE ~TooLong(a[1])
    <3>1. d = e
      <4> HIDE DEF e
      <4> QED BY <1>2, <2>2, TrimmedOnce DEF AddressLinesDecider
    <3> HIDE DEF d, e
    <3> QED BY <1>2, <2>2, <3>1
  <2> QED BY <2>1, <2>2
<1>4. Len(a) >= 3 /\ d = AddressLinesDecider(AssignEmptyLines(a))
  OBVIOUS
<1> HIDE DEF d, e
<1>5. /\ DOMAIN Rebuild(a).line = 1 .. Len(d) - 2
      /\ Len(Rebuild(a).line) = Len(d) - 2
      /\ \A i \in 1 .. Len(d) - 2 : Rebuild(a).line[i] = Trimmed(d[i])
      /\ Rebuild(a).postTown = Trimmed(d[Len(d) - 1])
      /\ Rebuild(a).postCode = a[Len(a)]
  <2>1. Len(d) >= 4
    BY <1>3
  <2> QED BY <1>3, <1>4, <2>1, RebuildLines
<1>6. /\ Rebuild(a).line[1] = Trimmed(d[1]) /\ Rebuild(a).line[2] = Trimmed(d[2])
      /\ Rebuild(a).postTown = Trimmed(d[3])
  BY <1>3, <1>5
<1> QED BY <1>3, <1>5, <1>6, TrimmedOnce

\* An address of two lines, town and postcode: what the first has too much goes
\* to the second, that one to the third; or the second's goes to the third.
LEMMA RebuildOfFour ==
  ASSUME NEW a \in Seq(Segments), Len(a) = 4, ~IsEmpty(a[2])
  PROVE  /\ DOMAIN Rebuild(a).line = 1 .. 3 /\ Len(Rebuild(a).line) = 3
         /\ Rebuild(a).line[1] = Trimmed(a[1])
         /\ TooLong(a[1]) => /\ Rebuild(a).line[2] = Trimmed(Rest(a[1]))
                             /\ Rebuild(a).line[3] = Trimmed(a[2])
         /\ ~TooLong(a[1]) => /\ Rebuild(a).line[2] = Trimmed(a[2])
                              /\ TooLong(a[2]) => Rebuild(a).line[3] = Trimmed(Rest(a[2]))
                              /\ ~TooLong(a[2]) => Rebuild(a).line[3] = EmptyLine
         /\ Rebuild(a).postTown = Trimmed(a[3])
         /\ Rebuild(a).postCode = a[4]
<1> DEFINE e == AssignEmptyLines(a)
           d == AddressLinesDecider(e)
<1>1. a[1] \in Segments /\ a[2] \in Segments
  BY ElementOfSeq
<1>2. /\ e \in Seq(Segments) /\ Len(e) = 5
      /\ e[1] = a[1] /\ e[2] = a[2] /\ e[3] = EmptyLine /\ e[4] = a[3]
  BY EmptyLinesOfFour
<1>3. /\ d \in Seq(Segments) /\ Len(d) = 5 /\ Trimmed(d[1]) = Trimmed(a[1])
      /\ TooLong(a[1]) => d[2] = Rest(a[1]) /\ d[3] = a[2]
      /\ ~TooLong(a[1]) => /\ Trimmed(d[2]) = Trimmed(a[2])
                           /\ TooLong(a[2]) => d[3] = Rest(a[2])
                           /\ ~TooLong(a[2]) => d[3] = EmptyLine
      /\ d[4] = a[3]
  <2> DEFINE front == IF TooLong(a[1]) THEN <<Front(a[1]), Rest(a[1]), a[2]>>
                      ELSE <<a[1], Front(a[2]), Rest(a[2])>>
  <2>1. CASE TooLong(a[1]) \/ TooLong(a[2])
    <3>1. d = front \o DropLeft(e, 3)
      <4> HIDE DEF e
      <4> QED BY <1>2, <2>1, TrimmedOnce DEF AddressLinesDecider
    <3>2. /\ front \in Seq(Segments) /\ Len(front) = 3
          /\ TooLong(a[1]) => front[1] = Front(a[1]) /\ front[2] = Rest(a[1]) /\ front[3] = a[2]
          /\ ~TooLong(a[1]) => front[1] = a[1] /\ front[2] = Front(a[2]) /\ front[3] = Rest(a[2])
      <4>1. CASE TooLong(a[1])
        BY <1>1, <4>1, CutsAreSegments
      <4>2. CASE ~TooLong(a[1])
        BY <1>1, <2>1, <4>2, CutsAreSegments
      <4> QED BY <4>1, <4>2
    <3> HIDE DEF e, front
    <3>3. /\ front \o DropLeft(e, 3) \in Seq(Segments)
          /\ Len(front \o DropLeft(e, 3)) = Len(front) + (Len(e) - 3)
          /\ \A i \in 1 .. Len(front) : (front \o DropLeft(e, 3))[i] = front[i]
          /\ \A i \in 1 .. Len(e) - 3 : (front \o DropLeft(e, 3))[i + Len(front)] = e[i + 3]
      <4>1. 3 \in Nat /\ 3 < Len(e)
        BY <1>2
      <4> QED BY <1>2, <3>2, <4>1, NewFront
    <3>4. (front \o DropLeft(e, 3))[1 + Len(front)] = e[1 + 3]
      BY <1>2, <3>3
    <3>5. /\ TooLong(a[1]) => Trimmed(Front(a[1])) = Trimmed(a[1])
          /\ TooLong(a[2]) => Trimmed(Front(a[2])) = Trimmed(a[2])
      BY <1>1, TrimmedOnce DEF Trimmed
    <3> HIDE DEF d
    <3>6. /\ d \in Seq(Segments) /\ Len(d) = 5 /\ d[4] = a[3]
          /\ d[1] = front[1] /\ d[2] = front[2] /\ d[3] = front[3]
      BY <1>2, <3>1, <3>2, <3>3, <3>4
    <3> QED BY <2>1, <3>2, <3>5, <3>6
  <2>2. CASE ~TooLong(a[1]) /\ ~TooLong(a[2])
    <3>1. d = e
      <4> HIDE DEF e
      <4> QED BY <1>2, <2>2, TrimmedOnce DEF AddressLinesDecider
    <3> HIDE DEF d, e
    <3> QED BY <1>2, <2>2, <3>1
  <2> QED BY <2>1, <2>2
<1>4. Len(a) >= 3 /\ d = AddressLinesDecider(AssignEmptyLines(a))
  OBVIOUS
<1> HIDE DEF d, e
<1>5. /\ DOMAIN Rebuild(a).line = 1 .. Len(d) - 2
      /\ Len(Rebuild(a).line) = Len(d) - 2
      /\ \A i \in 1 .. Len(d) - 2 : Rebuild(a).line[i] = Trimmed(d[i])
      /\ Rebuild(a).postTown = Trimmed(d[Len(d) - 1])
      /\ Rebuild(a).postCode = a[Len(a)]
  <2>1. Len(d) >= 4
    BY <1>3
  <2> QED BY <1>3, <1>4, <2>1, RebuildLines
<1>6. /\ Rebuild(a).line[1] = Trimmed(d[1]) /\ Rebuild(a).line[2] = Trimmed(d[2])
      /\ Rebuild(a).line[3] = Trimmed(d[3]) /\ Rebuild(a).postTown = Trimmed(d[4])
  BY <1>3, <1>5
<1> QED BY <1>3, <1>5, <1>6, TrimmedOnce

\* An address of three lines or more: nothing is moved.
LEMMA RebuildOfMore ==
  ASSUME NEW a \in Seq(Segments), Len(a) >= 5, ~IsEmpty(a[2]), ~IsEmpty(a[3])
  PROVE  /\ DOMAIN Rebuild(a).line = 1 .. Len(a) - 2 /\ Len(Rebuild(a).line) = Len(a) - 2
         /\ \A i \in 1 .. Len(a) - 2 : Rebuild(a).line[i] = Trimmed(a[i])
         /\ Rebuild(a).postTown = Trimmed(a[Len(a) - 1])
         /\ Rebuild(a).postCode = a[Len(a)]
<1>1. Len(a) \in Nat /\ Len(a) # 3 /\ Len(a) # 4 /\ Len(a) >= 4 /\ Len(a) >= 3
  <2>1. Len(a) \in Nat
    BY LenProperties
  <2>2. \A n \in Nat : n >= 5 => n # 3 /\ n # 4 /\ n >= 4 /\ n >= 3
    OBVIOUS
  <2> QED BY <2>1, <2>2
<1>2. AssignEmptyLines(a) = a
  BY <1>1 DEF AssignEmptyLines
<1>3. AddressLinesDecider(a) = a
  BY DEF AddressLinesDecider
<1>4. a = AddressLinesDecider(AssignEmptyLines(a))
  BY <1>2, <1>3
<1> QED BY <1>1, <1>4, RebuildLines

----------
(* The order of what is sent.                                              *)

\* r goes on after s: ReadsAsEntered's order of two segments.
GoesOn(s, r) == s.line < r.line \/ (s.line = r.line /\ s.to <= r.from)

\* Record d reads as address a was entered: ReadsAsEntered of one record.
Reads(a, d) ==
  /\ \A i, j \in DOMAIN d.line :
       i < j /\ d.line[i].line # 0 /\ d.line[j].line # 0 => GoesOn(d.line[i], d.line[j])
  /\ \A k \in 1 .. Len(a) - 2 : \E j \in DOMAIN d.line : d.line[j].line = k /\ d.line[j].from = 0
  /\ \A j \in DOMAIN d.line : d.line[j].line \in 0 .. Len(a) - 2
  /\ d.postTown.line = Len(a) - 1 /\ d.postTown.from = 0
  /\ d.postCode.line = Len(a)

\* Trimming keeps the beginning of a line; the rest goes on where it was cut.
LEMMA PartsOfALine ==
  ASSUME NEW s \in Segments, s.from = 0
  PROVE  /\ Trimmed(s).line = s.line /\ Trimmed(s).from = 0
         /\ TooLong(s) => /\ Trimmed(s).to = LineMaxLength
                          /\ Trimmed(Rest(s)).line = s.line
                          /\ Trimmed(Rest(s)).from = LineMaxLength
<1>1. CASE TooLong(s)
  <2>1. /\ Front(s).line = s.line /\ Front(s).from = 0 /\ Front(s).to = LineMaxLength
        /\ Rest(s).line = s.line /\ Rest(s).from = LineMaxLength /\ Rest(s) \in Segments
    <3>1. s.from + LineMaxLength = LineMaxLength
      BY LengthsAssumption
    <3>2. Front(s).line = s.line /\ Front(s).from = 0 /\ Front(s).to = s.from + LineMaxLength
      BY DEF Front, Segments
    <3>3. Rest(s).line = s.line /\ Rest(s).from = s.from + LineMaxLength
      BY DEF Rest, Segments
    <3> QED BY <1>1, <3>1, <3>2, <3>3, CutsAreSegments
  <2>2. Front(Rest(s)).line = s.line /\ Front(Rest(s)).from = LineMaxLength
    <3> DEFINE r == Rest(s)
    <3>1. r \in Segments /\ r.line = s.line /\ r.from = LineMaxLength
      BY <2>1
    <3> HIDE DEF r
    <3>2. Front(r).line = s.line /\ Front(r).from = LineMaxLength
      BY <3>1, LengthsAssumption DEF Front, Segments
    <3> QED BY <3>2 DEF r
  <2> QED BY <1>1, <2>1, <2>2 DEF Trimmed
<1>2. CASE ~TooLong(s)
  BY <1>2 DEF Trimmed
<1> QED BY <1>1, <1>2

\* The lines of an entered address.
LEMMA EnteredLines ==
  ASSUME NEW a, Entered(a)
  PROVE  /\ Len(a) \in Nat
         /\ \A i \in 1 .. Len(a) : /\ a[i] \in Segments /\ a[i].line = i /\ a[i].from = 0
                                   /\ a[i].to >= 1 /\ ~IsEmpty(a[i])
<1>1. Len(a) \in Nat /\ \A i \in 1 .. Len(a) : a[i] \in Segments
  BY LenProperties, ElementOfSeq DEF Entered
<1> QED BY <1>1 DEF Entered, IsEmpty, Size, Segments

\* An address of town and postcode only, with the supplied line.
LEMMA SuppliedAddress ==
  ASSUME NEW a, Entered(a), Len(a) = 2
  PROVE  LET m == MandatoryLines(a)
         IN  /\ m \in Seq(Segments) /\ Len(m) = 3
             /\ m[1] = BuildingNameOrNumberHolder /\ m[2] = a[1] /\ m[3] = a[2]
<1> DEFINE h == <<BuildingNameOrNumberHolder>>
<1>1. h \in Seq(Segments) /\ Len(h) = 1 /\ h[1] = BuildingNameOrNumberHolder
  BY SuppliedLines
<1>2. MandatoryLines(a) = h \o a
  BY DEF MandatoryLines
<1> HIDE DEF h
<1>3. a \in Seq(Segments)
  BY DEF Entered
<1>4. /\ h \o a \in Seq(Segments) /\ Len(h \o a) = Len(h) + Len(a)
      /\ \A i \in 1 .. Len(h) + Len(a) : (h \o a)[i] = IF i <= Len(h) THEN h[i] ELSE a[i - Len(h)]
  BY <1>1, <1>3, ConcatProperties
<1>5. (h \o a)[1] = h[1] /\ (h \o a)[2] = a[1] /\ (h \o a)[3] = a[2]
  BY <1>1, <1>4
<1> QED BY <1>1, <1>2, <1>4, <1>5

\* A record that is not rebuilt has the lines as they are.
LEMMA StandardLines ==
  ASSUME NEW a \in Seq(Segments), Len(a) >= 3
  PROVE  LET d == BuildStandard(a)
         IN  /\ DOMAIN d.line = 1 .. Len(a) - 2 /\ Len(d.line) = Len(a) - 2
             /\ \A i \in 1 .. Len(a) - 2 : d.line[i] = a[i]
             /\ d.postTown = a[Len(a) - 1] /\ d.postCode = a[Len(a)]
<1>1. Len(a) \in Nat
  BY LenProperties
<1>2. /\ DropRight(a, 2) \in Seq(Segments)
      /\ Len(DropRight(a, 2)) = Len(a) - 2
      /\ \A i \in 1 .. Len(a) - 2 : DropRight(a, 2)[i] = a[i]
  BY <1>1, DropRightProperties
<1>3. DOMAIN DropRight(a, 2) = 1 .. Len(a) - 2
  BY <1>2, LenProperties
<1> QED BY <1>1, <1>2, <1>3 DEF BuildStandard

\* Every record whose lines are the entered ones, whole or trimmed, reads well.
LEMMA LineByLineReads ==
  ASSUME NEW a, Entered(a), Len(a) >= 3, NEW d,
         DOMAIN d.line = 1 .. Len(a) - 2,
         \A i \in 1 .. Len(a) - 2 : d.line[i] \in {a[i], Trimmed(a[i])},
         d.postTown \in {a[Len(a) - 1], Trimmed(a[Len(a) - 1])}, d.postCode = a[Len(a)]
  PROVE  Reads(a, d)
<1>1. /\ Len(a) \in Nat
      /\ \A i \in 1 .. Len(a) : /\ a[i].line = i /\ a[i].from = 0
                                /\ Trimmed(a[i]).line = i /\ Trimmed(a[i]).from = 0
  BY EnteredLines, PartsOfALine
<1>2. Len(a) - 1 \in 1 .. Len(a) /\ Len(a) \in 1 .. Len(a) /\ 1 .. Len(a) - 2 \subseteq 1 .. Len(a)
  BY <1>1
<1>3. \A i \in 1 .. Len(a) - 2 : d.line[i].line = i /\ d.line[i].from = 0
  BY <1>1, <1>2
<1>4. /\ d.postTown.line = Len(a) - 1 /\ d.postTown.from = 0 /\ d.postCode.line = Len(a)
  BY <1>1, <1>2
<1>5. \A i, j \in DOMAIN d.line : i < j => GoesOn(d.line[i], d.line[j])
  BY <1>3 DEF GoesOn
<1>6. \A j \in DOMAIN d.line : d.line[j].line \in 0 .. Len(a) - 2
  BY <1>1, <1>3
<1> QED BY <1>3, <1>4, <1>5, <1>6 DEF Reads

\* The record made of an entered address reads as it was entered.
LEMMA FromReads ==
  ASSUME NEW a, Entered(a)
  PROVE  Reads(a, From(a))
<1> DEFINE m == MandatoryLines(a)
           d == From(a)
<1>0. a \in Seq(Segments)
  BY DEF Entered
<1>6. /\ Len(a) >= 3 => Len(a) # 2
      /\ Len(a) >= 5 => Len(a) # 2 /\ Len(a) >= 3
      /\ Len(a) = 2 \/ Len(a) = 3 \/ Len(a) = 4 \/ Len(a) >= 5
      /\ Len(a) = 3 \/ Len(a) = 4 => Len(a) >= 3
  <2>1. Len(a) \in Nat /\ Len(a) >= 2
    BY EnteredLines DEF Entered
  <2>2. \A n \in Nat : /\ n >= 3 => n # 2
                       /\ n >= 5 => n # 2 /\ n >= 3
                       /\ n >= 2 => n = 2 \/ n = 3 \/ n = 4 \/ n >= 5
                       /\ n = 3 \/ n = 4 => n >= 3
    OBVIOUS
  <2> QED BY <2>1, <2>2
<1>1. CASE Len(a) = 2
  <2>1. /\ m \in Seq(Segments) /\ Len(m) = 3
        /\ m[1] = BuildingNameOrNumberHolder /\ m[2] = a[1] /\ m[3] = a[2]
    BY <1>1, SuppliedAddress
  <2>2. /\ a[1].line = 1 /\ a[1].from = 0 /\ a[2].line = 2
        /\ Trimmed(a[1]).line = 1 /\ Trimmed(a[1]).from = 0
    BY <1>0, <1>1, EnteredLines, PartsOfALine
  <2>3. BuildingNameOrNumberHolder.line = 0 /\ ~TooLong(BuildingNameOrNumberHolder)
    BY LengthsAssumption DEF BuildingNameOrNumberHolder, TooLong, Size
  <2>4. EmptyLine.line = 0
    BY DEF EmptyLine
  <2>5. /\ \A j \in DOMAIN d.line : d.line[j].line = 0
        /\ d.postTown.line = 1 /\ d.postTown.from = 0 /\ d.postCode.line = 2
    <3>1. CASE LinesOverMaxLength(a)
      <4>1. d = Rebuild(m)
        BY <3>1 DEF From
      <4> HIDE DEF m, d
      <4>2. /\ DOMAIN d.line = 1 .. 2
            /\ d.line[1] = Trimmed(m[1]) /\ d.line[2] = EmptyLine
            /\ d.postTown = Trimmed(m[2]) /\ d.postCode = m[3]
        BY <2>1, <2>3, <4>1, RebuildOfThree
      <4>3. d.line[1].line = 0 /\ d.line[2].line = 0
        BY <2>1, <2>3, <2>4, <4>2 DEF Trimmed
      <4> QED BY <2>1, <2>2, <4>2, <4>3
    <3>2. CASE ~LinesOverMaxLength(a)
      <4>1. d = BuildStandard(m)
        BY <3>2 DEF From
      <4> HIDE DEF m, d
      <4>2. /\ DOMAIN d.line = 1 .. 1 /\ d.line[1] = m[1]
            /\ d.postTown = m[2] /\ d.postCode = m[3]
        <5>1. Len(m) >= 3 /\ Len(m) - 2 = 1 /\ Len(m) - 1 = 2
          BY <2>1
        <5>2. /\ DOMAIN d.line = 1 .. Len(m) - 2
              /\ \A i \in 1 .. Len(m) - 2 : d.line[i] = m[i]
              /\ d.postTown = m[Len(m) - 1] /\ d.postCode = m[Len(m)]
          BY <2>1, <4>1, <5>1, StandardLines
        <5> QED BY <2>1, <5>1, <5>2
      <4> QED BY <4>2, <2>3, <2>2, <2>1
    <3> QED BY <3>1, <3>2
  <2> HIDE DEF d, m
  <2> QED BY <1>1, <2>5 DEF Reads, d
<1>2. CASE Len(a) >= 3 /\ ~LinesOverMaxLength(a)
  <2>0. Len(a) # 2
    BY <1>6, <1>2
  <2>1. d = BuildStandard(a)
    BY <1>2, <2>0 DEF From, MandatoryLines
  <2> HIDE DEF d
  <2> QED BY <1>0, <1>2, <2>1, StandardLines, LineByLineReads DEF d
<1>3. CASE Len(a) = 3 /\ LinesOverMaxLength(a)
  <2>1. d = Rebuild(a)
    BY <1>3 DEF From, MandatoryLines
  <2> HIDE DEF d
  <2>2. /\ DOMAIN d.line = 1 .. 2 /\ d.line[1] = Trimmed(a[1])
        /\ TooLong(a[1]) => d.line[2] = Trimmed(Rest(a[1]))
        /\ ~TooLong(a[1]) => d.line[2] = EmptyLine
        /\ d.postTown = Trimmed(a[2]) /\ d.postCode = a[3]
    BY <1>0, <1>3, <2>1, RebuildOfThree
  <2>3. /\ Trimmed(a[1]).line = 1 /\ Trimmed(a[1]).from = 0
        /\ TooLong(a[1]) => /\ Trimmed(a[1]).to = LineMaxLength
                            /\ Trimmed(Rest(a[1])).line = 1
                            /\ Trimmed(Rest(a[1])).from = LineMaxLength
        /\ Trimmed(a[2]).line = 2 /\ Trimmed(a[2]).from = 0 /\ a[3].line = 3
    BY <1>3, EnteredLines, PartsOfALine
  <2>4. EmptyLine.line = 0
    BY DEF EmptyLine
  <2>5. \A i, j \in DOMAIN d.line :
          i < j /\ d.line[i].line # 0 /\ d.line[j].line # 0 => GoesOn(d.line[i], d.line[j])
    <3>1. d.line[2].line # 0 => GoesOn(d.line[1], d.line[2])
      BY <2>2, <2>3, <2>4, LengthsAssumption DEF GoesOn
    <3> QED BY <2>2, <3>1
  <2>6. /\ d.line[1].line = 1 /\ d.line[1].from = 0 /\ d.line[2].line \in 0 .. 1
    BY <2>2, <2>3, <2>4
  <2>7. Len(a) - 2 = 1 /\ Len(a) - 1 = 2
    BY <1>3
  <2> QED BY <1>3, <2>2, <2>3, <2>5, <2>6, <2>7 DEF Reads, d
<1>4. CASE Len(a) = 4 /\ LinesOverMaxLength(a)
  <2>1. d = Rebuild(a)
    BY <1>4 DEF From, MandatoryLines
  <2> HIDE DEF d
  <2>2. /\ DOMAIN d.line = 1 .. 3 /\ d.line[1] = Trimmed(a[1])
        /\ TooLong(a[1]) => d.line[2] = Trimmed(Rest(a[1])) /\ d.line[3] = Trimmed(a[2])
        /\ ~TooLong(a[1]) => /\ d.line[2] = Trimmed(a[2])
                             /\ TooLong(a[2]) => d.line[3] = Trimmed(Rest(a[2]))
                             /\ ~TooLong(a[2]) => d.line[3] = EmptyLine
        /\ d.postTown = Trimmed(a[3]) /\ d.postCode = a[4]
    BY <1>0, <1>4, <2>1, EnteredLines, RebuildOfFour
  <2>3. /\ \A i \in 1 .. 2 :
             /\ Trimmed(a[i]).line = i /\ Trimmed(a[i]).from = 0
             /\ TooLong(a[i]) => /\ Trimmed(a[i]).to = LineMaxLength
                                 /\ Trimmed(Rest(a[i])).line = i
                                 /\ Trimmed(Rest(a[i])).from = LineMaxLength
        /\ Trimmed(a[3]).line = 3 /\ Trimmed(a[3]).from = 0 /\ a[4].line = 4
    <3>1. /\ \A i \in 1 .. 3 : a[i] \in Segments /\ a[i].line = i /\ a[i].from = 0
          /\ a[4].line = 4
      BY <1>4, EnteredLines
    <3>2. \A i \in 1 .. 2 : i \in 1 .. 3
      OBVIOUS
    <3> QED BY <3>1, <3>2, PartsOfALine
  <2>4. EmptyLine.line = 0
    BY DEF EmptyLine
  <2>5. /\ GoesOn(d.line[1], d.line[2])
        /\ d.line[3].line # 0 => GoesOn(d.line[1], d.line[3]) /\ GoesOn(d.line[2], d.line[3])
        /\ d.line[1].line = 1 /\ d.line[1].from = 0
        /\ d.line[2].line \in 1 .. 2 /\ d.line[3].line \in 0 .. 2
        /\ \E j \in 2 .. 3 : d.line[j].line = 2 /\ d.line[j].from = 0
    <3>1. CASE TooLong(a[1])
      BY <2>2, <2>3, <3>1, LengthsAssumption DEF GoesOn
    <3>2. CASE ~TooLong(a[1]) /\ TooLong(a[2])
      BY <2>2, <2>3, <3>2, LengthsAssumption DEF GoesOn
    <3>3. CASE ~TooLong(a[1]) /\ ~TooLong(a[2])
      BY <2>2, <2>3, <2>4, <3>3 DEF GoesOn
    <3> QED BY <3>1, <3>2, <3>3
  <2>6. \A i, j \in DOMAIN d.line :
          i < j /\ d.line[i].line # 0 /\ d.line[j].line # 0 => GoesOn(d.line[i], d.line[j])
    BY <2>2, <2>5
  <2>7. Len(a) - 2 = 2 /\ Len(a) - 1 = 3
    BY <1>4
  <2>8. \A k \in 1 .. 2 : \E j \in DOMAIN d.line : d.line[j].line = k /\ d.line[j].from = 0
    BY <2>2, <2>5
  <2>9. \A j \in DOMAIN d.line : d.line[j].line \in 0 .. 2
    BY <2>2, <2>5
  <2> QED BY <1>4, <2>2, <2>3, <2>6, <2>7, <2>8, <2>9 DEF Reads, d
<1>5. CASE Len(a) >= 5 /\ LinesOverMaxLength(a)
  <2>0. Len(a) # 2 /\ Len(a) >= 3
    BY <1>6, <1>5
  <2>1. d = Rebuild(a)
    BY <1>5, <2>0 DEF From, MandatoryLines
  <2> HIDE DEF d
  <2>2. ~IsEmpty(a[2]) /\ ~IsEmpty(a[3]) /\ Len(a) >= 3
    BY <1>5, <2>0, EnteredLines
  <2>3. /\ DOMAIN d.line = 1 .. Len(a) - 2
        /\ \A i \in 1 .. Len(a) - 2 : d.line[i] = Trimmed(a[i])
        /\ d.postTown = Trimmed(a[Len(a) - 1])
        /\ d.postCode = a[Len(a)]
    BY <1>0, <1>5, <2>1, <2>2, RebuildOfMore
  <2> QED BY <1>0, <2>2, <2>3, LineByLineReads DEF d
<1> QED BY <1>6, <1>1, <1>2, <1>3, <1>4, <1>5

----------
(* What is cut off.                                                        *)

\* Lost and CutOnlyWhenFull, of one address and its record.
LostIn(a, d, i) ==
  \E p \in 0 .. Size(a[i]) - 1 : \A j \in DOMAIN d.line : ~Holds(d.line[j], i, p)

CutWhenFull(a, d) ==
  \/ \A i \in 1 .. Len(a) - 2 : ~LostIn(a, d, i)
  \/ Len(d.line) = 3 /\ \A j \in DOMAIN d.line : ~IsEmpty(d.line[j])

\* A line sent whole is not lost.
LEMMA WholeLine ==
  ASSUME NEW a, Entered(a), NEW i \in 1 .. Len(a), NEW d,
         NEW j \in DOMAIN d.line, d.line[j] = a[i]
  PROVE  ~LostIn(a, d, i)
<1>1. a[i].line = i /\ a[i].from = 0 /\ a[i].to \in Nat
  BY EnteredLines DEF Segments
<1> QED BY <1>1 DEF LostIn, Holds, Size

\* Nor is one sent in two parts, if the second has room for all the rest.
LEMMA LineInTwo ==
  ASSUME NEW a, Entered(a), NEW i \in 1 .. Len(a), NEW d,
         TooLong(a[i]), Size(a[i]) <= 2 * LineMaxLength,
         NEW j \in DOMAIN d.line, d.line[j] = Trimmed(a[i]),
         NEW k \in DOMAIN d.line, d.line[k] = Trimmed(Rest(a[i]))
  PROVE  ~LostIn(a, d, i)
<1>1. /\ a[i] \in Segments /\ a[i].line = i /\ a[i].from = 0 /\ a[i].to \in Nat
  BY EnteredLines DEF Segments
<1>2. /\ Trimmed(a[i]).line = i /\ Trimmed(a[i]).from = 0 /\ Trimmed(a[i]).to = LineMaxLength
  BY <1>1, PartsOfALine
<1>3. /\ Rest(a[i]).line = i /\ Rest(a[i]).from = LineMaxLength /\ Rest(a[i]).to = a[i].to
  <2> DEFINE s == a[i]
  <2>1. s \in Segments /\ s.line = i /\ s.from = 0
    BY <1>1
  <2> HIDE DEF s
  <2>2. Rest(s).line = i /\ Rest(s).from = LineMaxLength /\ Rest(s).to = s.to
    <3>1. Rest(s).line = i /\ Rest(s).from = s.from + LineMaxLength /\ Rest(s).to = s.to
      BY <2>1 DEF Rest, Segments
    <3> QED BY <2>1, <3>1, LengthsAssumption
  <2> QED BY <2>2 DEF s
<1>4. Trimmed(Rest(a[i])) = Rest(a[i])
  <2>1. ~TooLong(Rest(a[i]))
    BY <1>1, <1>3, LengthsAssumption DEF TooLong, Size
  <2> QED BY <2>1 DEF Trimmed
<1>5. ASSUME NEW p \in 0 .. Size(a[i]) - 1
      PROVE  Holds(d.line[j], i, p) \/ Holds(d.line[k], i, p)
  BY <1>1, <1>2, <1>3, <1>4, LengthsAssumption DEF Holds, Size
<1> QED BY <1>5 DEF LostIn

\* Neither the beginning of a line that is not empty nor the rest of one that is
\* too long is empty.
LEMMA PartsAreNotEmpty ==
  ASSUME NEW s \in Segments, s.from = 0, s.to >= 1
  PROVE  /\ ~IsEmpty(Trimmed(s))
         /\ TooLong(s) => ~IsEmpty(Trimmed(Rest(s)))
<1>1. CASE TooLong(s)
  <2> DEFINE r == Rest(s)
  <2>1. Front(s) \in Segments /\ r \in Segments /\ Size(Front(s)) = LineMaxLength
    BY <1>1, CutsAreSegments
  <2>2. Size(r) > 0
    <3>1. r.from = s.from + LineMaxLength /\ r.to = s.to
      BY DEF Rest, Segments
    <3> QED BY <1>1, <3>1, LengthsAssumption DEF TooLong, Size, Segments
  <2> HIDE DEF r
  <2>3. TooLong(r) => Size(Front(r)) = LineMaxLength
    BY <2>1, CutsAreSegments
  <2>4. ~IsEmpty(Trimmed(s)) /\ ~IsEmpty(Trimmed(r))
    BY <1>1, <2>1, <2>2, <2>3, LengthsAssumption DEF Trimmed, IsEmpty
  <2> QED BY <2>4 DEF r
<1>2. CASE ~TooLong(s)
  BY <1>2 DEF Trimmed, IsEmpty, Size, Segments
<1> QED BY <1>1, <1>2

\* Of an address of the view's formats, from town and postcode only to three
\* lines before them, something is cut off only if the record is full.
LEMMA FromCutsWhenFull ==
  ASSUME NEW a, Entered(a), Len(a) <= 5,
         \A i \in 1 .. Len(a) : Size(a[i]) <= 2 * LineMaxLength
  PROVE  CutWhenFull(a, From(a))
<1> DEFINE d == From(a)
<1>0. a \in Seq(Segments)
  BY DEF Entered
<1>1. CASE Len(a) = 2
  <2>1. 1 .. Len(a) - 2 = {}
    BY <1>1
  <2> QED BY <2>1 DEF CutWhenFull
<1>2. CASE Len(a) >= 3 /\ ~LinesOverMaxLength(a)
  <2>1. Len(a) \in Nat /\ Len(a) # 2
    <3>1. Len(a) \in Nat /\ \A n \in Nat : n >= 3 => n # 2
      BY EnteredLines
    <3> QED BY <1>2, <3>1
  <2>2. d = BuildStandard(a)
    BY <1>2, <2>1 DEF From, MandatoryLines
  <2> HIDE DEF d
  <2>3. DOMAIN d.line = 1 .. Len(a) - 2 /\ \A i \in 1 .. Len(a) - 2 : d.line[i] = a[i]
    BY <1>0, <1>2, <2>2, StandardLines
  <2>4. 1 .. Len(a) - 2 \subseteq 1 .. Len(a)
    BY <2>1
  <2>5. \A i \in 1 .. Len(a) - 2 : ~LostIn(a, d, i)
    BY <2>3, <2>4, WholeLine
  <2> QED BY <2>5 DEF CutWhenFull, d
<1>3. CASE Len(a) = 3 /\ LinesOverMaxLength(a)
  <2>1. d = Rebuild(a)
    BY <1>3 DEF From, MandatoryLines
  <2> HIDE DEF d
  <2>2. /\ DOMAIN d.line = 1 .. 2 /\ d.line[1] = Trimmed(a[1])
        /\ TooLong(a[1]) => d.line[2] = Trimmed(Rest(a[1]))
    BY <1>0, <1>3, <2>1, RebuildOfThree
  <2>3. 1 \in 1 .. Len(a) /\ 1 \in DOMAIN d.line /\ 2 \in DOMAIN d.line /\ 1 .. Len(a) - 2 = {1}
    BY <1>3, <2>2
  <2>4. ~LostIn(a, d, 1)
    <3>1. CASE TooLong(a[1])
      BY <2>2, <2>3, <3>1, LineInTwo
    <3>2. CASE ~TooLong(a[1])
      <4>1. d.line[1] = a[1]
        BY <2>2, <3>2 DEF Trimmed
      <4> QED BY <2>3, <4>1, WholeLine
    <3> QED BY <3>1, <3>2
  <2> QED BY <2>3, <2>4 DEF CutWhenFull, d
<1>4. CASE Len(a) = 4 /\ LinesOverMaxLength(a)
  <2>1. d = Rebuild(a)
    BY <1>4 DEF From, MandatoryLines
  <2> HIDE DEF d
  <2>2. /\ DOMAIN d.line = 1 .. 3 /\ Len(d.line) = 3 /\ d.line[1] = Trimmed(a[1])
        /\ TooLong(a[1]) => d.line[2] = Trimmed(Rest(a[1])) /\ d.line[3] = Trimmed(a[2])
        /\ ~TooLong(a[1]) => /\ d.line[2] = Trimmed(a[2])
                             /\ TooLong(a[2]) => d.line[3] = Trimmed(Rest(a[2]))
    BY <1>0, <1>4, <2>1, EnteredLines, RebuildOfFour
  <2>3. /\ 1 \in 1 .. Len(a) /\ 2 \in 1 .. Len(a) /\ 1 .. Len(a) - 2 = {1, 2}
        /\ 1 \in DOMAIN d.line /\ 2 \in DOMAIN d.line /\ 3 \in DOMAIN d.line
    BY <1>4, <2>2
  <2>4. CASE TooLong(a[1])
    <3>1. \A j \in {1, 2} : a[j] \in Segments /\ a[j].from = 0 /\ a[j].to >= 1
      BY <2>3, EnteredLines
    <3>2. ~IsEmpty(d.line[1]) /\ ~IsEmpty(d.line[2]) /\ ~IsEmpty(d.line[3])
      BY <2>2, <2>4, <3>1, PartsAreNotEmpty
    <3> QED BY <2>2, <3>2 DEF CutWhenFull, d
  <2>5. CASE ~TooLong(a[1])
    <3>1. d.line[1] = a[1]
      BY <2>2, <2>5 DEF Trimmed
    <3>2. ~LostIn(a, d, 1)
      BY <2>3, <3>1, WholeLine
    <3>3. ~LostIn(a, d, 2)
      <4>1. CASE TooLong(a[2])
        BY <2>2, <2>3, <2>5, <4>1, LineInTwo
      <4>2. CASE ~TooLong(a[2])
        <5>1. d.line[2] = a[2]
          BY <2>2, <2>5, <4>2 DEF Trimmed
        <5> QED BY <2>3, <5>1, WholeLine
      <4> QED BY <4>1, <4>2
    <3> QED BY <2>3, <3>2, <3>3 DEF CutWhenFull, d
  <2> QED BY <2>4, <2>5
<1>5. CASE Len(a) = 5 /\ LinesOverMaxLength(a)
  <2>1. d = Rebuild(a)
    BY <1>5 DEF From, MandatoryLines
  <2> HIDE DEF d
  <2>2. /\ \A j \in 1 .. 3 : j \in 1 .. Len(a)
        /\ Len(a) >= 5 /\ Len(a) - 2 = 3
    BY <1>5
  <2>3. \A j \in 1 .. 3 : a[j] \in Segments /\ a[j].from = 0 /\ a[j].to >= 1 /\ ~IsEmpty(a[j])
    BY <2>2, EnteredLines
  <2>4. /\ DOMAIN d.line = 1 .. Len(a) - 2 /\ Len(d.line) = Len(a) - 2
        /\ \A i \in 1 .. Len(a) - 2 : d.line[i] = Trimmed(a[i])
    BY <1>0, <2>1, <2>2, <2>3, RebuildOfMore
  <2>5. \A j \in 1 .. 3 : ~IsEmpty(d.line[j])
    BY <2>2, <2>3, <2>4, PartsAreNotEmpty
  <2> QED BY <2>2, <2>4, <2>5 DEF CutWhenFull, d
<1>6. /\ Len(a) = 2 \/ Len(a) = 3 \/ Len(a) = 4 \/ Len(a) = 5
      /\ Len(a) = 3 \/ Len(a) = 4 \/ Len(a) = 5 => Len(a) >= 3
  <2>1. Len(a) \in Nat /\ Len(a) >= 2
    BY EnteredLines DEF Entered
  <2>2. \A n \in Nat : /\ n >= 2 /\ n <= 5 => n = 2 \/ n = 3 \/ n = 4 \/ n = 5
                       /\ n = 3 \/ n = 4 \/ n = 5 => n >= 3
    OBVIOUS
  <2> QED BY <2>1, <2>2
<1> QED BY <1>1, <1>2, <1>3, <1>4, <1>5, <1>6

----------
\* The addresses of the initial states are entered ones.
LEMMA AddressesEntered ==
  ASSUME NEW a \in Addresses
  PROVE  Entered(a) /\ Len(a) <= MaxLines
<1>1. PICK k \in 2 .. MaxLines : \E m \in [1 .. k -> 1 .. MaxLength] :
         a = [i \in DOMAIN m |-> [line |-> i, from |-> 0, to |-> m[i]]]
  BY DEF Addresses
<1>2. PICK n \in [1 .. k -> 1 .. MaxLength] :
         a = [i \in DOMAIN n |-> [line |-> i, from |-> 0, to |-> n[i]]]
  BY <1>1
<1>3. k \in Nat /\ k >= 2 /\ k <= MaxLines /\ DOMAIN n = 1 .. k
  BY LengthsAssumption
<1>4. \A i \in 1 .. k : a[i].line = i /\ a[i].from = 0 /\ a[i].to >= 1
  BY <1>2, <1>3, LengthsAssumption
<1>5. a \in [1 .. k -> Segments]
  BY <1>2, <1>3, LengthsAssumption DEF Segments
<1>6. a \in Seq(Segments) /\ Len(a) = k
  BY <1>3, <1>5
<1> QED BY <1>3, <1>4, <1>6 DEF Entered

\* The address stays the entered one, and what is sent is made of it.
SentFrom == dto # NotSent => dto = From(address)
EnteredInv == Entered(address) /\ Len(address) <= MaxLines /\ SentFrom

\* Send changes nothing but the record, and nothing is sent twice.
LEMMA AlwaysEntered == AddressSpec => []EnteredInv
<1>1. AddressInit => EnteredInv
  BY AddressesEntered DEF AddressInit, EnteredInv, SentFrom
<1>2. EnteredInv /\ [AddressNext]_addressVars => EnteredInv'
  BY DEF EnteredInv, SentFrom, AddressNext, Send, addressVars
<1> QED BY <1>1, <1>2, PTL DEF AddressSpec

\* Reads is what the property asks of a record.
LEMMA ReadsEntered == EnteredInv => ReadsAsEntered
<1> SUFFICES ASSUME EnteredInv, Sent PROVE ReadsAsEntered
  BY DEF ReadsAsEntered
<1> DEFINE entered == Len(address) - 2
           text == {s \in {dto.line[j] : j \in DOMAIN dto.line} : s.line # 0}
<1>1. Reads(address, dto)
  BY FromReads DEF EnteredInv, SentFrom, Sent
<1>2. entered \in Int /\ entered + 1 = Len(address) - 1 /\ entered + 2 = Len(address)
  <2>1. Len(address) \in Nat
    BY EnteredLines DEF EnteredInv
  <2> QED BY <2>1
<1>3. {s.line : s \in {r \in text : r.from = 0}} = 1 .. entered
  <2> DEFINE firsts == {s.line : s \in {r \in text : r.from = 0}}
  <2>1. ASSUME NEW k \in firsts PROVE k \in 1 .. entered
    <3>1. PICK j \in DOMAIN dto.line : k = dto.line[j].line /\ dto.line[j].line # 0
      OBVIOUS
    <3>2. dto.line[j].line \in 0 .. entered
      BY <1>1 DEF Reads
    <3> HIDE DEF entered
    <3> QED BY <1>2, <3>1, <3>2
  <2>2. ASSUME NEW k \in 1 .. entered PROVE k \in firsts
    <3>1. PICK j \in DOMAIN dto.line : dto.line[j].line = k /\ dto.line[j].from = 0
      BY <1>1 DEF Reads
    <3>2. k # 0
      <4> HIDE DEF entered
      <4> QED BY <1>2
    <3>3. dto.line[j] \in text
      BY <3>1, <3>2
    <3> HIDE DEF text
    <3> QED BY <3>1, <3>3
  <2> HIDE DEF firsts
  <2>3. firsts = 1 .. entered
    BY <2>1, <2>2
  <2> QED BY <2>3 DEF firsts
<1>4. \A i, j \in DOMAIN dto.line :
        i < j /\ dto.line[i].line # 0 /\ dto.line[j].line # 0 =>
          \/ dto.line[i].line < dto.line[j].line
          \/ dto.line[i].line = dto.line[j].line /\ dto.line[i].to <= dto.line[j].from
  BY <1>1 DEF Reads, GoesOn
<1>5. /\ dto.postTown.line = entered + 1 /\ dto.postTown.from = 0
      /\ dto.postCode.line = entered + 2
  BY <1>1, <1>2 DEF Reads
<1> QED BY <1>3, <1>4, <1>5 DEF ReadsAsEntered

\* The lines sent read as the entered ones, for any number of lines of any
\* lengths: in order, the parts of a line too, nothing twice, every line with its
\* beginning, and town and postcode in their own fields (DisposalAddressDto.from,
\* rebuildDisposalAddressDto).
THEOREM AlwaysReadsAsEntered == AddressSpec => []ReadsAsEntered
<1> QED BY AlwaysEntered, ReadsEntered, PTL

\* CutWhenFull is what the property asks of a record.
LEMMA EnteredCuts ==
  ASSUME MaxLines <= 5, EnteredInv
  PROVE  CutOnlyWhenFull
<1> SUFFICES ASSUME Sent, \A i \in DOMAIN address : Size(address[i]) <= 2 * LineMaxLength
             PROVE  CutWhenFull(address, dto)
  BY DEF CutOnlyWhenFull, CutWhenFull, LostIn, Lost
<1>1. Len(address) \in Nat /\ Len(address) <= 5 /\ DOMAIN address = 1 .. Len(address)
  <2>1. Len(address) \in Nat /\ DOMAIN address = 1 .. Len(address) /\ Len(address) <= MaxLines
    BY LenProperties DEF EnteredInv, Entered
  <2> QED BY <2>1, LengthsAssumption
<1> QED BY <1>1, FromCutsWhenFull DEF EnteredInv, SentFrom, Sent

\* With the view's formats, which end at three lines before town and postcode, and
\* lines of up to two of the record's, nothing is cut off while a line of the
\* record is free, whatever the record's line length (addressLinesDecider).
THEOREM AlwaysCutOnlyWhenFull ==
  ASSUME MaxLines <= 5
  PROVE  AddressSpec => []CutOnlyWhenFull
<1>1. EnteredInv => CutOnlyWhenFull
  BY EnteredCuts
<1> QED BY <1>1, AlwaysEntered, PTL

----------
(* The order of DayMonthYear.                                              *)

OptionInt == Int

Dates == [day : Int, month : Int, year : Int, hour : OptionInt, minutes : OptionInt]

\* Sign is one of the three answers of Int's compare.
LEMMA SignCases ==
  ASSUME NEW x \in Int, NEW y \in Int
  PROVE  /\ Sign(x, y) \in {-1, 0, 1}
         /\ Sign(x, y) = -1 <=> x < y
         /\ Sign(x, y) = 0 <=> x = y
         /\ Sign(x, y) = 1 <=> y < x
BY DEF Sign

\* a precedes b at the same day: compareHours is negative.
EarlierTime(a, b) ==
  \/ a.hour = None /\ b.hour # None
  \/ a.hour # None /\ b.hour # None /\ a.hour < b.hour
  \/ /\ a.hour # None /\ a.hour = b.hour
     /\ \/ a.minutes = None /\ b.minutes # None
        \/ a.minutes # None /\ b.minutes # None /\ a.minutes < b.minutes

\* The lexicographic order that compare decides.
Earlier(a, b) ==
  \/ a.year < b.year
  \/ a.year = b.year /\ a.month < b.month
  \/ a.year = b.year /\ a.month = b.month /\ a.day < b.day
  \/ a.year = b.year /\ a.month = b.month /\ a.day = b.day /\ EarlierTime(a, b)

\* compareHours and compareMinutes decide EarlierTime.
LEMMA CompareHoursCases ==
  ASSUME NEW a \in Dates, NEW b \in Dates
  PROVE  /\ CompareHours(a, b) \in {-1, 0, 1}
         /\ CompareHours(a, b) = -1 <=> EarlierTime(a, b)
         /\ CompareHours(a, b) = 1 <=> EarlierTime(b, a)
<1>. USE DEF Dates, OptionInt
<1>0. None \in Int
  BY DEF None
<1>1. CASE a.hour = None \/ b.hour = None
  BY <1>1 DEF CompareHours, EarlierTime, Given, Sign
<1>2. CASE a.hour # None /\ b.hour # None /\ a.hour # b.hour
  BY <1>2, SignCases DEF CompareHours, EarlierTime
<1>3. CASE a.hour # None /\ b.hour # None /\ a.hour = b.hour
  <2>1. CompareHours(a, b) = CompareMinutes(a, b)
    BY <1>3 DEF CompareHours
  <2>2. CASE a.minutes = None \/ b.minutes = None
    BY <1>3, <2>1, <2>2 DEF CompareMinutes, EarlierTime, Given, Sign
  <2>3. CASE a.minutes # None /\ b.minutes # None
    BY <1>3, <2>1, <2>3, SignCases DEF CompareMinutes, EarlierTime
  <2>. QED
    BY <2>2, <2>3
<1>. QED
  BY <1>1, <1>2, <1>3

\* compare is negative exactly when the first date is earlier, and positive
\* exactly when the second is (the cases of DayMonthYear.compare are complete
\* and agree).
LEMMA CompareCases ==
  ASSUME NEW a \in Dates, NEW b \in Dates
  PROVE  /\ Compare(a, b) \in {-1, 0, 1}
         /\ Compare(a, b) = -1 <=> Earlier(a, b)
         /\ Compare(a, b) = 1 <=> Earlier(b, a)
<1>. USE DEF Dates
<1>1. CASE a.year # b.year
  <2>1. Compare(a, b) = Sign(a.year, b.year)
    BY <1>1 DEF Compare
  <2>. QED
    BY <1>1, <2>1, SignCases DEF Earlier
<1>2. CASE a.year = b.year /\ a.month # b.month
  <2>1. Compare(a, b) = Sign(a.month, b.month)
    BY <1>2 DEF Compare
  <2>. QED
    BY <1>2, <2>1, SignCases DEF Earlier
<1>3. CASE a.year = b.year /\ a.month = b.month /\ a.day # b.day
  <2>1. Compare(a, b) = Sign(a.day, b.day)
    BY <1>3 DEF Compare
  <2>. QED
    BY <1>3, <2>1, SignCases DEF Earlier
<1>4. CASE a.year = b.year /\ a.month = b.month /\ a.day = b.day
  <2>1. Compare(a, b) = CompareHours(a, b)
    BY <1>4 DEF Compare
  <2>. QED
    BY <1>4, <2>1, CompareHoursCases DEF Earlier
<1>. QED
  BY <1>1, <1>2, <1>3, <1>4

\* DayMonthYear.compare makes Ordered a total preorder, with and without times:
\* swapping the dates swaps the sign, and >= is transitive.  Only then do after
\* and notInFuture bound an interval.
THEOREM CompareIsAnOrder ==
  ASSUME NEW a \in Dates, NEW b \in Dates, NEW c \in Dates
  PROVE  /\ Compare(a, b) = - Compare(b, a)
         /\ Compare(a, b) >= 0 /\ Compare(b, c) >= 0 => Compare(a, c) >= 0
<1>1. Compare(a, b) = - Compare(b, a)
  BY CompareCases
<1>2. ASSUME Compare(a, b) >= 0, Compare(b, c) >= 0
      PROVE  Compare(a, c) >= 0
  <2>1. ~Earlier(a, b) /\ ~Earlier(b, c)
    BY <1>2, CompareCases
  <2>2. ~Earlier(a, c)
    BY <2>1 DEF Earlier, EarlierTime, Dates, OptionInt, None
  <2>. QED
    BY <2>2, CompareCases
<1>. QED
  BY <1>1, <1>2

----------
(* The conversion of an accepted date.                                     *)

\* A submitted date has the fields of the form's mapping, and is a day of the
\* calendar from the moment it is valid.
Convertible ==
  sale = NoSale \/
    /\ sale \in [stage : {"received", "valid", "failed", "sent"}, date : {sale.date},
                 at : {sale.at}, earliest : {sale.earliest},
                 transactionTimestamp : {sale.transactionTimestamp}]
    /\ sale.date.hour \in None .. MaxHoursInDay
    /\ sale.date.minutes \in None .. MaxMinutesInHour
    /\ sale.stage # "received" => IsDay(sale.date)

\* No form has arrived at the start.
LEMMA ConvertibleInit == Init => Convertible
BY DEF Init, Convertible

\* No step makes a form with other fields, or valid without a day.
LEMMA ConvertibleStep == Convertible /\ [Next]_vars => Convertible'
<1>. SUFFICES ASSUME Convertible, [Next]_vars PROVE Convertible'
  OBVIOUS
<1>1. CASE Tick
  BY <1>1 DEF Tick, Convertible, NoSale, IsDay
<1>2. CASE Present
  BY <1>2 DEF Present, Convertible, NoSale, IsDay
<1>3. CASE Submit
  <2>1. PICK e \in Entries, y \in page.years \cup OtherYears :
          sale' = [stage |-> "received", date |-> DayMonthYear(e, y), at |-> clock,
                   earliest |-> YearsBefore(clock, DateOfDisposalYearsIntoThePast),
                   transactionTimestamp |-> None]
    BY <1>3 DEF Submit
  <2>2. /\ DayMonthYear(e, y).hour \in None .. MaxHoursInDay
        /\ DayMonthYear(e, y).minutes \in None .. MaxMinutesInHour
    BY EntriesAssumption DEF DayMonthYear
  <2>. QED
    BY <2>1, <2>2 DEF Convertible
<1>4. CASE Bind
  BY <1>4 DEF Bind, Convertible, ValidDate, NoSale, IsDay
<1>5. CASE Build
  <2>1. sale # NoSale /\ sale.stage = "valid"
    BY <1>5 DEF Build, NoSale
  <2>2. \/ sale' = [sale EXCEPT !.stage = "sent", !.transactionTimestamp = clock]
        \/ sale' = [sale EXCEPT !.stage = "failed"]
    BY <1>5 DEF Build
  <2>3. /\ sale'.stage \in {"sent", "failed"} /\ sale'.date = sale.date
        /\ sale' \in [stage : {"sent", "failed"}, date : {sale.date}, at : {sale.at},
                      earliest : {sale.earliest},
                      transactionTimestamp : {clock, sale.transactionTimestamp}]
    BY <2>1, <2>2 DEF Convertible
  <2>. QED
    BY <2>1, <2>3 DEF Convertible, IsDay
<1>6. CASE UNCHANGED vars
  BY <1>6 DEF vars, Convertible, NoSale, IsDay
<1>. QED
  BY <1>1, <1>2, <1>3, <1>4, <1>5, <1>6 DEF Next

\* toDateTime has a value for such a date unless its day has no such hour.
LEMMA ConvertibleConverts == Convertible => AcceptedDatesConvert
BY SkippedAssumption
   DEF Convertible, AcceptedDatesConvert, ToDateTime, TimeExists, NoSale, None,
       MaxHoursInDay, MaxMinutesInHour

\* Whatever is posted and whenever, the get of buildDisposeMicroServiceRequest fails
\* for those accepted dates only that give an hour their day does not have, 24 or
\* one the clocks skip, and it fails for all of these.
THEOREM OnlyMissingHoursFail == Spec => []AcceptedDatesConvert
<1>1. Spec => []Convertible
  BY ConvertibleInit, ConvertibleStep, PTL DEF Spec
<1>. QED
  BY <1>1, ConvertibleConverts, PTL

----------
(* The count of days grows with the dates.                                 *)

\* The first days of the years and months that DayNumber counts, from March on.
YearStart(y) == 365 * y + y \div 4 - y \div 100 + y \div 400
MonthStart(m) == (153 * m + 2) \div 5

\* A year has 365 days or more, a leap year 366.
LEMMA YearsAreLong ==
  ASSUME NEW x \in Int, NEW y \in Int, x < y
  PROVE  /\ YearStart(x) + 365 <= YearStart(y)
         /\ IsLeap(x + 1) => YearStart(x) + 366 <= YearStart(y)
<1>1. \A u, v \in Int : u < v => YearStart(u) + 365 <= YearStart(v)
  BY DEF YearStart
<1>2. IsLeap(x + 1) => YearStart(x) + 366 <= YearStart(x + 1)
  BY DEF YearStart, IsLeap
<1>3. YearStart(x) \in Int /\ YearStart(y) \in Int /\ YearStart(x + 1) \in Int
  BY DEF YearStart
<1>4. x + 1 = y \/ YearStart(x + 1) + 365 <= YearStart(y)
  BY <1>1
<1>. QED
  BY <1>1, <1>2, <1>3, <1>4

\* A month of the March year ends before the next one starts.
LEMMA MonthsAreLong ==
  ASSUME NEW k \in 1 .. 12, NEW n \in 0 .. 11, (k + 9) % 12 < n, NEW y \in Int
  PROVE  MonthStart((k + 9) % 12) + DaysInMonth(k, y) <= MonthStart(n)
BY DEF MonthStart, DaysInMonth

\* The March year a date is in, and the month of it.
MarchYear(d) == IF d.month <= 2 THEN d.year - 1 ELSE d.year
MarchMonth(d) == (d.month + 9) % 12

\* DayNumber is the start of the year, that of the month, and the day.
LEMMA DayNumberParts ==
  ASSUME NEW d \in Dates
  PROVE  DayNumber(d) = YearStart(MarchYear(d)) + MonthStart(MarchMonth(d)) + d.day
BY DEF DayNumber, YearStart, MonthStart, MarchYear, MarchMonth, Dates

\* The order of the days, whatever the time.
DayBefore(a, b) ==
  \/ a.year < b.year
  \/ a.year = b.year /\ a.month < b.month
  \/ a.year = b.year /\ a.month = b.month /\ a.day < b.day

\* A day of some year in each month: 29 February too.
NearDay(d) ==
  d.month \in 1 .. 12 /\ d.day \in 1 .. IF d.month = 2 THEN 29 ELSE DaysInMonth(d.month, d.year)

\* What is later in the order of the days is later in the March years.
LEMMA MarchOrder ==
  ASSUME NEW a \in Dates, NEW b \in Dates, a.month \in 1 .. 12, b.month \in 1 .. 12,
         DayBefore(a, b)
  PROVE  \/ MarchYear(a) < MarchYear(b)
         \/ MarchYear(a) = MarchYear(b) /\ MarchMonth(a) < MarchMonth(b)
         \/ MarchYear(a) = MarchYear(b) /\ MarchMonth(a) = MarchMonth(b) /\ a.day < b.day
BY DEF Dates, DayBefore, MarchYear, MarchMonth

\* The days of a March year: 365, and 366 if its February is in a leap year.
LEMMA DaysOfAYear ==
  ASSUME NEW d \in Dates, NearDay(d)
  PROVE  /\ MarchYear(d) \in Int /\ MarchMonth(d) \in 0 .. 11
         /\ MonthStart(MarchMonth(d)) \in 0 .. 337
         /\ MonthStart(MarchMonth(d)) + d.day <= 366
         /\ IsDay(d) /\ ~IsLeap(MarchYear(d) + 1) => MonthStart(MarchMonth(d)) + d.day <= 365
BY DEF Dates, NearDay, IsDay, DaysInMonth, MarchYear, MarchMonth, MonthStart

\* A day is a day of some year, and a date of a month has one before its end.
LEMMA DaysAreNear ==
  ASSUME NEW d \in Dates, IsDay(d)
  PROVE  NearDay(d)
BY DEF Dates, NearDay, IsDay, DaysInMonth

\* DayNumber grows with the days; 29 February of any year is at most 1 March.
LEMMA DayNumberGrows ==
  ASSUME NEW a \in Dates, NEW b \in Dates, NearDay(a), NearDay(b), DayBefore(a, b)
  PROVE  /\ IsDay(a) => DayNumber(a) < DayNumber(b)
         /\ DayNumber(a) <= DayNumber(b)
<1>1. /\ a.month \in 1 .. 12 /\ b.month \in 1 .. 12
      /\ a.day \in 1 .. 31 /\ b.day \in 1 .. 31 /\ a.year \in Int
  BY DEF NearDay, DaysInMonth, Dates
<1>2. /\ DayNumber(a) = YearStart(MarchYear(a)) + MonthStart(MarchMonth(a)) + a.day
      /\ DayNumber(b) = YearStart(MarchYear(b)) + MonthStart(MarchMonth(b)) + b.day
  BY DayNumberParts
<1>3. /\ MarchYear(a) \in Int /\ MarchYear(b) \in Int
      /\ MarchMonth(a) \in 0 .. 11 /\ MarchMonth(b) \in 0 .. 11
      /\ MonthStart(MarchMonth(a)) \in Int /\ MonthStart(MarchMonth(b)) \in 0 .. 337
      /\ MonthStart(MarchMonth(a)) + a.day <= 366
      /\ IsDay(a) /\ ~IsLeap(MarchYear(a) + 1) => MonthStart(MarchMonth(a)) + a.day <= 365
  BY DaysOfAYear
<1>. /\ YearStart(MarchYear(a)) \in Int /\ YearStart(MarchYear(b)) \in Int
     /\ a.day \in Int /\ b.day \in Int /\ b.day >= 1
  BY <1>1, <1>3 DEF YearStart
<1>4. CASE MarchYear(a) < MarchYear(b)
  <2>1. /\ YearStart(MarchYear(a)) + 365 <= YearStart(MarchYear(b))
        /\ IsLeap(MarchYear(a) + 1) => YearStart(MarchYear(a)) + 366 <= YearStart(MarchYear(b))
    BY <1>3, <1>4, YearsAreLong
  <2>. QED
    BY <1>2, <1>3, <2>1
<1>5. CASE MarchYear(a) = MarchYear(b) /\ MarchMonth(a) < MarchMonth(b)
  <2>1. MonthStart(MarchMonth(a)) + DaysInMonth(a.month, a.year) <= MonthStart(MarchMonth(b))
    BY <1>1, <1>3, <1>5, MonthsAreLong DEF MarchMonth
  <2>2. a.month # 2
    BY <1>3, <1>5 DEF MarchMonth
  <2>3. a.day <= DaysInMonth(a.month, a.year) /\ DaysInMonth(a.month, a.year) \in Int
    BY <2>2 DEF NearDay, DaysInMonth
  <2>. QED
    BY <1>2, <1>3, <1>5, <2>1, <2>3
<1>6. CASE MarchYear(a) = MarchYear(b) /\ MarchMonth(a) = MarchMonth(b) /\ a.day < b.day
  BY <1>2, <1>3, <1>6
<1>. QED
  BY <1>1, <1>4, <1>5, <1>6, MarchOrder

\* Of two dates one is before the other, or they are of the same day.
SameDay(a, b) == a.year = b.year /\ a.month = b.month /\ a.day = b.day

\* DayNumber orders the days as the order of the days does.
LEMMA DayNumberOrders ==
  ASSUME NEW a \in Dates, NEW b \in Dates, IsDay(a), IsDay(b)
  PROVE  /\ DayNumber(a) \in Int /\ DayNumber(b) \in Int
         /\ DayNumber(a) < DayNumber(b) <=> DayBefore(a, b)
         /\ DayNumber(a) = DayNumber(b) <=> SameDay(a, b)
<1>1. NearDay(a) /\ NearDay(b)
  BY DaysAreNear
<1>2. DayNumber(a) \in Int /\ DayNumber(b) \in Int
  BY DEF DayNumber, Dates
<1>3. DayBefore(a, b) => DayNumber(a) < DayNumber(b)
  BY <1>1, DayNumberGrows
<1>4. DayBefore(b, a) => DayNumber(b) < DayNumber(a)
  BY <1>1, DayNumberGrows
<1>5. SameDay(a, b) => DayNumber(a) = DayNumber(b)
  BY DEF SameDay, DayNumber
<1>6. DayBefore(a, b) \/ SameDay(a, b) \/ DayBefore(b, a)
  BY DEF Dates, DayBefore, SameDay
<1>. QED
  BY <1>2, <1>3, <1>4, <1>5, <1>6

\* What the clock shows: a day and a time.
Instants == {d \in Dates : IsDay(d) /\ d.hour \in 0 .. 23 /\ d.minutes \in 0 .. 59}

Instant(d) == 24 * 60 * DayNumber(d) + Minute(d)

\* compare orders two instants as time does.
LEMMA CompareIsTime ==
  ASSUME NEW a \in Instants, NEW b \in Instants
  PROVE  Compare(a, b) = Sign(Instant(a), Instant(b))
<1>1. /\ a \in Dates /\ b \in Dates /\ IsDay(a) /\ IsDay(b)
      /\ a.hour \in 0 .. 23 /\ a.minutes \in 0 .. 59
      /\ b.hour \in 0 .. 23 /\ b.minutes \in 0 .. 59
  BY DEF Instants
<1>2. /\ DayNumber(a) \in Int /\ DayNumber(b) \in Int
      /\ DayNumber(a) < DayNumber(b) <=> DayBefore(a, b)
      /\ DayNumber(a) = DayNumber(b) <=> SameDay(a, b)
      /\ DayNumber(b) < DayNumber(a) <=> DayBefore(b, a)
  BY <1>1, DayNumberOrders
<1>3. /\ Minute(a) \in 0 .. 1439 /\ Minute(b) \in 0 .. 1439
      /\ Minute(a) < Minute(b) <=> EarlierTime(a, b)
      /\ Minute(b) < Minute(a) <=> EarlierTime(b, a)
  <2>. DEFINE h == a.hour
              k == b.hour
              m == a.minutes
              n == b.minutes
  <2>1. h \in 0 .. 23 /\ k \in 0 .. 23 /\ m \in 0 .. 59 /\ n \in 0 .. 59
    BY <1>1
  <2>2. /\ EarlierTime(a, b) <=> h < k \/ (h = k /\ m < n)
        /\ EarlierTime(b, a) <=> k < h \/ (k = h /\ n < m)
    BY <1>1 DEF EarlierTime, None
  <2>3. Minute(a) = 60 * h + m /\ Minute(b) = 60 * k + n
    BY DEF Minute
  <2>. HIDE DEF h, k, m, n
  <2>. QED
    BY <2>1, <2>2, <2>3
<1>4. /\ Earlier(a, b) <=> DayBefore(a, b) \/ (SameDay(a, b) /\ EarlierTime(a, b))
      /\ Earlier(b, a) <=> DayBefore(b, a) \/ (SameDay(a, b) /\ EarlierTime(b, a))
  BY <1>1 DEF Earlier, DayBefore, SameDay, Dates
<1>5. /\ Instant(a) \in Int /\ Instant(b) \in Int
      /\ Instant(a) < Instant(b) <=> Earlier(a, b)
      /\ Instant(b) < Instant(a) <=> Earlier(b, a)
  <2>. DEFINE p == DayNumber(a)
              q == DayNumber(b)
              m == Minute(a)
              n == Minute(b)
  <2>1. p \in Int /\ q \in Int /\ m \in 0 .. 1439 /\ n \in 0 .. 1439
    BY <1>2, <1>3
  <2>2. Instant(a) = 24 * 60 * p + m /\ Instant(b) = 24 * 60 * q + n
    BY DEF Instant
  <2>3. /\ Earlier(a, b) <=> p < q \/ (p = q /\ m < n)
        /\ Earlier(b, a) <=> q < p \/ (p = q /\ n < m)
    BY <1>2, <1>3, <1>4
  <2>. HIDE DEF p, q, m, n
  <2>. QED
    BY <2>1, <2>2, <2>3
<1>. QED
  BY <1>1, <1>5, CompareCases, SignCases

\* The date years before an instant of the clock is an instant of that time, and its
\* day is that of the instant or, for 29 February, the last of the month.
LEMMA YearsBeforeInstant ==
  ASSUME NEW d \in Instants, ~Skipped(d), NEW n \in Nat
  PROVE  /\ YearsBefore(d, n) \in Instants
         /\ YearsBefore(d, n).hour = d.hour /\ YearsBefore(d, n).minutes = d.minutes
         /\ YearsBefore(d, n).year = d.year - n
         /\ YearsBefore(d, n).month = d.month
         /\ \/ YearsBefore(d, n).day = d.day
            \/ d.month = 2 /\ d.day = 29 /\ YearsBefore(d, n).day = 28 /\ ~IsLeap(d.year - n)
<1>1. d \in Dates /\ IsDay(d) /\ ToDateTime(d)
  BY DEF Instants, ToDateTime, None
<1>. DEFINE days == DaysInMonth(d.month, d.year - n)
            last == IF d.day > days THEN days ELSE d.day
<1>2. YearsBefore(d, n) = [d EXCEPT !.year = d.year - n, !.day = last]
  BY <1>1 DEF YearsBefore, MinusYears
<1>3. /\ last \in 1 .. days
      /\ last = d.day \/ (d.month = 2 /\ d.day = 29 /\ last = 28 /\ ~IsLeap(d.year - n))
  BY <1>1 DEF IsDay, DaysInMonth, Dates
<1>. HIDE DEF last
<1>4. last \in Int /\ d.year - n \in Int
  BY <1>1, <1>3 DEF Dates, DaysInMonth
<1>. DEFINE e == [d EXCEPT !.year = d.year - n, !.day = last]
<1>5. /\ e \in Dates /\ e.year = d.year - n /\ e.month = d.month /\ e.day = last
      /\ e.hour = d.hour /\ e.minutes = d.minutes
  BY <1>1, <1>4 DEF Dates
<1>6. YearsBefore(d, n) = e
  BY <1>2
<1>. HIDE DEF e
<1>7. IsDay(e)
  BY <1>1, <1>3, <1>5 DEF IsDay
<1>. QED
  BY <1>3, <1>5, <1>6, <1>7 DEF Instants

\* A submitted date: fields in the ranges of the form's mapping.
Submitted ==
  {d \in Dates : /\ d.day \in 1 .. MaxDaysInMonth /\ d.month \in 1 .. MaxMonthsInYear
                 /\ d.hour \in None .. MaxHoursInDay
                 /\ d.minutes \in None .. MaxMinutesInHour}

\* One that names a day of the calendar and no hour 24.
Named == {d \in Submitted : IsDay(d) /\ d.hour # MaxHoursInDay}

\* It gives no time, or an hour without minutes.
Incomplete(d) == d.hour = None \/ d.minutes = None

\* The moment of an instant is its minute of its day.
LEMMA MomentOfInstant ==
  ASSUME NEW i \in Instants
  PROVE  /\ Moment(i) = Instant(i)
         /\ DayNumber(i) \in Int /\ Minute(i) \in 0 .. 1439 /\ Moment(i) \in Int
<1>1. i.hour \in 0 .. 23 /\ i.minutes \in 0 .. 59 /\ i \in Dates
  BY DEF Instants
<1>2. DayNumber(i) \in Int
  BY <1>1 DEF DayNumber, Dates
<1>3. Minute(i) = 60 * i.hour + i.minutes /\ Minute(i) \in 0 .. 1439
  BY <1>1 DEF Minute
<1>4. Moment(i) = 24 * 60 * DayNumber(i) + 60 * i.hour + i.minutes
  BY <1>1 DEF Moment, None
<1>. QED
  BY <1>1, <1>2, <1>3, <1>4 DEF Instant

\* Moments go on with the days, and within a day with the minutes.
LEMMA LaterMoment ==
  ASSUME NEW i \in Instants, NEW j \in Instants,
         \/ DayNumber(i) < DayNumber(j)
         \/ DayNumber(i) = DayNumber(j) /\ Minute(i) < Minute(j)
  PROVE  Moment(i) \in Int /\ Moment(j) \in Int /\ Moment(i) <= Moment(j)
<1>. DEFINE p == DayNumber(i)
            q == DayNumber(j)
            m == Minute(i)
            n == Minute(j)
<1>1. p \in Int /\ q \in Int /\ m \in 0 .. 1439 /\ n \in 0 .. 1439
  BY MomentOfInstant
<1>2. Moment(i) = 24 * 60 * p + m /\ Moment(j) = 24 * 60 * q + n
  BY MomentOfInstant DEF Instant
<1>3. p < q \/ (p = q /\ m < n)
  OBVIOUS
<1>. HIDE DEF p, q, m, n
<1>. QED
  BY <1>1, <1>2, <1>3

\* The first and the last minute that a date names.
LEMMA NamedMinutes ==
  ASSUME NEW d \in Named
  PROVE  /\ DayNumber(d) \in Int /\ Begins(d) \in Int /\ Ends(d) \in Int /\ Moment(d) \in Int
         /\ Begins(d) = 24 * 60 * DayNumber(d)
                        + (IF d.hour = None THEN 0
                           ELSE 60 * d.hour + (IF d.minutes = None THEN 0 ELSE d.minutes))
         /\ Begins(d) <= Moment(d) /\ Begins(d) <= Ends(d)
         /\ ~Incomplete(d) => Ends(d) = Begins(d)
<1>. DEFINE p == DayNumber(d)
<1>1. /\ d.hour = None \/ d.hour \in 0 .. 23
      /\ d.minutes = None \/ d.minutes \in 0 .. 59
      /\ d \in Dates
  BY DEF Named, Submitted, None, MaxHoursInDay, MaxMinutesInHour
<1>2. p \in Int
  BY <1>1 DEF DayNumber, Dates
<1>3. /\ Moment(d) = 24 * 60 * p + (IF d.hour = None THEN 0 ELSE 60 * d.hour)
                     + (IF d.minutes = None THEN 0 ELSE d.minutes)
      /\ Begins(d) = IF d.hour = None THEN 24 * 60 * p ELSE Moment(d)
      /\ Ends(d) = IF d.hour = None THEN Begins(d) + 24 * 60 - 1
                   ELSE IF d.minutes = None THEN Begins(d) + 59 ELSE Begins(d)
  BY DEF Moment, Begins, Ends
<1>. DEFINE h == d.hour
            m == d.minutes
<1>4. /\ h = None \/ h \in 0 .. 23
      /\ m = None \/ m \in 0 .. 59
      /\ Incomplete(d) <=> h = None \/ m = None
  BY <1>1 DEF Incomplete
<1>5. /\ Moment(d) = 24 * 60 * p + (IF h = None THEN 0 ELSE 60 * h)
                     + (IF m = None THEN 0 ELSE m)
      /\ Begins(d) = IF h = None THEN 24 * 60 * p ELSE Moment(d)
      /\ Ends(d) = IF h = None THEN Begins(d) + 24 * 60 - 1
                   ELSE IF m = None THEN Begins(d) + 59 ELSE Begins(d)
  BY <1>3
<1>. HIDE DEF p, h, m
<1>6. CASE h = None
  BY <1>2, <1>4, <1>5, <1>6 DEF h, m, p, None
<1>7. CASE h # None /\ m = None
  <2>1. Begins(d) = 24 * 60 * p + 60 * h /\ Moment(d) = Begins(d) /\ Ends(d) = Begins(d) + 59
    BY <1>2, <1>4, <1>5, <1>7
  <2>. QED
    BY <1>2, <1>4, <1>7, <2>1 DEF h, m, p
<1>8. CASE h # None /\ m # None
  <2>1. /\ Begins(d) = 24 * 60 * p + (60 * h + m) /\ Moment(d) = Begins(d)
        /\ Ends(d) = Begins(d)
    BY <1>2, <1>4, <1>5, <1>8
  <2>. QED
    BY <1>2, <1>4, <1>8, <2>1 DEF h, m, p
<1>. QED
  BY <1>6, <1>7, <1>8

\* Against an instant, a date counts from the first minute it names; beginning with
\* the instant it is still earlier if it is incomplete.
LEMMA NamedAgainstInstant ==
  ASSUME NEW d \in Named, NEW i \in Instants
  PROVE  /\ Compare(d, i) >= 0 <=>
              Begins(d) > Moment(i) \/ (Begins(d) = Moment(i) /\ ~Incomplete(d))
         /\ Compare(d, i) <= 0 <=> Begins(d) <= Moment(i)
<1>1. /\ d \in Dates /\ i \in Dates /\ IsDay(d) /\ IsDay(i)
      /\ i.hour \in 0 .. 23 /\ i.minutes \in 0 .. 59
      /\ d.hour = None \/ d.hour \in 0 .. 23
      /\ d.minutes = None \/ d.minutes \in 0 .. 59
  BY DEF Named, Submitted, Instants, None, MaxHoursInDay, MaxMinutesInHour
<1>. DEFINE p == DayNumber(d)
            q == DayNumber(i)
            h == d.hour
            m == d.minutes
            k == i.hour
            n == i.minutes
<1>2. /\ p \in Int /\ q \in Int
      /\ p < q <=> DayBefore(d, i)
      /\ p = q <=> SameDay(d, i)
      /\ q < p <=> DayBefore(i, d)
  BY <1>1, DayNumberOrders
<1>3. /\ Earlier(d, i) <=> DayBefore(d, i) \/ (SameDay(d, i) /\ EarlierTime(d, i))
      /\ Earlier(i, d) <=> DayBefore(i, d) \/ (SameDay(d, i) /\ EarlierTime(i, d))
  BY <1>1 DEF Earlier, DayBefore, SameDay, Dates
<1>4. /\ Begins(d) = 24 * 60 * p
                     + (IF h = None THEN 0 ELSE 60 * h + (IF m = None THEN 0 ELSE m))
      /\ Incomplete(d) <=> h = None \/ m = None
  BY NamedMinutes DEF Incomplete
<1>5. Moment(i) = 24 * 60 * q + 60 * k + n
  BY <1>1 DEF Moment, None
<1>6. /\ Compare(d, i) >= 0 <=> ~Earlier(d, i)
      /\ Compare(d, i) <= 0 <=> ~Earlier(i, d)
  BY <1>1, CompareCases
<1>7. /\ k \in 0 .. 23 /\ n \in 0 .. 59 /\ k # None /\ n # None
      /\ h = None \/ h \in 0 .. 23
      /\ m = None \/ m \in 0 .. 59
  BY <1>1 DEF None
<1>8. /\ EarlierTime(d, i) <=> h = None \/ h < k \/ (h = k /\ (m = None \/ m < n))
      /\ EarlierTime(i, d) <=> h # None /\ (k < h \/ (h = k /\ m # None /\ n < m))
  <2>1. None = -1
    BY DEF None
  <2>. QED
    BY <1>7, <2>1 DEF EarlierTime
<1>. HIDE DEF p, q, h, m, k, n
<1>9. CASE h = None
  BY <1>2, <1>3, <1>4, <1>5, <1>6, <1>7, <1>8, <1>9
<1>10. CASE h # None /\ m = None
  BY <1>2, <1>3, <1>4, <1>5, <1>6, <1>7, <1>8, <1>10
<1>11. CASE h # None /\ m # None
  <2>. DEFINE u == 60 * h + m
              v == 60 * k + n
  <2>0. /\ h \in 0 .. 23 /\ m \in 0 .. 59
        /\ EarlierTime(d, i) <=> h < k \/ (h = k /\ m < n)
        /\ EarlierTime(i, d) <=> k < h \/ (h = k /\ n < m)
    BY <1>7, <1>8, <1>11
  <2>1. /\ u \in 0 .. 1439 /\ v \in 0 .. 1439
        /\ u < v <=> h < k \/ (h = k /\ m < n)
        /\ v < u <=> k < h \/ (h = k /\ n < m)
    BY <1>7, <2>0
  <2>2. Begins(d) = 24 * 60 * p + u /\ Moment(i) = 24 * 60 * q + v /\ ~Incomplete(d)
    BY <1>2, <1>4, <1>5, <1>7, <1>11
  <2>. HIDE DEF u, v
  <2>. QED
    BY <1>2, <1>3, <1>6, <2>0, <2>1, <2>2
<1>. QED
  BY <1>9, <1>10, <1>11

\* The form's earliest date is the start of the window, whatever the year was that
\* had no 29 February.
LEMMA EarliestIsWindowStart ==
  ASSUME NEW at \in Instants, ~Skipped(at)
  PROVE  /\ YearsBefore(at, DateOfDisposalYearsIntoThePast) \in Instants
         /\ Moment(YearsBefore(at, DateOfDisposalYearsIntoThePast)) = WindowStart(at)
         /\ WindowStart(at) \in Int
<1>. DEFINE n == DateOfDisposalYearsIntoThePast
            earliest == YearsBefore(at, n)
            then == [at EXCEPT !.year = @ - n]
<1>1. n \in Nat /\ at \in Dates /\ IsDay(at)
  BY YearsAssumption DEF Instants
<1>2. /\ earliest \in Instants /\ earliest.year = at.year - n
      /\ earliest.month = at.month
      /\ earliest.hour = at.hour /\ earliest.minutes = at.minutes
      /\ \/ earliest.day = at.day
         \/ at.month = 2 /\ at.day = 29 /\ earliest.day = 28 /\ ~IsLeap(at.year - n)
  BY <1>1, YearsBeforeInstant
<1>3. /\ then \in Dates /\ then.year = at.year - n /\ then.month = at.month
      /\ then.day = at.day /\ then.hour = at.hour /\ then.minutes = at.minutes
  BY <1>1 DEF Dates
<1>4. WindowStart(at) = Moment(then) - (IF IsDay(then) THEN 0 ELSE 24 * 60)
  BY DEF WindowStart
<1>. HIDE DEF n, earliest, then
<1>5. DayNumber(earliest) \in Int /\ DayNumber(then) \in Int /\ earliest \in Dates /\ IsDay(earliest)
  BY <1>2, <1>3, MomentOfInstant DEF DayNumber, Dates, Instants
<1>6. DayNumber(earliest) - earliest.day = DayNumber(then) - then.day
  BY <1>2, <1>3, <1>5, DayNumberParts DEF MarchYear, MarchMonth, YearStart, MonthStart, Dates
<1>7. Moment(earliest) - 24 * 60 * DayNumber(earliest) = Moment(then) - 24 * 60 * DayNumber(then)
  BY <1>2, <1>3, <1>5 DEF Moment, None, Instants, Dates
<1>8. Moment(earliest) \in Int /\ Moment(then) \in Int
  <2>1. Moment(earliest) \in Int
    BY <1>2, MomentOfInstant
  <2>2. Moment(then) \in Int
    BY <1>3, <1>5 DEF Moment, Dates, OptionInt
  <2>. QED
    BY <2>1, <2>2
<1>9. Moment(earliest) = WindowStart(at)
  <2>1. CASE earliest.day = at.day
    <3>1. IsDay(then)
      BY <1>2, <1>3, <1>5, <2>1 DEF IsDay
    <3>2. DayNumber(earliest) = DayNumber(then)
      BY <1>3, <1>5, <1>6, <2>1 DEF Dates
    <3>. QED
      BY <1>4, <1>5, <1>7, <1>8, <3>1, <3>2
  <2>2. CASE at.month = 2 /\ at.day = 29 /\ earliest.day = 28 /\ ~IsLeap(at.year - n)
    <3>1. ~IsDay(then)
      BY <1>3, <2>2 DEF IsDay, DaysInMonth
    <3>2. DayNumber(earliest) = DayNumber(then) - 1
      BY <1>3, <1>5, <1>6, <2>2
    <3>3. WindowStart(at) = Moment(then) - 24 * 60
      BY <1>4, <3>1
    <3>4. Moment(earliest) = Moment(then) - 24 * 60
      <4>. DEFINE p == DayNumber(earliest)
                  q == DayNumber(then)
      <4>1. p \in Int /\ q \in Int /\ p = q - 1
        BY <1>5, <3>2
      <4>2. Moment(earliest) - 24 * 60 * p = Moment(then) - 24 * 60 * q
        BY <1>7
      <4>. HIDE DEF p, q
      <4>. QED
        BY <1>8, <4>1, <4>2
    <3>. QED
      BY <3>3, <3>4
  <2>. QED
    BY <1>2, <2>1, <2>2
<1>. QED
  BY <1>2, <1>8, <1>9 DEF n, earliest

\* What the form's first bound admits begins in the window; what it refuses ends
\* before it or names the day or the hour in which it starts.
LEMMA AfterIsInWindow ==
  ASSUME NEW d \in Named, NEW at \in Instants, ~Skipped(at)
  PROVE  LET earliest == YearsBefore(at, DateOfDisposalYearsIntoThePast)
         IN  /\ After(d, earliest) => WindowStart(at) <= Begins(d)
             /\ ~After(d, earliest) => Ends(d) < WindowStart(at) \/ AtEdge(d, at)
<1>. DEFINE earliest == YearsBefore(at, DateOfDisposalYearsIntoThePast)
<1>1. /\ earliest \in Instants /\ Moment(earliest) = WindowStart(at)
      /\ WindowStart(at) \in Int
  BY EarliestIsWindowStart
<1>. HIDE DEF earliest
<1>2. After(d, earliest) <=>
        \/ Begins(d) > WindowStart(at)
        \/ Begins(d) = WindowStart(at) /\ ~Incomplete(d)
  BY <1>1, NamedAgainstInstant DEF After
<1>3. /\ Begins(d) \in Int /\ Ends(d) \in Int
      /\ ~Incomplete(d) => Ends(d) = Begins(d)
  BY NamedMinutes
<1>4. After(d, earliest) => WindowStart(at) <= Begins(d)
  BY <1>1, <1>2, <1>3
<1>5. ASSUME ~After(d, earliest) PROVE Ends(d) < WindowStart(at) \/ AtEdge(d, at)
  <2>1. CASE Incomplete(d)
    BY <1>1, <1>2, <1>3, <1>5, <2>1 DEF AtEdge, Incomplete
  <2>2. CASE ~Incomplete(d)
    BY <1>1, <1>2, <1>3, <1>5, <2>2
  <2>. QED
    BY <2>1, <2>2
<1>. QED
  BY <1>4, <1>5 DEF earliest

----------
(* What is sent.                                                           *)

\* What the clock shows: an instant of no skipped hour.
ClockOK == clock \in Instants /\ ~Skipped(clock)

\* The page was made at an instant, for the years up to it.
PageOK == page = NoPage \/
  /\ page.at \in Instants
  /\ page.years = YearRange(page.at, DateOfDisposalYearsIntoThePast)

\* The form came at an instant and is bounded by the one years before it.  From its
\* checks on, its date begins in the window and not after the clock, if it names
\* an hour there is: the clock only goes on until it gives the timestamp.
SaleOK == sale = NoSale \/
  /\ sale.stage \in {"received", "valid", "failed", "sent"}
  /\ sale.date \in Submitted
  /\ sale.at \in Instants /\ ~Skipped(sale.at)
  /\ sale.earliest = YearsBefore(sale.at, DateOfDisposalYearsIntoThePast)
  /\ sale.stage = "valid" /\ sale.date.hour # MaxHoursInDay =>
       /\ IsDay(sale.date) /\ WindowStart(sale.at) <= Begins(sale.date)
       /\ Begins(sale.date) <= Moment(clock)
  /\ sale.stage = "sent" =>
       /\ IsDay(sale.date) /\ sale.date.hour # MaxHoursInDay
       /\ WindowStart(sale.at) <= Begins(sale.date)
       /\ Begins(sale.date) <= Moment(sale.transactionTimestamp)

DatesInv == ClockOK /\ PageOK /\ SaleOK /\ Convertible

\* An instant made of a day and a time of the clock.
LEMMA AtIsInstant ==
  ASSUME NEW d, IsDay(d), d.day \in Int, d.year \in Int, NEW t \in Times
  PROVE  /\ At(d, t) \in Instants
         /\ At(d, t).year = d.year /\ At(d, t).month = d.month /\ At(d, t).day = d.day
         /\ DayNumber(At(d, t)) = DayNumber(d)
<1>1. /\ At(d, t) \in Instants
      /\ At(d, t).year = d.year /\ At(d, t).month = d.month /\ At(d, t).day = d.day
  BY ClockAssumption DEF At, Instants, Dates, OptionInt, IsDay, DaysInMonth
<1>. QED
  BY <1>1 DEF DayNumber

\* A date with another day and month; with another year too.
WithMonth(d, x, m) == [d EXCEPT !.day = x, !.month = m]
WithYear(d, x, m, y) == [d EXCEPT !.day = x, !.month = m, !.year = y]

\* They are dates with these fields.
LEMMA DateWithMonth ==
  ASSUME NEW d \in Dates, NEW x \in Int, NEW m \in Int
  PROVE  /\ WithMonth(d, x, m) \in Dates /\ WithMonth(d, x, m).day = x
         /\ WithMonth(d, x, m).month = m /\ WithMonth(d, x, m).year = d.year
<1>1. WithMonth(d, x, m) \in Dates
  BY DEF Dates, WithMonth
<1>2. /\ WithMonth(d, x, m).day = x
      /\ WithMonth(d, x, m).month = m /\ WithMonth(d, x, m).year = d.year
  BY DEF Dates, WithMonth
<1>. QED
  BY <1>1, <1>2

\* With another year too.
LEMMA DateWithYear ==
  ASSUME NEW d \in Dates, NEW x \in Int, NEW m \in Int, NEW y \in Int
  PROVE  /\ WithYear(d, x, m, y) \in Dates /\ WithYear(d, x, m, y).day = x
         /\ WithYear(d, x, m, y).month = m /\ WithYear(d, x, m, y).year = y
<1>1. WithYear(d, x, m, y) \in Dates
  BY DEF Dates, WithYear
<1>2. /\ WithYear(d, x, m, y).day = x
      /\ WithYear(d, x, m, y).month = m /\ WithYear(d, x, m, y).year = y
  BY DEF Dates, WithYear
<1>. QED
  BY <1>1, <1>2

\* The clock shows instants and does not go back; the year goes on by one at most.
LEMMA ClockGoesOn ==
  ASSUME ClockOK, Tick
  PROVE  /\ ClockOK'
         /\ Moment(clock) \in Int /\ Moment(clock') \in Int
         /\ Moment(clock) <= Moment(clock')
         /\ clock'.year \in {clock.year, clock.year + 1}
<1>1. /\ clock \in Dates /\ IsDay(clock) /\ clock.day \in Int /\ clock.year \in Int
      /\ clock.month \in 1 .. 12
  BY DEF ClockOK, Instants, Dates, IsDay
<1>2. /\ clock' \in Shows(clock) \cup Shows(Tomorrow(clock))
      /\ clock' \notin Shows(Tomorrow(clock)) => Minute(clock') > Minute(clock)
  BY DEF Tick
<1>. DEFINE tomorrow == Tomorrow(clock)
<1>3. /\ IsDay(tomorrow) /\ tomorrow \in Dates
      /\ tomorrow.year \in {clock.year, clock.year + 1}
      /\ DayBefore(clock, tomorrow)
  <2>1. CASE clock.day < DaysInMonth(clock.month, clock.year)
    <3>1. tomorrow = [clock EXCEPT !.day = @ + 1]
      BY <2>1 DEF Tomorrow
    <3>. QED
      BY <1>1, <2>1, <3>1 DEF IsDay, Dates, DayBefore, DaysInMonth
  <2>2. CASE ~(clock.day < DaysInMonth(clock.month, clock.year)) /\ clock.month < 12
    <3>1. tomorrow = WithMonth(clock, 1, clock.month + 1)
      BY <2>2 DEF Tomorrow, WithMonth
    <3>2. /\ tomorrow \in Dates /\ tomorrow.day = 1
          /\ tomorrow.month = clock.month + 1 /\ tomorrow.year = clock.year
      BY <1>1, <3>1, DateWithMonth
    <3>. HIDE DEF tomorrow
    <3>3. clock.month \in Int /\ clock.month + 1 \in 1 .. 12 /\ clock.month < clock.month + 1
      BY <1>1, <2>2
    <3>4. IsDay(tomorrow)
      BY <1>1, <3>2, <3>3 DEF IsDay, DaysInMonth
    <3>5. DayBefore(clock, tomorrow)
      BY <1>1, <3>2, <3>3 DEF DayBefore
    <3>. QED
      BY <1>1, <3>2, <3>4, <3>5
  <2>3. CASE ~(clock.day < DaysInMonth(clock.month, clock.year)) /\ ~(clock.month < 12)
    <3>1. tomorrow = WithYear(clock, 1, 1, clock.year + 1)
      BY <2>3 DEF Tomorrow, WithYear
    <3>2. /\ tomorrow \in Dates /\ tomorrow.day = 1
          /\ tomorrow.month = 1 /\ tomorrow.year = clock.year + 1
      BY <1>1, <3>1, DateWithYear
    <3>. HIDE DEF tomorrow
    <3>. QED
      BY <1>1, <2>3, <3>2 DEF IsDay, DayBefore, DaysInMonth
  <2>. QED
    BY <2>1, <2>2, <2>3
<1>. HIDE DEF tomorrow
<1>4. DayNumber(clock) \in Int /\ DayNumber(tomorrow) \in Int /\ DayNumber(clock) < DayNumber(tomorrow)
  BY <1>1, <1>3, DayNumberOrders
<1>5. clock' \in Shows(clock) \cup Shows(tomorrow) => ~Skipped(clock')
  BY DEF Shows
<1>6. CASE clock' \in Shows(tomorrow)
  <2>1. PICK t \in Times : clock' = At(tomorrow, t)
    BY <1>6 DEF Shows
  <2>2. tomorrow.day \in Int /\ tomorrow.year \in Int
    BY <1>3 DEF Dates
  <2>3. /\ clock' \in Instants /\ clock'.year = tomorrow.year
        /\ DayNumber(clock') = DayNumber(tomorrow)
    BY <1>3, <2>1, <2>2, AtIsInstant
  <2>4. clock \in Instants /\ DayNumber(clock) < DayNumber(clock')
    BY <1>4, <2>3 DEF ClockOK
  <2>5. Moment(clock) \in Int /\ Moment(clock') \in Int /\ Moment(clock) <= Moment(clock')
    BY <2>3, <2>4, LaterMoment
  <2>6. ClockOK'
    BY <1>5, <1>6, <2>3 DEF ClockOK
  <2>. QED
    BY <1>3, <2>3, <2>5, <2>6
<1>7. CASE clock' \in Shows(clock) /\ clock' \notin Shows(tomorrow)
  <2>1. PICK t \in Times : clock' = At(clock, t)
    BY <1>7 DEF Shows
  <2>2. /\ clock' \in Instants /\ clock'.year = clock.year
        /\ DayNumber(clock') = DayNumber(clock)
    BY <1>1, <2>1, AtIsInstant
  <2>3. clock \in Instants
    BY DEF ClockOK
  <2>4. Minute(clock') > Minute(clock)
    BY <1>2, <1>7 DEF tomorrow
  <2>5. Moment(clock) \in Int /\ Moment(clock') \in Int /\ Moment(clock) <= Moment(clock')
    BY <2>2, <2>3, <2>4, LaterMoment
  <2>6. ClockOK'
    BY <1>5, <1>7, <2>2 DEF ClockOK
  <2>. QED
    BY <2>2, <2>5, <2>6
<1>. QED
  BY <1>2, <1>6, <1>7 DEF tomorrow

\* The clock starts at an instant, with no page and no form.
LEMMA DatesInit == Init => DatesInv
<1>1. ASSUME Init PROVE ClockOK
  <2>1. PICK d \in Starts : clock \in Shows(d)
    BY <1>1 DEF Init
  <2>2. PICK t \in Times : clock = At(d, t) /\ ~Skipped(clock)
    BY <2>1 DEF Shows
  <2>3. IsDay(d) /\ d.day \in Int /\ d.year \in Int
    BY ClockAssumption
  <2>. QED
    BY <2>2, <2>3, AtIsInstant DEF ClockOK
<1>. QED
  BY <1>1, ConvertibleInit DEF Init, DatesInv, PageOK, SaleOK

\* No handler and no tick of the clock undoes it.
LEMMA DatesStep == DatesInv /\ [Next]_vars => DatesInv'
<1>. SUFFICES ASSUME DatesInv, [Next]_vars PROVE ClockOK' /\ PageOK' /\ SaleOK'
  BY ConvertibleStep DEF DatesInv
<1>0. ClockOK /\ PageOK /\ SaleOK
  BY DEF DatesInv
<1>1. CASE Tick
  <2>1. UNCHANGED <<page, sale>>
    BY <1>1 DEF Tick
  <2>2. PageOK'
    BY <1>0, <2>1 DEF PageOK
  <2>3. SaleOK'
    <3>1. ASSUME sale # NoSale, sale.stage = "valid", sale.date.hour # MaxHoursInDay
          PROVE  Begins(sale.date) <= Moment(clock')
      <4>1. sale.date \in Named /\ Begins(sale.date) <= Moment(clock)
        BY <1>0, <3>1 DEF SaleOK, Named
      <4>2. Begins(sale.date) \in Int
        BY <4>1, NamedMinutes
      <4>. QED
        BY <1>0, <1>1, <4>1, <4>2, ClockGoesOn
    <3>. QED
      BY <1>0, <2>1, <3>1 DEF SaleOK
  <2>. QED
    BY <1>0, <1>1, <2>2, <2>3, ClockGoesOn
<1>2. CASE Present
  BY <1>0, <1>2 DEF Present, Shown, ClockOK, PageOK, SaleOK, NoPage
<1>3. CASE Submit
  <2>1. UNCHANGED <<clock, page>> /\ page # NoPage
    BY <1>3 DEF Submit
  <2>2. PICK e \in Entries, y \in page.years \cup OtherYears :
          sale' = [stage |-> "received", date |-> DayMonthYear(e, y), at |-> clock,
                   earliest |-> YearsBefore(clock, DateOfDisposalYearsIntoThePast),
                   transactionTimestamp |-> None]
    BY <1>3 DEF Submit
  <2>3. y \in Int
    <3>1. page.at.year \in Int /\ page.years = YearRange(page.at, DateOfDisposalYearsIntoThePast)
      BY <1>0, <2>1 DEF PageOK, Instants, Dates
    <3>2. page.years \subseteq Int
      BY <3>1, YearsAssumption DEF YearRange
    <3>3. OtherYears \subseteq Int
      BY EntriesAssumption
    <3>. QED
      BY <2>2, <3>2, <3>3
  <2>4. DayMonthYear(e, y) \in Submitted
    BY <2>3, EntriesAssumption
       DEF DayMonthYear, Submitted, Dates, OptionInt, None,
           MaxDaysInMonth, MaxMonthsInYear, MaxHoursInDay, MaxMinutesInHour
  <2>5. SaleOK'
    BY <1>0, <2>1, <2>2, <2>4 DEF ClockOK, SaleOK
  <2>. QED
    BY <1>0, <2>1, <2>5 DEF ClockOK, PageOK
<1>4. CASE Bind
  <2>1. clock' = clock /\ sale # NoSale /\ sale.stage = "received"
    BY <1>4 DEF Bind, NoSale
  <2>2. CASE ValidDate(sale.date) /\ After(sale.date, sale.earliest) /\ NotInFuture(sale.date)
    <3>1. sale' = [sale EXCEPT !.stage = "valid"] /\ page' = page
      BY <1>4, <2>2 DEF Bind
    <3>2. /\ sale'.stage = "valid" /\ sale'.date = sale.date /\ sale'.at = sale.at
          /\ sale'.earliest = sale.earliest
      BY <2>1, <3>1 DEF DatesInv, Convertible
    <3>3. /\ sale.date \in Submitted /\ sale.at \in Instants /\ ~Skipped(sale.at)
          /\ IsDay(sale.date)
          /\ sale.earliest = YearsBefore(sale.at, DateOfDisposalYearsIntoThePast)
      BY <1>0, <2>1, <2>2 DEF SaleOK, ValidDate
    <3>4. ASSUME sale.date.hour # MaxHoursInDay
          PROVE  /\ WindowStart(sale.at) <= Begins(sale.date)
                 /\ Begins(sale.date) <= Moment(clock)
      <4>1. sale.date \in Named
        BY <3>3, <3>4 DEF Named
      <4>2. WindowStart(sale.at) <= Begins(sale.date)
        BY <2>2, <3>3, <4>1, AfterIsInWindow
      <4>3. Begins(sale.date) <= Moment(clock)
        BY <1>0, <2>2, <4>1, NamedAgainstInstant DEF NotInFuture, ClockOK
      <4>. QED
        BY <4>2, <4>3
    <3>. QED
      BY <1>0, <2>1, <3>1, <3>2, <3>3, <3>4 DEF ClockOK, PageOK, SaleOK
  <2>3. CASE ~(ValidDate(sale.date) /\ After(sale.date, sale.earliest) /\ NotInFuture(sale.date))
    <3>1. sale' = NoSale /\ page' = Shown
      BY <1>4, <2>3 DEF Bind
    <3>. QED
      BY <1>0, <2>1, <3>1 DEF Shown, ClockOK, PageOK, SaleOK
  <2>. QED
    BY <2>2, <2>3
<1>5. CASE Build
  <2>1. UNCHANGED <<clock, page>> /\ sale # NoSale /\ sale.stage = "valid"
    BY <1>5 DEF Build, NoSale
  <2>2. CASE ToDateTime(sale.date)
    <3>1. sale' = [sale EXCEPT !.stage = "sent", !.transactionTimestamp = clock]
      BY <1>5, <2>2 DEF Build
    <3>2. /\ sale'.stage = "sent" /\ sale'.date = sale.date /\ sale'.at = sale.at
          /\ sale'.earliest = sale.earliest /\ sale'.transactionTimestamp = clock
      BY <2>1, <3>1 DEF DatesInv, Convertible
    <3>3. sale.date.hour # MaxHoursInDay
      BY <2>2 DEF ToDateTime, None, MaxHoursInDay
    <3>. QED
      BY <1>0, <2>1, <3>2, <3>3 DEF ClockOK, PageOK, SaleOK
  <2>3. CASE ~ToDateTime(sale.date)
    <3>1. sale' = [sale EXCEPT !.stage = "failed"]
      BY <1>5, <2>3 DEF Build
    <3>2. /\ sale'.stage = "failed" /\ sale'.date = sale.date /\ sale'.at = sale.at
          /\ sale'.earliest = sale.earliest
      BY <2>1, <3>1 DEF DatesInv, Convertible
    <3>. QED
      BY <1>0, <2>1, <3>2 DEF ClockOK, PageOK, SaleOK
  <2>. QED
    BY <2>2, <2>3
<1>6. CASE UNCHANGED vars
  BY <1>0, <1>6 DEF vars, ClockOK, PageOK, SaleOK
<1>. QED
  BY <1>1, <1>2, <1>3, <1>4, <1>5, <1>6 DEF Next

\* It holds of every run.
LEMMA DatesAlways == Spec => []DatesInv
BY DatesInit, DatesStep, PTL DEF Spec

\* What is known of a request that is sent is what the property asks.
LEMMA SaleIsInWindow == DatesInv => SentInWindow
<1>. SUFFICES ASSUME DatesInv, sale.stage = "sent"
     PROVE  /\ WindowStart(sale.at) <= Moment(sale.date)
            /\ Begins(sale.date) <= Moment(sale.transactionTimestamp)
  BY DEF SentInWindow
<1>1. /\ sale.date \in Named /\ sale.at \in Instants /\ ~Skipped(sale.at)
      /\ WindowStart(sale.at) <= Begins(sale.date)
      /\ Begins(sale.date) <= Moment(sale.transactionTimestamp)
  BY DEF DatesInv, SaleOK, NoSale, Named
<1>2. WindowStart(sale.at) \in Int
  BY <1>1, EarliestIsWindowStart
<1>. QED
  BY <1>1, <1>2, NamedMinutes

\* What is sent to the disposal service is a moment inside the window of years as of
\* the submission, not after the transaction's timestamp, for every length of the
\* window, with or without a time, and however the clock goes on between the checks
\* and the request.
THEOREM SentDatesAreInWindow == Spec => []SentInWindow
<1>. QED
  BY DatesAlways, SaleIsInWindow, PTL

\* compare orders the instants the handlers compute as time does: the clock when
\* the page was made, when the form arrived and now, and two years before.
OrderIsChronological ==
  LET instants == {clock} \cup (IF page = NoPage THEN {} ELSE {page.at})
                          \cup (IF sale = NoSale THEN {} ELSE {sale.at, sale.earliest})
  IN  \A a, b \in instants : Compare(a, b) = Sign(Moment(a), Moment(b))

\* The clock, the two instants kept and the earliest date are instants.
LEMMA InstantsInOrder == DatesInv => OrderIsChronological
<1>. SUFFICES ASSUME DatesInv PROVE OrderIsChronological
  OBVIOUS
<1>. DEFINE instants == {clock} \cup (IF page = NoPage THEN {} ELSE {page.at})
                                \cup (IF sale = NoSale THEN {} ELSE {sale.at, sale.earliest})
<1>1. sale # NoSale => sale.at \in Instants /\ sale.earliest \in Instants
  BY YearsAssumption, YearsBeforeInstant DEF DatesInv, SaleOK, NoSale
<1>2. instants \subseteq Instants
  BY <1>1 DEF DatesInv, ClockOK, PageOK
<1>. HIDE DEF instants
<1>3. \A a, b \in instants : Compare(a, b) = Sign(Moment(a), Moment(b))
  BY <1>2, CompareIsTime, MomentOfInstant
<1>. QED
  BY <1>3 DEF OrderIsChronological, instants

\* compare orders the instants the handlers compute as time does, on every day of
\* the calendar and for every window: leap years and the ends of months included.
THEOREM InstantsAreChronological == Spec => []OrderIsChronological
<1>. QED
  BY DatesAlways, InstantsInOrder, PTL

----------
(* What is refused.                                                        *)

\* The clock starts, and stays, in years that the form's bounds on the year
\* enclose with the whole window: from 1000 + N to 9998.
YearsEnclosed ==
  \A d \in Starts : /\ MinYear + DateOfDisposalYearsIntoThePast < d.year
                    /\ d.year + MaxTicks < MaxYear

\* So is the year in which the form came.
YearsOK ==
  /\ ticks \in Nat /\ ticks <= MaxTicks
  /\ MinYear + DateOfDisposalYearsIntoThePast < clock.year
  /\ clock.year + (MaxTicks - ticks) < MaxYear
  /\ sale = NoSale \/ MinYear + DateOfDisposalYearsIntoThePast < sale.at.year

\* Of the clock's first year it is the assumption.
LEMMA YearsInit == YearsEnclosed /\ Init => YearsOK
<1>. SUFFICES ASSUME YearsEnclosed, Init PROVE YearsOK
  OBVIOUS
<1>1. PICK d \in Starts, t \in Times : clock = At(d, t)
  BY DEF Init, Shows
<1>2. IsDay(d) /\ d.day \in Int /\ d.year \in Int
  BY ClockAssumption
<1>3. clock.year = d.year
  BY <1>1 DEF At
<1>. QED
  BY <1>2, <1>3, ClockAssumption DEF YearsEnclosed, Init, YearsOK, MinYear, MaxYear

\* Each tick adds one year at most.
LEMMA YearsStep == DatesInv /\ YearsOK /\ [Next]_vars => YearsOK'
<1>. SUFFICES ASSUME DatesInv, YearsOK, [Next]_vars PROVE YearsOK'
  OBVIOUS
<1>. USE DEF MinYear, MaxYear
<1>0. /\ DateOfDisposalYearsIntoThePast \in Nat /\ MaxTicks \in Nat
      /\ clock.year \in Int
  BY YearsAssumption, ClockAssumption DEF DatesInv, ClockOK, Instants, Dates
<1>1. CASE Tick
  <2>1. UNCHANGED <<page, sale>> /\ ticks' = ticks + 1 /\ ticks < MaxTicks
    BY <1>1 DEF Tick
  <2>2. clock'.year \in {clock.year, clock.year + 1}
    BY <1>1, ClockGoesOn DEF DatesInv
  <2>. QED
    BY <1>0, <2>1, <2>2 DEF YearsOK
<1>2. CASE Present
  BY <1>2 DEF Present, YearsOK
<1>3. CASE Submit
  <2>1. UNCHANGED <<clock, ticks>> /\ sale'.at = clock
    BY <1>3 DEF Submit
  <2>. QED
    BY <2>1 DEF YearsOK
<1>4. CASE Bind
  <2>1. UNCHANGED <<clock, ticks>>
    BY <1>4 DEF Bind
  <2>2. sale' = NoSale \/ (sale # NoSale /\ sale'.at = sale.at)
    BY <1>4 DEF Bind, NoSale, DatesInv, Convertible
  <2>. QED
    BY <2>1, <2>2 DEF YearsOK
<1>5. CASE Build
  <2>1. UNCHANGED <<clock, ticks>>
    BY <1>5 DEF Build
  <2>2. sale # NoSale /\ sale'.at = sale.at
    BY <1>5 DEF Build, NoSale, DatesInv, Convertible
  <2>. QED
    BY <2>1, <2>2 DEF YearsOK
<1>6. CASE UNCHANGED vars
  BY <1>6 DEF vars, YearsOK
<1>. QED
  BY <1>1, <1>2, <1>3, <1>4, <1>5, <1>6 DEF Next

\* A year beyond the form's bounds is beyond the window's.
LEMMA YearsBeyond ==
  ASSUME NEW d \in Submitted, NEW i \in Instants
  PROVE  /\ d.year < i.year => ~(Compare(d, i) >= 0)
         /\ d.year > i.year => ~(Compare(d, i) <= 0)
<1>1. d \in Dates /\ i \in Dates /\ d.year \in Int /\ i.year \in Int
  BY DEF Submitted, Instants, Dates
<1>. QED
  BY <1>1, CompareCases DEF Earlier

\* Only Bind refuses, and only because one of the form's constraints fails.
LEMMA RefusalsHaveReasons ==
  ASSUME DatesInv, YearsOK, [Next]_vars, Refused
  PROVE  \/ ~ToDateTime(sale.date)
         \/ Outside(sale.date, sale.at)
         \/ AtEdge(sale.date, sale.at)
<1>. SUFFICES ASSUME ToDateTime(sale.date)
     PROVE  Outside(sale.date, sale.at) \/ AtEdge(sale.date, sale.at)
  OBVIOUS
<1>1. sale.stage = "received" /\ sale # NoSale /\ sale' = NoSale
  BY DEF Refused, NoSale
<1>2. Bind
  <2>1. ~Build
    BY <1>1 DEF Build
  <2>. QED
    BY <1>1, <2>1 DEF Next, vars, Tick, Present, Submit
<1>3. /\ sale.date \in Submitted /\ sale.at \in Instants /\ ~Skipped(sale.at)
      /\ clock \in Instants
      /\ sale.earliest = YearsBefore(sale.at, DateOfDisposalYearsIntoThePast)
  BY <1>1 DEF DatesInv, SaleOK, ClockOK
<1>4. ~(ValidDate(sale.date) /\ After(sale.date, sale.earliest) /\ NotInFuture(sale.date))
  <2>1. SUFFICES ASSUME sale' = [sale EXCEPT !.stage = "valid"] PROVE FALSE
    BY <1>2 DEF Bind
  <2>2. sale'.stage = "valid"
    BY <1>1, <2>1 DEF DatesInv, Convertible
  <2>. QED
    BY <1>1, <2>2 DEF NoSale
<1>5. sale.date \in Named
  BY <1>3 DEF Named, ToDateTime, None, MaxHoursInDay
<1>6. ValidDate(sale.date) \/ ~After(sale.date, sale.earliest) \/ ~NotInFuture(sale.date)
  <2>1. /\ sale.date.year \in Int /\ clock.year \in Int /\ sale.at.year \in Int
        /\ MaxTicks \in Nat /\ ticks \in Nat /\ ticks <= MaxTicks
        /\ DateOfDisposalYearsIntoThePast \in Nat
    BY <1>3, YearsAssumption, ClockAssumption DEF Submitted, Instants, Dates, YearsOK
  <2>2. /\ sale.earliest \in Instants
        /\ sale.earliest.year = sale.at.year - DateOfDisposalYearsIntoThePast
    BY <1>3, <2>1, YearsBeforeInstant
  <2>3. CASE sale.date.year <= MinYear
    <3>1. sale.date.year < sale.earliest.year
      BY <1>1, <2>1, <2>2, <2>3 DEF YearsOK, MinYear
    <3>. QED
      BY <1>3, <2>2, <3>1, YearsBeyond DEF After
  <2>4. CASE sale.date.year >= MaxYear
    <3>1. sale.date.year > clock.year
      BY <2>1, <2>4 DEF YearsOK, MaxYear
    <3>. QED
      BY <1>3, <3>1, YearsBeyond DEF NotInFuture
  <2>5. CASE MinYear < sale.date.year /\ sale.date.year < MaxYear
    BY <2>5 DEF ValidDate, ToDateTime
  <2>. QED
    BY <2>1, <2>3, <2>4, <2>5 DEF MinYear, MaxYear
<1>7. CASE ~After(sale.date, sale.earliest)
  BY <1>3, <1>5, <1>7, AfterIsInWindow DEF Outside
<1>8. CASE ~NotInFuture(sale.date)
  <2>1. ~(Begins(sale.date) <= Moment(clock))
    BY <1>3, <1>5, <1>8, NamedAgainstInstant DEF NotInFuture
  <2>2. Begins(sale.date) \in Int /\ Moment(clock) \in Int
    BY <1>3, <1>5, NamedMinutes, MomentOfInstant
  <2>. QED
    BY <2>1, <2>2 DEF Outside
<1>. QED
  BY <1>4, <1>6, <1>7, <1>8

\* Only dates that no DateTime exists for, that are outside the window, or that name
\* without a time the day, or without minutes the hour, in which the window starts
\* are refused: on no day of the calendar and for no window any other, as long as
\* the clock shows years the form's bounds enclose.
THEOREM RefusalsAreOutside ==
  ASSUME YearsEnclosed
  PROVE  Spec => RefusedOnlyOutside
<1>1. Spec => [](DatesInv /\ YearsOK)
  <2>1. Init => DatesInv /\ YearsOK
    BY DatesInit, YearsInit
  <2>2. DatesInv /\ YearsOK /\ [Next]_vars => (DatesInv /\ YearsOK)'
    BY DatesStep, YearsStep
  <2>. QED
    BY <2>1, <2>2, PTL DEF Spec
<1>2. DatesInv /\ YearsOK /\ [Next]_vars =>
        [Refused => \/ ~ToDateTime(sale.date)
                    \/ Outside(sale.date, sale.at)
                    \/ AtEdge(sale.date, sale.at)]_vars
  BY RefusalsHaveReasons
<1>. QED
  BY <1>1, <1>2, PTL DEF Spec, RefusedOnlyOutside

----------
(* The request.                                                            *)

\* The request is made of a date and an address, and what was shown of each by itself
\* holds of both together: BuildRequest is a step of either, or leaves the address alone
\* when the date has no DateTime.
THEOREM RequestIsOfBoth == RequestSpec => Spec /\ AddressSpec
<1>1. RequestInit => Init /\ AddressInit
  BY DEF RequestInit
<1>2. [RequestNext]_requestVars => [Next]_vars /\ [AddressNext]_addressVars
  <2>1. RequestNext => Next /\ [AddressNext]_addressVars
    BY DEF RequestNext, BuildRequest, Next, AddressNext, addressVars
  <2>2. UNCHANGED requestVars => UNCHANGED vars /\ UNCHANGED addressVars
    BY DEF requestVars
  <2>. QED
    BY <2>1, <2>2
<1>. QED
  BY <1>1, <1>2, PTL DEF RequestSpec, Spec, AddressSpec

================================================================================
