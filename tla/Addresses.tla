------------------------------ MODULE Addresses ------------------------------
(***************************************************************************)
(* DisposalAddressDto: a trader's address, a list of free lines that ends  *)
(* with post town and postcode, is fitted into the record of the disposal  *)
(* service, whose lines have at most LineMaxLength characters.             *)
(*                                                                         *)
(* What matters of a line is which part of which entered line it holds, so *)
(* a line is a segment: characters `from` to `to` of the entered line      *)
(* `line`.  Line 0 is text that the code supplies itself.                  *)
(***************************************************************************)
EXTENDS Integers, Sequences

CONSTANTS
  LineMaxLength,  \* AddressLines.LineMaxLength
  HolderLength,   \* length of AddressLines.BuildingNameOrNumberHolder
  MaxLength,      \* bound: length of an entered line
  MaxLines        \* the longest view format: three lines, town, postcode

ASSUME LengthsAssumption ==
  /\ LineMaxLength \in Nat /\ HolderLength \in 1 .. LineMaxLength
  /\ MaxLength \in Nat /\ MaxLines \in Nat

VARIABLES
  address, \* the lines of the AddressViewModel
  dto      \* the DisposalAddressDto made of it, NotSent before

addressVars == <<address, dto>>

Segments == [line : Nat, from : Nat, to : Nat]
Size(s) == s.to - s.from
BuildingNameOrNumberHolder == [line |-> 0, from |-> 0, to |-> HolderLength]
EmptyLine == [line |-> 0, from |-> 0, to |-> 0]
NotSent == [line |-> <<>>, postTown |-> EmptyLine, postCode |-> EmptyLine]

TooLong(s) == Size(s) > LineMaxLength
IsEmpty(s) == Size(s) = 0

\* substring(0, LineMaxLength) and substring(LineMaxLength)
Front(s) == [s EXCEPT !.to = s.from + LineMaxLength]
Rest(s)  == [s EXCEPT !.from = s.from + LineMaxLength]

\* a without its first n elements, a without its last n.
DropLeft(a, n)  == SubSeq(a, n + 1, Len(a))
DropRight(a, n) == SubSeq(a, 1, Len(a) - n)

-------------------------------------------------------------------------------
LinesOverMaxLength(a) == \E i \in DOMAIN a : TooLong(a[i])

\* An address of town and postcode only gets a line of its own.
MandatoryLines(a) == IF Len(a) = 2 THEN <<BuildingNameOrNumberHolder>> \o a ELSE a

BuildStandard(a) ==
  [line |-> DropRight(a, 2), postTown |-> a[Len(a) - 1], postCode |-> a[Len(a)]]

\* The lines a short address does not have.
AssignEmptyLines(a) ==
  CASE Len(a) = 3 -> <<a[1], EmptyLine>> \o Tail(a)
    [] Len(a) = 4 -> <<a[1], a[2], EmptyLine>> \o DropLeft(a, 2)
    [] OTHER      -> a

\* Mutant: a long second line runs over the third, free or not.
AddressLinesDecider_Over(a) ==
  CASE TooLong(a[1]) /\ IsEmpty(a[2]) ->
         <<Front(a[1]), Rest(a[1])>> \o DropLeft(a, 2)
    [] TooLong(a[1]) /\ ~IsEmpty(a[2]) /\ IsEmpty(a[3]) ->
         <<Front(a[1]), Rest(a[1]), a[2]>> \o DropLeft(a, 3)
    [] ~TooLong(a[1]) /\ TooLong(a[2]) ->
         <<a[1], Front(a[2]), Rest(a[2])>> \o DropLeft(a, 3)
    [] OTHER -> a

\* Where the overflow of the first two lines goes, if there is a free line.
AddressLinesDecider(a) ==
  CASE TooLong(a[1]) /\ IsEmpty(a[2]) ->
         <<Front(a[1]), Rest(a[1])>> \o DropLeft(a, 2)
    [] TooLong(a[1]) /\ ~IsEmpty(a[2]) /\ IsEmpty(a[3]) ->
         <<Front(a[1]), Rest(a[1]), a[2]>> \o DropLeft(a, 3)
    [] ~TooLong(a[1]) /\ TooLong(a[2]) /\ ~IsEmpty(a[2]) /\ IsEmpty(a[3]) ->
         <<a[1], Front(a[2]), Rest(a[2])>> \o DropLeft(a, 3)
    [] OTHER -> a

TrimLines(a) == [i \in DOMAIN a |-> IF TooLong(a[i]) THEN Front(a[i]) ELSE a[i]]

\* Mutant: trims before the overflow is moved.
Rebuild_TrimsFirst(a) ==
  LET legacy == DropRight(AddressLinesDecider(AssignEmptyLines(TrimLines(a))), 1)
  IN  [line |-> DropRight(legacy, 1), postTown |-> legacy[Len(legacy)],
       postCode |-> a[Len(a)]]

\* rebuildDisposalAddressDto
Rebuild(a) ==
  LET legacy == TrimLines(DropRight(AddressLinesDecider(AssignEmptyLines(a)), 1))
  IN  [line |-> DropRight(legacy, 1), postTown |-> legacy[Len(legacy)],
       postCode |-> a[Len(a)]]

\* Mutant: only looks at the first line.
From_FirstLineOnly(a) ==
  IF TooLong(a[1]) THEN Rebuild(MandatoryLines(a)) ELSE BuildStandard(MandatoryLines(a))

From(a) ==
  IF LinesOverMaxLength(a) THEN Rebuild(MandatoryLines(a))
  ELSE BuildStandard(MandatoryLines(a))

-------------------------------------------------------------------------------
(* The addresses the lookup and the manual form make: no line is empty,    *)
(* there is a town and a postcode.                                         *)

Addresses ==
  {[i \in DOMAIN n |-> [line |-> i, from |-> 0, to |-> n[i]]] :
     n \in UNION {[1 .. k -> 1 .. MaxLength] : k \in 2 .. MaxLines}}

AddressInit == address \in Addresses /\ dto = NotSent

\* buildDisposeMicroServiceRequest converts the address of a trader.
Send ==
  /\ dto = NotSent
  /\ dto' = From(address)
  /\ UNCHANGED address

AddressNext == Send
AddressSpec == AddressInit /\ [][AddressNext]_addressVars

-------------------------------------------------------------------------------
(* Properties.                                                             *)

Sent == dto # NotSent

\* The line of the request that holds character p of entered line i.
Holds(s, i, p) == s.line = i /\ s.from <= p /\ p < s.to

\* An entered line is lost in part when some character is in no line sent.
Lost(i) ==
  \E p \in 0 .. Size(address[i]) - 1 : \A j \in DOMAIN dto.line : ~Holds(dto.line[j], i, p)

\* No line sent to the disposal service is longer than the legacy record's.
LinesFit ==
  Sent => /\ \A j \in DOMAIN dto.line : Size(dto.line[j]) <= LineMaxLength
          /\ Size(dto.postTown) <= LineMaxLength

\* Text that a line has no room for moves to a free line: as long as no line
\* is longer than two of the record, something is cut off only when all three
\* lines are taken (addressLinesDecider).
CutOnlyWhenFull ==
  Sent /\ (\A i \in DOMAIN address : Size(address[i]) <= 2 * LineMaxLength) =>
    \/ \A i \in 1 .. Len(address) - 2 : ~Lost(i)
    \/ Len(dto.line) = 3 /\ \A j \in DOMAIN dto.line : ~IsEmpty(dto.line[j])

\* What is sent reads as what was entered: the lines in their order, the parts
\* of a line in theirs, nothing twice, every line at least with its beginning;
\* town and postcode in their own fields.
ReadsAsEntered ==
  LET entered == Len(address) - 2
      text == {s \in {dto.line[j] : j \in DOMAIN dto.line} : s.line # 0}
      Before(s, r) == s.line < r.line \/ (s.line = r.line /\ s.to <= r.from)
  IN  Sent =>
        /\ \A i, j \in DOMAIN dto.line :
             i < j /\ dto.line[i].line # 0 /\ dto.line[j].line # 0 =>
               Before(dto.line[i], dto.line[j])
        /\ {s.line : s \in {r \in text : r.from = 0}} = 1 .. entered
        /\ dto.postTown.line = entered + 1 /\ dto.postTown.from = 0
        /\ dto.postCode.line = entered + 2

==============================================================================
