-------------------------------- MODULE Codec --------------------------------
(***************************************************************************)
(* The binary form of everything that is stored or sent.  What encode      *)
(* writes and decode reads is one grammar per type, given here as data:    *)
(* numbers of a width, enumerations and tagged unions, options, counted    *)
(* collections and payloads within payloads.  Encode and Decode are what   *)
(* Encoder and Decoder make of a grammar.                                  *)
(*                                                                         *)
(* Constructors of other modules refuse some of what decodes; the refusals *)
(* of the codec itself, and identifiers, quantities and symbols, are here. *)
(***************************************************************************)
EXTENDS Integers, Sequences, SequencesExt, FiniteSetsExt

CONSTANTS
    PayloadKinds,   \* the types that are written
    DamagedKinds,   \* and those whose bytes may be damaged
    DamagedBytes    \* what a damaged byte becomes

VARIABLE payload    \* [kind, bytes], with its value while it is as written

----------------------------------------------------------------------------
(* Numbers.  A number is its digits in base 256, the lowest first, without *)
(* zeros above; a signed one is the unsigned number with the same bytes.   *)

Zeros(n) == [i \in 1 .. n |-> 0]

LittleEndian(number, width) == number \o Zeros(width - Len(number))

NumberOf(bytes) == SubSeq(bytes, 1, Max({0} \cup {i \in DOMAIN bytes : bytes[i] # 0}))

NumberOfLength(length) == NumberOf(<<length % 256, length \div 256>>)

\* Longer than any payload.
Far == 256 * 256

LengthOf(number) ==
    CASE number = <<>> -> 0
      [] Len(number) = 1 -> number[1]
      [] Len(number) = 2 -> number[1] + 256 * number[2]
      [] OTHER -> Far

Digit(number, i) == IF i \in DOMAIN number THEN number[i] ELSE 0

Below(n, m) ==
    \E i \in 1 .. 16 :
        /\ Digit(n, i) < Digit(m, i)
        /\ \A j \in i + 1 .. 16 : Digit(n, j) = Digit(m, j)

IsNegative(number) == Digit(number, 8) >= 128

BelowSigned(n, m) == IF IsNegative(n) = IsNegative(m) THEN Below(n, m) ELSE IsNegative(n)

\* checked_add fails when n is above what is left of eight bytes beside m.
AddFits(n, m) == ~Below([i \in 1 .. 8 |-> 255 - Digit(m, i)], n)

Follows(n, m) ==
    \E i \in 1 .. 8 :
        /\ Digit(m, i) # 255
        /\ n = NumberOf([j \in 1 .. 8 |-> CASE j < i -> 0
                                            [] j = i -> Digit(m, j) + 1
                                            [] OTHER -> Digit(m, j)])
        /\ \A j \in 1 .. i - 1 : Digit(m, j) = 255

----------------------------------------------------------------------------
(* Grammars *)

Number(width) == [is |-> "number", width |-> width]
Identifier == [is |-> "identifier", width |-> 8]
Text == [is |-> "text"]
Fields(parts) == [is |-> "fields", of |-> parts]
Union(alternatives) == [is |-> "union", of |-> alternatives]
Several(least, item) == [is |-> "several", least |-> least, of |-> item]
Sized(width, part) == [is |-> "sized", width |-> width, of |-> part]
Checked(check, part) == [is |-> "checked", check |-> check, of |-> part]

\* Fields that are written as zeros when the value is absent.
ZeroWhenAbsent(width, part) == [is |-> "zeroWhenAbsent", width |-> width, of |-> part]

NoFields == Fields(<<>>)
Never == Union(<<>>)
Enumeration(n) == Union([tag \in 1 .. n |-> NoFields])
Flag == Enumeration(2)
Optional(part) == Union(<<NoFields, part>>)

U8 == Number(1)
U16 == Number(2)
U32 == Number(4)
U64 == Number(8)
U128 == Number(16)

----------------------------------------------------------------------------
(* What the codec refuses beyond the form *)

IsSymbol(bytes) ==
    /\ Len(bytes) \in 1 .. 32
    /\ \A i \in DOMAIN bytes : bytes[i] \in (65 .. 90) \cup (48 .. 57) \cup {45, 46, 95}

\* Tag 6 is a rejection.
IsRejection(event) == event[4][1] = 6

\* All events are of the report's command and follow one another; a report
\* that rejects is its one rejection.
IsReport(report) ==
    LET events == report[4]
        outcome == report[2]
    IN  /\ events # <<>>
        /\ \A i \in DOMAIN events : events[i][2] = report[1]
        /\ \A i \in DOMAIN events : i > 1 => Follows(events[i][1], events[i - 1][1])
        /\ IF outcome[1] = 0 THEN \A i \in DOMAIN events : ~IsRejection(events[i])
           ELSE Len(events) = 1 /\ events[1][4] = <<6, outcome[2]>>

\* Postings go by asset and account; each kind has its own metadata.
IsEntry(entry) ==
    LET postings == entry[5]
        metadata == entry[7]
        isBounded == entry[8] # <<>>
    IN  /\ \A i \in DOMAIN postings : i > 1 =>
              LET before == postings[i - 1]
                  after == postings[i]
              IN  \/ Below(before[2], after[2])
                  \/ before[2] = after[2] /\ ~Below(after[1], before[1])
        /\ CASE entry[6] = <<>> -> metadata = <<>> /\ ~isBounded
             [] entry[6] = <<1>> -> metadata # <<>> /\ ~isBounded
             [] entry[6] = <<2>> -> metadata = <<>> /\ isBounded
             [] entry[6] = <<3>> -> metadata = <<>>
             [] OTHER -> FALSE

\* A clearing trades on both sides.
IsClearing(clearing) == clearing[2] # <<>> /\ clearing[3] # <<>>

IsBand(band) == ~BelowSigned(band[2], band[1])

IsIndication(state) ==
    /\ state[2] # <<>>
    /\ LET clearing == state[7]
           band == state[4]
       IN  clearing[1] = 1 =>
              IsBand(<<band[1], clearing[2][1]>>) /\ IsBand(<<clearing[2][1], band[2]>>)

Passes(check, value) ==
    CASE check = "report" -> IsReport(value)
      [] check = "entry" -> IsEntry(value)
      [] check = "clearing" -> IsClearing(value)
      [] check = "band" -> IsBand(value)
      [] check = "indication" -> IsIndication(value)
      [] check = "twoOrders" -> value[4] # value[6]
      [] check = "remainder" -> AddFits(value[5], value[6])

----------------------------------------------------------------------------
(* Encoder and Decoder *)

RECURSIVE Encode(_, _)

Encode(form, value) ==
    CASE form.is \in {"number", "identifier"} -> LittleEndian(value, form.width)
      [] form.is = "text" -> value
      [] form.is = "fields" -> FlattenSeq([i \in DOMAIN form.of |-> Encode(form.of[i], value[i])])
      [] form.is = "union" -> <<value[1]>> \o Encode(form.of[value[1] + 1], value[2])
      [] form.is = "zeroWhenAbsent" ->
            IF value = <<>> THEN Zeros(1 + form.width) ELSE <<1>> \o Encode(form.of, value[1])
      [] form.is = "several" ->
            LittleEndian(NumberOfLength(Len(value)), 4)
               \o FlattenSeq([i \in DOMAIN value |-> Encode(form.of, value[i])])
      [] form.is = "sized" ->
            LET bytes == Encode(form.of, value)
            IN  LittleEndian(NumberOfLength(Len(bytes)), form.width) \o bytes
      [] form.is = "checked" -> Encode(form.of, value)

Malformed == [accepted |-> FALSE]
Accept(value, rest) == [accepted |-> TRUE, value |-> value, rest |-> rest]

Take(bytes, count) ==
    IF Len(bytes) < count THEN Malformed
    ELSE Accept(SubSeq(bytes, 1, count), SubSeq(bytes, count + 1, Len(bytes)))

DecodeNumber(bytes, width) ==
    LET taken == Take(bytes, width)
    IN  IF taken.accepted THEN Accept(NumberOf(taken.value), taken.rest) ELSE Malformed

\* More items than would fit are refused before there is room made for them.
DecodeCount(bytes, least) ==
    LET count == DecodeNumber(bytes, 4)
    IN  IF count.accepted /\ LengthOf(count.value) <= Len(count.rest) \div least THEN count
        ELSE Malformed

\* Mutant of AbsentIsZero: the fields of an absent value are not looked at.
AbsentIsAnything(bytes) == TRUE

AbsentIsZero(bytes) == bytes = Zeros(Len(bytes))

RECURSIVE Decode(_, _), DecodeParts(_, _)

DecodeParts(forms, bytes) ==
    IF forms = <<>> THEN Accept(<<>>, bytes)
    ELSE LET first == Decode(Head(forms), bytes)
             others == DecodeParts(Tail(forms), first.rest)
         IN  IF first.accepted /\ others.accepted
             THEN Accept(<<first.value>> \o others.value, others.rest)
             ELSE Malformed

Decode(form, bytes) ==
    CASE form.is = "number" -> DecodeNumber(bytes, form.width)
      [] form.is = "identifier" ->
            LET number == DecodeNumber(bytes, 8)
            IN  IF number.accepted /\ number.value # <<>> THEN number ELSE Malformed
      [] form.is = "text" -> IF IsSymbol(bytes) THEN Accept(bytes, <<>>) ELSE Malformed
      [] form.is = "fields" -> DecodeParts(form.of, bytes)
      [] form.is = "union" ->
            IF bytes = <<>> \/ Head(bytes) >= Len(form.of) THEN Malformed
            ELSE LET body == Decode(form.of[Head(bytes) + 1], Tail(bytes))
                 IN  IF body.accepted THEN Accept(<<Head(bytes), body.value>>, body.rest)
                     ELSE Malformed
      [] form.is = "zeroWhenAbsent" ->
            LET taken == Take(bytes, 1 + form.width)
                part == Decode(form.of, Tail(taken.value))
            IN  IF ~taken.accepted THEN Malformed
                ELSE IF Head(bytes) = 0 /\ AbsentIsZero(Tail(taken.value)) THEN Accept(<<>>, taken.rest)
                ELSE IF Head(bytes) = 1 /\ part.accepted THEN Accept(<<part.value>>, taken.rest)
                ELSE Malformed
      [] form.is = "several" ->
            LET count == DecodeCount(bytes, form.least)
            IN  IF ~count.accepted THEN Malformed
                ELSE DecodeParts([i \in 1 .. LengthOf(count.value) |-> form.of], count.rest)
      [] form.is = "sized" ->
            LET length == DecodeNumber(bytes, form.width)
                inner == Take(length.rest, LengthOf(length.value))
                part == Decode(form.of, inner.value)
            IN  IF length.accepted /\ inner.accepted /\ part.accepted /\ part.rest = <<>>
                THEN Accept(part.value, inner.rest) ELSE Malformed
      [] form.is = "checked" ->
            LET part == Decode(form.of, bytes)
            IN  IF part.accepted /\ Passes(form.check, part.value) THEN part ELSE Malformed

\* A whole payload leaves nothing.
DecodeAll(form, bytes) ==
    LET decoded == Decode(form, bytes)
    IN  IF decoded.accepted /\ decoded.rest = <<>> THEN decoded ELSE Malformed

----------------------------------------------------------------------------
(* Orders, commands and reports *)

SideForm == Enumeration(2)
StopActivationForm == Union(<<NoFields, U64>>)
OrderTypeForm == Union(<<NoFields, U64, Fields(<<U64, StopActivationForm>>), NoFields>>)
OrderDisplayForm == Union(<<NoFields, Identifier, NoFields>>)
MassCancelScopeForm == Union(<<NoFields, SideForm>>)
AdmissionStateForm == Enumeration(2)
AccountControlForm == Enumeration(2)
TradingControlForm == Enumeration(2)
TimeInForceForm == Union(<<NoFields, NoFields, NoFields, NoFields, U64, Identifier>>)
SelfTradeForm == Enumeration(4)
RejectReasonForm == Enumeration(58)
CancelReasonForm == Enumeration(12)
TradingStateForm == Enumeration(4)
StopReferenceForm == Fields(<<Identifier, Identifier, Identifier, U64>>)
OptionalReferenceForm == ZeroWhenAbsent(32, StopReferenceForm)
OptionalTimestampForm == ZeroWhenAbsent(8, U64)

NewOrderForm ==
    Fields(<<Identifier, Identifier, Identifier, Identifier, Identifier, SideForm, Identifier,
             OrderDisplayForm, OrderTypeForm, TimeInForceForm, SelfTradeForm, U64>>)

CancelForm == Fields(<<Identifier, Identifier, Identifier, Identifier, Identifier, U64>>)

ReplaceForm ==
    Fields(<<Identifier, Identifier, Identifier, Identifier, Identifier, Identifier, U64,
             OrderDisplayForm, U64>>)

MassCancelForm == Fields(<<Identifier, Identifier, Identifier, Identifier, MassCancelScopeForm, U64>>)

ControlForms ==
    <<Fields(<<Identifier, Identifier, Identifier, Identifier, U64, AccountControlForm, U64>>),
      Fields(<<Identifier, Identifier, Identifier, U64, TradingStateForm, TradingControlForm, U64>>)>>

SweepForms ==
    <<Fields(<<Identifier, Identifier, Identifier, U64, U64>>),
      Fields(<<Identifier, Identifier, Identifier, StopReferenceForm, U32, U64>>)>>

CommandForm ==
    Union(<<NewOrderForm, CancelForm, ReplaceForm, MassCancelForm>> \o ControlForms \o SweepForms)

TradeForm ==
    Fields(<<Identifier, Identifier, Identifier, U64, Identifier, Identifier, Identifier,
             Identifier, Identifier, Identifier, Identifier>>)

OrderEventForms ==
    <<Fields(<<Identifier, Identifier, OrderDisplayForm>>),
      Fields(<<Identifier, U64, Identifier, Identifier>>),
      TradeForm,
      Fields(<<Identifier, Identifier, CancelReasonForm>>),
      Fields(<<Identifier, U64, U64, Identifier, Identifier, OrderDisplayForm, OrderDisplayForm, Flag>>),
      Fields(<<Identifier, Identifier, Identifier, SelfTradeForm>>),
      RejectReasonForm,
      Fields(<<Identifier, U64, Identifier, Identifier>>)>>

CompletionForms ==
    <<Fields(<<Identifier, MassCancelScopeForm, U64, U128>>),
      Fields(<<Identifier, AdmissionStateForm, AdmissionStateForm, U64, U64, U128>>),
      Fields(<<TradingStateForm, TradingStateForm, U64, U64, U128>>),
      Fields(<<OptionalTimestampForm, U64, U64, U128>>)>>

StopEventForms ==
    <<Fields(<<Identifier, U64, StopActivationForm, U64>>),
      Fields(<<Identifier, U64, StopReferenceForm, U64>>),
      Fields(<<OptionalReferenceForm, StopReferenceForm, U64, U64>>),
      Fields(<<Identifier, U64>>)>>

EventForm ==
    Fields(<<U64, Identifier, U64, Union(OrderEventForms \o CompletionForms \o StopEventForms)>>)

ReportForm ==
    Checked("report", Fields(<<Identifier, Union(<<NoFields, RejectReasonForm>>), Flag,
                               Several(25, EventForm)>>))

DefinitionForm ==
    Fields(<<Identifier, Identifier, U64, Sized(1, Text), Enumeration(8), Identifier, Identifier,
             U8, U64, U64, U64, U64, U64, U64, U32, Flag, U64, U64, TradingStateForm>>)

RestingOrderForm ==
    Fields(<<Identifier, Identifier, SideForm, U64, Identifier, Identifier, OrderDisplayForm,
             SelfTradeForm, OptionalTimestampForm>>)

DormantStopForm ==
    Fields(<<Identifier, Identifier, SideForm, Identifier, OrderDisplayForm, SelfTradeForm,
             OptionalTimestampForm, U64, StopActivationForm, TimeInForceForm, U64>>)

BookCheckpointForm ==
    Fields(<<U64, U64, Sized(4, DefinitionForm), Several(52, RestingOrderForm),
             Several(54, DormantStopForm),
             Several(8, Fields(<<Sized(4, CommandForm), Sized(4, ReportForm)>>))>>)

RiskDefinitionForm ==
    Fields(<<Identifier, Enumeration(3), U128, U64, U128, U64, U128, U128, U128, U128>>)

RiskAccountForm == Fields(<<Sized(4, RiskDefinitionForm), U128, U128, U128, U128, U64>>)

RiskCheckpointForm == Fields(<<U64, Sized(4, BookCheckpointForm), Several(76, RiskAccountForm)>>)

----------------------------------------------------------------------------
(* Market data, ledger, calendar and anchors *)

LevelForm == Fields(<<SideForm, U64, U128, U64>>)

UpdateForm ==
    Fields(<<Identifier, Identifier, U64, U64,
             Union(<<NoFields, LevelForm,
                     Fields(<<Identifier, U64, Identifier, SideForm, LevelForm>>),
                     Fields(<<TradingStateForm, TradingStateForm, U64>>)>>)>>)

SnapshotForm ==
    Fields(<<Identifier, Identifier, U64, Optional(Identifier), TradingStateForm, U64,
             Several(33, LevelForm), Several(33, LevelForm)>>)

EntryForm ==
    Checked("entry",
        Fields(<<Identifier, U64, ZeroWhenAbsent(4, U32), U64,
                 Several(32, Fields(<<Identifier, Identifier, U128>>)), U8, U64,
                 ZeroWhenAbsent(4, U32)>>))

CorrectionForm == Fields(<<Sized(4, EntryForm), Sized(4, EntryForm)>>)
BatchForm == Several(51, Sized(4, EntryForm))
RecordForm == Union(<<EntryForm, CorrectionForm, BatchForm>>)

LedgerCheckpointForm ==
    Fields(<<U64, Several(32, Fields(<<Identifier, Identifier, U128>>)),
             Several(52, Sized(4, RecordForm))>>)

CalendarForm ==
    Fields(<<Identifier, Identifier, U64,
             Several(44, Fields(<<Identifier, U32, U64, U64, U64, U64>>))>>)

\* Kinds of snapshots count from one.
AnchorForm ==
    Fields(<<Union(<<Never>> \o [kind \in 1 .. 5 |-> NoFields]), Enumeration(2), Identifier,
             Identifier, U64, U32>>)

----------------------------------------------------------------------------
(* Call auctions *)

PhaseForm == Enumeration(3)
ConstraintForm == Union(<<NoFields, U64>>)
PricePolicyForm == Fields(<<Enumeration(2), Enumeration(2)>>)
UncrossPolicyForm == Fields(<<Enumeration(2), Enumeration(3), Enumeration(2)>>)
BandForm == Checked("band", Fields(<<U64, U64>>))

AuctionOrderForm ==
    Fields(<<Identifier, Identifier, Identifier, Identifier, SideForm, ConstraintForm,
             Identifier, U16>>)

\* A place in priority is never zero.
ActiveOrderForm ==
    Fields(<<Identifier, Identifier, SideForm, ConstraintForm, Identifier, U16, Identifier>>)

AuctionRefusalForm ==
    Union(<<NoFields, NoFields, Fields(<<U64, U64>>), Fields(<<PhaseForm, PhaseForm>>),
            Fields(<<Enumeration(8), PhaseForm>>), Fields(<<Identifier, Optional(Identifier)>>),
            Fields(<<Identifier, Identifier>>), Enumeration(12)>>
          \o [reason \in 1 .. 16 |-> NoFields])

CallForm ==
    Fields(<<Identifier, Identifier, Identifier, Identifier, U64, BandForm, U64, PricePolicyForm>>)

AuctionCommandForm ==
    Union(<<Fields(<<Identifier, Identifier, Identifier, Identifier, U64, PhaseForm, U64>>),
            Fields(<<Identifier, Identifier, U64, AuctionOrderForm, U64>>),
            Fields(<<Identifier, Identifier, Identifier, Identifier, Identifier, U64>>),
            Fields(<<CallForm, UncrossPolicyForm, U64>>),
            Fields(<<Identifier, Identifier, U64, Identifier, Identifier, AuctionOrderForm, U64>>),
            Fields(<<Identifier, Identifier, Identifier, Identifier, MassCancelScopeForm, U64>>),
            Fields(<<Identifier, Identifier, Identifier, Identifier, U64, Identifier, Identifier,
                     Identifier, U64>>),
            Fields(<<CallForm, U64>>)>>)

\* One order on both sides is refused.
AuctionTradeForm ==
    Checked("twoOrders",
        Fields(<<Identifier, Identifier, Identifier, Identifier, Identifier, Identifier,
                 Identifier, U64, Identifier>>))

RemainderForm ==
    Checked("remainder",
        Fields(<<Identifier, Identifier, SideForm, ConstraintForm, Identifier, U64>>))

ClearingForm == Checked("clearing", Fields(<<U64, U128, U128>>))

IndicationForm ==
    Checked("indication",
        Fields(<<Identifier, U64, U64, BandForm, U64, PricePolicyForm, Optional(ClearingForm)>>))

AuctionEventForm ==
    Fields(<<U64, Identifier, U64,
        Union(<<Fields(<<Identifier, PhaseForm, PhaseForm, U64>>),
                ActiveOrderForm,
                Fields(<<ActiveOrderForm, Enumeration(4)>>),
                AuctionTradeForm,
                RemainderForm,
                Fields(<<Identifier, ClearingForm, UncrossPolicyForm, U64, U64, U64, U64>>),
                AuctionRefusalForm,
                Fields(<<Identifier, MassCancelScopeForm, U64, U128, U64>>),
                Fields(<<ActiveOrderForm, Identifier, U64>>),
                IndicationForm>>)>>)

AuctionReportForm ==
    Fields(<<Identifier, U64, Union(<<NoFields, AuctionRefusalForm>>), Several(25, AuctionEventForm),
             Flag>>)

AuctionCheckpointForm ==
    Fields(<<U64, U64, Sized(4, DefinitionForm), PhaseForm, U64, Optional(Identifier),
             Optional(Identifier), U64, U64, U64, Several(8, Identifier),
             Several(36, ActiveOrderForm),
             Several(8, Fields(<<Sized(4, AuctionCommandForm), Sized(4, AuctionReportForm)>>))>>)

AuctionRiskCheckpointForm ==
    Fields(<<U64, Sized(4, AuctionCheckpointForm), Several(76, RiskAccountForm)>>)

AuctionLevelForm == Fields(<<SideForm, ConstraintForm, U128, U64>>)

AuctionUpdateForm ==
    Fields(<<Identifier, Identifier, U64, U64,
        Union(<<NoFields,
                Fields(<<Enumeration(6), Identifier, AuctionLevelForm>>),
                Fields(<<Identifier, Identifier, U64, Identifier, AuctionLevelForm, AuctionLevelForm>>),
                Fields(<<Identifier, PhaseForm, PhaseForm, U64>>),
                Fields(<<Identifier, ClearingForm, U64, U64, U64, U64>>),
                Fields(<<U64, U128, U64>>),
                IndicationForm>>)>>)

AuctionSnapshotForm ==
    Fields(<<Identifier, Identifier, U64, U64, PhaseForm, U64, Optional(Identifier),
             Optional(Identifier), U64, Optional(IndicationForm), Optional(Identifier),
             AuctionLevelForm, AuctionLevelForm, Several(26, AuctionLevelForm),
             Several(26, AuctionLevelForm)>>)

----------------------------------------------------------------------------

FormOf ==
    [command |-> CommandForm, report |-> ReportForm, definition |-> DefinitionForm,
     bookCheckpoint |-> BookCheckpointForm, riskDefinition |-> RiskDefinitionForm,
     riskCheckpoint |-> RiskCheckpointForm, update |-> UpdateForm, snapshot |-> SnapshotForm,
     record |-> RecordForm, ledgerCheckpoint |-> LedgerCheckpointForm,
     calendar |-> CalendarForm, anchor |-> AnchorForm, auctionCommand |-> AuctionCommandForm,
     auctionReport |-> AuctionReportForm, auctionCheckpoint |-> AuctionCheckpointForm,
     auctionRiskCheckpoint |-> AuctionRiskCheckpointForm, auctionUpdate |-> AuctionUpdateForm,
     auctionSnapshot |-> AuctionSnapshotForm]

----------------------------------------------------------------------------
(* Values to be written: one to start from, and each change of one part *)

IsEnumeration(form) == form.is = "union" /\ form # Never /\ form = Enumeration(Len(form.of))

RECURSIVE Plainest(_), Variations(_), ChangesOfTwo(_)

Plainest(form) ==
    CASE form.is = "number" -> <<>>
      [] form.is = "identifier" -> <<1>>
      [] form.is = "text" -> <<65>>
      [] form.is = "fields" -> [i \in DOMAIN form.of |-> Plainest(form.of[i])]
      [] form.is = "union" ->
            LET tag == Min({i \in DOMAIN form.of : form.of[i] # Never})
            IN  <<tag - 1, Plainest(form.of[tag])>>
      [] form.is \in {"zeroWhenAbsent", "several"} -> <<>>
      [] form.is = "sized" -> Plainest(form.of)
      [] form.is = "checked" -> CHOOSE value \in Variations(form) : TRUE

\* A payload within a payload is as plain as it can be, and a payload of its
\* own elsewhere.  What is checked as a whole takes two changes at a time.
Variations(form) ==
    LET changes == [i \in DOMAIN form.of |-> Variations(form.of[i])]
        plain == Plainest(form)
    IN  CASE form.is = "number" -> {<<>>, <<1>>, [i \in 1 .. form.width |-> 255]}
          [] form.is = "identifier" -> {<<1>>, [i \in 1 .. 8 |-> 255]}
          [] form.is = "text" -> {<<65>>, <<46, 57, 90>>}
          [] form.is = "fields" ->
                {plain} \cup UNION {{[plain EXCEPT ![i] = value] : value \in changes[i]} :
                                       i \in DOMAIN form.of}
          [] IsEnumeration(form) -> {<<0, <<>>>>, <<Len(form.of) - 1, <<>>>>}
          [] form.is = "union" /\ ~IsEnumeration(form) ->
                UNION {{<<tag - 1, value>> : value \in changes[tag]} : tag \in DOMAIN form.of}
          [] form.is = "zeroWhenAbsent" -> {<<>>} \cup {<<value>> : value \in Variations(form.of)}
          [] form.is = "several" ->
                {<<>>} \cup UNION {{<<value>>, <<Plainest(form.of), value>>} :
                                     value \in Variations(form.of)}
          [] form.is = "sized" -> IF form.of = Text THEN Variations(Text) ELSE {plain}
          [] form.is = "checked" ->
                {value \in ChangesOfTwo(form.of) : Passes(form.check, value)}

ChangesOfTwo(form) ==
    LET plain == Plainest(form)
        Changes(i, j) == {[plain EXCEPT ![i] = value, ![j] = other] :
                            value \in Variations(form.of[i]), other \in Variations(form.of[j])}
    IN  UNION {UNION {Changes(i, j) : j \in 1 .. i - 1} : i \in DOMAIN form.of}

----------------------------------------------------------------------------
(* Payloads, as they are written and as they may be read *)

NoPayload == [kind |-> "none", bytes |-> <<>>, value |-> <<>>]

CodecInit == payload = NoPayload

EncodePayload ==
    /\ payload = NoPayload
    /\ \E kind \in PayloadKinds : \E value \in Variations(FormOf[kind]) :
          payload' = [kind |-> kind, bytes |-> Encode(FormOf[kind], value), value |-> <<value>>]

\* A byte is another, one is missing at the end or one too many is there.
DamagePayload ==
    /\ payload.kind \in DamagedKinds /\ payload.value # <<>>
    /\ \E bytes \in {[payload.bytes EXCEPT ![i] = byte] :
                         i \in DOMAIN payload.bytes, byte \in DamagedBytes}
                     \cup {Front(payload.bytes), Append(payload.bytes, 0)} :
          payload' = [payload EXCEPT !.bytes = bytes, !.value = <<>>]

CodecNext == EncodePayload \/ DamagePayload

\* What encode wrote decodes to the value it wrote; and whatever decodes is
\* what encode would write of the value, so that two payloads of one value
\* are one payload.
PayloadsAreCanonical ==
    payload # NoPayload =>
        LET form == FormOf[payload.kind]
            decoded == DecodeAll(form, payload.bytes)
        IN  /\ payload.value # <<>> => decoded.accepted /\ decoded.value = payload.value[1]
            /\ decoded.accepted => Encode(form, decoded.value) = payload.bytes

=============================================================================
