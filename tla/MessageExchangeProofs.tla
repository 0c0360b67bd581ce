------------------------ MODULE MessageExchangeProofs ------------------------
(***************************************************************************)
(* Proofs about MessageExchange, for every set of messages, any number of  *)
(* hops and whatever the limits are.                                       *)
(***************************************************************************)
EXTENDS MessageExchange, SequenceTheorems, FiniteSetTheorems, TLAPS

Cell == Value \cup {Null}

-----------------------------------------------------------------------------
(* Columns there and back.                                                   *)

(* What a column that validates becomes in a record: as many cells as there  *)
(* are rows, absent only where the field may be null.                        *)
LEMMA FieldOfColumn ==
    ASSUME NEW batch, batch.rows \in Nat, NEW column, ColumnTyped(column),
           ColumnValid(batch, column)
    PROVE  LET field == Field(column) IN
           /\ field.cells \in [1 .. batch.rows -> Cell]
           /\ HasNulls(field) => field.nullable
           /\ field.name = column.name /\ field.type = column.type
           /\ field.name # NoText /\ field.type \in DataTypes
  <1> DEFINE n == batch.rows
             field == Field(column)
  <1>1. Values(column) \in Seq(Value) /\ Len(Values(column)) = n
    BY DEF ColumnTyped, ColumnValid, Values
  <1> HIDE DEF n
  <1>2. DOMAIN Values(column) = 1 .. n /\ \A row \in 1 .. n : Values(column)[row] \in Value
    BY <1>1, LenProperties, ElementOfSeq
  <1>3. field.cells = Cells(column) /\ field.nullable = (column.valid # <<>>)
        /\ field.name = column.name /\ field.type = column.type
    BY DEF Field, Nullable
  <1>4. Cells(column) \in [1 .. n -> Cell]
    BY <1>2 DEF Cells, Cell
  <1>5. ASSUME column.valid = <<>>, NEW row \in DOMAIN Cells(column)
        PROVE  Cells(column)[row] # Null
    <2>1. HasValue(column, row)
      BY <1>5 DEF HasValue
    <2> QED
      BY <1>2, <1>5, <2>1, ValueAssumption DEF Cells
  <1>6. HasNulls(field) => field.nullable
    BY <1>3, <1>5 DEF HasNulls
  <1>7. field.name # NoText /\ field.type \in DataTypes
    BY <1>3 DEF ColumnValid
  <1> QED
    BY <1>3, <1>4, <1>6, <1>7 DEF n

(* What a column of a record becomes in a batch.                             *)
LEMMA ColumnOfField ==
    ASSUME NEW n \in Nat, NEW field, field.cells \in [1 .. n -> Cell],
           field.name # NoText, field.type \in DataTypes,
           NEW batch, batch.rows = n
    PROVE  LET column == Column(field) IN
           /\ ColumnTyped(column) /\ ColumnValid(batch, column)
           /\ Cells(column) = field.cells
           /\ column.name = field.name /\ column.type = field.type
  <1> DEFINE column == Column(field)
  <1>1. column.name = field.name /\ column.type = field.type
        /\ column.valid = Validity(field)
        /\ column.values = [type \in DataTypes |-> IF type = field.type THEN Slots(field) ELSE <<>>]
    BY DEF Column
  <1> HIDE DEF column
  <1>2. DOMAIN field.cells = 1 .. n
    OBVIOUS
  <1>3. Slots(field) \in [1 .. n -> Value]
    BY <1>2, ValueAssumption DEF Slots, Cell
  <1>4. Slots(field) \in Seq(Value) /\ Len(Slots(field)) = n
    <2>1. Slots(field) \in Seq(Value)
      BY <1>3
    <2> QED
      BY <1>3, <2>1, LenProperties
  <1>5. Validity(field) \in Seq(BOOLEAN) /\ Len(Validity(field)) \in {0, n}
    <2>1. CASE HasNulls(field)
      <3>1. Validity(field) \in [1 .. n -> BOOLEAN]
        BY <1>2, <2>1 DEF Validity
      <3>2. Validity(field) \in Seq(BOOLEAN)
        BY <3>1
      <3> QED
        BY <3>1, <3>2, LenProperties
    <2>2. CASE ~HasNulls(field)
      BY <2>2, EmptySeq DEF Validity
    <2> QED
      BY <2>1, <2>2
  <1>6. Values(column) = Slots(field)
    BY <1>1 DEF Values
  <1>7. ColumnTyped(column)
    <2>1. <<>> \in Seq(Value)
      BY EmptySeq
    <2>2. column.values \in [DataTypes -> Seq(Value)]
      BY <1>1, <1>4, <2>1
    <2> QED
      BY <1>1, <1>5, <2>2 DEF ColumnTyped
  <1>8. ColumnValid(batch, column)
    BY <1>1, <1>4, <1>5, <1>6 DEF ColumnValid
  <1>9. \A row \in 1 .. n :
          IF field.cells[row] = Null THEN ~HasValue(column, row)
          ELSE HasValue(column, row) /\ Values(column)[row] = field.cells[row]
    <2> SUFFICES ASSUME NEW row \in 1 .. n
                 PROVE  IF field.cells[row] = Null THEN ~HasValue(column, row)
                        ELSE HasValue(column, row) /\ Values(column)[row] = field.cells[row]
      OBVIOUS
    <2>1. CASE HasNulls(field)
      <3>1. column.valid \in [1 .. n -> BOOLEAN]
            /\ column.valid[row] = (field.cells[row] # Null)
        BY <1>1, <1>2, <2>1 DEF Validity
      <3>2. column.valid # <<>>
        BY <3>1
      <3> QED
        BY <1>2, <1>6, <3>1, <3>2 DEF HasValue, Slots
    <2>2. CASE ~HasNulls(field)
      <3>1. column.valid = <<>>
        BY <1>1, <2>2 DEF Validity
      <3>2. field.cells[row] # Null
        BY <1>2, <2>2 DEF HasNulls
      <3> QED
        BY <1>2, <1>6, <3>1, <3>2 DEF HasValue, Slots
    <2> QED
      BY <2>1, <2>2
  <1>10. Cells(column) = field.cells
    <2>1. DOMAIN Values(column) = 1 .. n
      BY <1>3, <1>6
    <2>2. Cells(column) = [row \in 1 .. n |->
             IF HasValue(column, row) THEN Values(column)[row] ELSE Null]
      BY <2>1 DEF Cells
    <2>3. \A row \in 1 .. n : Cells(column)[row] = field.cells[row]
      BY <1>9, <2>2
    <2> QED
      BY <2>2, <2>3
  <1> QED
    BY <1>1, <1>7, <1>8, <1>10 DEF column

(* A column that came out of a record is the same after the next.            *)
LEMMA ColumnSettles ==
    ASSUME NEW n \in Nat, NEW field, field.cells \in [1 .. n -> Cell],
           field.name # NoText, field.type \in DataTypes
    PROVE  Column(Field(Column(field))) = Column(field)
  <1> DEFINE column == Column(field)
             again == Field(column)
             batch == [rows |-> n]
  <1>1. Cells(column) = field.cells /\ column.name = field.name /\ column.type = field.type
    <2>1. batch.rows = n
      OBVIOUS
    <2> QED
      BY <2>1, ColumnOfField
  <1>2. again.cells = field.cells /\ again.name = field.name /\ again.type = field.type
    BY <1>1 DEF Field
  <1> HIDE DEF again
  <1>3. HasNulls(again) = HasNulls(field) /\ Slots(again) = Slots(field)
    BY <1>2 DEF HasNulls, Slots
  <1>4. Validity(again) = Validity(field)
    BY <1>2, <1>3 DEF Validity
  <1>5. Column(again) = Column(field)
    BY <1>2, <1>3, <1>4 DEF Column
  <1> QED
    BY <1>5 DEF again

-----------------------------------------------------------------------------
(* Batches there and back.                                                   *)

Returned(batch) == ArrowToBatch(BatchToArrow(batch))

LEMMA ReturnedColumns ==
    ASSUME NEW batch, BatchTyped(batch), BatchValid(batch)
    PROVE  LET back == Returned(batch) IN
           /\ back.rows = batch.rows
           /\ back.columns = [i \in 1 .. Len(batch.columns) |-> Column(Field(batch.columns[i]))]
           /\ Len(back.columns) = Len(batch.columns)
           /\ DOMAIN batch.columns = 1 .. Len(batch.columns)
  <1> DEFINE n == Len(batch.columns)
             columns == [i \in 1 .. n |-> Column(Field(batch.columns[i]))]
  <1>1. n \in Nat /\ DOMAIN batch.columns = 1 .. n
    BY DEF BatchTyped
  <1>2. Returned(batch).rows = batch.rows
    BY DEF Returned, BatchToArrow, ArrowToBatch
  <1>3. Returned(batch).columns = columns
    BY <1>1 DEF Returned, BatchToArrow, ArrowToBatch
  <1>4. Len(columns) = n
    <2> DEFINE S == {columns[i] : i \in 1 .. n}
    <2>1. columns \in [1 .. n -> S]
      OBVIOUS
    <2> HIDE DEF columns, S, n
    <2>2. columns \in Seq(S)
      BY <1>1, <2>1
    <2> QED
      BY <1>1, <2>1, <2>2, LenProperties
  <1> QED
    BY <1>1, <1>2, <1>3, <1>4

(* A batch that validates becomes a batch that does, of the same content,    *)
(* which no further conversion changes.                                      *)
LEMMA BatchReturns ==
    ASSUME NEW batch, BatchTyped(batch), BatchValid(batch)
    PROVE  /\ BatchTyped(Returned(batch)) /\ BatchValid(Returned(batch))
           /\ Returned(batch).rows = batch.rows
           /\ Content(Returned(batch)) = Content(batch)
           /\ Returned(Returned(batch)) = Returned(batch)
  <1> DEFINE n == Len(batch.columns)
             back == Returned(batch)
  <1>1. n \in Nat /\ batch.rows \in Nat /\ DOMAIN batch.columns = 1 .. n
    BY DEF BatchTyped
  <1>2. /\ back.rows = batch.rows /\ Len(back.columns) = n
        /\ back.columns = [i \in 1 .. n |-> Column(Field(batch.columns[i]))]
    BY ReturnedColumns
  <1>3. \A i \in 1 .. n :
          LET field == Field(batch.columns[i]) IN
          /\ field.cells \in [1 .. batch.rows -> Cell]
          /\ field.cells = Cells(batch.columns[i])
          /\ field.name = batch.columns[i].name /\ field.type = batch.columns[i].type
          /\ field.name # NoText /\ field.type \in DataTypes
    <2> SUFFICES ASSUME NEW i \in 1 .. n
                 PROVE  LET field == Field(batch.columns[i]) IN
                        /\ field.cells \in [1 .. batch.rows -> Cell]
                        /\ field.cells = Cells(batch.columns[i])
                        /\ field.name = batch.columns[i].name /\ field.type = batch.columns[i].type
                        /\ field.name # NoText /\ field.type \in DataTypes
      OBVIOUS
    <2>1. ColumnTyped(batch.columns[i]) /\ ColumnValid(batch, batch.columns[i])
      BY <1>1 DEF BatchTyped, BatchValid
    <2>2. Field(batch.columns[i]).cells = Cells(batch.columns[i])
      BY DEF Field
    <2> QED
      BY <1>1, <2>1, <2>2, FieldOfColumn
  <1> HIDE DEF n, back
  <1>4. \A i \in 1 .. n :
          /\ ColumnTyped(back.columns[i]) /\ ColumnValid(back, back.columns[i])
          /\ Cells(back.columns[i]) = Cells(batch.columns[i])
          /\ back.columns[i].name = batch.columns[i].name
          /\ back.columns[i].type = batch.columns[i].type
          /\ Column(Field(back.columns[i])) = back.columns[i]
    <2> SUFFICES ASSUME NEW i \in 1 .. n
                 PROVE  /\ ColumnTyped(back.columns[i]) /\ ColumnValid(back, back.columns[i])
                        /\ Cells(back.columns[i]) = Cells(batch.columns[i])
                        /\ back.columns[i].name = batch.columns[i].name
                        /\ back.columns[i].type = batch.columns[i].type
                        /\ Column(Field(back.columns[i])) = back.columns[i]
      OBVIOUS
    <2> DEFINE field == Field(batch.columns[i])
    <2>1. /\ field.cells \in [1 .. batch.rows -> Cell]
          /\ field.cells = Cells(batch.columns[i])
          /\ field.name = batch.columns[i].name /\ field.type = batch.columns[i].type
          /\ field.name # NoText /\ field.type \in DataTypes
      BY <1>3
    <2>2. back.columns[i] = Column(field)
      BY <1>2
    <2> HIDE DEF field
    <2>3. /\ ColumnTyped(Column(field)) /\ ColumnValid(back, Column(field))
          /\ Cells(Column(field)) = field.cells
          /\ Column(field).name = field.name /\ Column(field).type = field.type
      BY <1>1, <1>2, <2>1, ColumnOfField
    <2>4. Column(Field(Column(field))) = Column(field)
      BY <1>1, <2>1, ColumnSettles
    <2> QED
      BY <2>1, <2>2, <2>3, <2>4
  <1>5. DOMAIN back.columns = 1 .. n
    BY <1>2
  <1>6. BatchTyped(back)
    BY <1>1, <1>2, <1>4, <1>5 DEF BatchTyped
  <1>7. BatchValid(back)
    <2>1. back.columns = <<>> => back.rows = 0
      BY <1>1, <1>2, <1>5, EmptySeq DEF BatchValid
    <2>2. Names(back.columns) = Names(batch.columns)
      BY <1>1, <1>4, <1>5 DEF Names
    <2>3. Distinct(Names(back.columns))
      BY <2>2 DEF BatchValid
    <2> QED
      BY <1>4, <1>5, <2>1, <2>3 DEF BatchValid
  <1>8. Content(back) = Content(batch)
    BY <1>1, <1>4, <1>5 DEF Content
  <1>9. Returned(back) = back
    <2>1. Returned(back).columns = back.columns
      <3>1. Returned(back).columns = [i \in 1 .. n |-> Column(Field(back.columns[i]))]
        BY <1>2, <1>6, <1>7, ReturnedColumns
      <3> QED
        BY <1>2, <1>4, <3>1
    <2>2. Returned(back).rows = back.rows
      BY DEF Returned, BatchToArrow, ArrowToBatch
    <2>3. \A b : Returned(b) = [rows |-> Returned(b).rows, columns |-> Returned(b).columns]
      BY DEF Returned, ArrowToBatch
    <2> QED
      BY <2>1, <2>2, <2>3 DEF back
  <1> QED
    BY <1>2, <1>6, <1>7, <1>8, <1>9 DEF back

-----------------------------------------------------------------------------
(* Messages there and back.                                                  *)

LEMMA BatchPart ==
    ASSUME NEW type \in BatchTypes
    PROVE  RequiredPart(type) = {"batch"}
  BY DEF RequiredPart, BatchTypes, PlainTypes

LEMMA BatchJudged ==
    ASSUME NEW content
    PROVE  PartValid("batch", content) = BatchValid(content)
  BY DEF PartValid

LEMMA RequestPart == RequiredPart("capability_request") = {"capability_request"}
  BY DEF RequiredPart, BatchTypes, PlainTypes

LEMMA ResponsePart == RequiredPart("capability_response") = {"capability_response"}
  BY DEF RequiredPart, BatchTypes, PlainTypes

LEMMA RequestJudged ==
    ASSUME NEW content
    PROVE  PartValid("capability_request", content) = CapabilityRequestValid(content)
  BY DEF PartValid

LEMMA ResponseJudged ==
    ASSUME NEW content
    PROVE  PartValid("capability_response", content) = CapabilityResponseValid(content)
  BY DEF PartValid

(* A batch that validates is sent as a record that does.                     *)
LEMMA RecordOfBatch ==
    ASSUME NEW batch, BatchTyped(batch), BatchValid(batch), batch.rows <= MaxRows
    PROVE  RecordValid(BatchToArrow(batch))
  <1> DEFINE n == Len(batch.columns)
             record == BatchToArrow(batch)
  <1>1. n \in Nat /\ batch.rows \in Nat /\ DOMAIN batch.columns = 1 .. n
    BY DEF BatchTyped
  <1>2. /\ record.rows = batch.rows
        /\ record.columns = [i \in 1 .. n |-> Field(batch.columns[i])]
    BY <1>1 DEF BatchToArrow
  <1> HIDE DEF n, record
  <1>3. ASSUME NEW i \in 1 .. n
        PROVE  FieldValid(record, Field(batch.columns[i]))
               /\ Field(batch.columns[i]).name = batch.columns[i].name
    <2> DEFINE field == Field(batch.columns[i])
    <2>1. ColumnTyped(batch.columns[i]) /\ ColumnValid(batch, batch.columns[i])
      BY <1>1, <1>3 DEF BatchTyped, BatchValid, n
    <2>2. /\ field.cells \in [1 .. batch.rows -> Cell] /\ (HasNulls(field) => field.nullable)
          /\ field.name = batch.columns[i].name
          /\ field.name # NoText /\ field.type \in DataTypes
      BY <1>1, <2>1, FieldOfColumn
    <2> HIDE DEF field
    <2>3. Len(field.cells) = batch.rows
      <3>1. field.cells \in Seq(Cell)
        BY <1>1, <2>2
      <3> QED
        BY <1>1, <2>2, <3>1, LenProperties
    <2> QED
      BY <1>2, <2>2, <2>3 DEF FieldValid, field
  <1>4. DOMAIN record.columns = 1 .. n
    BY <1>2
  <1>5. Names(record.columns) = Names(batch.columns)
    BY <1>1, <1>2, <1>3, <1>4 DEF Names
  <1>6. Distinct(Names(record.columns))
    BY <1>5 DEF BatchValid
  <1>7. record.columns = <<>> => record.rows = 0
    <2> SUFFICES ASSUME record.columns = <<>> PROVE batch.rows = 0
      BY <1>2
    <2>1. n = 0
      BY <1>1, <1>4
    <2>2. batch.columns = <<>>
      <3> DEFINE S == {batch.columns[i] : i \in 1 .. n}
      <3>1. batch.columns \in [1 .. n -> S]
        BY DEF BatchTyped, n
      <3> HIDE DEF S
      <3>2. batch.columns \in Seq(S) /\ Len(batch.columns) = 0
        BY <1>1, <2>1, <3>1, LenProperties DEF n
      <3> QED
        BY <3>2, EmptySeq
    <2> QED
      BY <2>2 DEF BatchValid
  <1>8. \A i \in DOMAIN record.columns : FieldValid(record, record.columns[i])
    BY <1>2, <1>3, <1>4
  <1> QED
    BY <1>2, <1>6, <1>7, <1>8 DEF RecordValid, record

(* What an end accepts to send, the other takes for the same message if its  *)
(* CBOR decoder takes it, and may send again to an end that does.            *)
LEMMA MessageReturns ==
    ASSUME NEW m, MessageTyped(m), EncodeAccepts(m)
    PROVE  LET back == Message(Frame(m)) IN
           /\ Unmarshals(Frame(m)) => DecodeAccepts(Frame(m))
           /\ MessageTyped(back) /\ Validates(back) /\ EncodeAccepts(back)
           /\ SameContent(m, back) /\ Message(Frame(back)) = back
           /\ Unmarshals(Frame(m)) => Unmarshals(Frame(back))
  <1> DEFINE back == Message(Frame(m))
  <1>1. Validates(m)
    BY DEF EncodeAccepts
  <1>2. CASE m.type \notin BatchTypes
    <2>1. Frame(m) = [kind |-> "control", message |-> m]
      BY <1>2 DEF Frame
    <2>2. back = m
      BY <2>1 DEF Message
    <2>3. Unmarshals(Frame(m)) => DecodeAccepts(Frame(m))
      BY <1>1, <1>2, <2>1, <2>2 DEF DecodeAccepts
    <2>4. SameContent(m, back)
      BY <1>2, <2>2 DEF SameContent
    <2> HIDE DEF back
    <2>5. EncodeAccepts(back) /\ Message(Frame(back)) = back
          /\ (Unmarshals(Frame(m)) => Unmarshals(Frame(back)))
      BY <2>2 DEF back
    <2> QED
      BY <1>1, <2>2, <2>3, <2>4, <2>5 DEF back
  <1>3. CASE m.type \in BatchTypes
    <2> DEFINE batch == m.parts["batch"]
               whole == [name \in Addresses \cup {"parts"} |->
                           IF name = "parts" THEN [part \in {"batch"} |-> Returned(batch)]
                                             ELSE m[name]]
    <2>1. "batch" \in DOMAIN m.parts /\ BatchValid(batch)
      BY <1>1, <1>3, BatchPart, BatchJudged DEF Validates, PartsComplete
    <2>2. BatchTyped(batch)
      BY <2>1 DEF MessageTyped, PartTyped
    <2> HIDE DEF batch
    <2>3. /\ BatchTyped(Returned(batch)) /\ BatchValid(Returned(batch))
          /\ Returned(batch).rows = batch.rows
          /\ Content(Returned(batch)) = Content(batch)
          /\ Returned(Returned(batch)) = Returned(batch)
      BY <2>1, <2>2, BatchReturns
    <2>4. Frame(m) = [kind |-> "arrow", metadata |-> Metadata(m), record |-> BatchToArrow(batch)]
      BY <1>3 DEF Frame, batch
    <2>5. back = whole
      BY <2>4 DEF Message, Metadata, Returned, Addresses
    <2>6. /\ back.parts = [part \in {"batch"} |-> Returned(batch)]
          /\ \A name \in Addresses : back[name] = m[name]
          /\ back.type = m.type /\ back.abi = m.abi
      BY <2>5 DEF Addresses
    <2>7. back = [name \in Addresses \cup {"parts"} |-> back[name]]
      BY <2>5
    <2> HIDE DEF back, whole
    <2>8. MessageTyped(back)
      BY <2>3, <2>6, <2>7 DEF MessageTyped, PartTyped
    <2>9. PartsComplete(back)
      BY <1>3, <2>3, <2>6, BatchPart, BatchJudged DEF PartsComplete, OwnParts
    <2>10. PartsBelong(back)
      BY <1>3, <2>6 DEF PartsBelong, OwnParts
    <2>11. Validates(back)
      BY <1>1, <1>3, <2>6, <2>9, <2>10 DEF Validates, BatchTypes
    <2>12. Unmarshals(Frame(m)) => DecodeAccepts(Frame(m))
      <3>1. MetadataValid(Metadata(m)) /\ RecordValid(BatchToArrow(batch))
        BY <1>3, <2>4 DEF EncodeAccepts
      <3> QED
        BY <2>4, <2>11, <3>1 DEF DecodeAccepts, back
    <2>13. SameContent(m, back)
      BY <1>3, <2>3, <2>6 DEF SameContent, batch
    <2>14. Message(Frame(back)) = back
      <3>1. Frame(back) = [kind |-> "arrow", metadata |-> Metadata(back),
                           record |-> BatchToArrow(Returned(batch))]
        BY <1>3, <2>6 DEF Frame
      <3>2. Message(Frame(back)) =
              [name \in Addresses \cup {"parts"} |->
                 IF name = "parts" THEN [part \in {"batch"} |-> Returned(Returned(batch))]
                                   ELSE back[name]]
        BY <3>1 DEF Message, Metadata, Returned, Addresses
      <3> QED
        BY <2>3, <2>6, <2>7, <3>2
    <2>15. Frame(back) = [kind |-> "arrow", metadata |-> Metadata(back),
                          record |-> BatchToArrow(Returned(batch))]
      BY <1>3, <2>6 DEF Frame
    <2>16. Metadata(back) = Metadata(m)
      BY <2>6 DEF Metadata
    <2>17. Unmarshals(Frame(m)) => Unmarshals(Frame(back))
      BY <2>4, <2>15, <2>16 DEF Unmarshals
    <2>18. EncodeAccepts(back)
      <3>1. MetadataValid(Metadata(m)) /\ RecordValid(BatchToArrow(batch))
        BY <1>3, <2>4 DEF EncodeAccepts
      <3>2. Returned(batch).rows <= MaxRows
        BY <2>3, <3>1 DEF RecordValid, BatchToArrow
      <3>3. RecordValid(BatchToArrow(Returned(batch)))
        BY <2>3, <3>2, RecordOfBatch
      <3> QED
        BY <2>11, <2>15, <2>16, <3>1, <3>3 DEF EncodeAccepts
    <2> QED
      BY <2>8, <2>11, <2>12, <2>13, <2>14, <2>17, <2>18 DEF back
  <1> QED
    BY <1>2, <1>3

-----------------------------------------------------------------------------
(* The invariant.                                                            *)

(* What an end holds is a message of its content, one that validates and that*)
(* no further hop changes once it was received.                              *)
HeldInv ==
    /\ MessageTyped(message) /\ hops \in 0 .. MaxHops
    /\ hops = 0 => message = given
    /\ hops > 0 => /\ Validates(message) /\ SameContent(given, message)
                   /\ Message(Frame(message)) = message
                   /\ EncodeAccepts(message) /\ Unmarshals(Frame(message))

SentInv ==
    /\ pc \in {"held", "sent", "refused", "lost"}
    /\ pc = "sent" => hops < MaxHops /\ EncodeAccepts(message) /\ frame = Frame(message)
    /\ pc = "refused" => ~EncodeAccepts(message)
    /\ pc = "lost" => hops = 0 /\ ~Unmarshals(Frame(message))

ReceivedInv == \A earlier \in received : MessageTyped(earlier) /\ Validates(earlier)

ExchangeInv == HeldInv /\ SentInv /\ ReceivedInv

LEMMA InitExchange == Init => ExchangeInv
  BY MessagesAssumption, HopsAssumption
     DEF Init, ExchangeInv, HeldInv, SentInv, ReceivedInv

LEMMA SameTransitive ==
    ASSUME NEW one, NEW two, NEW three, SameContent(one, two), SameContent(two, three)
    PROVE  SameContent(one, three)
  <1>1. one.type = two.type
    BY DEF SameContent, Addresses
  <1> QED
    BY <1>1 DEF SameContent

LEMMA NextExchange == ExchangeInv /\ [Next]_vars => ExchangeInv'
  <1> SUFFICES ASSUME ExchangeInv, [Next]_vars PROVE ExchangeInv'
    OBVIOUS
  <1> USE HopsAssumption
  <1>1. CASE EncodeMessage
    <2>1. UNCHANGED <<given, message, hops, received>>
      BY <1>1 DEF EncodeMessage
    <2>2. HeldInv' /\ ReceivedInv'
      BY <2>1 DEF ExchangeInv, HeldInv, ReceivedInv
    <2>3. SentInv'
      BY <1>1, <2>1 DEF EncodeMessage, ExchangeInv, SentInv
    <2> QED
      BY <2>2, <2>3 DEF ExchangeInv
  <1>2. CASE DecodeMessage
    <2>1. /\ EncodeAccepts(message) /\ frame = Frame(message) /\ MessageTyped(message)
          /\ hops \in 0 .. MaxHops /\ hops < MaxHops
      BY <1>2 DEF DecodeMessage, ExchangeInv, HeldInv, SentInv
    <2>2. /\ Unmarshals(frame) => DecodeAccepts(frame)
          /\ MessageTyped(Message(frame)) /\ Validates(Message(frame))
          /\ SameContent(message, Message(frame))
          /\ Message(Frame(Message(frame))) = Message(frame)
          /\ EncodeAccepts(Message(frame))
          /\ Unmarshals(frame) => Unmarshals(Frame(Message(frame)))
      BY <2>1, MessageReturns
    <2> SUFFICES ASSUME DecodeAccepts(frame) PROVE ExchangeInv'
      <3> SUFFICES ASSUME ~DecodeAccepts(frame) PROVE ExchangeInv'
        OBVIOUS
      <3>1. ~Unmarshals(frame)
        BY <2>2
      <3>2. hops = 0
        BY <2>1, <3>1 DEF ExchangeInv, HeldInv
      <3>3. pc' = "lost" /\ UNCHANGED <<given, message, hops, received>>
        BY <1>2 DEF DecodeMessage
      <3> QED
        BY <2>1, <3>1, <3>2, <3>3 DEF ExchangeInv, HeldInv, SentInv, ReceivedInv
    <2>0. Unmarshals(frame)
      BY DEF DecodeAccepts
    <2>3. /\ message' = Message(frame) /\ hops' = hops + 1 /\ pc' = "held"
          /\ UNCHANGED <<given, received>>
      BY <1>2, <2>2 DEF DecodeMessage
    <2>4. SameContent(given, Message(frame))
      <3>1. CASE hops = 0
        <4>1. message = given
          BY <3>1 DEF ExchangeInv, HeldInv
        <4> QED
          BY <2>2, <4>1
      <3>2. CASE hops > 0
        <4>1. SameContent(given, message)
          BY <3>2 DEF ExchangeInv, HeldInv
        <4> QED
          BY <2>2, <4>1, SameTransitive
      <3> QED
        BY <2>1, <3>1, <3>2
    <2>5. HeldInv'
      <3>1. hops' \in 0 .. MaxHops /\ hops' # 0
        BY <2>1, <2>3
      <3>2. MessageTyped(message') /\ Validates(message') /\ SameContent(given', message')
            /\ Message(Frame(message')) = message'
            /\ EncodeAccepts(message') /\ Unmarshals(Frame(message'))
        BY <2>2, <2>3, <2>4, <2>0
      <3> QED
        BY <3>1, <3>2 DEF HeldInv
    <2>6. SentInv' /\ ReceivedInv'
      BY <2>3 DEF ExchangeInv, SentInv, ReceivedInv
    <2> QED
      BY <2>5, <2>6 DEF ExchangeInv
  <1>3. CASE SendNext
    <2>1. hops > 0 /\ pc = "held" /\ received' = {message} /\ given' \in FollowUps
          /\ message' = given' /\ hops' = 0 /\ pc' = pc
      BY <1>3 DEF SendNext
    <2>2. MessageTyped(message) /\ Validates(message)
      BY <2>1 DEF ExchangeInv, HeldInv
    <2>3. HeldInv'
      BY <2>1, MessagesAssumption DEF HeldInv
    <2>4. ReceivedInv' /\ SentInv'
      BY <2>1, <2>2 DEF ReceivedInv, SentInv
    <2> QED
      BY <2>3, <2>4 DEF ExchangeInv
  <1>4. CASE UNCHANGED vars
    BY <1>4 DEF vars, ExchangeInv, HeldInv, SentInv, ReceivedInv
  <1> QED
    BY <1>1, <1>2, <1>3, <1>4 DEF Next

LEMMA ExchangeInvariant == Spec => []ExchangeInv
  BY InitExchange, NextExchange, PTL DEF Spec

-----------------------------------------------------------------------------
(* The theorems.                                                             *)

(* Whatever one end encodes the other takes, if it is CBOR that a decoder    *)
(* takes; and what it took can be passed on to any number of ends, and has   *)
(* the part its type requires.                                               *)
THEOREM NothingIsLost == Spec => []AcceptedIsReceived
  <1>1. ExchangeInv => AcceptedIsReceived
    BY DEF ExchangeInv, HeldInv, SentInv, AcceptedIsReceived, Validates, PartsComplete
  <1> QED
    BY <1>1, ExchangeInvariant, PTL

(* A received message has the address, and the cells or the parts, its first *)
(* sender gave it.                                                           *)
THEOREM ContentArrives == Spec => []ContentSurvives
  <1>1. ExchangeInv => ContentSurvives
    BY DEF ExchangeInv, HeldInv, ContentSurvives
  <1> QED
    BY <1>1, ExchangeInvariant, PTL

(* After its first hop no further one changes a message.                     *)
THEOREM RelaysAgree == Spec => RelayIsStable
  <1>1. ExchangeInv /\ [Next]_vars => [hops > 0 /\ hops' = hops + 1 => message' = message]_vars
    <2> SUFFICES ASSUME ExchangeInv, Next, hops > 0, hops' = hops + 1
                 PROVE  message' = message
      BY DEF vars
    <2>1. hops \in 0 .. MaxHops
      BY DEF ExchangeInv, HeldInv
    <2>2. CASE DecodeMessage
      BY <2>1, <2>2, HopsAssumption DEF DecodeMessage, ExchangeInv, HeldInv, SentInv
    <2>3. CASE EncodeMessage
      BY <2>3 DEF EncodeMessage
    <2>4. CASE SendNext
      BY <2>1, <2>4, HopsAssumption DEF SendNext
    <2> QED
      BY <2>2, <2>3, <2>4 DEF Next
  <1> QED
    BY <1>1, ExchangeInvariant, PTL DEF Spec, RelayIsStable

LEMMA CapabilitiesFinite == IsFiniteSet(Capabilities)
  <1>1. IsFiniteSet({"http"})
    BY FS_Singleton
  <1>2. IsFiniteSet({"http"} \cup {"file-read"})
    BY <1>1, FS_AddElement
  <1>3. IsFiniteSet({"http"} \cup {"file-read"} \cup {"file-write"})
    BY <1>2, FS_AddElement
  <1>4. IsFiniteSet({"http"} \cup {"file-read"} \cup {"file-write"} \cup {"scratch"})
    BY <1>3, FS_AddElement
  <1>5. IsFiniteSet({"http"} \cup {"file-read"} \cup {"file-write"} \cup {"scratch"} \cup {"secret"})
    BY <1>4, FS_AddElement
  <1>6. Capabilities = {"http"} \cup {"file-read"} \cup {"file-write"} \cup {"scratch"} \cup {"secret"}
    BY DEF Capabilities
  <1> QED
    BY <1>5, <1>6

LEMMA OneResult ==
    ASSUME NEW S, IsFiniteSet(S), Cardinality(S) = 1, NEW x \in S
    PROVE  S = {x}
  BY FS_Singleton

(* A response to a request, of its identity and kind, that is no error has   *)
(* the result the capability method that asked dereferences.                 *)
THEOREM AnswersHaveResults == Spec => []AnswerHasResult
  <1>1. ExchangeInv => AnswerHasResult
    <2> SUFFICES ASSUME ExchangeInv, NEW request \in received,
                        request.type = "capability_request",
                        message.type = "capability_response", hops > 0,
                        Answer(message).id = request.parts["capability_request"].id,
                        Answer(message).kind = request.parts["capability_request"].kind,
                        "error" \notin DOMAIN Answer(message).result
                 PROVE  DOMAIN Asked(request) \subseteq DOMAIN Answer(message).result
      BY DEF AnswerHasResult
    <2> DEFINE asked == request.parts["capability_request"]
    <2>1. CapabilityRequestValid(asked) /\ DOMAIN asked.payload \subseteq Capabilities
      <3>1. Validates(request) /\ MessageTyped(request)
        BY DEF ExchangeInv, ReceivedInv
      <3>2. "capability_request" \in DOMAIN request.parts
            /\ PartValid("capability_request", asked)
        BY <3>1, RequestPart DEF Validates, PartsComplete
      <3> QED
        BY <3>1, <3>2, RequestJudged DEF MessageTyped, PartTyped
    <2>2. CapabilityResponseValid(Answer(message))
      <3>1. Validates(message)
        BY DEF ExchangeInv, HeldInv
      <3>2. PartValid("capability_response", Answer(message))
        BY <3>1, ResponsePart DEF Validates, PartsComplete, Answer
      <3> QED
        BY <3>2, ResponseJudged
    <2>3. asked.kind \in DOMAIN Answer(message).result
      BY <2>2 DEF CapabilityResponseValid, ResultMatches
    <2>4. DOMAIN asked.payload = {asked.kind}
      <3>1. IsFiniteSet(Capabilities)
        BY CapabilitiesFinite
      <3>2. IsFiniteSet(DOMAIN asked.payload)
        BY <2>1, <3>1, FS_Subset
      <3>3. Cardinality(DOMAIN asked.payload) = 1 /\ asked.kind \in DOMAIN asked.payload
        BY <2>1 DEF CapabilityRequestValid
      <3> QED
        BY <3>2, <3>3, OneResult
    <2> QED
      BY <2>3, <2>4 DEF Asked
  <1> QED
    BY <1>1, ExchangeInvariant, PTL

(* What was received as a start was validated.                               *)
LEMMA StartsValid ==
    ASSUME NEW m, Validates(m), MessageTyped(m), m.type = "session_start"
    PROVE  SessionStartValid(m.parts["session_start"]) /\ StartTyped(m.parts["session_start"])
  <1>1. RequiredPart("session_start") = {"session_start"}
    BY DEF RequiredPart, BatchTypes, PlainTypes
  <1>2. "session_start" \in DOMAIN m.parts /\ PartValid("session_start", m.parts["session_start"])
    BY <1>1 DEF Validates, PartsComplete
  <1>3. PartValid("session_start", m.parts["session_start"])
        = SessionStartValid(m.parts["session_start"])
    BY DEF PartValid
  <1> QED
    BY <1>2, <1>3 DEF MessageTyped, PartTyped

(* An edge two agents were started with leads from one to the other.         *)
THEOREM EdgesMeet == Spec => []PeerEdgesMeet
  <1>1. ExchangeInv => PeerEdgesMeet
    <2> SUFFICES ASSUME ExchangeInv, NEW first \in received,
                        first.type = "session_start", message.type = "session_start", hops > 0,
                        first.parts["session_start"].host # message.parts["session_start"].host,
                        NEW edge \in PeerEdges(first.parts["session_start"])
                                     \cap PeerEdges(message.parts["session_start"])
                 PROVE  LET one == first.parts["session_start"]
                            other == message.parts["session_start"]
                        IN  \/ edge.from_node \in NodeIDs(one) /\ edge.to_node \in NodeIDs(other)
                            \/ edge.from_node \in NodeIDs(other) /\ edge.to_node \in NodeIDs(one)
      BY DEF PeerEdgesMeet
    <2> DEFINE one == first.parts["session_start"]
               other == message.parts["session_start"]
    <2>1. SessionStartValid(one)
      BY StartsValid DEF ExchangeInv, ReceivedInv
    <2>2. SessionStartValid(other)
      BY StartsValid DEF ExchangeInv, HeldInv
    <2> HIDE DEF one, other
    <2>3. PeerEdgeValid(one, edge)
      BY <2>1 DEF SessionStartValid, PeerEdges, one
    <2>4. PeerEdgeValid(other, edge)
      BY <2>2 DEF SessionStartValid, PeerEdges, other
    <2>5. one.host # other.host
      BY DEF one, other
    <2> QED
      BY <2>3, <2>4, <2>5 DEF PeerEdgeValid, one, other
  <1> QED
    BY <1>1, ExchangeInvariant, PTL

(* Of two lists in a row without repetitions the second has none.            *)
LEMMA LaterDistinct ==
    ASSUME NEW S, NEW s \in Seq(S), NEW t \in Seq(S), Distinct(s \o t)
    PROVE  Distinct(t)
  <1>1. /\ Len(s) \in Nat /\ Len(t) \in Nat /\ DOMAIN t = 1 .. Len(t)
        /\ DOMAIN (s \o t) = 1 .. Len(s) + Len(t)
        /\ \A i \in 1 .. Len(s) + Len(t) :
              (s \o t)[i] = IF i <= Len(s) THEN s[i] ELSE t[i - Len(s)]
    BY ConcatProperties, LenProperties
  <1> SUFFICES ASSUME NEW i \in 1 .. Len(t), NEW j \in 1 .. Len(t), t[i] = t[j]
               PROVE  i = j
    BY <1>1 DEF Distinct
  <1>2. Len(s) + i \in DOMAIN (s \o t) /\ Len(s) + j \in DOMAIN (s \o t)
    BY <1>1
  <1>3. (s \o t)[Len(s) + i] = t[i] /\ (s \o t)[Len(s) + j] = t[j]
    <2> DEFINE k == Len(s) + i
               l == Len(s) + j
    <2>1. /\ k \in 1 .. Len(s) + Len(t) /\ l \in 1 .. Len(s) + Len(t)
          /\ ~(k <= Len(s)) /\ ~(l <= Len(s)) /\ k - Len(s) = i /\ l - Len(s) = j
      BY <1>1
    <2> HIDE DEF k, l
    <2>2. (s \o t)[k] = t[i] /\ (s \o t)[l] = t[j]
      BY <1>1, <2>1
    <2> QED
      BY <2>2 DEF k, l
  <1>4. Len(s) + i = Len(s) + j
    BY <1>2, <1>3 DEF Distinct
  <1> QED
    BY <1>1, <1>4

LEMMA NamesAreList ==
    ASSUME NEW list, ListTyped(list), NEW S, NEW f, f = [i \in DOMAIN list |-> f[i]],
           \A i \in DOMAIN list : f[i] \in S
    PROVE  f \in Seq(S)
  BY DEF ListTyped

LEMMA PeerEdgeIDs ==
    ASSUME NEW start, StartTyped(start), Distinct(EdgeIDs(start))
    PROVE  Distinct([i \in DOMAIN start.peer_edges |-> start.peer_edges[i].id])
  <1> DEFINE e == [i \in DOMAIN start.edges |-> start.edges[i].id]
             b == [i \in DOMAIN start.boundaries |-> start.boundaries[i].edge]
             p == [i \in DOMAIN start.peer_edges |-> start.peer_edges[i].id]
             S == {start.edges[i].id : i \in DOMAIN start.edges}
                  \cup {start.boundaries[i].edge : i \in DOMAIN start.boundaries}
                  \cup {start.peer_edges[i].id : i \in DOMAIN start.peer_edges}
  <1>1. ListTyped(start.edges) /\ ListTyped(start.boundaries) /\ ListTyped(start.peer_edges)
    BY DEF StartTyped
  <1>2. /\ e = [i \in DOMAIN start.edges |-> e[i]] /\ \A i \in DOMAIN start.edges : e[i] \in S
        /\ b = [i \in DOMAIN start.boundaries |-> b[i]]
        /\ \A i \in DOMAIN start.boundaries : b[i] \in S
        /\ p = [i \in DOMAIN start.peer_edges |-> p[i]]
        /\ \A i \in DOMAIN start.peer_edges : p[i] \in S
    OBVIOUS
  <1>3. EdgeIDs(start) = (e \o b) \o p
    BY DEF EdgeIDs
  <1> HIDE DEF e, b, p, S
  <1>4. e \in Seq(S) /\ b \in Seq(S) /\ p \in Seq(S)
    BY <1>1, <1>2, NamesAreList
  <1>5. e \o b \in Seq(S)
    BY <1>4, ConcatProperties
  <1>6. Distinct(p)
    BY <1>3, <1>4, <1>5, LaterDistinct
  <1> QED
    BY <1>6 DEF p

(* Peers without repetitions that are the hosts of a set are no more.        *)
LEMMA PeersCounted ==
    ASSUME NEW n \in Nat, NEW H, NEW f \in [1 .. n -> H],
           \A h \in H : \E i \in 1 .. n : f[i] = h,
           \A i, j \in 1 .. n : f[i] = f[j] => i = j
    PROVE  Cardinality(H) = n
  <1>1. IsFiniteSet(1 .. n) /\ Cardinality(1 .. n) = n
    BY FS_Interval
  <1>2. f \in Injection(1 .. n, H) /\ f \in Surjection(1 .. n, H)
    BY DEF Injection, IsInjective, Surjection
  <1>3. IsFiniteSet(H)
    BY <1>1, <1>2, FS_Surjection
  <1> QED
    BY <1>1, <1>2, <1>3, FS_Injection

LEMMA ConnectAccepted ==
    ASSUME NEW connect, NEW start, ConnectTyped(connect), StartTyped(start),
           SessionStartValid(start), Connects(connect, start), ListedPeers(connect),
           start.peer_edges # <<>>, Cardinality(PeerHosts(start)) <= MaxSessionNodes
    PROVE  SessionConnectValid(connect)
  <1> DEFINE n == Len(connect.peers)
             hosts == [i \in 1 .. n |-> connect.peers[i].host]
  <1>1. n \in Nat /\ DOMAIN connect.peers = 1 .. n
    BY DEF ConnectTyped, ListTyped
  <1>2. /\ connect.host = start.host /\ connect.edges = start.peer_edges
        /\ {connect.peers[i].host : i \in DOMAIN connect.peers} = PeerHosts(start)
    BY DEF Connects
  <1>3. \A h \in PeerHosts(start) : \E i \in 1 .. n : connect.peers[i].host = h
    BY <1>1, <1>2
  <1>4. \A i \in 1 .. n : connect.peers[i].host \in PeerHosts(start)
    BY <1>1, <1>2
  <1>5. n <= MaxSessionNodes
    <2>1. hosts \in [1 .. n -> PeerHosts(start)]
          /\ \A h \in PeerHosts(start) : \E i \in 1 .. n : hosts[i] = h
      BY <1>3, <1>4
    <2>2. \A i, j \in 1 .. n : hosts[i] = hosts[j] => i = j
      BY <1>1 DEF ListedPeers, Distinct
    <2> HIDE DEF n, hosts
    <2>3. Cardinality(PeerHosts(start)) = n
      BY <1>1, <2>1, <2>2, PeersCounted
    <2> QED
      BY <2>3
  <1>6. connect.host # NoText /\ Len(connect.edges) <= MaxSessionEdges
    BY <1>2 DEF SessionStartValid
  <1>7. ASSUME NEW i \in DOMAIN connect.edges
        PROVE  ConnectEdgeValid(connect, connect.edges[i])
    <2> DEFINE edge == connect.edges[i]
    <2>1. PeerEdgeValid(start, edge) /\ edge \in PeerEdges(start)
      BY <1>2, <1>7 DEF SessionStartValid, PeerEdges
    <2> HIDE DEF edge, n
    <2>2. /\ PeerEdgeComplete(edge) /\ edge.from_host # edge.to_host
          /\ (edge.from_host = connect.host) # (edge.to_host = connect.host)
      BY <1>2, <2>1 DEF PeerEdgeValid
    <2>3. \A h \in {edge.from_host, edge.to_host} :
             h # start.host => \E j \in DOMAIN connect.peers : connect.peers[j].host = h
      <3> SUFFICES ASSUME NEW h \in {edge.from_host, edge.to_host}, h # start.host
                   PROVE  \E j \in DOMAIN connect.peers : connect.peers[j].host = h
        OBVIOUS
      <3> DEFINE ends == {{other.from_host, other.to_host} : other \in PeerEdges(start)}
      <3>1. {edge.from_host, edge.to_host} \in ends
        BY <2>1
      <3>2. PeerHosts(start) = (UNION ends) \ {start.host}
        BY DEF PeerHosts
      <3> HIDE DEF ends
      <3>3. h \in UNION ends
        BY <3>1
      <3>4. h \in PeerHosts(start)
        BY <3>2, <3>3
      <3> QED
        BY <1>1, <1>3, <3>4
    <2> QED
      BY <1>2, <2>2, <2>3 DEF ConnectEdgeValid, edge
  <1>8. Distinct([i \in DOMAIN connect.edges |-> connect.edges[i].id])
    BY <1>2, PeerEdgeIDs DEF SessionStartValid
  <1> QED
    BY <1>5, <1>6, <1>7, <1>8 DEF SessionConnectValid, ListedPeers

(* A host that lists the peers of a started agent with the agent's own peer  *)
(* edges sends a message the agent takes.                                    *)
THEOREM StartsConnect == Spec => []StartedConnects
  <1>1. ExchangeInv => StartedConnects
    <2> SUFFICES ASSUME ExchangeInv, NEW start \in received,
                        start.type = "session_start",
                        message.type = "session_connect", message.abi = ABIVersion,
                        message.sequence = 0, DOMAIN message.parts = {"session_connect"},
                        Connects(message.parts["session_connect"], start.parts["session_start"]),
                        ListedPeers(message.parts["session_connect"]),
                        start.parts["session_start"].peer_edges # <<>>,
                        Cardinality(PeerHosts(start.parts["session_start"])) <= MaxSessionNodes
                 PROVE  EncodeAccepts(message)
      BY DEF StartedConnects, ExchangeInv, SentInv
    <2>1. SessionStartValid(start.parts["session_start"])
          /\ StartTyped(start.parts["session_start"])
      BY StartsValid DEF ExchangeInv, ReceivedInv
    <2>2. ConnectTyped(message.parts["session_connect"])
      BY DEF ExchangeInv, HeldInv, MessageTyped, PartTyped
    <2>3. SessionConnectValid(message.parts["session_connect"])
      BY <2>1, <2>2, ConnectAccepted
    <2>4. PartValid("session_connect", message.parts["session_connect"])
      BY <2>3 DEF PartValid
    <2>5. RequiredPart("session_connect") = {"session_connect"}
      BY DEF RequiredPart, BatchTypes, PlainTypes
    <2>6. PartsComplete(message)
      BY <2>4, <2>5 DEF PartsComplete
    <2>7. PartsBelong(message)
      BY DEF PartsBelong
    <2>8. Validates(message)
      BY <2>6, <2>7 DEF Validates, MessageTypes, OwnParts
    <2>9. message.type \notin BatchTypes
      BY DEF BatchTypes
    <2> QED
      BY <2>8, <2>9 DEF EncodeAccepts
  <1> QED
    BY <1>1, ExchangeInvariant, PTL
=============================================================================
