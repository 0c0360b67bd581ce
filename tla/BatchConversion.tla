--------------------------- MODULE BatchConversion ---------------------------
(***************************************************************************)
(* Batches and Arrow records (runner/v1/arrow_batch.go, Batch and Column   *)
(* of message.go). A column of a batch holds a slice of values for every   *)
(* type, of which its own type's counts, and a slice that tells which of   *)
(* them are valid, or is empty. A column of a record holds cells.          *)
(***************************************************************************)
EXTENDS RunnerABI

CONSTANTS
    DataTypes,          (* the five types a column may have                  *)
    Value,              (* values of any of them                             *)
    Zero,               (* the value Go gives to an element of a new slice   *)
    Null,               (* a cell without a value                            *)
    MaxRows             (* the largest uint32                                *)

ASSUME ValueAssumption == Zero \in Value /\ Null \notin Value
ASSUME RowsAssumption == MaxRows \in Nat

(* A column as Go holds it, and a batch of such columns.                     *)
ColumnTyped(column) ==
    /\ column.valid \in Seq(BOOLEAN)
    /\ column.values \in [DataTypes -> Seq(Value)]

BatchTyped(batch) ==
    /\ batch.rows \in Nat
    /\ batch.columns = [i \in 1 .. Len(batch.columns) |-> batch.columns[i]]
    /\ Len(batch.columns) \in Nat
    /\ \A i \in 1 .. Len(batch.columns) : ColumnTyped(batch.columns[i])

-----------------------------------------------------------------------------
(* Batch.Validate.                                                           *)

(* The slice of the column's type, which valueLength measures.               *)
Values(column) == column.values[column.type]

ColumnValid(batch, column) ==
    /\ column.name # NoText
    /\ Len(column.valid) \in {0, batch.rows}
    /\ column.type \in DataTypes /\ Len(Values(column)) = batch.rows

Names(columns) == [i \in DOMAIN columns |-> columns[i].name]

BatchValid(batch) ==
    /\ batch.columns = <<>> => batch.rows = 0
    /\ Distinct(Names(batch.columns))
    /\ \A i \in DOMAIN batch.columns : ColumnValid(batch, batch.columns[i])

-----------------------------------------------------------------------------
(* BatchToArrow.                                                             *)

HasValue(column, row) == column.valid = <<>> \/ column.valid[row]

Nullable(column) == column.valid # <<>>

Cells(column) ==
    [row \in DOMAIN Values(column) |->
       IF HasValue(column, row) THEN Values(column)[row] ELSE Null]

Field(column) ==
    [name |-> column.name, type |-> column.type, nullable |-> Nullable(column),
     cells |-> Cells(column)]

BatchToArrow(batch) ==
    [rows |-> batch.rows,
     columns |-> [i \in DOMAIN batch.columns |-> Field(batch.columns[i])]]

-----------------------------------------------------------------------------
(* ValidateArrowRecord and ArrowToBatch.                                     *)

HasNulls(field) == \E row \in DOMAIN field.cells : field.cells[row] = Null

FieldValid(record, field) ==
    /\ field.name # NoText
    /\ Len(field.cells) = record.rows
    /\ HasNulls(field) => field.nullable
    /\ field.type \in DataTypes

RecordValid(record) ==
    /\ record.rows <= MaxRows
    /\ record.columns = <<>> => record.rows = 0
    /\ Distinct(Names(record.columns))
    /\ \A i \in DOMAIN record.columns : FieldValid(record, record.columns[i])

(* Mutant: rows without a value are skipped.                                 *)
Skipped(field) == SelectSeq(field.cells, LAMBDA cell : cell # Null)

(* A slot without a value is left as the new slice has it.                   *)
Slots(field) ==
    [row \in DOMAIN field.cells |->
       IF field.cells[row] = Null THEN Zero ELSE field.cells[row]]

(* Mutant: it tells the rows without a value.                                *)
Nulls(field) ==
    IF HasNulls(field) THEN [row \in DOMAIN field.cells |-> field.cells[row] = Null]
                       ELSE <<>>

Validity(field) ==
    IF HasNulls(field) THEN [row \in DOMAIN field.cells |-> field.cells[row] # Null]
                       ELSE <<>>

Column(field) ==
    [name |-> field.name, type |-> field.type, valid |-> Validity(field),
     values |-> [type \in DataTypes |-> IF type = field.type THEN Slots(field) ELSE <<>>]]

ArrowToBatch(record) ==
    [rows |-> record.rows,
     columns |-> [i \in DOMAIN record.columns |-> Column(record.columns[i])]]

-----------------------------------------------------------------------------
(* What a batch means, however it is held.                                   *)
Content(batch) ==
    [i \in DOMAIN batch.columns |->
       [name |-> batch.columns[i].name, type |-> batch.columns[i].type,
        cells |-> Cells(batch.columns[i])]]
=============================================================================
