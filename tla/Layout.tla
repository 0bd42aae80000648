------------------------------- MODULE Layout -------------------------------
(***************************************************************************)
(* services/layout.py as operators on a layout: a sequence of sections     *)
(* [name, price, rows], whose rows are [label, seats, aisles].  A label is *)
(* a text and whether blanks surround it, which strip() removes; what      *)
(* upper() does is part of the text, both uses of it agree.                *)
(***************************************************************************)
EXTENDS Integers, SequencesExt

CONSTANTS
  MaxSeats,     \* MAX_SEATS_PER_EVENT
  MaxSections,  \* MAX_SECTIONS
  MaxRows,      \* MAX_ROWS_PER_SECTION
  MaxRowSeats,  \* MAX_SEATS_PER_ROW
  MaxPrice,     \* 1_000_000
  Text          \* names of sections and texts of labels

ASSUME LayoutAssumption ==
  MaxSeats \in Nat /\ MaxSections \in Nat /\ MaxRows \in Nat /\ MaxRowSeats \in Nat /\ MaxPrice \in Nat

Label == [text: Text, padded: BOOLEAN]
Row == [label: Label, seats: Int, aisles: SUBSET Int]
Section == [name: Text, price: Int, rows: Seq(Row)]

Plain(text) == [text |-> text, padded |-> FALSE]

\* All rows of a layout in their order, each with its section.
RowsOf(layout) ==
  FlattenSeq([i \in DOMAIN layout |->
    [j \in DOMAIN layout[i].rows |-> [section |-> layout[i], row |-> layout[i].rows[j]]]])

TotalSeats(layout) ==
  LET rows == RowsOf(layout)
      total[i \in 1..(Len(rows) + 1)] == IF i = 1 THEN 0 ELSE total[i - 1] + rows[i - 1].row.seats
  IN total[Len(rows) + 1]

RowIsValid(row) ==
  /\ row.seats \in 1..MaxRowSeats
  /\ \A a \in row.aisles : a >= 1 /\ a < row.seats

SectionIsValid(section) ==
  /\ section.price \in 0..MaxPrice
  /\ Len(section.rows) \in 1..MaxRows
  /\ \A j \in DOMAIN section.rows : RowIsValid(section.rows[j])

\* Mutant: a section may repeat the labels of another one.
LabelsDifferPerSection(layout) ==
  \A i \in DOMAIN layout : LET rows == layout[i].rows IN
    \A j, k \in DOMAIN rows : j # k => rows[j].label.text # rows[k].label.text

\* The labels as the seats will have them.
LabelsDiffer(layout) ==
  LET rows == RowsOf(layout) IN
  \A j, k \in DOMAIN rows : j # k => rows[j].row.label.text # rows[k].row.label.text

\* validate
Valid(layout) ==
  /\ Len(layout) \in 1..MaxSections
  /\ \A i, j \in DOMAIN layout : i # j => layout[i].name # layout[j].name
  /\ \A i \in DOMAIN layout : SectionIsValid(layout[i])
  /\ LabelsDiffer(layout)
  /\ TotalSeats(layout) <= MaxSeats

\* expand, of a valid layout: the planned seats in the order of their rows.
Expand(layout) ==
  LET rows == RowsOf(layout)
      seat(entry, n) == [section |-> entry.section.name, row |-> entry.row.label.text,
                         number |-> n, price |-> entry.section.price]
  IN FlattenSeq([i \in DOMAIN rows |-> [n \in 1..rows[i].row.seats |-> seat(rows[i], n)]])

\* row_index: the labels that are used before each tier, and in all.
RowIndex(tiers) ==
  LET index[i \in 1..(Len(tiers) + 1)] == IF i = 1 THEN 0 ELSE index[i - 1] + tiers[i - 1].rows
  IN index

RowsWanted(tiers) == RowIndex(tiers)[Len(tiers) + 1]

\* from_price_tiers: tier after tier takes the next labels.
FromTiers(tiers, perRow, labels) ==
  [i \in DOMAIN tiers |->
    [name |-> i, price |-> tiers[i].price,
     rows |-> [j \in 1..tiers[i].rows |->
                [label |-> Plain(labels[RowIndex(tiers)[i] + j]), seats |-> perRow, aisles |-> {}]]]]
=============================================================================
