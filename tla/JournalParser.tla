----------------------------- MODULE JournalParser -----------------------------
(*****************************************************************************)
(* lr_accounting/parser.py: how a workbook of a room's journal is read. A    *)
(* cell is [kind, text]: "empty"; "number", whose text is the number; "time" *)
(* for «Время выполнения, мин»; "meta" for the other words of a journal's    *)
(* head and for Comment; "person"; "short" for a text under eight letters;   *)
(* "long" for any other, which always has two words. Rows and columns count  *)
(* from 1.                                                                   *)
(*****************************************************************************)
EXTENDS Naturals, SequencesExt

CONSTANT None

Cell(kind, text) == [kind |-> kind, text |-> text]

(* A loop over rows: what it makes of tx, and the rows that pass a test.     *)
Through(Row(_, _), tx, rows) ==
  LET after[n \in 0..Len(rows)] == IF n = 0 THEN tx ELSE Row(after[n - 1], rows[n])
  IN after[Len(rows)]
Those(rows, Test(_)) ==
  Through(LAMBDA kept, row : IF Test(row) THEN Append(kept, row) ELSE kept, <<>>, rows)

(* looks_like_discipline; what _data_cells counts and what of the row of lab *)
(* works is a title.                                                         *)
LooksLikeDiscipline(cell) == cell.kind = "long"
IsData(cell) == cell.kind \in {"short", "long"}

(* Columns of a row with such a cell, but for those of the numbers and names.*)
ColumnsOf(row, P(_)) == {c \in DOMAIN row : c >= 3 /\ P(row[c])}
DataCells(row) == Cardinality(ColumnsOf(row, IsData))

(* Mutated form of LabRows: the row after the headings only.                 *)
NextRow(rows, d) ==
  {l \in DOMAIN rows : l = d + 1 /\ DataCells(rows[l]) > DataCells(rows[d])}

(* The rows that may hold the lab works of the headings in row d.            *)
LabRows(rows, d) ==
  {l \in DOMAIN rows : l \in {d + 1, d + 2} /\ DataCells(rows[l]) > DataCells(rows[d])}

(* detect_header_layout: <<row of disciplines, row of lab works>>            *)
HeaderLayout(rows) ==
  LET heads == {d \in DOMAIN rows : /\ d <= 6 /\ ColumnsOf(rows[d], LooksLikeDiscipline) # {}
                                    /\ LabRows(rows, d) # {}}
  IN IF heads = {} THEN <<2, 3>> ELSE <<Min(heads), Min(LabRows(rows, Min(heads)))>>

(* discipline_for_column: the nearest heading at the column or left of it    *)
DisciplineFor(row, column) ==
  LET headings == {c \in ColumnsOf(row, LooksLikeDiscipline) : c <= column}
  IN IF headings = {} THEN None ELSE row[Max(headings)].text

(* The last row of times that has one for the column; 0 is no duration.      *)
Duration(rows, column) ==
  LET timed == {i \in DOMAIN rows : /\ Len(rows[i]) >= column /\ rows[i][3].kind = "time"
                                    /\ rows[i][column].kind = "number" /\ rows[i][column].text # 0}
  IN IF column < 4 \/ timed = {} THEN 0 ELSE rows[Max(timed)][column].text

(* One lab work for each title, from left to right.                          *)
ParsedWorks(rows) ==
  LET layout == HeaderLayout(rows)
      titles == rows[layout[2]]
      columns == ColumnsOf(titles, IsData)
      Nth(n) == CHOOSE c \in columns : Cardinality({k \in columns : k <= c}) = n
  IN [i \in 1..DataCells(titles) |->
        [discipline |-> DisciplineFor(rows[layout[1]], Nth(i)), title |-> titles[Nth(i)].text,
         minutes |-> Duration(rows, Nth(i)), stand |-> None]]

(* parse_student_name: two words will do                                     *)
Named(cell) == cell.kind \in {"person", "long"}

(* The number of a student is in the first or second column, the name right  *)
(* of it. A number counts once.                                              *)
NumberColumn(row) == IF row[2].kind = "number" THEN 2 ELSE 1
ParsedStudents(rows) ==
  {rows[i][NumberColumn(rows[i])].text :
     i \in {k \in DOMAIN rows : /\ Len(rows[k]) >= 3
                                /\ rows[k][NumberColumn(rows[k])].kind = "number"
                                /\ Named(rows[k][NumberColumn(rows[k]) + 1])}}

(* parse_group_sheet                                                         *)
ParseGroupSheet(sheet) ==
  IF Len(sheet.rows) < 3 THEN [group |-> sheet.name, works |-> <<>>, students |-> 0]
  ELSE [group |-> sheet.name, works |-> ParsedWorks(sheet.rows),
        students |-> Cardinality(ParsedStudents(sheet.rows))]

(* parse_catalog_sheet: number, stand, discipline, title from the third row  *)
CellText(row, c) == IF Len(row) < c \/ row[c].kind = "empty" THEN None ELSE row[c].text
Titled(row) == CellText(row, 4) # None
ParseCatalog(sheet) ==
  LET body == Those(SubSeq(sheet.rows, 3, Len(sheet.rows)), Titled)
  IN [i \in DOMAIN body |-> [discipline |-> CellText(body[i], 3), title |-> CellText(body[i], 4),
                             minutes |-> 0, stand |-> CellText(body[i], 2)]]

(* parse_workbook: charts and SKIP_SHEETS are left out, and sheets without a *)
(* lab work or a student. book.room is what room_number_for_file finds.      *)
ParseWorkbook(book) ==
  LET OfKind(kind) == Those(book.sheets, LAMBDA sheet : sheet.kind = kind)
      groups == OfKind("group")
      lists == OfKind("catalog")
  IN [room |-> book.room,
      sheets |-> Those([i \in DOMAIN groups |-> ParseGroupSheet(groups[i])],
                       LAMBDA sheet : sheet.works # <<>> \/ sheet.students > 0),
      catalog |-> IF lists = <<>> THEN <<>> ELSE ParseCatalog(Last(lists))]

(* A file whose name tells no room raises before anything is written.        *)
Readable(books) == \A i \in DOMAIN books : books[i].room # None
ParseBooks(books) == [i \in DOMAIN books |-> ParseWorkbook(books[i])]
================================================================================
