-------------------------- MODULE TimetableParser --------------------------
(***************************************************************************)
(* How a sheet becomes classes: TimetableParserService turns it into CSV,  *)
(* the CSV into rows, and finds the rows that name a day;                  *)
(* RuleBasedParserService looks below each for a row of time slots and     *)
(* reads the cells under them.                                             *)
(*                                                                         *)
(* A text is a sequence of tokens, a cell a sequence of lines of text, a   *)
(* row a sequence of cells; an empty cell has no line.  Rows count from 1. *)
(* Where the code collects rows in their order, there is the set of their  *)
(* numbers.  Spaces and the way a time is written do not matter, letter    *)
(* case neither; the texts of a sheet have no comma and no quote in them.  *)
(***************************************************************************)
EXTENDS Integers, Sequences, FiniteSetsExt, SequencesExt

DayLabels == <<"Monday", "Tuesday">>   \* of the seven, in their order
Slots == {"8:30-10:00", "10:00-11:30", "11:30-13:00"}
TimeReferences == {"(8:30-10:00)"}
Digits == {"1", "4", "7"}
Comma == ","

\* COURSE_PREFIXES, by the pieces their names share, in the order of the code.
CoursePrefixes ==
    <<<<"BS", "CS">>, <<"BS", "IT">>, <<"BS", "AI">>, <<"BS", "CySec">>,
      <<"BS", "BioInformatics">>, <<"BS", "DS">>, <<"BS", "RS&GIS">>, <<"BS", "SE">>,
      <<"BS">>, <<"BS", "AI", "M">>>>

NoText == <<>>
DayCells == 5      \* cells in which extractDayName looks
HeaderReach == 3   \* rows below a day in which its time slots are looked for
HeaderSlots == 3   \* time slots that make a row of time slots

-----------------------------------------------------------------------------
(* TimetableParserService                                                  *)

TextOf(cell) == FlattenSeq(cell)
\* The days a cell names, by their place among the labels.
Naming(cell) ==
    {k \in DOMAIN DayLabels : \E i \in DOMAIN cell : \E j \in DOMAIN cell[i] : cell[i][j] = DayLabels[k]}

\* What parseTimetableFromCSV has read so far: rows of cells, and whether the
\* last row is inside quotes.
Read(rows, quoted) == [rows |-> rows, quoted |-> quoted]

\* A comma ends the last cell of the last row, unless it is inside quotes; then
\* it and the text that follows belong to that cell.
NextCell(read, text) ==
    LET row == Last(read.rows)
        grown == IF read.quoted
                 THEN Front(row) \o <<<<TextOf(Last(row)) \o <<Comma>> \o text>>>>
                 ELSE Append(row, IF text = NoText THEN <<>> ELSE <<text>>)
    IN Front(read.rows) \o <<grown>>

\* A cell of several lines is in quotes in the CSV.  Its line breaks split the
\* CSV before the quotes are looked at: each line but the first begins a row,
\* outside quotes, and the closing quote of the last opens.
ReadCell(read, cell) ==
    IF Len(cell) <= 1 THEN Read(NextCell(read, TextOf(cell)), read.quoted)
    ELSE Read(NextCell(read, Head(cell)) \o [i \in 1 .. Len(cell) - 1 |-> <<<<cell[i + 1]>>>>],
              TRUE)

\* excelToCsv, and the rows parseTimetableFromCSV makes of it.
CsvRow(row) == FoldLeft(ReadCell, Read(<<<<>>>>, FALSE), row).rows
CsvRows(sheet) == FlattenSeq([i \in DOMAIN sheet |-> CsvRow(sheet[i])])

\* autoDetectDividers: every row that names a day anywhere.
AutoDetectDividers(rows) ==
    {i \in DOMAIN rows : \E c \in DOMAIN rows[i] : Naming(rows[i][c]) # {}}

-----------------------------------------------------------------------------
(* RuleBasedParserService: where a day begins and ends                     *)

NoCell == <<>>

Cell(rows, i, c) == IF i \in DOMAIN rows /\ c \in DOMAIN rows[i] THEN rows[i][c] ELSE NoCell

None == "none"

\* extractDayName: of the first cell that names a day, the first day it names.
ExtractDayName(rows, i) ==
    LET naming == {c \in 1 .. DayCells : Naming(Cell(rows, i, c)) # {}}
    IN IF naming = {} THEN None ELSE DayLabels[Min(Naming(Cell(rows, i, Min(naming))))]

SlotAt(rows, i, c) ==
    LET cell == Cell(rows, i, c)
    IN IF Len(cell) = 1 /\ Len(cell[1]) = 1 /\ cell[1][1] \in Slots THEN cell[1][1] ELSE None

\* Mutant: the first column counts as well.
HeadersWithRoom(rows, start, end) ==
    {i \in start + 1 .. Min({start + HeaderReach, end}) :
        Cardinality({c \in DOMAIN rows[i] : SlotAt(rows, i, c) # None}) >= HeaderSlots}

Headers(rows, start, end) ==
    {i \in start + 1 .. Min({start + HeaderReach, end, Len(rows)}) :
        Cardinality({c \in DOMAIN rows[i] \ {1} : SlotAt(rows, i, c) # None}) >= HeaderSlots}

\* findTimeSlotHeaderRow, 0 for none.
FindTimeSlotHeaderRow(rows, start, end) ==
    IF Headers(rows, start, end) = {} THEN 0 ELSE Min(Headers(rows, start, end))

\* The rows between that name no day.
DataRows(rows, header, end) == {i \in header + 1 .. end : ExtractDayName(rows, i) = None}

Section(rows, start, header, end) ==
    [dayName |-> ExtractDayName(rows, start), startRow |-> start, headerRow |-> header,
     dataRows |-> DataRows(rows, header, end)]

\* What begins at a row ends before the next of starts.
EndOf(rows, starts, i) ==
    LET after == {j \in starts : i < j}
    IN IF after = {} THEN Len(rows) ELSE Min(after) - 1

\* The rows are split at the dividers, sorted (one given twice splits off nothing); a
\* part that does not begin with a day, or has no time slots, is left out.
SectionsByDividers(rows, dividers) ==
    LET Header(i) == FindTimeSlotHeaderRow(rows, i, EndOf(rows, dividers, i))
        Begins(i) == i \in DOMAIN rows /\ ExtractDayName(rows, i) # None /\ Header(i) # 0
    IN {Section(rows, i, Header(i), EndOf(rows, dividers, i)) : i \in {j \in dividers : Begins(j)}}

DayRows(rows) == {i \in DOMAIN rows : ExtractDayName(rows, i) # None}

\* Mutant: the last day is not saved.
SectionsByDaysButLast(rows) ==
    LET Header(i) == FindTimeSlotHeaderRow(rows, i, Len(rows))
        End(i) == EndOf(rows, DayRows(rows), i)
        Full(i) == /\ \E j \in DayRows(rows) : i < j
                   /\ Header(i) # 0
                   /\ DataRows(rows, Header(i), End(i)) # {}
    IN {Section(rows, i, Header(i), End(i)) : i \in {j \in DayRows(rows) : Full(j)}}

\* Each row that names a day ends the one before; the time slots may be looked for
\* beyond that, but then there is nothing between.
SectionsByDays(rows) ==
    LET Header(i) == FindTimeSlotHeaderRow(rows, i, Len(rows))
        End(i) == EndOf(rows, DayRows(rows), i)
        Full(i) == Header(i) # 0 /\ DataRows(rows, Header(i), End(i)) # {}
    IN {Section(rows, i, Header(i), End(i)) : i \in {j \in DayRows(rows) : Full(j)}}

DetectDaySections(rows, dividers) ==
    IF dividers # {} THEN SectionsByDividers(rows, dividers) ELSE SectionsByDays(rows)

-----------------------------------------------------------------------------
(* RuleBasedParserService: what is in a cell                               *)

\* parseClassCode: the first prefix that fits, then the digits, then the rest; the
\* first piece stands for the four characters taken when none fits.
ParseClassCode(code) ==
    LET fitting == {p \in DOMAIN CoursePrefixes : IsPrefix(CoursePrefixes[p], code)}
        course == IF fitting = {} THEN <<Head(code)>> ELSE CoursePrefixes[Min(fitting)]
        rest == SubSeq(code, Len(course) + 1, Len(code))
        after == {i \in 1 .. Len(rest) : rest[i] \notin Digits}
        digits == IF fitting = {} THEN 0
                  ELSE IF after = {} THEN Len(rest) ELSE Min(after) - 1
    IN [course |-> course, semester |-> SubSeq(rest, 1, digits),
        section |-> SubSeq(rest, digits + 1, Len(rest))]

WithoutTimes(text) ==
    LET upTo[i \in 0 .. Len(text)] ==
            IF i = 0 THEN NoText
            ELSE IF text[i] \in TimeReferences THEN upTo[i - 1]
            ELSE Append(upTo[i - 1], text[i])
    IN upTo[Len(text)]

\* parseCellContent does not give null: code, subject and teacher are there.
IsClass(cell) == Len(cell) >= 3 /\ WithoutTimes(cell[3]) # NoText

ParseCellContent(cell) ==
    [code |-> ParseClassCode(cell[1]), subject |-> cell[2], teacher |-> WithoutTimes(cell[3])]

\* parseDaySection: in the rows with a room, the cells under the time slots.  "at" is
\* where a class was found, by its day, its times, its row and its column, and so the
\* order of the list.
ParseDaySection(rows, section) ==
    LET Filled(i) ==
            {c \in DOMAIN rows[i] \ {1} :
                SlotAt(rows, section.headerRow, c) # None /\ IsClass(rows[i][c])}
        Class(i, c) ==
            [at |-> <<section.startRow, section.headerRow, i, c>>,
             day |-> section.dayName, room |-> Cell(rows, i, 1),
             slot |-> SlotAt(rows, section.headerRow, c), class |-> ParseCellContent(rows[i][c])]
        withRoom == {i \in section.dataRows : Cell(rows, i, 1) # NoCell}
    IN UNION {{Class(i, c) : c \in Filled(i)} : i \in withRoom}

\* buildParsedTimetable: what is absent is in no list.
BuildParsedTimetable(classes) ==
    [classes |-> classes,
     courses |-> {found.class.code.course : found \in classes} \ {NoText},
     semesters |-> {found.class.code.semester : found \in classes} \ {NoText},
     sections |-> {found.class.code.section : found \in classes} \ {NoText},
     teachers |-> {found.class.teacher : found \in classes} \ {NoText}]

\* parseTimetableFromCSV
ParseRows(rows, dividers) ==
    BuildParsedTimetable(
        UNION {ParseDaySection(rows, section) : section \in DetectDaySections(rows, dividers)})

\* What processTimetable and generatePreview get for a sheet and the dividers the
\* client gave, if any.
ParseSheet(sheet, dividers) ==
    LET rows == CsvRows(sheet)
    IN ParseRows(rows, IF dividers = {} THEN AutoDetectDividers(rows) ELSE dividers)
=============================================================================
