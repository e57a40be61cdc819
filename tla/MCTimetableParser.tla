------------------------ MODULE MCTimetableParser ------------------------
(***************************************************************************)
(* Sheets that grow row by row, for TimetableParser: what its operators    *)
(* make of each of them.                                                   *)
(***************************************************************************)
EXTENDS TimetableParser

CONSTANT MaxRows   \* bound: rows of a sheet

VARIABLE sheet

One(token) == <<<<token>>>>
Empty == <<>>

Calculus == <<<<"BS", "CS", "4", "A">>, <<"Calculus">>, <<"DrX", "(8:30-10:00)">>>>
Vision == <<<<"BS", "AI", "M", "1">>, <<"Vision">>, <<"DrY">>>>
Planning == <<<<"MBA", "7">>, <<"Monday", "planning">>, <<"DrZ">>>>
NoTeacher == <<<<"BS", "IT", "1">>, <<"Nets">>, <<"(8:30-10:00)">>>>

RowsMC ==
    {<<One("Monday")>>,
     <<Empty, Empty, Empty, Empty, One("Tuesday")>>,
     <<Empty, One("8:30-10:00"), One("10:00-11:30"), One("11:30-13:00")>>,
     <<One("8:30-10:00"), One("10:00-11:30"), One("11:30-13:00")>>,
     <<One("R1"), Calculus, Empty, Vision>>,
     <<Empty, Vision, NoTeacher>>,
     <<One("R2"), NoTeacher, Calculus, Empty, Empty, Planning>>}

Init == sheet = <<>>

\* No row twice in succession: a bound, too.
AddRow ==
    \E row \in RowsMC :
        /\ Len(sheet) < MaxRows
        /\ sheet # <<>> => Last(sheet) # row
        /\ sheet' = Append(sheet, row)

Spec == Init /\ [][AddRow]_sheet

-----------------------------------------------------------------------------
(* What is there to be found in rows, said without saying how to find it.  *)

Tokens(cell) == UNION {{line[i] : i \in DOMAIN line} : line \in {cell[i] : i \in DOMAIN cell}}
Days == {"Monday", "Tuesday"}

NamesDay(row, day) == \E c \in DOMAIN row : c <= 5 /\ day \in Tokens(row[c])
IsDayRow(row) == \E day \in Days : NamesDay(row, day)

IsSlot(row, c) == c \in DOMAIN row /\ \E slot \in Slots : row[c] = One(slot)
IsHeader(row) ==
    \E c1, c2, c3 \in DOMAIN row :
        1 < c1 /\ c1 < c2 /\ c2 < c3 /\ IsSlot(row, c1) /\ IsSlot(row, c2) /\ IsSlot(row, c3)

\* Row d says the day of row i, and row h its times.
DayOf(rows, d, i) == d < i /\ IsDayRow(rows[d]) /\ \A k \in d + 1 .. i : ~IsDayRow(rows[k])
TimesOf(rows, d, h, i) ==
    /\ d < h /\ h < i /\ h <= d + 3
    /\ IsHeader(rows[h])
    /\ \A k \in d + 1 .. h - 1 : ~IsHeader(rows[k])

\* The places of the classes: <<day row, row of times, row, column>>.
Places(rows) ==
    {p \in (DOMAIN rows) \X (DOMAIN rows) \X (DOMAIN rows) \X (2 .. 6) :
        /\ DayOf(rows, p[1], p[3])
        /\ TimesOf(rows, p[1], p[2], p[3])
        /\ IsSlot(rows[p[2]], p[4])
        /\ rows[p[3]][1] # Empty
        /\ p[4] \in DOMAIN rows[p[3]]
        /\ rows[p[3]][p[4]] \in {Calculus, Vision, Planning}}

\* A class that was read is the one at its place.
Describes(found, rows, p) ==
    LET cell == rows[p[3]][p[4]]
        code == found.class.code
    IN /\ found.at = p
       /\ NamesDay(rows[p[1]], found.day)
       /\ found.room = rows[p[3]][1]
       /\ <<<<found.slot>>>> = rows[p[2]][p[4]]
       /\ found.class.subject = cell[2]
       /\ found.class.teacher = <<Head(cell[3])>>
       /\ code.course \o code.semester \o code.section = cell[1]
       /\ \A i \in DOMAIN code.semester : code.semester[i] \in Digits

\* Days are named in the first cells only.
DaysInFront(rows) ==
    \A i \in DOMAIN rows : \A c \in DOMAIN rows[i] : Tokens(rows[i][c]) \cap Days # {} => c <= 5

-----------------------------------------------------------------------------
(* What is true of every sheet.                                            *)

\* From rows whose cells are whole every class is read once, with its day, its room
\* and its time, and nothing else is read (RuleBasedParserService).
ClassesAreThere ==
    DaysInFront(sheet) =>
        LET parsed == ParseRows(sheet, AutoDetectDividers(sheet))
        IN /\ parsed.teachers = {<<Head(sheet[p[3]][p[4]][3])>> : p \in Places(sheet)}
           /\ Cardinality(parsed.classes) = Cardinality(Places(sheet))
           /\ \A p \in Places(sheet) : \E found \in parsed.classes : Describes(found, sheet, p)

\* detectDaySections has two ways to find the days, with dividers and without: given
\* the dividers that autoDetectDividers finds, both lead to the same classes, as long
\* as no day is named beyond the first cells.
WaysAgree ==
    DaysInFront(sheet) =>
        ParseRows(sheet, AutoDetectDividers(sheet)) = ParseRows(sheet, {})

\* "Rule-based parser extracts classes, teachers, courses from Excel files"
\* (README.md:17): a sheet with classes in it, as processTimetable and
\* generatePreview have it parsed, gives some.
ClassesExtracted ==
    DaysInFront(sheet) /\ Places(sheet) # {} => ParseSheet(sheet, {}).classes # {}
=============================================================================
