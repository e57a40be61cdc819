------------------------- MODULE TimetableParserProofs -------------------------
(***************************************************************************)
(* What the run checks of the parser, for sheets of any length.            *)
(***************************************************************************)
EXTENDS MCTimetableParser, FiniteSetTheorems, SequenceTheorems, WellFoundedInduction, TLAPS

\* Cells and rows of any tokens.
CellType(Token) == Seq(Seq(Token))
Rows(Token) == Seq(Seq(CellType(Token)))

-----------------------------------------------------------------------------
(* Numbers.                                                                *)

\* A set of numbers with something in it has a least one.
LEMMA MinIsLeast ==
    ASSUME NEW S \in SUBSET Nat, S # {}
    PROVE  /\ Min(S) \in S
           /\ \A y \in S : Min(S) <= y
<1> DEFINE R == {ss \in Nat \X Nat : ss[1] < ss[2]}
<1>1. IsWellFoundedOn(R, Nat)
  BY NatLessThanWellFounded DEF OpToRel
<1>2. PICK x \in S : \A y \in S : ~ (<<y, x>> \in R)
  <2> HIDE DEF R
  <2>1. QED
    BY <1>1, WFMin
<1>3. ASSUME NEW y \in S, ~ (x <= y) PROVE FALSE
  <2>1. <<y, x>> \in R
    BY <1>3
  <2>2. QED
    BY <1>2, <2>1
<1>4. QED
  BY <1>3 DEF Min

\* What begins at a row of starts has no other of them in it, and goes up to the next.
LEMMA EndsBeforeNext ==
    ASSUME NEW Token, NEW rows \in Rows(Token), NEW starts \in SUBSET DOMAIN rows, NEW i \in starts,
           NEW end, end = EndOf(rows, starts, i)
    PROVE  /\ end \in i .. Len(rows)
           /\ \A k \in i + 1 .. end : k \notin starts
           /\ end < Len(rows) => end + 1 \in starts
<1> DEFINE after == {j \in starts : i < j}
<1>1. Len(rows) \in Nat /\ DOMAIN rows = 1 .. Len(rows)
  BY DEF Rows
<1>2. CASE after = {}
  <2>1. end = Len(rows)
    BY <1>2 DEF EndOf
  <2>2. QED
    BY <1>1, <1>2, <2>1
<1>3. CASE after # {}
  <2>1. end = Min(after) - 1
    BY <1>3 DEF EndOf
  <2>2. PICK next \in after : next = Min(after) /\ \A y \in after : next <= y
    <3>1. after \in SUBSET Nat
      BY <1>1
    <3> HIDE DEF after
    <3>2. QED
      BY <1>3, <3>1, MinIsLeast
  <2>3. end = next - 1 /\ next \in 1 .. Len(rows) /\ i < next /\ next \in starts /\ i \in 1 .. Len(rows)
    BY <1>1, <2>1, <2>2
  <2>4. ASSUME NEW k \in i + 1 .. end, k \in starts PROVE FALSE
    <3>1. k \in after
      BY <1>1, <2>3, <2>4
    <3>2. next <= k /\ k \in Int
      BY <2>2, <3>1
    <3>3. QED
      BY <2>3, <2>4, <3>2
  <2>5. QED
    BY <1>1, <2>3, <2>4
<1>4. QED
  BY <1>2, <1>3

-----------------------------------------------------------------------------
(* Days and times.                                                         *)

\* A row of time slots.
HasTimes(rows, i) ==
    Cardinality({c \in DOMAIN rows[i] \ {1} : SlotAt(rows, i, c) # None}) >= HeaderSlots

\* The time slots of a day are in the first row of time slots below it, if near enough.
LEMMA HeaderIsFirst ==
    ASSUME NEW Token, NEW rows \in Rows(Token), NEW d \in DOMAIN rows, NEW end \in d .. Len(rows),
           NEW h, h = FindTimeSlotHeaderRow(rows, d, end)
    PROVE  /\ h # 0 => /\ h \in d + 1 .. end
                       /\ h <= d + HeaderReach
                       /\ HasTimes(rows, h)
                       /\ \A k \in d + 1 .. h - 1 : ~ HasTimes(rows, k)
           /\ \A k \in d + 1 .. end :
                 k <= d + HeaderReach /\ HasTimes(rows, k) => h # 0 /\ h <= k
<1> DEFINE reach == {d + HeaderReach, end, Len(rows)}
           headers == Headers(rows, d, end)
<1>1. Len(rows) \in Nat /\ d \in Nat /\ d > 0 /\ end \in Nat /\ end <= Len(rows)
  BY DEF Rows
<1>2. Min(reach) \in reach /\ \A y \in reach : Min(reach) <= y
  <2>1. reach \in SUBSET Nat /\ reach # {}
    BY <1>1 DEF HeaderReach
  <2>2. QED
    BY <2>1, MinIsLeast
<1>3. headers = {k \in d + 1 .. end : k <= d + HeaderReach /\ HasTimes(rows, k)}
  <2>1. \A k \in Int : k \in d + 1 .. Min(reach) <=> k \in d + 1 .. end /\ k <= d + HeaderReach
    BY <1>1, <1>2 DEF HeaderReach
  <2>2. headers = {k \in d + 1 .. Min(reach) : HasTimes(rows, k)}
    BY DEF Headers, HasTimes
  <2> HIDE DEF headers, reach
  <2>3. QED
    BY <2>1, <2>2, <1>1, <1>2
<1> HIDE DEF headers
<1>4. CASE headers = {}
  BY <1>1, <1>3, <1>4 DEF FindTimeSlotHeaderRow, headers
<1>5. CASE headers # {}
  <2>1. h = Min(headers)
    BY <1>5 DEF FindTimeSlotHeaderRow, headers
  <2>2. headers \in SUBSET Nat
    BY <1>1, <1>3
  <2>3. h \in headers /\ \A k \in headers : h <= k
    BY <1>5, <2>1, <2>2, MinIsLeast
  <2>4. QED
    BY <1>1, <1>3, <2>2, <2>3 DEF HeaderReach
<1>6. QED
  BY <1>4, <1>5

\* The days of a cell are numbers.
LEMMA NamingIsType ==
    \A cell : Naming(cell) \in SUBSET (Nat \cap DOMAIN DayLabels)
BY DEF Naming, DayLabels

LEMMA NoDayInNoCell == Naming(NoCell) = {}
BY DEF Naming, NoCell

LEMMA LabelsAreDays == \A k \in DOMAIN DayLabels : DayLabels[k] \in Days /\ DayLabels[k] # None
BY DEF DayLabels, Days, None

\* A row that names a day has it in its first cells; extractDayName takes one of those.
LEMMA DayIsNamed ==
    ASSUME NEW Token, NEW rows \in Rows(Token), NEW i \in DOMAIN rows, ExtractDayName(rows, i) # None
    PROVE  \E c \in DOMAIN rows[i] :
              /\ c <= DayCells
              /\ \E k \in Naming(rows[i][c]) : ExtractDayName(rows, i) = DayLabels[k]
<1> DEFINE naming == {c \in 1 .. DayCells : Naming(Cell(rows, i, c)) # {}}
           c == Min(naming)
<1>1. naming # {}
  BY DEF ExtractDayName
<1>2. c \in naming
  <2>1. naming \in SUBSET Nat
    BY DEF DayCells
  <2>2. QED
    BY <1>1, <2>1, MinIsLeast
<1>3. Cell(rows, i, c) = rows[i][c] /\ c \in DOMAIN rows[i]
  <2>1. Naming(Cell(rows, i, c)) # {}
    BY <1>2
  <2> HIDE DEF c, naming
  <2>2. Cell(rows, i, c) # NoCell
    BY <2>1, NoDayInNoCell
  <2>3. QED
    BY <2>2 DEF Cell
<1>4. Min(Naming(rows[i][c])) \in Naming(rows[i][c])
  <2>1. Naming(rows[i][c]) \in SUBSET Nat /\ Naming(rows[i][c]) # {}
    BY <1>2, <1>3, NamingIsType
  <2>2. QED
    BY <2>1, MinIsLeast
<1>5. ExtractDayName(rows, i) = DayLabels[Min(Naming(rows[i][c]))]
  BY <1>1, <1>3 DEF ExtractDayName
<1>6. c \in DOMAIN rows[i] /\ c <= DayCells
  BY <1>2, <1>3 DEF DayCells
<1> HIDE DEF c
<1>7. QED
  BY <1>4, <1>5, <1>6

\* extractDayName finds none only where the first cells name none.
LEMMA NoneIsNamed ==
    ASSUME NEW Token, NEW rows \in Rows(Token), NEW i \in DOMAIN rows
    PROVE  ExtractDayName(rows, i) = None <=>
              \A c \in DOMAIN rows[i] : c <= DayCells => Naming(rows[i][c]) = {}
<1>1. ASSUME ExtractDayName(rows, i) = None, NEW c \in DOMAIN rows[i], c <= DayCells
      PROVE  Naming(rows[i][c]) = {}
  <2> DEFINE naming == {e \in 1 .. DayCells : Naming(Cell(rows, i, e)) # {}}
             n == Min(naming)
  <2>1. c \in 1 .. DayCells /\ Cell(rows, i, c) = rows[i][c]
    BY <1>1 DEF Cell, DayCells, Rows
  <2>2. SUFFICES ASSUME naming # {} PROVE FALSE
    BY <2>1
  <2>3. n \in naming
    <3>1. naming \in SUBSET Nat
      BY DEF DayCells
    <3>2. QED
      BY <2>2, <3>1, MinIsLeast
  <2>4. Min(Naming(Cell(rows, i, n))) \in Naming(Cell(rows, i, n))
    <3>1. Naming(Cell(rows, i, n)) \in SUBSET Nat /\ Naming(Cell(rows, i, n)) # {}
      BY <2>3, NamingIsType
    <3>2. QED
      BY <3>1, MinIsLeast
  <2>5. DayLabels[Min(Naming(Cell(rows, i, n)))] # None
    BY <2>4, NamingIsType, LabelsAreDays
  <2>6. QED
    BY <1>1, <2>2, <2>5 DEF ExtractDayName
<1>2. ASSUME \A c \in DOMAIN rows[i] : c <= DayCells => Naming(rows[i][c]) = {}
      PROVE  ExtractDayName(rows, i) = None
  <2>1. \A c \in 1 .. DayCells : Naming(Cell(rows, i, c)) = {}
    BY <1>2 DEF Cell, NoCell, Naming, DayCells
  <2>2. QED
    BY <2>1 DEF ExtractDayName
<1>3. QED
  BY <1>1, <1>2

\* A cell names a day where the reference finds one.
LEMMA NamingIsTokens ==
    ASSUME NEW Token, NEW cell \in CellType(Token)
    PROVE  /\ Naming(cell) # {} <=> Tokens(cell) \cap Days # {}
           /\ \A k \in Naming(cell) : DayLabels[k] \in Tokens(cell) \cap Days
<1>1. \A t : t \in Tokens(cell) <=> \E i \in DOMAIN cell : \E j \in DOMAIN cell[i] : cell[i][j] = t
  BY DEF Tokens
<1>2. \A k \in DOMAIN DayLabels : DayLabels[k] \in Days
  BY DEF DayLabels, Days
<1>3. \A day \in Days : \E k \in DOMAIN DayLabels : DayLabels[k] = day
  <2>1. DayLabels[1] = "Monday" /\ DayLabels[2] = "Tuesday" /\ DOMAIN DayLabels = {1, 2}
    BY DEF DayLabels
  <2>2. QED
    BY <2>1 DEF Days
<1>4. QED
  BY <1>1, <1>2, <1>3 DEF Naming

\* Where no day is named beyond the first cells, autoDetectDividers and extractDayName
\* see the same days.
LEMMA DividersAreDays ==
    ASSUME NEW Token, NEW rows \in Rows(Token), DaysInFront(rows)
    PROVE  AutoDetectDividers(rows) = DayRows(rows)
<1>1. \A i \in DOMAIN rows : \A c \in DOMAIN rows[i] :
         /\ rows[i][c] \in CellType(Token)
         /\ Naming(rows[i][c]) # {} => c <= DayCells
  <2>1. ASSUME NEW i \in DOMAIN rows, NEW c \in DOMAIN rows[i] PROVE rows[i][c] \in CellType(Token)
    BY DEF Rows
  <2>2. QED
    BY <2>1, NamingIsTokens DEF DaysInFront, DayCells
<1>2. \A i \in DOMAIN rows :
         ExtractDayName(rows, i) # None <=> \E c \in DOMAIN rows[i] : Naming(rows[i][c]) # {}
  BY <1>1, NoneIsNamed
<1>3. QED
  BY <1>2 DEF AutoDetectDividers, DayRows

-----------------------------------------------------------------------------
(* The two ways to find the days.                                          *)

\* What a day's header is, looked for up to the end of the day or of the sheet.
LEMMA HeadersAgree ==
    ASSUME NEW Token, NEW rows \in Rows(Token), NEW d \in DOMAIN rows, NEW end \in d .. Len(rows),
           NEW near, near = FindTimeSlotHeaderRow(rows, d, end),
           NEW far, far = FindTimeSlotHeaderRow(rows, d, Len(rows))
    PROVE  /\ near # 0 => far = near
           /\ near = 0 => far = 0 \/ far > end
<1>1. Len(rows) \in Nat /\ d \in 1 .. Len(rows) /\ Len(rows) \in d .. Len(rows)
  BY DEF Rows
<1>2. near # 0 => far # 0 /\ far <= near
  BY <1>1, HeaderIsFirst
<1>3. far # 0 /\ far <= end => near # 0 /\ near <= far
  BY <1>1, HeaderIsFirst
<1>4. near # 0 => near \in 1 .. end
  BY <1>1, HeaderIsFirst
<1>5. far # 0 => far \in 1 .. Len(rows)
  BY <1>1, HeaderIsFirst
<1>6. QED
  BY <1>1, <1>2, <1>3, <1>4, <1>5

\* With the days as dividers there are the parts that are found without, and others
\* have no row.
LEMMA SectionsAgree ==
    ASSUME NEW Token, NEW rows \in Rows(Token)
    PROVE  /\ SectionsByDays(rows) \subseteq SectionsByDividers(rows, DayRows(rows))
           /\ \A s \in SectionsByDividers(rows, DayRows(rows)) :
                 s \in SectionsByDays(rows) \/ s.dataRows = {}
<1> DEFINE End(i) == EndOf(rows, DayRows(rows), i)
           Near(i) == FindTimeSlotHeaderRow(rows, i, End(i))
           Far(i) == FindTimeSlotHeaderRow(rows, i, Len(rows))
           Data(i) == DataRows(rows, Far(i), End(i))
           Part(i) == Section(rows, i, Far(i), End(i))
<1>1. DayRows(rows) \in SUBSET DOMAIN rows
  BY DEF DayRows
<1>2. \A i \in DayRows(rows) : End(i) \in i .. Len(rows)
  BY <1>1, EndsBeforeNext
<1>3. \A i \in DayRows(rows) : /\ Near(i) # 0 => Far(i) = Near(i)
                               /\ Near(i) = 0 => Far(i) = 0 \/ Far(i) > End(i)
  BY <1>1, <1>2, HeadersAgree
<1>4. \A i \in DayRows(rows) : Near(i) = 0 /\ Far(i) # 0 => Data(i) = {}
  <2>1. SUFFICES ASSUME NEW i \in DayRows(rows), Near(i) = 0, Far(i) # 0 PROVE Data(i) = {}
    OBVIOUS
  <2>2. Far(i) > End(i) /\ Far(i) \in Int /\ End(i) \in Int
    <3>1. Len(rows) \in Nat /\ i \in 1 .. Len(rows) /\ Len(rows) \in i .. Len(rows)
      BY <1>1 DEF Rows
    <3>2. Far(i) \in i + 1 .. Len(rows)
      BY <2>1, <3>1, <1>1, HeaderIsFirst
    <3>3. QED
      BY <1>2, <1>3, <2>1, <3>1, <3>2
  <2> HIDE DEF Far, End
  <2>3. QED
    BY <2>2 DEF DataRows
<1>5. SectionsByDividers(rows, DayRows(rows)) =
         {Section(rows, i, Near(i), End(i)) : i \in {j \in DayRows(rows) : Near(j) # 0}}
  BY <1>1 DEF SectionsByDividers, DayRows
<1>6. SectionsByDays(rows) = {Part(i) : i \in {j \in DayRows(rows) : Far(j) # 0 /\ Data(j) # {}}}
  BY DEF SectionsByDays
<1>7. \A i \in DayRows(rows) : Part(i).dataRows = Data(i)
  BY DEF Section
<1> HIDE DEF End, Near, Far, Data
<1>8. SectionsByDividers(rows, DayRows(rows)) =
         {Part(i) : i \in {j \in DayRows(rows) : Near(j) # 0}}
  BY <1>3, <1>5
<1> HIDE DEF Part
<1>9. QED
  BY <1>3, <1>4, <1>6, <1>7, <1>8

\* What is read from the rows with the days as dividers is what is read without.
LEMMA WaysAgreeOn ==
    ASSUME NEW Token, NEW rows \in Rows(Token), DaysInFront(rows)
    PROVE  ParseRows(rows, AutoDetectDividers(rows)) = ParseRows(rows, {})
<1> DEFINE Classes(sections) == UNION {ParseDaySection(rows, section) : section \in sections}
<1>1. AutoDetectDividers(rows) = DayRows(rows)
  BY DividersAreDays
<1>2. CASE DayRows(rows) = {}
  BY <1>1, <1>2
<1>3. CASE DayRows(rows) # {}
  <2>1. DetectDaySections(rows, DayRows(rows)) = SectionsByDividers(rows, DayRows(rows))
    BY <1>3 DEF DetectDaySections
  <2>2. DetectDaySections(rows, {}) = SectionsByDays(rows)
    BY DEF DetectDaySections
  <2>3. \A section : section.dataRows = {} => ParseDaySection(rows, section) = {}
    BY DEF ParseDaySection
  <2>4. Classes(SectionsByDividers(rows, DayRows(rows))) = Classes(SectionsByDays(rows))
    BY <2>3, SectionsAgree
  <2>5. QED
    BY <1>1, <2>1, <2>2, <2>4 DEF ParseRows
<1>4. QED
  BY <1>2, <1>3

-----------------------------------------------------------------------------
(* What is in a cell.                                                      *)

\* A sequence is what is before a place in it and what is after.
LEMMA Splits ==
    ASSUME NEW S, NEW s \in Seq(S), NEW k \in 0 .. Len(s)
    PROVE  /\ SubSeq(s, 1, k) \in Seq(S) /\ SubSeq(s, k + 1, Len(s)) \in Seq(S)
           /\ Len(SubSeq(s, 1, k)) = k
           /\ Len(SubSeq(s, k + 1, Len(s))) = Len(s) - k
           /\ \A i \in 1 .. k : SubSeq(s, 1, k)[i] = s[i]
           /\ SubSeq(s, 1, k) \o SubSeq(s, k + 1, Len(s)) = s
<1> DEFINE n == Len(s)
<1>1. n \in Nat /\ k \in Nat /\ k <= n /\ \A i \in 1 .. n : s[i] \in S
  OBVIOUS
<1>2. SubSeq(s, 1, n) = s
  BY SubSeqFull
<1> HIDE DEF n
<1>3. \A i \in 1 .. k : s[i] \in S
  BY <1>1
<1>4. \A i \in k + 1 .. n : s[i] \in S
  BY <1>1
<1>5. /\ SubSeq(s, 1, k) \in Seq(S)
      /\ Len(SubSeq(s, 1, k)) = IF 1 <= k THEN k - 1 + 1 ELSE 0
      /\ \A i \in 1 .. k - 1 + 1 : SubSeq(s, 1, k)[i] = s[1 + i - 1]
  BY <1>1, <1>3, SubSeqProperties
<1>6. /\ SubSeq(s, k + 1, n) \in Seq(S)
      /\ Len(SubSeq(s, k + 1, n)) = IF k + 1 <= n THEN n - (k + 1) + 1 ELSE 0
  BY <1>1, <1>4, SubSeqProperties
<1>7. SubSeq(s, 1, k) \o SubSeq(s, k + 1, n) = SubSeq(s, 1, n)
  <2>1. 1 \in 1 .. n + 1 /\ k \in 1 - 1 .. n /\ n \in k .. n
    BY <1>1
  <2>2. QED
    BY <2>1, ConcatAdjacentSubSeq DEF n
<1>8. \A i \in 1 .. k : SubSeq(s, 1, k)[i] = s[i]
  BY <1>1, <1>5
<1>9. Len(SubSeq(s, 1, k)) = k /\ Len(SubSeq(s, k + 1, n)) = n - k
  BY <1>1, <1>5, <1>6
<1>10. SubSeq(s, 1, k) \o SubSeq(s, k + 1, n) = s
  BY <1>2, <1>7
<1>11. QED
  BY <1>5, <1>6, <1>8, <1>9, <1>10 DEF n

\* A sequence that is not empty begins with its head.
LEMMA BeginsWithHead ==
    ASSUME NEW S, NEW s \in Seq(S), s # <<>>
    PROVE  Len(s) \in Nat /\ Len(s) > 0 /\ SubSeq(s, 1, 1) = <<Head(s)>>
<1>1. Len(s) \in Nat /\ Len(s) > 0 /\ Head(s) = s[1] /\ \A i \in 1 .. 1 : s[i] \in S
  OBVIOUS
<1>2. /\ SubSeq(s, 1, 1) \in Seq(S)
      /\ Len(SubSeq(s, 1, 1)) = IF 1 <= 1 THEN 1 - 1 + 1 ELSE 0
      /\ \A i \in 1 .. 1 - 1 + 1 : SubSeq(s, 1, 1)[i] = s[1 + i - 1]
  BY <1>1, SubSeqProperties
<1>3. SubSeq(s, 1, 1)[1] = Head(s) /\ Len(SubSeq(s, 1, 1)) = 1
  BY <1>1, <1>2
<1>4. QED
  <2>1. Len(<<Head(s)>>) = 1 /\ <<Head(s)>>[1] = Head(s) /\ <<Head(s)>> \in Seq(S)
    BY <1>1
  <2>2. \A i \in 1 .. 1 : SubSeq(s, 1, 1)[i] = <<Head(s)>>[i]
    BY <1>3, <2>1
  <2>3. SubSeq(s, 1, 1) = <<Head(s)>>
    BY <1>2, <1>3, <2>1, <2>2, SeqEqual
  <2>4. QED
    BY <1>1, <2>3

\* The known prefixes are texts.
Pieces == UNION {{CoursePrefixes[p][i] : i \in DOMAIN CoursePrefixes[p]} : p \in DOMAIN CoursePrefixes}

LEMMA PrefixesAreTexts ==
    \A p \in DOMAIN CoursePrefixes : CoursePrefixes[p] \in Seq(Pieces)
<1>1. DOMAIN CoursePrefixes = 1 .. 10
  BY DEF CoursePrefixes
<1>2. \A p \in 1 .. 10 : /\ Len(CoursePrefixes[p]) \in Nat
                         /\ DOMAIN CoursePrefixes[p] = 1 .. Len(CoursePrefixes[p])
                         /\ CoursePrefixes[p] = [i \in 1 .. Len(CoursePrefixes[p]) |-> CoursePrefixes[p][i]]
  BY DEF CoursePrefixes
<1>3. ASSUME NEW p \in 1 .. 10 PROVE CoursePrefixes[p] \in Seq(Pieces)
  <2>1. \A i \in DOMAIN CoursePrefixes[p] : CoursePrefixes[p][i] \in Pieces
    BY <1>1 DEF Pieces
  <2>2. QED
    <3>1. CoursePrefixes[p] \in [1 .. Len(CoursePrefixes[p]) -> Pieces]
      BY <1>2, <2>1
    <3>2. Len(CoursePrefixes[p]) \in Nat
      BY <1>2
    <3>3. QED
      BY <3>1, <3>2
<1>4. QED
  BY <1>1, <1>3

\* The parts of a class code are, one after the other, the code.
LEMMA CodeIsWhole ==
    ASSUME NEW Token, NEW code \in Seq(Token), code # <<>>, NEW parsed, parsed = ParseClassCode(code)
    PROVE  /\ parsed.course \o parsed.semester \o parsed.section = code
           /\ \A i \in DOMAIN parsed.semester : parsed.semester[i] \in Digits
<1> DEFINE fitting == {p \in DOMAIN CoursePrefixes : IsPrefix(CoursePrefixes[p], code)}
           course == IF fitting = {} THEN <<Head(code)>> ELSE CoursePrefixes[Min(fitting)]
           rest == SubSeq(code, Len(course) + 1, Len(code))
           after == {i \in 1 .. Len(rest) : rest[i] \notin Digits}
           digits == IF fitting = {} THEN 0
                     ELSE IF after = {} THEN Len(rest) ELSE Min(after) - 1
<1>1. PICK semester, section :
         /\ semester = SubSeq(rest, 1, digits)
         /\ section = SubSeq(rest, digits + 1, Len(rest))
         /\ parsed = [course |-> course, semester |-> semester, section |-> section]
  BY DEF ParseClassCode
<1>2. parsed.course = course /\ parsed.semester = semester /\ parsed.section = section
  <2> HIDE DEF course, rest, digits
  <2>1. parsed = [course |-> course, semester |-> semester, section |-> section]
    BY <1>1
  <2>2. QED
    BY <2>1
<1>3. Len(code) \in Nat /\ Len(code) > 0
  OBVIOUS
<1>4. Len(course) \in 0 .. Len(code) /\ course = SubSeq(code, 1, Len(course))
  <2>1. CASE fitting = {}
    <3>1. course = <<Head(code)>>
      BY <2>1
    <3> HIDE DEF course
    <3>2. Len(course) = 1
      BY <3>1
    <3>3. SubSeq(code, 1, 1) = <<Head(code)>>
      BY <1>3, BeginsWithHead
    <3>4. QED
      BY <1>3, <3>1, <3>2, <3>3
  <2>2. CASE fitting # {}
    <3>1. Min(fitting) \in fitting
      <4>1. fitting \in SUBSET Nat
        BY DEF CoursePrefixes
      <4> HIDE DEF fitting
      <4>2. QED
        BY <2>2, <4>1, MinIsLeast
    <3>2. course = CoursePrefixes[Min(fitting)]
      BY <2>2
    <3>3. course \in Seq(Pieces)
      BY <3>1, <3>2, PrefixesAreTexts
    <3>4. IsPrefix(course, code)
      BY <3>1, <3>2
    <3> HIDE DEF course
    <3>5. course = SubSeq(course, 1, Len(course))
      BY <3>3, SubSeqFull
    <3>6. QED
      BY <1>3, <3>3, <3>4, <3>5 DEF IsPrefix
  <2>3. QED
    BY <2>1, <2>2
<1> HIDE DEF course
<1>5. rest \in Seq(Token) /\ course \in Seq(Token) /\ course \o rest = code
  BY <1>3, <1>4, Splits
<1> HIDE DEF rest
<1>6. /\ digits \in 0 .. Len(rest)
      /\ \A i \in 1 .. digits : rest[i] \in Digits
  <2>1. Len(rest) \in Nat
    BY <1>5
  <2>2. CASE fitting = {} \/ after = {}
    BY <2>1, <2>2
  <2>3. CASE fitting # {} /\ after # {}
    <3>1. Min(after) \in after /\ \A i \in after : Min(after) <= i
      <4>1. after \in SUBSET Nat
        OBVIOUS
      <4> HIDE DEF after
      <4>2. QED
        BY <2>3, <4>1, MinIsLeast
    <3>2. digits = Min(after) - 1
      BY <2>3
    <3>3. Min(after) \in 1 .. Len(rest)
      BY <3>1
    <3> HIDE DEF digits
    <3>4. ASSUME NEW i \in 1 .. digits, rest[i] \notin Digits PROVE FALSE
      <4>1. i \in 1 .. Len(rest) /\ i < Min(after)
        BY <2>1, <3>2, <3>3
      <4>2. i \in after
        BY <3>4, <4>1
      <4> HIDE DEF after
      <4>3. Min(after) <= i /\ Min(after) \in Int /\ i \in Int
        BY <3>1, <3>3, <4>2
      <4>4. QED
        BY <4>1, <4>3
    <3>5. digits \in 0 .. Len(rest)
      BY <2>1, <3>2, <3>3
    <3>6. QED
      BY <3>4, <3>5
  <2>4. QED
    BY <2>2, <2>3
<1> HIDE DEF digits, fitting, after
<1>7. /\ semester \in Seq(Token) /\ section \in Seq(Token)
      /\ Len(semester) = digits
      /\ \A i \in 1 .. digits : semester[i] = rest[i]
      /\ semester \o section = rest
  BY <1>1, <1>5, <1>6, Splits
<1>8. (course \o semester) \o section = course \o (semester \o section)
  <2>1. course \in Seq(Token) /\ semester \in Seq(Token) /\ section \in Seq(Token)
    BY <1>5, <1>7
  <2>2. \A a, b, c \in Seq(Token) : (a \o b) \o c = a \o (b \o c)
    BY ConcatAssociative
  <2> HIDE DEF course, rest, digits, fitting, after
  <2>3. QED
    BY <2>1, <2>2
<1>9. \A i \in DOMAIN semester : semester[i] \in Digits
  BY <1>6, <1>7
<1>10. QED
  BY <1>2, <1>5, <1>7, <1>8, <1>9

\* A text of one token without its times.
LEMMA OneToken ==
    ASSUME NEW t
    PROVE  WithoutTimes(<<t>>) = IF t \in TimeReferences THEN <<>> ELSE <<t>>
<1> DEFINE Onward(f, i) == IF i = 0 THEN <<>>
                         ELSE IF <<t>>[i] \in TimeReferences THEN f[i - 1]
                         ELSE Append(f[i - 1], <<t>>[i])
           Step(f) == [i \in 0 .. 1 |-> Onward(f, i)]
           found == CHOOSE f : f = Step(f)
           known == [i \in 0 .. 1 |->
                        IF i = 0 \/ t \in TimeReferences THEN <<>> ELSE <<t>>]
<1>1. known = Step(known)
  OBVIOUS
<1>2. found = Step(found)
  <2> HIDE DEF Step, known
  <2>1. QED
    BY <1>1
<1>3. WithoutTimes(<<t>>) = found[1]
  BY DEF WithoutTimes, NoText
<1> HIDE DEF found
<1>4. found[0] = <<>>
  BY <1>2
<1>5. found[1] = IF t \in TimeReferences THEN <<>> ELSE <<t>>
  <2>1. found[1] = Onward(found, 1)
    <3> HIDE DEF Onward
    <3>1. QED
      BY <1>2
  <2>2. Append(<<>>, t) = <<t>> /\ 1 - 1 = 0 /\ 1 # 0
    OBVIOUS
  <2>3. QED
    BY <1>4, <2>1, <2>2
<1>6. QED
  BY <1>3, <1>5

\* A text of a token and a time without the time.
LEMMA TokenAndTime ==
    ASSUME NEW t, t \notin TimeReferences, NEW time \in TimeReferences
    PROVE  WithoutTimes(<<t, time>>) = <<t>>
<1> DEFINE Onward(f, i) == IF i = 0 THEN <<>>
                         ELSE IF <<t, time>>[i] \in TimeReferences THEN f[i - 1]
                         ELSE Append(f[i - 1], <<t, time>>[i])
           Step(f) == [i \in 0 .. 2 |-> Onward(f, i)]
           found == CHOOSE f : f = Step(f)
           known == [i \in 0 .. 2 |-> IF i = 0 THEN <<>> ELSE <<t>>]
<1>1. known = Step(known)
  OBVIOUS
<1>2. found = Step(found)
  <2> HIDE DEF Step, known
  <2>1. QED
    BY <1>1
<1>3. WithoutTimes(<<t, time>>) = found[2]
  BY DEF WithoutTimes, NoText
<1> HIDE DEF found
<1>4. found[0] = <<>>
  BY <1>2
<1>5. found[1] = <<t>>
  <2>1. found[1] = Onward(found, 1)
    <3> HIDE DEF Onward
    <3>1. QED
      BY <1>2
  <2>2. Append(<<>>, t) = <<t>> /\ 1 - 1 = 0 /\ 1 # 0
    OBVIOUS
  <2>3. QED
    BY <1>4, <2>1, <2>2
<1>6. found[2] = <<t>>
  <2>1. found[2] = Onward(found, 2)
    <3> HIDE DEF Onward
    <3>1. QED
      BY <1>2
  <2>2. QED
    BY <1>5, <2>1
<1>7. QED
  BY <1>3, <1>6

\* What is in the cells of the sheets.
Words == {"Monday", "Tuesday", "R1", "R2"} \cup Slots
CellsMC == {Empty, Calculus, Vision, Planning, NoTeacher} \cup {One(word) : word \in Words}
TokensMC == Words \cup Digits \cup TimeReferences
               \cup {"BS", "CS", "A", "Calculus", "DrX", "AI", "M", "Vision", "DrY", "MBA",
                     "planning", "DrZ", "IT", "Nets"}

LEMMA ShortSequences ==
    ASSUME NEW S
    PROVE  /\ <<>> \in Seq(S)
           /\ \A a \in S : <<a>> \in Seq(S)
           /\ \A a, b \in S : <<a, b>> \in Seq(S)
           /\ \A a, b, c \in S : <<a, b, c>> \in Seq(S)
           /\ \A a, b, c, d \in S : <<a, b, c, d>> \in Seq(S)
           /\ \A a, b, c, d, e \in S : <<a, b, c, d, e>> \in Seq(S)
           /\ \A a, b, c, d, e, f \in S : <<a, b, c, d, e, f>> \in Seq(S)
  OBVIOUS

LEMMA CellsAreTexts ==
    \A cell \in CellsMC : cell \in CellType(TokensMC)
<1>1. ASSUME NEW S PROVE /\ \A a \in S : <<a>> \in Seq(S)
                         /\ \A a, b \in S : <<a, b>> \in Seq(S)
                         /\ \A a, b, c \in S : <<a, b, c>> \in Seq(S)
                         /\ \A a, b, c, d \in S : <<a, b, c, d>> \in Seq(S)
  BY ShortSequences
<1> DEFINE Lines == Seq(TokensMC)
<1>2. \A word \in TokensMC : <<word>> \in Lines
  BY <1>1
<1>3. \A word \in Words : One(word) \in Seq(Lines)
  BY <1>1, <1>2 DEF TokensMC, One
<1>4. Calculus \in Seq(Lines)
  <2>1. <<"BS", "CS", "4", "A">> \in Lines /\ <<"Calculus">> \in Lines /\ <<"DrX", "(8:30-10:00)">> \in Lines
    BY <1>1 DEF TokensMC, Digits, TimeReferences
  <2>2. QED
    BY <1>1, <2>1 DEF Calculus
<1>5. Vision \in Seq(Lines)
  <2>1. <<"BS", "AI", "M", "1">> \in Lines /\ <<"Vision">> \in Lines /\ <<"DrY">> \in Lines
    BY <1>1 DEF TokensMC, Digits
  <2>2. QED
    BY <1>1, <2>1 DEF Vision
<1>6. Planning \in Seq(Lines)
  <2>1. <<"MBA", "7">> \in Lines /\ <<"Monday", "planning">> \in Lines /\ <<"DrZ">> \in Lines
    BY <1>1 DEF TokensMC, Digits, Words
  <2>2. QED
    BY <1>1, <2>1 DEF Planning
<1>7. NoTeacher \in Seq(Lines)
  <2>1. <<"BS", "IT", "1">> \in Lines /\ <<"Nets">> \in Lines /\ <<"(8:30-10:00)">> \in Lines
    BY <1>1 DEF TokensMC, Digits, TimeReferences
  <2>2. QED
    BY <1>1, <2>1 DEF NoTeacher
<1>8. Empty \in Seq(Lines)
  BY DEF Empty
<1> HIDE DEF Lines
<1>9. \A cell \in CellsMC : cell \in Seq(Lines)
  BY <1>3, <1>4, <1>5, <1>6, <1>7, <1>8 DEF CellsMC
<1>10. QED
  BY <1>9 DEF CellType, Lines

LEMMA RowsAreCells ==
    ASSUME NEW row \in RowsMC
    PROVE  row \in Seq(CellsMC) /\ Len(row) \in 1 .. 6
<1>1. /\ Empty \in CellsMC /\ Calculus \in CellsMC /\ Vision \in CellsMC
      /\ Planning \in CellsMC /\ NoTeacher \in CellsMC
  BY DEF CellsMC
<1>2. \A word \in Words : One(word) \in CellsMC
  BY DEF CellsMC
<1>3. /\ One("Monday") \in CellsMC /\ One("Tuesday") \in CellsMC /\ One("R1") \in CellsMC
      /\ One("R2") \in CellsMC /\ One("8:30-10:00") \in CellsMC
      /\ One("10:00-11:30") \in CellsMC /\ One("11:30-13:00") \in CellsMC
  BY <1>2 DEF Words, Slots
<1>4. CASE row = <<One("Monday")>>
  BY <1>3, <1>4, ShortSequences
<1>5. CASE row = <<Empty, Empty, Empty, Empty, One("Tuesday")>>
  BY <1>1, <1>3, <1>5, ShortSequences
<1>6. CASE row = <<Empty, One("8:30-10:00"), One("10:00-11:30"), One("11:30-13:00")>>
  BY <1>1, <1>3, <1>6, ShortSequences
<1>7. CASE row = <<One("8:30-10:00"), One("10:00-11:30"), One("11:30-13:00")>>
  BY <1>3, <1>7, ShortSequences
<1>8. CASE row = <<One("R1"), Calculus, Empty, Vision>>
  BY <1>1, <1>3, <1>8, ShortSequences
<1>9. CASE row = <<Empty, Vision, NoTeacher>>
  BY <1>1, <1>9, ShortSequences
<1>10. CASE row = <<One("R2"), NoTeacher, Calculus, Empty, Empty, Planning>>
  BY <1>1, <1>3, <1>10, ShortSequences
<1>11. QED
  BY <1>4, <1>5, <1>6, <1>7, <1>8, <1>9, <1>10 DEF RowsMC

\* The teachers of the cells, without their times.
LEMMA TeachersAre ==
    /\ WithoutTimes(Calculus[3]) = <<"DrX">> /\ WithoutTimes(Vision[3]) = <<"DrY">>
    /\ WithoutTimes(Planning[3]) = <<"DrZ">> /\ WithoutTimes(NoTeacher[3]) = <<>>
<1>1. "(8:30-10:00)" \in TimeReferences
      /\ "DrX" \notin TimeReferences /\ "DrY" \notin TimeReferences /\ "DrZ" \notin TimeReferences
  BY DEF TimeReferences
<1>2. /\ Calculus[3] = <<"DrX", "(8:30-10:00)">> /\ Vision[3] = <<"DrY">>
      /\ Planning[3] = <<"DrZ">> /\ NoTeacher[3] = <<"(8:30-10:00)">>
  BY DEF Calculus, Vision, Planning, NoTeacher
<1>3. WithoutTimes(<<"DrX", "(8:30-10:00)">>) = <<"DrX">>
  BY <1>1, TokenAndTime
<1>4. WithoutTimes(<<"DrY">>) = <<"DrY">> /\ WithoutTimes(<<"DrZ">>) = <<"DrZ">>
  BY <1>1, OneToken
<1>5. WithoutTimes(<<"(8:30-10:00)">>) = <<>>
  BY <1>1, OneToken
<1>6. QED
  BY <1>2, <1>3, <1>4, <1>5

\* A cell is a class when it is one of three, and then its teacher is the name in it.
LEMMA ClassesAre ==
    ASSUME NEW cell \in CellsMC
    PROVE  /\ IsClass(cell) <=> cell \in {Calculus, Vision, Planning}
           /\ cell \in {Calculus, Vision, Planning} =>
                 /\ WithoutTimes(cell[3]) = <<Head(cell[3])>>
                 /\ cell[1] # <<>> /\ cell[1] \in Seq(TokensMC)
<1>1. Len(Calculus) = 3 /\ Len(Vision) = 3 /\ Len(Planning) = 3
  BY DEF Calculus, Vision, Planning
<1>2. Head(Calculus[3]) = "DrX" /\ Head(Vision[3]) = "DrY" /\ Head(Planning[3]) = "DrZ"
  BY DEF Calculus, Vision, Planning
<1>3. <<"DrX">> # <<>> /\ <<"DrY">> # <<>> /\ <<"DrZ">> # <<>>
  OBVIOUS
<1>4. Calculus[1] # <<>> /\ Vision[1] # <<>> /\ Planning[1] # <<>>
  BY DEF Calculus, Vision, Planning
<1>5. IsClass(Calculus) /\ IsClass(Vision) /\ IsClass(Planning)
  BY <1>1, <1>3, TeachersAre DEF IsClass, NoText
<1>6. ~ IsClass(NoTeacher)
  BY TeachersAre DEF IsClass, NoText
<1>7. Len(Empty) = 0 /\ \A word : Len(One(word)) = 1
  BY DEF Empty, One
<1>8. cell \in {Empty} \cup {One(word) : word \in Words} => ~ IsClass(cell)
  BY <1>7 DEF IsClass
<1>9. /\ NoTeacher \notin {Calculus, Vision, Planning}
      /\ cell \in {Empty} \cup {One(word) : word \in Words} => cell \notin {Calculus, Vision, Planning}
  BY <1>5, <1>6, <1>8
<1>10. IsClass(cell) <=> cell \in {Calculus, Vision, Planning}
  BY <1>5, <1>6, <1>8, <1>9 DEF CellsMC
<1>11. cell \in {Calculus, Vision, Planning} => cell[1] \in Seq(TokensMC)
  BY <1>1, CellsAreTexts DEF CellType
<1>12. QED
  BY <1>2, <1>4, <1>10, <1>11, TeachersAre

-----------------------------------------------------------------------------
(* What the reference calls a row of times, a day and a place.             *)

\* A time slot is read where a cell is one.
LEMMA SlotsAreSlots ==
    ASSUME NEW Token, NEW rows \in Rows(Token), NEW i \in DOMAIN rows, NEW c
    PROVE  /\ SlotAt(rows, i, c) # None <=> IsSlot(rows[i], c)
           /\ IsSlot(rows[i], c) => <<<<SlotAt(rows, i, c)>>>> = rows[i][c]
<1>1. None \notin Slots
  BY DEF None, Slots
<1>2. CASE c \notin DOMAIN rows[i]
  BY <1>2 DEF SlotAt, Cell, NoCell, IsSlot
<1>3. CASE c \in DOMAIN rows[i]
  <2> DEFINE cell == rows[i][c]
  <2>1. Cell(rows, i, c) = cell
    BY <1>3 DEF Cell
  <2>2. cell \in Seq(Seq(Token))
    BY <1>3 DEF Rows, CellType
  <2> HIDE DEF cell
  <2>3. Len(cell) = 1 /\ Len(cell[1]) = 1 => cell = <<<<cell[1][1]>>>>
    <3>1. ASSUME Len(cell) = 1, Len(cell[1]) = 1 PROVE cell = <<<<cell[1][1]>>>>
      <4>1. PICK line \in Seq(Token) : line = cell[1]
        BY <2>2, <3>1
      <4>2. line = <<line[1]>>
        BY <3>1, <4>1
      <4>3. cell = <<line>>
        BY <2>2, <3>1, <4>1
      <4>4. QED
        BY <4>1, <4>2, <4>3
    <3>2. QED
      BY <3>1
  <2>4. \A slot : cell = <<<<slot>>>> => Len(cell) = 1 /\ Len(cell[1]) = 1 /\ cell[1][1] = slot
    OBVIOUS
  <2>5. SlotAt(rows, i, c) = IF Len(cell) = 1 /\ Len(cell[1]) = 1 /\ cell[1][1] \in Slots
                             THEN cell[1][1] ELSE None
    BY <2>1 DEF SlotAt
  <2>6. IsSlot(rows[i], c) <=> \E slot \in Slots : cell = <<<<slot>>>>
    BY <1>3 DEF IsSlot, One, cell
  <2>7. QED
    BY <1>1, <2>3, <2>4, <2>5, <2>6 DEF cell
<1>4. QED
  BY <1>2, <1>3

\* A set of three numbers or more has three in order.
LEMMA ThreeInOrder ==
    ASSUME NEW T \in SUBSET Nat, IsFiniteSet(T)
    PROVE  Cardinality(T) >= 3 <=> \E a, b, c \in T : a < b /\ b < c
<1>1. ASSUME Cardinality(T) >= 3 PROVE \E a, b, c \in T : a < b /\ b < c
  <2> DEFINE a == Min(T)
             U == T \ {a}
             b == Min(U)
             V == U \ {b}
             c == Min(V)
  <2>1. T # {}
    BY <1>1, FS_EmptySet
  <2>2. a \in T /\ \A y \in T : a <= y
    BY <2>1, MinIsLeast
  <2> HIDE DEF a
  <2>3. IsFiniteSet(U) /\ Cardinality(U) >= 2
    <3>1. Cardinality(T) \in Nat
      BY FS_CardinalityType
    <3>2. IsFiniteSet(U) /\ Cardinality(U) = Cardinality(T) - 1
      BY <2>2, FS_RemoveElement
    <3>3. QED
      BY <1>1, <3>1, <3>2
  <2>4. U # {}
    BY <2>3, FS_EmptySet
  <2>5. b \in U /\ \A y \in U : b <= y
    <3>1. U \in SUBSET Nat
      OBVIOUS
    <3> HIDE DEF U
    <3>2. QED
      BY <2>4, <3>1, MinIsLeast
  <2>6. a < b /\ b \in T
    <3>1. b \in T /\ b # a
      BY <2>5
    <3> HIDE DEF b
    <3>2. a <= b /\ a \in Nat /\ b \in Nat
      BY <2>2, <3>1
    <3>3. QED
      BY <3>1, <3>2
  <2>7. \A y \in U : y \in T
    OBVIOUS
  <2> HIDE DEF b, U
  <2>8. IsFiniteSet(V) /\ Cardinality(V) >= 1
    <3>1. Cardinality(U) \in Nat
      BY <2>3, FS_CardinalityType
    <3>2. IsFiniteSet(V) /\ Cardinality(V) = Cardinality(U) - 1
      BY <2>3, <2>5, FS_RemoveElement
    <3>3. QED
      BY <2>3, <3>1, <3>2
  <2>9. PICK z \in V : TRUE
    BY <2>8, FS_EmptySet
  <2>10. z \in T /\ b < z
    BY <2>5, <2>6, <2>7, <2>9
  <2>11. QED
    BY <2>2, <2>6, <2>10
<1>2. ASSUME NEW a \in T, NEW b \in T, NEW c \in T, a < b, b < c PROVE Cardinality(T) >= 3
  <2>1. IsFiniteSet({a, b}) /\ Cardinality({a, b}) = 2
    <3>1. {a, b} = {a} \cup {b} /\ b \notin {a}
      BY <1>2
    <3>2. IsFiniteSet({a}) /\ Cardinality({a}) = 1
      BY FS_Singleton
    <3>3. IsFiniteSet({a} \cup {b}) /\ Cardinality({a} \cup {b}) = Cardinality({a}) + 1
      BY <3>1, <3>2, FS_AddElement
    <3>4. QED
      BY <3>1, <3>2, <3>3
  <2>2. IsFiniteSet({a, b, c}) /\ Cardinality({a, b, c}) = 3
    <3>1. {a, b, c} = {a, b} \cup {c} /\ c \notin {a, b}
      BY <1>2
    <3>2. QED
      BY <2>1, <3>1, FS_AddElement
  <2>3. Cardinality({a, b, c}) <= Cardinality(T)
    BY FS_Subset
  <2>4. Cardinality(T) \in Nat
    BY FS_CardinalityType
  <2>5. QED
    BY <2>2, <2>3, <2>4
<1>3. QED
  BY <1>1, <1>2

LEMMA TimesAreHeaders ==
    ASSUME NEW Token, NEW rows \in Rows(Token), NEW i \in DOMAIN rows
    PROVE  HasTimes(rows, i) <=> IsHeader(rows[i])
<1> DEFINE T == {c \in DOMAIN rows[i] \ {1} : SlotAt(rows, i, c) # None}
<1>1. Len(rows[i]) \in Nat /\ DOMAIN rows[i] = 1 .. Len(rows[i])
  BY DEF Rows
<1>2. T \in SUBSET Nat /\ IsFiniteSet(T)
  <2>1. \A n \in Nat : IsFiniteSet(1 .. n)
    BY FS_Interval
  <2>2. PICK n \in Nat : n = Len(rows[i])
    BY <1>1
  <2>3. T \in SUBSET (1 .. n)
    BY <1>1, <2>2
  <2> HIDE DEF T
  <2>4. IsFiniteSet(T)
    BY <2>1, <2>3, FS_Subset
  <2>5. QED
    BY <2>3, <2>4
<1>3. T = {c \in DOMAIN rows[i] : 1 < c /\ IsSlot(rows[i], c)}
  BY <1>1, SlotsAreSlots
<1>4. HasTimes(rows, i) <=> Cardinality(T) >= 3
  BY DEF HasTimes, HeaderSlots
<1> HIDE DEF T
<1>5. HasTimes(rows, i) <=> \E a, b, c \in T : a < b /\ b < c
  BY <1>2, <1>4, ThreeInOrder
<1>6. (\E a, b, c \in T : a < b /\ b < c) <=> IsHeader(rows[i])
  BY <1>1, <1>3 DEF IsHeader
<1>7. QED
  BY <1>5, <1>6

\* A row names a day for the parser when it does for the reference, and then it is one
\* of those that the row names.
LEMMA DaysAreDays ==
    ASSUME NEW Token, NEW rows \in Rows(Token), NEW i \in DOMAIN rows
    PROVE  /\ ExtractDayName(rows, i) # None <=> IsDayRow(rows[i])
           /\ ExtractDayName(rows, i) # None => NamesDay(rows[i], ExtractDayName(rows, i))
<1>1. \A c \in DOMAIN rows[i] : rows[i][c] \in CellType(Token)
  BY DEF Rows
<1>2. \A c \in DOMAIN rows[i] :
         /\ Naming(rows[i][c]) # {} <=> Tokens(rows[i][c]) \cap Days # {}
         /\ \A k \in Naming(rows[i][c]) : DayLabels[k] \in Tokens(rows[i][c]) \cap Days
  BY <1>1, NamingIsTokens
<1>3. IsDayRow(rows[i]) <=> \E c \in DOMAIN rows[i] : c <= 5 /\ Tokens(rows[i][c]) \cap Days # {}
  BY DEF IsDayRow, NamesDay
<1>4. ExtractDayName(rows, i) # None <=> IsDayRow(rows[i])
  BY <1>2, <1>3, NoneIsNamed DEF DayCells
<1>5. ExtractDayName(rows, i) # None => NamesDay(rows[i], ExtractDayName(rows, i))
  BY <1>2, DayIsNamed DEF DayCells, NamesDay
<1>6. QED
  BY <1>4, <1>5

-----------------------------------------------------------------------------
(* What is found and where.                                                *)

\* Where a class is found: below the day of row d, in row i, with the times of row h.
IsFound(rows, d, h, i, c) ==
    /\ d \in DayRows(rows)
    /\ h # 0 /\ h = FindTimeSlotHeaderRow(rows, d, Len(rows))
    /\ i \in DataRows(rows, h, EndOf(rows, DayRows(rows), d))
    /\ Cell(rows, i, 1) # NoCell
    /\ c \in DOMAIN rows[i] \ {1}
    /\ SlotAt(rows, h, c) # None
    /\ IsClass(rows[i][c])

ClassAt(rows, d, h, i, c) ==
    [at |-> <<d, h, i, c>>, day |-> ExtractDayName(rows, d), room |-> Cell(rows, i, 1),
     slot |-> SlotAt(rows, h, c), class |-> ParseCellContent(rows[i][c])]

LEMMA FoundAre ==
    ASSUME NEW rows
    PROVE  \A found : found \in ParseRows(rows, {}).classes <=>
              \E d, h, i, c : IsFound(rows, d, h, i, c) /\ found = ClassAt(rows, d, h, i, c)
<1> DEFINE Header(d) == FindTimeSlotHeaderRow(rows, d, Len(rows))
           End(d) == EndOf(rows, DayRows(rows), d)
           Data(d) == DataRows(rows, Header(d), End(d))
           Part(d) == Section(rows, d, Header(d), End(d))
           Full == {d \in DayRows(rows) : Header(d) # 0 /\ Data(d) # {}}
           Filled(d, i) == {c \in DOMAIN rows[i] \ {1} :
                               SlotAt(rows, Header(d), c) # None /\ IsClass(rows[i][c])}
<1>1. DetectDaySections(rows, {}) = {Part(d) : d \in Full}
  BY DEF DetectDaySections, SectionsByDays
<1>2. ParseRows(rows, {}).classes = UNION {ParseDaySection(rows, Part(d)) : d \in Full}
  BY <1>1 DEF ParseRows, BuildParsedTimetable
<1>3. \A d : ParseDaySection(rows, Part(d)) =
         UNION {{ClassAt(rows, d, Header(d), i, c) : c \in Filled(d, i)} :
                   i \in {j \in Data(d) : Cell(rows, j, 1) # NoCell}}
  BY DEF ParseDaySection, Section, ClassAt
<1> HIDE DEF Part
<1>4. \A found : found \in ParseRows(rows, {}).classes <=>
         \E d \in Full : \E i \in {j \in Data(d) : Cell(rows, j, 1) # NoCell} :
            \E c \in Filled(d, i) : found = ClassAt(rows, d, Header(d), i, c)
  BY <1>2, <1>3
<1>5. \A d, i, c : d \in Full /\ i \in Data(d) /\ Cell(rows, i, 1) # NoCell /\ c \in Filled(d, i)
                      <=> IsFound(rows, d, Header(d), i, c)
  BY DEF IsFound
<1>6. \A d, h, i, c : IsFound(rows, d, h, i, c) => h = Header(d)
  BY DEF IsFound
<1> HIDE DEF Header, Data, Full, Filled
<1>7. QED
  BY <1>4, <1>5, <1>6

\* The sheets are sequences of rows of cells.
LEMMA SheetsAreRows ==
    ASSUME NEW rows \in Seq(RowsMC)
    PROVE  /\ rows \in Rows(TokensMC)
           /\ Len(rows) \in Nat /\ DOMAIN rows = 1 .. Len(rows)
           /\ \A i \in DOMAIN rows : /\ Len(rows[i]) \in 1 .. 6
                                     /\ DOMAIN rows[i] = 1 .. Len(rows[i])
                                     /\ \A c \in DOMAIN rows[i] : rows[i][c] \in CellsMC
<1>1. /\ Len(rows) \in Nat /\ DOMAIN rows = 1 .. Len(rows)
      /\ rows \in [1 .. Len(rows) -> RowsMC]
  OBVIOUS
<1>2. \A i \in DOMAIN rows : rows[i] \in Seq(CellsMC) /\ Len(rows[i]) \in 1 .. 6
  BY <1>1, RowsAreCells
<1>3. \A row : row \in Seq(CellsMC) => /\ DOMAIN row = 1 .. Len(row)
                                       /\ \A c \in DOMAIN row : row[c] \in CellsMC
  OBVIOUS
<1>4. \A row \in Seq(CellsMC) : row \in Seq(CellType(TokensMC))
  BY CellsAreTexts, SeqMonotonic
<1>5. rows \in [1 .. Len(rows) -> Seq(CellType(TokensMC))]
  BY <1>1, <1>2, <1>4
<1>6. rows \in Rows(TokensMC)
  BY <1>1, <1>5 DEF Rows
<1>7. QED
  BY <1>1, <1>2, <1>3, <1>6

\* Every class is found at a place of the reference.
LEMMA FoundInPlaces ==
    ASSUME NEW rows \in Seq(RowsMC), NEW d, NEW h, NEW i, NEW c, IsFound(rows, d, h, i, c)
    PROVE  <<d, h, i, c>> \in Places(rows)
<1> DEFINE n == Len(rows)
           end == EndOf(rows, DayRows(rows), d)
<1>1. rows \in Rows(TokensMC) /\ n \in Nat /\ DOMAIN rows = 1 .. n
  BY SheetsAreRows
<1>2. DayRows(rows) \in SUBSET DOMAIN rows /\ d \in DayRows(rows) /\ d \in 1 .. n
  BY <1>1 DEF IsFound, DayRows
<1>3. end \in d .. n /\ \A k \in d + 1 .. end : k \notin DayRows(rows)
  BY <1>1, <1>2, EndsBeforeNext
<1> HIDE DEF n, end
<1>4. /\ h \in d + 1 .. n /\ h <= d + 3 /\ HasTimes(rows, h)
      /\ \A k \in d + 1 .. h - 1 : ~ HasTimes(rows, k)
  <2>1. h # 0 /\ h = FindTimeSlotHeaderRow(rows, d, n)
    BY DEF IsFound, n
  <2>2. d \in DOMAIN rows /\ n \in d .. Len(rows)
    BY <1>1, <1>2 DEF n
  <2>3. QED
    BY <1>1, <2>1, <2>2, HeaderIsFirst DEF HeaderReach
<1>5. i \in h + 1 .. end /\ i \in 1 .. n /\ d < i /\ h < i
  <2>1. i \in h + 1 .. end
    BY DEF IsFound, DataRows, end
  <2>2. QED
    BY <1>1, <1>2, <1>3, <1>4, <2>1
<1>6. DayOf(rows, d, i)
  <2>1. IsDayRow(rows[d])
    BY <1>1, <1>2, DaysAreDays DEF DayRows
  <2>2. ASSUME NEW k \in d + 1 .. i PROVE ~ IsDayRow(rows[k])
    <3>1. k \in d + 1 .. end /\ k \in DOMAIN rows
      BY <1>1, <1>2, <1>3, <1>4, <1>5
    <3>2. ExtractDayName(rows, k) = None
      BY <1>3, <3>1 DEF DayRows
    <3>3. QED
      BY <1>1, <3>1, <3>2, DaysAreDays
  <2>3. QED
    BY <1>5, <2>1, <2>2 DEF DayOf
<1>7. TimesOf(rows, d, h, i)
  <2>1. \A k \in d + 1 .. h : k \in DOMAIN rows
    BY <1>1, <1>2, <1>4
  <2>2. \A k \in d + 1 .. h : HasTimes(rows, k) <=> IsHeader(rows[k])
    BY <1>1, <2>1, TimesAreHeaders
  <2>3. h \in d + 1 .. h /\ \A k \in d + 1 .. h - 1 : k \in d + 1 .. h
    BY <1>2, <1>4
  <2>4. d < h
    BY <1>2, <1>4
  <2>5. QED
    BY <1>4, <1>5, <2>2, <2>3, <2>4 DEF TimesOf
<1>8. IsSlot(rows[h], c)
  <2>1. h \in DOMAIN rows
    BY <1>1, <1>2, <1>4
  <2>2. QED
    BY <1>1, <2>1, SlotsAreSlots DEF IsFound
<1>9. rows[i][1] # Empty
  <2>1. 1 \in DOMAIN rows[i]
    BY <1>1, <1>5, SheetsAreRows
  <2>2. QED
    BY <1>1, <1>5, <2>1 DEF IsFound, Cell, NoCell, Empty
<1>10. c \in DOMAIN rows[i] /\ c \in 2 .. 6
  <2>1. c \in DOMAIN rows[i] /\ c # 1
    BY DEF IsFound
  <2>2. PICK m \in 1 .. 6 : DOMAIN rows[i] = 1 .. m
    BY <1>1, <1>5, SheetsAreRows
  <2>3. QED
    BY <2>1, <2>2
<1>11. rows[i][c] \in {Calculus, Vision, Planning}
  <2>1. rows[i][c] \in CellsMC
    BY <1>1, <1>5, <1>10, SheetsAreRows
  <2>2. QED
    BY <2>1, ClassesAre DEF IsFound
<1>12. <<d, h, i, c>> \in (DOMAIN rows) \X (DOMAIN rows) \X (DOMAIN rows) \X (2 .. 6)
  BY <1>1, <1>2, <1>4, <1>5, <1>10
<1>13. QED
  BY <1>6, <1>7, <1>8, <1>9, <1>10, <1>11, <1>12 DEF Places

\* At every place of the reference there is a class found.
LEMMA PlacesAreFound ==
    ASSUME NEW rows \in Seq(RowsMC), NEW p \in Places(rows)
    PROVE  IsFound(rows, p[1], p[2], p[3], p[4])
<1> DEFINE n == Len(rows)
           d == p[1]
           h == p[2]
           i == p[3]
           c == p[4]
           end == EndOf(rows, DayRows(rows), d)
           far == FindTimeSlotHeaderRow(rows, d, n)
<1>1. rows \in Rows(TokensMC) /\ n \in Nat /\ DOMAIN rows = 1 .. n
  BY SheetsAreRows
<1>2. /\ d \in 1 .. n /\ h \in 1 .. n /\ i \in 1 .. n /\ c \in 2 .. 6
      /\ DayOf(rows, d, i) /\ TimesOf(rows, d, h, i) /\ IsSlot(rows[h], c)
      /\ rows[i][1] # Empty /\ c \in DOMAIN rows[i]
      /\ rows[i][c] \in {Calculus, Vision, Planning}
  BY <1>1 DEF Places
<1> HIDE DEF d, h, i, c
<1>3. DayRows(rows) \in SUBSET DOMAIN rows /\ d \in DayRows(rows)
  BY <1>1, <1>2, DaysAreDays DEF DayRows, DayOf
<1>4. end \in d .. n /\ (end < n => end + 1 \in DayRows(rows))
  BY <1>1, <1>3, EndsBeforeNext
<1>5. \A k \in d + 1 .. i : k \notin DayRows(rows)
  BY <1>1, <1>2, DaysAreDays DEF DayOf, DayRows
<1> HIDE DEF end, n
<1>6. d < i /\ i <= end
  <2>1. d < i
    BY <1>2 DEF DayOf
  <2>2. SUFFICES ASSUME end < i PROVE FALSE
    BY <1>2, <1>4, <2>1
  <2>3. end + 1 \in d + 1 .. i /\ end < n
    BY <1>1, <1>2, <1>4, <2>2
  <2>4. QED
    BY <1>4, <1>5, <2>3
<1>7. /\ d < h /\ h < i /\ h <= d + 3 /\ HasTimes(rows, h)
      /\ \A k \in d + 1 .. h - 1 : ~ HasTimes(rows, k)
  <2>1. d < h /\ h < i /\ h <= d + 3 /\ IsHeader(rows[h])
    BY <1>2 DEF TimesOf
  <2>2. \A k \in d + 1 .. h - 1 : ~ IsHeader(rows[k]) /\ k \in DOMAIN rows
    BY <1>1, <1>2 DEF TimesOf
  <2>3. QED
    BY <1>1, <1>2, <2>1, <2>2, TimesAreHeaders
<1>8. far = h
  <2>1. d \in DOMAIN rows /\ n \in d .. Len(rows)
    BY <1>1, <1>2 DEF n
  <2>2. h \in d + 1 .. n
    BY <1>1, <1>2, <1>7
  <2>3. far # 0 /\ far <= h
    BY <1>1, <1>7, <2>1, <2>2, HeaderIsFirst DEF HeaderReach
  <2>4. far \in d + 1 .. n /\ HasTimes(rows, far)
    BY <1>1, <2>1, <2>3, HeaderIsFirst
  <2> HIDE DEF far
  <2>5. QED
    BY <1>1, <1>2, <1>7, <2>2, <2>3, <2>4
<1>9. i \in DataRows(rows, h, end)
  <2>1. i \in h + 1 .. end
    BY <1>1, <1>2, <1>4, <1>6, <1>7
  <2>2. i \in d + 1 .. i /\ i \in DOMAIN rows
    BY <1>1, <1>2, <1>6
  <2>3. ExtractDayName(rows, i) = None
    BY <1>5, <2>2 DEF DayRows
  <2>4. QED
    BY <2>1, <2>3 DEF DataRows
<1>10. Cell(rows, i, 1) # NoCell
  <2>1. i \in DOMAIN rows
    BY <1>1, <1>2
  <2>2. 1 \in DOMAIN rows[i]
    BY <2>1, SheetsAreRows
  <2>3. QED
    BY <1>2, <2>1, <2>2 DEF Cell, NoCell, Empty
<1>11. SlotAt(rows, h, c) # None
  BY <1>1, <1>2, SlotsAreSlots
<1>12. IsClass(rows[i][c])
  <2>1. rows[i][c] \in CellsMC
    BY <1>2 DEF CellsMC
  <2>2. QED
    BY <1>2, <2>1, ClassesAre
<1>13. h # 0 /\ c # 1
  BY <1>2
<1>14. QED
  BY <1>2, <1>3, <1>8, <1>9, <1>10, <1>11, <1>12, <1>13 DEF IsFound, d, h, i, c, n, end

\* What is read of a class is what is at its place.
LEMMA FoundIsDescribed ==
    ASSUME NEW rows \in Seq(RowsMC), NEW p \in Places(rows),
           NEW found, found = ClassAt(rows, p[1], p[2], p[3], p[4])
    PROVE  /\ Describes(found, rows, p)
           /\ found.class.teacher = <<Head(rows[p[3]][p[4]][3])>>
<1>1. PICK d, h, i, c : p = <<d, h, i, c>> /\ d \in DOMAIN rows /\ h \in DOMAIN rows /\ i \in DOMAIN rows
  BY DEF Places
<1>2. p[1] = d /\ p[2] = h /\ p[3] = i /\ p[4] = c
  BY <1>1
<1>3. IsFound(rows, d, h, i, c)
  BY <1>2, PlacesAreFound
<1>4. /\ IsSlot(rows[h], c) /\ c \in DOMAIN rows[i] /\ rows[i][1] # Empty
      /\ rows[i][c] \in {Calculus, Vision, Planning}
  BY <1>2 DEF Places
<1>5. rows \in Rows(TokensMC)
  BY SheetsAreRows
<1>6. /\ found.at = p /\ found.day = ExtractDayName(rows, d) /\ found.room = Cell(rows, i, 1)
      /\ found.slot = SlotAt(rows, h, c)
      /\ found.class = ParseCellContent(rows[i][c])
  BY <1>1, <1>2 DEF ClassAt
<1>7. NamesDay(rows[d], found.day)
  <2>1. ExtractDayName(rows, d) # None
    BY <1>3 DEF IsFound, DayRows
  <2>2. QED
    BY <1>1, <1>5, <1>6, <2>1, DaysAreDays
<1>8. found.room = rows[i][1]
  <2>1. PICK m \in 1 .. 6 : DOMAIN rows[i] = 1 .. m
    BY <1>1, SheetsAreRows
  <2>2. 1 \in DOMAIN rows[i]
    BY <2>1
  <2>3. QED
    BY <1>1, <1>6, <2>2 DEF Cell
<1>9. <<<<found.slot>>>> = rows[h][c]
  BY <1>1, <1>4, <1>5, <1>6, SlotsAreSlots
<1> DEFINE cell == rows[i][c]
<1>10. /\ WithoutTimes(cell[3]) = <<Head(cell[3])>>
       /\ cell[1] # <<>> /\ cell[1] \in Seq(TokensMC)
  <2>1. cell \in CellsMC
    BY <1>4 DEF CellsMC
  <2>2. QED
    BY <1>4, <2>1, ClassesAre
<1>11. /\ found.class.code = ParseClassCode(cell[1])
       /\ found.class.subject = cell[2]
       /\ found.class.teacher = WithoutTimes(cell[3])
  BY <1>6 DEF ParseCellContent
<1> DEFINE code == found.class.code
<1>12. /\ code.course \o code.semester \o code.section = cell[1]
       /\ \A k \in DOMAIN code.semester : code.semester[k] \in Digits
  BY <1>10, <1>11, CodeIsWhole
<1>13. QED
  BY <1>2, <1>6, <1>7, <1>8, <1>9, <1>10, <1>11, <1>12 DEF Describes

\* There are only so many places.
LEMMA PlacesAreFinite ==
    ASSUME NEW rows \in Seq(RowsMC)
    PROVE  IsFiniteSet(Places(rows))
<1> DEFINE D == DOMAIN rows
           C == 2 .. 6
           Pairs == (D \X D) \X (D \X C)
           All == D \X D \X D \X C
           f == [q \in Pairs |-> <<q[1][1], q[1][2], q[2][1], q[2][2]>>]
<1>1. IsFiniteSet(D) /\ IsFiniteSet(C)
  <2>1. \A a, b \in Int : IsFiniteSet(a .. b)
    BY FS_Interval
  <2>2. PICK n \in Nat : D = 1 .. n
    BY SheetsAreRows
  <2>3. IsFiniteSet(1 .. n)
    BY <2>1
  <2>4. IsFiniteSet(C)
    <3>1. PICK m \in Nat : m = 6
      OBVIOUS
    <3>2. C \in SUBSET (1 .. m)
      BY <3>1
    <3>3. IsFiniteSet(1 .. m)
      BY <2>1
    <3> HIDE DEF C
    <3>4. QED
      BY <3>2, <3>3, FS_Subset
  <2> HIDE DEF D, C
  <2>5. QED
    BY <2>2, <2>3, <2>4
<1>2. IsFiniteSet(Pairs)
  <2>1. IsFiniteSet(D \X D) /\ IsFiniteSet(D \X C)
    BY <1>1, FS_Product
  <2>2. QED
    BY <2>1, FS_Product
<1>3. f \in Surjection(Pairs, All)
  <2>1. f \in [Pairs -> All]
    OBVIOUS
  <2>2. ASSUME NEW t \in All PROVE \E q \in Pairs : f[q] = t
    <3>1. t = <<t[1], t[2], t[3], t[4]>> /\ t[1] \in D /\ t[2] \in D /\ t[3] \in D /\ t[4] \in C
      OBVIOUS
    <3>2. <<<<t[1], t[2]>>, <<t[3], t[4]>>>> \in Pairs
      BY <3>1
    <3>3. f[<<<<t[1], t[2]>>, <<t[3], t[4]>>>>] = t
      BY <3>1, <3>2
    <3>4. QED
      BY <3>2, <3>3
  <2>3. QED
    BY <2>1, <2>2 DEF Surjection
<1>4. IsFiniteSet(All)
  BY <1>2, <1>3, FS_Surjection
<1>5. Places(rows) \in SUBSET All
  BY DEF Places
<1> HIDE DEF All
<1>6. QED
  BY <1>4, <1>5, FS_Subset

\* The classes are there: all, once, and as they are.
LEMMA ClassesAreThereOn ==
    ASSUME NEW rows \in Seq(RowsMC), NEW parsed, parsed = ParseRows(rows, {})
    PROVE  /\ parsed.teachers = {<<Head(rows[p[3]][p[4]][3])>> : p \in Places(rows)}
           /\ Cardinality(parsed.classes) = Cardinality(Places(rows))
           /\ \A p \in Places(rows) : \E found \in parsed.classes : Describes(found, rows, p)
<1> DEFINE At(p) == ClassAt(rows, p[1], p[2], p[3], p[4])
           f == [p \in Places(rows) |-> At(p)]
<1>1. \A p \in Places(rows) : At(p) \in parsed.classes
  BY PlacesAreFound, FoundAre
<1>2. \A found \in parsed.classes : \E p \in Places(rows) : found = At(p)
  <2>1. SUFFICES ASSUME NEW found \in parsed.classes
                 PROVE  \E p \in Places(rows) : found = At(p)
    OBVIOUS
  <2>2. PICK d, h, i, c : IsFound(rows, d, h, i, c) /\ found = ClassAt(rows, d, h, i, c)
    BY <2>1, FoundAre
  <2>3. <<d, h, i, c>> \in Places(rows)
    BY <2>2, FoundInPlaces
  <2>4. found = At(<<d, h, i, c>>)
    BY <2>2
  <2>5. QED
    BY <2>3, <2>4
<1>3. \A p \in Places(rows) : /\ Describes(At(p), rows, p)
                              /\ At(p).class.teacher = <<Head(rows[p[3]][p[4]][3])>>
  BY FoundIsDescribed
<1>4. \A p \in Places(rows) : At(p).at = p
  BY <1>3 DEF Describes
<1> HIDE DEF At
<1>5. Cardinality(parsed.classes) = Cardinality(Places(rows))
  <2>1. f \in Bijection(Places(rows), parsed.classes)
    BY <1>1, <1>2, <1>4 DEF Bijection, Injection, Surjection, IsInjective
  <2>2. QED
    BY <2>1, PlacesAreFinite, FS_Bijection DEF ExistsBijection
<1>6. parsed.teachers = {<<Head(rows[p[3]][p[4]][3])>> : p \in Places(rows)}
  <2>1. parsed.teachers = {found.class.teacher : found \in parsed.classes} \ {NoText}
    BY DEF ParseRows, BuildParsedTimetable
  <2>2. parsed.teachers = {At(p).class.teacher : p \in Places(rows)} \ {NoText}
    BY <1>1, <1>2, <2>1
  <2>3. {At(p).class.teacher : p \in Places(rows)} = {<<Head(rows[p[3]][p[4]][3])>> : p \in Places(rows)}
    BY <1>3
  <2>4. \A x : <<x>> # NoText
    BY DEF NoText
  <2>5. QED
    BY <2>2, <2>3, <2>4
<1>7. QED
  BY <1>1, <1>3, <1>5, <1>6

-----------------------------------------------------------------------------
(* The theorems.                                                           *)

LEMMA SheetType == Spec => [](sheet \in Seq(RowsMC))
<1>1. Init => sheet \in Seq(RowsMC)
  BY DEF Init
<1>2. sheet \in Seq(RowsMC) /\ [AddRow]_sheet => (sheet \in Seq(RowsMC))'
  BY AppendProperties DEF AddRow
<1>3. QED
  BY <1>1, <1>2, PTL DEF Spec

\* The two ways of detectDaySections lead to the same classes, on sheets of any number of
\* rows (RuleBasedParserService.detectDaySections).
THEOREM BothWays == Spec => []WaysAgree
<1>1. sheet \in Seq(RowsMC) => WaysAgree
  BY SheetsAreRows, WaysAgreeOn DEF WaysAgree
<1>2. QED
  BY <1>1, SheetType, PTL

\* Every class of a sheet is read, once, with its day, its room, its time, its code and its
\* teacher, and nothing else is, on sheets of any number of rows (RuleBasedParserService).
THEOREM ClassesRead == Spec => []ClassesAreThere
<1>1. ASSUME sheet \in Seq(RowsMC) PROVE ClassesAreThere
  <2>1. CASE DaysInFront(sheet)
    <3>1. ParseRows(sheet, AutoDetectDividers(sheet)) = ParseRows(sheet, {})
      BY <1>1, <2>1, SheetsAreRows, WaysAgreeOn
    <3>2. QED
      BY <1>1, <3>1, ClassesAreThereOn DEF ClassesAreThere
  <2>2. CASE ~ DaysInFront(sheet)
    BY <2>2 DEF ClassesAreThere
  <2>3. QED
    BY <2>1, <2>2
<1>2. QED
  BY <1>1, SheetType, PTL
=============================================================================
