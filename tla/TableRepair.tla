---------------------------- MODULE TableRepair ----------------------------
(* The repairs a converted document's Markdown goes through before it is    *)
(* registered (markdowntables, at the end of Step C) and the gate that may  *)
(* still refuse it (extractionqualitygate).                                 *)
(*                                                                          *)
(* A line has a kind and cells; a cell is "w" (words), "v" (a pure value),  *)
(* "e" (empty) or "-" (a separator's dashes).  "row" has its edge pipes,    *)
(* "loose" has lost one, "quote" is a row behind "> ".  `from' names the    *)
(* written lines whose text a line holds.  Each pass looks at the whole     *)
(* page as the pass before left it, so a pass is one step.                  *)
EXTENDS Integers, Sequences, FiniteSets, SequencesExt, FiniteSetsExt

CONSTANTS
    ChartTableMaxHeaderCells,   \* 14 in the code
    HeadingSplitMaxGapLines,    \* 8
    MdMalformedMinLines,        \* 4
    MdRaggedMinRows,            \* 4
    MdRaggedMinDataRows,        \* 6; at half of the rows
    MdHeaderlessMinBlocks,      \* 2
    MaxWrites                   \* bounds what the model writes

(* The table written below, of three columns, is no chart; a gate that asks *)
(* for no fault at all would refuse every page.                             *)
ASSUME TableAssumption ==
    /\ ChartTableMaxHeaderCells \in Nat /\ ChartTableMaxHeaderCells > 3
    /\ HeadingSplitMaxGapLines \in Nat
    /\ {MdMalformedMinLines, MdRaggedMinRows, MdRaggedMinDataRows, MdHeaderlessMinBlocks}
            \subseteq Nat \ {0}

VARIABLES
    pass,       \* the pass that is due
    wrote,      \* what the model wrote, piece by piece
    md,         \* the lines
    failures    \* what the gate found

tableVars == <<pass, wrote, md, failures>>

----------------------------------------------------------------------------
(* Rows and blocks: a block <<first, last>> is a longest run of rows.       *)

IsRow(l) == l.kind = "row"
IsBlank(l) == l.kind = "blank"
IsSeparator(l) == IsRow(l) /\ \A i \in DOMAIN l.cells : l.cells[i] \in {"-", "e"}
CountCells(l) == Len(l.cells)

Blocks(p) ==
    {b \in (DOMAIN p) \X (DOMAIN p) :
        /\ b[1] <= b[2]
        /\ \A i \in b[1]..b[2] : IsRow(p[i])
        /\ b[1] = 1 \/ ~IsRow(p[b[1] - 1])
        /\ b[2] = Len(p) \/ ~IsRow(p[b[2] + 1])}

Separators(p, b) == {i \in b[1]..b[2] : IsSeparator(p[i])}
Headed(p, b) == Separators(p, b) # {}
FindSeparator(p, b) == Min(Separators(p, b))
(* rowAtOrBefore: a separator that is the first row is its own header *)
HeaderLine(p, b) == Max({b[1], FindSeparator(p, b) - 1})
HeaderCells(p, b) == CountCells(p[HeaderLine(p, b)])
DataLines(p, b) == (b[1]..b[2]) \ {FindSeparator(p, b), FindSeparator(p, b) - 1}
RaggedLines(p, b) == {i \in DataLines(p, b) : CountCells(p[i]) # HeaderCells(p, b)}
HeadedBlocks(p) == {b \in Blocks(p) : Headed(p, b)}
LinesOf(B) == UNION {b[1]..b[2] : b \in B}

Rewritten(p, New(_)) == FlattenSeq([i \in DOMAIN p |-> New(i)])
----------------------------------------------------------------------------
(* The passes, in the order classify runs them.                             *)

Charts(p) == {b \in HeadedBlocks(p) : HeaderCells(p, b) >= ChartTableMaxHeaderCells}
Marker == [kind |-> "text", cells |-> <<"w">>, from |-> <<>>]
NeutralizeChartLikeTables(p) ==
    LET New(i) ==
            (IF \E b \in Charts(p) : b[1] = i THEN <<Marker>> ELSE <<>>)
            \o <<IF i \in LinesOf(Charts(p)) THEN [p[i] EXCEPT !.kind = "quote"] ELSE p[i]>>
    IN  Rewritten(p, New)

NormalizeMalformedPipeRows(p) ==
    [i \in DOMAIN p |-> IF p[i].kind = "loose" THEN [p[i] EXCEPT !.kind = "row"] ELSE p[i]]

Between(a, b) == (a[2] + 1)..(b[1] - 1)
OnlyBlankBeforeLast(p, a, b) == \A i \in (a[2] + 1)..(b[1] - 2) : IsBlank(p[i])
OnlyBlankBetween(p, a, b) == \A i \in Between(a, b) : IsBlank(p[i])
MergedPairs(p) ==
    {q \in HeadedBlocks(p) \X (Blocks(p) \ HeadedBlocks(p)) :
        /\ q[1][2] < q[2][1]
        /\ ~\E c \in Blocks(p) : q[1][2] < c[1] /\ c[2] < q[2][1]
        /\ CountCells(p[q[2][1]]) = HeaderCells(p, q[1])
        /\ OnlyBlankBetween(p, q[1], q[2])}
MergeHeaderlessContinuationBlocks(p) ==
    LET New(i) == IF \E q \in MergedPairs(p) : i \in Between(q[1], q[2]) THEN <<>> ELSE <<p[i]>>
    IN  Rewritten(p, New)

NextNonBlank(p, i) ==
    LET next == {j \in i..Len(p) : ~IsBlank(p[j])} IN IF next = {} THEN 0 ELSE Min(next)
ParentsAbove(p, h) == {b \in HeadedBlocks(p) : b[2] < h}
ParentBlockAbove(p, h) == CHOOSE b \in ParentsAbove(p, h) : \A c \in ParentsAbove(p, h) : c[2] <= b[2]
HeaderWidth(p, b) == HeaderCells(p, b)
FoldWidth(p, b) ==
    LET widths == {CountCells(p[i]) : i \in DataLines(p, b)}
    IN  IF Cardinality(widths) = 1 THEN Max(widths \cup {HeaderCells(p, b)}) ELSE HeaderCells(p, b)
Lone(p, r) ==
    LET after == NextNonBlank(p, r + 1)
    IN  IsRow(p[r]) /\ ~IsSeparator(p[r]) /\ (after = 0 \/ ~IsRow(p[after]))
(* A line is of kind "heading" if a row's label may have become it: one whose  *)
(* text ends with a colon heads something and is "text", as in every pass.     *)
EscapedHeadings(p) ==
    {h \in DOMAIN p :
        /\ p[h].kind = "heading"
        /\ LET r == NextNonBlank(p, h + 1)
           IN  /\ r # 0
               /\ Lone(p, r)
               /\ CountCells(p[r]) >= 2
               /\ \A i \in DOMAIN p[r].cells : p[r].cells[i] = "v"
               /\ ParentsAbove(p, h) # {}
               /\ CountCells(p[r]) + 1 = FoldWidth(p, ParentBlockAbove(p, h))
        /\ Cardinality({i \in (ParentBlockAbove(p, h)[2] + 1)..(h - 1) : ~IsBlank(p[i])})
               <= HeadingSplitMaxGapLines}
FoldedRow(p, h) ==
    LET r == p[NextNonBlank(p, h + 1)]
    IN  [kind |-> "row", cells |-> <<"w">> \o r.cells, from |-> p[h].from \o r.from]
ReattachHeadingSplitTableRows(p) ==
    LET escaped == EscapedHeadings(p)
        gone == escaped \cup {NextNonBlank(p, h + 1) : h \in escaped}
        Restored(i) == Rewritten(p, LAMBDA h : IF h \in escaped /\ ParentBlockAbove(p, h)[2] = i
                                               THEN <<FoldedRow(p, h)>> ELSE <<>>)
        New(i) == IF i \in gone THEN <<>> ELSE <<p[i]>> \o Restored(i)
    IN  Rewritten(p, New)

SomeRowWider(p) ==
    {b \in HeadedBlocks(p) :
        /\ HeaderCells(p, b) >= 2
        /\ \E i \in DataLines(p, b) :
            /\ CountCells(p[i]) = HeaderCells(p, b) + 1
            /\ p[i].cells[CountCells(p[i])] = "v"
            /\ p[i].cells[1] # "v"}
OneCellShort(p) ==
    {b \in HeadedBlocks(p) :
        /\ HeaderCells(p, b) >= 2
        /\ DataLines(p, b) # {}
        /\ \A i \in DataLines(p, b) :
            /\ CountCells(p[i]) = HeaderCells(p, b) + 1
            /\ p[i].cells[CountCells(p[i])] = "v"
            /\ p[i].cells[1] # "v"}
PadLines(p) == UNION {{FindSeparator(p, b) - 1, FindSeparator(p, b)} : b \in OneCellShort(p)}
PrependEmptyCell(l) ==
    [l EXCEPT !.kind = "row", !.cells = (IF l.kind = "quote" THEN <<"e", "w">> ELSE <<"e">>) \o l.cells]
RestoreMissingTableHeaderCells(p) ==
    [i \in DOMAIN p |-> IF i \in PadLines(p) THEN PrependEmptyCell(p[i]) ELSE p[i]]
----------------------------------------------------------------------------
(* The gate.                                                                *)

Malformed(p) == {i \in DOMAIN p : p[i].kind \in {"loose", "quote"}}
AllRagged(p) == UNION {RaggedLines(p, b) : b \in HeadedBlocks(p)}
AllData(p) == UNION {DataLines(p, b) : b \in HeadedBlocks(p)}
Headerless(p) == Blocks(p) \ HeadedBlocks(p)
AssessExtractionQuality(p) ==
    (IF Cardinality(Malformed(p)) >= MdMalformedMinLines THEN {"markdown-malformed-rows"} ELSE {})
    \cup (IF \/ Cardinality(AllRagged(p)) >= MdRaggedMinRows
             \/ /\ Cardinality(AllData(p)) >= MdRaggedMinDataRows
                /\ 2 * Cardinality(AllRagged(p)) >= Cardinality(AllData(p))
          THEN {"markdown-ragged-table"} ELSE {})
    \cup (IF Cardinality(Headerless(p)) >= MdHeaderlessMinBlocks
          THEN {"markdown-headerless-table"} ELSE {})
----------------------------------------------------------------------------
(* What the model writes: a table of three columns, whole or damaged.       *)

Row(kind, cells) == <<[kind |-> kind, cells |-> cells]>>
Written(form) ==
    CASE form = "header" -> Row("row", <<"w", "w", "w">>) \o Row("row", <<"-", "-", "-">>)
      [] form = "short header" -> Row("row", <<"w", "w">>) \o Row("row", <<"-", "-">>)
      [] form = "chart" -> Row("row", <<"w", "w", "w", "w">>) \o Row("row", <<"-", "-", "-", "-">>)
      [] form = "separator" -> Row("row", <<"-", "-">>)
      [] form = "row" -> Row("row", <<"w", "v", "v">>)
      [] form = "loose" -> Row("loose", <<"w", "v", "v">>)
      [] form = "escaped" -> Row("heading", <<"w">>) \o Row("row", <<"v", "v">>)
      [] form = "heading" -> Row("heading", <<"w">>)
      [] form = "note" -> Row("text", <<"w">>)
      [] form = "blank" -> Row("blank", <<"e">>)
Forms == {"header", "short header", "chart", "separator", "row", "loose", "escaped",
          "heading", "note", "blank"}
Numbered(p) == [i \in DOMAIN p |-> [kind |-> p[i].kind, cells |-> p[i].cells, from |-> <<i>>]]
Draft == Numbered(FlattenSeq([i \in DOMAIN wrote |-> Written(wrote[i])]))

TableInit == pass = "write" /\ wrote = <<>> /\ md = <<>> /\ failures = {}

WriteLine(form) ==
    /\ pass = "write" /\ Len(wrote) < MaxWrites
    /\ wrote' = Append(wrote, form)
    /\ UNCHANGED <<pass, md, failures>>

Assemble ==
    /\ pass = "write" /\ wrote # <<>>
    /\ md' = Draft /\ pass' = "neutralize"
    /\ UNCHANGED <<wrote, failures>>

Goes(from, to, New(_)) ==
    /\ pass = from /\ pass' = to
    /\ md' = New(md)
    /\ UNCHANGED <<wrote, failures>>

Neutralize == Goes("neutralize", "normalize", NeutralizeChartLikeTables)
Normalize == Goes("normalize", "merge", NormalizeMalformedPipeRows)
Merge == Goes("merge", "reattach", MergeHeaderlessContinuationBlocks)
Reattach == Goes("reattach", "restore", ReattachHeadingSplitTableRows)

(* out[-1] when the separator to pad is the first line: nothing recovers *)
Crashes == 0 \in PadLines(md)
Restore == ~Crashes /\ Goes("restore", "assess", RestoreMissingTableHeaderCells)
RestorePanics ==
    /\ pass = "restore" /\ Crashes
    /\ pass' = "crashed"
    /\ UNCHANGED <<wrote, md, failures>>

Assess ==
    /\ pass = "assess" /\ pass' = "judged"
    /\ failures' = AssessExtractionQuality(md)
    /\ UNCHANGED <<wrote, md>>

TableNext ==
    \/ \E form \in Forms : WriteLine(form)
    \/ Assemble \/ Neutralize \/ Normalize \/ Merge \/ Reattach \/ Restore \/ RestorePanics \/ Assess

TableSpec == TableInit /\ [][TableNext]_tableVars
----------------------------------------------------------------------------
(* Step C's contract: whatever the passes move, fold, quote or drop, each   *)
(* line the model wrote that is not blank is in the page once.              *)
Held(p) == FlattenSeq([i \in DOMAIN p |-> p[i].from])
NothingLost ==
    pass # "write" =>
        \A i \in DOMAIN Draft :
            ~IsBlank(Draft[i]) => Cardinality({j \in DOMAIN Held(md) : Held(md)[j] = i}) = 1

(* A table of which the model left rows out of their pipes, split off rows  *)
(* at a chunk boundary, put first cells into headings behind a footnote, or *)
(* lost the first header cell, is one whole table after the five passes,    *)
(* its rows in their order, and the gate lets it pass.                      *)
Body == [i \in 1..(Len(wrote) - 1) |-> wrote[i + 1]]
FormPlaces(form) == {i \in DOMAIN Body : Body[i] = form}
RowForms == FormPlaces("row") \cup FormPlaces("loose")
Repairable ==
    /\ wrote # <<>> /\ wrote[1] \in {"header", "short header"}
    /\ DOMAIN Body = RowForms \cup FormPlaces("escaped") \cup FormPlaces("note") \cup FormPlaces("blank")
    /\ RowForms # {} /\ Body[1] \in {"row", "loose"}
    /\ \A i \in FormPlaces("escaped"), j \in RowForms \cup FormPlaces("note") \cup FormPlaces("blank") : j < i
    /\ \A i \in FormPlaces("note"), j \in RowForms \cup FormPlaces("blank") : j < i
    (* an escaped row below another has that one's two lines in its gap *)
    /\ Cardinality(FormPlaces("note")) + 2 * (Cardinality(FormPlaces("escaped")) - 1) <= HeadingSplitMaxGapLines
    /\ FormPlaces("blank") # {} => wrote[1] = "header" /\ Cardinality(FormPlaces("blank")) = 1
RowsInOrder(p, b) ==
    \A i, j \in DataLines(p, b) : i < j => p[i].from[1] < p[j].from[1]
DamageUndone ==
    pass = "judged" /\ Repairable =>
        /\ failures = {} /\ AllRagged(md) = {}
        /\ \E b \in HeadedBlocks(md) :
            /\ Blocks(md) = {b}
            /\ Cardinality(DataLines(md, b)) = Cardinality(RowForms) + Cardinality(FormPlaces("escaped"))
            /\ HeaderCells(md, b) = 3 /\ RowsInOrder(md, b)

(* After the edge pipes are back, no pass takes a value out from under its  *)
(* column: a row as wide as its header stays in a table as wide as it is.   *)
Aligned(p) == {p[i].from : i \in AllData(p) \ AllRagged(p)}
AlignedStay ==
    [][(pass \in {"merge", "reattach", "restore"}) => Aligned(md) \subseteq Aligned(md')]_tableVars

(* "header row (always exists above a separator)" (markdowntables.go): the  *)
(* lines that get an empty cell are lines of the table.                     *)
OnlyTableLinesPadded ==
    pass = "restore" => PadLines(md) \subseteq LinesOf(OneCellShort(md))

(* What the repair passes promise, taken together: no value of the text is  *)
(* lost, and the damage they were written for is undone.                    *)
TablesRepaired == NothingLost /\ DamageUndone
=============================================================================
