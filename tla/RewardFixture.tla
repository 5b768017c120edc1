---------------------------- MODULE RewardFixture ----------------------------
(* The generator of reward epochs (generate-reward-fixture.mjs): reading the
   claims from CSV or JSON and the atomic write of the result.  RewardTree holds
   the tree it builds.

   Text is a sequence of character classes.  A behaviour reads one sample and
   writes one output. *)
EXTENDS RewardTree

CONSTANTS
    RawIndexes,     \* what the input may hold; -1 is what no parser accepts
    RawAccounts,    \* 0 is the zero address
    RawAmounts,
    MaxClaims,      \* bound on the claims of such a sample
    ClaimLists      \* longer lists of claims

VARIABLES
    input,          \* the sample the generator reads
    writeStep,      \* where atomicWrite is
    tmpFile,        \* the temporary file: "none", "partial", "whole"
    flushed,        \* the temporary file has been synced
    outFile         \* the output: "old", "new" or "torn"

fixtureVars == <<input, writeStep, tmpFile, flushed, outFile>>

\* ------------------------------------------------------------------ CSV ---

\* Characters: q quote, c comma, n newline, r carriage return, and others.
CsvStart == [rows |-> <<>>, row |-> <<>>, field |-> <<>>,
             quoted |-> FALSE, closedQuote |-> FALSE, skip |-> FALSE, bad |-> FALSE]

FinishField(s) ==
    [s EXCEPT !.row = Append(@, s.field), !.field = <<>>, !.closedQuote = FALSE]

FinishRow(s) ==
    LET t == FinishField(s)
    IN  IF \A i \in 1..Len(t.row) : t.row[i] = <<>>
        THEN [t EXCEPT !.bad = TRUE]
        ELSE [t EXCEPT !.rows = Append(@, t.row), !.row = <<>>]

CsvQuoted(s, ch, next) ==
    IF ch # "q" THEN [s EXCEPT !.field = Append(@, ch)]
    ELSE IF next = "q" THEN [s EXCEPT !.field = Append(@, "q"), !.skip = TRUE]
    ELSE [s EXCEPT !.quoted = FALSE, !.closedQuote = TRUE]

CsvUnquoted(s, ch, next) ==
    CASE s.closedQuote /\ ch \notin {"c", "n", "r"} -> [s EXCEPT !.bad = TRUE]
      [] ~s.closedQuote /\ ch = "q" /\ s.field # <<>> -> [s EXCEPT !.bad = TRUE]
      [] ~s.closedQuote /\ ch = "q" /\ s.field = <<>> -> [s EXCEPT !.quoted = TRUE]
      [] ch = "c" -> FinishField(s)
      [] ch = "n" -> FinishRow(s)
      [] ch = "r" -> [s EXCEPT !.bad = next # "n"]
      [] OTHER -> [s EXCEPT !.field = Append(@, ch)]

CsvRows(text) ==
    LET at[i \in 0..Len(text)] ==
            IF i = 0 THEN CsvStart
            ELSE LET s == at[i - 1]
                     next == IF i < Len(text) THEN text[i + 1] ELSE "end"
                 IN  IF s.bad THEN s
                     ELSE IF s.skip THEN [s EXCEPT !.skip = FALSE]
                     ELSE IF s.quoted THEN CsvQuoted(s, text[i], next)
                     ELSE CsvUnquoted(s, text[i], next)
        end == at[Len(text)]
        last == IF end.row # <<>> \/ end.field # <<>> \/ end.closedQuote
                THEN FinishRow(end) ELSE end
    IN  IF end.bad THEN end
        ELSE IF end.quoted THEN [end EXCEPT !.bad = TRUE]
        ELSE last

\* parseCsv: a header that names each claim field once, in any order, and rows
\* as long as the header, read by name.  A field name is one character here.
ClaimKeys == {<<"i">>, <<"a">>, <<"m">>}

CsvRefused == [bad |-> TRUE, claims |-> <<>>]

ParseCsv(text) ==
    LET csv == CsvRows(text)
        header == csv.rows[1]
    IN  IF \/ csv.bad \/ Len(csv.rows) < 2
           \/ Len(header) # Cardinality(ClaimKeys) \/ Range(header) # ClaimKeys
           \/ \E i \in 2..Len(csv.rows) : Len(csv.rows[i]) # Len(header)
        THEN CsvRefused
        ELSE [bad |-> FALSE,
              claims |-> [i \in 1..(Len(csv.rows) - 1) |->
                  [key \in ClaimKeys |->
                      csv.rows[i + 1][CHOOSE k \in 1..Len(header) : header[k] = key]]]]

\* ----------------------------------------------------------------- JSON ---

\* assertNoDuplicateJsonKeys over tokens: "k" and "K" are two spellings of one
\* key (an escape), "j" is another, "v" is any scalar.  Parsers return the
\* offset after what they read, 0 when they throw.
DecodeKey(token) == IF token = "K" THEN "k" ELSE token

JsonToken(text, o) == IF o <= Len(text) THEN text[o] ELSE "end"

RECURSIVE ScanValue(_, _), ScanMembers(_, _, _), ScanElements(_, _)

ScanValue(text, o) ==
    CASE JsonToken(text, o) = "{" ->
            IF JsonToken(text, o + 1) = "}" THEN o + 2
            ELSE ScanMembers(text, o + 1, {})
      [] JsonToken(text, o) = "[" ->
            IF JsonToken(text, o + 1) = "]" THEN o + 2
            ELSE ScanElements(text, o + 1)
      [] JsonToken(text, o) \in {"k", "K", "j", "v"} -> o + 1
      [] OTHER -> 0

\* An object the text ends in returns without an error; JSON.parse refuses it.
ScanMembers(text, o, keys) ==
    LET key == DecodeKey(JsonToken(text, o))
        after == ScanValue(text, o + 2)
    IN  CASE o > Len(text) -> o
          [] \/ JsonToken(text, o) \notin {"k", "K", "j"} \/ key \in keys
             \/ JsonToken(text, o + 1) # ":" \/ after = 0 -> 0
          [] JsonToken(text, after) = "}" -> after + 1
          [] JsonToken(text, after) = "," -> ScanMembers(text, after + 1, keys \cup {key})
          [] OTHER -> 0

ScanElements(text, o) ==
    LET after == ScanValue(text, o)
    IN  CASE o > Len(text) -> o
          [] after = 0 -> 0
          [] JsonToken(text, after) = "]" -> after + 1
          [] JsonToken(text, after) = "," -> ScanElements(text, after + 1)
          [] OTHER -> 0

NoDuplicateKeys(text) == ScanValue(text, 1) = Len(text) + 1

\* -------------------------------------------------------------- samples ---

\* How a table may be written: every cell quoted or only where it must be, with
\* either line end, with or without one after the last row.
Special == {"q", "c", "n", "r"}

QuoteCell(cell) ==
    LET doubled[i \in 0..Len(cell)] ==
            IF i = 0 THEN <<>>
            ELSE doubled[i - 1] \o (IF cell[i] = "q" THEN <<"q", "q">> ELSE <<cell[i]>>)
    IN  <<"q">> \o doubled[Len(cell)] \o <<"q">>

WriteCell(cell, always) ==
    IF always \/ Range(cell) \cap Special # {} THEN QuoteCell(cell) ELSE cell

WriteRow(row, always) ==
    LET written[i \in 1..Len(row)] ==
            IF i = 1 THEN WriteCell(row[1], always)
            ELSE written[i - 1] \o <<"c">> \o WriteCell(row[i], always)
    IN  written[Len(row)]

WriteTable(rows, style) ==
    LET end == IF style.crlf THEN <<"r", "n">> ELSE <<"n">>
        written[i \in 1..Len(rows)] ==
            IF i = 1 THEN WriteRow(rows[1], style.always)
            ELSE written[i - 1] \o end \o WriteRow(rows[i], style.always)
    IN  written[Len(rows)] \o (IF style.lastEnd THEN end ELSE <<>>)

Styles == [always : BOOLEAN, crlf : BOOLEAN, lastEnd : BOOLEAN]
Headers == {h \in [1..3 -> ClaimKeys] : Range(h) = ClaimKeys}
Cells == {<<>>} \cup {<<a>> : a \in Special \cup {"x"}} \cup {<<"q", "q">>, <<"x", "q">>, <<"c", "n">>}

\* JSON documents: objects of up to two members, in an array or in each other.
Members(keys, values) ==
    {<<"{", "}">>}
      \cup {<<"{", k, ":">> \o v \o <<"}">> : k \in keys, v \in values}
      \cup {<<"{", k, ":">> \o v \o <<",", l, ":">> \o w \o <<"}">> :
                k, l \in keys, v, w \in values}
Flat == Members({"k", "K", "j"}, {<<"v">>})
Documents ==
    LET nested == Members({"k", "K", "j"}, {<<"v">>} \cup Flat)
    IN  nested \cup {<<"[">> \o d \o <<"]">> : d \in nested}
               \cup {<<"[">> \o d \o <<",">> \o e \o <<"]">> : d, e \in Flat}

RawClaims == [index : RawIndexes, account : RawAccounts, amount : RawAmounts]

Inputs ==
    [claims : ClaimLists \cup UNION {[1..n -> RawClaims] : n \in 0..MaxClaims}]
      \cup [header : Headers, cells : Cells \X Cells, style : Styles]
      \cup [json : Documents]

Is(field) == field \in DOMAIN input

RowOf(table) == <<table.cells[1], table.cells[2], <<"x">>>>
TextOf(table) == WriteTable(<<table.header, RowOf(table)>>, table.style)

FixtureInit ==
    /\ input \in Inputs
    /\ writeStep = "open" /\ tmpFile = "none" /\ flushed = FALSE /\ outFile = "old"

\* parseClaims, normalizeClaims and buildFixture: nothing is written unless all
\* of them return.
Readable ==
    IF Is("claims") THEN FixtureBuilt(input.claims)
    ELSE IF Is("header") THEN ~ParseCsv(TextOf(input)).bad
    ELSE NoDuplicateKeys(input.json)

\* ----------------------------------------------------------- atomicWrite ---

OpenTemporary ==
    /\ writeStep = "open"
    /\ Readable
    /\ writeStep' = "write" /\ tmpFile' = "partial"
    /\ UNCHANGED <<input, flushed, outFile>>

WriteTemporary ==
    /\ writeStep = "write"
    /\ writeStep' = "sync" /\ tmpFile' = "whole"
    /\ UNCHANGED <<input, flushed, outFile>>

SyncTemporary ==
    /\ writeStep = "sync"
    /\ writeStep' = "rename" /\ flushed' = TRUE
    /\ UNCHANGED <<input, tmpFile, outFile>>

RenameTemporary ==
    /\ writeStep = "rename"
    /\ writeStep' = "done"
    /\ outFile' = (IF tmpFile = "whole" THEN "new" ELSE "torn") /\ tmpFile' = "none"
    /\ UNCHANGED <<input, flushed>>

\* A step throws: the handle is closed and the temporary file removed.
WriteFails ==
    /\ writeStep \in {"write", "sync", "rename"}
    /\ writeStep' = "failed" /\ tmpFile' = "none"
    /\ UNCHANGED <<input, flushed, outFile>>

\* The machine stops.  What was renamed but never synced may come back short.
MachineStops ==
    /\ writeStep \in {"write", "sync", "rename", "done"}
    /\ writeStep' = "stopped"
    /\ outFile' = (IF outFile = "new" /\ ~flushed THEN "torn" ELSE outFile)
    /\ UNCHANGED <<input, tmpFile, flushed>>

FixtureNext ==
    \/ OpenTemporary \/ WriteTemporary \/ SyncTemporary \/ RenameTemporary
    \/ WriteFails \/ MachineStops

FixtureSpec == FixtureInit /\ [][FixtureNext]_fixtureVars

\* ----------------------------------------------------------- properties ---

SumOfAmounts(claims) ==
    LET sum[i \in 0..Len(claims)] ==
            IF i = 0 THEN 0 ELSE sum[i - 1] + claims[i].amount
    IN  sum[Len(claims)]

\* buildMerkleSumTree and processProof agree: the proof written for a claim leads
\* to the root and to the sum of all amounts, whatever the number of claims, and
\* leads there for no other claim, so a proof pays what the fixture says.
ProofsProveTheirClaim ==
    Is("claims") /\ writeStep = "open" => LET claims == input.claims IN FixtureBuilt(claims) =>
        LET root == Tree(1, claims)[0] IN
        /\ root.sum = SumOfAmounts(claims)
        /\ \A i \in 1..Len(claims) :
            LET proof == ProofOf(1, claims, claims[i]) IN
            \A other \in Range(claims) \cup {[claims[i] EXCEPT !.amount = @ + 1]} :
                (ProcessProof(1, other, proof) = root) <=> (other = claims[i])

\* The root does not depend on the order of the claims in the input: two
\* operators who hold the same claims publish the same epoch.
RootIgnoresInputOrder ==
    Is("claims") /\ writeStep = "open" => LET claims == input.claims IN FixtureBuilt(claims) =>
        /\ Tree(1, Reverse(claims))[0] = Tree(1, claims)[0]
        /\ NormalizeClaims(Reverse(claims)) = NormalizeClaims(claims)

\* csvRows and parseCsv read back every table that can be written in CSV, in any
\* column order, quoted or not, with either line end; a row whose cells are all
\* empty is refused.
CsvReadsWhatWasWritten ==
    Is("header") /\ writeStep = "open" =>
        LET csv == ParseCsv(TextOf(input))
        IN  ~csv.bad /\ csv.claims =
                <<[key \in ClaimKeys |->
                    RowOf(input)[CHOOSE k \in 1..3 : input.header[k] = key]]>>

\* assertNoDuplicateJsonKeys accepts exactly the documents in which no object
\* spells one key twice, nested objects and escaped spellings included.
JsonKeysAreUnique ==
    Is("json") /\ writeStep = "open" =>
        LET text == input.json
            depth[i \in 0..Len(text)] ==
                IF i = 0 THEN 0
                ELSE depth[i - 1] + (IF text[i] = "{" THEN 1 ELSE IF text[i] = "}" THEN -1 ELSE 0)
            SameKey(a, b) == a = b \/ {a, b} = {"k", "K"}
            IsKey(i) == i < Len(text) /\ text[i + 1] = ":"
            \* two keys of the same object: no brace closes below their depth
            Siblings(i, j) == depth[i] = depth[j] /\ \A k \in i..j : depth[k] >= depth[i]
        IN  NoDuplicateKeys(text) <=>
                \A i, j \in 1..Len(text) :
                    (i < j /\ IsKey(i) /\ IsKey(j) /\ Siblings(i, j))
                        => ~SameKey(text[i], text[j])

\* atomicWrite: whatever fails and whenever the machine stops, the output file is
\* the old one or the whole new one, and a run that ends leaves no temporary file.
OutputIsWhole ==
    /\ outFile # "torn"
    /\ writeStep \in {"done", "failed"} => tmpFile = "none"

\* The fixture says what the input said: both readers return what was written, the
\* tree proves those claims and no others, in whatever order they came, and the
\* file on disk is whole.
FixtureIsFaithful ==
    /\ CsvReadsWhatWasWritten /\ JsonKeysAreUnique
    /\ ProofsProveTheirClaim /\ RootIgnoresInputOrder
    /\ OutputIsWhole
=============================================================================
