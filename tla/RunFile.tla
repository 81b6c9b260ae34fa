------------------------------ MODULE RunFile ------------------------------
(***************************************************************************)
(* The file that describes an experiment, as ReadRunFile takes it apart:   *)
(* pairs that hold for all runs, a blank line, a header, and one row for   *)
(* each run; then the runs that the -range flag selects.                   *)
(*                                                                         *)
(* A line is blank, a comment, or a sequence of cells: a pair has the      *)
(* separator "=", a row the separator ",".                                 *)
(***************************************************************************)
EXTENDS Integers, Sequences, SequencesExt

CONSTANTS
    RunFiles,   \* files, as sequences of lines
    SimRanges,  \* the values of -range, split at the colon; NaN where it is no number
    Lower,      \* strings.ToLower
    Unquoted    \* the values without quotes

VARIABLES
    lines,      \* what the scanner has still to read
    part,       \* where ReadRunFile is
    whole,      \* history: the file
    master,     \* masterConfig
    args,       \* the header
    runconfigs,
    simRange,
    selected    \* the runs that RunTests does not skip, counted from 0

file_vars == <<lines, part, whole, master, args, runconfigs, simRange, selected>>

NaN == -1
Empty == ""
Blank == [kind |-> "blank", cells |-> <<Empty>>]

-----------------------------------------------------------------------------
(* RunConfig: a function from lower-case names to values *)

PutField(rc, field, value) ==
    [k \in DOMAIN rc \cup {Lower[field]} |-> IF k = Lower[field] THEN value ELSE rc[k]]

Get(rc, field) == IF Lower[field] \in DOMAIN rc THEN Unquoted[rc[Lower[field]]] ELSE Empty

Map(rc) == [k \in DOMAIN rc |-> Get(rc, k)]

-----------------------------------------------------------------------------
(* ReadRunFile *)

RunFileInit ==
    /\ lines = <<>> /\ whole = <<>> /\ part = "off"
    /\ master = <<>> /\ args = <<>> /\ runconfigs = <<>>
    /\ simRange = <<>> /\ selected = {}

OpenFile(f) ==
    /\ part = "off"
    /\ lines' = f /\ whole' = f
    /\ part' = "global"
    /\ UNCHANGED <<master, args, runconfigs, simRange, selected>>

\* The first part.  A line that is not a pair ends the program.
ReadGlobal ==
    /\ part = "global" /\ lines # <<>>
    /\ lines' = Tail(lines)
    /\ LET line == Head(lines) IN
        \/ line = Blank /\ part' = "skip" /\ UNCHANGED master
        \/ line.kind = "comment" /\ UNCHANGED <<part, master>>
        \/ /\ line.kind \in {"pair", "row"}
           /\ IF line.kind = "pair" /\ Len(line.cells) = 2
                THEN master' = PutField(master, line.cells[1], line.cells[2]) /\ UNCHANGED part
                ELSE part' = "fatal" /\ UNCHANGED master
    /\ UNCHANGED <<whole, args, runconfigs, simRange, selected>>

\* More blank lines may follow; the next line is the header.
ReadHeader ==
    /\ part = "skip" /\ lines # <<>>
    /\ lines' = Tail(lines)
    /\ IF Head(lines) = Blank THEN UNCHANGED <<part, args>>
       ELSE part' = "runs" /\ args' = Head(lines).cells
    /\ UNCHANGED <<whole, master, runconfigs, simRange, selected>>

\* Mutation: the runs share one configuration.
SharedConfig(row) ==
    FoldLeft(LAMBDA rc, i : PutField(rc, args[i], row[i]),
             IF runconfigs = <<>> THEN master ELSE Last(runconfigs), [i \in DOMAIN row |-> i])

\* A copy of the master with the cells of the row; cells that are missing leave the
\* master's values.
RowConfig(row) ==
    FoldLeft(LAMBDA rc, i : PutField(rc, args[i], row[i]), master, [i \in DOMAIN row |-> i])

\* Every line after the header is a run.  One with more cells than the header panics;
\* a blank one is a run with an empty first cell.
ReadRun ==
    /\ part = "runs" /\ lines # <<>>
    /\ lines' = Tail(lines)
    /\ IF Len(Head(lines).cells) > Len(args) THEN part' = "fatal" /\ UNCHANGED runconfigs
       ELSE runconfigs' = Append(runconfigs, RowConfig(Head(lines).cells)) /\ UNCHANGED part
    /\ UNCHANGED <<whole, master, args, simRange, selected>>

\* The end of the file; startBuild wants at least one run.
ReadEnd ==
    /\ part \in {"global", "skip", "runs"} /\ lines = <<>>
    /\ part' = IF runconfigs = <<>> THEN "fatal" ELSE "read"
    /\ UNCHANGED <<lines, whole, master, args, runconfigs, simRange, selected>>

\* The stop for a range that starts with a number.
StopIndex(range, rcs) ==
    IF Len(range) = 1 THEN range[1] ELSE IF range[2] = NaN THEN rcs ELSE range[2]

\* If the range does not start with a number, start is 0 and all are run.
getStartStop(range, rcs) ==
    IF range[1] = NaN THEN <<0, rcs - 1>> ELSE <<range[1], StopIndex(range, rcs)>>

RunTests(range) ==
    /\ part = "read"
    /\ part' = "run"
    /\ simRange' = range
    /\ LET ss == getStartStop(range, Len(runconfigs))
       IN selected' = {i \in 0..Len(runconfigs) - 1 : ~(i < ss[1] \/ i > ss[2])}
    /\ UNCHANGED <<lines, whole, master, args, runconfigs>>

RunFileNext ==
    \/ \E f \in RunFiles : OpenFile(f)
    \/ ReadGlobal \/ ReadHeader \/ ReadRun \/ ReadEnd
    \/ \E range \in SimRanges : RunTests(range)

-----------------------------------------------------------------------------
(* Properties *)

\* Each run sees the values of its own row and, for the names that its row does not
\* give, those of the first part, the last one if there are several; never those of
\* another row.  Names are the same in upper and lower case.
RunsAreApart ==
    part \in {"read", "run"} => \A r \in DOMAIN runconfigs :
        LET rows == SelectSeq(whole, LAMBDA l : l.kind \in {"row", "blank"})
            header == CHOOSE i \in DOMAIN rows : rows[i].kind = "row" /\ \A j \in 1..i - 1 : rows[j] = Blank
            row == rows[header + r].cells
            Column(k) == {i \in DOMAIN row : Lower[rows[header].cells[i]] = k}
            Pairs(k) == SelectSeq(whole, LAMBDA l : l.kind = "pair" /\ Lower[l.cells[1]] = k)
            Given(k) ==
              IF Column(k) # {} THEN row[CHOOSE i \in Column(k) : \A j \in Column(k) : j <= i]
              ELSE Last(Pairs(k)).cells[2]
        IN \A k \in DOMAIN runconfigs[r] :
             /\ Column(k) # {} \/ Pairs(k) # <<>>
             /\ Map(runconfigs[r])[k] = Unquoted[Given(k)]

\* -range selects "3" alone, "3:4" with both ends, and all from 3 on for "3:".
RangeIsSelected ==
    part = "run" /\ simRange[1] # NaN =>
        selected = {i \in 0..Len(runconfigs) - 1 :
                      /\ i >= simRange[1]
                      /\ Len(simRange) = 1 => i = simRange[1]
                      /\ Len(simRange) = 2 /\ simRange[2] # NaN => i <= simRange[2]}

(* The runs that take place are those of the file, each with its own settings.         *)
RunsAreAsWritten == RunsAreApart /\ RangeIsSelected

=============================================================================
