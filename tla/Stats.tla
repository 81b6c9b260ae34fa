------------------------------- MODULE Stats -------------------------------
(***************************************************************************)
(* The statistics of a simulation: the monitor stores measures by name,    *)
(* Collect filters them and computes the figures that are written.  The    *)
(* log prints the statistics of a finished run at debug level 3, which     *)
(* collects them as well.                                                  *)
(*                                                                         *)
(* The streaming mean of n integers is a multiple of 1/n: it is kept times *)
(* Scale, and the sum of squares times Scale^2, both exactly.              *)
(***************************************************************************)
EXTENDS Integers, Sequences, FiniteSets, SequencesExt

CONSTANTS
    StatKeys,       \* the names of the measures
    Percentiles,    \* the filter: percentiles of some of the measures
    Times,          \* the values measured
    MaxStored,      \* bound: the values stored for a measure
    MaxCollects     \* bound: how often the statistics are collected

Scale == 60         \* a multiple of 1..6

VARIABLES
    store,      \* the store of each Value
    value,      \* its figures
    collects,   \* how often they were collected
    late,       \* the measures that were updated after a Collect
    cells       \* the rows of WriteIndividualStats

stats_vars == <<store, value, collects, late, cells>>

NewValue == [n |-> 0, min |-> 0, max |-> 0, sum |-> 0, oldM |-> 0, oldS |-> 0]

StatsInit ==
    /\ store = [k \in StatKeys |-> <<>>] /\ value = [k \in StatKeys |-> NewValue]
    /\ collects = 0 /\ late = {} /\ cells = <<>>

\* Update and Store
UpdateStats(k, x) ==
    /\ Len(store[k]) < MaxStored
    /\ store' = [store EXCEPT ![k] = Append(@, x)]
    /\ late' = IF collects > 0 THEN late \cup {k} ELSE late
    /\ UNCHANGED <<value, collects, cells>>

\* stats.PercentileNearestRank
Percentile(values, p) ==
    LET sorted == SortSeq(values, LAMBDA x, y : x < y)
        rank == (Len(values) * p + 99) \div 100
    IN sorted[IF rank = 0 THEN 1 ELSE rank]

\* DataFilter.Filter: what comes before the last value above the percentile.
Filter(k, values) ==
    LET above == {i \in DOMAIN values : values[i] > Percentile(values, Percentiles[k])} IN
    IF k \notin DOMAIN Percentiles \/ values = <<>> THEN values
    ELSE IF above = {} THEN values
    ELSE SubSeq(values, 1, (CHOOSE i \in above : \A j \in above : j <= i) - 1)

Square(oldM, newM, x) == (Scale * x - oldM) * (Scale * x - newM)

\* One value in the loop of Value.Collect.
Take1(t, x) ==
    LET n == t.n + 1
        newM == IF n = 1 THEN Scale * x ELSE t.oldM + (Scale * x - t.oldM) \div n
    IN [n |-> n,
        min |-> IF t.min > x \/ t.n = 0 THEN x ELSE t.min,
        max |-> IF t.max < x THEN x ELSE t.max,
        sum |-> t.sum + x,
        oldM |-> newM,
        oldS |-> IF n = 1 THEN 0 ELSE t.oldS + Square(t.oldM, newM, x)]

\* Mutation: the sum is kept from the last time.
KeepsSum(t) == t

\* Only the sum starts again.
Restarted(t) == [t EXCEPT !.sum = 0]

ValueCollect(t, values) == FoldLeft(Take1, Restarted(t), values)

\* Stats.Collect, by WriteValues or by the log.
Collect ==
    /\ collects < MaxCollects
    /\ collects' = collects + 1
    /\ store' = [k \in StatKeys |-> Filter(k, store[k])]
    /\ value' = [k \in StatKeys |-> ValueCollect(value[k], store'[k])]
    /\ UNCHANGED <<late, cells>>

\* SingleValues
SingleValues(k, entry) == IF entry <= Len(store[k]) THEN store[k][entry] ELSE store[k][1]

\* WriteIndividualStats: an error unless every measure has one value or the same number.
WriteIndividualStats ==
    LET keys == {k \in StatKeys : store[k] # <<>>}
        lengths == {Len(store[k]) : k \in keys} \ {1}
        n == IF lengths = {} THEN 1 ELSE CHOOSE l \in lengths : TRUE
    IN /\ keys # {} /\ Cardinality(lengths) <= 1
       /\ cells' = [entry \in 1..n |-> [k \in keys |-> SingleValues(k, entry)]]
       /\ UNCHANGED <<store, value, collects, late>>

\* Once the rows are written the statistics are no longer used.
StatsNext ==
    /\ cells = <<>>
    /\ \/ \E k \in StatKeys, x \in Times : UpdateStats(k, x)
       \/ Collect
       \/ WriteIndividualStats

-----------------------------------------------------------------------------
SumOf(s) == FoldLeft(+, 0, s)

(* The mean that is written is that of the stored values, even when the log has    *)
(* collected them before; so are the least and the greatest value and their sum.   *)
(* The exceptions are a measure that arrives after it was collected, which counts  *)
(* once and the ones before it twice, and a filter, which then cuts twice.         *)
FiguresAreExact == \A k \in StatKeys :
    LET s == store[k]
        t == value[k] IN
    (s # <<>> /\ k \notin late /\ collects > 0 /\ (k \in DOMAIN Percentiles => collects = 1)) =>
        /\ t.sum = SumOf(s) /\ t.oldM * Len(s) = Scale * SumOf(s)
        /\ t.min \in ToSet(s) /\ t.max \in ToSet(s)
        /\ \A i \in DOMAIN s : t.min <= s[i] /\ s[i] <= t.max

(* Collected once, the streaming sum of squares is the sum of the squared distances *)
(* from the mean.                                                                   *)
DeviationIsExact == \A k \in StatKeys :
    (k \notin late /\ collects = 1 /\ store[k] # <<>>) =>
        value[k].oldS = SumOf([i \in DOMAIN store[k] |->
                                 (Scale * store[k][i] - value[k].oldM) ^ 2])

(* The individual rows lose no measure: one row for each time a measure was taken, *)
(* with that measure, and those taken once in every row.                           *)
RowsAreFull == cells # <<>> => \A k \in DOMAIN cells[1] :
    LET column == [i \in DOMAIN cells |-> cells[i][k]] IN
    \/ IsPrefix(column, store[k])
    \/ \A i \in DOMAIN column : column[i] = column[1] /\ column[1] = store[k][1]

(* The figures and rows that are written are those of the measures that were stored.   *)
StatsAreExact == FiguresAreExact /\ DeviationIsExact /\ RowsAreFull

=============================================================================
