--------------------------- MODULE MCBacktestData ---------------------------
(* Instances of BacktestData for TLC: hours of 2 minutes, days of 4, a warm-up *)
(* of one day, and two symbols.                                               *)
EXTENDS BacktestData, TLC

CONSTANTS btc, eth

Bar(t) == [time |-> t, valid |-> TRUE]
Series(from, to) == [i \in 1..(to - from + 1) |-> Bar(from + i - 1)]
Without(q, i) == SubSeq(q, 1, i - 1) \o SubSeq(q, i + 1, Len(q))

\* A series with one thing wrong: a bar missing, twice, out of order or invalid.
Damaged(q) ==
  {Without(q, i) : i \in DOMAIN q}
    \union {SubSeq(q, 1, i) \o SubSeq(q, i, Len(q)) : i \in DOMAIN q}
    \union {[q EXCEPT ![i] = q[i + 1], ![i + 1] = q[i]] : i \in 1..(Len(q) - 1)}
    \union {[q EXCEPT ![i].valid = FALSE] : i \in DOMAIN q}

Starts == 0..3
Ends == 8..12
AllSeries == {Series(a, b) : a \in Starts, b \in Ends}

Funding == [i \in 1..7 |-> 2 * (i - 1)]
Known(from) == [from |-> from, knowable |-> TRUE]
Metadata == <<Known(0)>>

Both(x, y) == [s \in {btc, eth} |-> IF s = btc THEN x ELSE y]
Snap(k, f, m) == [klines |-> k, funding |-> f, metadata |-> m]
Good(k) == Snap(k, Both(Funding, Funding), Both(Metadata, Metadata))

\* Any two series; one of them damaged; funding rows missing or repeated; a
\* metadata row that comes late, twice, or with sizes nobody knows.
MCSnapshots ==
  {Good(Both(x, y)) : x, y \in AllSeries}
    \union {Good(Both(x, y)) : x \in UNION {Damaged(q) : q \in AllSeries}, y \in {Series(1, 11)}}
    \union {Snap(Both(x, Series(0, 11)), Both(f, Funding), Both(Metadata, Metadata)) :
              x \in AllSeries,
              f \in {Without(Funding, i) : i \in 1..7} \union {Append(Funding, i) : i \in 0..3}}
    \union {Snap(Both(x, Series(0, 11)), Both(Funding, Funding), Both(m, Metadata)) :
              x \in AllSeries,
              m \in {<<>>} \union {<<Known(a), [from |-> b, knowable |-> v]>> :
                                     a \in {0, 2, 3}, b \in {2, 5, 9}, v \in BOOLEAN}}
    \union {Good(Both(q, Series(0, 11))) :
              q \in UNION {[1..n -> [time : 0..4, valid : {TRUE}]] : n \in 0..4}}
=============================================================================
