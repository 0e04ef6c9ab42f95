----------------------------- MODULE MCMetricLog ------------------------------
(* Instances of MetricLog.tla.                                             *)
EXTENDS MetricLog

Query(begin, end, lines, resource) ==
    [begin |-> begin, end |-> end, lines |-> lines, resource |-> resource]
\* by end time, for one kind of node, and by a number of lines
MCQueries ==
    {Query(5, 6, 0, ""), Query(4, 7, 0, "node"), Query(5, 0, 2, ""), Query(5, 0, 0, "")}
===============================================================================
