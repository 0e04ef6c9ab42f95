------------------------------ MODULE MetricLog -------------------------------
(***************************************************************************)
(* The metric log: core/log/metric, read by the "metric" command and by    *)
(* the task that sends metrics to the dashboard.                           *)
(*                                                                         *)
(* Each second the aggregator takes the counters of the seconds that have  *)
(* ended and queues them; the writer task appends them to the current file *)
(* and, for each new second, its position to the file's index; a search    *)
(* finds its first position in the indexes and reads on from there.        *)
(* Nothing makes a search and the writer take turns.                       *)
(*                                                                         *)
(* Times are in seconds, sizes and positions in lines, and a line is the   *)
(* second, the kind of node and the process that wrote it.  The clock does *)
(* not go back.  A file is a name [day, number]; a name without a number   *)
(* has number 0.                                                           *)
(***************************************************************************)
EXTENDS Integers, Sequences, FiniteSets, SequencesExt, FiniteSetsExt, Functions

CONSTANTS
    QueueSize,       \* logFlushQueueSize
    MaxSingleSize, MaxFileAmount,
    DayLength, TimezoneOffset,  \* 86400 and the offset of the local zone
    MaxItemAmount,   \* most lines of one search by end time
    MaxLastFetchInterval, FetchInterval,  \* of the sender: 15 s and 2 s
    Queries,         \* what a dashboard asks: [begin, end, lines, resource]
    StartTime, MaxTime,  \* bound: the clock
    MaxRuns,         \* bound: starts of the process
    MaxFailures,     \* bound: files that cannot be created or removed
    MaxSearches      \* bound: searches

ASSUME SizesAssumption ==
    /\ QueueSize \in Nat /\ DayLength \in Nat \ {0}
    /\ MaxSingleSize \in Nat \ {0} /\ MaxFileAmount \in Nat \ {0}

VARIABLES
    now,             \* the clock
    data, index,     \* the directory: name -> lines, name -> <<second, position>>s
    lastFetchTime,   \* of the aggregator
    queue,           \* writeChan, and last the batch an aggregator waits to put in
    latestOpSec,     \* the writer's newest second
    cur,             \* the name of the open files
    w,               \* where the writer is
    s,               \* the search under way: sendMetricCommandHandler.mux lets in one
    latestSendTime,  \* of the sender
    run, failures, searches

disk == <<data, index>>
bounds == <<run, failures, searches>>
vars == <<now, disk, lastFetchTime, queue, latestOpSec, cur, w, s, latestSendTime, bounds>>

NoFile == [day |-> -1, num |-> -1]
Line(sec, kind) == [sec |-> sec, kind |-> kind, run |-> run]
MaxOf2(a, b) == IF a >= b THEN a ELSE b

-------------------------------------------------------------------------------
(* The files.                                                              *)

Day(sec) == (sec + TimezoneOffset) \div DayLength
isNewDay(last, sec) == Day(sec) > Day(last)

\* filenameComparator: by date, then by number.
Earlier(n, m) == n.day < m.day \/ (n.day = m.day /\ n.num < m.num)

listMetricFiles == SetToSortSeq(DOMAIN data, Earlier)

nextFileNameOfTime(sec) ==
    LET numbers == {n.num : n \in {f \in DOMAIN data : f.day = Day(sec)}}
    IN [day |-> Day(sec), num |-> IF numbers = {} THEN 0 ELSE Max(numbers) + 1]

\* How many of the oldest removeDeprecatedFiles removes.
AmountToRemove(files) == MaxOf2(0, Len(files) - MaxFileAmount + 1)

\* rollToNextFile: the new name is chosen before files are removed.
Roll(why, sec, batch) ==
    LET doomed == SubSeq(listMetricFiles, 1, AmountToRemove(listMetricFiles))
    IN [pc |-> IF doomed = <<>> THEN "create" ELSE "remove", why |-> why, batch |-> batch,
        name |-> nextFileNameOfTime(sec), doomed |-> doomed]

WriterIdle == [pc |-> "idle", batch |-> <<>>, why |-> "", name |-> NoFile, doomed |-> <<>>]
Writing(pc, batch) == [WriterIdle EXCEPT !.pc = pc, !.batch = batch]

\* metricWriterLoop goes on to the next second, whatever became of this one.
NextSecond == IF Len(w.batch) <= 1 THEN WriterIdle ELSE Writing("write", Tail(w.batch))

Sec == Head(w.batch).sec

SearchIdle == [pc |-> "idle"]

\* InitTask and initialize: the writer's second is the one it starts in, and
\* with a file it cannot create neither task is started.
Init ==
    /\ now = StartTime /\ run = 1 /\ failures = 0 /\ searches = 0
    /\ data = <<>> /\ index = <<>>
    /\ lastFetchTime = -1 /\ queue = <<>> /\ latestOpSec = now /\ cur = NoFile
    /\ w = Roll("start", now, <<>>)
    /\ s = SearchIdle /\ latestSendTime = 0

\* The process is killed wherever it is and starts again with the same files.
Restart ==
    /\ run < MaxRuns
    /\ run' = run + 1
    /\ lastFetchTime' = -1 /\ queue' = <<>> /\ latestOpSec' = now /\ cur' = NoFile
    /\ w' = Roll("start", now, <<>>)
    /\ s' = SearchIdle /\ latestSendTime' = 0
    /\ UNCHANGED <<now, disk, failures, searches>>

Tick ==
    /\ now < MaxTime
    /\ now' = now + 1
    /\ UNCHANGED <<disk, lastFetchTime, queue, latestOpSec, cur, w, s, latestSendTime, bounds>>

-------------------------------------------------------------------------------
(* aggregator.go                                                           *)

\* currentMetricItems: the ended seconds since the last time in which some
\* node counted anything, at first any since the process started.
ItemsInTime == (IF lastFetchTime = -1 THEN latestOpSec ELSE lastFetchTime)..(now - 1)

\* SecondMetricsOnCondition makes one item of the buckets of each such second, and
\* isActiveMetricItem drops those that counted nothing.
SecondMetricsOnCondition == SUBSET ItemsInTime

\* doAggregate: the lines of the CPU and of the load carry the second that has
\* just begun.  A full channel keeps the aggregator waiting with its batch.
Aggregate ==
    /\ w.why # "start" /\ w.pc # "off"
    /\ now > lastFetchTime
    /\ Len(queue) <= QueueSize
    /\ \E active \in SecondMetricsOnCondition :
         LET seconds == SetToSortSeq(active \cup {now}, <)
         IN queue' = Append(queue, [i \in DOMAIN seconds |->
                [sec |-> seconds[i],
                 lines |-> <<Line(seconds[i], IF seconds[i] = now THEN "cpu" ELSE "node")>>]])
    /\ lastFetchTime' = now
    /\ UNCHANGED <<now, disk, latestOpSec, cur, w, s, latestSendTime, bounds>>

\* writeTaskLoop takes the next batch, its seconds sorted.
TakeBatch ==
    /\ w.pc = "idle" /\ queue # <<>>
    /\ w' = Writing("write", Head(queue))
    /\ queue' = Tail(queue)
    /\ UNCHANGED <<now, disk, lastFetchTime, latestOpSec, cur, s, latestSendTime, bounds>>

-------------------------------------------------------------------------------
(* writer.go                                                               *)

FilePosition == IF cur \in DOMAIN data THEN Len(data[cur]) ELSE 0

AppendTo(files, name, lines) ==
    IF name \in DOMAIN files THEN [files EXCEPT ![name] = @ \o lines] ELSE files

\* Write, up to the items: a second older than the newest is dropped, a newer
\* one is entered in the index of the file that is open before a new day's.
\* On a closed file neither the position nor a flush succeeds.
WriteIndex ==
    /\ w.pc = "write"
    /\ IF cur = NoFile \/ Sec < latestOpSec
       THEN w' = NextSecond /\ UNCHANGED index
       ELSE /\ index' = IF Sec = latestOpSec THEN index
                        ELSE AppendTo(index, cur, <<<<Sec, FilePosition>>>>)
            /\ w' = IF isNewDay(latestOpSec, Sec) THEN Roll("day", Sec, w.batch)
                    ELSE Writing("items", w.batch)
    /\ UNCHANGED <<now, data, lastFetchTime, queue, latestOpSec, cur, s, latestSendTime, bounds>>

Written == latestOpSec' = MaxOf2(latestOpSec, Sec) /\ w' = NextSecond

\* writeItemsAndFlush, then rollFileIfSizeExceeded.
WriteItems ==
    /\ w.pc = "items"
    /\ data' = AppendTo(data, cur, Head(w.batch).lines)
    /\ IF FilePosition + Len(Head(w.batch).lines) >= MaxSingleSize
       THEN w' = Roll("size", Sec, w.batch) /\ UNCHANGED latestOpSec
       ELSE Written
    /\ UNCHANGED <<now, index, lastFetchTime, queue, cur, s, latestSendTime, bounds>>

\* A failed roll ends the Write, before the items or before the newest second
\* is remembered; a failed first one ends the metric log.
RollFails == w' = IF w.why = "start" THEN Writing("off", <<>>) ELSE NextSecond

Fails == failures < MaxFailures /\ failures' = failures + 1
Succeeds == UNCHANGED failures

\* removeDeprecatedFiles: a file that cannot be removed is passed over.
RemoveFile ==
    /\ w.pc = "remove"
    /\ w' = [w EXCEPT !.pc = "remove index"]
    /\ \/ Succeeds /\ data' = Restrict(data, DOMAIN data \ {Head(w.doomed)})
       \/ Fails /\ UNCHANGED data
    /\ UNCHANGED <<now, index, lastFetchTime, queue, latestOpSec, cur, s, latestSendTime, run, searches>>

\* Its error is that of the last index: missing or not removable.
RemoveIndex ==
    /\ w.pc = "remove index"
    /\ LET name == Head(w.doomed)
           Goes(ok) ==
             IF Len(w.doomed) > 1 THEN w' = [w EXCEPT !.pc = "remove", !.doomed = Tail(@)]
             ELSE IF ok THEN w' = [w EXCEPT !.pc = "create", !.doomed = <<>>]
             ELSE RollFails
       IN \/ Succeeds /\ index' = Restrict(index, DOMAIN index \ {name}) /\ Goes(name \in DOMAIN index)
          \/ Fails /\ UNCHANGED index /\ Goes(FALSE)
    /\ UNCHANGED <<now, data, lastFetchTime, queue, latestOpSec, cur, s, latestSendTime, run, searches>>

\* closeCurAndNewFile: the files are closed first, and a write to a closed file
\* fails before it could roll again.
CreateFile ==
    /\ w.pc = "create"
    /\ cur' = NoFile
    /\ \/ /\ Succeeds
          /\ data' = [n \in DOMAIN data \cup {w.name} |-> IF n = w.name THEN <<>> ELSE data[n]]
          /\ w' = [w EXCEPT !.pc = "create index"]
       \/ Fails /\ RollFails /\ UNCHANGED data
    /\ UNCHANGED <<now, index, lastFetchTime, queue, latestOpSec, s, latestSendTime, run, searches>>

CreateIndex ==
    /\ w.pc = "create index"
    /\ \/ /\ Succeeds
          /\ index' = [n \in DOMAIN index \cup {w.name} |-> IF n = w.name THEN <<>> ELSE index[n]]
          /\ cur' = w.name
          /\ CASE w.why = "start" -> w' = WriterIdle /\ UNCHANGED latestOpSec
               [] w.why = "day" -> w' = Writing("items", w.batch) /\ UNCHANGED latestOpSec
               [] w.why = "size" -> Written
       \/ Fails /\ RollFails /\ UNCHANGED <<index, cur, latestOpSec>>
    /\ UNCHANGED <<now, data, lastFetchTime, queue, s, latestSendTime, run, searches>>

-------------------------------------------------------------------------------
(* searcher.go and reader.go                                               *)

OnDisk == UNION {Range(data[n]) : n \in DOMAIN data}

\* searchOffsetAndRead lists the files once and begins with the oldest.
Search(query) ==
    [pc |-> "find", query |-> query, files |-> listMetricFiles, i |-> 1, pos |-> 0,
     result |-> <<>>, there |-> OnDisk]

Asks(query) == searches < MaxSearches /\ searches' = searches + 1 /\ s' = Search(query)

\* SendMetric: the window starts after the last one, no earlier than 15 seconds
\* ago, and ends two seconds ago or earlier.  It is passed over for good when
\* there is no port or no address yet, and whatever the five posts bring.
SendMetric ==
    LET begin == MaxOf2(now - MaxLastFetchInterval, latestSendTime + 1)
        end == begin + FetchInterval
    IN /\ s.pc = "idle"
       /\ end <= now - FetchInterval
       /\ latestSendTime' = end
       /\ \/ UNCHANGED <<s, searches>>
          \/ Asks([begin |-> begin, end |-> end, lines |-> 0, resource |-> ""])
       /\ UNCHANGED <<now, disk, lastFetchTime, queue, latestOpSec, cur, w, run, failures>>

\* sendMetricCommandHandler.Handle for a command that has a startTime; without
\* an endTime it asks for a number of lines, none if the command names none.
Handle ==
    /\ s.pc = "idle"
    /\ \E query \in Queries : Asks(query)
    /\ UNCHANGED <<now, disk, lastFetchTime, queue, latestOpSec, cur, w, latestSendTime, run, failures>>

ByLines == s.query.end = 0

\* A plausible slip: a search begins after its first second.
FirstEntry_After(entries, begin) == SelectInSeq(entries, LAMBDA e : e[1] > begin)

\* The first entry of an index at or after a second, 0 if there is none.
FirstEntry(entries, begin) == SelectInSeq(entries, LAMBDA e : e[1] >= begin)

searching == <<now, disk, lastFetchTime, queue, latestOpSec, cur, w, latestSendTime, bounds>>

\* findOffsetToStart in one file after the other; one without its index is
\* passed over.
FindOffset ==
    /\ s.pc = "find"
    /\ IF s.i > Len(s.files) THEN s' = [s EXCEPT !.pc = "done"]
       ELSE LET name == s.files[s.i]
                e == IF name \in DOMAIN index THEN FirstEntry(index[name], s.query.begin) ELSE 0
            IN s' = IF e = 0 THEN [s EXCEPT !.i = @ + 1]
                    ELSE [s EXCEPT !.pc = "read", !.pos = index[name][e][2]]
    /\ UNCHANGED searching

\* readMetricsInOneFileByEndTime: up to the first line of another time.
ReadByEndTime(lines) ==
    LET q == s.query
        out == SelectInSeq(lines, LAMBDA l : l.sec \notin q.begin..q.end)
        wanted == SelectSeq(IF out = 0 THEN lines ELSE SubSeq(lines, 1, out - 1),
                            LAMBDA l : q.resource \in {"", l.kind})
        room == MaxItemAmount - Len(s.result)
    IN [items |-> SubSeq(wanted, 1, Min({room, Len(wanted)})),
        continues |-> out = 0 /\ Len(wanted) < room]

\* readMetricsInOneFile: as many lines as asked for, and the rest of the second
\* of the last one, but not beyond the end of the file.
ReadLines(lines) ==
    LET room == s.query.lines - Len(s.result)
        LastSec(k) == IF k > 1 THEN lines[k - 1].sec
                      ELSE IF s.result = <<>> THEN 0 ELSE Last(s.result).sec
        stops == {k \in DOMAIN lines : k > room /\ lines[k].sec # LastSec(k)}
    IN IF stops # {} THEN [items |-> SubSeq(lines, 1, Min(stops) - 1), continues |-> FALSE]
       ELSE [items |-> lines, continues |-> Len(lines) < room]

\* ReadMetricsByEndTime and ReadMetrics: this file from the position, the next
\* ones from their beginning.  A file that is gone fails the search.
Read ==
    /\ s.pc = "read"
    /\ IF s.files[s.i] \notin DOMAIN data THEN s' = [s EXCEPT !.pc = "failed", !.result = <<>>]
       ELSE LET lines == SubSeq(data[s.files[s.i]], s.pos + 1, Len(data[s.files[s.i]]))
                part == IF ByLines THEN ReadLines(lines) ELSE ReadByEndTime(lines)
            IN s' = [s EXCEPT !.pc = IF part.continues /\ s.i < Len(s.files) THEN "read" ELSE "done",
                              !.result = @ \o part.items, !.pos = 0, !.i = @ + 1]
    /\ UNCHANGED searching

Answer ==
    /\ s.pc \in {"done", "failed"}
    /\ s' = SearchIdle
    /\ UNCHANGED searching

-------------------------------------------------------------------------------
Next ==
    \/ Restart \/ Tick \/ Aggregate \/ TakeBatch
    \/ WriteIndex \/ WriteItems \/ RemoveFile \/ RemoveIndex \/ CreateFile \/ CreateIndex
    \/ SendMetric \/ Handle \/ FindOffset \/ Read \/ Answer

Spec == Init /\ [][Next]_vars

-------------------------------------------------------------------------------
\* A line was there before the search and is still, and its file or an older one
\* is kept with an index that enters a second from the search's first to its.
\* The lines of the second a process starts in have no such entry of their own,
\* nor have those whose second's entry went with an older file.
Indexed(line) ==
    \E n \in DOMAIN data, m \in DOMAIN data \cap DOMAIN index \cap Range(s.files) :
        \E k \in DOMAIN data[n], e \in DOMAIN index[m] :
            /\ data[n][k] = line /\ line \in s.there
            /\ index[m][e][1] \in s.query.begin..line.sec
            /\ Earlier(m, n) \/ m = n

\* A search that succeeds brings the lines of its seconds and no others, each
\* once and in order, and if it goes by end time it brings every indexed one,
\* whatever was rolled, removed or failed to be created before it and during it
\* (writer.go:39 Write, searcher.go:50 searchOffsetAndRead).
SearchExact ==
    s.pc = "done" =>
        /\ \A i, j \in DOMAIN s.result :
             i < j => s.result[i] # s.result[j] /\ s.result[i].sec <= s.result[j].sec
        /\ \A l \in Range(s.result) : l.sec >= s.query.begin /\ (ByLines \/ l.sec <= s.query.end)
        /\ ~ByLines /\ Len(s.result) < MaxItemAmount =>
             \A l \in s.there :
                 /\ l.sec \in s.query.begin..s.query.end
                 /\ s.query.resource \in {"", l.kind}
                 /\ Indexed(l)
                 => l \in Range(s.result)
===============================================================================
