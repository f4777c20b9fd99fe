----------------------------- MODULE CallGraph -----------------------------
(***************************************************************************)
(* After a trace was loaded, buildCallGraph() derives a call graph from    *)
(* its stack frames: for each event collection, that is, for each CPU, it  *)
(* goes through the frames by their starts, keeps the stack of calls in    *)
(* progress, and notes for each frame its parent, its children, its depth  *)
(* and the periods in which it was at the top of the stack.  Afterwards,   *)
(* dumpCallGraph() may write each period with the amounts by which the     *)
(* hardware counters of the CPU went up in it, for which it interpolates   *)
(* the values of the counters at both ends of the period.                  *)
(*                                                                         *)
(* All of this is one thread; an action is one turn of a loop.             *)
(***************************************************************************)
EXTENDS Integers, Sequences, FiniteSets, SequencesExt, FiniteSetsExt, TLC

CONSTANTS
  Cpus,     \* number of event collections
  Addr,     \* addresses of functions
  Traces    \* traces that may be loaded, with the symbols of the program:
            \*   frames   sequence of [cpu, start, end, addr]
            \*   counters cpu -> sequence of counters, each a sequence of
            \*            [time, value]
            \*   work     cpu -> sequence of [start, end], work-sharing regions
            \*   symbols  function of addresses that have a symbol

(* The frames of a CPU are nested or apart; its counters are read together *)
(* and count upwards.                                                      *)
ASSUME TracesAssumption ==
  /\ Cpus \in Nat \ {0}
  /\ \A t \in Traces :
       /\ \A i \in DOMAIN t.frames :
            /\ t.frames[i].cpu \in 1 .. Cpus
            /\ t.frames[i].start < t.frames[i].end
            /\ t.frames[i].addr \in Addr
       /\ \A i, j \in DOMAIN t.frames :
            t.frames[i].cpu = t.frames[j].cpu =>
              \/ t.frames[i].end <= t.frames[j].start
              \/ t.frames[j].end <= t.frames[i].start
              \/ /\ t.frames[i].start <= t.frames[j].start
                 /\ t.frames[j].end <= t.frames[i].end
              \/ /\ t.frames[j].start <= t.frames[i].start
                 /\ t.frames[i].end <= t.frames[j].end
       /\ DOMAIN t.symbols \subseteq Addr
       /\ DOMAIN t.counters = 1 .. Cpus
       /\ DOMAIN t.work = 1 .. Cpus
       /\ \A c \in 1 .. Cpus : \A k, l \in DOMAIN t.counters[c] :
            LET a == t.counters[c][k]
                b == t.counters[c][l]
            IN /\ Len(a) = Len(b)
               /\ \A i \in DOMAIN a : /\ a[i].time = b[i].time
                                      /\ i > 1 => /\ a[i - 1].time < a[i].time
                                                  /\ a[i - 1].value <= a[i].value

VARIABLES
  trace,              \* the trace that was loaded
  symbolsByAddr,      \* symbols_by_addr, which the function adds to
  functionSymbol,     \* function_symbol_map: address -> name
  symbolFrameCounts,  \* symbol_frame_counts: address -> number of frames
  cpu,                \* collection at hand, 0 before the first
  sorted,             \* frames of the collection that are still to come
  callStack,          \* current_call_stack, the innermost frame last
  previousPeriodEnd,  \* previous_period_end
  parentFrame,        \* frame -> its parent, 0 for none
  childFrames,        \* frame -> sequence of its children
  depth,              \* frame -> its depth, 0 as long as it is not set
  periods,            \* frame -> sequence of its periods
  periodArray,        \* cpu -> the array of periods of its collection
  dumped,             \* lines of the dump: intervals with their counts
  reading,            \* array being dumped, with start_event_pos and end_event_pos
  callPhase           \* what the function is about to do

callVars == <<trace, symbolsByAddr, functionSymbol, symbolFrameCounts, cpu,
              sorted, callStack, previousPeriodEnd, parentFrame, childFrames,
              depth, periods, periodArray, dumped, reading, callPhase>>

symbolVars == <<symbolsByAddr, functionSymbol, symbolFrameCounts>>
graphVars == <<parentFrame, childFrames, depth>>
dumpVars == <<dumped, reading>>

FrameIds == DOMAIN trace.frames
Start(f) == trace.frames[f].start
End(f) == trace.frames[f].end
AddrOf(f) == trace.frames[f].addr
FramesOf(c) == {f \in FrameIds : trace.frames[f].cpu = c}

(* The array whose intervals are being dumped: first the periods, then the *)
(* work regions of each collection, as arrays are sorted by their types.   *)
Array(c, kind) == [cpu |-> c, kind |-> kind, next |-> 1, first |-> 0, last |-> 0]

(* Mutant: the frames are taken in any order                               *)
UnsortedFrames(c) == SetToSeqs(FramesOf(c))

(* The frames of a collection in an order of their starts.  Quicksort does *)
(* not keep the order of frames that start together.                       *)
SortedFrames(c) ==
  {s \in SetToSeqs(FramesOf(c)) :
     \A i, j \in DOMAIN s : i < j => Start(s[i]) <= Start(s[j])}

-----------------------------------------------------------------------------
(* Building the call graph                                                 *)

CallInit ==
  /\ trace \in Traces
  /\ symbolsByAddr = trace.symbols
  /\ functionSymbol = <<>>
  /\ symbolFrameCounts = <<>>
  /\ cpu = 0
  /\ sorted = <<>>
  /\ callStack = <<>>
  /\ previousPeriodEnd = 0
  /\ parentFrame = [f \in FrameIds |-> 0]
  /\ childFrames = [f \in FrameIds |-> <<>>]
  /\ depth = [f \in FrameIds |-> 0]
  /\ periods = [f \in FrameIds |-> <<>>]
  /\ periodArray = [c \in 1 .. Cpus |-> <<>>]
  /\ dumped = <<>>
  /\ reading = Array(1, "period")
  /\ callPhase = "collection"

(* The next collection, with an empty stack.                               *)
NextCollection ==
  /\ callPhase = "collection"
  /\ cpu < Cpus
  /\ cpu' = cpu + 1
  /\ sorted' \in SortedFrames(cpu')
  /\ callStack' = <<>>
  /\ previousPeriodEnd' = 0
  /\ callPhase' = "frame"
  /\ UNCHANGED <<trace, symbolVars, graphVars, periods, periodArray, dumpVars>>

(* Mutant: only the frame that brings a symbol is counted                  *)
WithFirstCount(a) ==
  [b \in DOMAIN symbolFrameCounts \cup {a} |->
     IF b \notin DOMAIN symbolFrameCounts THEN 1 ELSE symbolFrameCounts[b]]

WithCount(a) ==
  [b \in DOMAIN symbolFrameCounts \cup {a} |->
     IF b \notin DOMAIN symbolFrameCounts THEN 1
     ELSE symbolFrameCounts[b] + (IF a = b THEN 1 ELSE 0)]

(* Looks up the symbol of the next frame.  If there are symbols, but none  *)
(* for this address, the function throws; if there are none, the address   *)
(* is added to them as unknown.                                            *)
LookUpSymbol ==
  /\ callPhase = "frame"
  /\ sorted # <<>>
  /\ LET a == AddrOf(Head(sorted))
         name == IF a \in DOMAIN symbolsByAddr THEN symbolsByAddr[a] ELSE "unknown"
         known == a \in DOMAIN functionSymbol
         found == known \/ a \in DOMAIN symbolsByAddr \/ symbolsByAddr = <<>>
     IN /\ callPhase' = IF found THEN "unwind" ELSE "failed"
        /\ symbolsByAddr' =
             IF symbolsByAddr = <<>> THEN (a :> name) ELSE symbolsByAddr
        /\ functionSymbol' =
             IF found /\ ~known THEN functionSymbol @@ (a :> name) ELSE functionSymbol
        /\ symbolFrameCounts' = IF found THEN WithCount(a) ELSE symbolFrameCounts
  /\ UNCHANGED <<trace, cpu, sorted, callStack, previousPeriodEnd, graphVars,
                 periods, periodArray, dumpVars>>

(* Mutant: the next period starts where this one does                      *)
TracePeriodStale(f, t) ==
  /\ periods' = [periods EXCEPT ![f] =
                   Append(@, [start |-> previousPeriodEnd, end |-> t])]
  /\ periodArray' = [periodArray EXCEPT ![cpu] =
                       Append(@, [frame |-> f, start |-> previousPeriodEnd,
                                  end |-> t, rank |-> Len(periods[f])])]
  /\ UNCHANGED previousPeriodEnd

(* Mutant: a frame's periods are all the first                             *)
TracePeriodUnranked(f, t) ==
  /\ periods' = [periods EXCEPT ![f] =
                   Append(@, [start |-> previousPeriodEnd, end |-> t])]
  /\ periodArray' = [periodArray EXCEPT ![cpu] =
                       Append(@, [frame |-> f, start |-> previousPeriodEnd,
                                  end |-> t, rank |-> 0])]
  /\ previousPeriodEnd' = t

(* Traces a period of f up to time t, which is where the next one starts.  *)
TracePeriod(f, t) ==
  /\ periods' = [periods EXCEPT ![f] =
                   Append(@, [start |-> previousPeriodEnd, end |-> t])]
  /\ periodArray' = [periodArray EXCEPT ![cpu] =
                       Append(@, [frame |-> f, start |-> previousPeriodEnd,
                                  end |-> t, rank |-> Len(periods[f])])]
  /\ previousPeriodEnd' = t

(* Mutant: a frame that ends later than the next one starts was taken for  *)
(* one that ended                                                          *)
StartedBefore(f) == Start(Last(callStack)) < Start(f)

(* The frame on top of the stack ended before the next one starts.         *)
EndedBefore(f) == End(Last(callStack)) < Start(f)

LeaveEnded ==
  /\ callPhase = "unwind"
  /\ callStack # <<>>
  /\ EndedBefore(Head(sorted))
  /\ TracePeriod(Last(callStack), End(Last(callStack)))
  /\ callStack' = Front(callStack)
  /\ UNCHANGED <<trace, symbolVars, graphVars, cpu, sorted, dumpVars, callPhase>>

(* The next frame is called by the one on top of the stack, whose period   *)
(* ends, or by none.                                                       *)
EnterFrame ==
  /\ callPhase = "unwind"
  /\ LET f == Head(sorted)
     IN /\ \/ /\ callStack # <<>>
              /\ ~EndedBefore(f)
              /\ TracePeriod(Last(callStack), Start(f))
              /\ parentFrame' = [parentFrame EXCEPT ![f] = Last(callStack)]
              /\ childFrames' = [childFrames EXCEPT ![Last(callStack)] = Append(@, f)]
           \/ /\ callStack = <<>>
              /\ previousPeriodEnd' = Start(f)
              /\ UNCHANGED <<parentFrame, childFrames, periods, periodArray>>
        /\ depth' = [depth EXCEPT ![f] = Len(callStack) + 1]
        /\ callStack' = Append(callStack, f)
  /\ sorted' = Tail(sorted)
  /\ callPhase' = "frame"
  /\ UNCHANGED <<trace, symbolVars, cpu, dumpVars>>

(* No more frames start: those on the stack end one by one.                *)
LeaveRemaining ==
  /\ callPhase = "frame"
  /\ sorted = <<>>
  /\ callStack # <<>>
  /\ TracePeriod(Last(callStack), End(Last(callStack)))
  /\ callStack' = Front(callStack)
  /\ UNCHANGED <<trace, symbolVars, graphVars, cpu, sorted, dumpVars, callPhase>>

EndCollection ==
  /\ callPhase = "frame"
  /\ sorted = <<>>
  /\ callStack = <<>>
  /\ callPhase' = IF cpu < Cpus THEN "collection" ELSE "built"
  /\ UNCHANGED <<trace, symbolVars, graphVars, cpu, sorted, callStack,
                 previousPeriodEnd, periods, periodArray, dumpVars>>

-----------------------------------------------------------------------------
(* Dumping the periods with the counts in them                             *)

(* A quotient, rounded towards 0                                           *)
Quotient(n, d) == IF n >= 0 THEN n \div d ELSE -((-n) \div d)

(* The value of a counter on the line through two samples, as an integer   *)
OnLine(a, b, t) ==
  Quotient(a.value * (b.time - a.time) + (b.value - a.value) * (t - a.time),
           b.time - a.time)

Interpolate(left, right, t) ==
  IF left.value = right.value THEN left.value ELSE OnLine(left, right, t)

Extrapolate(left, right, t) ==
  IF left.value = right.value THEN left.value
  ELSE IF t <= left.time THEN Max({0, OnLine(left, right, t)})
  ELSE IF t >= right.time THEN OnLine(left, right, t)
  ELSE -1

(* Mutant: the position of the first sample after time t                   *)
PositionAfter(samples, from, t) ==
  LET later == {l \in from .. Len(samples) - 1 : samples[l + 1].time > t}
  IN IF later = {} THEN -1 ELSE Min(later)

(* The positions, counted from 0, of the last sample up to time t and of   *)
(* the first one from time t on, -1 for none that was found.  The searches *)
(* go on where those of the interval before have ended.                    *)
PositionBefore(samples, from, t) ==
  LET later == {l \in from .. Len(samples) - 1 : samples[l + 1].time > t}
  IN IF later = {} THEN -1 ELSE Min(later) - 1

PositionFrom(samples, from, t) ==
  LET until == {l \in from .. Len(samples) - 1 : samples[l + 1].time >= t}
  IN IF until = {} THEN -1 ELSE Min(until)

Positions(samples, i) ==
  [before |-> PositionBefore(samples, reading.first, i.start),
   after  |-> PositionFrom(samples, reading.last, i.end)]

StartValue(samples, before, t) ==
  IF before = -1 THEN Extrapolate(samples[1], samples[2], t)
  ELSE IF before + 1 = Len(samples)
         THEN Extrapolate(samples[before], samples[before + 1], t)
         ELSE Interpolate(samples[before + 1], samples[before + 2], t)

EndValue(samples, after, t) ==
  LET n == Len(samples)
  IN IF after = -1 THEN Extrapolate(samples[n - 1], samples[n], t)
     ELSE Interpolate(samples[after], samples[after + 1], t)

(* The first sample has none before it: what lies in front of the array is *)
(* read.                                                                   *)
Undefined == -1

(* What a counter has counted in interval i.  The positions are those in   *)
(* the first counter, as all counters are read at the same times.          *)
CountIn(samples, at, i) ==
  IF at.after = 0 THEN Undefined
  ELSE Max({0, EndValue(samples, at.after, i.end)
                 - StartValue(samples, at.before, i.start)})

ArrayRead(r) == IF r.kind = "period" THEN periodArray[r.cpu] ELSE trace.work[r.cpu]

StartDump ==
  /\ callPhase = "built"
  /\ callPhase' = "dump"
  /\ UNCHANGED <<trace, symbolVars, graphVars, cpu, sorted, callStack,
                 previousPeriodEnd, periods, periodArray, dumpVars>>

(* The next interval of the array.  The program ends when a counter has    *)
(* fewer than two samples.                                                 *)
DumpInterval ==
  /\ callPhase = "dump"
  /\ reading.next <= Len(ArrayRead(reading))
  /\ LET i == ArrayRead(reading)[reading.next]
         counters == trace.counters[reading.cpu]
         at == Positions(counters[1], i)
         line == [array |-> [cpu |-> reading.cpu, kind |-> reading.kind],
                  start |-> i.start, end |-> i.end,
                  counts |-> [k \in DOMAIN counters |-> CountIn(counters[k], at, i)]]
         moved == [reading EXCEPT !.next = @ + 1]
     IN \/ /\ \E k \in DOMAIN counters : Len(counters[k]) < 2
           /\ callPhase' = "exit"
           /\ UNCHANGED dumpVars
        \/ /\ counters = <<>>
           /\ dumped' = Append(dumped, [line EXCEPT !.counts = <<>>])
           /\ reading' = moved
           /\ UNCHANGED callPhase
        \/ /\ counters # <<>>
           /\ \A k \in DOMAIN counters : Len(counters[k]) >= 2
           /\ dumped' = Append(dumped, line)
           /\ reading' = [moved EXCEPT !.first = IF at.before = -1 THEN @ ELSE at.before,
                                       !.last = IF at.after = -1 THEN @ ELSE at.after]
           /\ UNCHANGED callPhase
  /\ UNCHANGED <<trace, symbolVars, graphVars, cpu, sorted, callStack,
                 previousPeriodEnd, periods, periodArray>>

(* The next array; the program exits after the last one.                   *)
NextArray ==
  /\ callPhase = "dump"
  /\ reading.next > Len(ArrayRead(reading))
  /\ LET r == reading
     IN IF r.kind = "period"
          THEN reading' = Array(r.cpu, "work") /\ UNCHANGED callPhase
          ELSE IF r.cpu < Cpus
                 THEN reading' = Array(r.cpu + 1, "period") /\ UNCHANGED callPhase
                 ELSE callPhase' = "exit" /\ UNCHANGED reading
  /\ UNCHANGED <<trace, symbolVars, graphVars, cpu, sorted, callStack,
                 previousPeriodEnd, periods, periodArray, dumped>>

CallNext ==
  \/ NextCollection
  \/ LookUpSymbol
  \/ LeaveEnded
  \/ EnterFrame
  \/ LeaveRemaining
  \/ EndCollection
  \/ StartDump
  \/ DumpInterval
  \/ NextArray

CallSpec == CallInit /\ [][CallNext]_callVars

-----------------------------------------------------------------------------
(* Properties                                                              *)

(* The call graph of collection c is complete.                             *)
Built(c) ==
  \/ cpu > c
  \/ cpu = c /\ callPhase \in {"collection", "built", "dump", "exit"}

(* No frame of c starts with another or when another one ends.  Where one  *)
(* does, timestamps do not tell who called whom.                           *)
Apart(c) ==
  \A f, g \in FramesOf(c) : f # g => Start(f) # Start(g) /\ Start(f) # End(g)

Callers(f) ==
  {g \in FramesOf(trace.frames[f].cpu) \ {f} : Start(g) <= Start(f) /\ End(f) <= End(g)}

(* A frame is called by the shortest of the frames around it.              *)
CallerOf(f) ==
  IF Callers(f) = {} THEN 0
  ELSE CHOOSE g \in Callers(f) : Callers(g) = Callers(f) \ {g}

(* Types, and frames on the stack in the order of their starts             *)
CallTypeOK ==
  /\ cpu \in 0 .. Cpus
  /\ callStack \in Seq(FrameIds)
  /\ \A i, j \in DOMAIN callStack : i < j => Start(callStack[i]) <= Start(callStack[j])
  /\ DOMAIN symbolFrameCounts = DOMAIN functionSymbol
  /\ callPhase \in {"collection", "frame", "unwind", "built", "dump", "failed", "exit"}

(* A stack of frames that are only known by their starts and ends yields   *)
(* the nesting: each frame gets the innermost frame around it as parent,   *)
(* its depth is the number of frames around it plus one, and a parent's    *)
(* children are those that name it, in the order of their starts.          *)
GraphRight ==
  \A c \in 1 .. Cpus : Built(c) /\ Apart(c) =>
    \A f \in FramesOf(c) :
      /\ parentFrame[f] = CallerOf(f)
      /\ depth[f] = Cardinality(Callers(f)) + 1
      /\ ToSet(childFrames[f]) = {g \in FramesOf(c) : CallerOf(g) = f}
      /\ \A i, j \in DOMAIN childFrames[f] :
           i < j => Start(childFrames[f][i]) < Start(childFrames[f][j])

Units(i) == i.start .. i.end - 1
Running(f) == Start(f) .. End(f) - 1

(* The periods of a frame, in order and numbered, are the time in which it *)
(* and none of its children runs: no time is counted twice or lost between *)
(* a call and its return.                                                  *)
PeriodsTile ==
  \A c \in 1 .. Cpus : Built(c) /\ Apart(c) =>
    /\ \A f \in FramesOf(c) :
         /\ \A i, j \in DOMAIN periods[f] :
              i < j => periods[f][i].end < periods[f][j].start
         /\ UNION {Units(periods[f][i]) : i \in DOMAIN periods[f]}
              = Running(f) \ UNION {Running(g) : g \in {h \in FramesOf(c) : f \in Callers(h)}}
    /\ \A f \in FramesOf(c) :
         SelectSeq(periodArray[c], LAMBDA p : p.frame = f)
           = [i \in DOMAIN periods[f] |->
                [frame |-> f, start |-> periods[f][i].start,
                 end |-> periods[f][i].end, rank |-> i - 1]]

(* Frames of all CPUs share the symbol of their address, which counts all  *)
(* of them, and it has the name the program has for it.                    *)
SymbolsRight ==
  callPhase \in {"built", "dump", "exit"} =>
    /\ functionSymbol = [a \in {AddrOf(f) : f \in FrameIds} |->
                           IF a \in DOMAIN trace.symbols THEN trace.symbols[a]
                           ELSE "unknown"]
    /\ \A a \in DOMAIN functionSymbol :
         symbolFrameCounts[a] = Cardinality({f \in FrameIds : AddrOf(f) = a})

(* The line that holds value k of the counter                              *)
TrueValue(samples, t) ==
  LET n == Len(samples)
      i == CHOOSE j \in 1 .. n - 1 :
             /\ j > 1 => samples[j].time <= t
             /\ j < n - 1 => t < samples[j + 1].time
  IN Max({0, OnLine(samples[i], samples[i + 1], t)})

(* The intervals of its array that were dumped before line n started and   *)
(* ended no later.                                                         *)
InOrder(n) ==
  \A m \in 1 .. n - 1 : dumped[m].array = dumped[n].array =>
    /\ dumped[m].start <= dumped[n].start
    /\ dumped[m].end <= dumped[n].end

(* Searches that go on where the last one ended, and that are shared by    *)
(* all counters, find the samples around an interval: its count is the     *)
(* difference of the counter's values at its ends.  Periods are in order;  *)
(* work regions that are not, and intervals before the first or behind the *)
(* last sample are excepted.                                               *)
CountsRight ==
  \A n \in DOMAIN dumped : InOrder(n) =>
    \A k \in DOMAIN dumped[n].counts :
      LET samples == trace.counters[dumped[n].array.cpu][k]
      IN samples[1].time < dumped[n].end /\ dumped[n].start < Last(samples).time =>
           dumped[n].counts[k] = TrueValue(samples, dumped[n].end)
                                   - TrueValue(samples, dumped[n].start)

(* The periods of a collection follow each other: none starts before the   *)
(* one before it has ended.                                                *)
PeriodsOrdered ==
  \A c \in 1 .. Cpus : Apart(c) =>
    \A i \in DOMAIN periodArray[c] :
      /\ periodArray[c][i].start <= periodArray[c][i].end
      /\ i > 1 => periodArray[c][i - 1].end <= periodArray[c][i].start

(* The call graph recovered from the stack is that of the frames, and its  *)
(* functions have the names of the symbols; the periods of the calls       *)
(* divide the time of each frame among the innermost functions, in order,  *)
(* and counters are interpolated at their ends.                            *)
CallsRight ==
  /\ CallTypeOK /\ GraphRight /\ SymbolsRight
  /\ PeriodsTile /\ PeriodsOrdered /\ CountsRight
=============================================================================
