# A verification development for Aftermath

[Aftermath](../src) is a tool for trace-based performance analysis.  A program
records a trace into buffers and a file (`libaftermath-trace`), the file is
loaded into arrays of events (`libaftermath-core`), drawn on timelines
(`libaftermath-render`), and a GUI (`aftermath`) shows it through a *data-flow
graph* (DFG): nodes for the trace, filters, statistics, timelines and widgets,
whose ports exchange data through connections that the user may edit.  The
repository has no tests and documents the library's internals only in comments.

This directory holds TLA+ models of the parts that decide something: the
scheduler of the graph, the session that calls it, the graph with its editor,
buffers and files, the recording, conversion and loading of traces, what is
derived from a loaded trace, and what a timeline shows.  TLC checks them on small
instances; TLAPS proves theorems about the scheduler, the session, the editor,
the graph and its buffers, recording and loading, the periods derived from a
trace, searching and the arithmetic for all instances.

Paths below are relative to `src/`; `core` is `libaftermath-core/src`, `render` is
`libaftermath-render/src`, `gui` is `aftermath/src`.

## 1. Inventory

| Component | State | Operations | What makes it hard | What makes it correct |
|---|---|---|---|---|
| Scheduler (`core/dfg_schedule.c`) | per node: required, negotiated and propagated mask, counter of outstanding inputs, marking; per port: generation; the lists of a call | `am_dfg_schedule_graph`, `am_dfg_schedule_component` and the helpers they call | requests travel in both directions until they converge; counters are set up before nodes run; process functions fail, and may start another call | the least closed masks; every requested node runs once, after its inputs; calls return; what was used is not taken for new again |
| Ports, masks, node types (`core/dfg_node.[ch]`) | tables per node type; connections per port | mask algebra, activation, connecting and disconnecting one side | 64-bit words, generations that wrap around | generations are never 0 once written |
| Graph (`core/dfg_graph.c`) | nodes by id, buffers | add, remove, connect, disconnect, load, save, check for cycles | failure at each allocation; lists changed while they are walked; a search on an altered graph | both ends of a connection agree; connected ports share a buffer; the graph stays acyclic; a saved graph can be loaded |
| Buffers (`core/dfg_buffer.c`) | samples, capacity, reference counter | resize, write, read, reset, change the type | capacity and count differ; what earlier calls left stays in memory; destructors; failures half-way | consumers find what was promised; samples that own memory are freed once |
| Forwarding and converting nodes (`core/dfg/nodes`) | buffer of the output | process | error paths after part of the output was written | fail only for a reason, and then leave nothing |
| Session, controller, processor (`gui/AftermathSession.cpp`, `gui/AftermathController.cpp`, `gui/dfg/DFGQTProcessor.cpp`, `gui/main.cpp`) | `enabled` of the processor; the graph | schedule all, react to a trigger, to a double click, to edits | one thread, but calls nest through widgets that change while their node is processed | guarded calls do not nest; the processor is enabled again |
| Graph editor (`gui/gui/widgets/DFGWidget.cpp`) | drag, hover and selection, as pointers into the graph | mouse and keys | what was checked while dragging is used at the release; what is selected may be deleted | a release does what was shown; references stay alive but for three; no cycle is closed |
| Timeline, combo boxes and their nodes (`gui/gui/widgets`, `gui/dfg/nodes/gui`, `render/timeline`) | lanes, selections, layers with their arrays | scroll, zoom, collapse, drag, draw, find under the cursor | indexes into a hierarchy that is walked lazily; pointers into sorted arrays | what is drawn and found is what the lanes and events say |
| Trace recording (`libaftermath-trace`, `core/write_buffer.c`) | buffers per event collection, stack of states, IDs | write a frame, push and pop states, dump | fixed buffers, partial failure of memory and device | whole frames only; the states told are those that were; new IDs are unique |
| Trace loading (`core/io_*.c`, `core/frame_type_registry.c`, templates) | IDs of frame types, trace being filled | read and process frames, join | order of frames, end of file anywhere, addresses into growing arrays | loaded if and only if it makes sense; what is in memory is what the file says |
| Converter (`aftermath-convert`) | what was written so far, per CPU and task | translate event by event | references of the new format that the old one does not define | the output makes sense to the loader and says all that the input said |
| Derived from a trace (`gui/AftermathSession.cpp`) | call graph, task and iteration periods | one pass over the events of each CPU | events of several CPUs; nested calls and loops; the first and last event; arrays added to a copy of a struct | periods are those of the traced execution; the trace keeps its arrays in order |
| Object notation (`core/object_notation.c`, `core/parser.h`) | trees | build, save, parse, evaluate | escapes; writes that fail | what is loaded is what was saved, or nothing |
| Algorithms (`core/arithmetic.h`, `core/qsort.h`, `core/bsearch.h`, `core/interval.c`, statistics) | arrays | add, subtract, sort, search, merge | overflow and boundaries | exact, or the status says so; what is found overlaps |
| Registries, most built-in nodes, GUI factory and dialogs, histograms and trees, dump tool, bindings | tables; pictures | | | not modelled, see section 7 |

Components interact as follows.  A widget sets the `required_mask` of its node
and emits a signal to the *processor*, which calls the scheduler unless it is
disabled.  The *controller* calls the scheduler directly after a dialog or a new
connection.  The scheduler calls the `process` function of each node; that of a
GUI node may change its widget, which again emits a signal.  The graph editor
changes connections through the graph functions, which call the `disconnect`
function of a node.  The cycle check decides which connections the editor
offers.  The recording library and the converter write the frames that the
loader reads; the session derives call graph and periods from the loaded trace,
nodes search it, and the layers of a timeline draw it.

The hazards that follow from this are listed, each with its line and with the
properties that cover it, in `PROJECT.json`.

## 2. Modules

    Subsequences      what is left of a sequence without some elements
    DfgPorts          ports, masks, port dependencies, reachability
      DfgSchedule       a call of the scheduler, step by step
        MCDfgSchedule     instances
        DfgSession        who calls the scheduler, nested calls, edits
          MCDfgSession      instances
      DfgCycle          the cycle check, step by step
      DfgEditor         mouse and keys of the graph editor
        MCDfgEditor       instances of both
      DfgGraph          the graph as a data structure, its files
    DfgBuffer         the buffer of an output and the nodes that fill it
    ObjectNotation    trees in files
    Arithmetic        sums, differences, products, sizes
      Calculations      all of them on all operands
      EventQueries      sorting, merging and searching intervals
        MCDfgData         instances of these five
    TraceLog          what the recording library promises (abstract)
    TraceFrames       the frames of a trace file
      TraceRecord       recording and dumping; implements TraceLog
        MCTraceRecord     instances
      TraceLoad         loading
      TraceConvert      converting older formats
    CallGraph         the call graph of a loaded trace
    EventArrays       the arrays of an event collection and copies of it
      TaskPeriods       periods of tasks
      IterationPeriods  periods of loop iterations
        MCTraceLoad       instances of these two, TraceLoad, TraceConvert, CallGraph
    TimelineLanes     lanes of a hierarchy
    TimelineSelections  selections made with the mouse
    FrameLayer        stack frames on a lane
    EventLayers       layers that draw events
        MCTimeline        instances of these four

    NaturalFacts        induction over Nat, facts about Subsequences
    DfgScheduleProof      DfgSchedule: types, convergence, least masks; order,
                          counters, generations
      DfgSessionProof       guard, acyclicity, new connections, nested calls
    DfgEditorProof        DfgCycle: the search decides whether there is a cycle;
                          references and releases of DfgEditor; HasCycle decided
    DfgDataProof          DfgGraph, DfgBuffer and Calculations
    EventQueriesProof     sorting, merging, searching, extraction, statistics
    TraceRecordProof      buffers, IDs, states told, refinement of TraceLog
    TraceLoadProof        which files are loaded, what is in memory then; the
                          periods that are found for tasks and iterations

**DfgPorts** has no state.  A port is `<<node, index>>`.  A mask, four 64-bit
words in C, is a function from the four kinds of requests (`pull_new`,
`pull_old`, `push_new`, `push_old`) to sets of port indexes.  `PortMasks`
translates how `dfg_node.c` derives `new_mask` and `old_mask` of each port from
the explicit dependencies of the type, the pure functional default and the
self-reference.

**DfgSchedule** follows `dfg_schedule.c`.  `conns`, `required`, `negotiated`,
`propagated`, `deps`, `marking` and `generation` are the fields of nodes and
ports; `written` records which buffers have data since they were reset, `read`
which inputs were shown theirs; `stack` holds one frame per call in progress,
with the phase, the node at hand and the list of the call (`sched_list` links the
nodes of one list only, and the model keeps its order).  Steps are: starting a
call (`ScheduleGraph`, `ScheduleComponent`, with the reset of all nodes
concerned), one evaluation of a node or one propagation along a connection
(`Negotiate`), one step of the search for roots (`FindRoots`, `FindReady`), and
running a node: it is popped, it processes successfully or fails or is skipped,
and its consumers are notified one by one (`ProcessStart`,
`ProcessOk`/`ProcessFail`/`ProcessSkip`, `Notify`, `NotifyEnd`, `RunEnd`).
Component marking, which recurses over connections, is one step with its result
(`Component`).

**DfgSession** adds the GUI.  Calls nest: the frame on top of `stack` belongs to
the innermost call and `ctx` says who made each call and where its process
function stands.  `ProcessGoesOn` is a process function coming to a point at
which its widget changes; the widget's trigger goes to the processor
(`DFGNodeTriggered`), which starts a nested call or drops it.  The reset at the
start of a nested call re-initializes the list entries of nodes that are on the
outer call's list (`Severed`).  `Edit`, `EditHook` and `EditGoesOn` are changes
of the graph by the editor, the hook being the disconnect function that triggers
before the ports are disconnected.  Handlers of the event loop run one at a time.

**DfgCycle** is the recursive search `am_dfg_graph_has_cycle` with its recursion
turned into a stack of frames.  The arguments, an extra connection and an
ignored one, are those that `DFGWidget::portsCompatible` passes.

**DfgEditor** is that widget: press, move, release and the keys, with what it
remembers between two of them (`mode`, `dragged`, `hover`, `selectedNode`,
`selectedWire`).  `stale` is a history of the three references that the code
itself leaves behind: the selected node after the key has deleted it ("node"), the
selected connection after it was dragged away ("wire") and the connection that is
being moved after the key has deleted it ("drag").  `freed` says that freed memory
has been used, after which nothing is known of the graph.

**DfgGraph** is the life of a graph: loading node by node and connection by
connection, then edits.  Connecting has an outcome for each allocation that may
fail.  A freed node keeps its ports in the model, so that connections to freed
memory can be seen.

**DfgBuffer** is one output buffer over several calls.  `cells` is the allocated
array (its length is `max_samples`), `num` is `num_samples`; a sample of a type
with a destructor is a copy of a value, and `live` holds the copies that are
allocated, so that samples that are lost, freed twice or freed outside of the
array can be told.  Process functions turn their input into `Chunks`, which are
reserved and copied one by one (`AppendChunk`), or set the size and fill it
(`Resized`, `Filled`).  `NotPresent`, `NotReserved`, `NotCopied` and `NotResized`
are their failures; `Rollback` is the label `out_err`.  Freeing what must not be
freed ends in the phase "undefined".  A copy gets memory that no cell refers to, not
even one beyond `num_samples`.

**ObjectNotation** builds a tree, extends it with members, saves it write by write
and parses what reached the file.  A text is a sequence of atoms; strings are
spelled character by character because their escapes matter.

**Arithmetic** has the operations of `arithmetic.h` for integers with 2 * Half
values; **Calculations** applies all of them to all operands.  **EventQueries**
follows the quicksort, the merging of intervals and the binary search step by
step, and how `event_mapping_common.h` and the statistics use them.

**TraceLog** is what the recording library promises about frames: each is taken
whole or not at all, every buffer keeps the order, and a file receives the frames
of a buffer together; a device that fails leaves a beginning of them, the last
one cut.  **TraceFrames** names the kinds of frames and what the loader demands
of each.  **TraceRecord** has buffers of pieces (a piece is a field, or several
that no property tells apart), a script of the main program, and threads that
enter and leave states at any time.  A write that finds no room is rolled back
(`WriteFrame`); a dump goes through the buffers one by one and may fail at each
(`DumpStart`, `DumpBuffer`, `DumpFails`, `DumpEnd`).  The refinement mapping reads
the pieces as frames: `queue[b]` is `FramesIn(data[b])`, `file` is
`FramesIn(file)`, `torn` is `Torn(file)`.

**TraceLoad** reads a file frame by frame; what follows is any frame of a scenario
or the end of the file, also in the middle of a frame.  Event collections are in
one array sorted by ID; each insertion asks for room for a whole preallocation and
may move the array when there is less.  Mappings hold addresses into it, as a block
and a position.  **TraceConvert** translates the events of an old
format, with any write failing.  **CallGraph**, **TaskPeriods** and
**IterationPeriods** are the passes of `AftermathSession` over a loaded trace; the
last two start with the execution that was traced, as a model of its own, so that
what is derived can be compared with what happened.  **EventArrays** is the struct
of a collection's arrays.  `processTrace` copies it by value
(`AftermathSession.cpp:1015`) and adds the arrays of periods to the copy, so that
the trace keeps its count and its address while the copy works on the same memory:
`WithPeriods` says what the trace then has.  Each of the two passes adds its own
array at the end of a collection (`AddTaskPeriods`, `AddIterationPeriods`), with the
array of the other one added or not.

**TimelineLanes** keeps what the renderer keeps, the first visible node with its
index and the lane it is on, and compares that with the sequence of lanes itself.
**TimelineSelections** is the mouse on selections, with the pointer into the
sorted array.  **FrameLayer** has the filters for functions and depths, the
colors and the drawing of a lane pixel by pixel.  **EventLayers** has the other
layers that draw events, with the arrays they keep between a change of the trace
and the next drawing.

Abstractions.  Sample data is "written" or not and has a generation, except in
`DfgBuffer`.  Names of ports are indexes; the process function of a node is a choice
between success and failure (and its widget changes); properties of nodes,
coordinates and painting are left out; `FrameLayer.Pick` asks for one timestamp
where the node asks for the interval of a pixel, on which no part depends.  Names in
traces are left out; addresses are model values.  The allocations of `processTrace`
are not checked by the code and do not fail in the model; `CallGraph`, which the
code runs afterwards, has the case in which the memory of the arrays is intact.

Three MC modules host several components that share no state.  A variable `part`
says which one runs; the others stay in one initial state.  This only saves
starting TLC once per component: a behaviour of the host is a behaviour of one
component.

## 3. Runs

| Run | Question | Bounds |
|---|---|---|
| `schedule` | Calls on every wiring: do they return; converged, least, exact, once, in order; what is left out; is what was used behind its producer? | five nodes with the dependencies of real types, all 180 acyclic wirings, all requests the GUI makes; a second call, after a failed one too, on three wirings; generations wrap at 2 |
| `session_edits` | Edits: does the graph stay acyclic, does a new connection show its data? | four calls and two changes on four nodes; moving a connection is two edits, hence `MaxEdits` is 4 |
| `session_nested` | Calls inside calls | three calls and one edit on part of a real profile |
| `session_hangs` | refutes a comment, see section 4 | two calls, no edits |
| `editor` | Does the editor do what it shows, is its cycle check right, does that end? | editor: three nodes, from an empty and a cyclic graph; cycle check: all graphs of three nodes with 2, 1 and 1 inputs, all connections that can be dragged |
| `data` | Files, edits and buffers with failures; object notation; arithmetic; searching | files of three nodes and up to three connections, faulty ones too, IDs up to 5, four edits; three calls per buffer, inputs of up to two samples; texts of up to two characters, one write failing or all from one on; integers of 3 bits (`Half` = 4); up to three intervals over four timestamps |
| `record` | Does the trace hold what was recorded, whatever fails? | two collections, two time steps, one failure, one lost end; IDs below 8; stacks of depth 2; buffers of 3 to 22 pieces; the two states are symmetric (no property names one) |
| `load` | Is a file loaded if and only if it makes sense? Does the converter write such files? Are call graph and periods those of the execution? | up to five free frames behind those that give them meaning, arrays that grow by two; up to four events of an old format; up to four nested or disjoint calls on one CPU and two on another; two tasks on two CPUs up to time 6; three loops, two CPUs, five events; collections loaded with none to four arrays, of which the second CPU also has those of the other parts; 32 arrays preallocated, as in the code |
| `load_moved`, `load_periods`, `selections` | each refutes a comment or an intent, see section 4 | as above; three selections, times up to 3 |
| `timeline` | Is what is drawn and found what the lanes, selections and events say? | hierarchies of up to five nodes; three pixels or three selections; two or three traces; palette of 8 |

Each run's `about` in `PROJECT.json` says what it shows.  Properties are
conjunctions of named parts, so that one mutant run can answer for all of them:

| Property | Parts |
|---|---|
| `ExecutionRight` | `InputsReady`, `CountersExact`, `Once` |
| `GenerationsRight` | `NeverZero`, `SeenNew` |
| `NestedRight` | `Guarded`, `NestedCorrect` |
| `SearchRight` | `Decided`, `CycleReturned`, `VisitedSafe`, `MarkedOnPath` |
| `ReferencesLive`, `ReleaseRight` | `EditorTypeOK`, `DragAlive`, `SelectionAlive`, `GraphAlive`; `StaysAcyclic`, `AsShown` |
| `ConnectionsRight` | `Symmetric`, `DataFromProducer` |
| `ResultsRight`, `MemoryRight` | `Delivered`, `FailsForCause`; `Owned`, `RolledBack`, `OnlyRollbackUndefined` |
| `ObjectsRight` | `LoadedAsSaved`, `SavedLoads`, `MembersTold` |
| `QueriesRight` | `SortedRight`, `MergedRight`, `SearchFinds`, `Extracted`, `StatsRight` |
| `BuffersOK`, `StatesTold`, `DumpRight` | `RecordTypeOK`, `BuffersWhole`; `Faithful`, `Tiled`; `DumpComplete`, `DumpLoads` |
| `LoadedRight`, `ReferencesRight` | `LoadTypeOK`, `LoadedExact`, `BoundsExact`, `HierarchyTree`; `MappedOrdered`, `Joined` |
| `CallsRight` | `CallTypeOK`, `GraphRight`, `SymbolsRight`, `PeriodsTile`, `PeriodsOrdered`, `CountsRight` |
| `TasksRight` | `TaskPeriodsFound` (`TaskPeriodsRight`, `PeriodsTrue`), `TaskArraysKept` |
| `LoopPeriodsRight` | `LoopPeriodsFound` (`LoopTypeOK`, `IterationsRight`, `LoopsRight`, `FailsForLoop`), `LoopArraysKept` |
| `ConversionRight` | `ConvertedAll`, `ConvertVerdict` |
| `LanesRight`, `SelectionRight` | `LanesTypeOK`, `FirstLaneRight`, `NodeUnderCursor`, `NodesDrawn`; `SelectionsTypeOK`, `Anchored`, `PassedOn` |
| `FramesRight`, `LayersRight` | `FrameTypeOK`, `ColorsTell`, `LaneDrawn`, `PickedShown`; `LayersTypeOK`, `InBounds`, `HoverShown`, `SetsTold` |

Why the bounds are enough to be interesting.  Five nodes in all wirings contain
chains, shared producers, shared consumers and disconnected parts; every
combination of pulling and pushing dependencies that the built-in types use
occurs.  With `GenMax = 2` a generation wraps within two calls.  Two changes allow
disconnecting, reconnecting to another output and coming back.  Nested calls
cannot be deeper than two (proved as `GuardedCorrect`), so three calls contain
every combination of an outer, a nested and a following call.  In `DfgGraph` three
connections allow two consumers of one output, an input named twice, and
connections to missing nodes.  In `DfgBuffer` two samples allow a failure after a
first success, and three calls a failure between two successes with a capacity
larger than what is needed.  In `TraceRecord` the sizes make a frame fail at each
of its pieces, and every dump meets each kind of failure.  In `TraceLoad` five
frames suffice for two collections that are inserted before one that a mapping
refers to.  Two tasks on two CPUs let a task migrate; three loops let one nest in
one of two.  Three bits contain every sign, both ends and what is next to them,
and the theorem is about every width.

Bounds on behaviour, named where they stand:  `MaxCalls`, `MaxEdits`, `MaxRuns`,
`GenMax`, `IdMax`, `Prealloc`, `MaxMembers`, `MaxColls`, `MaxTime`, `MaxFaults`,
`MaxLoss`, `LastTime`, `MaxEvents`, `MaxSelections`; process functions of nested
calls fail only when the nested list is empty (`FailsCleanly`; what follows
otherwise is undefined in C); a graph with a connection to freed memory, or a
program that has dereferenced NULL, does not go on (`Edited`); no file connects a
node to itself.  The timeline runs have the constraint `NotAstray`: once a drag has
left the selections in disorder (see `selections` below) nothing further is
explored.

`CHECK_DEADLOCK FALSE` stands in every configuration because the systems may
stop: the user need not act, a call of the cycle check ends, a file has been
loaded, and counters of calls and edits are bounded.

## 4. What the runs show

Properties that hold:

- *Negotiation* (`Converged`, `NegotiationLeast`): when nodes run, no neighbour
  is owed a request, and the masks are the least that satisfy the dependencies;
  the order of the work list does not matter.
- *Execution* (`ExecutionRight`, `LeftOut`, `OnlyProcessFails`, `Returns`): the
  counter of a node is the number of its activated inputs that have not been
  delivered, no node runs twice or before its inputs, only nodes behind inputs
  nobody produces are left out, and a call that is not disturbed fails only if a
  process function failed.
- *Generations* (`GenerationsRight`, `FreshlyConnected`): what a node that ran
  counts as seen is what its producer wrote in the same call, and does not count as
  new after it; 0 stays with inputs that have seen no data.  The converse, that
  nothing is taken for seen that was not shown, does not hold (see `Seen` below).
- *Session* (`NestedRight`, `ProcessorReturns`, `Acyclic`): the processor is
  disabled exactly during the calls it guards, is enabled again, and a nested call
  is itself correct.
- *Editor and cycle check* (`ReferencesLive`, `ReleaseRight`, `SearchRight`,
  `Ends`): whatever is deleted, dragged and interrupted, the port and connection
  under the cursor, the ends of a drag and the selected node and connection are in
  the graph, but for three references, each of which dangles only after the change
  that `stale` names; no other way leads to a deleted node.
- *Graph, buffers, notation* (`ConnectionsRight`, `Reloads`, `ResultsRight`,
  `MemoryRight`, `ObjectsRight`): a node that succeeds delivers what it promises
  whatever earlier calls left; the samples in the buffer are allocated and owned
  once; a failure leaves none of them; nodes fail only for lack of memory or of
  input, with exceptions that `FailsForCause` names; what is saved is loaded again.
- *Arithmetic and queries* (`ArithmeticRight`, `QueriesRight`), but for the
  exceptions listed below, which the properties name.
- *Recording* (`BuffersOK`, `StatesTold`, `DumpRight`, `IdsUnique`,
  `LogImplemented`), *loading* (`LoadedRight`, `LoadVerdict`, `ReferencesRight`),
  *converting* (`ConvertedSensible`, `ConversionRight`) and what is *derived*
  (`CallsRight`, `TasksRight`, `LoopPeriodsRight`): the periods that `processTrace`
  finds are those of the execution, and the arrays that the trace is left with are in
  order, though not complete (`load_periods` below).
- *Timeline* (`LanesRight`, `SelectionRight`, `FramesRight`, `LayersRight`).

Disagreements between code and comments, each a run that is expected to fail:

| Run | What the code does |
|---|---|
| `session_hangs` | a call nested in one made by the controller breaks the outer call's list, which then never ends |
| `load_moved` | mappings hold addresses of event collections (`on_disk.tpl.c:491`), which move when another is inserted |
| `load_periods` | the arrays of task and iteration periods are added to a copy of the collection's struct (`AftermathSession.cpp:1015`, `1232-1242`), so that the trace does not get them as it should |
| `selections` | dragging a selection past another moves bytes instead of elements (`selection.c:376`), which overwrites the other or crashes |

What becomes of the periods.  `processTrace` adds the arrays of the whole trace
through a pointer, but those of a collection to `ac`, a copy.  A collection that
was loaded with two to 31 arrays has room for more: the array is sorted into the
memory that both structs share, the trace's count stays, and its last array falls
off the end; `TaskArraysKept` and `LoopArraysKept` say that this is all that
happens.  A collection with one array has its memory reallocated, which may move it
and leave the trace with the address of memory that was freed (`gone`,
`MovesOnGrowth`).  `AllArrays` is what a reader of `array_collection.h:95` expects,
and `TaskPeriodsDelivered` asks for it.

More are visible in the models and named in their comments; the properties except
exactly these cases.

*Graph and scheduler.*  An input that pulls old data is activated although its
producer provides nothing, and its node waits for ever.  `Seen` updates the
generation of an input also if the data was not read.  The check that a notified
consumer's counter is not 0 yet ("something must have gone wrong") fails in
regular operation, when a nested call has run the consumer.  A node that pulls new
data before its producer announces it keeps a stale counter if the input's
`new_mask` adds nothing (types with explicit dependencies only; see `Responsive`).
Removing a node leaves every other connection of an output in place.  An error
path of connecting dereferences NULL (`crashed`).  Shrinking a buffer passes the
wrong samples to the destructor; `am_dfg_buffer_resize` does not set `num_samples`
of a type without one (`CountOfEmptied`).  `select_nth` fails for every index
counted from the start.  `IsRootIgn` accepts nodes with connected inputs, against
its comment; the result of the cycle check is right all the same.  `refs` shows
that `num_refs` of a buffer becomes negative; no code depends on it.

*Graph editor.*  The key that deletes a node leaves `selected_node` dangling, and
`draggedNode` while the node is dragged; a drag or a second key uses it.  The key
also deletes a selected connection while it is being moved.  Moving a connection by
its output end is always refused.  A selected connection that is dragged away stays
selected, and the key then calls the disconnect functions of nodes that are not
connected.  The release of any button ends a drag as a drop.  The check at the
release does not ignore the moved connection, which makes no difference
(`CycleWithMoved` is a lemma).

*Arithmetic.*  `am_add_safe_*` misses an overflow when both operands are equal;
`am_add_safe_i*` reports an underflow for any two different negative numbers;
`am_sub_safe_i64(0, MIN)` overflows unnoticed; `am_i128_check_i64` misses bit 63;
`am_mul_safe_u64` multiplies signed numbers.

*Intervals and searching.*  `am_intervals_merge_overlapping` shrinks an interval
with one it contains, and returns one interval for none; `am_interval_shrink_u`
inverts intervals; an event that overlaps two merged intervals is output twice.

*Object notation.*  `am_fputs_prefix` returns 1 on failure but its callers test
for negative numbers; a separator that cannot be written is not noticed, nor is a
failing `fclose`; `%f` keeps six decimals; `inf` is written but not parsed; bytes
from 0x80 are escaped sign-extended; paths with an index never evaluate; trailing
garbage and duplicate names are accepted.

*Recording, loading, converting.*  A mapping is stored as an address (see above).
A dump that is repeated after one of its buffers failed truncates the file and loses
the buffers written before; `DumpComplete` excepts it (`spoiled`).
The bounds of a trace include times that were never set for task instances.
Single events do not register their CPU with the converter; a communication
registers one of its two; names of length 0 fail; counter IDs are truncated; an
unsupported version is reported as success; the output is left behind on failure.

*Derived.*  Calls that touch nest; the sample before the first is read; values
outside the samples are extrapolated from the first two; nested work regions share
positions; tasks that migrate lose periods; chunks of nested loops are attributed
to one of two loops.

*Timeline.*  The task type layer reads the size of another array; position layers
have as many indexes as the palette has colors; the state index is unguarded; a
layer keeps its array when the new trace has none; indexes that alternate are
computed from static variables; adjacent colors are not always distinct.

## 5. Fairness

`Returns` (`FairSpec`; `MCSpec` has the same fairness and only leaves out the start
of further calls) and `ProcessorReturns` (`FairSessionSpec`) assume weak
fairness of the steps of a call and of process functions: the thread that runs a
call goes on with it, and a process function returns.  The user's actions and the
start of calls have no fairness.  `Ends` assumes that the search takes its steps
(`CheckStep`).  All of this is the progress of a single thread.  The run
`session_hangs` refutes `CallReturns` under the same assumption: the call takes
steps for ever.

## 6. Proofs

All theorems are for arbitrary values of the constants: any node types, graphs,
requests, scripts, sizes and widths that satisfy the named `...Assumption` of the
module, which TLC evaluates on the instances.

| Theorem | Module | States |
|---|---|---|
| `TypeCorrect` | `DfgScheduleProof` | `Spec => []TypeOK` |
| `ConvergedCorrect` | `DfgScheduleProof` | `Spec => []Converged` |
| `NegotiationCorrect` | `DfgScheduleProof` | `Spec => []NegotiationLeast` |
| `ExecutionCorrect` | `DfgScheduleProof` | `Responsive => (Spec => []ExecutionRight)` |
| `LeftOutCorrect` | `DfgScheduleProof` | `Responsive => (Spec => []LeftOut)` |
| `GenerationsCorrect` | `DfgScheduleProof` | `Responsive => (Spec => []GenerationsRight)` |
| `OnlyProcessFailsCorrect` | `DfgScheduleProof` | `Responsive /\ Directed => (Spec => OnlyProcessFails)` |
| `AcyclicCorrect` | `DfgSessionProof` | if all initial graphs are acyclic, `SessionSpec => []Acyclic` |
| `GuardedCorrect` | `DfgSessionProof` | `SessionSpec => []Guarded` |
| `FreshlyConnectedCorrect` | `DfgSessionProof` | `Directed => (SessionSpec => []FreshlyConnected)` |
| `NestedRightCorrect` | `DfgSessionProof` | `Responsive /\ Directed => (SessionSpec => []NestedRight)` |
| `SearchCorrect` | `DfgEditorProof` | `CycleSpec => []SearchRight` |
| `SearchDecidesHasCycle` | `DfgEditorProof` | `CycleSpec =>` once it has returned, the search reports a cycle iff `HasCycle` |
| `ReferencesLiveCorrect` | `DfgEditorProof` | `EditorSpec => []ReferencesLive` |
| `ReleaseRightCorrect` | `DfgEditorProof` | `EditorSpec => ReleaseRight` |
| `BuffersCorrect`, `NewIdsUnique` | `TraceRecordProof` | `RecordSpec => []BuffersOK`, `RecordSpec => IdsUnique` |
| `StatesToldCorrect` | `TraceRecordProof` | `RecordSpec => []StatesTold` |
| `LogCorrect` | `TraceRecordProof` | `RecordSpec => LogImplemented`, the refinement |
| `ConnectionsCorrect` | `DfgDataProof` | `GraphSpec => []ConnectionsRight` |
| `ReloadsCorrect` | `DfgDataProof` | `GraphSpec => []Reloads` |
| `MemoryCorrect` | `DfgDataProof` | `BufferSpec => MemoryRight` |
| `ResultsCorrect` | `DfgDataProof` | `BufferSpec => []ResultsRight` |
| `ArithmeticCorrect` | `DfgDataProof` | `ArithmeticSpec => []ArithmeticRight` |
| `QueriesCorrect` | `EventQueriesProof` | `QuerySpec => []QueriesRight` |
| `LoadVerdictCorrect` | `TraceLoadProof` | `LoadSpec => []LoadVerdict` |
| `LoadedRightCorrect` | `TraceLoadProof` | `LoadSpec => []LoadedRight` |
| `ReferencesCorrect` | `TraceLoadProof` | `LoadSpec => []ReferencesRight` |
| `TasksCorrect` | `TraceLoadProof` | `TaskSpec => []TaskPeriodsFound` |
| `LoopPeriodsCorrect` | `TraceLoadProof` | `LoopSpec => []LoopPeriodsFound` |

**Induction over data.**  The induction theorems of the library take an operator
as a parameter, which the provers cannot instantiate.  `NaturalFacts` states
induction with a *set* of numbers in the place of the property (`0 \in T`, and
`n \in T` gives `n + 1 \in T`, hence `Nat \subseteq T`) and derives it from the
fact that every nonempty set of numbers has a least one, which follows from
finite sets being well-founded.  With it, functions that are defined recursively
on `0 .. n` are shown to have a solution (`EndedDef`) and are reasoned about.
`Remaining` of `Subsequences` takes the place of `SelectSeq` where proofs need it.

**Negotiation.**  `Converged` is not inductive.  What makes it hold is that a node
whose negotiated mask differs from its propagated one is on the list of the call
or is being evaluated (`PendingListed`), while there is only one call (`OneCall`).
`NegotiationLeast` needs in addition `CausesFollowed`: the bits negotiated so far
are in every closed set that contains the requests, and what the bits that count
as propagated cause is there (for the node being evaluated: it is there, or left
to do, `WorkLeft`).  With an empty list nothing is left to do, so that the bits
themselves form such a closed set, the least.

**Execution.**  Counters are computed several times while masks grow.  Throughout
the negotiation a counter lies between the number of inputs that are in use for sure
and those that may come into use; both meet when the node is settled, which gives
`CountersExact` at the start.  This needs the contract `Responsive`: a type that
pulls new data at an input is told of new data there, or pulls the input only when
told.  Types with the default dependencies satisfy it; three combo boxes with
explicit ones (`HierarchyComboBox` and those of the filters for depths and
functions) do not, so that the theorems say nothing of graphs with these.
`MCDfgSchedule` asserts the contracts of its instances, which are those of real
types.  `RootsFound` says that the search for roots reaches every node that must
run: nothing is requested without a cause, so that following the causes backwards
leads from any such node to a root.  `RunInv` then has four parts: nodes that are
ready are on the list and not twice (`Listed`), counters are exact, outputs of nodes
that ran are written, and activated inputs of nodes that ran are at the generation
of their producers, which have written their buffers in this call.
`OnlyProcessFails` needs `Directed` as well: dependencies name inputs to pull and
outputs to push.  Both contracts are hypotheses of the theorems and not assumptions
of the module, since the code does not enforce them.

**Session.**  `Typed` is `TypeOK` for any topology instead of the initial ones, as
the user changes the graph.  `GraphInv` says that a change that waits for its
`disconnect` function is still one that the editor allowed and that the graph is
acyclic: connections do not change while a change waits, although calls run.  A
new connection from a to b closes no cycle if a cannot be reached from b: for a
node y on a cycle, what is reached from y together with what is reached from b is
closed under the new connections.  `GuardInv` relates the callers in `ctx` to
`enabled`: only the innermost call may have been made by the controller, so that
calls nest two deep at most and the one that enables the processor is the one that
disabled it.  `FreshInv` is what new connections need: masks only name ports their
kind of request belongs to, a change that waits still has its node, outputs are
never at generation 0 and an input that was connected since it was last read is.
Without `Directed` a dependency could name an output to pull, whose generation the
code would then set as if it were an input.

`NestedRight` is proved by refinement: a call that a widget makes from within
another call is, for as long as it lasts, a call of `DfgSchedule` in the graph as
it is then.  `RequiredBar`, `MarkingBar` and `StackBar` show the innermost call
alone.  Starting it is `ScheduleComponent` of the inner specification, each of its
steps is a step of it, and returning ends it, so that `CallInv` and `ExecInv` of
`DfgScheduleProof` carry over (`Inner`, for any topology).  What the outer call
left behind must not matter: it leaves no request for new data unanswered that
the inner one would count (`RequestsOld`), and a widget that triggers again while
its call lasts adds the bits that are there already.

**Cycle check.**  `CycleInv` says where the search stands.  Frames follow the
connection to the one further in (`PathRight`); until a cycle is found, the marked
nodes are those of the path and what a frame has no longer left leads to visited
nodes (`MarksRight`); the visited nodes are closed under connections and none of
theirs is on a cycle (`VisitedRight`); nodes not met yet are among the roots not
tried yet (`RestRight`).  When a marked node is met, the part of the path up to it
is a cycle, which the frames then collect on their way back: the collected
connections follow each other, visit different nodes, and lead to the path as long
as they do not close (`CollectedRight`).  `SearchRight` calls a connection part of
a cycle if it is on a closed sequence of connections, `HasCycle` speaks of sets
closed under connections; `SearchDecidesHasCycle` shows that both agree on what
the search returns, which justifies taking the check as one step in `DfgEditor` and
`DfgSession`.  `CheckAssumption` says what the callers guarantee: connections lead
from outputs to inputs, an input has at most one, and one that is ignored is the
only one of its input.

**Graph.**  `GraphInv` adds to the two ends of every connection (`WiresRight`) what
makes saving and loading agree: ports are listed once, IDs of nodes in the graph
differ, no node is connected to itself, and at most one end of a connection has
been freed (`EndsRight`).  The file that is being loaded is arbitrary, apart from
not connecting a node to itself.

**Buffers.**  The memory of a buffer is right because a chunk is appended as a
whole or not at all, and because the functions that give up in the middle empty the
buffer (`MemoryInv`; `EmptyBefore` and `FillsAll` say when a function may return at
once).  For the results, `Expected` is cut along the chunks a function appends:
`Before(j, m)` is the number of samples in front of chunk m, and each chunk
continues the result where the previous one ended (`PartsRight`, by induction over
the merged and the selected sequences).  `AppendedSoFar` then says that the buffer
holds the result up to the chunk at hand.

**Queries.**  `QueryInv` has three parts.  `SortedInv` is about sorting and merging:
the parts that are still to be sorted are apart (`SegmentsApart`), elements that are
not in one part together are in order (`InOrder`), a pass has divided what it has
seen around a pivot that its pointer has followed (`PassOver`), and every exchange
keeps how often each interval occurs (`Permuted`); while intervals are merged, what
the merged and the remaining ones cover is what was given, unless some were nested
(`MergeInv`).  `WalkInv` is about the walk over intervals, elements and events:
outside of what remains of a search nothing overlaps but the element next to it that
was found last (`Narrowed`), and the number of times that an event has been handed on
is the number of intervals up to here that are a reason to do so (`Progress`).
`StatsInv` compares the statistics of an index with the cardinality of the set of
pairs of an event and a timestamp in the query, of the events up to here; they are
exact if the total fits (`Fits`), because then no sum on the way saturates.
`QueryAssumption` says that intervals and events begin at the latest when they end
and that the indexes of events are those that statistics are collected about.

**Editor.**  `EditorInv` says what each mode of the mouse implies about the drag:
what is ignored is what is to be moved, the port shown as fit is the one that was
checked, and the ports of a drag are of opposite directions.  `ReleaseRight` rests
on `CycleWithMoved`: the check without the moved connection and the one with it
agree, because the moved and the new connection leave the same node and a cycle
leaves a node once.  `ReferencesLive` rests on `AliveInv`, which adds to its parts
what ties the mouse to the selection: a mode lasts only while the button is held, a
node that is dragged is the selected one, and the key deletes either the selected
connection or the selected node.  With that, each deletion is followed through
everything the editor remembers: a node goes only while it is selected, hence while
no port is dragged and no connection is selected, so that nothing but the selection
(and a drag of that node) refers to it.  The theorem has no hypothesis about
`stale`: a selected node is in the graph if and only if the key has not deleted it,
a connection that is being moved likewise, a selected connection is unless it was
dragged away, and all else always is.

**Recording.**  `RecordInv` keeps buffers within their sizes and `Aligned`: pieces
of one frame follow each other and the last frame is complete.  A frame that fails
is rolled back to such a state.  `ToldInv` relates the state stack of a thread to
its past (`Follows`) and its events to the same past (`Tells`, `Covers`), both up
to the start of the innermost entry (`Until`).  For the refinement, reading a
sequence of pieces (`FramesIn`) distributes over the concatenation of whole ones,
so that taking a frame, delivering a buffer, and cutting a file anywhere are steps
of `TraceLog` or stutter.

**Loading.**  Whether a frame makes sense is a question about the frames before it
(`SensibleEntry`), while the code asks what is in memory.  `LoadInv` therefore
keeps both in step: as long as the trace has not been destroyed, every frame read so
far made sense and memory is exactly what the file said (`Told`), each array with the
frames of its kind in their order (`EventsTold`, `MappingsTold`, ...).  `Verdict`
then shows that the checks of the code accept a frame if and only if it makes sense,
and there is one lemma per type of frame that what its processing does is what the
file says now (`StepNode`, ...).  The nodes above a node are the least set that holds
the node and the parents of its nodes, so that descendants can be counted without
recursion (`TreeGrows`); a node that is added is below its ancestors and nothing is
below it.  An address in a mapping stays right while no collection is inserted
(`MappedOrdered`); that the joins find every state is that every state is described
(`MatchedDescribed`).  `LoadAssumption` says of a file that its numbers are natural
and that no time is beyond the largest one.

**Periods.**  `TaskInv` relates the traced program to what it has written, and what
has been found to the points that were processed.  Each run of a task starts at one
scheduling point and ends at the next one of the same CPU (`RanRight`), so that the
periods collected for a task are those that start at processed points, each with the
end that is known by then (`KnownRun`, `CollectedRight`).  When the task completes
on a CPU, all of its runs on this CPU and on those before it have been processed
(`RunsUpTo`), which are all of its runs if it only moved upwards.  `LoopInv` says the
same of loops with a history: for each event, the stack of loops the CPU was in
(`History`).  The stack of `processTrace` fits that history (`Fits`) as to the loops,
and as to the chunks where a CPU came back to the first chunk of a loop (`Nested`).
Both theorems are about what is found (`TaskPeriodsFound`, `LoopPeriodsFound`); what
becomes of the arrays (`TaskArraysKept`, `LoopArraysKept`) is model-checked.

**Only model-checked.**  Liveness (`Returns`, `ProcessorReturns`, `Ends`) is out of
the provers' reach.  `FrameLayer`, `ObjectNotation`, `TimelineLanes` and
`TimelineSelections` use recursive operators, with which the provers lose their SMT
backend.  `NestedRight` stays model-checked for graphs with types that are not
`Responsive`.  The call graph, the timeline's `EventLayers` and the converter are
long and sequential and compare with a history; the inductive invariants of their
loops have not been written down.

## 7. Not modelled, and why

- Registries of types and nodes: filled at startup, searched by name.
- Most built-in nodes: what they calculate; only their dependencies matter here.
- Histograms, trees, axes, layout and painting: geometry and floating point.
- GUI factory, models, dialogs and the widgets that only display: construction of
  Qt objects.
- Type system templates: input to a generator; the frames generated from them are
  modelled where the loader treats them differently.
- Dump tool and bindings: translations that keep no state.
- Vendored lists and red-black trees: used through their documented behaviour.
- Selection by rank, bit vectors, depth-first search, typed arrays.
- The data type that forwarding nodes take over from their first connection.
- Exceptions in the event loop: they end the program.
- `am_dfg_graph_reconnectp`, `am_dfg_graph_connectn`: no callers.  Merging into a
  graph with nodes: never happens, the session's graph is empty when loaded.

## 8. Plan

1. Proofs: the arrays of `EventArrays`; `DumpRight` from the refinement;
   `SelectionRight` with a recursive function in the place of the operator.
2. The other frame types with their joins (task instances and their bounds), and
   the dump tool, as parts of `MCTraceLoad`.
3. The tree of candidates and the layout of the graph in `render`.
4. Registries and containers, against reference definitions.
