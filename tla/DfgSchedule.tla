---------------------------- MODULE DfgSchedule ----------------------------
(***************************************************************************)
(* The scheduler of the data-flow graph (libaftermath-core, dfg_schedule). *)
(*                                                                         *)
(* A call to the scheduler has two halves.  The negotiation propagates     *)
(* the requests of one node (or of all nodes) along the connections until  *)
(* the masks of all nodes have converged.  The execution then runs the     *)
(* nodes in an order given by a counter of outstanding inputs per node.    *)
(*                                                                         *)
(* The calls in progress form a stack, since the process function of a     *)
(* node may call the scheduler again.  In this module a call starts only   *)
(* when no other is in progress; the module DfgSession adds the nested     *)
(* calls.  All the steps below are steps of the topmost call.              *)
(***************************************************************************)
EXTENDS DfgPorts, Integers, FiniteSets, SequencesExt

CONSTANTS
  Graphs,     \* topologies: each maps a port to the sequence of its peers
  Requests,   \* requests: [node : Node, mask : Mask(node)]
  NodeId,     \* the id of each node, which orders the nodes of a graph
  GenMax,     \* the largest generation of a port, UINT64_MAX in the code
  MaxCalls    \* bound on the number of calls in a behaviour

VARIABLES
  conns,      \* connections of each port
  required,   \* required_mask of each node
  negotiated, \* negotiated_mask of each node
  propagated, \* propagated_mask of each node
  deps,       \* num_deps_remaining of each node
  marking,    \* marking of each node
  generation, \* generation of each port
  written,    \* output ports whose buffer was written since the last reset
  stack,      \* calls to the scheduler in progress, the innermost first
  ret,        \* result of the last call that returned: "ok" (0) or "error" (1)
  calls       \* number of calls so far

maskVars == <<required, negotiated, propagated>>
vars == <<conns, required, negotiated, propagated, deps, marking, generation,
          written, stack, ret, calls>>

ASSUME BoundsAssumption == GenMax \in Nat \ {0} /\ MaxCalls \in Nat

(* Each connection is recorded at both ends, an input port has at most one *)
(* (so that an output port has none twice, either) and no node is          *)
(* connected to itself.                                                    *)
IsTopology(c) ==
  /\ c \in [Port -> Seq(Port)]
  /\ \A p \in InPort : Len(c[p]) <= 1
  /\ \A p \in Port : \A j, k \in DOMAIN c[p] : c[p][j] = c[p][k] => j = k
  /\ \A p \in Port : \A j \in DOMAIN c[p] :
       /\ (p \in OutPort) => (c[p][j] \in InPort)
       /\ (p \in InPort) => (c[p][j] \in OutPort)
       /\ c[p][j][1] # p[1]
       /\ \E k \in DOMAIN c[c[p][j]] : c[c[p][j]][k] = p

ASSUME GraphsAssumption == \A c \in Graphs : IsTopology(c)

ASSUME RequestsAssumption ==
  \A q \in Requests : q.node \in Node /\ q.mask \in Mask(q.node)

ASSUME NodesAssumption ==
  /\ IsFiniteSet(Node) /\ Node # {}
  /\ NodeId \in [Node -> Int]
  /\ \A m, n \in Node : NodeId[m] = NodeId[n] => m = n

-----------------------------------------------------------------------------
(* Calls in progress                                                       *)

(* Propagation runs over the four words of a mask in this order.           *)
Word == <<"pull_new", "pull_old", "push_new", "push_old">>

PortIndexes == UNION {PortIdx(t) : t \in NodeType}

(* <<w, i, j>>: the j-th connection of port i, for word w of a mask.  The  *)
(* index 0 stands for a port of the wrong direction for its word.          *)
Work == (1..4) \X PortIndexes \X Nat

Phase == {"converge",   \* am_dfg_schedule_converge_deps, between two nodes
          "eval",       \* am_dfg_schedule_node_eval_dependencies
          "roots",      \* __am_dfg_schedule_component_find_roots
          "run",        \* am_dfg_schedule_nodes, between two nodes
          "call",       \* process_node: the process function is running
          "skip",       \* process_node: execution of the node is omitted
          "notify"}     \* process_node: updating the consumers' counters

(* A node that the search for roots is at, with the links left to follow.  *)
Visiting == [node : Node, links : SUBSET Work]

Frame == [call  : {"component", "graph"},
          node  : Node,               \* the node the call is about
          phase : Phase,
          cur   : Node,               \* node being evaluated or processed
          work  : SUBSET Work,        \* connections left to visit for cur
          ins   : SUBSET PortIndexes, \* in_mask of process_node
          outs  : SUBSET PortIndexes, \* out_mask of process_node
          todo  : Seq(Visiting),      \* search for roots: nodes visited
          list  : Seq(Node),          \* sched_list
          loop  : SUBSET Node]        \* see DfgSession

Marking == {"none", "reset", "find_roots", "processing", "done"}

Idle == stack = <<>>

Top == Head(stack)

In(phase) == stack # <<>> /\ Head(stack).phase = phase

(* The innermost call goes on, or it returns; no call starts.              *)
SetTop(f) == stack' = [stack EXCEPT ![1] = f] /\ UNCHANGED calls

Return(r) == stack' = Tail(stack) /\ ret' = r /\ UNCHANGED calls

(* Work is done port by port in the order of the masks' bits.              *)
Before(a, b) == \/ a[1] < b[1]
                \/ a[1] = b[1] /\ a[2] < b[2]
                \/ a[1] = b[1] /\ a[2] = b[2] /\ a[3] <= b[3]

IsFirst(w, work) == w \in work /\ \A v \in work : Before(w, v)

(* Mutant: only the first connection of a port counts.                     *)
FirstLinks(w, n, ports) ==
  {<<w, i, 1>> : i \in {j \in ports : conns[<<n, j>>] # <<>>}}

(* All connections of some ports of n                                      *)
Links(w, n, ports) ==
  UNION {{<<w, i, j>> : j \in DOMAIN conns[<<n, i>>]} : i \in ports}

Peer(n, w) == conns[<<n, w[2]>>][w[3]]

-----------------------------------------------------------------------------
(* am_dfg_port_activated: is a port used for an exchange of data, for the  *)
(* masks neg and the generations gen                                       *)

InActivated(p, neg) ==
  /\ conns[p] # <<>>
  /\ LET q == conns[p][1] IN
       \/ p[2] \in neg[p[1]]["pull_old"]
       \/ p[2] \in neg[p[1]]["pull_new"] /\ q[2] \in neg[q[1]]["push_new"]

OutActivated(p, neg, gen) ==
  /\ conns[p] # <<>>
  /\ \/ p[2] \in neg[p[1]]["push_new"]
     \/ /\ p[2] \in neg[p[1]]["push_old"]
        /\ \E j \in DOMAIN conns[p] :
             LET q == conns[p][j] IN
               \/ q[2] \in neg[q[1]]["pull_old"]
               \/ q[2] \in neg[q[1]]["pull_new"] /\ gen[p] # gen[q]

Activated(p, neg, gen) ==
  IF p \in InPort THEN InActivated(p, neg) ELSE OutActivated(p, neg, gen)

-----------------------------------------------------------------------------
(* Starting a call                                                         *)

Neighbours(n) ==
  {q[1] : q \in UNION {Range(conns[<<n, i>>]) : i \in PortIdx(TypeOf[n])}}

(* The connected component of n                                            *)
Component(n) ==
  {m \in Node : \A S \in SUBSET Node :
     n \in S /\ (\A k \in S : Neighbours(k) \subseteq S) => m \in S}

NewFrame(call, n, list) ==
  [call |-> call, node |-> n, phase |-> "converge", cur |-> n, work |-> {},
   ins |-> {}, outs |-> {}, todo |-> <<>>, list |-> list, loop |-> {}]

(* Mutant: the masks of earlier calls are kept.                            *)
ResetAllButMasks(S, neg) ==
  /\ deps' = [n \in Node |-> IF n \in S THEN 0 ELSE deps[n]]
  /\ negotiated' =
       [n \in Node |-> IF n \in S THEN Apply(negotiated[n], neg[n])
                       ELSE negotiated[n]]
  /\ propagated' = [n \in Node |-> IF n \in S THEN NoMask ELSE propagated[n]]
  /\ written' = {p \in written : p[1] \notin S}
  /\ marking' = [n \in Node |-> IF n \in S THEN "reset" ELSE marking[n]]

(* am_dfg_schedule_reset_node for all nodes in S, then the negotiation     *)
(* starts from the masks neg.                                              *)
Reset(S, neg) ==
  /\ deps' = [n \in Node |-> IF n \in S THEN 0 ELSE deps[n]]
  /\ negotiated' = [n \in Node |-> IF n \in S THEN neg[n] ELSE negotiated[n]]
  /\ propagated' = [n \in Node |-> IF n \in S THEN NoMask ELSE propagated[n]]
  /\ written' = {p \in written : p[1] \notin S}
  /\ marking' = [n \in Node |-> IF n \in S THEN "reset" ELSE marking[n]]

(* am_dfg_schedule_component(n) up to the negotiation                      *)
ScheduleComponent(n, mask) ==
  /\ Idle
  /\ required' = [required EXCEPT ![n] = mask]
  /\ Reset(Component(n), [m \in Node |-> IF m = n THEN mask ELSE NoMask])
  /\ stack' = <<NewFrame("component", n, <<n>>)>>
  /\ calls < MaxCalls /\ calls' = calls + 1
  /\ UNCHANGED <<conns, generation, ret>>

(* Nodes pushed to the front of a list while iterating over the graph.     *)
Pushed(S) == {s \in SetToSeqs(S) :
                \A i, j \in DOMAIN s : i < j => NodeId[s[i]] > NodeId[s[j]]}

PullAll(n) == [r \in Reaction |->
                 IF r = "pull_old" THEN InPorts(TypeOf[n]) ELSE {}]

(* am_dfg_schedule_graph up to the negotiation                             *)
ScheduleGraph ==
  /\ Idle
  /\ required' = [n \in Node |-> PullAll(n)]
  /\ Reset(Node, [n \in Node |-> PullAll(n)])
  /\ \E s \in Pushed(Node) : stack' = <<NewFrame("graph", Head(s), s)>>
  /\ calls < MaxCalls /\ calls' = calls + 1
  /\ UNCHANGED <<conns, generation, ret>>

-----------------------------------------------------------------------------
(* Negotiation                                                             *)

RightDir(n, w, i) ==
  IF w <= 2 THEN i \in InPorts(TypeOf[n]) ELSE i \in OutPorts(TypeOf[n])

(* What a node whose masks changed has to propagate to its neighbours.     *)
ToPropagate(n) ==
  UNION {LET ports == Diff(negotiated[n], propagated[n])[Word[w]]
             right == {i \in ports : RightDir(n, w, i)}
         IN Links(w, n, right) \cup {<<w, i, 0>> : i \in ports \ right}
         : w \in 1..4}

(* am_dfg_schedule_list_pop_front, start of eval_dependencies              *)
EvalStart ==
  /\ In("converge")
  /\ Top.list # <<>>
  /\ LET n == Head(Top.list) IN
       SetTop([Top EXCEPT !.list = Tail(@), !.phase = "eval", !.cur = n,
                          !.work = ToPropagate(n)])
  /\ UNCHANGED <<conns, maskVars, deps, marking, generation, written, ret>>

(* list_del: a node is on a list at most once.                             *)
Without(s, n) ==
  IF n \in Range(s) THEN RemoveAt(s, CHOOSE k \in DOMAIN s : s[k] = n) ELSE s

(* Mutant: a node is put on the list only if nothing else is to be done.   *)
PushIfEmpty(s, n) == IF s = <<>> THEN <<n>> ELSE s

PushFront(s, n) == Cons(n, Without(s, n))

(* One turn of the loops of am_dfg_port_propagate_*: the peer's mask for   *)
(* the event is applied to the peer's node, which is to be re-evaluated if *)
(* its masks change.  A port of the wrong direction ends the call.         *)
Propagate ==
  /\ In("eval")
  /\ \E w \in Top.work :
       /\ IsFirst(w, Top.work)
       /\ IF w[3] = 0 THEN Return("error") /\ UNCHANGED negotiated
          ELSE LET q == Peer(Top.cur, w)
                   m == q[1]
                   event == IF w[1] \in {1, 3} THEN "new" ELSE "old"
                   mask == PortMasks[TypeOf[m]][q[2]][event]
                   rest == [Top EXCEPT !.work = @ \ {w}]
               IN /\ UNCHANGED ret
                  /\ IF IsSubset(negotiated[m], mask)
                       THEN SetTop(rest) /\ UNCHANGED negotiated
                       ELSE /\ negotiated' =
                                 [negotiated EXCEPT ![m] = Apply(@, mask)]
                            /\ SetTop([rest EXCEPT !.list = PushFront(@, m)])
  /\ UNCHANGED <<conns, required, propagated, deps, marking, generation,
                 written>>

(* Mutant: any number of inputs counts as one.                             *)
CountAny(n) ==
  IF \E i \in InMask(negotiated[n]) :
       Activated(<<n, i>>, negotiated, generation) THEN 1 ELSE 0

(* Mutant: inputs that are not used for an exchange count, too.            *)
CountAll(n) == Cardinality(InMask(negotiated[n]))

CountDeps(n) ==
  Cardinality({i \in InMask(negotiated[n]) :
                 Activated(<<n, i>>, negotiated, generation)})

(* End of eval_dependencies: the changes count as propagated and the       *)
(* node's counter is set from the masks as they are at this point.         *)
EvalEnd ==
  /\ In("eval")
  /\ Top.work = {}
  /\ LET n == Top.cur IN
       /\ propagated' = [propagated EXCEPT ![n] = Apply(@, negotiated[n])]
       /\ deps' = [deps EXCEPT ![n] = CountDeps(n)]
  /\ SetTop([Top EXCEPT !.phase = "converge"])
  /\ UNCHANGED <<conns, required, negotiated, marking, generation, written,
                 ret>>

-----------------------------------------------------------------------------
(* From the negotiation to the execution                                   *)

(* Mutant: a node that waits for inputs may be a root.                     *)
IsProducer(n) ==
  \E i \in OutMask(negotiated[n]) :
    Activated(<<n, i>>, negotiated, generation)

IsRoot(n) ==
  /\ deps[n] = 0
  /\ \E i \in OutMask(negotiated[n]) :
       Activated(<<n, i>>, negotiated, generation)

(* A call of __am_dfg_schedule_component_find_roots for n, which goes on   *)
(* with the connections of n's ports in use.                               *)
Visit(n, f) ==
  SetTop([f EXCEPT
    !.todo = Cons([node |-> n, links |-> Links(1, n, UsedMask(negotiated[n]))], @),
    !.list = IF IsRoot(n) THEN Cons(n, @) ELSE @])

(* am_dfg_schedule_component_find_roots: the markings are reset and the    *)
(* search starts at the node of the call.                                  *)
RootsStart ==
  /\ In("converge")
  /\ Top.call = "component"
  /\ Top.list = <<>>
  /\ marking' = [n \in Node |-> IF n = Top.node THEN "find_roots"
                                ELSE IF n \in Component(Top.node) THEN "none"
                                ELSE marking[n]]
  /\ Visit(Top.node, [Top EXCEPT !.phase = "roots"])
  /\ UNCHANGED <<conns, maskVars, deps, generation, written, ret>>

(* The next connection of the node being visited                           *)
RootsVisit ==
  /\ In("roots")
  /\ Top.todo # <<>>
  /\ \E w \in Head(Top.todo).links :
       /\ IsFirst(w, Head(Top.todo).links)
       /\ LET m == Peer(Head(Top.todo).node, w)[1]
              rest == [Top EXCEPT !.todo[1].links = @ \ {w}]
          IN \/ /\ marking[m] = "find_roots"
                /\ SetTop(rest)
                /\ UNCHANGED marking
             \/ /\ marking[m] # "find_roots"
                /\ marking' = [marking EXCEPT ![m] = "find_roots"]
                /\ Visit(m, rest)
  /\ UNCHANGED <<conns, maskVars, deps, generation, written, ret>>

RootsBack ==
  /\ In("roots")
  /\ Top.todo # <<>>
  /\ Head(Top.todo).links = {}
  /\ SetTop([Top EXCEPT !.todo = Tail(@)])
  /\ UNCHANGED <<conns, maskVars, deps, marking, generation, written, ret>>

RootsEnd ==
  /\ In("roots")
  /\ Top.todo = <<>>
  /\ \/ Top.list = <<>> /\ Return("error")
     \/ Top.list # <<>> /\ SetTop([Top EXCEPT !.phase = "run"]) /\ UNCHANGED ret
  /\ UNCHANGED <<conns, maskVars, deps, marking, generation, written>>

(* am_dfg_schedule_graph: all nodes without outstanding inputs are pushed. *)
FindReady ==
  /\ In("converge")
  /\ Top.call = "graph"
  /\ Top.list = <<>>
  /\ \E s \in Pushed({n \in Node : deps[n] = 0}) :
       SetTop([Top EXCEPT !.phase = "run", !.list = s])
  /\ UNCHANGED <<conns, maskVars, deps, marking, generation, written, ret>>

-----------------------------------------------------------------------------
(* Execution                                                               *)

(* Mutant: no limit                                                        *)
NextGenerationUnbounded(g) == g + 1

(* Mutant: plain wrap-around                                               *)
NextGenerationOrZero(g) == (g + 1) % (GenMax + 1)

(* am_dfg_output_port_inc_generation: 0 is left out on wrap-around.        *)
NextGeneration(g) == IF g = GenMax THEN 1 ELSE g + 1

Popped(n) == IF Top.list # <<>> THEN n = Head(Top.list) ELSE n \in Top.loop

(* Mutant: the first node stays on the list.                               *)
NotRemoved(s) == s

RestOf(s) == IF s = <<>> THEN s ELSE Tail(s)

(* am_dfg_schedule_process_node up to the call of the process function.    *)
(* It refuses a node with outstanding inputs.                              *)
ProcessStart ==
  /\ In("run")
  /\ \E n \in Node :
       /\ Popped(n)
       /\ IF deps[n] # 0 THEN Return("error") /\ UNCHANGED <<marking, generation>>
          ELSE /\ marking' = [marking EXCEPT ![n] = "processing"]
               /\ generation' = [p \in Port |->
                    IF p[1] = n /\ p[2] \in negotiated[n]["push_new"]
                      THEN NextGeneration(generation[p]) ELSE generation[p]]
               /\ LET used == UsedMask(negotiated[n])
                      omittable == \A i \in used :
                        ~ Activated(<<n, i>>, negotiated, generation')
                  IN SetTop([Top EXCEPT !.list = RestOf(@), !.cur = n,
                               !.ins = InMask(negotiated[n]),
                               !.outs = OutMask(negotiated[n]),
                               !.phase = IF omittable THEN "skip" ELSE "call"])
               /\ UNCHANGED ret
  /\ UNCHANGED <<conns, maskVars, deps, written>>

(* Mutant: an input counts the exchanges of data itself.                   *)
Counted(p) == NextGeneration(generation[p])

Seen(p) == generation[conns[p][1]]

(* The process function or its omission is over: the requested inputs have *)
(* seen their producers' data, the consumers are notified next.            *)
AfterProcess ==
  LET n == Top.cur IN
    /\ generation' = [p \in Port |->
         IF p[1] = n /\ p[2] \in Top.ins /\ conns[p] # <<>>
           THEN Seen(p) ELSE generation[p]]
    /\ SetTop([Top EXCEPT !.phase = "notify",
         !.work = Links(1, n, Top.outs)])

ProcessSkip ==
  /\ In("skip")
  /\ AfterProcess
  /\ UNCHANGED <<conns, maskVars, deps, marking, written, ret>>

(* The process function writes to the buffers of the activated outputs.    *)
ProcessOk ==
  /\ In("call")
  /\ AfterProcess
  /\ written' = written \cup
       {p \in OutPort : p[1] = Top.cur /\ Activated(p, negotiated, generation)}
  /\ UNCHANGED <<conns, maskVars, deps, marking, ret>>

ProcessFail ==
  /\ In("call")
  /\ Return("error")
  /\ UNCHANGED <<conns, maskVars, deps, marking, generation, written>>

(* One turn of the loop over the consumers.  "If the synchronization       *)
(* counter is already 0 something must have gone wrong."                   *)
Notify ==
  /\ In("notify")
  /\ \E w \in Top.work :
       /\ IsFirst(w, Top.work)
       /\ LET q == Peer(Top.cur, w)
              m == q[1]
              rest == [Top EXCEPT !.work = @ \ {w}]
          IN \/ /\ ~ Activated(q, negotiated, generation)
                /\ SetTop(rest)
                /\ UNCHANGED <<deps, ret>>
             \/ /\ Activated(q, negotiated, generation)
                /\ IF deps[m] = 0 THEN Return("error") /\ UNCHANGED deps
                   ELSE /\ deps' = [deps EXCEPT ![m] = @ - 1]
                        /\ SetTop(IF deps[m] = 1
                                    THEN [rest EXCEPT !.list = Cons(m, @)]
                                    ELSE rest)
                        /\ UNCHANGED ret
  /\ UNCHANGED <<conns, maskVars, marking, generation, written>>

NotifyEnd ==
  /\ In("notify")
  /\ Top.work = {}
  /\ marking' = [marking EXCEPT ![Top.cur] = "done"]
  /\ SetTop([Top EXCEPT !.phase = "run"])
  /\ UNCHANGED <<conns, maskVars, deps, generation, written, ret>>

RunEnd ==
  /\ In("run")
  /\ Top.list = <<>>
  /\ Top.loop = {}
  /\ Return("ok")
  /\ UNCHANGED <<conns, maskVars, deps, marking, generation, written>>

-----------------------------------------------------------------------------
(* Specification                                                           *)

Init ==
  /\ conns \in Graphs
  /\ required = [n \in Node |-> NoMask]
  /\ negotiated = [n \in Node |-> NoMask]
  /\ propagated = [n \in Node |-> NoMask]
  /\ deps = [n \in Node |-> 0]
  /\ marking = [n \in Node |-> "none"]
  /\ generation = [p \in Port |-> IF p \in OutPort THEN 1 ELSE 0]
  /\ written = {}
  /\ stack = <<>>
  /\ ret = "none"
  /\ calls = 0

Negotiate == EvalStart \/ Propagate \/ EvalEnd

FindRoots == RootsStart \/ RootsVisit \/ RootsBack \/ RootsEnd

Execute ==
  \/ ProcessStart \/ ProcessSkip \/ ProcessOk \/ ProcessFail
  \/ Notify \/ NotifyEnd \/ RunEnd

(* The steps the scheduler takes by itself.                                *)
Step == Negotiate \/ FindRoots \/ FindReady \/ Execute

Next ==
  \/ \E q \in Requests : ScheduleComponent(q.node, q.mask)
  \/ ScheduleGraph
  \/ Step

Spec == Init /\ [][Next]_vars

(* A call is a sequential computation: it goes on as long as it can, and   *)
(* every process function returns.                                         *)
FairSpec == Spec /\ WF_vars(Step)

-----------------------------------------------------------------------------
(* What the execution takes for granted about node types and requests      *)

(* New data at input i of a node of type t makes the node pull the input.  *)
HearsNew(t, i) == i \in PortMasks[t][i]["new"]["pull_old"]

(* A node of type t only pulls new data at input i when it is told of it.  *)
PullsWhenTold(t, i) ==
  \A k \in PortIdx(t), event \in Trigger :
    i \in PortMasks[t][k][event]["pull_new"] => k = i /\ event = "new"

(* A counter that was computed before a producer announced new data is     *)
(* computed again, or the data does not count.  The node types with        *)
(* default port dependencies keep to this; a type may not with explicit    *)
(* ones.                                                                   *)
Responsive ==
  /\ \A t \in NodeType : \A i \in InPorts(t) : HearsNew(t, i) \/ PullsWhenTold(t, i)
  /\ \A q \in Requests : \A i \in q.mask["pull_new"] : HearsNew(TypeOf[q.node], i)

(* Inputs are pulled and outputs are pushed.                               *)
IsDirected(t, mask) ==
  /\ mask["pull_new"] \cup mask["pull_old"] \subseteq InPorts(t)
  /\ mask["push_new"] \cup mask["push_old"] \subseteq OutPorts(t)

Directed ==
  /\ \A t \in NodeType : \A i \in PortIdx(t), event \in Trigger :
       IsDirected(t, PortMasks[t][i][event])
  /\ \A q \in Requests : IsDirected(TypeOf[q.node], q.mask)

-----------------------------------------------------------------------------
(* Properties                                                              *)

(* What a call has left to do for a node names ports and connections that  *)
(* exist.                                                                  *)
IsLink(n, w) ==
  w[2] \in PortIdx(TypeOf[n]) /\ w[3] \in DOMAIN conns[<<n, w[2]>>]

WorkOK(f) ==
  /\ f.phase \in {"eval", "notify"} \/ f.work = {}
  /\ f.phase \in {"skip", "call"} => f.outs \subseteq PortIdx(TypeOf[f.cur])
  /\ \A w \in f.work : (f.phase = "eval" /\ w[3] = 0) \/ IsLink(f.cur, w)
  /\ \A k \in DOMAIN f.todo : \A w \in f.todo[k].links : IsLink(f.todo[k].node, w)

(* Types of the variables.  The masks of a node stay within its ports, the *)
(* work left to do within its connections, and a generation within its     *)
(* width (am_dfg_output_port_inc_generation).                              *)
TypeOK ==
  /\ conns \in Graphs
  /\ required \in [Node -> [Reaction -> SUBSET PortIndexes]]
  /\ negotiated \in [Node -> [Reaction -> SUBSET PortIndexes]]
  /\ propagated \in [Node -> [Reaction -> SUBSET PortIndexes]]
  /\ \A n \in Node : negotiated[n] \in Mask(n) /\ propagated[n] \in Mask(n)
  /\ deps \in [Node -> Nat]
  /\ marking \in [Node -> Marking]
  /\ generation \in [Port -> 0..GenMax]
  /\ written \subseteq OutPort
  /\ stack \in Seq(Frame)
  /\ \A k \in DOMAIN stack : WorkOK(stack[k])
  /\ ret \in {"none", "ok", "error"}
  /\ calls \in Nat

(* The generation of an output port is never 0, even when it wraps around: *)
(* an input port that connects starts at 0 and must not miss the current   *)
(* value (am_dfg_output_port_inc_generation, am_dfg_node_instantiate).     *)
NeverZero == \A p \in OutPort : generation[p] # 0

Executing == stack # <<>> /\ Top.phase \in {"run", "call", "skip", "notify"}

(* The nodes a call is about                                               *)
Reached == IF Top.call = "graph" THEN Node ELSE Component(Top.node)

(* Once the nodes run, none has changes left that its neighbours have not  *)
(* been told of (am_dfg_schedule_converge_deps): a node's pending changes  *)
(* are on the list, however often it was taken off and put back.           *)
Converged ==
  Executing => \A n \in Reached : propagated[n] = negotiated[n]

(* A bit <<n, r, i>> stands for port i in word r of the mask of node n.    *)
Bits(masks) == UNION {UNION {{<<n, r, i>> : i \in masks[n][r]}
                              : r \in Reaction} : n \in Node}

(* The bits that a bit causes at the neighbours of its node.               *)
Causes(b) ==
  LET p == <<b[1], b[3]>>
      event == IF b[2] \in {"pull_new", "push_new"} THEN "new" ELSE "old"
      caused(q) == UNION {{<<q[1], r, i>> :
                             i \in PortMasks[TypeOf[q[1]]][q[2]][event][r]}
                            : r \in Reaction}
  IN UNION {caused(conns[p][j]) : j \in DOMAIN conns[p]}

CausedBy(bits) ==
  LET N == 4 * Cardinality(Port)
      after[k \in 0..N] ==
        IF k = 0 THEN bits
        ELSE LET prev == after[k - 1]
             IN prev \cup UNION {Causes(b) : b \in prev}
  IN after[N]

(* The masks a call starts from.                                           *)
Requested == [n \in Node |-> IF Top.call = "graph" \/ Top.node = n
                               THEN required[n] ELSE NoMask]

(* The negotiation computes the least masks that contain the requests and  *)
(* that are closed under the port dependencies: nothing is lost and        *)
(* nothing is requested without a cause, in whatever order the nodes are   *)
(* evaluated and re-evaluated.                                             *)
NegotiationLeast ==
  (In("run") /\ \A n \in Reached : marking[n] # "done") =>
    Bits([n \in Node |-> IF n \in Reached THEN negotiated[n] ELSE NoMask])
      = CausedBy(Bits(Requested))

(* When a process function runs, the producers of all activated inputs     *)
(* have written their buffers during this call ("The node must be ready    *)
(* for execution, i.e., all input dependencies must be satisfied").        *)
InputsReady ==
  In("call") =>
    \A i \in InMask(negotiated[Top.cur]) :
      LET p == <<Top.cur, i>> IN
        Activated(p, negotiated, generation) => conns[p][1] \in written

(* The activated inputs of a node whose producers have not yet notified it *)
Outstanding(n) ==
  {i \in InMask(negotiated[n]) :
     /\ Activated(<<n, i>>, negotiated, generation)
     /\ LET q == conns[<<n, i>>][1]
            notified == In("notify") /\ Top.cur = q[1]
                          /\ \A w \in Top.work : Peer(q[1], w) # <<n, i>>
        IN \/ q[2] \notin OutMask(negotiated[q[1]])
           \/ marking[q[1]] # "done" /\ ~ notified}

(* While nodes run, each node's counter is the number of activated inputs  *)
(* it still waits for, although it was computed during the negotiation     *)
(* from masks that went on changing and from generations that change while *)
(* the nodes run.                                                          *)
CountersExact ==
  Executing => \A n \in Reached : deps[n] = Cardinality(Outstanding(n))

(* The list of nodes to run has each node at most once, only nodes that    *)
(* wait for no input, and none that has already run during this call.      *)
Once ==
  In("run") =>
    /\ \A k \in DOMAIN Top.list : /\ deps[Top.list[k]] = 0
                                  /\ marking[Top.list[k]] # "done"
    /\ \A k, l \in DOMAIN Top.list : k # l => Top.list[k] # Top.list[l]

(* The checks of am_dfg_schedule_process_node for a node that is not ready *)
(* and for a counter that is already 0 never strike: a call fails only     *)
(* because a process function fails or nothing is to be run.               *)
OnlyProcessFails ==
  [][stack # <<>> /\ stack' = Tail(stack) /\ ret' = "error"
       => Top.phase \in {"call", "roots"}]_vars

Used(n) == \E i \in UsedMask(negotiated[n]) :
             Activated(<<n, i>>, negotiated, generation)

(* When a call has run out of nodes and is about to succeed, a node that   *)
(* takes part in the exchange of data was left out only if one of its      *)
(* activated inputs waits for a port that its producer does not push or    *)
(* for a node that was left out itself.                                    *)
LeftOut ==
  (In("run") /\ Top.list = <<>> /\ Top.loop = {}) =>
    \A n \in Reached : Used(n) /\ marking[n] # "done" =>
      \E i \in InMask(negotiated[n]) :
        /\ Activated(<<n, i>>, negotiated, generation)
        /\ LET q == conns[<<n, i>>][1] IN
             \/ q[2] \notin OutMask(negotiated[q[1]])
             \/ Used(q[1]) /\ marking[q[1]] # "done"

(* What a node that ran counts as seen is what its producer wrote during   *)
(* the same call: after a successful call its activated inputs are at the  *)
(* generations of their producers, so that nothing of it counts as new in  *)
(* the next call, and these producers wrote their buffers.  (An input that *)
(* was requested but not activated takes its producer's generation, too,   *)
(* although it was shown nothing: dfg_schedule.c:400-403.)                 *)
SeenNew ==
  (Idle /\ ret = "ok") =>
    \A p \in InPort :
      marking[p[1]] = "done" /\ Activated(p, negotiated, generation)
        => /\ generation[p] = generation[conns[p][1]]
           /\ conns[p][1] \in written

(* A call returns: the negotiation converges and the execution runs out of *)
(* nodes.                                                                  *)
Returns == ~ Idle ~> Idle

(* While a call runs nodes, every node runs at most once and after its     *)
(* inputs, and its counter says how many of those are outstanding: three   *)
(* sides of the bookkeeping that am_dfg_schedule_component distributes     *)
(* over its two loops.                                                     *)
ExecutionRight == InputsReady /\ CountersExact /\ Once

(* Inputs that were used for an exchange have seen the data that their     *)
(* producers wrote in that call and are not behind these after it, and the *)
(* generation 0 stays with inputs that have seen no data, also when        *)
(* generations wrap around.                                                *)
GenerationsRight == NeverZero /\ SeenNew
=============================================================================
