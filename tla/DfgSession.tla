----------------------------- MODULE DfgSession -----------------------------
(***************************************************************************)
(* The session of the GUI: who calls the scheduler, and when.              *)
(*                                                                         *)
(* At startup the session schedules the whole graph.  Then the event loop  *)
(* runs: widgets trigger their nodes through the DFGQTProcessor, which     *)
(* drops triggers while it is disabled, and the user edits the graph, for  *)
(* which the controller calls the scheduler directly.  A process function  *)
(* may change its widget (the visible interval of a timeline, the items of *)
(* a combo box), which then triggers the very node that is being processed *)
(* and so may start a nested call.  All of this happens in one thread.     *)
(***************************************************************************)
EXTENDS DfgSchedule

CONSTANTS
  Compatible,    \* <<output port, input port>> of compatible data types
  HasProperties, \* nodes whose type has properties
  WidgetEvents,  \* [node, mode, outs]: triggers from widgets, see WidgetMask
  TriggerIns,    \* per type: inputs whose data makes the process function
                 \* change the widget, in order, once for each change
  TriggerKind,   \* per type: [mode, outs] of the triggers this causes
  HookIns,       \* per type: inputs whose disconnection changes the widget
  SafeMode,      \* option --dfg-safe-mode
  MaxEdits       \* bound on the changes of the graph in a behaviour

VARIABLES
  enabled,    \* DFGQTProcessor::enabled
  ctx,        \* for each call of stack: its caller, the inputs that the
              \* running process function has left to look at and the one
              \* that it found data at
  pending,    \* the change of the graph that waits for a call to return
  running,    \* the program has not ended
  edits,      \* number of changes of the graph so far
  read        \* history: inputs whose generation was taken from the output
              \* they are connected to, since they were connected

sessionVars == <<vars, enabled, ctx, pending, running, edits, read>>

SchedulesDirectly == "direct"   \* the controller
Callers == {"session", "processor", SchedulesDirectly}

ASSUME SessionAssumption ==
  /\ Compatible \subseteq OutPort \X InPort
  /\ HasProperties \subseteq Node
  /\ DOMAIN TriggerIns = NodeType /\ DOMAIN HookIns = NodeType
  /\ \A t \in NodeType : /\ TriggerIns[t] \in Seq(InPorts(t))
                         /\ HookIns[t] \subseteq InPorts(t)
  /\ \A t \in NodeType : /\ TriggerKind[t].mode \in {"reset", "set", "keep"}
                         /\ TriggerKind[t].outs \subseteq OutPorts(t)
  /\ \A e \in WidgetEvents : /\ e.node \in Node
                            /\ e.mode \in {"reset", "set", "keep"}
                            /\ e.outs \subseteq OutPorts(TypeOf[e.node])
  /\ SafeMode \in BOOLEAN
  /\ MaxEdits \in Nat

-----------------------------------------------------------------------------
(* Calls                                                                   *)

CallBy(by) == [by |-> by, left |-> <<>>, found |-> 0]

(* Starting a call re-initializes the list entries of the nodes it resets  *)
(* (am_dfg_schedule_reset_node).  If a node is on the list of a suspended  *)
(* call, that list no longer ends: its head goes on pointing to the first  *)
(* node, which points to itself.                                           *)
Severed ==
  [k \in DOMAIN stack |->
     IF stack[k].list = <<>> THEN stack[k]
     ELSE [stack[k] EXCEPT !.loop = {Head(stack[k].list)}, !.list = <<>>]]

(* am_dfg_schedule_component up to the negotiation                         *)
StartComponent(n, mask) ==
  /\ required' = [required EXCEPT ![n] = mask]
  /\ \E S \in {Component(n)'} :
       Reset(S, [m \in Node |-> IF m = n THEN mask ELSE NoMask])
  /\ stack' = Cons(NewFrame("component", n, <<n>>), Severed)

(* DFGQTProcessor::DFGNodeTriggered for a node whose required_mask was     *)
(* just set                                                                *)
DFGNodeTriggered(n, mask) ==
  /\ UNCHANGED <<conns, generation, ret>>
  /\ \/ enabled /\ enabled' = FALSE /\ StartComponent(n, mask)
     \/ /\ ~ enabled
        /\ required' = [required EXCEPT ![n] = mask]
        /\ UNCHANGED <<enabled, deps, negotiated, propagated, written,
                       marking, stack>>

Started(by) == IF Len(stack') > Len(stack) THEN <<CallBy(by)>> ELSE <<>>

-----------------------------------------------------------------------------
(* The event loop                                                          *)

(* The handlers of the event loop run when no other handler does.          *)
EventLoop == Idle /\ running /\ calls > 0 /\ pending = {}

CountCall == calls < MaxCalls /\ calls' = calls + 1

CountEdit == edits < MaxEdits /\ edits' = edits + 1

(* AftermathSession::scheduleDFG, called once, before the event loop       *)
ScheduleDFG ==
  /\ calls = 0 /\ running
  /\ ScheduleGraph
  /\ enabled' = FALSE
  /\ ctx' = <<CallBy("session")>>
  /\ UNCHANGED <<pending, running, edits, read>>

(* How a widget requests the processing of node n: most widgets reset the  *)
(* mask first, some set one word of it, some leave it as it is.            *)
WidgetMask(n, e) ==
  CASE e.mode = "reset" -> [NoMask EXCEPT !["push_new"] = e.outs]
    [] e.mode = "set" -> [required[n] EXCEPT !["push_new"] = e.outs]
    [] e.mode = "keep" -> required[n]

WidgetTrigger(e) ==
  /\ EventLoop
  /\ DFGNodeTriggered(e.node, WidgetMask(e.node, e))
  /\ ctx' = Started("processor") \o ctx
  /\ CountCall
  /\ UNCHANGED <<pending, running, edits, read>>

(* AftermathController::DFGNodeDoubleClicked, the dialog being accepted    *)
DFGNodeDoubleClicked(n) ==
  /\ EventLoop
  /\ n \in HasProperties
  /\ UNCHANGED <<conns, generation, ret>>
  /\ StartComponent(n, [NoMask EXCEPT !["pull_old"] = InPorts(TypeOf[n]),
                                      !["push_new"] = OutPorts(TypeOf[n])])
  /\ ctx' = <<CallBy(SchedulesDirectly)>>
  /\ CountCall
  /\ UNCHANGED <<enabled, pending, running, edits, read>>

-----------------------------------------------------------------------------
(* Changes of the graph                                                    *)

(* Mutant: only a node's own outputs are looked at.                        *)
HasSelfLoop(out, in) == out[1] = in[1]

(* am_dfg_graph_has_cycle for an acyclic graph with a further connection   *)
HasCycle(out, in) == out[1] \in Downstream(conns, in[1])

(* DFGWidget::portsCompatible, am_dfg_ports_connected                      *)
PortsCompatible(out, in) ==
  /\ conns[in] = <<>>
  /\ <<out, in>> \in Compatible
  /\ ~ HasCycle(out, in)

(* A change of the connections of an output port: at most one input port   *)
(* is disconnected from it (unlink), then at most one connected (link).    *)
(* The user drags a connection from one input to another or a new one to   *)
(* an input (mouseReleasePort), or deletes one (keyPressEvent).            *)
EditOf(out, unlink, link) == [out |-> out, unlink |-> unlink, link |-> link]

Edits ==
  {EditOf(q, u, l) : q \in OutPort, u, l \in {{}} \cup {{p} : p \in InPort}}

IsEdit(e) ==
  /\ e.unlink \cup e.link # {}
  /\ e.unlink \subseteq Range(conns[e.out])
  /\ \A in \in e.link : PortsCompatible(e.out, in)

(* Mutant: the generation last seen is kept.                               *)
KeepGeneration(links) == generation

(* am_dfg_port_connect_onesided: "When (re)connecting an input port, the   *)
(* generation must be reset".                                              *)
ResetGeneration(links) ==
  [p \in Port |-> IF p \in links THEN 0 ELSE generation[p]]

(* am_dfg_port_disconnect, am_dfg_graph_connectp.  For a new connection    *)
(* AftermathController::portsConnected requests the input's old data.      *)
EditGraph(e) ==
  /\ conns' = [p \in Port |->
       IF p = e.out
         THEN Remaining(conns[p], e.unlink) \o SetToSeq(e.link)
       ELSE IF p \in e.link THEN <<e.out>>
       ELSE IF p \in e.unlink THEN <<>> ELSE conns[p]]
  /\ generation' = ResetGeneration(e.link)
  /\ read' = read \ (e.unlink \cup e.link)
  /\ \/ /\ e.link = {}
        /\ UNCHANGED <<maskVars, deps, marking, written, stack, ctx>>
     \/ \E in \in e.link :
          /\ StartComponent(in[1], [NoMask EXCEPT !["pull_old"] = {in[2]}])
          /\ ctx' = <<CallBy(SchedulesDirectly)>>
  /\ UNCHANGED <<ret, enabled, running>>

EditStart(e) ==
  /\ EventLoop
  /\ IsEdit(e)
  /\ CountEdit
  /\ IF e.link = {} THEN UNCHANGED calls ELSE CountCall

Edit(e) == EditStart(e) /\ EditGraph(e) /\ UNCHANGED pending

(* The disconnect function of the input's node empties the widget, which   *)
(* triggers the node while the ports are still connected.                  *)
EditHook(e) ==
  /\ EditStart(e)
  /\ \E in \in e.unlink :
       /\ in[2] \in HookIns[TypeOf[in[1]]]
       /\ DFGNodeTriggered(in[1], WidgetMask(in[1], TriggerKind[TypeOf[in[1]]]))
  /\ ctx' = Started("processor") \o ctx
  /\ pending' = {e}
  /\ UNCHANGED <<running, read>>

EditGoesOn ==
  /\ Idle /\ running
  /\ \E e \in pending : EditGraph(e)
  /\ pending' = {}
  /\ UNCHANGED <<calls, edits>>

-----------------------------------------------------------------------------
(* The scheduler                                                           *)

Left == Head(ctx).left

(* Bound: no process function fails during a nested call while other nodes *)
(* are on the nested call's list.  The list's head would be gone and its   *)
(* nodes would still refer to it.                                          *)
FailsCleanly == ProcessFail /\ (Len(stack) = 1 \/ Top.list = <<>>)

Continue ==
  \/ Negotiate \/ FindRoots \/ FindReady
  \/ ProcessStart \/ ProcessSkip \/ FailsCleanly
  \/ ProcessOk /\ Left = <<>>
  \/ Notify \/ NotifyEnd \/ RunEnd

Returning == Len(stack') < Len(stack)

(* Mutant: the processor is enabled again only after a success.            *)
EnableOnSuccess == enabled \/ (Head(ctx).by # SchedulesDirectly /\ ret' = "ok")

(* The caller enables the processor that it disabled.                      *)
EnableAgain == enabled \/ Head(ctx).by # SchedulesDirectly

EndOfCall ==
  /\ Returning
  /\ enabled' = EnableAgain
  /\ running' = ~ (Head(ctx).by = "session" /\ ret' = "error" /\ ~ SafeMode)
  /\ ctx' = Tail(ctx)

InsideCall ==
  /\ ~ Returning
  /\ ctx' = IF Top.phase = "run" /\ Head(stack').phase = "call"
              THEN [ctx EXCEPT ![1].left = TriggerIns[TypeOf[Head(stack').cur]],
                               ![1].found = 0]
              ELSE ctx
  /\ UNCHANGED <<enabled, running>>

SchedulerStep ==
  /\ Continue
  /\ EndOfCall \/ InsideCall
  /\ read' = IF Top.phase \in {"call", "skip"} /\ ~ Returning
               THEN read \cup {p \in InPort : /\ p[1] = Top.cur
                                              /\ p[2] \in Top.ins
                                              /\ conns[p] # <<>>}
               ELSE read
  /\ UNCHANGED <<pending, edits>>

(* The process function comes to the next point at which it may change its *)
(* widget: it does not, or the input is activated and has data, and the    *)
(* widget changes and triggers the node.                                   *)
ProcessGoesOn ==
  /\ In("call")
  /\ Left # <<>>
  /\ \E n \in {Top.cur}, i \in {Head(Left)} :
       LET looked == [ctx EXCEPT ![1].left = Tail(@)]
           found == [looked EXCEPT ![1].found = i]
       IN
        \/ /\ ctx' = looked
           /\ UNCHANGED <<vars, enabled>>
        \/ /\ \/ Head(ctx).found = i
              \/ /\ Activated(<<n, i>>, negotiated, generation)
                 /\ conns[<<n, i>>][1] \in written
           /\ DFGNodeTriggered(n, WidgetMask(n, TriggerKind[TypeOf[n]]))
           /\ ctx' = Started("processor") \o found
           /\ UNCHANGED calls
  /\ UNCHANGED <<pending, running, edits, read>>

-----------------------------------------------------------------------------
(* Specification                                                           *)

SessionInit ==
  /\ Init
  /\ enabled = TRUE
  /\ ctx = <<>>
  /\ pending = {}
  /\ running = TRUE
  /\ edits = 0
  /\ read = {}

SessionNext ==
  \/ ScheduleDFG
  \/ \E e \in WidgetEvents : WidgetTrigger(e)
  \/ \E n \in Node : DFGNodeDoubleClicked(n)
  \/ \E e \in Edits : Edit(e) \/ EditHook(e)
  \/ EditGoesOn
  \/ SchedulerStep
  \/ ProcessGoesOn

SessionSpec == SessionInit /\ [][SessionNext]_sessionVars

(* The thread that runs a call goes on with it; the user need not act.     *)
FairSessionSpec ==
  SessionSpec /\ WF_sessionVars(SchedulerStep \/ ProcessGoesOn \/ EditGoesOn)

-----------------------------------------------------------------------------
(* Properties                                                              *)

(* The processor is disabled exactly while a call made by it or by the     *)
(* session is in progress, whatever the result of the calls and of the     *)
(* calls nested in them; so a call made during another is made by the      *)
(* processor, during one made by the controller, and no call is made       *)
(* during that (DFGQTProcessor, scheduleDFG).                              *)
Guarded ==
  running =>
    /\ Len(ctx) = Len(stack)
    /\ ~ enabled <=> \E k \in DOMAIN ctx : ctx[k].by # SchedulesDirectly
    /\ \A k \in DOMAIN ctx : k < Len(ctx) => ctx[k].by = "processor"
    /\ Len(ctx) = 2 => ctx[2].by = SchedulesDirectly
    /\ Len(ctx) <= 2

(* An input port never counts data of the output it is connected to as     *)
(* already seen unless its node has seen it since the two were connected,  *)
(* however often it was connected to other outputs before                  *)
(* (am_dfg_port_connect_onesided).                                         *)
FreshlyConnected ==
  \A p \in InPort :
    conns[p] # <<>> /\ generation[p] = generation[conns[p][1]] => p \in read

(* No sequence of changes makes the graph cyclic (portsCompatible).        *)
Acyclic ==
  \A p \in InPort : conns[p] # <<>> => conns[p][1][1] \notin Downstream(conns, p[1])

Nested == Len(stack) = 2

(* A nested call works although it starts in the middle of another on the  *)
(* same nodes: its counters are exact, its nodes run once and with their   *)
(* inputs present.                                                         *)
NestedCorrect ==
  Nested => Converged /\ CountersExact /\ InputsReady /\ Once

(* The GUI does not become deaf: after it was disabled, the processor is   *)
(* enabled again, so that every call it makes, nested in another or not,   *)
(* comes to an end, and by an end that enables it.                         *)
ProcessorReturns == ~ enabled ~> enabled

(* Calls that nest: none starts inside of one that the processor guards,   *)
(* and one that does start inside of another is itself correct.            *)
NestedRight == Guarded /\ NestedCorrect

-----------------------------------------------------------------------------
(* What comments in the code say that the code does not do                 *)

(* "Returns 0 on success, otherwise 1." (am_dfg_schedule_component): a     *)
(* call returns.                                                           *)
CallReturns == ~ Idle ~> Idle
=============================================================================
