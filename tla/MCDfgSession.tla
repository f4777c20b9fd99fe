---------------------------- MODULE MCDfgSession ----------------------------
(***************************************************************************)
(* Instances of DfgSession.  The first is a small graph of nodes without   *)
(* widgets that change during processing, edited by the user.  The second  *)
(* is a part of a real profile: a trace, a combo box to select one of its  *)
(* hierarchies, two timelines that share a visible interval and a node     *)
(* that calculates its duration.                                           *)
(***************************************************************************)
EXTENDS DfgSession

CONSTANTS button, const, fwd, gate, trace, combo, main, zoomed, dur

Request(n, mode, outs) == [node |-> n, mode |-> mode, outs |-> outs]

(* A topology given by its connections <<output, input>>, in the order in  *)
(* which they were made.                                                   *)
Connected(links) ==
  [p \in Port |->
     LET of == SelectSeq(links, LAMBDA l : p \in {l[1], l[2]})
     IN [k \in DOMAIN of |-> IF of[k][1] = p THEN of[k][2] ELSE of[k][1]]]

-----------------------------------------------------------------------------
(* The edited graph: toolbar_togglebutton.h, string_constant.h and two     *)
(* nodes of conditional_forward.h                                          *)

EditNode == {button, const, fwd, gate}
EditTypeOf == button :> "togglebutton" @@ const :> "constant" @@
              fwd :> "forward" @@ gate :> "forward"
EditNodeType == {"togglebutton", "constant", "forward"}
EditNodeId == button :> 1 @@ const :> 2 @@ fwd :> 3 @@ gate :> 4
EditPortDir == [togglebutton |-> <<"out">>, constant |-> <<"out">>,
                forward |-> <<"in", "in", "out">>]
EditPure == {"togglebutton", "forward"}
EditPortDeps == [t \in EditNodeType |-> {}]
EditGraphs ==
  {Connected(<<<<<<button, 1>>, <<fwd, 2>>>>, <<<<const, 1>>, <<fwd, 1>>>>>>)}
EditCompatible ==
  {<<<<button, 1>>, <<fwd, 2>>>>, <<<<button, 1>>, <<gate, 2>>>>,
   <<<<const, 1>>, <<fwd, 1>>>>, <<<<const, 1>>, <<gate, 1>>>>,
   <<<<fwd, 3>>, <<gate, 1>>>>, <<<<gate, 3>>, <<fwd, 1>>>>}
EditProperties == {const}
EditEvents == {Request(button, "set", {1})}
EditTriggerIns == [t \in EditNodeType |-> <<>>]
EditTriggerKind == [t \in EditNodeType |-> [mode |-> "keep", outs |-> {}]]
EditHookIns == [t \in EditNodeType |-> {}]

-----------------------------------------------------------------------------
(* The profile: nodes/trace.h, hierarchy_combobox.h, timeline.h (hierarchy *)
(* in, interval in, interval out; the other ports are not connected) and   *)
(* interval_duration.h                                                     *)

GuiNode == {trace, combo, main, zoomed, dur}
GuiTypeOf == trace :> "trace" @@ combo :> "combobox" @@ main :> "timeline" @@
             zoomed :> "timeline" @@ dur :> "duration"
GuiNodeType == {"trace", "combobox", "timeline", "duration"}
GuiNodeId == trace :> 1 @@ combo :> 2 @@ main :> 3 @@ zoomed :> 4 @@ dur :> 5
GuiPortDir == [trace |-> <<"out">>, combobox |-> <<"in", "out">>,
               timeline |-> <<"in", "in", "out">>, duration |-> <<"in", "out">>]
GuiPure == {"trace", "duration"}

Dep(trigger, i, reaction, ports) ==
  [trigger |-> trigger, port |-> i, reaction |-> reaction, ports |-> ports]

GuiPortDeps ==
  [t \in GuiNodeType |->
     CASE t = "combobox" ->
            {Dep("new", 1, "push_new", {2}), Dep("new", 2, "pull_new", {1}),
             Dep("old", 1, "push_old", {2}), Dep("old", 2, "push_old", {2})}
       [] t = "timeline" ->
            {Dep("new", 1, "pull_new", {1}), Dep("new", 2, "pull_new", {2}),
             Dep("new", 2, "push_new", {3}), Dep("new", 3, "push_new", {3}),
             Dep("old", 3, "push_old", {3})}
       [] OTHER -> {}]

GuiLinks == <<<<<<trace, 1>>, <<combo, 1>>>>, <<<<combo, 2>>, <<main, 1>>>>>>

(* The duration of the visible interval of the second timeline, or of the  *)
(* first                                                                   *)
GuiGraphs ==
  {Connected(GuiLinks \o <<<<<<main, 3>>, <<zoomed, 2>>>>,
                           <<<<zoomed, 3>>, <<dur, 1>>>>>>)}
GuiShared ==
  {Connected(GuiLinks \o <<<<<<main, 3>>, <<dur, 1>>>>,
                           <<<<main, 3>>, <<zoomed, 2>>>>>>)}
GuiCompatible ==
  {<<<<trace, 1>>, <<combo, 1>>>>, <<<<combo, 2>>, <<zoomed, 1>>>>,
   <<<<main, 3>>, <<zoomed, 2>>>>, <<<<zoomed, 3>>, <<main, 2>>>>,
   <<<<zoomed, 3>>, <<dur, 1>>>>}
GuiProperties == {main}
GuiEvents == {Request(combo, "set", {2}), Request(main, "reset", {3}),
              Request(main, "keep", {})}
(* timeline.cpp: setVisibleInterval; hierarchy_combobox.cpp:               *)
(* setHierarchies, which clears the combo box and adds its first item      *)
GuiTriggerIns == [t \in GuiNodeType |->
  CASE t = "timeline" -> <<2>> [] t = "combobox" -> <<1, 1>> [] OTHER -> <<>>]
GuiTriggerKind == [t \in GuiNodeType |->
  CASE t = "timeline" -> [mode |-> "reset", outs |-> {3}]
    [] t = "combobox" -> [mode |-> "set", outs |-> {2}]
    [] OTHER -> [mode |-> "keep", outs |-> {}]]
GuiHookIns == [t \in GuiNodeType |-> IF t = "combobox" THEN {1} ELSE {}]

=============================================================================
