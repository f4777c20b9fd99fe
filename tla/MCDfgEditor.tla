----------------------------- MODULE MCDfgEditor -----------------------------
(***************************************************************************)
(* Instances of DfgEditor and DfgCycle, the editor and its cycle check.    *)
(* They share no state, so one runs while the other stays as it is         *)
(* initially.                                                              *)
(***************************************************************************)
EXTENDS DfgEditor, DfgCycle, TLC

CONSTANTS filter, dur, count, const

VARIABLE part  \* the one that runs

MCNode == {filter, dur, count, const}
MCOrder == <<filter, dur, count, const>>
MCNodeType == {"filter", "duration", "counter", "constant"}
MCTypeOf == filter :> "filter" @@ dur :> "duration" @@ count :> "counter" @@
            const :> "constant"
MCPortDir == [filter |-> <<"in", "in", "out">>, duration |-> <<"in", "out">>,
              counter |-> <<"in", "out">>, constant |-> <<"out">>]
MCPortDeps == [t \in MCNodeType |-> {}]

-----------------------------------------------------------------------------
(* Every graph of the first three nodes, cyclic ones too (a file may hold  *)
(* one), and every check that the editor can ask for: whether a port can   *)
(* be connected to an input that is free or connected to it already; if a  *)
(* connection of the port is moved, it is ignored.                         *)

(* A wiring gives each input its producer, if any; the last input of a     *)
(* node gets its connection first.                                         *)
Producers == OutPort \ {<<const, 1>>}
Wiring == [InPort -> {<<>>} \cup {<<p>> : p \in Producers}]
Inputs == Reverse(<<<<filter, 1>>, <<filter, 2>>, <<dur, 1>>, <<count, 1>>>>)

WiredAs(wiring) ==
  [p \in Port |->
     IF p \in InPort THEN wiring[p]
     ELSE SelectSeq(Inputs, LAMBDA q : wiring[q] = <<p>>)]

Call(wiring, from, to, moved) ==
  [links |-> WiredAs(wiring), extra |-> <<from, to>>, ignore |-> moved]

MCChecks ==
  UNION {UNION {
    {Call(w, p, q, moved) :
       q \in {i \in InPort : w[i] \in {<<>>, <<p>>}},
       moved \in {{}} \cup {{<<p, i>>} : i \in {j \in InPort : w[j] = <<p>>}}} :
    p \in Producers} : w \in Wiring}

-----------------------------------------------------------------------------
(* The last three nodes in the editor, in a file without connections and   *)
(* in one that has a cycle                                                 *)
MCEditorNodes == {dur, count, const}
MCTypesFit == (OutPort \X InPort) \ {<<<<const, 1>>, <<count, 1>>>>}
NoWires == [p \in Port |-> <<>>]
MCWirings ==
  {NoWires, [NoWires EXCEPT ![<<dur, 1>>] = <<<<dur, 2>>>>, ![<<dur, 2>>] = <<<<dur, 1>>>>]}

-----------------------------------------------------------------------------
(* The part that does not run has one initial state.                       *)
EditInit ==
  /\ part \in {"editor", "cycle"}
  /\ part # "editor" => wires = NoWires
  /\ part # "cycle" => check = CHOOSE c \in MCChecks : TRUE
  /\ EditorInit /\ CycleInit

CheckStep == part = "cycle" /\ CycleNext /\ UNCHANGED <<part, editorVars>>

EditNext ==
  \/ part = "editor" /\ EditorNext /\ UNCHANGED <<part, cycleVars>>
  \/ CheckStep

(* The check goes on as long as it can.                                    *)
EditSpec ==
  /\ EditInit
  /\ [][EditNext]_<<part, editorVars, cycleVars>>
  /\ WF_<<part, editorVars, cycleVars>>(CheckStep)

=============================================================================
