--------------------------- MODULE ObjectNotation ---------------------------
(***************************************************************************)
(* The object notation (object_notation.c, parser.h), in which graphs and  *)
(* descriptions of the GUI are kept in files: a tree is built, extended,   *)
(* saved write by write and parsed again.                                  *)
(*                                                                         *)
(* A write may fail, once or from then on, after a part of it reached the  *)
(* file; and what stdio still buffers may be lost when the file is closed, *)
(* since nobody looks at the result of fclose.  Whatever the file holds    *)
(* then is parsed by a grammar that forgives trailing commas and anything  *)
(* that follows the tree.                                                  *)
(*                                                                         *)
(* A text is a sequence of atoms: characters, names and numbers; white     *)
(* space, which the parser skips, is left out.  Strings are spelled        *)
(* character by character for the sake of escape sequences.  Memory and    *)
(* the status with the position of an error are left out.                  *)
(***************************************************************************)
EXTENDS Integers, FiniteSetsExt, SequencesExt

CONSTANTS
  Trees,       \* the trees that a program builds; their roots are groups
  NewMembers,  \* sequences of members that may be added
  MaxMembers   \* bound on the members of the root

VARIABLES
  tree,     \* the root
  contents, \* the atoms in the file
  saved,    \* what am_object_notation_save returned: "no", "success", "failure"
  broken,   \* history: the first loss: "no", of a write whose failure is
            \* "unchecked", of an "other" write, or of the "end" of the file
  loaded    \* what was loaded: Nothing before and when loading failed

notationVars == <<tree, contents, saved, broken, loaded>>

-----------------------------------------------------------------------------
(* Nodes                                                                   *)

Group(name, members) == [type |-> "group", name |-> name, members |-> members]
Member(name, def) == [type |-> "member", name |-> name, def |-> def]
List(items) == [type |-> "list", items |-> items]
Scalar(type, value) == [type |-> type, value |-> value]

Nothing == Scalar("nothing", 0)

IsComposite(n) == n.type \in {"group", "member", "list"}

MemberNames(g) == {m.name : m \in ToSet(g.members)}

(* The first member of that name; Nothing if there is none                 *)
MemberDef(g, name) ==
  IF name \in MemberNames(g)
  THEN g.members[Min({k \in DOMAIN g.members : g.members[k].name = name})].def
  ELSE Nothing

(* Mutant: only the first of the new members is looked up.                 *)
MoveFirstChecked(g, new) ==
  IF new[1].name \in MemberNames(g)
  THEN [ok |-> FALSE, group |-> g]
  ELSE [ok |-> TRUE, group |-> [g EXCEPT !.members = @ \o new]]

(* move_members: all of them or none                                       *)
MoveMembers(g, new) ==
  IF \E k \in DOMAIN new : new[k].name \in MemberNames(g)
  THEN [ok |-> FALSE, group |-> g]
  ELSE [ok |-> TRUE, group |-> [g EXCEPT !.members = @ \o new]]

(* am_object_notation_eval for a path of member names.  An index of a list *)
(* is never accepted: its token includes the suffix, which is no number.   *)
RECURSIVE Eval(_, _)
Eval(n, path) ==
  IF path = <<>> THEN n
  ELSE IF n.type # "group" THEN Nothing
  ELSE LET def == MemberDef(n, Head(path))
       IN  IF def = Nothing THEN Nothing ELSE Eval(def, Tail(path))

-----------------------------------------------------------------------------
(* Text                                                                    *)

Char(c) == [t |-> "char", v |-> c]
Name(n) == [t |-> "name", v |-> n]
Number(type, value) == [t |-> type, v |-> value]

Chars(cs) == [k \in DOMAIN cs |-> Char(cs[k])]

Is(text, pos, c) ==
  pos \in DOMAIN text /\ text[pos].t = "char" /\ text[pos].v = c

Quote == "\""
Backslash == "\\"

(* Characters that stand for the others of their kind: a line feed, a      *)
(* control character without a sequence of its own, a byte beyond ASCII,   *)
(* and the byte 0xFF                                                       *)
Newline == "newline"
Control == "0x01"
Wide == "0xE9"
AllOnes == "0xFF"

(* escape_repl                                                             *)
Replaced == {Newline, Backslash, Quote}
Letter(c) == IF c = Newline THEN "n" ELSE c

(* The two digits of a hexadecimal sequence.  The sign of a byte beyond    *)
(* ASCII is extended, and the digits are cut off after the first two.      *)
Digits(c) == IF c = Control THEN <<"0", "1">> ELSE <<"F", "F">>

(* am_escape_string                                                        *)
Escape(s) ==
  FlattenSeq([k \in DOMAIN s |->
    IF s[k] \in Replaced THEN <<Backslash, Letter(s[k])>>
    ELSE IF s[k] \in {Control, Wide, AllOnes} THEN <<Backslash, "x">> \o Digits(s[k])
    ELSE <<s[k]>>])

Bad == <<"bad">>

(* Mutant: the escape character takes part in the next sequence.           *)
RECURSIVE UnescapeTwice(_)
UnescapeTwice(s) ==
  IF s = <<>> THEN <<>>
  ELSE IF Head(s) # Backslash THEN <<Head(s)>> \o UnescapeTwice(Tail(s))
  ELSE IF Len(s) = 1 THEN s
  ELSE IF s[2] = Backslash THEN UnescapeTwice(Tail(s))
  ELSE IF s[2] = "n" THEN <<Newline>> \o UnescapeTwice(SubSeq(s, 3, Len(s)))
  ELSE Tail(s)

(* am_unescape_string_in_place; a backslash at the end stays.  Of the      *)
(* sequences of digits only those that Escape makes are in a text.         *)
RECURSIVE Unescape(_)
Unescape(s) ==
  LET rest(k) == Unescape(SubSeq(s, k + 1, Len(s)))
      next(c, k) == IF rest(k) = Bad THEN Bad ELSE <<c>> \o rest(k)
  IN  IF s = <<>> THEN <<>>
      ELSE IF Head(s) # Backslash THEN next(Head(s), 1)
      ELSE IF Len(s) = 1 THEN s
      ELSE IF s[2] = "x"
      THEN IF SubSeq(s, 3, 4) = <<"0", "1">> THEN next(Control, 4)
           ELSE IF SubSeq(s, 3, 4) = <<"F", "F">> THEN next(AllOnes, 4)
           ELSE Bad
      ELSE IF s[2] \in {Letter(c) : c \in Replaced}
      THEN next(CHOOSE c \in Replaced : Letter(c) = s[2], 2)
      ELSE Bad

-----------------------------------------------------------------------------
(* Saving.  The k-th write fails if the fault says so.                     *)

Fault == [at |-> 0, lasting |-> FALSE, part |-> 0]

Fails(fault, k) == fault.at # 0 /\ (k = fault.at \/ (fault.lasting /\ k > fault.at))

Output(text) == [text |-> text, writes |-> 0, failed |-> FALSE, broken |-> "no"]

(* am_fprintf_prefix, fputs                                                *)
Write(out, atoms, fault, what) ==
  LET k == out.writes + 1
      part == Min({fault.part, Len(atoms), Max({Len(atoms) - 1, 0})})
  IN  IF Fails(fault, k)
      THEN [text |-> out.text \o SubSeq(atoms, 1, part), writes |-> k, failed |-> TRUE,
            broken |-> IF out.broken = "no" THEN what ELSE out.broken]
      ELSE [out EXCEPT !.text = @ \o atoms, !.writes = k]

(* am_fputs_prefix returns 1 on failure; those who call it look for        *)
(* negative values.                                                        *)
WriteUnchecked(out, atoms, fault) ==
  [Write(out, atoms, fault, "unchecked") EXCEPT !.failed = FALSE]

RECURSIVE Save(_, _, _)

(* node_group_save with node_member_save                                   *)
SaveGroup(g, out, fault) ==
  LET last == Len(g.members)
      member(o, k) ==
        LET named == Write(o, <<Name(g.members[k].name), Char(":")>>, fault, "other")
            def == IF named.failed THEN named ELSE Save(g.members[k].def, named, fault)
        IN  IF o.failed THEN o
            ELSE IF def.failed THEN def
            ELSE Write(def, IF k < last THEN <<Char(",")>> ELSE <<>>, fault, "other")
      opened == Write(out, <<Name(g.name), Char("{")>>, fault, "other")
      body == FoldLeftDomain(member, opened, g.members)
  IN  IF body.failed THEN body ELSE WriteUnchecked(body, <<Char("}")>>, fault)

(* node_list_save.  If a separator cannot be written, the function returns *)
(* 0, and whoever called it goes on.                                       *)
SaveList(l, out, fault) ==
  LET last == Len(l.items)
      item(o, k) ==
        LET written == Save(l.items[k], o.out, fault)
            sep == Write(written, <<Char(",")>>, fault, "unchecked")
        IN  IF o.failed \/ o.left THEN o
            ELSE IF written.failed THEN [o EXCEPT !.out = written, !.failed = TRUE]
            ELSE IF k = last THEN [o EXCEPT !.out = written]
            ELSE [out |-> sep, failed |-> FALSE, left |-> sep.failed]
      opened == WriteUnchecked(out, <<Char("[")>>, fault)
      body == FoldLeftDomain(item, [out |-> opened, failed |-> FALSE, left |-> FALSE], l.items)
      ended == Write(body.out, <<>>, fault, "other")
  IN  IF last = 0 THEN WriteUnchecked(out, <<Char("["), Char("]")>>, fault)
      ELSE IF body.failed THEN body.out
      ELSE IF body.left THEN [body.out EXCEPT !.failed = FALSE]
      ELSE IF \A k \in DOMAIN l.items : ~IsComposite(l.items[k])
      THEN Write(body.out, <<Char("]")>>, fault, "other")
      ELSE IF ended.failed THEN ended
      ELSE WriteUnchecked(ended, <<Char("]")>>, fault)

(* node_string_save, node_int64_save, node_uint64_save, node_double_save.  *)
(* "%f" writes six decimals: in a model of values with one more digit, the *)
(* last one is rounded.  What is no number becomes the name "inf".         *)
Infinite == 99
Printed(d) == ((d + 5) \div 10) * 10

Spelled(n) ==
  CASE n.type = "string" -> <<Char(Quote)>> \o Chars(Escape(n.value)) \o <<Char(Quote)>>
    [] n.type = "double" -> IF n.value = Infinite THEN <<Name("inf")>>
                            ELSE <<Number("double", Printed(n.value))>>
    [] OTHER -> <<Number(n.type, n.value)>>

(* am_object_notation_save_fp_indent                                       *)
Save(n, out, fault) ==
  CASE n.type = "group" -> SaveGroup(n, out, fault)
    [] n.type = "list" -> SaveList(n, out, fault)
    [] OTHER -> Write(out, Spelled(n), fault, "other")

(* The text that is written if nothing fails                               *)
FullText(n) == Save(n, Output(<<>>), Fault).text

-----------------------------------------------------------------------------
(* Parsing.  The result has the position behind what was read.             *)

Parsed(node, pos) == [ok |-> TRUE, node |-> node, pos |-> pos]
Error == [ok |-> FALSE, node |-> Nothing, pos |-> 0]

(* Mutant: the character before the quote decides.                         *)
EscapedByLast(text, pos, start) == pos > start /\ Is(text, pos - 1, Backslash)

(* am_parser_read_string: the first quote that no backslash precedes; of   *)
(* a run of backslashes, every other one escapes.                          *)
Escaped(text, pos, start) ==
  LET run == {k \in start .. pos - 1 : \A j \in k .. pos - 1 : Is(text, j, Backslash)}
  IN  Cardinality(run) % 2 = 1

(* am_object_notation_parse_string                                         *)
ParseString(text, pos) ==
  LET ends == {k \in pos + 1 .. Len(text) : Is(text, k, Quote) /\ ~Escaped(text, k, pos + 1)}
      content == SubSeq(text, pos + 1, Min(ends) - 1)
      value == Unescape([k \in DOMAIN content |-> content[k].v])
  IN  IF ends = {} \/ value = Bad THEN Error
      ELSE Parsed(Scalar("string", value), Min(ends) + 1)

RECURSIVE ParseNode(_, _)

(* am_object_notation_parse_member                                         *)
ParseMember(text, pos) ==
  LET def == ParseNode(text, pos + 2)
  IN  IF pos \in DOMAIN text /\ text[pos].t = "name" /\ Is(text, pos + 1, ":") /\ def.ok
      THEN Parsed(Member(text[pos].v, def.node), def.pos)
      ELSE Error

(* The loops of parse_list and parse_group_body: elements up to the        *)
(* closing character, each followed by a comma unless it is the last one,  *)
(* which may be                                                            *)
RECURSIVE ParseElements(_, _, _, _)
ParseElements(text, pos, sofar, closing) ==
  LET one == IF closing = "}" THEN ParseMember(text, pos) ELSE ParseNode(text, pos)
      grown == Append(sofar, one.node)
  IN  IF pos \notin DOMAIN text THEN Error
      ELSE IF Is(text, pos, closing) THEN Parsed(sofar, pos + 1)
      ELSE IF ~one.ok THEN Error
      ELSE IF Is(text, one.pos, ",")
      THEN ParseElements(text, one.pos + 1, grown, closing)
      ELSE IF Is(text, one.pos, closing) THEN Parsed(grown, one.pos + 1)
      ELSE Error

(* am_object_notation_parse_list                                           *)
ParseList(text, pos) ==
  LET items == ParseElements(text, pos + 1, <<>>, "]")
  IN  IF items.ok THEN Parsed(List(items.node), items.pos) ELSE Error

(* Mutant: the end of the text ends the group.                             *)
ParseOpenGroup(text, pos) ==
  LET members == ParseElements(Append(text, Char("}")), pos + 2, <<>>, "}")
  IN  IF Is(text, pos + 1, "{") /\ members.ok
      THEN Parsed(Group(text[pos].v, members.node), members.pos)
      ELSE Error

(* am_object_notation_parse_group with its body                            *)
ParseGroup(text, pos) ==
  LET members == ParseElements(text, pos + 2, <<>>, "}")
  IN  IF Is(text, pos + 1, "{") /\ members.ok
      THEN Parsed(Group(text[pos].v, members.node), members.pos)
      ELSE Error

(* am_object_notation_parse_int64, _uint64, _double                        *)
ParseNumber(text, pos) == Parsed(Scalar(text[pos].t, text[pos].v), pos + 1)

(* am_object_notation_parse_node.  Letters are the start of a name; those  *)
(* of a string whose beginning is lost are followed by no body.            *)
ParseNode(text, pos) ==
  IF pos \notin DOMAIN text THEN Error
  ELSE IF text[pos].t = "name" THEN ParseGroup(text, pos)
  ELSE IF text[pos].t # "char" THEN ParseNumber(text, pos)
  ELSE IF Is(text, pos, Quote) THEN ParseString(text, pos)
  ELSE IF Is(text, pos, "[") THEN ParseList(text, pos)
  ELSE Error

-----------------------------------------------------------------------------
(* Steps                                                                   *)

NotationInit ==
  /\ tree \in Trees /\ contents = <<>> /\ saved = "no" /\ broken = "no" /\ loaded = Nothing

(* am_object_notation_node_group_build_add_members; "short" is a failing   *)
(* allocation while the members are built                                  *)
AddMembers(new, short) ==
  /\ saved = "no" /\ Len(tree.members) + Len(new) <= MaxMembers
  /\ tree' = IF short THEN tree ELSE MoveMembers(tree, new).group
  /\ UNCHANGED <<contents, saved, broken, loaded>>

(* am_object_notation_save                                                 *)
SaveFile(fault) ==
  LET out == Save(tree, Output(<<>>), fault)
  IN  /\ saved = "no"
      /\ contents' = out.text /\ broken' = out.broken
      /\ saved' = IF out.failed THEN "failure" ELSE "success"
      /\ UNCHANGED <<tree, loaded>>

(* What was buffered does not reach the file when it is closed.            *)
LoseEnd(n) ==
  /\ saved # "no" /\ loaded = Nothing /\ contents = FullText(tree) /\ n < Len(contents)
  /\ contents' = SubSeq(contents, 1, n) /\ broken' = "end"
  /\ UNCHANGED <<tree, saved, loaded>>

(* am_object_notation_load; an empty file cannot be mapped.                *)
LoadFile ==
  /\ saved # "no"
  /\ loaded' = ParseNode(contents, 1).node
  /\ UNCHANGED <<tree, contents, saved, broken>>

(* No write fails, or any of them                                          *)
Faults ==
  {Fault} \cup [at : 1 .. Save(tree, Output(<<>>), Fault).writes, lasting : BOOLEAN,
                part : 0 .. 1]

NotationNext ==
  \/ \E new \in NewMembers, short \in BOOLEAN : AddMembers(new, short)
  \/ \E fault \in Faults : SaveFile(fault)
  \/ \E n \in 0 .. Len(contents) : LoseEnd(n)
  \/ LoadFile

-----------------------------------------------------------------------------
(* Properties                                                              *)

(* The tree as the notation can express it: numbers with six decimals, no  *)
(* bytes beyond ASCII                                                      *)
RECURSIVE Expressible(_)
Expressible(n) ==
  CASE n.type = "group" ->
         [n EXCEPT !.members = [k \in DOMAIN @ |-> [@[k] EXCEPT !.def = Expressible(@)]]]
    [] n.type = "list" -> [n EXCEPT !.items = [k \in DOMAIN @ |-> Expressible(@[k])]]
    [] n.type = "double" -> [n EXCEPT !.value = Printed(@)]
    [] n.type = "string" ->
         [n EXCEPT !.value = [k \in DOMAIN @ |-> IF @[k] = Wide THEN AllOnes ELSE @[k]]]
    [] OTHER -> n

RECURSIVE Finite(_)
Finite(n) ==
  CASE n.type = "group" -> \A k \in DOMAIN n.members : Finite(n.members[k].def)
    [] n.type = "list" -> \A k \in DOMAIN n.items : Finite(n.items[k])
    [] OTHER -> n.type # "double" \/ n.value # Infinite

(* A file is loaded as the tree that was saved, or not at all: whatever    *)
(* write failed and wherever the file ends.                                *)
LoadedAsSaved ==
  loaded # Nothing => /\ contents = FullText(tree) /\ Finite(tree)
                      /\ loaded = Expressible(tree)

(* A file that holds everything can be loaded, and saving reports every    *)
(* loss except those of brackets and separators and what is lost when the  *)
(* file is closed.                                                         *)
SavedLoads ==
  /\ saved = "success" /\ broken = "no" /\ Finite(tree) => ParseNode(contents, 1).ok
  /\ saved = "success" => broken \in {"no", "unchecked", "end"}
  /\ saved = "failure" => broken # "no"

NoClash(g) ==
  \A j, k \in DOMAIN g.members : g.members[j].name = g.members[k].name => j = k

(* The members of a group can be told by their names, and a member that is *)
(* in the group is found, with its value if it has the type asked for.     *)
MembersTold ==
  /\ NoClash(tree)
  /\ \A k \in DOMAIN tree.members :
       LET m == tree.members[k] IN
       /\ Eval(tree, <<m.name>>) = m.def
       /\ m.def.type = "group" =>
            \A j \in DOMAIN m.def.members :
              Eval(tree, <<m.name, m.def.members[j].name>>) = m.def.members[j].def

(* Objects: loading, saving and the members                                *)
ObjectsRight == LoadedAsSaved /\ SavedLoads /\ MembersTold

=============================================================================
