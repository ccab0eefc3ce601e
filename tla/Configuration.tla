---------------------------- MODULE Configuration ----------------------------
(***************************************************************************)
(* What a daemon and its cameras are configured to do: ConfigParser, which *)
(* reads the configuration file, and ModuleController, which makes a list  *)
(* of modules of the value of motion-mods.                                 *)
(*                                                                         *)
(* A text is a sequence of characters.  The name of a setting and that of a *)
(* module are one character each: the parser tells apart only the ones     *)
(* below.                                                                  *)
(***************************************************************************)
EXTENDS Integers, SequencesExt, FiniteSetsExt

CONSTANTS
  Supported,    \* the modules that have been compiled in
  Requires      \* what a module asks get_module_before() for in its init(), in order

NewLine == "newline"
Blank == " "
Single == "'"
Double == "\""
Escape == "\\"

\* No module requires itself, however indirectly.
ASSUME ConfigurationAssumption ==
  /\ IsFiniteSet(Supported) /\ Requires \in [Supported -> Seq(Supported)]
  /\ \E rank \in [Supported -> 0..Cardinality(Supported)] :
       \A m \in Supported : \A name \in Range(Requires[m]) : rank[name] < rank[m]

-----------------------------------------------------------------------------
(* ConfigParser::parse() *)

LineStart == [state |-> "before key", key |-> << >>, value |-> << >>, quote |-> "",
              escape |-> FALSE]
Begin == LineStart @@ [set |-> << >>, stop |-> FALSE]

Reset(p) == LineStart @@ p

\* set_value(), in the state that follows it.
SetValue(p, state) == [p EXCEPT !.set = Append(@, <<p.key, p.value>>), !.state = state]
Put(p, c) == [p EXCEPT !.value = Append(@, c), !.state = "in value"]

InValue(p, c) ==
  LET e == IF p.escape THEN [Put(p, Escape) EXCEPT !.escape = FALSE] ELSE p
  IN CASE p.quote # "" /\ c = Escape ->
            IF p.escape THEN [Put(p, c) EXCEPT !.escape = FALSE] ELSE [p EXCEPT !.escape = TRUE]
       [] p.quote = c -> IF p.escape THEN [Put(p, c) EXCEPT !.escape = FALSE]
                         ELSE [SetValue(p, "after value") EXCEPT !.quote = ""]
       [] p.quote # "" /\ c = Blank -> SetValue(p, "after value")
       [] OTHER -> Put(e, c)

\* A character, by the state it is read in.
Character(p, c) ==
  CASE p.state = "before key" ->
         IF c = Blank THEN p ELSE [p EXCEPT !.key = Append(@, c), !.state = "in key"]
    [] p.state \in {"in key", "after key"} /\ c = "=" -> [p EXCEPT !.state = "before value"]
    [] p.state = "in key" /\ c # "=" ->
         IF c = Blank THEN [p EXCEPT !.state = "after key"] ELSE [p EXCEPT !.key = Append(@, c)]
    [] p.state = "before value" ->
         IF c \in {Single, Double} THEN [p EXCEPT !.quote = c, !.state = "in value"]
         ELSE IF c = Blank THEN p ELSE Put(p, c)
    [] p.state = "in value" -> InValue(p, c)
    [] OTHER -> p

Error(p) == [p EXCEPT !.stop = TRUE]

EndOfLine(p) ==
  CASE p.state \in {"comment", "after value", "before value", "before key"} -> Reset(p)
    [] p.state \in {"in key", "after key"} -> Error(p)
    [] OTHER -> IF p.quote = "" THEN Reset(SetValue(p, "after value"))
                ELSE Character(p, NewLine)

Comment(p) ==
  CASE p.state \in {"in key", "after key", "before value"} -> Error(p)
    [] p.state = "in value" -> SetValue(p, "comment")
    [] OTHER -> [p EXCEPT !.state = "comment"]

Step(p, c) ==
  IF p.stop THEN p
  ELSE IF c = NewLine THEN EndOfLine(p)
  ELSE IF c = "#" /\ p.quote = "" THEN Comment(p)
  ELSE Character(p, c)

Feed(text) == FoldLeft(Step, Begin, text)

\* The settings of a text, in the order in which they are set.
Parse(text) ==
  LET p == Feed(text)
  IN IF ~p.stop /\ p.state = "in value" /\ p.quote = "" THEN SetValue(p, "after value").set
     ELSE p.set

\* Config::set_value(), of all of them: the last one counts.
Setting(settings, key, otherwise) ==
  LET i == SelectLastInSeq(settings, LAMBDA s : s[1] = <<key>>)
  IN IF i = 0 THEN otherwise ELSE settings[i][2]

-----------------------------------------------------------------------------
(* ModuleController *)

\* parse_mods(), which takes the place of the comma for the length of the name: any but the
\* first and the last of a list is the name and what follows it.
Names(text) ==
  LET Comma(start) == SelectInSeq(SubSeq(text, start, Len(text)), LAMBDA c : c = ",")
      End(start) == start + Comma(start) - 1
      names[start \in 1..(Len(text) + 1)] ==
        IF start > Len(text) THEN << >>
        ELSE IF Comma(start) = 0 THEN <<SubSeq(text, start, Len(text))>>
        ELSE IF Comma(start) = 1 THEN names[start + 1]
        ELSE <<SubSeq(text, start, Min({start + End(start) - 2, Len(text)}))>>
               \o names[End(start) + 1]
  IN names[1]

\* A controller: its modules in order, the names that add_mods() has yet to find, and the
\* calls of get_module_before() to come, each of a name before a module, the next one first.
Empty == [mods |-> << >>, names |-> << >>, calls |-> << >>]
Made(b) == b.names = << >> /\ b.calls = << >>

\* add_mods(), before its loop.
AddMods(text) ==
  LET names == Names(text)
  IN IF names = << >> \/ Head(names) = <<"none">> THEN Empty ELSE [Empty EXCEPT !.names = names]

\* The calls of an init().
Asks(name) == [i \in DOMAIN Requires[name] |-> <<Requires[name][i], name>>]

\* allocate(), into a place of the list, and init().
Allocate(b, at, name) ==
  [b EXCEPT !.mods = InsertAt(@, at, name), !.calls = Asks(name) \o @]

MutModuleBefore(b) ==
  LET name == Head(b.calls)[1]
      called == [b EXCEPT !.calls = Tail(@)]
  IN IF Contains(b.mods, name) THEN called ELSE Allocate(called, Len(b.mods) + 1, name)

\* get_module_before(), the next one.
ModuleBefore(b) ==
  LET name == Head(b.calls)[1]
      at == CHOOSE i \in DOMAIN b.mods : b.mods[i] = Head(b.calls)[2]
      called == [b EXCEPT !.calls = Tail(@)]
  IN IF \E i \in 1..(at - 1) : b.mods[i] = name THEN called ELSE Allocate(called, at, name)

\* find_mod(), of the next name.
FindMod(b) ==
  LET name == Head(b.names)
      found == [b EXCEPT !.names = Tail(@)]
  IN IF Len(name) # 1 \/ Head(name) \notin Supported \/ Contains(b.mods, Head(name)) THEN found
     ELSE Allocate(found, Len(b.mods) + 1, Head(name))
=============================================================================
