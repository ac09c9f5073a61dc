--------------------------- MODULE MCRegistryTab ----------------------------
(***************************************************************************)
(* Instances of RegistryTab for TLC: users who do different things, each   *)
(* with a registry to do them on.                                          *)
(***************************************************************************)
EXTENDS RegistryTab

CONSTANTS orders, users, term

MCItems == {orders, users}
\* The term is in the name of one subject only.
MCMatches(n, t) == t = EmptyTerm \/ n = users

Has(vs) == [live |-> vs, soft |-> FALSE]
Soft(vs) == [live |-> vs, soft |-> TRUE]
Holds(o, u) == (orders :> o) @@ (users :> u)
Pressed(ks) == {Input(k) : k \in ks}

Submit(s) == Key("submit", s)
On(onList, onDetails, onCreate) == [list |-> onList, details |-> onDetails, create |-> onCreate]
Everywhere(keys) == On(keys, keys, keys)

\* Deletes subjects, softly and for good, on both tabs.
Deleter ==
  [registry |-> Holds(Has({1}), Gone),
   inputs   |-> On(Pressed({"tab", "f2", "f4", "accept", "enter"}), {}, {}),
   jobs     |-> 2]

\* Deletes, lists anew and leaves the tab meanwhile.
Leaver ==
  [registry |-> Holds(Has({1}), Gone),
   inputs   |-> On(Pressed({"f2", "f5", "accept", "enter", "ctrl+left", "ctrl+right"}),
                 Pressed({"esc", "ctrl+left", "ctrl+right"}), {}),
   jobs     |-> 2]

\* Goes from one subject to the other, and deletes their versions.
Reader ==
  [registry |-> Holds(Has({1}), Has({2})),
   inputs   |-> On(Pressed({"enter"}), Pressed({"esc", "f2", "accept", "enter"}), {}),
   jobs     |-> 2]

\* Chooses among the versions of one subject, copies and deletes them.
Chooser ==
  [registry |-> Holds(Has({1, 2}), Gone),
   inputs   |-> On(Pressed({"enter"}), Pressed({"enter", "left", "right", "f2", "accept", "reject"}), {}),
   jobs     |-> 2]

\* Deletes the versions of a subject and leaves the tab meanwhile.
Remover ==
  [registry |-> Holds(Has({1, 2}), Gone),
   inputs   |-> On(Pressed({"enter"}),
                 Pressed({"f2", "accept", "enter", "ctrl+left", "ctrl+right"}), {}),
   jobs     |-> 2]

\* Registers schemas, thinks better of it, leaves the tab.
Registrar ==
  [registry |-> Holds(Has({1}), Soft({1})),
   inputs   |-> Everywhere(Pressed({"ctrl+n", "esc", "enter", "tab", "ctrl+left", "ctrl+right"})
                           \cup {Submit(users)}),
   jobs     |-> 2]

\* Looks for a subject, sorts, and deletes or opens it.
Searcher ==
  [registry |-> Holds(Has({1}), Has({1})),
   inputs   |-> On(Pressed({"/", "f3", "f4", "enter", "accept"}) \cup {Key("text", term)}, {}, {}),
   jobs     |-> 1]

MCSessions == {Deleter, Leaver, Reader, Chooser, Remover, Registrar, Searcher}
=============================================================================
