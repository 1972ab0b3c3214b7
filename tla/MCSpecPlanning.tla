--------------------------- MODULE MCSpecPlanning ---------------------------
(***************************************************************************)
(* Three families of HLDs with three sections: every graph of required     *)
(* references; every graph of plain references over three roles, whose     *)
(* second section may be context; sections that share specs, show other    *)
(* responsibilities and conflict.  One HLD is nothing but context.         *)
(***************************************************************************)
EXTENDS SpecPlanning

Section(specs, role, extra, needs, refs, conflicts) ==
  [specs |-> specs, role |-> role, context |-> FALSE, extra |-> extra,
   needs |-> needs, refs |-> refs, conflicts |-> conflicts]

Required ==
  {<<Section({}, "data", {}, a, {}, {}), Section({}, "api", {}, b, {}, {}),
     Section({}, "data", {}, c, {}, {})>> : a, b, c \in SUBSET (1..3)}

Referring ==
  {<<Section({}, r[1], {}, {}, a, {}),
     [Section({}, r[2], {}, {}, b, {}) EXCEPT !.context = context],
     Section({}, r[3], {}, {}, c, {})>> :
     a \in SUBSET {2, 3}, b \in SUBSET {1, 3}, c \in SUBSET {1, 2}, context \in BOOLEAN,
     r \in {<<"data", "data", "api">>, <<"api", "feature", "data">>, <<"feature", "feature", "feature">>}}

Mixed ==
  {<<Section(a, "data", x, {}, {2}, {}), Section(b, r, {"processing"}, n, {}, {}),
     Section(c, "governance", y, {}, {}, k)>> :
     a, b, c \in {{}, {1}, {1, 2}}, x \in {{}, {"api_contract", "operations"}},
     r \in {"api", "data", "purpose"}, n \in {{}, {3}}, y \in {{}, {"testing", "data_state"}}, k \in {{}, {1}}}

Context == <<Section({}, "governance", {}, {}, {}, {})>>

MCHlds == Required \cup Referring \cup Mixed \cup {Context}

MCTheme == [governance |-> "quality", purpose |-> "architecture", data |-> "data", api |-> "data",
            processing |-> "flow", operations |-> "ops", testing |-> "quality", feature |-> "flow",
            data_state |-> "data", api_contract |-> "data"]
=============================================================================
