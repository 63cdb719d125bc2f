---------------------------- MODULE MCComponentNames ----------------------------
(* Constants for ComponentNamesShared.cfg. *)
EXTENDS ComponentNames

\* Two different definitions for which customComponentName wants one name.
MCDocuments ==
  { [ order |-> <<<<"A">>, <<"B">>>>, direction |-> direction,
      schema |-> [d \in {<<"A">>, <<"B">>} |-> [label |-> IF d = <<"A">> THEN 1 ELSE 2, refs |-> <<>>]],
      preferred |-> [d \in {<<"A">>, <<"B">>} |-> <<"World">>] ] : direction \in {"none", "input", "output"} }
=============================================================================
