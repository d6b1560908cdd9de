--------------------------- MODULE MCCommLifecycle ---------------------------
(* Model-checking instances of CommLifecycle.                              *)
EXTENDS CommLifecycle

MCValidIds == {1, 2, 3}
MCInvalidIds == {0, 200}
\* Ids the user can choose short of the one that unconfigures the node.
Assignable == MCValidIds \cup MCInvalidIds
LssAll == MCValidIds \cup {255}

\* The user, an SDO client and the LSS master, on a bus without resets.
UserScene ==
  [files |-> Assignable \cup {999}, resets |-> FALSE, lss |-> LssAll,
   sdo |-> Assignable, ui |-> Assignable]
\* The NMT master resets the node, and nobody gives it another id.
ResetScene ==
  [files |-> {1, 999}, resets |-> TRUE, lss |-> {}, sdo |-> {}, ui |-> {}]
\* Both masters; the user only reads.
MasterScene ==
  [files |-> {1, 999}, resets |-> TRUE, lss |-> LssAll, sdo |-> {}, ui |-> {}]

Alone == {UserScene, ResetScene}
Together == {MasterScene}
=============================================================================
