---------------------------- MODULE MCBootloader ----------------------------
(* Model-checking instance of Bootloader.                                  *)
EXTENDS Bootloader

Master(blocks, patient, each, copies, kind, leaves, worn) ==
  [blocks |-> blocks, patient |-> patient, each |-> each, copies |-> copies,
   first |-> [None EXCEPT !.kind = kind], leaves |-> leaves, worn |-> worn]

MCScenes ==
  \* masters that wait for replies, with short and with long images
  {Master(b, TRUE, FALSE, c, "request", FALSE, FALSE) : b \in {1, 3}, c \in BOOLEAN}
  \* on a flash that may fail
  \cup {Master(2, TRUE, FALSE, FALSE, "request", FALSE, TRUE)}
  \* as the protocol document has it: every block is requested
  \cup {Master(2, TRUE, TRUE, FALSE, "request", FALSE, FALSE)}
  \* that do not wait, do not request, and disappear
  \cup {Master(1, FALSE, FALSE, FALSE, "request", FALSE, FALSE)}
  \cup {Master(1, FALSE, FALSE, FALSE, "data", TRUE, FALSE)}
  \cup {Master(1, FALSE, FALSE, c, "done", TRUE, ~c) : c \in BOOLEAN}
  \cup {Master(1, FALSE, FALSE, k = "complete", k, TRUE, TRUE) : k \in {"complete", "goto"}}
=============================================================================
