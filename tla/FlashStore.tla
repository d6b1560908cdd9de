----------------------------- MODULE FlashStore -----------------------------
(***************************************************************************)
(* What flash_write promises: a memory of sectors in which the halfwords   *)
(* of a request are replaced, one whole sector after the other.  An error  *)
(* or a power failure in between loses no more than one sector of the      *)
(* request, and nothing of the others.                                     *)
(***************************************************************************)
CONSTANTS Sectors, Offsets, Values, Erased

VARIABLES
  mem,     \* the memory, by sector and offset
  want,    \* the cells still to be replaced, with their new values
  answer   \* of the last request: "busy", "success", "error"; "none" after
           \* power up

storeVars == <<mem, want, answer>>

Cells == Sectors \X Offsets
Requests == UNION {[cells -> Values] : cells \in SUBSET Cells}
Nothing == [c \in {} |-> Erased]

Init ==
  /\ mem \in [Sectors -> [Offsets -> Values]]
  /\ want = Nothing
  /\ answer = "none"

Request ==
  /\ answer # "busy"
  /\ want' \in Requests
  /\ answer' = "busy"
  /\ UNCHANGED mem

Concerned(s) == \E o \in Offsets : <<s, o>> \in DOMAIN want

\* A sector is written as a whole.
WriteSector(s) ==
  /\ Concerned(s)
  /\ mem' = [mem EXCEPT ![s] =
               [o \in Offsets |-> IF <<s, o>> \in DOMAIN want THEN want[<<s, o>>]
                                  ELSE mem[s][o]]]
  /\ want' = [c \in {d \in DOMAIN want : d[1] # s} |-> want[c]]
  /\ UNCHANGED answer

Succeed ==
  /\ answer = "busy"
  /\ want = Nothing
  /\ answer' = "success"
  /\ UNCHANGED <<mem, want>>

\* A halfword of a damaged sector is what it was, erased, or already new.
Damaged(s, o, v) ==
  \/ v \in {mem[s][o], Erased}
  \/ <<s, o>> \in DOMAIN want /\ v = want[<<s, o>>]

\* An error or a power failure ends the request, with one sector of it damaged
\* or none.
Fail ==
  /\ want' = Nothing
  /\ answer' \in {"error", "none"}
  /\ answer' = "error" => answer = "busy"
  /\ \/ UNCHANGED mem
     \/ \E s \in Sectors :
          /\ Concerned(s)
          /\ mem' \in [Sectors -> [Offsets -> Values]]
          /\ \A o \in Offsets : Damaged(s, o, mem'[s][o])
          /\ \A t \in Sectors \ {s} : mem'[t] = mem[t]

Next == Request \/ (\E s \in Sectors : WriteSector(s)) \/ Succeed \/ Fail

Spec == Init /\ [][Next]_storeVars
=============================================================================
