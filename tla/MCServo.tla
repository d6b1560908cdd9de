------------------------------ MODULE MCServo ------------------------------
(* Model-checking instance of Servo.                                       *)
EXTENDS Servo

Scene(servos, kind, dir, at, patient, targets, jams, n) ==
  [servos |-> servos, kind |-> kind, dir |-> dir, at |-> at, travel |-> Track,
   patient |-> patient, targets |-> targets, jams |-> jams, starts |-> n]

MCScenes ==
  LET one == {"a"} IN
  \* every kind of homing once, on a free track and one that jams
  {Scene(one, k, d, {0, 1, 6, 8, 11, 12}, TRUE, {}, j, 1) :
     k \in {"switch", "limit", "displace"}, d \in {0, 1}, j \in BOOLEAN}
  \* a user who waits and homes again and again, until the list is full and beyond
  \cup {Scene(one, k, 1, {0, 12}, TRUE, {}, k # "switch", IF k = "switch" THEN MaxTracker + 1 ELSE 2) :
         k \in {"switch", "limit", "displace"}}
  \* who goes on to a position
  \cup {Scene(one, k, 1, {2}, TRUE, {0, 9}, FALSE, 2) : k \in {"switch", "displace"}}
  \* who does not wait, with two servos
  \cup {Scene({"a", "b"}, k, 1, {9}, FALSE, {0}, FALSE, 2) : k \in {"switch", "displace"}}
=============================================================================
