------------------------------ MODULE MCStdio ------------------------------
(***************************************************************************)
(* Instance of Stdio for TLC: ints of eight bits and short texts, all of   *)
(* them over the characters at the ends of the ranges the code tests for.  *)
(***************************************************************************)
EXTENDS Stdio

IntD == <<Percent, d>>
ChrC == <<Percent, c>>
Edge == {INT_MIN, INT_MIN + 1, -10, -1, 0, 1, 9, 10, -INT_MIN - 1}
Some == {Minus, Zero, Zero + 9, 97}

\* The byte 0xE5 of KB_LEFT_SHIFT
Shift == -27

\* "a=%d", "%d%d", "%d%c", "%c%d", "%d5", "%c %d %%%d", "%d," and "%s%d", with arguments
MCCalls ==
  ({<<97, 61>> \o IntD} \X {<<i>> : i \in Ints})
  \cup ({IntD \o IntD} \X (Edge \X Edge))
  \cup ({IntD \o ChrC} \X (Edge \X Some)) \cup ({ChrC \o IntD} \X (Some \X Edge))
  \cup ({IntD \o <<Zero + 5>>} \X {<<i>> : i \in Edge})
  \cup ({ChrC \o <<32>> \o IntD \o <<32, Percent, Percent>> \o IntD} \X (Some \X Edge \X Edge))
  \cup ({IntD \o <<44>> \o IntD \o <<10>>} \X (Edge \X Edge))
  \cup ({<<Percent, s>> \o IntD} \X ({<<97>>, <<>>} \X Edge))

\* What may be typed for "a=%d", "%d%c" and formats that end in a percent sign
MCLines ==
  {<<97, 61>> \o IntD, IntD \o ChrC, ChrC \o <<Percent>>, <<97, Percent>>, IntD \o IntD}
    \X BoundedSeq({Minus, Zero, Zero + 9, 61, 97}, 4)

MCTexts ==
  BoundedSeq({Minus, Zero, Zero + 1, Zero + 9, 65, 122}, 4)
  \cup {Prog \o t : t \in BoundedSeq({Minus, Zero, Zero + 1, Zero + 8, Zero + 9, 47, Shift}, 3)}
  \cup {SubSeq(Prog, 1, 3) \o t : t \in BoundedSeq({Zero + 1, 104}, 2)}

=============================================================================
