----------------------------- MODULE MCVerify -------------------------------
(* Values for a host with two CMP cards and a foreign one between them.    *)
EXTENDS Verify

CONSTANTS a, b, f

MCBus == [c \in {a, b, f} |-> CASE c = a -> 0 [] c = f -> 1 [] OTHER -> 2]

\* Device files numbered as the bus is, in the reverse order, and with the
\* foreign card first.
MCMinors ==
  LET Numbered(x, y, z) ==
        [c \in {a, b, f} |-> CASE c = x -> 0 [] c = y -> 1 [] c = z -> 2]
  IN {Numbered(a, f, b), Numbered(b, f, a), Numbered(f, a, b)}

Full(n, rate, counts) ==
  [ctl \in Controls |->
     [n |-> CASE ctl = "v2" -> 8 [] ctl = "engines_v2" -> n [] OTHER -> 0,
      raw |-> CASE ctl \in {"v1", "v2"} -> rate
                [] ctl \in {"gpu_info", "gr_info"} -> counts
                [] OTHER -> 2]]

\* A working card with more engines than the buffer holds, the same card at
\* its stock rates, and a GPU of another kind.
MCAnswers ==
  [c \in {a, b, f} |-> IF c = f THEN {Full(3, 0, 2)}
                       ELSE IF c = a THEN {Full(85, 0, 1), Full(85, 2, 1)}
                       ELSE {Full(85, 0, 1)}]
=============================================================================
