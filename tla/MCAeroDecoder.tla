--------------------------- MODULE MCAeroDecoder ----------------------------
(* AeroDecoder for TLC: the plans that are sent. *)
EXTENDS AeroDecoder, AeroBits

Text(a)  == [aes |-> a, kind |-> "acars", more |-> FALSE, fits |-> TRUE]
Part(a)  == [Text(a) EXCEPT !.more = TRUE]
Data(a)  == [Text(a) EXCEPT !.kind = "data"]
Noise(a) == [Text(a) EXCEPT !.kind = "badparity"]
Odd(a)   == [Text(a) EXCEPT !.fits = FALSE]

(* The bit path, with the sizes of the code: evaluated once.               *)
ASSUME BitPath == BitPathExact

(* One busy aircraft; two with texts of several blocks, interleaved; and   *)
(* the messages that are turned away.                                      *)
MCPlans ==
  { <<Text("x"), Text("x"), Text("x"), Text("x")>>,
    <<Part("x"), Part("y"), Text("x"), Text("y")>>,
    <<Odd("x"), Data("y"), Noise("x"), Text(NoAes), Data("x")>> }

=============================================================================
