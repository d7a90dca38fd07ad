---------------------------- MODULE MCRtcCorrection ----------------------------
(* Instances of RtcCorrection for TLC: see the cfg files.                     *)
EXTENDS RtcCorrection

(* The last second of 2099 in UTC, the second after it written with an offset *)
(* that keeps the local date in 2099, and an offset no place has.             *)
SomeRequests ==
    LET r == [y |-> 2099, mo |-> 12, d |-> 31, h |-> 23, mi |-> 59, s |-> 59,
              sign |-> 0, oh |-> 0, om |-> 0]
    IN {r, [r EXCEPT !.sign = -1, !.om = 1], [r EXCEPT !.sign = 1, !.oh = 15]}
=============================================================================
