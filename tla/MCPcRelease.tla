----------------------------- MODULE MCPcRelease -----------------------------
(* Two devices; the second one holds a recording identity of the first.     *)
EXTENDS PcRelease, TLC

CONSTANTS a, b, r1, r2
HoldsBoth == (a :> <<r1, r2>>) @@ (b :> <<r2>>)

(* The bounds are spent in two ways, each from a state with nothing copied: *)
(* two commands, a kill, a failure and three moves; or one command, which   *)
(* nothing kills and where no call fails, and six moves, enough for the     *)
(* drive letter to pass from one device to the other three times.           *)
MCInit ==
    /\ StartState
    /\ \/ runs = 0 /\ crashes = 0 /\ faults = 0 /\ moves = MaxMoves - 3
       \/ runs = MaxRuns - 1 /\ crashes = MaxCrash /\ faults = MaxFault /\ moves = 0

MCSpec == MCInit /\ [][Next]_vars /\ Fairness
=============================================================================
