---------------------------- MODULE RecorderState ----------------------------
(* The recorder's state machine (recorder_state.c): a table of transitions  *)
(* that main.c and the USB coordinator go through under one lock.           *)

RecorderStates == {"BOOT", "RECOVER", "RECORDING", "USB_PREPARE", "USB_SYNC",
                   "REMOUNT", "LOW_BATTERY_STOP", "ERROR"}

Steps == {<<"BOOT", "RECOVER">>, <<"RECOVER", "RECORDING">>,
          <<"RECORDING", "USB_PREPARE">>, <<"RECORDING", "LOW_BATTERY_STOP">>,
          <<"USB_PREPARE", "USB_SYNC">>, <<"USB_SYNC", "REMOUNT">>,
          <<"REMOUNT", "RECOVER">>}

(* ERROR accepts nothing, not even itself; any other state accepts itself   *)
(* and ERROR.                                                               *)
TransitionAllowed(from, to) ==
    /\ from # "ERROR"
    /\ from = to \/ to = "ERROR" \/ <<from, to>> \in Steps
=============================================================================
