---------------------------- MODULE ShutdownArmed ----------------------------
(* The durable lifecycle marker in NVS (shutdown_armed.c): its values, the  *)
(* transitions each call may write, and what a boot does with it.           *)

Lifecycles == {"NORMAL", "ARMED", "HOST_UNRESOLVED", "WAKE_RECOVERY_PENDING"}

(* Faulty variant: an interrupted write leaves a value of neither kind.     *)
WriteFailedTorn(old, v) == {old, v, "TORN"}

(* What NVS may hold after an attempt to write v over old: a failed set or  *)
(* commit may have reached the flash or not.                                *)
WriteFailed(old, v) == {old, v}

(* shutdown_armed_mark_wake_recovery_pending: already pending is success.   *)
MayMarkWakePending(s)      == s \in {"ARMED", "WAKE_RECOVERY_PENDING"}
MayCompleteWakeRecovery(s) == s = "WAKE_RECOVERY_PENDING"

(* Faulty variant: the WAKE button also resumes an unresolved host session. *)
BootActionAnyWake(s, wake) ==
    CASE s = "NORMAL" -> "normal" [] s # "NORMAL" /\ wake -> "resume" [] OTHER -> "stay"

(* shutdown_armed_boot_action.                                              *)
BootAction(s, wake) ==
    CASE s = "NORMAL"                                        -> "normal"
      [] s \in {"ARMED", "WAKE_RECOVERY_PENDING"} /\ wake    -> "resume"
      [] OTHER                                               -> "stay"
=============================================================================
