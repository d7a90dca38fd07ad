----------------------------- MODULE MCCdcSession -----------------------------
(***************************************************************************)
(* Instances of the CDC session that differ in where they start.  Spec     *)
(* starts with the interface; the others start in later states that Spec   *)
(* reaches, with a part of the host's bytes, connections and line changes  *)
(* used up, so that the bounds are spent on what follows.                  *)
(***************************************************************************)
EXTENDS CdcSession

(* The interface is up and drained, and HOST_OWNED is waiting for the       *)
(* coordinator.                                                             *)
LiveState ==
    /\ phase = "CLOSED" /\ generation = 2 /\ active = 0
    /\ rx = RxZero /\ discard = 1 /\ drained = 1 /\ cut = 2 /\ crossed = FALSE
    /\ connected = FALSE /\ resetLine = FALSE /\ openRequested = FALSE
    /\ workerUp = TRUE /\ acmReady = TRUE /\ notified = FALSE
    /\ own = [hostOwned |-> TRUE, detached |-> FALSE, release |-> FALSE,
              waiting |-> FALSE, events |-> {"HOST_OWNED"}, error |-> FALSE,
              job |-> "none"]
    /\ fifo = <<>>
    /\ wk = [snapGen |-> 0, admitted |-> FALSE, epoch |-> 0, chunk |-> <<>>,
             line |-> <<>>, frame |-> <<>>, frameGen |-> 0, k |-> 1,
             accepted |-> FALSE, complete |-> FALSE]
    /\ seen = [p \in Proc |-> 0]
    /\ pc = [p \in Proc |-> IF p = Main THEN "done"
                            ELSE IF p = Worker THEN "wkWait" ELSE "idle"]
    /\ ret = [p \in Proc |-> "idle"]

(* Later: the session of the published connection is open and idle; the     *)
(* host has sent nothing yet, so nothing has set the connected flag.        *)
OpenState ==
    /\ phase = "OPEN" /\ generation = 2 /\ active = 0
    /\ rx = RxOpen /\ discard = 1 /\ drained = 1 /\ cut = 2 /\ crossed = FALSE
    /\ connected = FALSE /\ resetLine = FALSE /\ openRequested = TRUE
    /\ workerUp = TRUE /\ acmReady = TRUE /\ notified = FALSE
    /\ own = [hostOwned |-> TRUE, detached |-> FALSE, release |-> FALSE,
              waiting |-> FALSE, events |-> {}, error |-> FALSE, job |-> "none"]
    /\ fifo = <<>>
    /\ wk = [snapGen |-> 0, admitted |-> FALSE, epoch |-> 0, chunk |-> <<>>,
             line |-> <<>>, frame |-> <<>>, frameGen |-> 0, k |-> 1,
             accepted |-> FALSE, complete |-> FALSE]
    /\ seen = [p \in Proc |-> 0]
    /\ pc = [p \in Proc |-> IF p = Main THEN "done"
                            ELSE IF p = Worker THEN "wkWait" ELSE "idle"]
    /\ ret = [p \in Proc |-> "idle"]

(* The interface started late, and the main task is opening the session     *)
(* along with the coordinator, which was first.  The cable was off and on   *)
(* before that, the host has sent a line and then proved its MSC transport. *)
LateState ==
    /\ phase = "OPEN" /\ generation = 2 /\ active = 0
    /\ rx = RxOpen /\ discard = 1 /\ drained = 1 /\ cut = 2 /\ crossed = FALSE
    /\ connected = TRUE /\ resetLine = TRUE /\ openRequested = FALSE
    /\ workerUp = TRUE /\ acmReady = TRUE /\ notified = TRUE
    /\ own = [hostOwned |-> TRUE, detached |-> FALSE, release |-> FALSE,
              waiting |-> FALSE, events |-> {"HOST_REATTACHED"}, error |-> FALSE,
              job |-> "none"]
    /\ \E c \in Commands :
          fifo = <<[kind |-> c, gen |-> 2, conn |-> 2],
                   [kind |-> "newline", gen |-> 2, conn |-> 2]>>
    /\ wk = [snapGen |-> 0, admitted |-> FALSE, epoch |-> 0, chunk |-> <<>>,
             line |-> <<>>, frame |-> <<>>, frameGen |-> 0, k |-> 1,
             accepted |-> FALSE, complete |-> FALSE]
    /\ seen = [p \in Proc |-> 0]
    /\ pc = [p \in Proc |-> IF p = Main THEN "opReserve"
                            ELSE IF p = Worker THEN "wkWait" ELSE "idle"]
    /\ ret = [p \in Proc |-> "idle"]

(* A later state still: the session is open, the host has sent one line and *)
(* the worker is about to write the response to it.                         *)
BusyInit ==
    \E c \in Commands :
      LET release == c = "RELEASE_STORAGE"
          byte(k) == [kind |-> k, gen |-> 2, conn |-> 1]
      IN /\ phase = "OPEN" /\ generation = 2 /\ active = 1
         /\ rx = RxOpen /\ discard = 1 /\ drained = 1 /\ cut = 2 /\ crossed = FALSE
         /\ connected = TRUE /\ resetLine = FALSE /\ openRequested = TRUE
         /\ workerUp = TRUE /\ acmReady = TRUE /\ notified = FALSE
         /\ host = Host(1, 2, 0)
         /\ own = [hostOwned |-> TRUE, detached |-> FALSE, release |-> release,
                   waiting |-> release, events |-> {}, error |-> FALSE,
                   job |-> "none"]
         /\ fifo = <<>>
         /\ wk = [snapGen |-> 2, admitted |-> TRUE, epoch |-> 0, chunk |-> <<>>,
                  line |-> <<>>, frame |-> <<byte(c), byte("newline")>>,
                  frameGen |-> 2, k |-> 1, accepted |-> release,
                  complete |-> FALSE]
         /\ seen = [p \in Proc |-> 0]
         /\ pc = [p \in Proc |-> CASE p = Main -> "done" [] p = Worker -> "wkQueue"
                                   [] OTHER -> "idle"]
         /\ ret = [p \in Proc |-> "idle"]

(* The main task still creates the worker while the host attaches and sends *)
(* a byte; an open session, which the host may leave and come back to with  *)
(* one line; a session about to open on the one connection, with two lines, *)
(* or with one line and a change of DTR; and a late start that a reset runs *)
(* into.                                                                    *)
SessionInit ==
    \/ StartState /\ host = Host(1, 3, 1)
    \/ OpenState /\ host = Host(1, 2, 1)
    \/ LiveState /\ host \in {Host(2, 0, 1), Host(2, 2, 0)}
    \/ LateState /\ host = Host(2, 4, 1)

SessionSpec == SessionInit /\ [][Next]_vars
LateSpec == LateState /\ host = Host(2, 2, 0) /\ [][Next]_vars
FairSpec == BusyInit /\ [][Next]_vars /\ Fairness

=============================================================================
