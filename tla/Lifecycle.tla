------------------------------ MODULE Lifecycle ------------------------------
(***************************************************************************)
(* The end of the process: what Ctrl-C does to a command                   *)
(* (close_endpoint_on_ctrl_c and the races of src/src/doctor.rs and        *)
(* src/src/swarm/runner.rs) and how a command's result becomes the exit    *)
(* status (src/src/main.rs).                                               *)
(*                                                                         *)
(* A command that races its body against Ctrl-C listens for the signal     *)
(* from that moment on; before, and in every other command, the signal     *)
(* kills the process.  Closing the endpoint takes time and runs side by    *)
(* side with the body: when the body returns first, the close is dropped   *)
(* half done.                                                              *)
(***************************************************************************)

VARIABLES
    phase,       \* what the process awaits
    status,      \* how it ended: running, ok, error, killed
    endpoint,    \* none, open, closing, closed
    interrupted  \* Ctrl-C was pressed

lifecycleVars == <<phase, status, endpoint, interrupted>>

\* main: an error of the command becomes exit status 1.
Exit(how) == phase' = "exited" /\ status' = how

\* The command goes on.
GoTo(p) == phase' = p /\ UNCHANGED status

\* A variant in which the signal is listened for and not yet awaited.
PressUnheard(racing) ==
    /\ phase # "exited" /\ ~interrupted
    /\ interrupted' = TRUE
    /\ UNCHANGED <<phase, status, endpoint>>

\* The first Ctrl-C; a later one has no effect in a race.
Press(racing) ==
    /\ phase # "exited" /\ ~interrupted
    /\ interrupted' = TRUE
    /\ IF phase \in racing THEN UNCHANGED <<phase, status>> ELSE Exit("killed")
    /\ UNCHANGED endpoint

\* close_endpoint_on_ctrl_c has seen the signal and calls close().
StartClose(racing) ==
    /\ phase \in racing /\ interrupted
    /\ endpoint = "open"
    /\ endpoint' = "closing"
    /\ UNCHANGED <<phase, status, interrupted>>

FinishClose(racing) ==
    /\ phase \in racing
    /\ endpoint = "closing"
    /\ endpoint' = "closed"
    /\ UNCHANGED <<phase, status, interrupted>>

\* The closing branch wins the race, which drops the body.
WinRace(racing) ==
    /\ phase \in racing
    /\ endpoint = "closed"
    /\ Exit("ok")
    /\ UNCHANGED <<endpoint, interrupted>>

Closing(racing) == StartClose(racing) \/ FinishClose(racing) \/ WinRace(racing)
=============================================================================
