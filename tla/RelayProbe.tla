----------------------------- MODULE RelayProbe -----------------------------
(***************************************************************************)
(* The relay-urls command (src/src/commands/relay_urls.rs): for a number   *)
(* of rounds every configured relay is connected to and pinged, one after  *)
(* the other, each step under a timeout of its own.  A relay may send      *)
(* anything before, instead of or besides the pong.                        *)
(*                                                                         *)
(* Time is counted in ticks; Patience of them make up the 2 s timeout.     *)
(***************************************************************************)
EXTENDS Naturals

CONSTANTS
    Relays,    \* number of configured relay nodes
    Rounds,    \* the command's `count`
    Patience   \* ticks of a timeout

ASSUME RelaysAssumption == Relays \in Nat
ASSUME RoundsAssumption == Rounds \in Nat
ASSUME PatienceAssumption == Patience \in Nat

VARIABLES
    done,      \* nodes probed, over all rounds
    step,      \* what the command awaits: connect, send, pong, or exited
    elapsed,   \* ticks since the current timeout began
    inbox,     \* the next message from the relay: none, stray, pong
    success,   \* probes in the list of latencies
    fail,      \* probes in the list of failures
    answered   \* probes whose ping the relay has answered

vars == <<done, step, elapsed, inbox, success, fail, answered>>

Probes == 0 .. Rounds * Relays - 1   \* round by round, node by node

\* One invariant of types for the module.
TypeOK ==
    /\ done \in 0 .. Rounds * Relays
    /\ step \in {"connect", "send", "pong", "exited"}
    /\ elapsed \in 0..Patience
    /\ inbox \in {"none", "stray", "pong"}
    /\ success \subseteq Probes
    /\ fail \subseteq Probes
    /\ answered \subseteq Probes

Init ==
    /\ done = 0
    /\ step = "connect"
    /\ elapsed = 0
    /\ inbox = "none"
    /\ success = {}
    /\ fail = {}
    /\ answered = {}

------------------------------------------------------------------------------
Working == done < Rounds * Relays

\* The probe is over: its node_details go into one of the lists.
Finish(list) ==
    /\ success' = IF list = "success" THEN success \cup {done} ELSE success
    /\ fail' = IF list = "fail" THEN fail \cup {done} ELSE fail
    /\ done' = done + 1
    /\ step' = "connect"
    /\ elapsed' = 0
    /\ inbox' = "none"

Connected ==
    /\ Working /\ step = "connect"
    /\ step' = "send"
    /\ elapsed' = 0
    /\ UNCHANGED <<done, inbox, success, fail, answered>>

\* Connecting, sending or reading failed, or the relay closed the stream.
ProbeFails ==
    /\ Working /\ step \in {"connect", "send", "pong"}
    /\ Finish("fail")
    /\ UNCHANGED answered

\* A variant that puts a probe that timed out into no list.
DropTimedOut ==
    /\ Working /\ step \in {"connect", "pong"}
    /\ elapsed = Patience
    /\ Finish("none")
    /\ UNCHANGED answered

\* One of the two timeouts; sending the ping has none.
TimeoutExpires ==
    /\ Working /\ step \in {"connect", "pong"}
    /\ elapsed = Patience
    /\ Finish("fail")
    /\ UNCHANGED answered

SendPing ==
    /\ Working /\ step = "send"
    /\ step' = "pong"
    /\ elapsed' = 0
    /\ UNCHANGED <<done, inbox, success, fail, answered>>

\* Variants of ReadMessage: any message will do; the timeout starts anew.
ReadAny ==
    /\ Working /\ step = "pong" /\ inbox # "none"
    /\ Finish("success")
    /\ UNCHANGED answered

ReadRestarting ==
    /\ Working /\ step = "pong"
    /\ \/ /\ inbox = "pong"
          /\ Finish("success")
       \/ /\ inbox = "stray"
          /\ inbox' = "none"
          /\ elapsed' = 0
          /\ UNCHANGED <<done, step, success, fail>>
    /\ UNCHANGED answered

\* The pong with our data ends the probe; anything else is skipped, which
\* does not start the timeout anew.
ReadMessage ==
    /\ Working /\ step = "pong"
    /\ \/ /\ inbox = "pong"
          /\ Finish("success")
       \/ /\ inbox = "stray"
          /\ inbox' = "none"
          /\ UNCHANGED <<done, step, elapsed, success, fail>>
    /\ UNCHANGED answered

\* All rounds are over: print both lists and return.
PrintLists ==
    /\ ~Working /\ step = "connect"
    /\ step' = "exited"
    /\ UNCHANGED <<done, elapsed, inbox, success, fail, answered>>

------------------------------------------------------------------------------
(* The relay and the clock. *)

SendStray ==
    /\ Working /\ step \in {"send", "pong"} /\ inbox = "none"
    /\ inbox' = "stray"
    /\ UNCHANGED <<done, step, elapsed, success, fail, answered>>

SendPong ==
    /\ Working /\ step = "pong" /\ inbox = "none" /\ done \notin answered
    /\ inbox' = "pong"
    /\ answered' = answered \cup {done}
    /\ UNCHANGED <<done, step, elapsed, success, fail>>

Tick ==
    /\ Working /\ step \in {"connect", "pong"}
    /\ elapsed < Patience
    /\ elapsed' = elapsed + 1
    /\ UNCHANGED <<done, step, inbox, success, fail, answered>>

Terminated == step = "exited" /\ UNCHANGED vars

Command == Connected \/ ProbeFails \/ SendPing \/ ReadMessage \/ PrintLists

Next == Command \/ TimeoutExpires \/ SendStray \/ SendPong \/ Tick \/ Terminated

Spec == Init /\ [][Next]_vars

(***************************************************************************)
(* Fairness: time passes, a timeout that is due is seen, a message that    *)
(* has come is read, and sending a ping ends.  The relay owes nothing.     *)
(***************************************************************************)
FairSpec ==
    /\ Spec
    /\ WF_vars(Tick) /\ WF_vars(TimeoutExpires)
    /\ WF_vars(ReadMessage) /\ WF_vars(SendPing) /\ WF_vars(PrintLists)

------------------------------------------------------------------------------
(* Properties. *)

(***************************************************************************)
(* Every probe that is over is in exactly one of the two printed lists.    *)
(***************************************************************************)
EachInOneList ==
    /\ success \cap fail = {}
    /\ success \cup fail = {p \in Probes : p < done}

(***************************************************************************)
(* A latency is printed only of a relay that answered that very ping.      *)
(***************************************************************************)
SuccessIsAnswered == success \subseteq answered

(***************************************************************************)
(* The command ends though a relay may talk for ever: the timeout covers   *)
(* the whole loop over its messages.                                       *)
(***************************************************************************)
ProbingEnds == <>(step = "exited")
=============================================================================
