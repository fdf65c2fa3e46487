----------------------------- MODULE TorRunner ------------------------------
(***************************************************************************)
(* The Tor daemon and the programs that wait for it                        *)
(* (src/capabilities/network.tor, tor.Start and Runner.Stop).  A goroutine *)
(* reads Tor's stdout and sends the bootstrap lines over an unbuffered     *)
(* channel; Stop kills Tor and waits for that goroutine.  Three kinds of   *)
(* client receive from the channel, each in its own way:                   *)
(*   "bootstrap_node"  cmd/bootstrap-node, until SUCCESS_100               *)
(*   "telemetry"       cmd/telemetry and cmd/headless, until the line that *)
(*                     says 100% (done)                                    *)
(*   "tui"             TorSplashModel: one receive per command, and the    *)
(*                     next one only when Update has handled the message   *)
(***************************************************************************)
EXTENDS Naturals, Sequences

CONSTANTS
    Clients,        \* the kinds of client to consider
    ProgressLines,  \* bootstrap lines Tor prints before "100% (done)"
    PipeSize        \* lines the stdout pipe can hold

ASSUME SizesArePositive == ProgressLines \in Nat /\ PipeSize \in Nat \ {0}

VARIABLES
    client,     \* the kind of client of this behaviour
    tor,        \* [alive, printed]: the daemon and its bootstrap lines so far
    pipe,       \* lines printed and not yet read; "Bootstrapped_100" says 100% (done)
    cancelled,  \* the context of the Runner is done
    sending,    \* what the goroutine has still to send for the line it read
    forwarding, \* FALSE once SUCCESS_100 has been sent
    reader,     \* "running" or "ended": the goroutine; it closes the channel
    stage,      \* the client: "waiting", "running", "failed", "stopping", "stopped"
    listening,  \* tui: a listenForTor command is blocked in its select
    inbox       \* tui: the message it has returned, not yet handled

daemon == <<tor, pipe, cancelled>>
goroutine == <<sending, forwarding, reader>>
ui == <<listening, inbox>>
vars == <<client, daemon, goroutine, stage, ui>>

Init ==
    /\ client \in Clients
    /\ tor = [alive |-> TRUE, printed |-> 0]
    /\ pipe = <<>>
    /\ cancelled = FALSE
    /\ sending = <<>>
    /\ forwarding = TRUE
    /\ reader = "running"
    /\ stage = "waiting"
    /\ listening = (client = "tui")
    /\ inbox = "none"
-----------------------------------------------------------------------------
(* Tor prints its bootstrap lines in order and goes on printing.           *)
PrintLine ==
    /\ tor.alive /\ Len(pipe) < PipeSize
    /\ \/ /\ tor.printed < ProgressLines
          /\ pipe' = Append(pipe, "Bootstrapped")
          /\ tor' = [tor EXCEPT !.printed = @ + 1]
       \/ /\ tor.printed = ProgressLines
          /\ pipe' = Append(pipe, "Bootstrapped_100")
          /\ tor' = [tor EXCEPT !.printed = @ + 1]
       \/ /\ tor.printed > ProgressLines
          /\ pipe' = Append(pipe, "other")
          /\ UNCHANGED tor
    /\ UNCHANGED <<client, cancelled, goroutine, stage, ui>>

Die ==
    /\ tor.alive
    /\ tor' = [tor EXCEPT !.alive = FALSE]
    /\ UNCHANGED <<client, pipe, cancelled, goroutine, stage, ui>>

Killed == cancelled /\ Die
-----------------------------------------------------------------------------
(* The goroutine of Start: what it sends for a line of stdout.             *)
Forwarded(line) ==
    IF ~forwarding \/ line = "other" THEN <<>>
    ELSE IF line = "Bootstrapped_100" THEN <<line, "SUCCESS_100">>
    ELSE <<line>>

(* It reads one line ...                                                   *)
ReadLine ==
    /\ reader = "running" /\ sending = <<>> /\ pipe # <<>>
    /\ pipe' = Tail(pipe)
    /\ sending' = Forwarded(Head(pipe))
    /\ UNCHANGED <<client, tor, cancelled, forwarding, reader, stage, ui>>

(* ... or the end of it, when Tor is gone.                                 *)
EndOfStdout ==
    /\ reader = "running" /\ sending = <<>> /\ pipe = <<>> /\ ~tor.alive
    /\ reader' = "ended"
    /\ UNCHANGED <<client, daemon, sending, forwarding, stage, ui>>

(* A send on the unbuffered channel, together with its receive.            *)
Sent ==
    /\ sending # <<>>
    /\ sending' = Tail(sending)
    /\ forwarding' = (forwarding /\ Head(sending) # "SUCCESS_100")
    /\ UNCHANGED <<client, daemon, reader>>
-----------------------------------------------------------------------------
(* cmd/bootstrap-node, cmd/telemetry: for msg := range progressCh.  The    *)
(* loop also ends when the channel is closed.                              *)
LastWordEarly == "Bootstrapped_100"   \* mutant: every program stops at this line

LastWord == IF client = "bootstrap_node" THEN "SUCCESS_100" ELSE "Bootstrapped_100"

Receive ==
    /\ client # "tui" /\ stage = "waiting"
    /\ Sent
    /\ stage' = IF Head(sending) = LastWord THEN "running" ELSE "waiting"
    /\ UNCHANGED ui

ChannelClosed ==
    /\ client # "tui" /\ stage = "waiting" /\ reader = "ended"
    /\ stage' = "running"
    /\ UNCHANGED <<client, daemon, goroutine, ui>>

(* The bootstrap node hands its signal context to Start, so a signal kills *)
(* Tor even while the loop above still runs.                               *)
Interrupt ==
    /\ client = "bootstrap_node" /\ stage = "waiting"
    /\ ~cancelled /\ cancelled' = TRUE
    /\ UNCHANGED <<client, tor, pipe, goroutine, stage, ui>>
-----------------------------------------------------------------------------
(* TorSplashModel.listenForTor: the select.                                *)
ListenerClosedIsDone == "TorDoneMsg"   \* mutant: a closed channel reads as success

ListenerClosed == "TorErrorMsg"

Hear ==
    /\ listening
    /\ Sent
    /\ inbox' = IF Head(sending) = "SUCCESS_100" THEN "TorDoneMsg" ELSE "TorProgressMsg"
    /\ listening' = FALSE
    /\ UNCHANGED stage

HearClosed ==
    /\ listening /\ reader = "ended"
    /\ inbox' = ListenerClosed
    /\ listening' = FALSE
    /\ UNCHANGED <<client, daemon, goroutine, stage>>

HearNothing ==   \* 60 seconds
    /\ listening
    /\ inbox' = "TorErrorMsg"
    /\ listening' = FALSE
    /\ UNCHANGED <<client, daemon, goroutine, stage>>

(* Update handles the message, unless it is inside Stop.  Only a progress  *)
(* message queues the listener again.  After TorDoneMsg the onion address  *)
(* or the node can still fail, which ends as another TorErrorMsg.          *)
HandleAndForget ==   \* mutant: the listener is not queued again
    /\ inbox # "none" /\ stage \in {"waiting", "failed", "running"}
    /\ \/ inbox = "TorDoneMsg" /\ stage' = "running"
       \/ inbox \in {"TorDoneMsg", "TorErrorMsg"} /\ stage' = "failed"
       \/ inbox = "TorProgressMsg" /\ UNCHANGED stage
    /\ inbox' = "none"
    /\ UNCHANGED <<client, daemon, goroutine, listening>>

Handle ==
    /\ inbox # "none" /\ stage \in {"waiting", "failed", "running"}
    /\ \/ inbox = "TorDoneMsg" /\ stage' = "running"
       \/ inbox \in {"TorDoneMsg", "TorErrorMsg"} /\ stage' = "failed"
       \/ inbox = "TorProgressMsg" /\ UNCHANGED stage
    /\ listening' = (inbox = "TorProgressMsg")
    /\ inbox' = "none"
    /\ UNCHANGED <<client, daemon, goroutine>>
-----------------------------------------------------------------------------
(* Runner.Stop: the programs call it on their way out, the TUI inside      *)
(* Update on ctrl+c.                                                       *)
CallStop ==
    /\ \/ client # "tui" /\ stage = "running"
       \/ client = "tui" /\ stage \in {"waiting", "failed", "running"}
    /\ stage' = "stopping"
    /\ cancelled' = TRUE
    /\ UNCHANGED <<client, tor, pipe, goroutine, ui>>

StopReturns ==
    /\ stage = "stopping" /\ reader = "ended"
    /\ stage' = "stopped"
    /\ UNCHANGED <<client, daemon, goroutine, ui>>

Next ==
    \/ PrintLine \/ Die
    \/ ReadLine \/ EndOfStdout
    \/ Receive \/ ChannelClosed \/ Interrupt
    \/ Hear \/ HearClosed \/ HearNothing \/ Handle
    \/ CallStop \/ StopReturns

(* Goroutines run on, a killed process dies and Update handles what is in  *)
(* its queue.  Nothing is assumed of Tor, of timeouts or of the user.      *)
Fairness ==
    /\ WF_vars(Killed)
    /\ WF_vars(ReadLine) /\ WF_vars(EndOfStdout)
    /\ WF_vars(Receive) /\ WF_vars(ChannelClosed)
    /\ WF_vars(Hear) /\ WF_vars(HearClosed) /\ WF_vars(Handle)
    /\ WF_vars(StopReturns)

Spec == Init /\ [][Next]_vars /\ Fairness
-----------------------------------------------------------------------------
(* The TUI starts its node only after Tor has said 100%, whatever of       *)
(* crash, timeout and success comes first (listenForTor, AppModel.Update). *)
RunningMeansBootstrapped ==
    client = "tui" /\ stage = "running" => tor.printed > ProgressLines

(* Stop returns (Runner.Stop): to the bootstrap node always, to the others *)
(* unless the goroutine is sending a line to them that they no longer      *)
(* receive, for which it waits, and Stop with it, for ever - the telemetry *)
(* node after "100% (done)" ("SIGTERM received. Shutting down Tor relays   *)
(* safely...", cmd/telemetry/main.go), the TUI when it is quit while it    *)
(* handles a message.                                                      *)
SentToNobody ==
    sending # <<>> /\ (client = "telemetry" \/ (client = "tui" /\ ~listening))

StopEnds == stage = "stopping" ~> stage = "stopped" \/ SentToNobody

(* While a client listens the pipe does not stay full: "DO NOT return      *)
(* here! If we stop reading stdout, Tor's pipe fills up" (tor.Start).  A   *)
(* TUI that has given up or is inside Stop, and the programs that stop     *)
(* receiving before SUCCESS_100, are excused.                              *)
OutputIsRead ==
    Len(pipe) = PipeSize ~>
        \/ Len(pipe) < PipeSize
        \/ client = "telemetry" /\ stage # "waiting"
        \/ client = "tui" /\ (stage \in {"failed", "stopping"} \/ inbox = "TorErrorMsg")
=============================================================================
