----------------------------- MODULE StatusLine -----------------------------
(***************************************************************************)
(* The line at the bottom of the terminal in which the command line client *)
(* shows the state of the job it polls.  The main thread prints the output *)
(* of the job, follows its state and asks the user what to do when it is   *)
(* interrupted; a timer thread redraws the line once a period.  Both write *)
(* with the print lock held, so what one writes under the lock is one step *)
(* here; input alone keeps the lock while it waits.                        *)
(*                                                                         *)
(* Of the terminal there is the line the cursor is in, as what was written *)
(* to it from left to right.  Other output than to a terminal is left out. *)
(***************************************************************************)
EXTENDS Naturals, Sequences

CONSTANTS
    States,       \* the states a job may have, and "unknown"
    Period,       \* seconds between two drawings: one by update_rate
    JoinTimeout   \* seconds stop waits for the timer

ASSUME StatusLineAssumption ==
    /\ {"provision", "reserve", "complete", "cancelled"} \subseteq States
    /\ "" \notin States
    /\ Period \in Nat \ {0} /\ JoinTimeout \in Nat
    /\ Period < JoinTimeout   \* a tenth of a second, and two

VARIABLES
    tty,        \* is standard output a terminal? (_is_tty, once init is called)
    point,      \* the point of the main thread
    seen,       \* the state of the job in this round of do_poll
    state,      \* StatusLine.state
    template,   \* what _last_template says of the state it was set in:
                \* "" (nothing yet), "first" or "other"
    tmplState,  \* _last_template_state
    countdown,  \* _countdown_mode
    running,    \* _running
    timer,      \* the timer thread: "none", "loop", "sleep" or "over"
    left,       \* what is left of the sleep of the timer
    waited,     \* how long stop has waited for the timer
    line        \* the line of the cursor

display    == <<state, template, tmplState, countdown>>
clock      == <<timer, left, waited>>
statusLine == <<tty, point, seen, display, running, clock, line>>

EndStates == {"complete", "cancelled"}
Written   == {"status", "text", "prompt"}
Points    == {"begin", "round", "logs", "deployment", "state", "message",
             "end", "interrupted", "prompt", "yes", "no", "stop", "join", "over"}

StatusLineTypeOK ==
    /\ tty \in BOOLEAN /\ point \in Points
    /\ seen \in States /\ state \in {""} \cup States
    /\ template \in {"", "first", "other"} /\ tmplState \in {""} \cup States
    /\ countdown \in BOOLEAN /\ running \in BOOLEAN
    /\ timer \in {"none", "loop", "sleep", "over"}
    /\ left \in 0..Period /\ waited \in 0..JoinTimeout
    /\ line \in Seq(Written)

StatusLineInit ==
    /\ tty = FALSE /\ point = "begin" /\ seen \in States
    /\ state = "" /\ template = "" /\ tmplState = "" /\ countdown = FALSE
    /\ running = FALSE /\ timer = "none" /\ left = 0 /\ waited = 0
    /\ line = <<>>

-----------------------------------------------------------------------------
(***************************************************************************)
(* Writing to the terminal.                                                *)
(***************************************************************************)
\* clear: carriage return, erase to the end of the line.  Then the line is ln.
ClearAnd(ln) == line' = IF tty THEN ln ELSE line

\* StatusLine.print: clear, the text, draw.
PrintText(ends) == ClearAnd(IF ends THEN <<"status">> ELSE <<"text", "status">>)

\* The lock is free: only the prompt of input keeps it.
Unlocked == point # "prompt"

Go(to) == point' = to

(***************************************************************************)
(* do_poll.  init starts the timer for a terminal and a job that is not    *)
(* over.                                                                   *)
(***************************************************************************)
Begin ==
    /\ point = "begin"
    /\ \E isatty \in BOOLEAN :
          LET live == isatty /\ seen \notin EndStates
          IN  /\ tty' = live /\ running' = live
              /\ timer' = IF live THEN "loop" ELSE "none"
    /\ Go("round")
    /\ UNCHANGED <<seen, display, left, waited, line>>

\* A round: the state is asked for, then the logs.  A request that fails starts
\* the next round.
NewRound ==
    /\ point = "round"
    /\ \E s \in States : seen' = s
    /\ Go("logs")
    /\ UNCHANGED <<tty, display, running, clock, line>>

AfterLogs == IF seen # state THEN "state" ELSE "end"

NoLogs ==
    /\ point = "logs"
    /\ Go(AfterLogs) \/ Go("round")
    /\ UNCHANGED <<tty, seen, display, running, clock, line>>

\* _filter_and_print_logs: fragments as they are, which may end anywhere in a
\* line; in a provision phase line by line.
PrintOutput ==
    /\ point = "logs"
    /\ \E ends \in BOOLEAN : PrintText(ends \/ (tty /\ state = "provision"))
    /\ Go(AfterLogs)
    /\ UNCHANGED <<tty, seen, display, running, clock>>

\* A line "... minutes passed since deployment" becomes a message instead.
DeploymentLine ==
    /\ point = "logs" /\ tty /\ state = "provision"
    /\ Go("deployment")
    /\ UNCHANGED <<tty, seen, display, running, clock, line>>

(***************************************************************************)
(* set_message.  In a terminal a message that is not the last one of the   *)
(* same state is printed too, with the original print.                     *)
(***************************************************************************)
SetMessage(t) ==
    IF ~tty THEN UNCHANGED <<template, tmplState, line>>
    ELSE /\ template' = t /\ tmplState' = state
         /\ line' = IF template # "" /\ t # template /\ tmplState = state THEN <<>> ELSE line

MessageOfDeployment ==
    /\ point = "deployment"
    /\ SetMessage("other")
    /\ Go(AfterLogs)
    /\ UNCHANGED <<tty, seen, state, countdown, running, clock>>

(***************************************************************************)
(* _on_state_change: the countdown, set_state and the message of the new   *)
(* state.                                                                  *)
(***************************************************************************)
\* Mutant: set_state comes before the last state is looked at.
CountdownAfterChange ==
    /\ point = "state"
    /\ countdown' = IF seen = "reserve" THEN FALSE ELSE countdown
    /\ state' = seen
    /\ IF state # "" THEN ClearAnd(<<>>) ELSE UNCHANGED line
    /\ Go("message")
    /\ UNCHANGED <<tty, seen, template, tmplState, running, clock>>

\* set_state prints how long the last state lasted, on a line it has cleared.
ChangeState ==
    /\ point = "state"
    /\ countdown' = IF state = "reserve" THEN FALSE ELSE countdown \/ seen = "reserve"
    /\ state' = seen
    /\ IF state # "" THEN ClearAnd(<<>>) ELSE UNCHANGED line
    /\ Go("message")
    /\ UNCHANGED <<tty, seen, template, tmplState, running, clock>>

MessageOfState ==
    /\ point = "message"
    /\ SetMessage("first")
    /\ Go("end")
    /\ UNCHANGED <<tty, seen, state, countdown, running, clock>>

\* The poll ends with the job, or with the phase it is for.  A job that waits
\* has its place in the queue printed.
EndRound ==
    /\ point = "end"
    /\ \/ Go("stop") /\ UNCHANGED line
       \/ seen \notin EndStates /\ Go("round") /\ (PrintText(TRUE) \/ UNCHANGED line)
    /\ UNCHANGED <<tty, seen, display, running, clock>>

-----------------------------------------------------------------------------
(***************************************************************************)
(* KeyboardInterrupt.  It is raised where the main thread waits, in the    *)
(* requests, the sleep or the writing of logs, which may then be cut after *)
(* the line was cleared.                                                   *)
(***************************************************************************)
InterruptPoll ==
    /\ point \in {"round", "logs"}
    /\ \/ UNCHANGED line
       \/ point = "logs" /\ ClearAnd(<<>>)
    /\ Go("interrupted")
    /\ UNCHANGED <<tty, seen, display, running, clock>>

\* StatusLine.input: clear and show the prompt, which begins with a line feed.
Prompt ==
    /\ point = "interrupted"
    /\ ClearAnd(<<"prompt">>)
    /\ Go("prompt")
    /\ UNCHANGED <<tty, seen, display, running, clock>>

\* The answer ends with a line feed; then draw.  A second interrupt leaves.
Answer ==
    /\ point = "prompt"
    /\ \/ (\E to \in {"round", "yes", "no"} : Go(to)) /\ PrintText(TRUE)
       \/ Go("stop") /\ UNCHANGED line
    /\ UNCHANGED <<tty, seen, display, running, clock>>

Yes ==
    /\ point = "yes"
    /\ SetMessage("other")
    /\ Go("no")
    /\ UNCHANGED <<tty, seen, state, countdown, running, clock>>

\* The number of the next fragment is printed, and the interrupt goes on to cli.
No ==
    /\ point = "no"
    /\ PrintText(TRUE)
    /\ Go("stop")
    /\ UNCHANGED <<tty, seen, display, running, clock>>

(***************************************************************************)
(* stop, in any case (cli).                                                *)
(***************************************************************************)
Stop ==
    /\ point = "stop"
    /\ running' = FALSE
    /\ Go("join")
    /\ UNCHANGED <<tty, seen, display, clock, line>>

\* The cursor leaves the line, and print and input are the original ones again.
Restore ==
    /\ point = "join"
    /\ timer \in {"none", "over"} \/ waited = JoinTimeout
    /\ line' = <<>>
    /\ Go("over")
    /\ UNCHANGED <<tty, seen, display, running, clock>>

(***************************************************************************)
(* The timer thread, and the time.  A thread that can go on does so before *)
(* a second has passed.                                                    *)
(***************************************************************************)
\* Mutant: the lock is not taken.
RedrawAnyway ==
    /\ timer = "loop" /\ running
    /\ ClearAnd(<<"status">>)
    /\ timer' = "sleep" /\ left' = Period
    /\ UNCHANGED <<tty, point, seen, display, running, waited>>

Redraw ==
    /\ timer = "loop" /\ running /\ Unlocked
    /\ ClearAnd(<<"status">>)
    /\ timer' = "sleep" /\ left' = Period
    /\ UNCHANGED <<tty, point, seen, display, running, waited>>

TimerEnds ==
    /\ timer = "loop" /\ ~running
    /\ timer' = "over"
    /\ UNCHANGED <<tty, point, seen, display, running, left, waited, line>>

TimerWakes ==
    /\ timer = "sleep" /\ left = 0
    /\ timer' = "loop"
    /\ UNCHANGED <<tty, point, seen, display, running, left, waited, line>>

Second ==
    /\ timer = "sleep" /\ left > 0
    /\ point = "join" => waited < JoinTimeout
    /\ left' = left - 1
    /\ waited' = IF point = "join" THEN waited + 1 ELSE waited
    /\ UNCHANGED <<tty, point, seen, display, running, timer, line>>

Main ==
    \/ Begin \/ NewRound \/ NoLogs \/ PrintOutput \/ DeploymentLine
    \/ MessageOfDeployment \/ ChangeState \/ MessageOfState \/ EndRound
    \/ InterruptPoll \/ Prompt \/ Answer \/ Yes \/ No \/ Stop \/ Restore

Timer == Redraw \/ TimerEnds \/ TimerWakes \/ Second

StatusLineStep == Main \/ Timer

-----------------------------------------------------------------------------
(***************************************************************************)
(* Properties.                                                             *)
(***************************************************************************)

\* The timer neither draws over a question to the user nor into the shell's
\* terminal once the client has given it back (input, stop).
LeftAlone ==
    /\ point = "prompt" /\ tty => line = <<"prompt">>
    /\ point = "over" => timer \in {"none", "over"}

\* The line counts down if and only if the job is reserved, through states that
\* are passed over and reads that failed (_on_state_change).
CountsDownReservations ==
    point \in {"round", "end"} => (countdown <=> state = "reserve")
=============================================================================
