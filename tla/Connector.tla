----------------------------- MODULE Connector ------------------------------
(***************************************************************************)
(* What all device connectors have in common.  A connector is a process    *)
(* that the agent starts for a phase of a job: it prepares the control     *)
(* host, works on the device under test (DUT), and its exit code tells the *)
(* agent how the phase ended.                                              *)
(*                                                                         *)
(* Each connector is a module of its own that extends this one and adds    *)
(* its steps; DeviceConnectors composes them.  A step is what the code     *)
(* does between two things that can fail or that the DUT can see.          *)
(*                                                                         *)
(* Of the DUT is kept what it could boot from, and which system runs.  The *)
(* content of a medium is "old" (of an earlier job), "part" (written, but  *)
(* not complete) or "new" (as this job asks).                              *)
(***************************************************************************)
EXTENDS FiniteSets, Naturals

CONSTANTS
    Keys,      \* the keys that a reservation lists
    MaxTries,  \* bound: attempts of what the code retries
    MaxJobs    \* bound: the jobs that a connector serves one after the other

ASSUME ConnectorAssumption == MaxTries \in Nat \ {0} /\ MaxJobs \in Nat

VARIABLES
    kind,      \* the connector, or the stage that all have
    conf,      \* what the configuration and the job say, as far as it matters
    jobs,      \* jobs still to come
    at,        \* the point of the code; "over" when the process has ended
    tries,     \* attempts made at this point
    exit,      \* how it ended: "ok" (exit code 0), "error" (1), "recover" (46, for
               \* a RecoveryError), or otherwise
    mishaps,   \* what could not be done or put back, and nobody took care of
    power,     \* has the DUT power?
    attached,  \* the media that the DUT would boot from
    disk,      \* the content of its media
    up,        \* the system that answers: "none", "old", "new", or the "service"
               \* system, from which images are written
    falling,   \* was it told to reboot, and has not gone down yet?
    serial,    \* processes that log the serial console: of "this" stage, or of
               \* "earlier" ones, which were killed without it
    answers,   \* what of the control host answers: "rest", "ssh" or "nothing"
    remote     \* the provisionings that the control host runs: that of "this"
               \* connector, and one that an "earlier" connector left to it

asked   == <<kind, conf, jobs>>
process == <<at, tries, exit, serial>>
dut     == <<power, attached, disk, up, falling>>
host    == <<answers, remote>>
shared  == <<asked, process, mishaps, dut, host>>

Media    == {"main", "usb"}
Contents == {"old", "part", "new"}
Systems  == {"none", "old", "new", "service"}
Exits    == {"running", "hangs", "killed", "ok", "error", "recover"}

(***************************************************************************)
(* A failure that the code passes over, or has no remedy for, is noted:    *)
(*   "power"      the scripts have left the DUT without power              *)
(*   "unplugged"  the storage was not plugged to the DUT when the stage    *)
(*                began, and has not been switched since                   *)
(*   "switch"     the command of the multiplexer has failed                *)
(*   "unmount"    a partition could not be unmounted before it is written  *)
(*   "earlier"    the control host still works for an earlier connector    *)
(*   "layout"     MAAS has not taken the storage layout                    *)
(***************************************************************************)
NoteIf(condition, m) == mishaps' = IF condition THEN mishaps \cup {m} ELSE mishaps

-----------------------------------------------------------------------------
(***************************************************************************)
(* The parts of a step.                                                    *)
(***************************************************************************)
At(point)   == at = point /\ exit = "running" /\ UNCHANGED asked
Goto(point) == at' = point /\ tries' = 0 /\ UNCHANGED <<exit, serial>>
Again       == tries' = tries + 1 /\ UNCHANGED <<at, exit, serial>>

\* A step on the same attempt
Step(point) == at' = point /\ UNCHANGED <<tries, exit, serial>>

\* The serial console is logged from here, if there is one, to the end.
StartSerial(point) ==
    /\ at' = point /\ tries' = 0 /\ UNCHANGED exit
    /\ serial' = serial \cup (IF conf.serial THEN {"this"} ELSE {})

\* However a stage ends by itself, its logger is stopped.
StopSerial == serial' = serial \ {"this"}
End(code)  == at' = "over" /\ tries' = 0 /\ exit' = code /\ StopSerial

\* add_exception_logging_to_file
Return       == End("ok")
Raise        == End("error")
RaiseRecover == End("recover")

\* A connector does its own work after the hook of DefaultDevice.
Begin(k) == At("provision") /\ kind = k

\* A command that is tried again while it fails; at the end Failed.
Attempt(Done, Failed) ==
    \/ Done
    \/ tries + 1 < MaxTries /\ Again
    \/ tries + 1 = MaxTries /\ Failed

\* The scripts that cut the power of the DUT and restore it
Reset     == power' = TRUE /\ up' = "none" /\ falling' = FALSE
HalfReset == power' \in BOOLEAN /\ up' \in {up, "none"} /\ UNCHANGED falling

\* hardreset: an error of a script is Failed.
HardReset(next, Failed) ==
    /\ \/ Reset /\ Goto(next)
       \/ HalfReset /\ Failed
    /\ UNCHANGED <<attached, disk>>

\* What the next boot finds is set by scripts, too.
SetBoot(media) == attached' = media

Booted == up \in {"old", "new"}

Write(medium, content) == disk' = [disk EXCEPT ![medium] = content]

-----------------------------------------------------------------------------
(***************************************************************************)
(* The DUT.                                                                *)
(***************************************************************************)
ComesUp ==
    /\ up = "none" /\ power
    /\ \/ "service" \in attached /\ up' = "service"
       \/ \E m \in attached \ {"service"} : disk[m] # "part" /\ up' = disk[m]
    /\ UNCHANGED <<asked, process, mishaps, power, attached, disk, falling, host>>

GoesDown ==
    /\ falling
    /\ falling' = FALSE /\ up' = "none"
    /\ UNCHANGED <<asked, process, mishaps, power, attached, disk, host>>

\* The agent kills a connector when the job is cancelled or a timeout is over;
\* what the connector has started is not killed with it.
Kill ==
    /\ exit \in {"running", "hangs"}
    /\ at' = "over" /\ tries' = 0 /\ exit' = "killed"
    /\ UNCHANGED <<asked, serial, mishaps, dut, host>>

-----------------------------------------------------------------------------
(***************************************************************************)
(* pre_provision_hook.  conf.hook says how much of it there is: "none"     *)
(* (no control host), "setup" (no power cycle), "cycle", or "manage" (with *)
(* the power of the DUT).                                                  *)
(***************************************************************************)
Manages == conf.hook = "manage"

\* What the checks of the control host find
RestAnswers == answers = "rest"
SshAnswers  == answers \in {"rest", "ssh"}

\* _run_script logs an error of a script, and goes on.
Hook ==
    /\ At("hook")
    /\ CASE conf.hook = "none"  -> Goto("provision") /\ UNCHANGED <<power, up>>
         [] conf.hook = "setup" -> Goto("setup") /\ UNCHANGED <<power, up>>
         [] OTHER ->
              /\ Goto("poweroff")
              /\ power' \in IF Manages THEN {power, FALSE} ELSE {power}
              /\ up' = IF power' THEN up ELSE "none"
    /\ UNCHANGED <<mishaps, attached, disk, falling, host>>

\* POST /api/v1/system/poweroff, which may be executed and not answered
PowerOffHost ==
    /\ At("poweroff")
    /\ \/ RestAnswers /\ answers' = "nothing" /\ Goto("reboot")
       \/ answers' \in {answers, "nothing"} /\ Goto("fallback")
    /\ UNCHANGED <<mishaps, dut, remote>>

\* A restart of the control host ends what it works on.
RestartHost == answers' \in {"rest", "ssh", "nothing"} /\ remote' = {}

\* reboot and wait_ready, whose TimeoutError no handler of power_cycle takes
RebootHost ==
    /\ At("reboot")
    /\ RestartHost
    /\ IF RestAnswers' THEN Goto("poweron") ELSE Goto("poweron-and-raise")
    /\ UNCHANGED <<mishaps, dut>>

\* ssh_fallback: a control host that answers to ssh is left alone.
SshFallback ==
    /\ At("fallback")
    /\ IF SshAnswers THEN UNCHANGED host ELSE RestartHost
    /\ Goto("poweron")
    /\ UNCHANGED <<mishaps, dut>>

\* In the finally clause of power_cycle
PowerOnDut ==
    /\ \/ At("poweron") /\ Goto("setup")
       \/ At("poweron-and-raise") /\ Raise
    /\ power' \in IF Manages THEN {power, TRUE} ELSE {power}
    /\ NoteIf(~power', "power")
    /\ UNCHANGED <<attached, disk, up, falling, host>>

\* _setup_control_host: whatever comes of it
Setup ==
    /\ At("setup")
    /\ Goto("provision")
    /\ UNCHANGED <<mishaps, dut, host>>

HookStep == Hook \/ PowerOffHost \/ RebootHost \/ SshFallback \/ PowerOnDut \/ Setup
=============================================================================
