---------------------------- MODULE ControlHosts ----------------------------
(***************************************************************************)
(* The connectors that leave the provisioning to the REST API of the       *)
(* control host: control_host_kvm, control_host_iot and the first half of  *)
(* oem_autoinstall.  The connector submits a job, follows its log, and     *)
(* asks for its status when the log ends.  The job goes on whatever        *)
(* becomes of the connector.                                               *)
(*                                                                         *)
(* conf.iso says whether the control host is needed (oem_autoinstall);     *)
(* conf.after what follows when it is through: "return" at once, the "key" *)
(* of the agent is copied (control_host_iot), the "password" is changed    *)
(* before that (control_host_kvm), or a "script" of OemImages goes on.     *)
(* What else the job says is chosen where it is validated.                 *)
(***************************************************************************)
EXTENDS Connector, Sequences

CONSTANTS
    MaxEvents,  \* bound: the entries in the log of a provisioning
    Malformed,  \* those whose data are no JSON
    Unnumbered, \* those without an id
    Clearing,   \* those with an empty id, which clears the cursor
    MaxLogged   \* bound: what is logged of them, repetitions included

ASSUME ControlHostsAssumption ==
    /\ MaxEvents \in Nat /\ MaxLogged \in Nat
    /\ Malformed \cup Unnumbered \cup Clearing \subseteq 1..MaxEvents

VARIABLES
    hooks,      \* how often the hook was run
    result,     \* the status of this job there
    sent,       \* the entries of its log
    reading,    \* the last one read from the stream
    handled,    \* the cursor when the stream ends now
    cursor,     \* Last-Event-ID, 0 for none
    logged      \* the entries that the connector has logged, in order

remotes == <<hooks, result, sent, reading, handled, cursor, logged>>
stream  == <<reading, handled, cursor, logged>>

ControlHostKinds == {"control_host_kvm", "control_host_iot", "oem_autoinstall"}
HostConf(k) ==
    [hook : IF k = "control_host_iot" THEN {"setup", "manage"} ELSE {"setup", "cycle"},
     serial : {TRUE},
     iso : IF k = "oem_autoinstall" THEN BOOLEAN ELSE {TRUE},
     after : CASE k = "control_host_iot" -> {"return", "key"}
               [] k = "control_host_kvm" -> {"return", "password", "script"}
               [] k = "oem_autoinstall"  -> {"return", "script"}]

RemoteInit ==
    /\ hooks = 0 /\ result = "none" /\ sent = 0
    /\ reading = 0 /\ handled = 0 /\ cursor = 0 /\ logged = <<>>

RemoteNextJob ==
    /\ hooks' = 0 /\ result' = "none" /\ sent' = 0
    /\ reading' = 0 /\ handled' = 0 /\ cursor' = 0 /\ logged' = <<>>

-----------------------------------------------------------------------------
(***************************************************************************)
(* The control host.                                                       *)
(***************************************************************************)
WriteLog ==
    /\ "this" \in remote /\ sent < MaxEvents
    /\ sent' = sent + 1
    /\ UNCHANGED <<shared, hooks, result, stream>>

\* What oem_autoinstall and kvm go on from is not yet what the job asks.
Provisioned(who) == IF who = "this" /\ conf.after # "script" THEN "new" ELSE "old"

FinishRemote ==
    /\ \E who \in remote :
          /\ remote' = remote \ {who}
          /\ \/ /\ power /\ Write("main", Provisioned(who)) /\ up' = Provisioned(who)
                /\ result' = IF who = "this" THEN "completed" ELSE result
             \/ /\ disk' \in {disk, [disk EXCEPT !["main"] = "part"]} /\ up' \in {up, "none"}
                /\ result' = IF who = "this" THEN "failed" ELSE result
    /\ falling' = FALSE
    /\ UNCHANGED <<asked, process, mishaps, power, attached, answers, hooks, sent, stream>>

-----------------------------------------------------------------------------
(***************************************************************************)
(* The connector.                                                          *)
(***************************************************************************)
\* A request to the REST API: it is answered, or an exception is raised.
Api(Answer, Failed) == (RestAnswers /\ Answer) \/ (Raise /\ Failed)

\* control_host_iot logs the serial console from before the hook.
IotBegin ==
    /\ At("iot") /\ StartSerial("hook")
    /\ UNCHANGED <<mishaps, dut, host, remotes>>

\* oem_autoinstall runs the hook, and then that of ControlHostOem.
HostBegin ==
    /\ \E k \in ControlHostKinds : Begin(k)
    /\ conf.iso
    /\ IF kind = "oem_autoinstall" /\ hooks = 0
       THEN Goto("hook") /\ hooks' = 1
       ELSE Goto("host-validate") /\ UNCHANGED hooks
    /\ UNCHANGED <<mishaps, dut, host, result, sent, stream>>

Validated(valid) ==
    /\ IF valid THEN Goto("host-post") ELSE Raise
    /\ UNCHANGED <<mishaps, dut, host, remotes>>

\* control_host_kvm: what kind of payload it is, and with it the keys that have
\* to be there, depends on the keys that are there.
KvmData ==
    [preset : {"none", "other", "desktop-jammy-oem"}, alloem_url : BOOLEAN, url : BOOLEAN,
     robot_tasks : BOOLEAN, autoinstall : {"none", "oem", "good", "bad"}]

\* The keys of autoinstall_oem are not looked at.
AutoinstallValid(data) == data.autoinstall # "bad"

PresetPayload(data)  == data.preset # "none"
AlloemPayload(data)  == ~PresetPayload(data) /\ data.alloem_url /\ data.robot_tasks
DefaultPayload(data) == data.preset = "none" /\ ~data.alloem_url /\ data.url /\ data.robot_tasks

\* The control host only restores the recovery partition.
RestoresOnly(data) == data.alloem_url \/ data.preset = "desktop-jammy-oem"

KvmAfter(data) == IF ~RestoresOnly(data) THEN "return" ELSE IF data.url THEN "script" ELSE "password"

KvmValidate ==
    /\ At("host-validate") /\ kind = "control_host_kvm"
    /\ \E data \in KvmData :
          /\ KvmAfter(data) = conf.after
          /\ Validated(/\ PresetPayload(data) \/ AlloemPayload(data) \/ DefaultPayload(data)
                       /\ AutoinstallValid(data))

\* control_host_iot: a plan may lack its parts, or log in with an account of
\* which the job does not say the address; with one the key is not copied.
IotData ==
    [plan : {"none", "whole", "console-conf", "part"}, ubuntu_sso_email : BOOLEAN,
     agent_ssh_access : BOOLEAN, urls : {"none", "good", "bad"}]

PlanValid(data) ==
    CASE data.plan = "part"         -> FALSE
      [] data.plan = "console-conf" -> data.ubuntu_sso_email
      [] OTHER                      -> TRUE

\* validate_urls
UrlsValid(data) == data.urls # "bad"

IotAfter(data) == IF data.agent_ssh_access /\ ~data.ubuntu_sso_email THEN "key" ELSE "return"

IotValidate ==
    /\ At("host-validate") /\ kind = "control_host_iot"
    /\ \E data \in IotData :
          /\ IotAfter(data) = conf.after
          /\ Validated(PlanValid(data) /\ UrlsValid(data))

\* ControlHostOem: one of the two is there, or it would not be used; the files
\* of a stock image may be unreadable.
OemData ==
    {data \in [iso_url : BOOLEAN, iso_type : {"none", "stock", "other", "unsupported"}, device_ip : BOOLEAN] :
        data.iso_url \/ data.iso_type # "none"}

OemValid(data) == data.device_ip /\ data.iso_url /\ data.iso_type \in {"stock", "other"}

OemValidate ==
    /\ At("host-validate") /\ kind = "oem_autoinstall"
    /\ \E data \in OemData :
          \/ Validated(OemValid(data))
          \/ data.iso_type = "stock" /\ Validated(FALSE)

\* POST /api/v1/provision, with the attachment if there is one.  Nobody looks
\* whether the control host still works on what an earlier connector left to it.
HostPost ==
    /\ At("host-post")
    /\ Api(/\ remote' = remote \cup {"this"} /\ result' = "running"
           /\ NoteIf(remote # {}, "earlier")
           /\ Goto("host-stream") \/ Raise,
           UNCHANGED <<mishaps, remote, result>>)
    /\ UNCHANGED <<dut, answers, hooks, sent, stream>>

\* Mutant: a stream without entries clears the cursor.
HostStreamClearing ==
    /\ At("host-stream")
    /\ Api(Goto("host-read") /\ reading' = cursor, UNCHANGED reading)
    /\ handled' = 0
    /\ UNCHANGED <<mishaps, dut, host, hooks, result, sent, cursor, logged>>

\* GET .../logs with the cursor: the stream starts behind it.
HostStream ==
    /\ At("host-stream")
    /\ Api(Goto("host-read") /\ reading' = cursor, UNCHANGED reading)
    /\ handled' = cursor
    /\ UNCHANGED <<mishaps, dut, host, hooks, result, sent, cursor, logged>>

\* An entry is logged if it could be parsed, and then counts for the cursor if it
\* has an id.
HostRead ==
    /\ At("host-read") /\ reading < sent /\ Len(logged) < MaxLogged
    /\ reading' = reading + 1
    /\ logged' = IF reading' \in Malformed THEN logged ELSE Append(logged, reading')
    /\ handled' = IF reading' \in Malformed \cup Unnumbered THEN handled
                  ELSE IF reading' \in Clearing THEN 0 ELSE reading'
    /\ UNCHANGED <<process, mishaps, dut, host, hooks, result, sent, cursor>>

\* The stream ends when the job has, or because it is cut; an error raises.
HostStreamEnds ==
    /\ At("host-read")
    /\ \/ Goto("host-status") /\ cursor' = handled
       \/ Raise /\ UNCHANGED cursor
    /\ UNCHANGED <<mishaps, dut, host, hooks, result, sent, reading, handled, logged>>

\* Mutant: the stream is asked for again until the job is completed.
HostStatusUntilCompleted ==
    /\ At("host-status")
    /\ IF result = "completed" THEN Goto("host-after") ELSE Goto("host-stream")
    /\ UNCHANGED <<mishaps, dut, host, remotes>>

HostStatus ==
    /\ At("host-status")
    /\ CASE result = "running"   -> Goto("host-stream") \/ Raise
         [] result = "completed" -> Goto("host-after") \/ Raise
         [] result = "failed"    -> Raise
    /\ UNCHANGED <<mishaps, dut, host, remotes>>

\* _post_run_actions, of each of them
HostAfter ==
    /\ At("host-after")
    /\ CASE kind = "oem_autoinstall" -> IF conf.after = "script" THEN Goto("oem-auto-reach") ELSE Return
         [] kind = "control_host_kvm" -> IF conf.after = "return" THEN Return ELSE Goto("host-password")
         [] kind = "control_host_iot" -> IF conf.after = "return" THEN Return ELSE Goto("host-key")
    /\ UNCHANGED <<mishaps, dut, host, remotes>>

\* The image that was restored has the password of the factory.
KvmPassword ==
    /\ At("host-password")
    /\ \/ Booted /\ Goto("host-key")
       \/ Raise
    /\ UNCHANGED <<mishaps, dut, host, remotes>>

HostKey ==
    /\ At("host-key")
    /\ \/ Booted /\ IF conf.after = "script" THEN Goto("oem-reach") ELSE Return
       \/ Raise
    /\ UNCHANGED <<mishaps, dut, host, remotes>>

HostStep ==
    \/ IotBegin \/ HostBegin \/ KvmValidate \/ IotValidate \/ OemValidate \/ HostPost \/ HostStream
    \/ HostRead \/ HostStreamEnds \/ HostStatus \/ HostAfter \/ KvmPassword \/ HostKey
RemoteStep == WriteLog \/ FinishRemote
=============================================================================
