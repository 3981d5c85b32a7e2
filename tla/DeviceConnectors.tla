-------------------------- MODULE DeviceConnectors ---------------------------
(***************************************************************************)
(* A device connector serves one job after the other: each time a process, *)
(* with the configuration of the agent and the data of the job, on the DUT *)
(* and the control host as they were left.  Which connector it is, or      *)
(* which of the stages that all have, is chosen once.                      *)
(***************************************************************************)
EXTENDS Muxpi, MasterImage, ControlHosts, OemImages, Stages, Firmware, Maas

\* The subcommands of the connectors, and the default stages
Conf(k) ==
    CASE k = "muxpi"            -> MuxpiConf
      [] k = "cm3"              -> Cm3Conf
      [] k = "dragonboard"      -> DragonConf
      [] k = "netboot"          -> NetConf
      [] k \in ControlHostKinds -> HostConf(k)
      [] k \in OemKinds         -> OemConf
      [] k = "maas2"            -> MaasConf
      [] k = "test"             -> TestConf
      [] k = "reserve"          -> ReserveConf
      [] k = "firmware_update"  -> FirmwareConf

DefaultStages == {"test", "reserve", "firmware_update"}
Kinds   == {"muxpi", "cm3", "dragonboard", "netboot", "maas2"}
           \cup ControlHostKinds \cup OemKinds \cup DefaultStages

\* get_device_stage_func: the constructor, and the method of the stage; the
\* cleanup of MAAS has no hook.
Entry(k, c) == CASE k \in DefaultStages                       -> k
                 [] k = "control_host_iot"                  -> "iot"
                 [] k = "maas2" /\ c.stage = "cleanup" -> "provision"
                 [] OTHER                              -> "hook"

-----------------------------------------------------------------------------
Init ==
    /\ kind \in Kinds /\ conf \in Conf(kind) /\ jobs = MaxJobs
    /\ at = Entry(kind, conf) /\ tries = 0 /\ exit = "running" /\ serial = {}
    /\ mishaps = IF kind = "muxpi" /\ Medium # "main" THEN {"unplugged"} ELSE {}
    /\ power = TRUE /\ attached = {"main"} /\ disk = [m \in Media |-> "old"]
    /\ up = "old" /\ falling = FALSE /\ answers = "rest" /\ remote = {}
    /\ mountList = <<>> /\ mounted = {} /\ home \in {"unmounted", "mounted"}
    /\ RemoteInit /\ StagesInit /\ FirmwareInit /\ MaasInit

\* What is said by the configuration of the agent, which its jobs share
Configured == {"hook", "cli", "serial", "efi", "tpm", "default"}

Aged(content) == IF content = "new" THEN "old" ELSE content

\* The agent starts the connector for another job, unless it has gone offline
\* after a RecoveryError.  What was "new" is "old" now; storage that was left
\* plugged to the control host stays so, and its provisioning goes on.
NextJob ==
    /\ at = "over" /\ exit \in {"ok", "error", "killed"} /\ jobs > 0
    /\ jobs' = jobs - 1 /\ exit' = "running" /\ tries' = 0 /\ UNCHANGED kind
    /\ conf' \in Conf(kind) /\ \A f \in Configured \cap DOMAIN conf : conf'[f] = conf[f]
    /\ at' = Entry(kind, conf')
    /\ mishaps' = IF kind = "muxpi" /\ Medium' \notin attached THEN {"unplugged"} ELSE {}
    /\ disk' = [m \in Media |-> Aged(disk[m])] /\ up' = Aged(up)
    /\ serial' = IF serial = {} THEN {} ELSE {"earlier"}
    /\ remote' = IF remote = {} THEN {} ELSE {"earlier"}
    /\ mountList' = <<>>
    /\ UNCHANGED <<power, attached, falling, answers, mounted, home>>
    /\ RemoteNextJob /\ StagesNextJob /\ FirmwareNextJob /\ MaasNextJob

\* Steps of the process
ConnectorStep ==
    \/ HookStep     /\ UNCHANGED <<muxpi, remotes, home, stages, firmware, maas>>
    \/ MuxStep      /\ UNCHANGED <<remotes, home, stages, firmware, maas>>
    \/ Cm3Step      /\ UNCHANGED <<remotes, home, stages, firmware, maas>>
    \/ DragonStep   /\ UNCHANGED <<muxpi, remotes, home, stages, firmware, maas>>
    \/ NetStep      /\ UNCHANGED <<muxpi, remotes, home, stages, firmware, maas>>
    \/ HostStep     /\ UNCHANGED <<muxpi, home, stages, firmware, maas>>
    \/ OemStep      /\ UNCHANGED <<muxpi, remotes, stages, firmware, maas>>
    \/ StageStep    /\ UNCHANGED <<muxpi, remotes, home, firmware, maas>>
    \/ FirmwareStep /\ UNCHANGED <<muxpi, remotes, home, stages, maas>>
    \/ MaasStep     /\ UNCHANGED <<muxpi, remotes, home, stages, firmware>>

\* Steps of what the connectors work with
OtherStep ==
    \/ GoesDown  /\ UNCHANGED <<muxpi, remotes, home, stages, firmware, maas>>
    \/ ComesUp   /\ staged = {}
                 /\ UNCHANGED <<muxpi, remotes, home, stages, firmware, maas>>
    \/ Kill      /\ UNCHANGED <<muxpi, remotes, home, stages, firmware, maas>>
    \/ WriteLog  /\ UNCHANGED <<muxpi, home, stages, firmware, maas>>
    \/ FinishRemote  /\ UNCHANGED <<muxpi, home, stages, firmware, maas>>
    \/ FirmwareLands /\ UNCHANGED <<muxpi, remotes, home, stages, maas>>
    \/ MaasWorks     /\ UNCHANGED <<muxpi, remotes, home, stages, firmware>>

Next == ConnectorStep \/ NextJob \/ OtherStep

vars == <<shared, muxpi, remotes, home, stages, firmware, maas>>

Spec == Init /\ [][Next]_vars

(***************************************************************************)
(* A connector goes on, and a control host comes to an end of its work; of *)
(* the latter the connector has no timeout.                                *)
(***************************************************************************)
HostEnds == FinishRemote /\ UNCHANGED <<muxpi, home, stages, firmware, maas>>
FairSpec == Spec /\ WF_vars(ConnectorStep) /\ WF_vars(HostEnds)

-----------------------------------------------------------------------------
(***************************************************************************)
(* Properties                                                              *)
(***************************************************************************)
AsksForSystem ==
    /\ kind \notin DefaultStages \cup {"noprovision", "fake_connector"}
    /\ kind = "oem_autoinstall" => conf.iso \/ conf.after = "script"
    /\ kind = "oemrecovery" => conf.after = "script"
    /\ kind = "maas2" => conf.stage = "provision"

\* When a connector says that the DUT is provisioned, the system that answers is
\* the one the job asks for, and not an older one that was never replaced, or
\* the master image.  There are three ways by which it may still be the old one,
\* and nothing in the code prevents them: a multiplexed board boots from a medium
\* that the job does not name, and that is plugged in; a machine that was told to
\* reboot by the scripts for recovery images answers before it goes down; and a
\* control host still worked for an earlier connector when it was asked.
ProvisionedAsAsked ==
    [][exit = "running" /\ exit' = "ok" /\ AsksForSystem =>
          \/ up' = "new"
          \/ kind = "muxpi" /\ attached # {Medium}
          \/ kind \in OemKinds \cup ControlHostKinds /\ falling'
          \/ "earlier" \in mishaps']_vars

\* A stage that has ended well has done all of what was asked: a reservation has
\* tried each key to the end, whatever came of the others; after an update all
\* parts have their firmware, unless the job ignores failures or none of the
\* commands was successful; MAAS has its node back after the cleanup; and a
\* deployed node has the storage that the job asks for, unless it could not be
\* set, or was set for another deployment in between.
StagesDone ==
    exit = "ok" =>
        /\ kind = "reserve" => conf.keys \subseteq authorized \cup refused
        /\ kind = "firmware_update" /\ ~conf.ignore /\ flashed # {} => targeted \subseteq landed
        /\ kind = "maas2" /\ conf.stage = "cleanup" => node = "Ready"
        /\ kind = "maas2" /\ conf.stage = "provision" =>
              \/ layout = (IF conf.disks # <<>> THEN "job"
                           ELSE IF conf.default THEN "default" ELSE "flat")
              \/ "layout" \in mishaps \/ conf.tpm

\* What a stage takes away it gives back, however it ends by itself.  The serial
\* log is stopped.  The medium is plugged to the DUT when the board is provisioned,
\* and after an error, too, unless a command of the multiplexer has failed, an
\* earlier connector had not put it back and this one did not come to switching it,
\* or the job names a medium that there is not.  A DUT whose power was cut off
\* while its control host is restarted has power again, unless the script for that
\* has failed, which is logged and no more.
PutBack ==
    /\ exit \in {"ok", "error"} => "this" \notin serial
    /\ kind = "muxpi" /\ exit = "ok" => Medium \in attached
    /\ kind = "muxpi" /\ exit = "error" =>
          \/ Medium \in attached
          \/ {"switch", "unplugged"} \cap mishaps # {}
          \/ conf.media = "other"
    /\ kind = "control_host_iot" /\ exit \in {"ok", "error"} => power \/ "power" \in mishaps

\* Media are only written while nobody else uses them: that of a multiplexer
\* while it is plugged to the control host, whatever an earlier connector has left;
\* that of CM3 while the board offers it; and the user's partition is only
\* formatted if it is not mounted.  When the image is written none of its
\* partitions is mounted on the control host, also if a killed connector has left
\* them so -- unless umount fails for one that is still used: the code writes then,
\* too.
WrittenSafely ==
    [][/\ kind = "muxpi" /\ disk'[Medium] # disk[Medium] /\ exit = "running" =>
            /\ Medium \notin attached
            /\ at = "mux-write" => "unmount" \in mishaps \/ \A p \in mounted : p[1] # Medium
       /\ kind = "cm3" /\ disk' # disk /\ exit = "running" => up = "service"
       /\ home' = "formatted" => home # "mounted"]_vars

\* Where the log goes on when the stream was cut after an entry: behind the last
\* one that had an id, or at its beginning if there was none or the id was empty.
GoesOnBehind(entry, c) ==
    LET Uncounted(first) == \A e \in first..entry : e \in Malformed \cup Unnumbered IN
    \/ c = 0 /\ Uncounted(1)
    \/ \E n \in 1..entry : /\ n \notin Malformed \cup Unnumbered /\ Uncounted(n + 1)
                           /\ c = IF n \in Clearing THEN 0 ELSE n

\* The entries of a control host's log are logged in order, and none that can be
\* parsed is left out, however often the stream is cut.  None is logged again,
\* except those that follow the last one with an id.
LogInOrder ==
    \A i \in 1..Len(logged) :
        LET before == IF i = 1 THEN 0 ELSE logged[i - 1] IN
        \E from \in 0..logged[i] - 1 :
            /\ from = before \/ GoesOnBehind(before, from)
            /\ \A e \in from + 1..logged[i] - 1 : e \in Malformed

\* A stage comes to an end, whatever fails: nothing waits for ever and no error
\* leads back to where it came from.  Only the dragonboard connector may wait for
\* its file server, for ever, when it is through with an error.
StageEnds ==
    exit = "running" ~> \/ exit \notin {"running", "hangs"}
                        \/ kind = "dragonboard" /\ exit = "hangs"
=============================================================================
