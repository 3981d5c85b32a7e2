----------------------- MODULE DeviceConnectorsProofs ------------------------
(***************************************************************************)
(* Proofs about the device connectors, for every number of attempts, jobs, *)
(* keys, partitions, log entries, firmware parts and disks.  A connector   *)
(* is one process, so the invariant says for each of its points what the   *)
(* DUT, its media and the control host are there; what makes it more than  *)
(* an outline of the code is that these go on when the connector does not, *)
(* that a killed connector leaves them as they are to the next job, and    *)
(* that a control host works on two jobs at a time.                        *)
(***************************************************************************)
EXTENDS DeviceConnectors, FiniteSetTheorems, TLAPS

-----------------------------------------------------------------------------
(***************************************************************************)
(* The points of each connector and stage.                                 *)
(***************************************************************************)
HookPoints   == {"hook", "poweroff", "reboot", "fallback", "poweron", "poweron-and-raise", "setup"}
MuxEarly     == {"mux-begin", "mux-reboot-host", "mux-wait", "mux-source", "mux-plug"}
MuxWriting   == {"mux-list", "mux-mount", "mux-user", "mux-type", "mux-ce-oem", "mux-tegra",
                 "mux-desktop", "mux-core20", "mux-classic", "mux-unmount", "mux-unplug"}
MuxRaising   == {"mux-unmount-and-raise", "mux-unplug-and-raise"}
MuxPoints    == MuxEarly \cup MuxWriting \cup MuxRaising
                \cup {"mux-flash", "mux-write", "mux-reset", "mux-check"}
Cm3Points    == {"cm3-pin", "cm3-reset", "cm3-install", "cm3-look", "cm3-user", "cm3-release",
                 "cm3-boot", "cm3-check"}
DragonLate   == {"dragon-mount", "dragon-user", "dragon-sudo", "dragon-boot", "dragon-check"}
DragonPoints == DragonLate \cup {"dragon-look", "dragon-to-master", "dragon-recover", "dragon-wait",
                 "dragon-wait-any", "dragon-download", "dragon-compress", "dragon-flash"}
NetLate      == {"net-after-flash", "net-test-again", "net-reboot-again", "net-wait-again"}
NetPoints    == NetLate \cup {"net-compress", "net-test", "net-reboot", "net-wait", "net-master",
                 "net-reset", "net-wait-master", "net-serve", "net-flash"}
HostEarly    == {"iot", "provision", "host-validate", "host-post"} \cup HookPoints
HostLate     == {"host-after", "host-password", "host-key"}
HostPoints   == HostLate \cup {"iot", "host-validate", "host-post", "host-stream", "host-read",
                 "host-status"}
ScriptPoints == {"oem-reach", "oem-reboot", "oem-reset", "oem-check", "oem-run", "oem-check-again"}
AutoPoints   == {"oem-auto-reach", "oem-auto-reset", "oem-auto-check", "oem-files", "oem-detect",
                 "oem-mounted", "oem-find", "oem-mount", "oem-validate", "oem-format",
                 "oem-deploy", "oem-auto-check-again"}
NoPoints     == {"oem-reset-none", "oem-wait-none"}
RecoverLate  == {"oem-classic-again", "oem-initialized-again", "oem-copy-again"}
RecoverPoints == RecoverLate \cup {"oem-recovery-reach", "oem-recovery-reset", "oem-recover",
                 "oem-classic", "oem-initialized", "oem-copy"}
TestPoints   == {"test", "test-commands", "test-end", "test-raise"}
ReservePoints == {"reserve", "reserve-next", "reserve-import", "reserve-copy", "reserved"}
FirmwarePoints ==
    {"firmware_update", "firmware-detect", "firmware-bmc", "firmware-ilorest", "firmware-version",
     "firmware-devices", "firmware-upgrade", "firmware-connect", "firmware-check",
     "firmware-inventory", "firmware-repository", "firmware-pack", "firmware-index",
     "firmware-files", "firmware-flash", "firmware-post"}
MaasCleaning == {"maas-efi-again", "maas-release", "maas-ready", "maas-ready-after-fix",
                 "maas-ready-after-power-off", "maas-break", "maas-fix", "maas-power-off"}
MaasPlanning == MaasCleaning \cup {"maas-efi", "maas-storage", "maas-flat", "maas-clear"}
MaasSetting  == {"maas-clear", "maas-disks", "maas-partitions", "maas-format", "maas-mount"}
MaasLate     == {"maas-allocate", "maas-snapshot", "maas-version", "maas-deploy", "maas-deploying"}
MaasPoints   == MaasPlanning \cup MaasSetting \cup MaasLate
                \cup {"maas-tpm", "maas-tpm-again", "maas-failed"}

\* The points of a connector that has a hook
Of(points) == at \in points \cup HookPoints \cup {"provision", "over"}

-----------------------------------------------------------------------------
(***************************************************************************)
(* What all have in common.                                                *)
(***************************************************************************)
DiskOK == disk \in [Media -> Contents]
ConfOK == conf \in Conf(kind)

\* A connector that has ended is at no point, and does not log any more.
Ended ==
    /\ at = "over" <=> exit # "running"
    /\ exit \in {"ok", "error"} => "this" \notin serial

\* Only a control host works on, and only a node of MAAS is on its way.
AtRest ==
    /\ kind \notin ControlHostKinds => remote = {}
    /\ kind # "maas2" => node = "Ready"

\* What is on the medium, and what runs or is about to.
NewBoots == disk["main"] = "new" /\ (up \in {"new", "none"} \/ falling)

(***************************************************************************)
(* muxpi.  Where the storage is plugged, and what is on it.                *)
(***************************************************************************)
MuxExcused ==
    Medium \in attached \/ {"switch", "unplugged"} \cap mishaps # {} \/ conf.media = "other"

MuxInv ==
    /\ Of(MuxPoints)
    /\ at \in MuxEarly \cup HookPoints \cup {"provision"} =>
          Medium \in attached \/ "unplugged" \in mishaps
    /\ at \in MuxWriting \cup {"mux-flash", "mux-write"} => Medium \notin attached
    /\ at = "mux-write" => "unmount" \in mishaps \/ \A p \in mounted : p[1] # Medium
    /\ at \in MuxWriting \cup {"mux-reset", "mux-check"} => disk[Medium] # "old"
    /\ at \in {"mux-reset", "mux-check"} \/ exit = "ok" => Medium \in attached
    /\ at = "mux-check" => up \in {"none", "new"} \/ attached # {Medium}
    /\ exit = "error" => MuxExcused

(***************************************************************************)
(* cm3, dragonboard and netboot.  The master image or the installer runs   *)
(* as long as the storage is written.                                      *)
(***************************************************************************)
Cm3Inv ==
    /\ Of(Cm3Points) /\ falling = FALSE
    /\ at \in {"cm3-look", "cm3-user"} => up = "service"
    /\ at \in {"cm3-look", "cm3-user", "cm3-release", "cm3-boot", "cm3-check"} => disk["main"] # "old"
    /\ at \in {"cm3-boot", "cm3-check"} => attached = {"main"}
    /\ at = "cm3-check" => up \in {"none", "new"}

DragonInv ==
    /\ Of(DragonPoints) /\ attached \subseteq {"main", "service"}
    /\ at \in DragonLate => disk["main"] # "old" /\ up # "old"

NetInv ==
    /\ Of(NetPoints) /\ attached \subseteq {"main", "service"}
    /\ at \in NetLate => disk["main"] = "new" /\ up # "old"

(***************************************************************************)
(* The connectors that leave the provisioning to the control host.  What   *)
(* an earlier connector has left to it is a mishap, if it is still at work *)
(* when this one asks.                                                     *)
(***************************************************************************)
HostPlaces ==
    /\ Of(HostPoints \cup ScriptPoints \cup AutoPoints)
    /\ at = "iot" => kind = "control_host_iot"
    /\ at \in ScriptPoints => kind = "control_host_kvm" /\ conf.after = "script"
    /\ at \in AutoPoints => kind = "oem_autoinstall" /\ conf.after = "script"
    /\ at \in {"host-password", "host-key"} => kind \in {"control_host_kvm", "control_host_iot"}

HostInv ==
    /\ HostPlaces /\ attached = {"main"}
    /\ remote \subseteq {"this", "earlier"}
    /\ "earlier" \in remote =>
          "earlier" \in mishaps \/ (result = "none" /\ at \in HostEarly \cup {"over"})
    /\ "this" \in remote => result = "running"
    /\ at \in HostEarly => result = "none"
    /\ at \in {"host-stream", "host-read", "host-status"} => result \in {"running", "completed", "failed"}
    /\ at \in HostLate => result = "completed"
    /\ at \in ScriptPoints \cup AutoPoints => result \in {"none", "completed"}
    /\ result = "completed" /\ conf.after # "script" => (up = "new" /\ falling = FALSE) \/ "earlier" \in mishaps
    /\ at \in {"oem-check-again", "oem-auto-check-again"} => NewBoots \/ "earlier" \in mishaps

\* The hook gives the power back that it takes, unless it is killed or its script
\* fails.
IotInv ==
    power \/ /\ conf.hook = "manage"
             /\ \/ exit = "killed" \/ "power" \in mishaps
                \/ at \in {"iot", "hook", "poweroff", "reboot", "fallback", "poweron",
                                           "poweron-and-raise"}

HomeInv == at \in {"oem-mount", "oem-format"} => home # "mounted"

(***************************************************************************)
(* The connectors of recovery images.                                      *)
(***************************************************************************)
OemInv ==
    /\ Of(NoPoints \cup ScriptPoints \cup RecoverPoints) /\ attached = {"main"}
    /\ at \in NoPoints => kind = "noprovision"
    /\ at \in ScriptPoints => kind = "oemscript"
    /\ at \in RecoverPoints => kind = "oemrecovery"
    /\ at = "oem-check-again" => NewBoots
    /\ at \in RecoverLate /\ conf.after = "script" => NewBoots

(***************************************************************************)
(* The stages.                                                             *)
(***************************************************************************)
TestInv ==
    /\ at \in TestPoints \cup {"over"}
    /\ at = "test-end" => rc \in {"ok", "error"}

ReserveInv ==
    /\ at \in ReservePoints \cup {"over"}
    /\ at \in {"reserve-next", "reserve-import", "reserve-copy"} =>
          conf.keys \subseteq authorized \cup refused \cup todo
    /\ at = "reserved" \/ exit = "ok" => conf.keys \subseteq authorized \cup refused

FirmwareInv ==
    /\ at \in FirmwarePoints \cup {"over"}
    /\ exit = "ok" => conf.ignore \/ flashed = {} \/ targeted \subseteq landed

(***************************************************************************)
(* maas2.  The storage is planned once and set once, unless the node is    *)
(* deployed twice because of its TPM.                                      *)
(***************************************************************************)
AsAsked == layout = (IF conf.disks # <<>> THEN "job" ELSE IF conf.default THEN "default" ELSE "flat")

LayoutInv ==
    /\ at \in MaasPlanning => known = parts
    /\ at \in {"maas-disks", "maas-partitions"} => parts = {}
    /\ at \in {"maas-format", "maas-mount"} => Cardinality(parts) = 1
    /\ at = "maas-flat" => conf.disks = <<>> /\ ~conf.default
    /\ at \in MaasSetting => conf.disks # <<>> \/ conf.default
    /\ at \notin {"maas-tpm", "maas-tpm-again"}
    /\ target \in {"job", "ram"}
    /\ target = "ram" => at \in {"maas-deploy", "maas-deploying", "maas-failed", "over"}
    /\ at \in MaasLate \/ exit = "ok" => AsAsked \/ "layout" \in mishaps

\* What is started by MAAS is what it has installed.
Deploying ==
    /\ node \in {"Deploying", "Starting", "Deployed", "Failed-deployment"}
    /\ node \in {"Starting", "Deployed"} /\ target # "tpm" =>
          up = "new" \/ (up = "none" /\ disk["main"] = "new" /\ attached = {"main"})

MaasInv ==
    /\ Of(MaasPoints) /\ falling = FALSE
    /\ conf.stage = "cleanup" => Of(MaasCleaning)
    /\ conf.stage = "cleanup" /\ exit = "ok" => node = "Ready"
    /\ conf.stage = "provision" /\ ~conf.tpm => LayoutInv
    /\ at = "maas-deploying" => Deploying

-----------------------------------------------------------------------------
(***************************************************************************)
(* The log of a control host.                                              *)
(***************************************************************************)
LastLogged == IF logged = <<>> THEN 0 ELSE logged[Len(logged)]

\* The stream was read on from there, and nothing of it was logged since.
NoneBetween(from) == from <= reading /\ \A e \in from + 1..reading : e \in Malformed

LogInv ==
    /\ logged \in Seq(Nat) /\ {sent, reading, handled, cursor} \subseteq Nat
    /\ LogInOrder
    /\ at = "host-read" =>
          /\ GoesOnBehind(reading, handled)
          /\ \/ NoneBetween(LastLogged)
             \/ NoneBetween(cursor) /\ handled = cursor /\ GoesOnBehind(LastLogged, cursor)
    /\ at \notin {"host-read", "over"} => GoesOnBehind(LastLogged, cursor)

IInv ==
    /\ kind \in Kinds /\ ConfOK /\ DiskOK /\ Ended /\ AtRest /\ LogInv /\ HomeInv
    /\ kind = "muxpi" => MuxInv
    /\ kind = "cm3" => Cm3Inv
    /\ kind = "dragonboard" => DragonInv
    /\ kind = "netboot" => NetInv
    /\ kind \in ControlHostKinds => HostInv
    /\ kind = "control_host_iot" => IotInv
    /\ kind \in OemKinds => OemInv
    /\ kind = "test" => TestInv
    /\ kind = "reserve" => ReserveInv
    /\ kind = "firmware_update" => FirmwareInv
    /\ kind = "maas2" => MaasInv

-----------------------------------------------------------------------------
(***************************************************************************)
(* Every step of a connector is at a point of its own, and goes on to      *)
(* another one or ends the process.                                        *)
(***************************************************************************)
Goes(points) ==
    /\ exit = "running" /\ UNCHANGED asked
    /\ \/ exit' = "running" /\ at' \in points
       \/ at' = "over" /\ exit' # "running" /\ "this" \notin serial'

LEMMA MediumIs == Medium \in Media
  BY DEF Medium, Media

LEMMA MuxGoes ==
    ASSUME MuxStep, DiskOK
    PROVE  (at \in MuxPoints \/ Begin("muxpi")) /\ Goes(MuxPoints) /\ DiskOK'
  <1> USE DEF Goes, At, Goto, Again, Raise, Return, RaiseRecover, End, StopSerial, dut, process,
              MuxPoints, MuxEarly, MuxWriting, MuxRaising, DiskOK
  <1>1. CASE MuxProvision \/ MuxBegin \/ MuxWaitHost \/ MuxSource
    BY <1>1 DEF MuxProvision, MuxBegin, MuxWaitHost, MuxSource, Begin, StartSerial
  <1>2. CASE MuxRebootHost \/ MuxReset
    BY <1>2 DEF MuxRebootHost, MuxReset, HardReset
  <1>3. CASE MuxPlug \/ MuxPlugBoth
    BY <1>3 DEF MuxPlug, MuxPlugBoth
  <1>4. CASE MuxUnmountFirst \/ MuxList \/ MuxMount
    BY <1>4 DEF MuxUnmountFirst, MuxList, MuxMount
  <1>5. CASE MuxWrite
    BY <1>5, MediumIs DEF MuxWrite, Write, Contents
  <1>6. CASE MuxStamp \/ MuxType
    BY <1>6 DEF MuxStamp, MuxType
  <1>7. CASE MuxCeOem \/ MuxTegra \/ MuxDesktop \/ MuxClassic
    BY <1>7, MediumIs DEF MuxCeOem, MuxTegra, MuxDesktop, MuxClassic, UserStep, Write, Contents
  <1>8. CASE MuxUnmount \/ MuxUnplug \/ MuxCheck
    BY <1>8 DEF MuxUnmount, MuxUnplug, MuxCheck
  <1> QED
    BY <1>1, <1>2, <1>3, <1>4, <1>5, <1>6, <1>7, <1>8 DEF MuxStep

LEMMA HookGoes ==
    ASSUME HookStep, DiskOK
    PROVE  at \in HookPoints /\ Goes(HookPoints \cup {"provision"}) /\ DiskOK'
  <1> USE DEF Goes, At, Goto, Raise, End, StopSerial, dut, process, HookPoints, DiskOK
  <1>1. CASE Hook \/ Setup
    BY <1>1 DEF Hook, Setup
  <1>2. CASE PowerOffHost \/ RebootHost \/ SshFallback \/ PowerOnDut
    BY <1>2 DEF PowerOffHost, RebootHost, SshFallback, PowerOnDut
  <1> QED
    BY <1>1, <1>2 DEF HookStep

LEMMA Cm3Goes ==
    ASSUME Cm3Step, DiskOK
    PROVE  (at \in Cm3Points \/ Begin("cm3")) /\ Goes(Cm3Points) /\ DiskOK'
  <1> USE DEF Goes, At, Goto, Raise, Return, RaiseRecover, End, StopSerial, dut, process,
              Cm3Points, DiskOK
  <1>1. CASE Cm3Begin \/ Cm3Pin \/ Cm3Look \/ Cm3Release \/ Cm3Check
    BY <1>1 DEF Cm3Begin, Cm3Pin, Cm3Look, Cm3Release, Cm3Check, Begin, StartSerial
  <1>2. CASE Cm3Reset \/ Cm3Boot
    BY <1>2 DEF Cm3Reset, Cm3Boot, HardReset
  <1>3. CASE Cm3Install \/ Cm3User
    BY <1>3 DEF Cm3Install, Cm3User, Write, Contents, Media
  <1> QED
    BY <1>1, <1>2, <1>3 DEF Cm3Step

LEMMA DragonGoes ==
    ASSUME DragonStep, DiskOK
    PROVE  (at \in DragonPoints \/ Begin("dragonboard")) /\ Goes(DragonPoints) /\ DiskOK'
  <1> USE DEF Goes, At, Goto, Raise, Return, RaiseRecover, End, StopSerial, dut, process,
              DragonPoints, DragonLate, DiskOK
  <1>1. CASE DragonBegin \/ DragonLook \/ DragonBoot \/ DragonCheck
    BY <1>1 DEF DragonBegin, DragonLook, DragonBoot, DragonCheck, Begin, StartSerial, Select
  <1>2. CASE DragonReset \/ DragonWait
    BY <1>2 DEF DragonReset, DragonWait, HardReset
  <1>3. CASE DragonDownload \/ DragonCompress
    BY <1>3 DEF DragonDownload, DragonCompress, CompressFile
  <1>4. CASE DragonFlash
    BY <1>4 DEF DragonFlash, EndWithServer, Write, Contents, Media
  <1>5. CASE DragonMount \/ DragonUser \/ DragonSudo
    BY <1>5 DEF DragonMount, DragonUser, DragonSudo, OnMaster, Contents, Media
  <1> QED
    BY <1>1, <1>2, <1>3, <1>4, <1>5 DEF DragonStep

LEMMA NetGoes ==
    ASSUME NetStep, DiskOK
    PROVE  (at \in NetPoints \/ Begin("netboot")) /\ Goes(NetPoints) /\ DiskOK'
  <1> USE DEF Goes, At, Goto, Raise, Return, RaiseRecover, End, StopSerial, dut, process,
              NetPoints, NetLate, DiskOK, Failed, Then
  <1>1. CASE NetBegin \/ NetCompress \/ NetServe
    BY <1>1 DEF NetBegin, NetCompress, NetServe, Begin, StartSerial, CompressFile
  <1>2. CASE NetTest \/ NetWait
    BY <1>2 DEF NetTest, NetWait, TestBooted, Select, SetBoot
  <1>3. CASE NetReboot
    BY <1>3 DEF NetReboot, HardReset
  <1>4. CASE NetMaster \/ NetReset \/ NetWaitMaster
    BY <1>4 DEF NetMaster, NetReset, NetWaitMaster, Select, HardReset
  <1>5. CASE NetFlash \/ NetAfterFlash
    BY <1>5 DEF NetFlash, NetAfterFlash, RunCmd, Write, Contents, Media
  <1> QED
    BY <1>1, <1>2, <1>3, <1>4, <1>5 DEF NetStep

LEMMA HostGoes ==
    ASSUME HostStep, DiskOK, at \in HostPoints => kind \in ControlHostKinds /\ HostInv
    PROVE  /\ at \in HostPoints \/ (\E k \in ControlHostKinds : Begin(k))
           /\ Goes(HostPoints \cup {"hook", "oem-reach", "oem-auto-reach"}) /\ DiskOK'
  <1> USE DEF Goes, At, Goto, Raise, Return, End, StopSerial, dut, process, Api,
              HostPoints, HostLate, DiskOK
  <1>1. CASE IotBegin \/ HostBegin
    BY <1>1 DEF IotBegin, HostBegin, Begin, StartSerial
  <1>2. CASE KvmValidate \/ IotValidate \/ OemValidate
    BY <1>2 DEF KvmValidate, IotValidate, OemValidate, Validated
  <1>3. CASE HostPost \/ HostStream \/ HostRead \/ HostStreamEnds
    BY <1>3 DEF HostPost, HostStream, HostRead, HostStreamEnds
  <1>4. CASE HostStatus
    BY <1>4 DEF HostStatus, HostInv
  <1>5. CASE HostAfter
    BY <1>5 DEF HostAfter, ControlHostKinds
  <1>6. CASE KvmPassword \/ HostKey
    BY <1>6 DEF KvmPassword, HostKey
  <1> QED
    BY <1>1, <1>2, <1>3, <1>4, <1>5, <1>6 DEF HostStep

LEMMA OemGoes ==
    ASSUME OemStep, DiskOK
    PROVE  \/ at \in NoPoints /\ Goes(NoPoints) /\ DiskOK'
           \/ at \in ScriptPoints /\ Goes(ScriptPoints) /\ DiskOK'
           \/ at \in RecoverPoints /\ Goes(RecoverPoints) /\ DiskOK'
           \/ at \in AutoPoints /\ Goes(AutoPoints) /\ DiskOK'
           \/ FakeProvision \/ NoProvision \/ ScriptBegin \/ RecoveryBegin \/ AutoBegin
  <1> USE DEF Goes, At, Goto, Raise, Return, RaiseRecover, End, StopSerial, dut, process,
              DiskOK, OemAsk
  <1>1. CASE NoReset \/ NoWait
    BY <1>1 DEF NoReset, NoWait, HardReset, NoPoints
  <1>2. CASE ScriptReach \/ ScriptReboot \/ ScriptReset \/ ScriptCheck \/ OemCheck
    BY <1>2 DEF ScriptReach, ScriptReboot, ScriptReset, ScriptCheck, OemCheck, ScriptPoints,
                CopySshId, RunOnControlHost, HardReset
  <1>3. CASE RunRecoveryScript
    BY <1>3 DEF RunRecoveryScript, Reinstalled, LeftOver, ScriptPoints, Write, Contents, Media
  <1>4. CASE RecoveryReach \/ RecoveryReset
    BY <1>4 DEF RecoveryReach, RecoveryReset, RecoverPoints, RecoverLate, ClassicAt, CopySshId, HardReset
  <1>5. CASE RecoveryCommands
    BY <1>5 DEF RecoveryCommands, RunOnControlHost, LeftOver, RecoverPoints, RecoverLate, ClassicAt,
                Write, Contents, Media
  <1>6. ASSUME NEW i \in 1..2,
               CheckGenericClassic(i) \/ CheckDeviceInitialized(i) \/ RecoveryCopy(i)
        PROVE  at \in RecoverPoints /\ Goes(RecoverPoints) /\ DiskOK'
    <2>1. i = 1 \/ i = 2
      BY <1>6
    <2> QED
      BY <1>6, <2>1 DEF CheckGenericClassic, CheckDeviceInitialized, RecoveryCopy, NextRound, Step,
                ClassicAt, InitializedAt, CopyAt, RecoverPoints, RecoverLate
  <1>7. CASE AutoReach \/ AutoReset \/ AutoCheck \/ AutoFiles \/ AutoCheckAgain
    BY <1>7 DEF AutoReach, AutoReset, AutoCheck, AutoFiles, AutoCheckAgain, AutoPoints, CopySshId,
                HardReset
  <1>8. CASE AutoDetect \/ AutoMounted \/ AutoFind \/ AutoMount \/ AutoValidate \/ AutoFormat
    BY <1>8 DEF AutoDetect, AutoMounted, AutoFind, AutoMount, AutoValidate, AutoFormat, StorageStep,
                PassedOver, AutoPoints
  <1>9. CASE RunDeployScript
    BY <1>9 DEF RunDeployScript, Reinstalled, LeftOver, AutoPoints, Write, Contents, Media
  <1> QED
    BY <1>1, <1>2, <1>3, <1>4, <1>5, <1>6, <1>7, <1>8, <1>9
    DEF OemStep, ScriptStep, RecoveryStep, AutoStep

LEMMA StageGoes ==
    ASSUME StageStep, DiskOK, at \in TestPoints => kind = "test" /\ ConfOK /\ TestInv
    PROVE  /\ \/ at \in TestPoints /\ Goes(TestPoints)
              \/ at \in ReservePoints /\ Goes(ReservePoints)
           /\ DiskOK'
  <1> USE DEF Goes, At, Goto, Again, Raise, Return, End, StopSerial, dut, process, DiskOK,
              TestPoints, ReservePoints
  <1>1. CASE TestBegin \/ TestCommands
    BY <1>1 DEF TestBegin, TestCommands, StartSerial, ConfOK, Conf, TestConf, ControlHostKinds, OemKinds
  <1>2. CASE TestEnd
    BY <1>2 DEF TestEnd, TestInv
  <1>3. CASE ReserveBegin \/ ReserveNext \/ ReserveEnd
    BY <1>3 DEF ReserveBegin, ReserveNext, ReserveEnd
  <1>4. CASE ReserveImport \/ ReserveCopy
    BY <1>4 DEF ReserveImport, ReserveCopy, GiveUp
  <1> QED
    BY <1>1, <1>2, <1>3, <1>4 DEF StageStep

LEMMA FirmwareGoes ==
    ASSUME FirmwareStep, DiskOK
    PROVE  at \in FirmwarePoints /\ Goes(FirmwarePoints) /\ DiskOK'
  <1> USE DEF Goes, At, Goto, Again, Step, Raise, Return, End, StopSerial, dut, process, DiskOK,
              FirmwarePoints, FirmwareEnd, UpdateError
  <1>1. CASE FirmwareBegin \/ Detect \/ CheckVersion
    BY <1>1 DEF FirmwareBegin, Detect, CheckVersion
  <1>2. CASE LvfsInfo \/ Upgrade \/ LvfsReboot
    BY <1>2 DEF LvfsInfo, Upgrade, LvfsReboot
  <1>3. CASE LvfsConnect \/ LvfsCheck
    BY <1>3 DEF LvfsConnect, LvfsCheck, OnDut
  <1>4. CASE AskBmc \/ Ilorest \/ Inventory \/ Pack
    BY <1>4 DEF AskBmc, Ilorest, Inventory, Pack, OnIlo
  <1>5. CASE Repository \/ Index \/ Files
    BY <1>5 DEF Repository, Index, Files, FetchPackage, Fetch, Attempt
  <1>6. CASE TaskQueue \/ Flash \/ HpeReboot \/ PostState
    BY <1>6 DEF TaskQueue, Flash, HpeReboot, PostState, OnIlo
  <1>7. CASE HpeConnect \/ HpeCheck
    BY <1>7 DEF HpeConnect, HpeCheck, OnDut, OnIlo
  <1> QED
    BY <1>1, <1>2, <1>3, <1>4, <1>5, <1>6, <1>7 DEF FirmwareStep, LvfsStep, HpeStep

LEMMA MaasGoes ==
    ASSUME MaasStep, DiskOK
    PROVE  (at \in MaasPoints \/ Begin("maas2")) /\ Goes(MaasPoints) /\ DiskOK'
  <1> USE DEF Goes, At, Goto, Again, Raise, Return, RaiseRecover, End, StopSerial, dut, process,
              DiskOK, MaasPoints, MaasPlanning, MaasCleaning, MaasSetting, MaasLate, Command, Recover
  <1>1. CASE MaasBegin
    BY <1>1 DEF MaasBegin, Begin, StartSerial
  <1>2. CASE MaasEfi \/ MaasTpm
    BY <1>2 DEF MaasEfi, MaasTpm
  <1>3. CASE MaasRelease \/ MaasBreak \/ MaasFix
    BY <1>3 DEF MaasRelease, MaasBreak, MaasFix
  <1>4. CASE MaasPoll
    BY <1>4 DEF MaasPoll, Released, Attempt
  <1>5. CASE MaasPowerOff
    BY <1>5 DEF MaasPowerOff, SwitchOff
  <1>6. CASE MaasStorage \/ MaasFlat \/ MaasClear
    BY <1>6 DEF MaasStorage, MaasFlat, MaasClear
  <1>7. CASE MaasDisks \/ MaasPartitions \/ MaasFormat \/ MaasMount
    BY <1>7 DEF MaasDisks, MaasPartitions, MaasFormat, MaasMount, Process
  <1>8. CASE MaasAllocate \/ MaasSnapshot \/ MaasVersion
    BY <1>8 DEF MaasAllocate, MaasSnapshot, MaasVersion
  <1>9. CASE MaasDeploy
    BY <1>9 DEF MaasDeploy
  <1>10. CASE MaasDeploying \/ MaasFailed
    BY <1>10 DEF MaasDeploying, MaasFailed
  <1> QED
    BY <1>1, <1>2, <1>3, <1>4, <1>5, <1>6, <1>7, <1>8, <1>9, <1>10 DEF MaasStep

-----------------------------------------------------------------------------
(***************************************************************************)
(* The point tells the connector, and so which steps it can take.          *)
(***************************************************************************)
LEMMA Whose ==
    ASSUME IInv
    PROVE  /\ at \in MuxPoints => kind = "muxpi"
           /\ at \in Cm3Points => kind = "cm3"
           /\ at \in DragonPoints => kind = "dragonboard"
           /\ at \in NetPoints => kind = "netboot"
           /\ at \in HostPoints \cup AutoPoints => kind \in ControlHostKinds
           /\ at \in ScriptPoints => kind \in {"control_host_kvm", "oemscript"}
           /\ at \in RecoverPoints => kind = "oemrecovery"
           /\ at \in NoPoints => kind = "noprovision"
           /\ at \in TestPoints => kind = "test"
           /\ at \in ReservePoints => kind = "reserve"
           /\ at \in FirmwarePoints => kind = "firmware_update"
           /\ at \in MaasPoints => kind = "maas2"
  <1> USE DEF Of, HookPoints, MuxPoints, MuxEarly, MuxWriting, MuxRaising, Cm3Points, DragonLate,
              DragonPoints, NetLate, NetPoints, HostLate, HostPoints, ScriptPoints, AutoPoints,
              NoPoints, RecoverLate, RecoverPoints, TestPoints, ReservePoints, FirmwarePoints,
              MaasCleaning, MaasPlanning, MaasSetting, MaasLate, MaasPoints
  <1>1. kind \in Kinds
    BY DEF IInv
  <1>2. CASE kind = "muxpi"
    BY <1>2 DEF IInv, MuxInv
  <1>3. CASE kind = "cm3"
    BY <1>3 DEF IInv, Cm3Inv
  <1>4. CASE kind = "dragonboard"
    BY <1>4 DEF IInv, DragonInv
  <1>5. CASE kind = "netboot"
    BY <1>5 DEF IInv, NetInv
  <1>6. CASE kind \in ControlHostKinds
    BY <1>6 DEF IInv, HostInv, HostPlaces, ControlHostKinds
  <1>7. CASE kind \in OemKinds
    BY <1>7 DEF IInv, OemInv, OemKinds
  <1>8. CASE kind = "test"
    BY <1>8 DEF IInv, TestInv
  <1>9. CASE kind = "reserve"
    BY <1>9 DEF IInv, ReserveInv
  <1>10. CASE kind = "firmware_update"
    BY <1>10 DEF IInv, FirmwareInv
  <1>11. CASE kind = "maas2"
    BY <1>11 DEF IInv, MaasInv
  <1> QED
    BY <1>1, <1>2, <1>3, <1>4, <1>5, <1>6, <1>7, <1>8, <1>9, <1>10, <1>11 DEF Kinds, DefaultStages

\* A step, and where it leads to
To(points) == at' \in points \cup {"over"}

OwnStep ==
    \/ /\ at \in HookPoints /\ HookStep /\ To(HookPoints \cup {"provision"})
       /\ UNCHANGED <<muxpi, remotes, home, stages, firmware, maas>>
    \/ /\ kind = "muxpi" /\ MuxStep /\ To(MuxPoints)
       /\ UNCHANGED <<remotes, home, stages, firmware, maas>>
    \/ /\ kind = "cm3" /\ Cm3Step /\ To(Cm3Points)
       /\ UNCHANGED <<remotes, home, stages, firmware, maas>>
    \/ /\ kind = "dragonboard" /\ DragonStep /\ To(DragonPoints)
       /\ UNCHANGED <<muxpi, remotes, home, stages, firmware, maas>>
    \/ /\ kind = "netboot" /\ NetStep /\ To(NetPoints)
       /\ UNCHANGED <<muxpi, remotes, home, stages, firmware, maas>>
    \/ /\ kind \in ControlHostKinds /\ HostStep
       /\ To(HostPoints \cup {"hook", "oem-reach", "oem-auto-reach"})
       /\ UNCHANGED <<muxpi, home, stages, firmware, maas>>
    \/ /\ kind \in ControlHostKinds \cup OemKinds /\ OemStep
       /\ To(NoPoints \cup ScriptPoints \cup RecoverPoints \cup AutoPoints)
       /\ UNCHANGED <<muxpi, remotes, stages, firmware, maas>>
    \/ /\ kind \in {"test", "reserve"} /\ StageStep /\ To(TestPoints \cup ReservePoints)
       /\ UNCHANGED <<muxpi, remotes, home, firmware, maas>>
    \/ /\ kind = "firmware_update" /\ FirmwareStep /\ To(FirmwarePoints)
       /\ UNCHANGED <<muxpi, remotes, home, stages, maas>>
    \/ /\ kind = "maas2" /\ MaasStep /\ To(MaasPoints)
       /\ UNCHANGED <<muxpi, remotes, home, stages, firmware>>

LEMMA StepOf ==
    ASSUME IInv, ConnectorStep
    PROVE  /\ OwnStep
           /\ exit = "running" /\ UNCHANGED asked /\ DiskOK'
           /\ at' = "over" <=> exit' # "running"
           /\ exit' # "running" => "this" \notin serial'
  <1>1. DiskOK
    BY DEF IInv
  <1>2. at \in HostPoints => kind \in ControlHostKinds /\ HostInv
    BY Whose DEF IInv
  <1>3. at \in TestPoints => kind = "test" /\ ConfOK /\ TestInv
    BY Whose DEF IInv
  <1>4. /\ \A points \in {HookPoints \cup {"provision"}, MuxPoints, Cm3Points, DragonPoints, NetPoints,
                          HostPoints \cup {"hook", "oem-reach", "oem-auto-reach"}, NoPoints,
                          ScriptPoints, RecoverPoints, AutoPoints, TestPoints, ReservePoints,
                          FirmwarePoints, MaasPoints} :
              "over" \notin points
    BY DEF HookPoints, MuxPoints, MuxEarly, MuxWriting, MuxRaising, Cm3Points, DragonLate,
              DragonPoints, NetLate, NetPoints, HostLate, HostPoints, ScriptPoints, AutoPoints,
              NoPoints, RecoverLate, RecoverPoints, TestPoints, ReservePoints, FirmwarePoints,
              MaasCleaning, MaasPlanning, MaasSetting, MaasLate, MaasPoints
  <1>5. CASE HookStep /\ UNCHANGED <<muxpi, remotes, home, stages, firmware, maas>>
    BY <1>1, <1>4, <1>5, HookGoes DEF Goes, OwnStep, To
  <1>6. CASE MuxStep /\ UNCHANGED <<remotes, home, stages, firmware, maas>>
    BY <1>1, <1>4, <1>6, MuxGoes, Whose DEF Goes, OwnStep, To, Begin
  <1>7. CASE Cm3Step /\ UNCHANGED <<remotes, home, stages, firmware, maas>>
    BY <1>1, <1>4, <1>7, Cm3Goes, Whose DEF Goes, OwnStep, To, Begin
  <1>8. CASE DragonStep /\ UNCHANGED <<muxpi, remotes, home, stages, firmware, maas>>
    BY <1>1, <1>4, <1>8, DragonGoes, Whose DEF Goes, OwnStep, To, Begin
  <1>9. CASE NetStep /\ UNCHANGED <<muxpi, remotes, home, stages, firmware, maas>>
    BY <1>1, <1>4, <1>9, NetGoes, Whose DEF Goes, OwnStep, To, Begin
  <1>10. CASE HostStep /\ UNCHANGED <<muxpi, home, stages, firmware, maas>>
    BY <1>1, <1>2, <1>4, <1>10, HostGoes, Whose DEF Goes, OwnStep, To, Begin
  <1>11. CASE OemStep /\ UNCHANGED <<muxpi, remotes, stages, firmware, maas>>
    <2>1. CASE at \in NoPoints \cup ScriptPoints \cup RecoverPoints \cup AutoPoints
      BY <1>1, <1>4, <1>11, <2>1, OemGoes, Whose
      DEF Goes, OwnStep, To, OemKinds, ControlHostKinds, FakeProvision, NoProvision, ScriptBegin,
          RecoveryBegin, AutoBegin, Begin, At, Goto, Return, End, StopSerial, OemAsk, dut, DiskOK,
          NoPoints, ScriptPoints, RecoverPoints, RecoverLate, AutoPoints
    <2>2. CASE FakeProvision \/ NoProvision \/ ScriptBegin \/ RecoveryBegin \/ AutoBegin
      BY <1>1, <1>11, <2>2
      DEF OwnStep, To, OemKinds, ControlHostKinds, FakeProvision, NoProvision, ScriptBegin,
          RecoveryBegin, AutoBegin, Begin, At, Goto, Return, End, StopSerial, OemAsk, dut, DiskOK,
          NoPoints, ScriptPoints, RecoverPoints, AutoPoints
    <2> QED
      BY <1>1, <1>11, <2>1, <2>2, OemGoes
  <1>12. CASE StageStep /\ UNCHANGED <<muxpi, remotes, home, firmware, maas>>
    BY <1>1, <1>3, <1>4, <1>12, StageGoes, Whose DEF Goes, OwnStep, To
  <1>13. CASE FirmwareStep /\ UNCHANGED <<muxpi, remotes, home, stages, maas>>
    BY <1>1, <1>4, <1>13, FirmwareGoes, Whose DEF Goes, OwnStep, To
  <1>14. CASE MaasStep /\ UNCHANGED <<muxpi, remotes, home, stages, firmware>>
    BY <1>1, <1>4, <1>14, MaasGoes, Whose DEF Goes, OwnStep, To, Begin
  <1> QED
    BY <1>5, <1>6, <1>7, <1>8, <1>9, <1>10, <1>11, <1>12, <1>13, <1>14 DEF ConnectorStep

LEMMA OtherOf ==
    ASSUME IInv, OtherStep
    PROVE  \/ GoesDown /\ UNCHANGED <<muxpi, remotes, home, stages, firmware, maas>>
           \/ ComesUp /\ UNCHANGED <<muxpi, remotes, home, stages, firmware, maas>>
           \/ Kill /\ UNCHANGED <<muxpi, remotes, home, stages, firmware, maas>>
           \/ /\ kind \in ControlHostKinds /\ "this" \in remote /\ WriteLog
              /\ UNCHANGED <<muxpi, home, stages, firmware, maas>>
           \/ /\ kind \in ControlHostKinds /\ FinishRemote
              /\ UNCHANGED <<muxpi, home, stages, firmware, maas>>
           \/ FirmwareLands /\ UNCHANGED <<muxpi, remotes, home, stages, maas>>
           \/ /\ kind = "maas2" /\ MaasWorks
              /\ UNCHANGED <<muxpi, remotes, home, stages, firmware>>
  <1>1. AtRest
    BY DEF IInv
  <1>2. MaasWorks => node # "Ready"
    BY DEF MaasWorks, MaasReleases, MaasInstalls, MaasDeploys
  <1>3. WriteLog => "this" \in remote
    BY DEF WriteLog
  <1>4. FinishRemote => remote # {}
    BY DEF FinishRemote
  <1> QED
    BY <1>1, <1>2, <1>3, <1>4 DEF OtherStep, AtRest

\* What else is not a step of the connector leaves the process and its job as
\* they are, unless it kills it.
LEMMA OthersLeave ==
    ASSUME IInv, OtherStep
    PROVE  UNCHANGED <<asked, at, exit, serial>> \/ Kill
  BY OtherOf DEF GoesDown, ComesUp, WriteLog, FinishRemote, FirmwareLands, MaasWorks,
     MaasReleases, MaasInstalls, MaasDeploys, shared, process

-----------------------------------------------------------------------------
(***************************************************************************)
(* The parts that are of all connectors.                                   *)
(***************************************************************************)
LEMMA KindKept ==
    ASSUME IInv, Next
    PROVE  kind' = kind /\ kind' \in Kinds /\ ConfOK'
  <1>1. kind \in Kinds /\ ConfOK
    BY DEF IInv
  <1>2. CASE ConnectorStep
    BY <1>1, <1>2, StepOf DEF asked, ConfOK
  <1>3. CASE NextJob
    BY <1>1, <1>3 DEF NextJob, ConfOK
  <1>4. CASE OtherStep
    BY <1>1, <1>4, OthersLeave DEF Kill, asked, ConfOK
  <1> QED
    BY <1>2, <1>3, <1>4 DEF Next

LEMMA EntryPoint ==
    ASSUME IInv, NextJob
    PROVE  /\ at' = Entry(kind, conf') /\ at' \notin {"over", "host-read", "oem-mount", "oem-format"}
           /\ exit' = "running" /\ kind' = kind
           /\ kind \notin {"test", "reserve", "firmware_update", "control_host_iot", "maas2"} => at' = "hook"
           /\ kind \in {"test", "reserve", "firmware_update"} => at' = kind
           /\ kind = "control_host_iot" => at' = "iot"
           /\ kind = "maas2" => at' \in {"hook", "provision"}
           /\ kind = "maas2" /\ conf'.stage = "cleanup" => at' = "provision"
  BY DEF IInv, NextJob, Entry, DefaultStages

LEMMA DiskKept ==
    ASSUME IInv, Next
    PROVE  DiskOK'
  <1>1. DiskOK
    BY DEF IInv
  <1>2. CASE ConnectorStep
    BY <1>2, StepOf
  <1>3. CASE NextJob
    BY <1>1, <1>3 DEF NextJob, DiskOK, Aged, Contents
  <1>4. CASE OtherStep
    <2>1. CASE FinishRemote
      BY <1>1, <2>1 DEF FinishRemote, Provisioned, Write, DiskOK, Contents, Media
    <2>2. CASE MaasWorks
      BY <1>1, <2>2 DEF MaasWorks, MaasReleases, MaasInstalls, MaasDeploys, SwitchOff, Write, DiskOK,
                        Contents, Media, dut, shared
    <2>3. CASE UNCHANGED disk
      BY <1>1, <2>3 DEF DiskOK
    <2> QED
      BY <1>4, <2>1, <2>2, <2>3 DEF OtherStep, GoesDown, ComesUp, Kill, WriteLog, FirmwareLands, shared, dut
  <1> QED
    BY <1>2, <1>3, <1>4 DEF Next

LEMMA EndedKept ==
    ASSUME IInv, Next
    PROVE  Ended'
  <1>1. Ended
    BY DEF IInv
  <1>2. CASE ConnectorStep
    BY <1>2, StepOf DEF Ended
  <1>3. CASE NextJob
    BY <1>3, EntryPoint DEF Ended
  <1>4. CASE OtherStep
    BY <1>1, <1>4, OthersLeave DEF Kill, Ended
  <1> QED
    BY <1>2, <1>3, <1>4 DEF Next

\* Only a connector that submits a job to the control host adds to what that works
\* on, and only a restart takes something away.
LEMMA RemoteKept ==
    ASSUME HookStep \/ MuxStep \/ Cm3Step \/ DragonStep \/ NetStep \/ OemStep \/ StageStep
           \/ FirmwareStep \/ MaasStep
    PROVE  remote' \in {remote, {}}
  <1> USE DEF host, RestartHost
  <1>1. CASE HookStep
    BY <1>1 DEF HookStep, Hook, PowerOffHost, RebootHost, SshFallback, PowerOnDut, Setup
  <1>2. CASE MuxStep
    BY <1>2 DEF MuxStep, MuxProvision, MuxBegin, MuxRebootHost, MuxWaitHost, MuxSource, MuxPlug,
       MuxPlugBoth, MuxUnmountFirst, MuxWrite, MuxList, MuxMount, MuxStamp, MuxType, MuxCeOem,
       MuxTegra, MuxDesktop, MuxClassic, UserStep, MuxUnmount, MuxUnplug, MuxReset, MuxCheck
  <1>3. CASE Cm3Step
    BY <1>3 DEF Cm3Step, Cm3Begin, Cm3Pin, Cm3Reset, Cm3Install, Cm3Look, Cm3User, Cm3Release,
       Cm3Boot, Cm3Check
  <1>4. CASE DragonStep
    BY <1>4 DEF DragonStep, DragonBegin, DragonLook, DragonReset, DragonWait, DragonDownload,
       DragonCompress, DragonFlash, DragonMount, DragonUser, DragonSudo, OnMaster, DragonBoot,
       DragonCheck
  <1>5. CASE NetStep
    BY <1>5 DEF NetStep, NetBegin, NetCompress, NetTest, NetReboot, NetWait, NetMaster, NetReset,
       NetWaitMaster, NetServe, NetFlash, NetAfterFlash
  <1>6. CASE OemStep
    BY <1>6 DEF OemStep, ScriptStep, RecoveryStep, AutoStep, OemAsk, FakeProvision, NoProvision,
       NoReset, NoWait, ScriptBegin, ScriptReach, ScriptReboot, ScriptReset, ScriptCheck,
       RunRecoveryScript, OemCheck, RecoveryBegin, RecoveryReach, RecoveryReset, RecoveryCommands,
       CheckGenericClassic, CheckDeviceInitialized, RecoveryCopy, AutoBegin, AutoReach, AutoReset,
       AutoCheck, AutoFiles, AutoDetect, AutoMounted, AutoFind, AutoMount, AutoValidate, StorageStep,
       AutoFormat, RunDeployScript, AutoCheckAgain
  <1>7. CASE StageStep
    BY <1>7 DEF StageStep, TestBegin, TestCommands, TestEnd, ReserveBegin, ReserveNext,
       ReserveImport, ReserveCopy, ReserveEnd
  <1>8. CASE FirmwareStep
    BY <1>8 DEF FirmwareStep, LvfsStep, HpeStep, FirmwareBegin, Detect, AskBmc, Ilorest,
       CheckVersion, LvfsInfo, Upgrade, LvfsReboot, LvfsConnect, LvfsCheck, Inventory, Repository,
       Pack, Index, Files, TaskQueue, Flash, HpeReboot, PostState, HpeConnect, HpeCheck
  <1>9. CASE MaasStep
    BY <1>9 DEF MaasStep, MaasBegin, MaasEfi, MaasTpm, MaasRelease, MaasPoll, MaasBreak, MaasFix,
       MaasPowerOff, MaasStorage, MaasFlat, MaasClear, MaasDisks, MaasPartitions, MaasFormat,
       MaasMount, Process, MaasAllocate, MaasSnapshot, MaasVersion, MaasDeploy, MaasDeploying,
       MaasFailed
  <1> QED
    BY <1>1, <1>2, <1>3, <1>4, <1>5, <1>6, <1>7, <1>8, <1>9

LEMMA AtRestKept ==
    ASSUME IInv, Next
    PROVE  AtRest'
  <1>1. AtRest
    BY DEF IInv
  <1>2. kind' = kind
    BY KindKept
  <1>3. CASE ConnectorStep
    <2>1. kind \notin ControlHostKinds => remote' = {}
      BY <1>1, <1>3, StepOf, RemoteKept DEF AtRest, OwnStep
    <2>2. kind # "maas2" => UNCHANGED node
      BY <1>3, StepOf DEF OwnStep, maas
    <2> QED
      BY <1>1, <1>2, <2>1, <2>2 DEF AtRest
  <1>4. CASE NextJob
    BY <1>1, <1>2, <1>4 DEF NextJob, MaasNextJob, AtRest
  <1>5. CASE OtherStep
    BY <1>1, <1>2, <1>5, OtherOf DEF AtRest, GoesDown, ComesUp, Kill, WriteLog, FirmwareLands,
       MaasWorks, MaasReleases, MaasInstalls, MaasDeploys, host, shared, maas
  <1> QED
    BY <1>3, <1>4, <1>5 DEF Next

\* The partition of the user's home is formatted if it is not mounted, or no more.
LEMMA HomeKept ==
    ASSUME IInv, Next
    PROVE  HomeInv'
  <1>1. HomeInv
    BY DEF IInv
  <1>2. CASE ConnectorStep
    <2>1. CASE OemStep
      <3>1. CASE AutoFind \/ AutoMount \/ AutoValidate
        BY <1>1, <3>1 DEF AutoFind, AutoMount, AutoValidate, StorageStep, PassedOver, At, Goto, HomeInv
      <3>2. CASE at' \notin {"oem-mount", "oem-format"}
        BY <3>2 DEF HomeInv
      <3>3. (AutoFind \/ AutoMount \/ AutoValidate) \/ at' \notin {"oem-mount", "oem-format"}
        <4>1. CASE FakeProvision \/ NoProvision \/ NoReset \/ NoWait
          BY <4>1 DEF FakeProvision, NoProvision, NoReset, NoWait, Goto, Return, Raise, RaiseRecover,
             End, HardReset
        <4>2. CASE ScriptStep
          BY <4>2 DEF ScriptStep, ScriptBegin, ScriptReach, ScriptReboot, ScriptReset, ScriptCheck,
             RunRecoveryScript, OemCheck, CopySshId, RunOnControlHost, Goto, Return, Raise,
             RaiseRecover, End, HardReset
        <4>3. CASE RecoveryBegin \/ RecoveryReach \/ RecoveryReset \/ RecoveryCommands
          BY <4>3 DEF RecoveryBegin, RecoveryReach, RecoveryReset, RecoveryCommands, ClassicAt,
             CopySshId, RunOnControlHost, Goto, Return, Raise, RaiseRecover, End, HardReset
        <4>4. ASSUME NEW i \in 1..2,
                     CheckGenericClassic(i) \/ CheckDeviceInitialized(i) \/ RecoveryCopy(i)
              PROVE  at' \notin {"oem-mount", "oem-format"}
          <5>1. i = 1 \/ i = 2
            BY <4>4
          <5> QED
            BY <4>4, <5>1 DEF CheckGenericClassic, CheckDeviceInitialized, RecoveryCopy, NextRound,
               ClassicAt, InitializedAt, CopyAt, Step, Goto, Return, Raise, End
        <4>5. CASE AutoStep
          BY <4>5 DEF AutoStep, AutoBegin, AutoReach, AutoReset, AutoCheck, AutoFiles, AutoDetect,
             AutoMounted, StorageStep, PassedOver, AutoFormat, RunDeployScript, AutoCheckAgain,
             CopySshId, Goto, Return, Raise, End, HardReset
        <4> QED
          BY <2>1, <4>1, <4>2, <4>3, <4>4, <4>5 DEF OemStep, RecoveryStep
      <3> QED
        BY <3>1, <3>2, <3>3
    <2>2. CASE ~OemStep
      BY <1>2, <2>2, StepOf DEF OwnStep, To, HomeInv, HookPoints, MuxPoints, MuxEarly, MuxWriting,
         MuxRaising, Cm3Points, DragonLate, DragonPoints, NetLate, NetPoints, HostLate, HostPoints,
         TestPoints, ReservePoints, FirmwarePoints, MaasCleaning, MaasPlanning, MaasSetting, MaasLate,
         MaasPoints
    <2> QED
      BY <2>1, <2>2
  <1>3. CASE NextJob
    BY <1>3, EntryPoint DEF HomeInv
  <1>4. CASE OtherStep
    BY <1>1, <1>4, OthersLeave, OtherOf DEF HomeInv, Kill
  <1> QED
    BY <1>2, <1>3, <1>4 DEF Next

-----------------------------------------------------------------------------
(***************************************************************************)
(* The log of the control host.                                            *)
(***************************************************************************)
Follows(before, n) ==
    \E from \in 0..n - 1 : /\ from = before \/ GoesOnBehind(before, from)
                           /\ \A e \in from + 1..n - 1 : e \in Malformed

LEMMA InOrderIs ==
    LogInOrder <=> \A i \in 1..Len(logged) : Follows(IF i = 1 THEN 0 ELSE logged[i - 1], logged[i])
  BY DEF LogInOrder, Follows

\* An entry that follows the last one may be added.
LEMMA AppendInOrder ==
    ASSUME NEW s \in Seq(Nat), NEW last \in Nat, last = (IF s = <<>> THEN 0 ELSE s[Len(s)]),
           NEW n \in Nat, Follows(last, n),
           \A i \in 1..Len(s) : Follows(IF i = 1 THEN 0 ELSE s[i - 1], s[i])
    PROVE  \A i \in 1..Len(Append(s, n)) :
               Follows(IF i = 1 THEN 0 ELSE Append(s, n)[i - 1], Append(s, n)[i])
  <1> SUFFICES ASSUME NEW i \in 1..Len(Append(s, n))
               PROVE  Follows(IF i = 1 THEN 0 ELSE Append(s, n)[i - 1], Append(s, n)[i])
    OBVIOUS
  <1>1. Len(Append(s, n)) = Len(s) + 1 /\ Len(s) \in Nat
    OBVIOUS
  <1>2. CASE i <= Len(s)
    <2>1. Append(s, n)[i] = s[i] /\ (i # 1 => Append(s, n)[i - 1] = s[i - 1])
      BY <1>1, <1>2
    <2>2. i \in 1..Len(s)
      BY <1>1, <1>2
    <2>3. Follows(IF i = 1 THEN 0 ELSE s[i - 1], s[i])
      BY <2>2
    <2>4. CASE i = 1
      BY <2>1, <2>3, <2>4
    <2>5. CASE i # 1
      BY <2>1, <2>3, <2>5
    <2> QED
      BY <2>4, <2>5
  <1>3. CASE i = Len(s) + 1
    <2>1. Append(s, n)[i] = n /\ (i # 1 => Append(s, n)[i - 1] = s[Len(s)])
      BY <1>1, <1>3
    <2>2. s = <<>> <=> i = 1
      BY <1>1, <1>3
    <2>3. last = IF i = 1 THEN 0 ELSE Append(s, n)[i - 1]
      BY <2>1, <2>2
    <2> QED
      BY <2>1, <2>3
  <1> QED
    BY <1>1, <1>2, <1>3

\* The cursor moves on with the entries that have an id.
LEMMA CursorMoves ==
    ASSUME NEW r \in Nat, NEW c \in Nat, GoesOnBehind(r, c), NEW d,
           d = IF r + 1 \in Malformed \cup Unnumbered THEN c ELSE IF r + 1 \in Clearing THEN 0 ELSE r + 1
    PROVE  GoesOnBehind(r + 1, d)
  <1>1. CASE r + 1 \in Malformed \cup Unnumbered
    <2>1. ASSUME NEW n \in Nat, \A e \in n..r : e \in Malformed \cup Unnumbered
          PROVE  \A e \in n..r + 1 : e \in Malformed \cup Unnumbered
      BY <1>1, <2>1
    <2>2. CASE c = 0 /\ \A e \in 1..r : e \in Malformed \cup Unnumbered
      BY <1>1, <2>1, <2>2 DEF GoesOnBehind
    <2>3. CASE \E n \in 1..r : /\ n \notin Malformed \cup Unnumbered
                               /\ \A e \in n + 1..r : e \in Malformed \cup Unnumbered
                               /\ c = IF n \in Clearing THEN 0 ELSE n
      <3>1. PICK n \in 1..r : /\ n \notin Malformed \cup Unnumbered
                              /\ \A e \in n + 1..r : e \in Malformed \cup Unnumbered
                              /\ c = IF n \in Clearing THEN 0 ELSE n
        BY <2>3
      <3>2. n \in 1..r + 1 /\ n + 1 \in Nat
        OBVIOUS
      <3>3. \A e \in n + 1..r + 1 : e \in Malformed \cup Unnumbered
        BY <2>1, <3>1, <3>2
      <3> QED
        BY <1>1, <3>1, <3>2, <3>3 DEF GoesOnBehind
    <2> QED
      BY <2>2, <2>3 DEF GoesOnBehind
  <1>2. CASE r + 1 \notin Malformed \cup Unnumbered
    <2>1. r + 1 \in 1..r + 1 /\ \A e \in r + 1 + 1..r + 1 : e \in Malformed \cup Unnumbered
      OBVIOUS
    <2> QED
      BY <1>2, <2>1 DEF GoesOnBehind
  <1> QED
    BY <1>1, <1>2

\* A stream goes on where it has started, if it brings nothing.
LEMMA CursorStays ==
    ASSUME NEW last \in Nat, NEW c \in Nat, GoesOnBehind(last, c)
    PROVE  GoesOnBehind(c, c)
  <1>1. CASE c = 0
    BY <1>1 DEF GoesOnBehind
  <1>2. CASE c # 0
    <2>1. c \notin Malformed \cup Unnumbered /\ c \notin Clearing
      BY <1>2 DEF GoesOnBehind
    <2>2. c \in 1..c /\ \A e \in c + 1..c : e \in Malformed \cup Unnumbered
      BY <1>2
    <2> QED
      BY <2>1, <2>2 DEF GoesOnBehind
  <1> QED
    BY <1>1, <1>2

\* Entries that are not logged do not count for the cursor, either.
LEMMA CursorOfLast ==
    ASSUME NEW last \in Nat, NEW r \in Nat, NEW c \in Nat, GoesOnBehind(r, c), last <= r,
           \A e \in last + 1..r : e \in Malformed
    PROVE  GoesOnBehind(last, c)
  <1>1. CASE c = 0 /\ \A e \in 1..r : e \in Malformed \cup Unnumbered
    BY <1>1 DEF GoesOnBehind
  <1>2. ASSUME NEW n \in 1..r, n \notin Malformed \cup Unnumbered,
               \A e \in n + 1..r : e \in Malformed \cup Unnumbered, c = IF n \in Clearing THEN 0 ELSE n
        PROVE  GoesOnBehind(last, c)
    <2>1. n \in 1..last
      BY <1>2
    <2> QED
      BY <1>2, <2>1 DEF GoesOnBehind
  <1> QED
    BY <1>1, <1>2 DEF GoesOnBehind

LEMMA HostLogs ==
    ASSUME IInv, HostStep
    PROVE  LogInv'
  <1>1. /\ logged \in Seq(Nat) /\ sent \in Nat /\ reading \in Nat /\ handled \in Nat /\ cursor \in Nat
        /\ LogInOrder
    BY DEF IInv, LogInv
  <1>2. LastLogged \in Nat
    BY <1>1 DEF LastLogged
  <1>7. LogInv /\ (at \in HostPoints => kind \in ControlHostKinds /\ HostInv)
    BY Whose DEF IInv
  <1>3. CASE HostRead
    <2>1. /\ at = "host-read" /\ at' = at /\ reading' = reading + 1 /\ UNCHANGED <<sent, cursor>>
          /\ logged' = (IF reading' \in Malformed THEN logged ELSE Append(logged, reading'))
          /\ handled' = (IF reading' \in Malformed \cup Unnumbered THEN handled
                         ELSE IF reading' \in Clearing THEN 0 ELSE reading')
      BY <1>3 DEF HostRead, At, process
    <2>2. /\ GoesOnBehind(reading, handled)
          /\ \/ NoneBetween(LastLogged)
             \/ NoneBetween(cursor) /\ handled = cursor /\ GoesOnBehind(LastLogged, cursor)
      BY <1>7, <2>1 DEF LogInv
    <2>3. GoesOnBehind(reading, handled)' /\ handled' \in Nat /\ reading' \in Nat
      <3>1. GoesOnBehind(reading + 1, handled')
        BY <1>1, <2>1, <2>2, CursorMoves
      <3> QED
        BY <1>1, <2>1, <3>1 DEF GoesOnBehind
    <2>4. CASE reading' \in Malformed
      <3>1. UNCHANGED <<logged, handled>>
        BY <2>1, <2>4
      <3>2. LastLogged' = LastLogged /\ LogInOrder'
        BY <1>1, <3>1 DEF LastLogged, LogInOrder, GoesOnBehind
      <3>3. \A from \in Nat : NoneBetween(from) =>
                from <= reading' /\ \A e \in from + 1..reading' : e \in Malformed
        BY <1>1, <2>1, <2>4 DEF NoneBetween
      <3>4. \/ NoneBetween(LastLogged)'
            \/ (NoneBetween(cursor) /\ handled = cursor /\ GoesOnBehind(LastLogged, cursor))'
        BY <1>1, <1>2, <2>1, <2>2, <3>1, <3>2, <3>3 DEF NoneBetween, GoesOnBehind
      <3> QED
        BY <1>1, <2>1, <2>3, <3>1, <3>2, <3>4 DEF LogInv
    <2>5. CASE reading' \notin Malformed
      <3>1. logged' = Append(logged, reading')
        BY <2>1, <2>5
      <3>2. Follows(LastLogged, reading')
        <4>1. \A from \in Nat : NoneBetween(from) =>
                  from \in 0..reading' - 1 /\ \A e \in from + 1..reading' - 1 : e \in Malformed
          BY <1>1, <2>1 DEF NoneBetween
        <4> QED
          BY <1>1, <1>2, <2>2, <4>1 DEF Follows
      <3>3. logged' \in Seq(Nat) /\ LastLogged' = reading'
        BY <1>1, <2>3, <3>1 DEF LastLogged
      <3>4. LogInOrder'
        <4>1. \A i \in 1..Len(logged) : Follows(IF i = 1 THEN 0 ELSE logged[i - 1], logged[i])
          BY <1>1, InOrderIs
        <4>2. LastLogged = IF logged = <<>> THEN 0 ELSE logged[Len(logged)]
          BY DEF LastLogged
        <4>3. \A i \in 1..Len(logged') : Follows(IF i = 1 THEN 0 ELSE logged'[i - 1], logged'[i])
          BY <1>1, <1>2, <2>3, <3>1, <3>2, <4>1, <4>2, AppendInOrder
        <4> QED
          BY <4>3 DEF LogInOrder, Follows, GoesOnBehind
      <3>5. NoneBetween(LastLogged)'
        <4>1. \A n \in Nat : n <= n /\ \A e \in n + 1..n : e \in Malformed
          OBVIOUS
        <4> QED
          BY <2>3, <3>3, <4>1 DEF NoneBetween
      <3> QED
        BY <1>1, <2>1, <2>3, <3>3, <3>4, <3>5 DEF LogInv
    <2> QED
      BY <2>4, <2>5
  <1>4. CASE HostStream
    <2>1. /\ at = "host-stream" /\ handled' = cursor /\ UNCHANGED <<sent, cursor, logged>>
          /\ \/ at' = "host-read" /\ reading' = cursor
             \/ at' = "over" /\ UNCHANGED reading
      BY <1>4 DEF HostStream, Api, At, Goto, Raise, End
    <2>2. GoesOnBehind(LastLogged, cursor) /\ GoesOnBehind(cursor, cursor)
      BY <1>1, <1>2, <1>7, <2>1, CursorStays DEF LogInv
    <2>3. LastLogged' = LastLogged /\ LogInOrder'
      BY <1>1, <2>1 DEF LastLogged, LogInOrder, GoesOnBehind
    <2>4. CASE at' = "host-read" /\ reading' = cursor
      <3>1. GoesOnBehind(reading, handled)' /\ GoesOnBehind(LastLogged, cursor)'
        BY <2>1, <2>2, <2>3, <2>4 DEF GoesOnBehind
      <3>2. NoneBetween(cursor)'
        BY <1>1, <2>1, <2>4 DEF NoneBetween
      <3> QED
        BY <1>1, <2>1, <2>3, <2>4, <3>1, <3>2 DEF LogInv
    <2>5. CASE at' = "over" /\ UNCHANGED reading
      BY <1>1, <2>1, <2>3, <2>5 DEF LogInv
    <2> QED
      BY <2>1, <2>4, <2>5
  <1>5. CASE HostStreamEnds
    <2>1. /\ at = "host-read" /\ UNCHANGED <<sent, reading, handled, logged>>
          /\ \/ at' = "host-status" /\ cursor' = handled
             \/ at' = "over" /\ UNCHANGED cursor
      BY <1>5 DEF HostStreamEnds, At, Goto, Raise, End
    <2>2. LastLogged' = LastLogged /\ LogInOrder'
      BY <1>1, <2>1 DEF LastLogged, LogInOrder, GoesOnBehind
    <2>3. GoesOnBehind(LastLogged, handled)
      BY <1>1, <1>2, <1>7, <2>1, CursorOfLast DEF LogInv, NoneBetween
    <2>4. at' = "host-status" => GoesOnBehind(LastLogged, cursor)'
      BY <2>1, <2>2, <2>3 DEF GoesOnBehind
    <2> QED
      BY <1>1, <2>1, <2>2, <2>4 DEF LogInv
  <1>6. CASE \/ IotBegin \/ HostBegin \/ KvmValidate \/ IotValidate \/ OemValidate \/ HostPost
             \/ HostStatus \/ HostAfter \/ KvmPassword \/ HostKey
    <2>1. UNCHANGED <<sent, stream>> /\ at \notin {"host-read", "over"}
      BY <1>6 DEF IotBegin, HostBegin, KvmValidate, IotValidate, OemValidate, HostPost,
         HostStatus, HostAfter, KvmPassword, HostKey, Validated, Begin, At, remotes, stream
    <2>2. at' # "host-read"
      <3>1. CASE IotBegin \/ HostBegin \/ KvmValidate \/ IotValidate \/ OemValidate \/ HostPost
        BY <3>1 DEF IotBegin, HostBegin, KvmValidate, IotValidate, OemValidate, HostPost, Validated,
           Api, Goto, Raise, End, StartSerial
      <3>2. CASE HostStatus \/ HostAfter \/ KvmPassword \/ HostKey
        BY <1>7, <3>2 DEF HostStatus, HostAfter, KvmPassword, HostKey, HostInv, HostPoints, HostLate,
           ControlHostKinds, At, Goto, Return, Raise, End
      <3> QED
        BY <1>6, <3>1, <3>2
    <2>3. LastLogged' = LastLogged /\ LogInOrder'
      BY <1>1, <2>1 DEF LastLogged, LogInOrder, GoesOnBehind, stream
    <2>4. GoesOnBehind(LastLogged, cursor)'
      BY <1>7, <2>1, <2>3 DEF LogInv, GoesOnBehind, stream
    <2> QED
      BY <1>7, <1>1, <2>1, <2>2, <2>3, <2>4 DEF LogInv, stream
  <1> QED
    BY <1>3, <1>4, <1>5, <1>6 DEF HostStep

LEMMA LogKept ==
    ASSUME IInv, Next
    PROVE  LogInv'
  <1>1. LogInv
    BY DEF IInv
  <1>2. CASE HostStep
    BY <1>1, <1>2, HostLogs
  <1>3. ASSUME UNCHANGED <<sent, stream>>, at' # "host-read",
               at' # "over" => at \notin {"host-read", "over"}
        PROVE  LogInv'
    <2>1. LastLogged' = LastLogged /\ LogInOrder'
      BY <1>1, <1>3 DEF LastLogged, LogInOrder, GoesOnBehind, stream, LogInv
    <2> QED
      BY <1>1, <1>3, <2>1 DEF LogInv, GoesOnBehind, stream
  <1>4. CASE ConnectorStep /\ ~HostStep
    <2>1. UNCHANGED <<sent, stream>>
      BY <1>4 DEF ConnectorStep, remotes, stream
    <2>2. at # "host-read" /\ at' # "host-read"
      <3>1. CASE OemStep
        BY <1>1, <1>4, <3>1, OemGoes DEF FakeProvision, NoProvision, ScriptBegin, RecoveryBegin,
           AutoBegin, Begin, At, Goto, Return, End, Goes, IInv, NoPoints, ScriptPoints, RecoverPoints,
           RecoverLate, AutoPoints
      <3>2. CASE ~OemStep
        BY <1>4, <3>2, StepOf, Whose DEF OwnStep, To, HookPoints, MuxPoints, MuxEarly, MuxWriting,
           MuxRaising, Cm3Points, DragonLate, DragonPoints, NetLate, NetPoints, HostLate, HostPoints,
           TestPoints, ReservePoints, FirmwarePoints, MaasCleaning, MaasPlanning, MaasSetting,
           MaasLate, MaasPoints, ControlHostKinds
      <3> QED
        BY <3>1, <3>2
    <2>3. at # "over"
      BY <1>4, StepOf DEF IInv, Ended
    <2> QED
      BY <1>3, <2>1, <2>2, <2>3
  <1>5. CASE NextJob
    <2>1. logged' = <<>> /\ sent' = 0 /\ reading' = 0 /\ handled' = 0 /\ cursor' = 0
      BY <1>5 DEF NextJob, RemoteNextJob
    <2> QED
      BY <1>5, <2>1, EntryPoint DEF LogInv, LogInOrder, LastLogged, GoesOnBehind
  <1>6. CASE OtherStep
    <2>1. UNCHANGED stream /\ (sent' = sent \/ sent' = sent + 1)
      BY <1>6, OtherOf DEF Kill, WriteLog, FinishRemote, remotes, stream
    <2>3. at' \in {at, "over"}
      BY <1>6, OthersLeave DEF Kill
    <2>4. sent' \in Nat
      BY <1>1, <2>1 DEF LogInv
    <2>2. LastLogged' = LastLogged /\ LogInOrder'
      BY <1>1, <2>1 DEF LastLogged, LogInOrder, GoesOnBehind, stream, LogInv
    <2> QED
      BY <1>1, <2>1, <2>2, <2>3, <2>4 DEF LogInv, NoneBetween, GoesOnBehind, stream
  <1> QED
    BY <1>2, <1>4, <1>5, <1>6 DEF Next

-----------------------------------------------------------------------------
(***************************************************************************)
(* Steps that several connectors share.                                    *)
(***************************************************************************)
LEMMA HookFrame ==
    ASSUME HookStep
    PROVE  /\ UNCHANGED <<asked, attached, disk, falling>>
           /\ mishaps' \in {mishaps, mishaps \cup {"power"}}
  BY DEF HookStep, Hook, PowerOffHost, RebootHost, SshFallback, PowerOnDut, Setup, At, dut, NoteIf

\* A connector that has neither a control host nor MAAS to work for it
Alone == kind \notin ControlHostKinds \cup {"maas2"}

LEMMA OthersAlone ==
    ASSUME IInv, OtherStep, Alone
    PROVE  /\ UNCHANGED <<asked, mishaps, power, attached, disk, muxpi, stages>>
           /\ UNCHANGED <<unseen, targeted, flashed>> /\ landed \subseteq landed'
           /\ \/ UNCHANGED <<at, exit>>
              \/ at' = "over" /\ exit' = "killed"
           /\ \/ UNCHANGED <<up, falling>>
              \/ UNCHANGED falling /\ ComesUp
              \/ falling /\ falling' = FALSE /\ up' = "none"
  <1>1. CASE GoesDown /\ UNCHANGED <<muxpi, stages, firmware>>
    BY <1>1 DEF GoesDown, process, firmware
  <1>2. CASE ComesUp /\ UNCHANGED <<muxpi, stages, firmware>>
    BY <1>2 DEF ComesUp, process, firmware
  <1>3. CASE Kill /\ UNCHANGED <<muxpi, stages, firmware>>
    BY <1>3 DEF Kill, dut, firmware
  <1>4. CASE FirmwareLands /\ UNCHANGED <<muxpi, stages>>
    BY <1>4 DEF FirmwareLands, shared, process, dut
  <1> QED
    BY <1>1, <1>2, <1>3, <1>4, OtherOf DEF Alone

-----------------------------------------------------------------------------
(***************************************************************************)
(* muxpi                                                                   *)
(***************************************************************************)
LEMMA MuxSteps ==
    ASSUME MuxInv, Ended, DiskOK, MuxStep, kind = "muxpi"
    PROVE  MuxInv'
  <1>1. /\ exit = "running" /\ at \in MuxPoints \cup {"provision"}
        /\ Of(MuxPoints)' /\ Medium' = Medium /\ conf' = conf /\ (exit' # "running" <=> at' = "over")
    <2>1. (at \in MuxPoints \/ at = "provision") /\ Goes(MuxPoints)
      BY MuxGoes DEF Begin, At
    <2>2. "over" \notin MuxPoints
      BY DEF MuxPoints, MuxEarly, MuxWriting, MuxRaising
    <2>3. Medium' = Medium /\ conf' = conf
      BY <2>1 DEF Goes, asked, Medium
    <2> QED
      BY <2>1, <2>2, <2>3 DEF Goes, Of
  <1>2. disk \in [Media -> Contents] /\ Medium \in Media
    BY MediumIs DEF DiskOK
  <1> USE DEF At, Goto, Again, Raise, Return, RaiseRecover, End, dut, NoteIf, MuxExcused,
              MuxEarly, MuxWriting, MuxRaising, HookPoints
  <1>3. CASE MuxProvision \/ MuxBegin \/ MuxWaitHost \/ MuxSource
    BY <1>1, <1>3 DEF MuxInv, MuxProvision, MuxBegin, MuxWaitHost, MuxSource, Begin, StartSerial, muxpi
  <1>4. CASE MuxRebootHost
    BY <1>1, <1>4 DEF MuxInv, MuxRebootHost, HardReset, muxpi
  <1>5. CASE MuxPlug
    BY <1>1, <1>5 DEF MuxInv, MuxPlug, SetBoot, muxpi
  <1>6. CASE MuxPlugBoth
    BY <1>1, <1>2, <1>6 DEF MuxInv, MuxPlugBoth, muxpi
  <1>7. CASE MuxUnmountFirst
    BY <1>1, <1>7 DEF MuxInv, MuxUnmountFirst
  <1>8. CASE MuxWrite
    BY <1>1, <1>2, <1>8 DEF MuxInv, MuxWrite, Write, muxpi
  <1>9. CASE MuxList \/ MuxMount
    BY <1>1, <1>9 DEF MuxInv, MuxList, MuxMount, muxpi
  <1>10. CASE MuxStamp \/ MuxType
    BY <1>1, <1>10 DEF MuxInv, MuxStamp, MuxType, muxpi
  <1>11. CASE MuxCeOem \/ MuxTegra \/ MuxDesktop \/ MuxClassic
    BY <1>1, <1>2, <1>11 DEF MuxInv, MuxCeOem, MuxTegra, MuxDesktop, MuxClassic, UserStep, Write, muxpi
  <1>12. CASE MuxUnmount
    BY <1>1, <1>12 DEF MuxInv, MuxUnmount
  <1>13. CASE MuxUnplug
    BY <1>1, <1>2, <1>13 DEF MuxInv, MuxUnplug, muxpi
  <1>14. CASE MuxReset
    BY <1>1, <1>14 DEF MuxInv, MuxReset, HardReset, Reset, muxpi
  <1>15. CASE MuxCheck
    BY <1>1, <1>2, <1>15 DEF MuxInv, MuxCheck, muxpi
  <1> QED
    BY <1>3, <1>4, <1>5, <1>6, <1>7, <1>8, <1>9, <1>10, <1>11, <1>12, <1>13, <1>14, <1>15 DEF MuxStep

LEMMA MuxKept ==
    ASSUME IInv, Next, kind = "muxpi"
    PROVE  MuxInv'
  <1>1. MuxInv /\ Ended /\ DiskOK
    BY DEF IInv
  <1>2. CASE ConnectorStep
    <2>1. CASE MuxStep
      BY <1>1, <2>1, MuxSteps
    <2>2. CASE HookStep /\ ~MuxStep
      <3>1. at \in HookPoints /\ at' \in HookPoints \cup {"provision", "over"} /\ mounted' = mounted
        BY <1>2, <2>2, StepOf DEF OwnStep, To, muxpi, ControlHostKinds, OemKinds
      <3>2. UNCHANGED <<asked, attached, disk, falling>> /\ Medium' = Medium
            /\ mishaps \subseteq mishaps'
        BY <2>2, HookFrame DEF asked, Medium
      <3>3. exit' = "ok" => FALSE
        BY <2>2 DEF HookStep, Hook, PowerOffHost, RebootHost, SshFallback, PowerOnDut, Setup, At,
           Goto, Raise, End
      <3> QED
        BY <1>1, <3>1, <3>2, <3>3 DEF MuxInv, MuxExcused, Of, HookPoints, MuxEarly, MuxWriting, asked
    <2> QED
      BY <1>2, <2>1, <2>2, StepOf DEF OwnStep, ControlHostKinds, OemKinds
  <1>3. CASE NextJob
    <2>1. /\ at' = "hook" /\ exit' = "running" /\ attached' = attached
          /\ Medium' \in attached' \/ "unplugged" \in mishaps'
      BY <1>3, EntryPoint DEF NextJob, ControlHostKinds
    <2> QED
      BY <2>1 DEF MuxInv, Of, HookPoints, MuxEarly, MuxWriting
  <1>4. CASE OtherStep
    <2>1. attached = {Medium} /\ disk[Medium] # "old" /\ ComesUp => up' = "new"
      BY <1>1, MediumIs DEF ComesUp, DiskOK, Contents, Media
    <2>2. UNCHANGED <<asked, mishaps, attached, disk, mounted>> /\ Medium' = Medium
      BY <1>4, OthersAlone DEF Alone, ControlHostKinds, Medium, muxpi, asked
    <2> QED
      BY <1>1, <1>4, <2>1, <2>2, OthersAlone DEF Alone, ControlHostKinds, MuxInv, MuxExcused, Of,
         HookPoints, MuxEarly, MuxWriting, asked
  <1> QED
    BY <1>2, <1>3, <1>4 DEF Next

-----------------------------------------------------------------------------
(***************************************************************************)
(* cm3                                                                     *)
(***************************************************************************)
LEMMA Cm3Steps ==
    ASSUME Cm3Inv, Ended, DiskOK, Cm3Step, kind = "cm3"
    PROVE  Cm3Inv'
  <1>1. (at \in Cm3Points \/ at = "provision") /\ Goes(Cm3Points)
    BY Cm3Goes DEF Begin, At
  <1>2. Of(Cm3Points)'
    BY <1>1 DEF Goes, Of
  <1>3. disk \in [Media -> Contents] /\ "main" \in Media
    BY DEF DiskOK, Media
  <1> USE <1>2 DEF Cm3Inv, At, Goto, Raise, Return, RaiseRecover, End, dut
  <1>4. CASE Cm3Begin \/ Cm3Pin \/ Cm3Look \/ Cm3Check
    BY <1>4 DEF Cm3Begin, Cm3Pin, Cm3Look, Cm3Check, Begin, StartSerial, SetBoot
  <1>5. CASE Cm3Reset
    BY <1>5 DEF Cm3Reset, HardReset, Reset, HalfReset
  <1>6. CASE Cm3Install \/ Cm3User
    BY <1>3, <1>6 DEF Cm3Install, Cm3User, Write
  <1>7. CASE Cm3Release
    BY <1>7 DEF Cm3Release, SetBoot
  <1>8. CASE Cm3Boot
    BY <1>8 DEF Cm3Boot, HardReset, Reset, HalfReset
  <1> QED
    BY <1>4, <1>5, <1>6, <1>7, <1>8 DEF Cm3Step

LEMMA Cm3Kept ==
    ASSUME IInv, Next, kind = "cm3"
    PROVE  Cm3Inv'
  <1>1. Cm3Inv /\ Ended /\ DiskOK
    BY DEF IInv
  <1>2. CASE ConnectorStep
    <2>1. CASE Cm3Step
      BY <1>1, <2>1, Cm3Steps
    <2>2. CASE HookStep /\ ~Cm3Step
      <3>1. at' \in HookPoints \cup {"provision", "over"}
        BY <1>2, <2>2, StepOf DEF OwnStep, To, ControlHostKinds, OemKinds
      <3> QED
        BY <1>1, <2>2, <3>1, HookFrame DEF Cm3Inv, Of, HookPoints
    <2> QED
      BY <1>2, <2>1, <2>2, StepOf DEF OwnStep, ControlHostKinds, OemKinds
  <1>3. CASE NextJob
    <2>1. at' = "hook" /\ falling' = falling
      BY <1>3, EntryPoint DEF NextJob, ControlHostKinds
    <2> QED
      BY <1>1, <2>1 DEF Cm3Inv, Of, HookPoints
  <1>4. CASE OtherStep
    <2>1. ComesUp => up' = "service" \/ \E m \in attached : up' = disk[m] /\ disk[m] # "part"
      BY DEF ComesUp
    <2> QED
      BY <1>1, <1>4, <2>1, OthersAlone DEF Alone, ControlHostKinds, ComesUp, Cm3Inv, Of, HookPoints,
         DiskOK, Media, Contents
  <1> QED
    BY <1>2, <1>3, <1>4 DEF Next

-----------------------------------------------------------------------------
(***************************************************************************)
(* dragonboard                                                             *)
(***************************************************************************)
LEMMA DragonSteps ==
    ASSUME DragonInv, Ended, DiskOK, DragonStep, kind = "dragonboard"
    PROVE  DragonInv'
  <1>1. (at \in DragonPoints \/ at = "provision") /\ Goes(DragonPoints)
    BY DragonGoes DEF Begin, At
  <1>2. Of(DragonPoints)'
    BY <1>1 DEF Goes, Of
  <1>3. disk \in [Media -> Contents] /\ "main" \in Media
    BY DEF DiskOK, Media
  <1> USE <1>2 DEF DragonInv, DragonLate, At, Goto, Raise, Return, RaiseRecover, End, dut
  <1>4. CASE DragonBegin \/ DragonWait \/ DragonDownload \/ DragonCheck
    BY <1>4 DEF DragonBegin, DragonWait, DragonDownload, DragonCheck, Begin, StartSerial
  <1>5. CASE DragonLook
    BY <1>5 DEF DragonLook, Select, SetBoot
  <1>6. CASE DragonReset
    BY <1>6 DEF DragonReset, HardReset
  <1>7. CASE DragonCompress
    BY <1>7 DEF DragonCompress, CompressFile
  <1>8. CASE DragonFlash
    BY <1>3, <1>8 DEF DragonFlash, EndWithServer, Write, Wipe, MasterImageBooted
  <1>9. CASE DragonMount \/ DragonUser \/ DragonSudo
    BY <1>3, <1>9 DEF DragonMount, DragonUser, DragonSudo, OnMaster, Wipe
  <1>10. CASE DragonBoot
    BY <1>10 DEF DragonBoot, SetBoot
  <1> QED
    BY <1>4, <1>5, <1>6, <1>7, <1>8, <1>9, <1>10 DEF DragonStep

LEMMA DragonKept ==
    ASSUME IInv, Next, kind = "dragonboard"
    PROVE  DragonInv'
  <1>1. DragonInv /\ Ended /\ DiskOK
    BY DEF IInv
  <1>2. CASE ConnectorStep
    <2>1. CASE DragonStep
      BY <1>1, <2>1, DragonSteps
    <2>2. CASE HookStep /\ ~DragonStep
      <3>1. at' \in HookPoints \cup {"provision", "over"}
        BY <1>2, <2>2, StepOf DEF OwnStep, To, ControlHostKinds, OemKinds
      <3> QED
        BY <1>1, <2>2, <3>1, HookFrame DEF DragonInv, Of, HookPoints, DragonLate
    <2> QED
      BY <1>2, <2>1, <2>2, StepOf DEF OwnStep, ControlHostKinds, OemKinds
  <1>3. CASE NextJob
    <2>1. at' = "hook" /\ attached' = attached
      BY <1>3, EntryPoint DEF NextJob, ControlHostKinds
    <2> QED
      BY <1>1, <2>1 DEF DragonInv, Of, HookPoints, DragonLate
  <1>4. CASE OtherStep
    <2>1. ComesUp /\ disk["main"] # "old" => up' # "old"
      BY <1>1 DEF ComesUp, DragonInv
    <2> QED
      BY <1>1, <1>4, <2>1, OthersAlone DEF Alone, ControlHostKinds, DragonInv, Of, HookPoints, DragonLate
  <1> QED
    BY <1>2, <1>3, <1>4 DEF Next

-----------------------------------------------------------------------------
(***************************************************************************)
(* netboot                                                                 *)
(***************************************************************************)
LEMMA NetSteps ==
    ASSUME NetInv, Ended, DiskOK, NetStep, kind = "netboot"
    PROVE  NetInv'
  <1>1. (at \in NetPoints \/ at = "provision") /\ Goes(NetPoints)
    BY NetGoes DEF Begin, At
  <1>2. Of(NetPoints)'
    BY <1>1 DEF Goes, Of
  <1>3. disk \in [Media -> Contents] /\ "main" \in Media
    BY DEF DiskOK, Media
  <1> USE <1>2 DEF NetInv, NetLate, At, Goto, Raise, Return, RaiseRecover, End, dut, First, Failed,
              Then, TestBooted
  <1>4. CASE NetBegin \/ NetServe \/ NetWaitMaster
    BY <1>4 DEF NetBegin, NetServe, NetWaitMaster, Begin, StartSerial
  <1>5. CASE NetCompress
    BY <1>5 DEF NetCompress, CompressFile
  <1>6. CASE NetTest \/ NetWait
    BY <1>6 DEF NetTest, NetWait, Select, SetBoot
  <1>7. CASE NetReboot
    BY <1>7 DEF NetReboot, HardReset, Reset, HalfReset
  <1>8. CASE NetMaster \/ NetReset
    BY <1>8 DEF NetMaster, NetReset, Select, SetBoot, HardReset
  <1>9. CASE NetFlash \/ NetAfterFlash
    BY <1>3, <1>9 DEF NetFlash, NetAfterFlash, RunCmd, Write, NetMasterBooted
  <1> QED
    BY <1>4, <1>5, <1>6, <1>7, <1>8, <1>9 DEF NetStep

LEMMA NetKept ==
    ASSUME IInv, Next, kind = "netboot"
    PROVE  NetInv'
  <1>1. NetInv /\ Ended /\ DiskOK
    BY DEF IInv
  <1>2. CASE ConnectorStep
    <2>1. CASE NetStep
      BY <1>1, <2>1, NetSteps
    <2>2. CASE HookStep /\ ~NetStep
      <3>1. at' \in HookPoints \cup {"provision", "over"}
        BY <1>2, <2>2, StepOf DEF OwnStep, To, ControlHostKinds, OemKinds
      <3> QED
        BY <1>1, <2>2, <3>1, HookFrame DEF NetInv, Of, HookPoints, NetLate
    <2> QED
      BY <1>2, <2>1, <2>2, StepOf DEF OwnStep, ControlHostKinds, OemKinds
  <1>3. CASE NextJob
    <2>1. at' = "hook" /\ attached' = attached
      BY <1>3, EntryPoint DEF NextJob, ControlHostKinds
    <2> QED
      BY <1>1, <2>1 DEF NetInv, Of, HookPoints, NetLate
  <1>4. CASE OtherStep
    <2>1. ComesUp /\ disk["main"] = "new" => up' # "old"
      BY <1>1 DEF ComesUp, NetInv
    <2> QED
      BY <1>1, <1>4, <2>1, OthersAlone DEF Alone, ControlHostKinds, NetInv, Of, HookPoints, NetLate
  <1> QED
    BY <1>2, <1>3, <1>4 DEF Next

-----------------------------------------------------------------------------
(***************************************************************************)
(* The connectors of recovery images                                       *)
(***************************************************************************)
\* What comes up where the medium has the new system is the new system.
LEMMA NewBootsOn ==
    ASSUME NewBoots, attached = {"main"}, UNCHANGED disk,
           \/ UNCHANGED <<up, falling>>
           \/ UNCHANGED falling /\ ComesUp
           \/ falling /\ falling' = FALSE /\ up' = "none"
    PROVE  NewBoots'
  BY DEF NewBoots, ComesUp

LEMMA OemSteps ==
    ASSUME OemInv, Ended, DiskOK, OemStep, kind \in OemKinds
    PROVE  OemInv'
  <1>1. disk \in [Media -> Contents] /\ "main" \in Media /\ UNCHANGED attached /\ kind' = kind /\ conf' = conf
    <2>1. DiskOK /\ "main" \in Media
      BY DEF Media
    <2>2. UNCHANGED <<attached, asked>>
      BY DEF OemStep, ScriptStep, RecoveryStep, AutoStep, OemAsk, dut, FakeProvision, NoProvision,
         NoReset, NoWait, ScriptBegin, ScriptReach, ScriptReboot, ScriptReset, ScriptCheck,
         RunRecoveryScript, OemCheck, RecoveryBegin, RecoveryReach, RecoveryReset, RecoveryCommands,
         CheckGenericClassic, CheckDeviceInitialized, RecoveryCopy, AutoBegin, AutoReach, AutoReset,
         AutoCheck, AutoFiles, AutoDetect, AutoMounted, AutoFind, AutoMount, AutoValidate, StorageStep,
         AutoFormat, RunDeployScript, AutoCheckAgain, HardReset, Begin, At
    <2> QED
      BY <2>1, <2>2 DEF DiskOK, asked
  <1>2. /\ at \in NoPoints => kind = "noprovision"
        /\ at \in ScriptPoints => kind = "oemscript"
        /\ at \in RecoverPoints => kind = "oemrecovery"
        /\ at \notin AutoPoints
    BY DEF OemInv, Of, HookPoints, NoPoints, ScriptPoints, RecoverPoints, RecoverLate, AutoPoints
  <1> USE <1>1, <1>2 DEF OemInv, Of, HookPoints, NoPoints, ScriptPoints, RecoverPoints, RecoverLate,
              At, Goto, Raise, Return, RaiseRecover, End, dut, OemAsk
  <1>3. CASE FakeProvision \/ NoProvision \/ ScriptBegin \/ RecoveryBegin \/ AutoBegin
    BY <1>3 DEF FakeProvision, NoProvision, ScriptBegin, RecoveryBegin, AutoBegin, Begin, OemKinds
  <1>4. CASE NoReset \/ NoWait
    BY <1>4 DEF NoReset, NoWait, HardReset
  <1>5. CASE ScriptReach \/ ScriptReboot \/ ScriptCheck \/ OemCheck
    BY <1>5 DEF ScriptReach, ScriptReboot, ScriptCheck, OemCheck, CopySshId, RunOnControlHost
  <1>6. CASE ScriptReset
    BY <1>6 DEF ScriptReset, HardReset
  <1>7. CASE RunRecoveryScript
    BY <1>7 DEF RunRecoveryScript, Reinstalled, LeftOver, Write, NewBoots
  <1>8. CASE RecoveryReach \/ RecoveryReset
    BY <1>8 DEF RecoveryReach, RecoveryReset, CopySshId, HardReset, ClassicAt
  <1>9. CASE RecoveryCommands
    BY <1>9 DEF RecoveryCommands, RunOnControlHost, LeftOver, Write, ClassicAt, NewBoots
  <1>10. ASSUME NEW i \in 1..2,
                CheckGenericClassic(i) \/ CheckDeviceInitialized(i) \/ RecoveryCopy(i)
         PROVE  OemInv'
    <2>1. i = 1 \/ i = 2
      BY <1>10
    <2>2. UNCHANGED dut
      BY <1>10 DEF CheckGenericClassic, CheckDeviceInitialized, RecoveryCopy
    <2>3. NewBoots' = NewBoots
      BY <2>2 DEF NewBoots
    <2>4. CASE i = 1
      BY <1>10, <2>3, <2>4 DEF CheckGenericClassic, CheckDeviceInitialized, RecoveryCopy, NextRound,
         Step, ClassicAt, InitializedAt, CopyAt
    <2>5. CASE i = 2
      BY <1>10, <2>3, <2>5 DEF CheckGenericClassic, CheckDeviceInitialized, RecoveryCopy, NextRound,
         Step, ClassicAt, InitializedAt, CopyAt
    <2> QED
      BY <2>1, <2>4, <2>5
  <1>11. ~AutoStep \/ AutoBegin
    BY DEF AutoStep, AutoReach, AutoReset, AutoCheck, AutoFiles, AutoDetect, AutoMounted, AutoFind,
       AutoMount, AutoValidate, StorageStep, AutoFormat, RunDeployScript, AutoCheckAgain, AutoPoints
  <1> QED
    BY <1>3, <1>4, <1>5, <1>6, <1>7, <1>8, <1>9, <1>10, <1>11 DEF OemStep, ScriptStep, RecoveryStep

LEMMA OemKept ==
    ASSUME IInv, Next, kind \in OemKinds
    PROVE  OemInv'
  <1>1. OemInv /\ Ended /\ DiskOK
    BY DEF IInv
  <1>2. CASE ConnectorStep
    <2>1. CASE OemStep
      BY <1>1, <2>1, OemSteps
    <2>2. CASE HookStep /\ ~OemStep
      <3>1. at' \in HookPoints \cup {"provision", "over"}
        BY <1>2, <2>2, StepOf DEF OwnStep, To, ControlHostKinds, OemKinds
      <3> QED
        BY <1>1, <2>2, <3>1, HookFrame DEF OemInv, Of, HookPoints, NoPoints, ScriptPoints, RecoverPoints,
           RecoverLate
    <2> QED
      BY <1>2, <2>1, <2>2, StepOf DEF OwnStep, ControlHostKinds, OemKinds
  <1>3. CASE NextJob
    <2>1. at' = "hook" /\ attached' = attached
      BY <1>3, EntryPoint DEF NextJob, OemKinds
    <2> QED
      BY <1>1, <2>1 DEF OemInv, Of, HookPoints, NoPoints, ScriptPoints, RecoverPoints, RecoverLate
  <1>4. CASE OtherStep
    <2>1. Alone
      BY DEF Alone, OemKinds, ControlHostKinds
    <2>2. attached = {"main"}
      BY <1>1 DEF OemInv
    <2>3. NewBoots => NewBoots'
      BY <1>4, <2>1, <2>2, OthersAlone, NewBootsOn
    <2> QED
      BY <1>1, <1>4, <2>1, <2>3, OthersAlone DEF OemInv, Of, HookPoints, NoPoints, ScriptPoints,
         RecoverPoints, RecoverLate, asked
  <1> QED
    BY <1>2, <1>3, <1>4 DEF Next

-----------------------------------------------------------------------------
(***************************************************************************)
(* The stages                                                              *)
(***************************************************************************)
LEMMA TestKept ==
    ASSUME IInv, Next, kind = "test"
    PROVE  TestInv'
  <1>1. TestInv /\ Ended /\ DiskOK /\ ConfOK
    BY DEF IInv
  <1> USE DEF TestInv, TestPoints
  <1>2. CASE ConnectorStep
    <2>1. StageStep /\ at \notin ReservePoints
      BY <1>1, <1>2, StepOf, Whose DEF OwnStep, ControlHostKinds, OemKinds, HookPoints
    <2>2. TestBegin \/ TestCommands \/ TestEnd
      BY <2>1 DEF StageStep, ReserveBegin, ReserveNext, ReserveImport, ReserveCopy, ReserveEnd, At,
         ReservePoints
    <2>3. conf.cmds \in {"list", "empty", "string", "other"}
      BY <1>1 DEF ConfOK, Conf, TestConf, ControlHostKinds, OemKinds
    <2> QED
      BY <1>1, <2>2, <2>3 DEF TestBegin, TestCommands, TestEnd, At, Goto, Again, Raise, End, StartSerial
  <1>3. CASE NextJob
    BY <1>3, EntryPoint
  <1>4. CASE OtherStep
    BY <1>1, <1>4, OthersAlone DEF Alone, ControlHostKinds, stages
  <1> QED
    BY <1>2, <1>3, <1>4 DEF Next

LEMMA ReserveKept ==
    ASSUME IInv, Next, kind = "reserve"
    PROVE  ReserveInv'
  <1>1. ReserveInv /\ Ended
    BY DEF IInv
  <1> USE DEF ReserveInv, ReservePoints, Ended
  <1>2. CASE ConnectorStep
    <2>1. StageStep /\ at \notin TestPoints
      BY <1>1, <1>2, StepOf, Whose DEF OwnStep, ControlHostKinds, OemKinds, HookPoints
    <2>2. ReserveBegin \/ ReserveNext \/ ReserveImport \/ ReserveCopy \/ ReserveEnd
      BY <2>1 DEF StageStep, TestBegin, TestCommands, TestEnd, At, TestPoints
    <2>3. CASE ReserveBegin \/ ReserveNext
      BY <1>1, <2>3 DEF ReserveBegin, ReserveNext, At, Goto, asked
    <2>4. CASE ReserveImport
      BY <1>1, <2>4 DEF ReserveImport, GiveUp, At, Goto, Again, asked
    <2>5. CASE ReserveCopy
      BY <1>1, <2>5 DEF ReserveCopy, GiveUp, At, Goto, Again, asked
    <2>6. CASE ReserveEnd
      BY <1>1, <2>6 DEF ReserveEnd, At, Return, End, asked, stages
    <2> QED
      BY <2>2, <2>3, <2>4, <2>5, <2>6
  <1>3. CASE NextJob
    BY <1>3, EntryPoint
  <1>4. CASE OtherStep
    BY <1>1, <1>4, OthersAlone DEF Alone, ControlHostKinds, stages, asked
  <1> QED
    BY <1>2, <1>3, <1>4 DEF Next

LEMMA FirmwareSteps ==
    ASSUME FirmwareInv, Ended, DiskOK, FirmwareStep
    PROVE  FirmwareInv'
  <1>1. at \in FirmwarePoints /\ Goes(FirmwarePoints)
    BY FirmwareGoes
  <1>2. (at \in FirmwarePoints \cup {"over"})' /\ exit = "running" /\ conf' = conf
    BY <1>1 DEF Goes, asked
  <1> USE <1>2 DEF FirmwareInv, At, Goto, Again, Step, Raise, Return, End, FirmwareEnd, UpdateError
  <1>3. CASE FirmwareBegin \/ Detect \/ CheckVersion
    BY <1>3 DEF FirmwareBegin, Detect, CheckVersion
  <1>4. CASE LvfsInfo \/ Upgrade
    BY <1>4 DEF LvfsInfo, Upgrade
  <1>5. CASE LvfsReboot
    BY <1>5 DEF LvfsReboot, firmware
  <1>6. CASE LvfsConnect \/ LvfsCheck
    BY <1>6 DEF LvfsConnect, LvfsCheck, OnDut, firmware
  <1>7. CASE AskBmc \/ Ilorest \/ Inventory \/ Pack
    BY <1>7 DEF AskBmc, Ilorest, Inventory, Pack, OnIlo
  <1>8. CASE Repository \/ Index \/ Files
    BY <1>8 DEF Repository, Index, Files, FetchPackage, Fetch, Attempt
  <1>9. CASE TaskQueue
    BY <1>9 DEF TaskQueue, OnIlo
  <1>10. CASE Flash \/ HpeReboot \/ PostState
    BY <1>10 DEF Flash, HpeReboot, PostState
  <1>11. CASE HpeConnect \/ HpeCheck
    BY <1>11 DEF HpeConnect, HpeCheck, OnDut, OnIlo, firmware
  <1> QED
    BY <1>3, <1>4, <1>5, <1>6, <1>7, <1>8, <1>9, <1>10, <1>11 DEF FirmwareStep, LvfsStep, HpeStep

LEMMA FirmwareKept ==
    ASSUME IInv, Next, kind = "firmware_update"
    PROVE  FirmwareInv'
  <1>1. FirmwareInv /\ Ended /\ DiskOK
    BY DEF IInv
  <1>2. CASE ConnectorStep
    <2>1. FirmwareStep
      BY <1>1, <1>2, StepOf DEF OwnStep, ControlHostKinds, OemKinds, HookPoints, FirmwareInv,
         FirmwarePoints, Ended
    <2> QED
      BY <1>1, <2>1, FirmwareSteps
  <1>3. CASE NextJob
    BY <1>3, EntryPoint DEF FirmwareInv, FirmwarePoints
  <1>4. CASE OtherStep
    BY <1>1, <1>4, OthersAlone DEF Alone, ControlHostKinds, FirmwareInv, FirmwarePoints, asked
  <1> QED
    BY <1>2, <1>3, <1>4 DEF Next

-----------------------------------------------------------------------------
(***************************************************************************)
(* The connectors with a control host that works for them                  *)
(***************************************************************************)
LEMMA HostSteps ==
    ASSUME HostInv, Ended, DiskOK, ConfOK, kind \in ControlHostKinds, HostStep
    PROVE  HostInv'
  <1>1. conf' = conf /\ kind' = kind
    BY DEF HostStep, IotBegin, HostBegin, Begin, KvmValidate, IotValidate, OemValidate, HostPost,
       HostStream, HostRead, HostStreamEnds, HostStatus, HostAfter, KvmPassword, HostKey, At, asked
  <1>2. NewBoots' = NewBoots /\ UNCHANGED dut
    <2>1. UNCHANGED dut
      BY DEF HostStep, IotBegin, HostBegin, KvmValidate, IotValidate, OemValidate, HostPost, Validated,
         HostStream, HostRead, HostStreamEnds, HostStatus, HostAfter, KvmPassword, HostKey
    <2> QED
      BY <2>1 DEF NewBoots, dut
  <1> USE <1>1, <1>2 DEF HostInv, HostPlaces, Of, HookPoints, HostPoints, HostEarly, HostLate,
              ScriptPoints, AutoPoints, ControlHostKinds, At, Goto, Raise, Return, End, dut
  <1>3. CASE IotBegin \/ HostBegin
    BY <1>3 DEF IotBegin, HostBegin, Begin, StartSerial, host, remotes
  <1>4. CASE KvmValidate \/ IotValidate \/ OemValidate
    BY <1>4 DEF KvmValidate, IotValidate, OemValidate, Validated, host, remotes
  <1>5. CASE HostPost
    BY <1>5 DEF HostPost, Api, NoteIf
  <1>6. CASE HostStream \/ HostRead \/ HostStreamEnds
    BY <1>6 DEF HostStream, HostRead, HostStreamEnds, Api, host, process
  <1>7. CASE HostStatus
    <2>1. UNCHANGED <<mishaps, remote, result>> /\ ("earlier" \in remote => "earlier" \in mishaps)
      BY <1>7 DEF HostStatus, host, remotes
    <2>2. /\ at = "host-status" /\ result \in {"running", "completed", "failed"}
          /\ \/ at' = "host-stream" /\ exit' = exit
             \/ at' = "host-after" /\ exit' = exit /\ result = "completed"
             \/ at' = "over" /\ exit' = "error"
      BY <1>7 DEF HostStatus
    <2> QED
      BY <2>1, <2>2
  <1>8. CASE HostAfter
    <2>1. UNCHANGED <<mishaps, remote, result>> /\ ("earlier" \in remote => "earlier" \in mishaps)
      BY <1>8 DEF HostAfter, host, remotes
    <2>2. /\ at = "host-after" /\ result = "completed"
          /\ \/ at' = "oem-auto-reach" /\ kind = "oem_autoinstall" /\ conf.after = "script" /\ exit' = exit
             \/ at' \in {"host-password", "host-key"} /\ kind # "oem_autoinstall" /\ exit' = exit
             \/ at' = "over" /\ exit' = "ok"
      BY <1>8 DEF HostAfter
    <2> QED
      BY <2>1, <2>2
  <1>9. CASE KvmPassword \/ HostKey
    <2>1. kind = "control_host_iot" => conf.after # "script"
      BY DEF ConfOK, Conf, HostConf, ControlHostKinds, OemKinds
    <2> QED
      BY <1>9, <2>1 DEF KvmPassword, HostKey, host, remotes
  <1> QED
    BY <1>3, <1>4, <1>5, <1>6, <1>7, <1>8, <1>9 DEF HostStep

\* The half of these connectors that needs no control host
LEMMA HostOemSteps ==
    ASSUME HostInv, Ended, DiskOK, kind \in ControlHostKinds, OemStep, UNCHANGED remotes
    PROVE  HostInv'
  <1>1. disk \in [Media -> Contents] /\ "main" \in Media
    BY DEF DiskOK, Media
  <1>2. at \notin NoPoints /\ at \notin RecoverPoints
    BY DEF HostInv, HostPlaces, Of, HookPoints, HostPoints, HostLate, ScriptPoints, AutoPoints,
       NoPoints, RecoverPoints, RecoverLate
  <1>3. ScriptStep \/ AutoStep
    <2>1. ~FakeProvision /\ ~NoProvision /\ ~RecoveryBegin
      BY DEF FakeProvision, NoProvision, RecoveryBegin, Begin, ControlHostKinds
    <2>2. ~NoReset /\ ~NoWait /\ ~RecoveryReach /\ ~RecoveryReset /\ ~RecoveryCommands
      BY <1>2 DEF NoReset, NoWait, RecoveryReach, RecoveryReset, RecoveryCommands, At, NoPoints,
         RecoverPoints, RecoverLate
    <2>3. ASSUME NEW i \in 1..2
          PROVE  ~(CheckGenericClassic(i) \/ CheckDeviceInitialized(i) \/ RecoveryCopy(i))
      <3>1. i = 1 \/ i = 2
        OBVIOUS
      <3> QED
        BY <1>2, <3>1 DEF CheckGenericClassic, CheckDeviceInitialized, RecoveryCopy, At, ClassicAt,
           InitializedAt, CopyAt, RecoverPoints, RecoverLate
    <2> QED
      BY <2>1, <2>2, <2>3 DEF OemStep, RecoveryStep
  <1>4. /\ UNCHANGED <<asked, attached, remote, result>>
        /\ mishaps' = mishaps \/ (AutoBegin /\ mishaps \subseteq mishaps')
    BY <1>3 DEF NoteIf, ScriptStep, AutoStep, OemAsk, dut, host, remotes, ScriptBegin, ScriptReach, ScriptReboot,
       ScriptReset, ScriptCheck, RunRecoveryScript, OemCheck, AutoBegin, AutoReach, AutoReset, AutoCheck,
       AutoFiles, AutoDetect, AutoMounted, AutoFind, AutoMount, AutoValidate, StorageStep, AutoFormat,
       RunDeployScript, AutoCheckAgain, HardReset, Begin, At
  <1>5. kind' = kind /\ conf' = conf
    BY <1>4 DEF asked
  <1>6. at \in ScriptPoints \cup AutoPoints \/ AutoBegin
    BY <1>3 DEF ScriptStep, AutoStep, ScriptBegin, ScriptReach, ScriptReboot, ScriptReset, ScriptCheck,
       RunRecoveryScript, OemCheck, AutoReach, AutoReset, AutoCheck, AutoFiles, AutoDetect, AutoMounted,
       AutoFind, AutoMount, AutoValidate, StorageStep, AutoFormat, RunDeployScript, AutoCheckAgain, At,
       Begin, ScriptPoints, AutoPoints, ControlHostKinds
  <1>7. CASE AutoBegin
    BY <1>4, <1>5, <1>7 DEF AutoBegin, Begin, At, Goto, Return, End, NoteIf, dut, NewBoots, HostInv,
       HostPlaces, Of, HookPoints, HostPoints, HostEarly, HostLate, ScriptPoints, AutoPoints,
       ControlHostKinds
  <1>8. CASE at \in ScriptPoints /\ ScriptStep
    <2>1. conf.after = "script" /\ kind = "control_host_kvm" /\ result \in {"none", "completed"}
      BY <1>8 DEF HostInv, HostPlaces
    <2>2. at' \in ScriptPoints \cup {"over"}
      BY <1>8, <2>1 DEF ScriptStep, ScriptBegin, ScriptReach, ScriptReboot, ScriptReset, ScriptCheck,
         RunRecoveryScript, OemCheck, Begin, At, CopySshId, RunOnControlHost, HardReset, Goto, Return,
         Raise, RaiseRecover, End, ScriptPoints
    <2>3. at' = "oem-check-again" => NewBoots'
      BY <1>1, <1>8, <2>1 DEF ScriptStep, ScriptBegin, ScriptReach, ScriptReboot, ScriptReset, ScriptCheck,
         RunRecoveryScript, OemCheck, Begin, At, CopySshId, RunOnControlHost, HardReset, Goto, Return,
         Raise, RaiseRecover, End, Reinstalled, LeftOver, Write, NewBoots
    <2> QED
      BY <1>4, <1>5, <1>8, <2>1, <2>2, <2>3 DEF HostInv, HostPlaces, Of, HookPoints, HostPoints,
         HostEarly, HostLate, ScriptPoints, AutoPoints, AutoBegin, Begin, At
  <1>9. CASE at \in AutoPoints /\ AutoStep
    <2>1. conf.after = "script" /\ kind = "oem_autoinstall" /\ result \in {"none", "completed"}
      BY <1>9 DEF HostInv, HostPlaces
    <2>2. at' \in AutoPoints \cup {"over"}
      BY <1>9, <2>1 DEF AutoStep, AutoBegin, AutoReach, AutoReset, AutoCheck, AutoFiles, AutoDetect,
         AutoMounted, AutoFind, AutoMount, AutoValidate, StorageStep, PassedOver, AutoFormat,
         RunDeployScript, AutoCheckAgain, Begin, At, CopySshId, HardReset, Goto, Return, Raise, End,
         AutoPoints
    <2>3. at' = "oem-auto-check-again" => NewBoots'
      BY <1>1, <1>9, <2>1 DEF AutoStep, AutoBegin, AutoReach, AutoReset, AutoCheck, AutoFiles, AutoDetect,
         AutoMounted, AutoFind, AutoMount, AutoValidate, StorageStep, PassedOver, AutoFormat,
         RunDeployScript, AutoCheckAgain, Begin, At, CopySshId, HardReset, Goto, Return, Raise, End,
         Reinstalled, LeftOver, Write, NewBoots
    <2> QED
      BY <1>4, <1>5, <1>9, <2>1, <2>2, <2>3 DEF HostInv, HostPlaces, Of, HookPoints, HostPoints,
         HostEarly, HostLate, ScriptPoints, AutoPoints, AutoBegin, Begin, At
  <1>10. (at \in ScriptPoints => ~AutoStep \/ AutoBegin) /\ (at \in AutoPoints => ~ScriptStep)
    <2>1. ASSUME at \in ScriptPoints, AutoStep
          PROVE  AutoBegin
      BY <2>1 DEF AutoStep, AutoReach, AutoReset, AutoCheck, AutoFiles, AutoDetect, AutoMounted,
         AutoFind, AutoMount, AutoValidate, StorageStep, AutoFormat, RunDeployScript, AutoCheckAgain, At,
         ScriptPoints
    <2>2. ASSUME at \in AutoPoints, ScriptStep
          PROVE  FALSE
      BY <2>2 DEF ScriptStep, ScriptBegin, Begin, ScriptReach, ScriptReboot, ScriptReset, ScriptCheck,
         RunRecoveryScript, OemCheck, At, AutoPoints
    <2> QED
      BY <2>1, <2>2
  <1> QED
    BY <1>3, <1>6, <1>7, <1>8, <1>9, <1>10

LEMMA HostOthers ==
    ASSUME IInv, OtherStep, kind \in ControlHostKinds
    PROVE  HostInv'
  <1>1. HostInv /\ Ended /\ DiskOK /\ AtRest
    BY DEF IInv
  <1>2. kind' = kind /\ conf' = conf /\ (UNCHANGED <<at, exit>> \/ Kill) /\ kind # "maas2"
    BY OthersLeave DEF Kill, asked, ControlHostKinds
  <1>3. at' \in {at, "over"}
    BY <1>2 DEF Kill
  <1>4. HostPlaces'
    BY <1>1, <1>2, <1>3 DEF HostInv, HostPlaces, Of, HookPoints, HostPoints, HostLate, ScriptPoints,
       AutoPoints
  <1>5. "over" \notin HostEarly \cup HostLate \cup ScriptPoints \cup AutoPoints
    BY DEF HostEarly, HostLate, ScriptPoints, AutoPoints, HookPoints
  <1>6. CASE FinishRemote
    <2>1. PICK who \in remote :
             /\ remote' = remote \ {who}
             /\ \/ /\ power /\ Write("main", Provisioned(who)) /\ up' = Provisioned(who)
                   /\ result' = IF who = "this" THEN "completed" ELSE result
                \/ /\ disk' \in {disk, [disk EXCEPT !["main"] = "part"]} /\ up' \in {up, "none"}
                   /\ result' = IF who = "this" THEN "failed" ELSE result
      BY <1>6 DEF FinishRemote
    <2>2. /\ falling' = FALSE /\ UNCHANGED <<mishaps, attached>>
          /\ attached = {"main"} /\ who \in {"this", "earlier"}
      BY <1>1, <1>6, <2>1 DEF FinishRemote, HostInv
    <2>3. CASE who = "this"
      <3>1. result = "running" /\ result' \in {"completed", "failed"}
        BY <1>1, <2>1, <2>3 DEF HostInv
      <3>2. at \notin HostEarly \cup HostLate \cup ScriptPoints \cup AutoPoints
        BY <1>1, <3>1 DEF HostInv
      <3>3. result' = "completed" /\ conf.after # "script" => up' = "new"
        BY <2>1, <2>3, <3>1 DEF Provisioned
      <3> QED
        BY <1>1, <1>2, <1>3, <1>4, <1>5, <2>1, <2>2, <2>3, <3>1, <3>2, <3>3
        DEF HostInv, ScriptPoints, AutoPoints
    <2>4. CASE who = "earlier"
      <3>1. "earlier" \in mishaps \/ (result = "none" /\ at \in HostEarly \cup {"over"})
        BY <1>1, <2>1, <2>4 DEF HostInv
      <3>2. HostEarly \cap (ScriptPoints \cup AutoPoints) = {}
        BY DEF HostEarly, ScriptPoints, AutoPoints, HookPoints
      <3>3. at' \notin {"oem-check-again", "oem-auto-check-again"} \/ "earlier" \in mishaps
        BY <1>3, <1>5, <3>1, <3>2 DEF ScriptPoints, AutoPoints
      <3>4. result' = result
        BY <2>1, <2>4
      <3> QED
        BY <1>1, <1>2, <1>3, <1>4, <1>5, <2>1, <2>2, <2>4, <3>1, <3>3, <3>4 DEF HostInv
    <2> QED
      BY <2>2, <2>3, <2>4
  <1>7. CASE ~FinishRemote
    <2>1. /\ UNCHANGED <<mishaps, attached, disk, remote, result>>
          /\ \/ UNCHANGED <<up, falling>>
             \/ UNCHANGED falling /\ ComesUp
             \/ falling /\ falling' = FALSE /\ up' = "none"
      <3>1. CASE GoesDown /\ UNCHANGED remotes
        BY <3>1 DEF GoesDown, host, remotes
      <3>2. CASE ComesUp /\ UNCHANGED remotes
        BY <3>2 DEF ComesUp, host, remotes
      <3>3. CASE Kill /\ UNCHANGED remotes
        BY <3>3 DEF Kill, dut, host, remotes
      <3>4. CASE WriteLog
        BY <3>4 DEF WriteLog, shared, dut, host
      <3>5. CASE FirmwareLands /\ UNCHANGED remotes
        BY <3>5 DEF FirmwareLands, shared, dut, host, remotes
      <3> QED
        BY <1>2, <1>7, <3>1, <3>2, <3>3, <3>4, <3>5, OtherOf
    <2>2. attached = {"main"}
      BY <1>1 DEF HostInv
    <2>3. NewBoots => NewBoots'
      BY <2>1, <2>2, NewBootsOn
    <2>4. up = "new" /\ falling = FALSE => up' = "new" /\ falling' = FALSE
      BY <2>1 DEF ComesUp
    <2> QED
      BY <1>1, <1>2, <1>3, <1>4, <1>5, <2>1, <2>2, <2>3, <2>4 DEF HostInv, ScriptPoints, AutoPoints
  <1> QED
    BY <1>6, <1>7

LEMMA HostKept ==
    ASSUME IInv, Next, kind \in ControlHostKinds
    PROVE  HostInv'
  <1>1. HostInv /\ Ended /\ DiskOK /\ ConfOK
    BY DEF IInv
  <1>2. CASE ConnectorStep
    <2>1. CASE HostStep
      BY <1>1, <2>1, HostSteps
    <2>2. CASE OemStep /\ UNCHANGED remotes
      BY <1>1, <2>2, HostOemSteps
    <2>3. CASE at \in HookPoints /\ HookStep /\ To(HookPoints \cup {"provision"}) /\ UNCHANGED remotes
      <3>1. /\ remote' \in {remote, {}} /\ UNCHANGED <<asked, attached, result>>
            /\ mishaps \subseteq mishaps'
        BY <2>3, RemoteKept, HookFrame DEF remotes
      <3>2. result = "none" /\ "this" \notin remote
        BY <1>1, <2>3 DEF HostInv, HostEarly
      <3> QED
        BY <1>1, <2>3, <3>1, <3>2 DEF HostInv, HostPlaces, To, Of, HookPoints, HostPoints, HostEarly,
           HostLate, ScriptPoints, AutoPoints, asked
    <2> QED
      BY <1>2, <2>1, <2>2, <2>3, StepOf DEF OwnStep, ControlHostKinds, OemKinds
  <1>3. CASE NextJob
    <2>1. /\ at' \in {"hook", "iot"} /\ (at' = "iot" <=> kind = "control_host_iot") /\ kind' = kind
          /\ exit' = "running"
      BY <1>3, EntryPoint DEF ControlHostKinds
    <2>2. /\ attached' = attached /\ result' = "none"
          /\ remote' = IF remote = {} THEN {} ELSE {"earlier"}
      BY <1>3 DEF NextJob, RemoteNextJob
    <2> QED
      BY <1>1, <2>1, <2>2 DEF HostInv, HostPlaces, Of, HookPoints, HostPoints, HostEarly, HostLate,
         ScriptPoints, AutoPoints
  <1>4. CASE OtherStep
    BY <1>4, HostOthers
  <1> QED
    BY <1>2, <1>3, <1>4 DEF Next

LEMMA IotKept ==
    ASSUME IInv, Next, kind = "control_host_iot"
    PROVE  IotInv'
  <1>1. IotInv /\ Ended /\ ConfOK /\ HostInv
    BY DEF IInv, ControlHostKinds
  <1>2. conf.hook \in {"setup", "manage"}
    BY <1>1 DEF ConfOK, Conf, HostConf, ControlHostKinds, OemKinds
  <1>3. CASE ConnectorStep
    <2>1. at # "over" /\ conf' = conf /\ exit = "running"
      BY <1>3, StepOf DEF asked, IInv, Ended
    <2>2. CASE HookStep
      BY <1>1, <1>2, <2>1, <2>2 DEF IotInv, HookStep, Hook, PowerOffHost, RebootHost, SshFallback,
         PowerOnDut, Setup, Manages, At, Goto, Raise, End, NoteIf, dut
    <2>3. CASE HostStep
      <3>1. UNCHANGED power /\ mishaps \subseteq mishaps'
        BY <2>3 DEF NoteIf, Api, HostStep, IotBegin, HostBegin, KvmValidate, IotValidate, OemValidate, Validated,
           HostPost, HostStream, HostRead, HostStreamEnds, HostStatus, HostAfter, KvmPassword, HostKey, dut
      <3>2. CASE at = "iot"
        BY <1>1, <2>1, <2>3, <3>1, <3>2 DEF IotInv, HostStep, IotBegin, HostBegin, KvmValidate, Begin,
           IotValidate, OemValidate, HostPost, HostStream, HostRead, HostStreamEnds, HostStatus,
           HostAfter, KvmPassword, HostKey, At, StartSerial
      <3>3. CASE at # "iot"
        <4>1. power \/ (conf.hook = "manage" /\ "power" \in mishaps)
          BY <1>1, <2>1, <2>3, <3>3 DEF IotInv, HostStep, IotBegin, HostBegin, KvmValidate, Begin,
             IotValidate, OemValidate, HostPost, HostStream, HostRead, HostStreamEnds, HostStatus,
             HostAfter, KvmPassword, HostKey, At
        <4> QED
          BY <2>1, <3>1, <4>1 DEF IotInv
      <3> QED
        BY <3>2, <3>3
    <2>4. ~OemStep
      <3>1. SUFFICES ASSUME OemStep
                     PROVE  FALSE
        OBVIOUS
      <3>2. DiskOK
        BY DEF IInv
      <3>3. CASE at \in NoPoints \cup ScriptPoints \cup RecoverPoints \cup AutoPoints
        BY <1>1, <3>3 DEF HostInv, HostPlaces, Of, HookPoints, HostPoints, HostLate, ScriptPoints,
           AutoPoints, NoPoints, RecoverPoints, RecoverLate
      <3>4. CASE FakeProvision \/ NoProvision \/ ScriptBegin \/ RecoveryBegin \/ AutoBegin
        BY <3>4 DEF FakeProvision, NoProvision, ScriptBegin, RecoveryBegin, AutoBegin, Begin
      <3> QED
        BY <3>1, <3>2, <3>3, <3>4, OemGoes
    <2> QED
      BY <1>3, <2>2, <2>3, <2>4, StepOf DEF OwnStep, ControlHostKinds, OemKinds
  <1>4. CASE NextJob
    <2>1. at' = "iot" /\ power' = power /\ exit' = "running"
      BY <1>4, EntryPoint DEF NextJob
    <2>2. "hook" \in DOMAIN conf
      BY <1>1 DEF ConfOK, Conf, HostConf, ControlHostKinds, OemKinds
    <2>3. conf'.hook = conf.hook
      BY <1>4, <2>2 DEF NextJob, Configured
    <2> QED
      BY <1>1, <2>1, <2>3 DEF IotInv
  <1>5. CASE OtherStep
    <2>1. power' = power /\ conf' = conf /\ mishaps' = mishaps
      <3>1. conf' = conf
        BY <1>5, OthersLeave DEF Kill, asked
      <3>2. power' = power /\ mishaps' = mishaps
        BY <1>5, OtherOf DEF GoesDown, ComesUp, Kill, WriteLog, FinishRemote, FirmwareLands, shared, dut
      <3> QED
        BY <3>1, <3>2
    <2> QED
      BY <1>1, <1>5, <2>1, OthersLeave DEF IotInv, Kill
  <1> QED
    BY <1>3, <1>4, <1>5 DEF Next

-----------------------------------------------------------------------------
(***************************************************************************)
(* maas2                                                                   *)
(***************************************************************************)
LEMMA MaasSteps ==
    ASSUME MaasInv, Ended, DiskOK, kind = "maas2", MaasStep
    PROVE  MaasInv'
  <1>1. (at \in MaasPoints \/ at = "provision") /\ Goes(MaasPoints)
    BY MaasGoes DEF Begin, At
  <1>2. Of(MaasPoints)' /\ conf' = conf /\ exit = "running"
    BY <1>1 DEF Goes, Of, asked
  <1> USE <1>2 DEF MaasInv, LayoutInv, Deploying, AsAsked, Of, HookPoints, MaasCleaning, MaasPlanning,
              MaasSetting, MaasLate, At, Goto, Again, Raise, Return, RaiseRecover, End, dut, storage, maas
  <1>3. CASE MaasBegin
    <2>1. at = "provision" /\ UNCHANGED <<mishaps, dut, node, layout, parts, target>>
      BY <1>3 DEF MaasBegin, Begin
    <2>2. CASE known' = parts /\ exit' = exit
      <3>1. conf.stage = "cleanup" => at' \in {"maas-efi-again", "maas-release"}
        BY <1>3, <2>2 DEF MaasBegin, Recover
      <3>2. at' \in {"maas-efi", "maas-tpm", "maas-efi-again", "maas-release"} /\ (at' = "maas-tpm" => conf.tpm)
        BY <1>3, <2>2 DEF MaasBegin, Recover, StartSerial
      <3> QED
        BY <2>1, <2>2, <3>1, <3>2
    <2>3. CASE at' = "over" /\ exit' = "error" /\ UNCHANGED known
      BY <2>1, <2>3
    <2> QED
      BY <1>3, <2>2, <2>3 DEF MaasBegin, Recover, StartSerial
  <1>4. CASE MaasEfi
    BY <1>4 DEF MaasEfi
  <1>5. CASE MaasTpm
    BY <1>5 DEF MaasTpm, Recover
  <1>6. CASE MaasRelease \/ MaasBreak \/ MaasFix
    BY <1>6 DEF MaasRelease, MaasBreak, MaasFix, Command
  <1>7. CASE MaasPoll
    BY <1>7 DEF MaasPoll, Released, Attempt
  <1>8. CASE MaasPowerOff
    BY <1>8 DEF MaasPowerOff, Command, SwitchOff
  <1>9. CASE MaasStorage
    BY <1>9 DEF MaasStorage
  <1>10. CASE MaasFlat
    BY <1>10 DEF MaasFlat, NoteIf
  <1>11. CASE MaasClear
    BY <1>11 DEF MaasClear
  <1>12. CASE MaasDisks
    BY <1>12 DEF MaasDisks, Process
  <1>13. CASE MaasPartitions
    <2>1. at = "maas-partitions" /\ ((parts' = parts \cup {NextId} /\ at' = "maas-format") \/ at' = "over")
      BY <1>13 DEF MaasPartitions, Process
    <2>2. parts = {} => Cardinality(parts \cup {NextId}) = 1
      <3>1. Cardinality({NextId}) = 1
        BY FS_Singleton
      <3> QED
        BY <3>1
    <2> QED
      BY <1>13, <2>1, <2>2 DEF MaasPartitions, Process
  <1>14. CASE MaasFormat
    BY <1>14 DEF MaasFormat, Process
  <1>15. CASE MaasMount
    BY <1>15 DEF MaasMount, Process, AsksDisks
  <1>16. CASE MaasAllocate \/ MaasSnapshot
    BY <1>16 DEF MaasAllocate, MaasSnapshot, Command
  <1>17. CASE MaasVersion
    BY <1>17 DEF MaasVersion
  <1>18. CASE MaasDeploy
    BY <1>18 DEF MaasDeploy, Command, SetBoot
  <1>19. CASE MaasDeploying \/ MaasFailed
    BY <1>19 DEF MaasDeploying, MaasFailed
  <1> QED
    BY <1>3, <1>4, <1>5, <1>6, <1>7, <1>8, <1>9, <1>10, <1>11, <1>12, <1>13, <1>14, <1>15, <1>16, <1>17,
       <1>18, <1>19 DEF MaasStep

LEMMA MaasOthers ==
    ASSUME IInv, OtherStep, kind = "maas2"
    PROVE  MaasInv'
  <1>1. MaasInv /\ Ended /\ DiskOK
    BY DEF IInv
  <1>2. conf' = conf /\ at' \in {at, "over"} /\ exit' \in {exit, "killed"} /\ (at' # "over" => UNCHANGED <<at, exit>>)
    BY OthersLeave DEF Kill, asked
  <1>3. UNCHANGED <<mishaps, layout, parts, known, target>> /\ falling' = FALSE
    <2>1. CASE MaasWorks
      BY <1>1, <2>1 DEF MaasWorks, MaasReleases, MaasInstalls, MaasDeploys, SwitchOff, dut, shared,
         storage, MaasInv
    <2>2. CASE GoesDown /\ UNCHANGED maas
      BY <1>1, <2>2 DEF GoesDown, MaasInv
    <2>3. CASE ComesUp /\ UNCHANGED maas
      BY <1>1, <2>3 DEF ComesUp, MaasInv, maas, storage
    <2>4. CASE Kill /\ UNCHANGED maas
      BY <1>1, <2>4 DEF Kill, MaasInv, maas, storage, dut
    <2>5. CASE FirmwareLands /\ UNCHANGED maas
      BY <1>1, <2>5 DEF FirmwareLands, MaasInv, maas, storage, shared, dut
    <2> QED
      BY <2>1, <2>2, <2>3, <2>4, <2>5, OtherOf DEF ControlHostKinds
  <1>4. node = "Ready" => node' = "Ready"
    BY OtherOf DEF ControlHostKinds, maas, MaasWorks, MaasReleases, MaasInstalls, MaasDeploys
  <1>5. Deploying => Deploying'
    <2>1. CASE MaasReleases \/ MaasDeploys
      BY <2>1 DEF MaasReleases, MaasDeploys, Deploying, shared, dut, storage
    <2>5. CASE MaasInstalls
      <3>1. target' = target /\ node' = "Starting"
        BY <2>5 DEF MaasInstalls
      <3>2. CASE target = "ram"
        BY <2>5, <3>1, <3>2 DEF MaasInstalls, Deploying
      <3>3. CASE target # "ram"
        <4>1. /\ attached' = {"main"} /\ up' = "none"
              /\ disk' = [disk EXCEPT !["main"] = IF target = "tpm" THEN "old" ELSE "new"]
          BY <2>5, <3>3 DEF MaasInstalls, SetBoot, Write
        <4>2. target # "tpm" => disk'["main"] = "new"
          BY <1>1, <4>1 DEF DiskOK, Media
        <4> QED
          BY <3>1, <4>1, <4>2 DEF Deploying
      <3> QED
        BY <3>2, <3>3
    <2>2. CASE ComesUp /\ UNCHANGED maas
      BY <2>2 DEF ComesUp, maas, Deploying
    <2>3. CASE (Kill \/ FirmwareLands) /\ UNCHANGED maas
      BY <2>3 DEF Kill, FirmwareLands, shared, dut, maas, Deploying
    <2>4. CASE GoesDown
      BY <1>1, <2>4 DEF GoesDown, MaasInv
    <2> QED
      BY <2>1, <2>2, <2>3, <2>4, <2>5, OtherOf DEF ControlHostKinds, MaasWorks
  <1>6. "over" \notin MaasPoints \cup MaasCleaning \cup MaasPlanning \cup MaasSetting \cup MaasLate
    BY DEF MaasPoints, MaasCleaning, MaasPlanning, MaasSetting, MaasLate
  <1>7. conf.stage = "provision" /\ ~conf.tpm => LayoutInv'
    BY <1>1, <1>2, <1>3, <1>6 DEF MaasInv, LayoutInv, AsAsked, MaasSetting, MaasPlanning
  <1> QED
    BY <1>1, <1>2, <1>3, <1>4, <1>5, <1>7 DEF MaasInv, Of

LEMMA MaasKept ==
    ASSUME IInv, Next, kind = "maas2"
    PROVE  MaasInv'
  <1>1. MaasInv /\ Ended /\ DiskOK
    BY DEF IInv
  <1>2. CASE ConnectorStep
    <2>1. CASE MaasStep
      BY <1>1, <2>1, MaasSteps
    <2>2. CASE HookStep /\ ~MaasStep
      <3>1. at \in HookPoints /\ at' \in HookPoints \cup {"provision", "over"} /\ UNCHANGED maas /\ exit' # "ok"
        BY <1>2, <2>2, StepOf DEF OwnStep, To, ControlHostKinds, OemKinds, HookStep, Hook, PowerOffHost,
           RebootHost, SshFallback, PowerOnDut, Setup, Goto, Raise, End, At
      <3> QED
        BY <1>1, <2>2, <3>1, HookFrame DEF MaasInv, LayoutInv, Of, HookPoints, MaasCleaning, MaasPlanning,
           MaasSetting, MaasLate, maas, storage, asked
    <2> QED
      BY <1>2, <2>1, <2>2, StepOf DEF OwnStep, ControlHostKinds, OemKinds
  <1>3. CASE NextJob
    <2>1. at' \in {"hook", "provision"} /\ falling' = falling /\ exit' = "running" /\ target' = "job"
      BY <1>3, EntryPoint DEF NextJob, MaasNextJob
    <2> QED
      BY <1>1, <2>1 DEF MaasInv, LayoutInv, Of, HookPoints, MaasCleaning, MaasPlanning, MaasSetting,
         MaasLate
  <1>4. CASE OtherStep
    BY <1>4, MaasOthers
  <1> QED
    BY <1>2, <1>3, <1>4 DEF Next

-----------------------------------------------------------------------------
(***************************************************************************)
(* The invariant                                                           *)
(***************************************************************************)
LEMMA IInvInit == Init => IInv
  <1> SUFFICES ASSUME Init
               PROVE  IInv
    OBVIOUS
  <1>1. /\ kind \in Kinds /\ conf \in Conf(kind) /\ at = Entry(kind, conf) /\ exit = "running"
        /\ serial = {} /\ power = TRUE /\ attached = {"main"} /\ disk = [m \in Media |-> "old"]
        /\ falling = FALSE /\ remote = {}
    BY DEF Init
  <1>2. /\ at = "hook" \/ at = "iot" \/ at = "provision" \/ at \in {"test", "reserve", "firmware_update"}
        /\ at = "hook" <=> /\ kind \notin {"test", "reserve", "firmware_update", "control_host_iot"}
                           /\ kind # "maas2" \/ conf.stage # "cleanup"
        /\ at = "iot" <=> kind = "control_host_iot"
        /\ at = "provision" <=> kind = "maas2" /\ conf.stage = "cleanup"
        /\ at = "test" <=> kind = "test"
        /\ at = "reserve" <=> kind = "reserve"
        /\ at = "firmware_update" <=> kind = "firmware_update"
    BY <1>1 DEF Entry, DefaultStages
  <1>3. kind \in Kinds /\ ConfOK /\ DiskOK /\ Ended /\ AtRest /\ HomeInv
    BY <1>1, <1>2 DEF Init, ConfOK, DiskOK, Contents, Ended, AtRest, HomeInv, MaasInit
  <1>4. LogInv
    BY <1>2 DEF Init, RemoteInit, LogInv, LogInOrder, LastLogged, GoesOnBehind
  <1>5. kind = "muxpi" => MuxInv
    <2>1. kind = "muxpi" => Medium \in attached \/ "unplugged" \in mishaps
      BY <1>1 DEF Init, Medium
    <2> QED
      BY <1>1, <1>2, <2>1 DEF MuxInv, Of, HookPoints, MuxEarly, MuxWriting
  <1>6. kind = "cm3" => Cm3Inv
    BY <1>1, <1>2 DEF Cm3Inv, Of, HookPoints
  <1>7. kind = "dragonboard" => DragonInv
    BY <1>1, <1>2 DEF DragonInv, Of, HookPoints, DragonLate
  <1>8. kind = "netboot" => NetInv
    BY <1>1, <1>2 DEF NetInv, Of, HookPoints, NetLate
  <1>9. kind \in ControlHostKinds => HostInv
    BY <1>1, <1>2 DEF Init, RemoteInit, HostInv, HostPlaces, Of, HookPoints, HostPoints, HostEarly,
       HostLate, ScriptPoints, AutoPoints, ControlHostKinds
  <1>10. kind = "control_host_iot" => IotInv
    BY <1>1 DEF IotInv
  <1>11. kind \in OemKinds => OemInv
    BY <1>1, <1>2 DEF OemInv, OemKinds, Of, HookPoints, NoPoints, ScriptPoints, RecoverPoints, RecoverLate
  <1>12. kind = "test" => TestInv
    BY <1>2 DEF TestInv, TestPoints
  <1>13. kind = "reserve" => ReserveInv
    BY <1>1, <1>2 DEF ReserveInv, ReservePoints
  <1>14. kind = "firmware_update" => FirmwareInv
    BY <1>1, <1>2 DEF FirmwareInv, FirmwarePoints
  <1>15. kind = "maas2" => MaasInv
    BY <1>1, <1>2 DEF Init, MaasInit, MaasInv, LayoutInv, Of, HookPoints, MaasCleaning, MaasPlanning,
       MaasSetting, MaasLate
  <1> QED
    BY <1>3, <1>4, <1>5, <1>6, <1>7, <1>8, <1>9, <1>10, <1>11, <1>12, <1>13, <1>14, <1>15 DEF IInv

LEMMA IInvStutter ==
    ASSUME IInv, UNCHANGED vars
    PROVE  IInv'
  <1> USE DEF vars, shared, asked, process, dut, host, muxpi, remotes, stages, firmware, maas, storage
  <1>1. (kind \in Kinds /\ ConfOK /\ DiskOK /\ Ended /\ AtRest /\ HomeInv)'
    BY DEF IInv, ConfOK, DiskOK, Ended, AtRest, HomeInv
  <1>2. LogInv'
    <2>1. LastLogged' = LastLogged /\ LogInOrder'
      BY DEF IInv, LogInv, LogInOrder, LastLogged
    <2> QED
      BY <2>1 DEF IInv, LogInv, NoneBetween
  <1>3. (kind = "muxpi" => MuxInv)'
    BY DEF IInv, MuxInv, MuxExcused, Of, Medium
  <1>4. (kind = "cm3" => Cm3Inv)'
    BY DEF IInv, Cm3Inv, Of
  <1>5. (kind = "dragonboard" => DragonInv)'
    BY DEF IInv, DragonInv, Of
  <1>6. (kind = "netboot" => NetInv)'
    BY DEF IInv, NetInv, Of
  <1>7. NewBoots' = NewBoots
    BY DEF NewBoots
  <1>8. (kind \in ControlHostKinds => HostInv)'
    BY <1>7 DEF IInv, HostInv, HostPlaces, Of
  <1>9. (kind = "control_host_iot" => IotInv)'
    BY DEF IInv, IotInv
  <1>10. (kind \in OemKinds => OemInv)'
    BY <1>7 DEF IInv, OemInv, Of
  <1>11. (kind = "test" => TestInv)' /\ (kind = "reserve" => ReserveInv)'
    BY DEF IInv, TestInv, ReserveInv
  <1>12. (kind = "firmware_update" => FirmwareInv)'
    BY DEF IInv, FirmwareInv
  <1>13. Deploying => Deploying'
    BY DEF Deploying
  <1>14. LayoutInv => LayoutInv'
    BY DEF LayoutInv, AsAsked
  <1>15. (kind = "maas2" => MaasInv)'
    BY <1>13, <1>14 DEF IInv, MaasInv, Of
  <1> QED
    BY <1>1, <1>2, <1>3, <1>4, <1>5, <1>6, <1>8, <1>9, <1>10, <1>11, <1>12, <1>15 DEF IInv

LEMMA IInvNext == IInv /\ [Next]_vars => IInv'
  <1>1. ASSUME IInv, Next
        PROVE  IInv'
    <2>1. kind' = kind /\ (kind \in Kinds /\ ConfOK /\ DiskOK /\ Ended /\ AtRest /\ LogInv /\ HomeInv)'
      BY <1>1, KindKept, DiskKept, EndedKept, AtRestKept, LogKept, HomeKept
    <2>2. /\ kind = "muxpi" => MuxInv'
          /\ kind = "cm3" => Cm3Inv'
          /\ kind = "dragonboard" => DragonInv'
          /\ kind = "netboot" => NetInv'
          /\ kind \in ControlHostKinds => HostInv'
          /\ kind = "control_host_iot" => IotInv'
          /\ kind \in OemKinds => OemInv'
          /\ kind = "test" => TestInv'
          /\ kind = "reserve" => ReserveInv'
          /\ kind = "firmware_update" => FirmwareInv'
          /\ kind = "maas2" => MaasInv'
      BY <1>1, MuxKept, Cm3Kept, DragonKept, NetKept, HostKept, IotKept, OemKept, TestKept, ReserveKept,
         FirmwareKept, MaasKept
    <2> QED
      BY <2>1, <2>2 DEF IInv
  <1> QED
    BY <1>1, IInvStutter

\* What the connectors find, write and leave, at each of their points
THEOREM ConnectorsCorrect == Spec => []IInv
  BY IInvInit, IInvNext, PTL DEF Spec

-----------------------------------------------------------------------------
(***************************************************************************)
(* Invariants of the run                                                   *)
(***************************************************************************)
LEMMA StagesDoneHolds == IInv => StagesDone
  <1> SUFFICES ASSUME IInv, exit = "ok"
               PROVE  StagesDone
    BY DEF StagesDone
  <1>1. kind = "reserve" => conf.keys \subseteq authorized \cup refused
    BY DEF IInv, ReserveInv
  <1>2. kind = "firmware_update" /\ ~conf.ignore /\ flashed # {} => targeted \subseteq landed
    BY DEF IInv, FirmwareInv
  <1>3. kind = "maas2" /\ conf.stage = "cleanup" => node = "Ready"
    BY DEF IInv, MaasInv
  <1>4. kind = "maas2" /\ conf.stage = "provision" => AsAsked \/ "layout" \in mishaps \/ conf.tpm
    <2> SUFFICES ASSUME kind = "maas2", conf.stage = "provision", ~conf.tpm
                 PROVE  AsAsked \/ "layout" \in mishaps
      OBVIOUS
    <2>1. LayoutInv
      BY DEF IInv, MaasInv
    <2> QED
      BY <2>1 DEF LayoutInv
  <1> QED
    BY <1>1, <1>2, <1>3, <1>4 DEF StagesDone, AsAsked

\* A stage that has ended well has done all of what was asked: the keys of a
\* reservation, the firmware of each part, the release of a node, its storage.
THEOREM StagesDoAll == Spec => []StagesDone
  BY ConnectorsCorrect, StagesDoneHolds, PTL

LEMMA PutBackHolds == IInv => PutBack
  <1> SUFFICES ASSUME IInv, exit \in {"ok", "error"}
               PROVE  PutBack
    BY DEF PutBack
  <1>1. "this" \notin serial /\ at = "over"
    BY DEF IInv, Ended
  <1>2. kind = "muxpi" => (exit = "ok" => Medium \in attached) /\ (exit = "error" => MuxExcused)
    BY DEF IInv, MuxInv
  <1>3. kind = "control_host_iot" => power \/ "power" \in mishaps
    BY <1>1 DEF IInv, IotInv
  <1> QED
    BY <1>1, <1>2, <1>3 DEF PutBack, MuxExcused

\* However a stage ends by itself its logger is stopped; the multiplexer is
\* switched back if its commands work; and the DUT has power again if the
\* script for that does.
THEOREM TakenIsPutBack == Spec => []PutBack
  BY ConnectorsCorrect, PutBackHolds, PTL

\* The log of a control host is logged in order, and all of it that can be parsed,
\* however often the stream is cut; only entries that follow the last one with an
\* id are logged again.
THEOREM HostLogInOrder == Spec => []LogInOrder
  <1>1. IInv => LogInOrder
    BY DEF IInv, LogInv
  <1> QED
    BY <1>1, ConnectorsCorrect, PTL

-----------------------------------------------------------------------------
(***************************************************************************)
(* Action properties of the run                                            *)
(***************************************************************************)
EndsWell == exit = "running" /\ exit' = "ok" /\ AsksForSystem

LEMMA HookNeverEnds ==
    ASSUME HookStep
    PROVE  exit' # "ok"
  BY DEF HookStep, Hook, PowerOffHost, RebootHost, SshFallback, PowerOnDut, Setup, Goto, Raise, End, At

LEMMA MuxProvisions ==
    ASSUME MuxInv, MuxStep, exit' = "ok"
    PROVE  up' = "new" \/ attached # {Medium}
  <1> USE DEF At, Goto, Again, Raise, Return, RaiseRecover, End
  <1>1. MuxCheck
    BY DEF MuxStep, MuxProvision, MuxBegin, MuxRebootHost, MuxWaitHost, MuxSource, MuxPlug, MuxPlugBoth,
       MuxUnmountFirst, MuxWrite, MuxList, MuxMount, MuxStamp, MuxType, MuxCeOem, MuxTegra, MuxDesktop,
       MuxClassic, UserStep, MuxUnmount, MuxUnplug, MuxReset, HardReset, Begin, StartSerial
  <1> QED
    BY <1>1 DEF MuxCheck, MuxInv, Booted, dut

LEMMA Cm3Provisions ==
    ASSUME Cm3Inv, Cm3Step, exit' = "ok"
    PROVE  up' = "new"
  BY DEF At, Goto, Raise, Return, RaiseRecover, End, Cm3Step, Cm3Begin, Cm3Pin, Cm3Reset, Cm3Install,
     Cm3Look, Cm3User, Cm3Release, Cm3Boot, Cm3Check, Begin, StartSerial, HardReset, Cm3Inv, Booted, dut

LEMMA DragonProvisions ==
    ASSUME DragonInv, DragonStep, exit' = "ok"
    PROVE  up' = "new"
  <1> USE DEF At, Goto, Raise, Return, RaiseRecover, End
  <1>1. DragonCheck
    BY DEF DragonStep, DragonBegin, DragonLook, DragonReset, DragonWait, DragonDownload, DragonCompress,
       DragonFlash, DragonMount, DragonUser, DragonSudo, DragonBoot, Begin, StartSerial, Select,
       HardReset, CompressFile, EndWithServer, OnMaster
  <1> QED
    BY <1>1 DEF DragonCheck, DragonInv, DragonLate, TestImageBooted, Booted, dut

LEMMA NetProvisions ==
    ASSUME NetInv, NetStep, exit' = "ok"
    PROVE  up' = "new"
  <1> USE DEF At, Goto, Raise, Return, RaiseRecover, End, Failed, Then, First, TestBooted
  <1>1. NetTest \/ NetWait
    BY DEF NetStep, NetBegin, NetCompress, NetReboot, NetMaster, NetReset, NetWaitMaster, NetServe,
       NetFlash, NetAfterFlash, Begin, StartSerial, Select, HardReset, CompressFile, RunCmd
  <1> QED
    BY <1>1 DEF NetTest, NetWait, NetInv, NetLate, Booted, dut, Select

LEMMA HostProvisions ==
    ASSUME HostInv, HostStep, exit' = "ok", kind \in ControlHostKinds
    PROVE  up' = "new" \/ "earlier" \in mishaps'
  <1> USE DEF At, Goto, Raise, Return, End
  <1>1. ~(IotBegin \/ HostBegin \/ KvmValidate \/ IotValidate \/ OemValidate)
    BY DEF IotBegin, HostBegin, KvmValidate, IotValidate, OemValidate, Validated, Begin, StartSerial
  <1>2. ~(HostPost \/ HostStream \/ HostRead \/ HostStreamEnds)
    BY DEF HostPost, HostStream, HostRead, HostStreamEnds, Api, process
  <1>3. ~HostStatus
    BY DEF HostStatus, HostInv
  <1>4. ~KvmPassword
    BY DEF KvmPassword
  <1>5. HostAfter \/ HostKey
    BY <1>1, <1>2, <1>3, <1>4 DEF HostStep
  <1>6. result = "completed" /\ conf.after # "script" /\ UNCHANGED <<up, mishaps>>
    <2>1. at \in HostLate /\ UNCHANGED <<up, mishaps>>
      BY <1>5 DEF HostAfter, HostKey, HostLate, dut
    <2>2. conf.after # "script"
      BY <1>5 DEF HostAfter, HostKey, ControlHostKinds
    <2> QED
      BY <2>1, <2>2 DEF HostInv
  <1> QED
    BY <1>6 DEF HostInv

LEMMA OemProvisions ==
    ASSUME kind \in OemKinds => OemInv, kind \in ControlHostKinds => HostInv,
           kind \in OemKinds \cup ControlHostKinds, OemStep, EndsWell
    PROVE  up' = "new" \/ "earlier" \in mishaps' \/ falling'
  <1> USE DEF At, Goto, Raise, Return, RaiseRecover, End, OemAsk, dut
  <1>1. Booted /\ NewBoots => up = "new" \/ falling
    BY DEF Booted, NewBoots
  <1>2. ~(FakeProvision \/ NoProvision)
    BY DEF FakeProvision, NoProvision, Begin, EndsWell, AsksForSystem
  <1>3. ~(NoReset \/ NoWait)
    <2>1. at \notin NoPoints
      BY DEF EndsWell, AsksForSystem, OemInv, HostInv, HostPlaces, Of, HookPoints, HostPoints, HostLate,
         ScriptPoints, AutoPoints, NoPoints
    <2> QED
      BY <2>1 DEF NoReset, NoWait, NoPoints
  <1>4. CASE ScriptStep
    <2>1. OemCheck /\ Booted
      BY <1>4 DEF EndsWell, ScriptStep, ScriptBegin, ScriptReach, ScriptReboot, ScriptReset, ScriptCheck,
         RunRecoveryScript, OemCheck, Begin, CopySshId, RunOnControlHost, HardReset
    <2>2. NewBoots \/ "earlier" \in mishaps
      BY <2>1 DEF OemCheck, OemInv, HostInv
    <2> QED
      BY <1>1, <2>1, <2>2 DEF OemCheck
  <1>5. CASE AutoStep
    <2>1. ~AutoBegin
      BY DEF AutoBegin, Begin, EndsWell, AsksForSystem
    <2>2. AutoCheckAgain /\ Booted
      BY <1>5, <2>1 DEF EndsWell, AutoStep, AutoReach, AutoReset, AutoCheck, AutoFiles, AutoDetect,
         AutoMounted, AutoFind, AutoMount, AutoValidate, StorageStep, PassedOver, AutoFormat,
         RunDeployScript, AutoCheckAgain, CopySshId, HardReset
    <2>3. NewBoots \/ "earlier" \in mishaps
      BY <2>2 DEF AutoCheckAgain, OemInv, HostInv, Of, HookPoints, NoPoints, ScriptPoints, RecoverPoints,
         RecoverLate
    <2> QED
      BY <1>1, <2>2, <2>3 DEF AutoCheckAgain
  <1>6. CASE RecoveryStep
    <2>1. PICK i \in 1..2 : RecoveryCopy(i) /\ Booted /\ i # 1
      <3>1. ~(RecoveryBegin \/ RecoveryReach \/ RecoveryReset \/ RecoveryCommands)
        BY DEF EndsWell, RecoveryBegin, RecoveryReach, RecoveryReset, RecoveryCommands, Begin, CopySshId,
           RunOnControlHost, HardReset
      <3>2. ASSUME NEW i \in 1..2, CheckGenericClassic(i) \/ CheckDeviceInitialized(i)
            PROVE  FALSE
        BY <3>2 DEF EndsWell, CheckGenericClassic, CheckDeviceInitialized, NextRound, Step
      <3>3. ASSUME NEW i \in 1..2, RecoveryCopy(i)
            PROVE  Booted /\ i # 1
        BY <3>3 DEF EndsWell, RecoveryCopy, NextRound
      <3> QED
        BY <1>6, <3>1, <3>2, <3>3 DEF RecoveryStep
    <2>2. at = "oem-copy-again"
      BY <2>1 DEF RecoveryCopy, CopyAt
    <2>3. kind = "oemrecovery"
      BY <2>2 DEF OemInv, HostInv, HostPlaces, Of, HookPoints, HostPoints, HostLate, ScriptPoints,
         AutoPoints, NoPoints, RecoverPoints, RecoverLate
    <2>4. NewBoots
      BY <2>2, <2>3 DEF OemInv, OemKinds, RecoverLate, EndsWell, AsksForSystem
    <2> QED
      BY <1>1, <2>1, <2>4 DEF RecoveryCopy
  <1> QED
    BY <1>2, <1>3, <1>4, <1>5, <1>6 DEF OemStep

LEMMA MaasProvisions ==
    ASSUME MaasInv, MaasStep, EndsWell, kind = "maas2"
    PROVE  up' = "new"
  <1>1. conf.stage = "provision" /\ exit = "running" /\ exit' = "ok"
    BY DEF EndsWell, AsksForSystem
  <1> USE <1>1 DEF At, Goto, Again, Raise, Return, RaiseRecover, End, Command
  <1>2. ~(MaasBegin \/ MaasEfi \/ MaasTpm \/ MaasRelease \/ MaasBreak \/ MaasFix \/ MaasPowerOff)
    BY DEF MaasBegin, MaasEfi, MaasTpm, MaasRelease, MaasBreak, MaasFix, MaasPowerOff, Begin, StartSerial,
       Recover
  <1>3. ~MaasPoll
    BY DEF MaasPoll, Released, Attempt
  <1>4. ~(MaasStorage \/ MaasFlat \/ MaasClear \/ MaasDisks \/ MaasPartitions \/ MaasFormat \/ MaasMount)
    BY DEF MaasStorage, MaasFlat, MaasClear, MaasDisks, MaasPartitions, MaasFormat, MaasMount, Process
  <1>5. ~(MaasAllocate \/ MaasSnapshot \/ MaasVersion \/ MaasDeploy \/ MaasFailed)
    BY DEF MaasAllocate, MaasSnapshot, MaasVersion, MaasDeploy, MaasFailed
  <1>6. MaasDeploying
    BY <1>2, <1>3, <1>4, <1>5 DEF MaasStep
  <1>7. node = "Deployed" /\ target # "tpm" /\ Booted /\ up' = up /\ at = "maas-deploying"
    BY <1>6 DEF MaasDeploying, dut
  <1> QED
    BY <1>7 DEF MaasInv, Deploying, Booted

NewOrExcused ==
    \/ up' = "new"
    \/ kind = "muxpi" /\ attached # {Medium}
    \/ kind \in OemKinds \cup ControlHostKinds /\ falling'
    \/ "earlier" \in mishaps'

LEMMA ProvisionedStep ==
    ASSUME IInv, Next, EndsWell
    PROVE  NewOrExcused
  <1>1. ConnectorStep
    BY OthersLeave DEF Next, NextJob, Kill, EndsWell
  <1>2. OwnStep
    BY <1>1, StepOf
  <1>3. kind \notin {"test", "reserve", "firmware_update"}
    BY DEF EndsWell, AsksForSystem, DefaultStages
  <1>4. ~HookStep
    BY HookNeverEnds DEF EndsWell
  <1>5. exit' = "ok"
    BY DEF EndsWell
  <1> QED
    BY <1>2, <1>3, <1>4, <1>5, MuxProvisions, Cm3Provisions, DragonProvisions, NetProvisions, HostProvisions,
       OemProvisions, MaasProvisions DEF OwnStep, IInv, NewOrExcused

\* A connector that says that the DUT is provisioned has seen the system that the
\* job asks for, unless a multiplexed board has another medium to boot from, the
\* machine is still to go down, or the control host worked for an earlier one.
THEOREM ProvisionedIsNew == Spec => ProvisionedAsAsked
  <1>1. IInv /\ [Next]_vars => [EndsWell => NewOrExcused]_vars
    BY ProvisionedStep
  <1> QED
    BY <1>1, ConnectorsCorrect, PTL DEF Spec, ProvisionedAsAsked, EndsWell, NewOrExcused

LEMMA MuxWritesSafely ==
    ASSUME MuxInv, MuxStep, disk'[Medium] # disk[Medium]
    PROVE  /\ Medium \notin attached
           /\ at = "mux-write" => "unmount" \in mishaps \/ \A p \in mounted : p[1] # Medium
  <1>1. at \in MuxWriting \cup {"mux-flash", "mux-write"}
    BY DEF MuxStep, MuxProvision, MuxBegin, MuxRebootHost, MuxWaitHost, MuxSource, MuxPlug, MuxPlugBoth,
       MuxUnmountFirst, MuxWrite, MuxList, MuxMount, MuxStamp, MuxType, MuxCeOem, MuxTegra, MuxDesktop,
       MuxClassic, UserStep, MuxUnmount, MuxUnplug, MuxReset, MuxCheck, HardReset, Begin, At, Goto, dut,
       MuxWriting, Raise, RaiseRecover, End
  <1> QED
    BY <1>1 DEF MuxInv

LEMMA Cm3WritesSafely ==
    ASSUME Cm3Inv, Cm3Step, disk' # disk
    PROVE  up = "service"
  BY DEF Cm3Step, Cm3Begin, Cm3Pin, Cm3Reset, Cm3Install, Cm3Look, Cm3User, Cm3Release, Cm3Boot, Cm3Check,
     HardReset, At, dut, Cm3Inv

LEMMA HomeFormattedSafely ==
    ASSUME HomeInv, OemStep, home' = "formatted"
    PROVE  home # "mounted"
  <1>1. CASE AutoFormat
    BY <1>1 DEF AutoFormat, At, HomeInv
  <1>2. CASE home' = home
    BY <1>2
  <1>3. CASE AutoMount \/ AutoValidate
    BY <1>3 DEF AutoMount, AutoValidate, StorageStep, PassedOver
  <1>4. AutoFormat \/ AutoMount \/ AutoValidate \/ home' = home
    BY DEF OemStep, ScriptStep, RecoveryStep, AutoStep, OemAsk, FakeProvision, NoProvision,
       NoReset, NoWait, ScriptBegin, ScriptReach, ScriptReboot, ScriptReset, ScriptCheck,
       RunRecoveryScript, OemCheck, RecoveryBegin, RecoveryReach, RecoveryReset, RecoveryCommands,
       CheckGenericClassic, CheckDeviceInitialized, RecoveryCopy, AutoBegin, AutoReach, AutoReset,
       AutoCheck, AutoFiles, AutoDetect, AutoMounted, AutoFind, StorageStep, PassedOver,
       RunDeployScript, AutoCheckAgain
  <1> QED
    BY <1>1, <1>2, <1>3, <1>4

SafeStep ==
    /\ kind = "muxpi" /\ disk'[Medium] # disk[Medium] /\ exit = "running" =>
          /\ Medium \notin attached
          /\ at = "mux-write" => "unmount" \in mishaps \/ \A p \in mounted : p[1] # Medium
    /\ kind = "cm3" /\ disk' # disk /\ exit = "running" => up = "service"
    /\ home' = "formatted" => home # "mounted"

LEMMA WrittenStep ==
    ASSUME IInv, Next
    PROVE  SafeStep
  <1>1. ASSUME kind \in {"muxpi", "cm3"}, disk' # disk, exit = "running"
        PROVE  (kind = "muxpi" /\ MuxStep) \/ (kind = "cm3" /\ Cm3Step)
    <2>1. ConnectorStep
      BY <1>1, OthersAlone DEF Next, NextJob, Alone, ControlHostKinds
    <2> QED
      BY <1>1, <2>1, StepOf, HookFrame DEF OwnStep, ControlHostKinds, OemKinds
  <1>2. kind = "muxpi" /\ disk'[Medium] # disk[Medium] /\ exit = "running" =>
            /\ Medium \notin attached
            /\ at = "mux-write" => "unmount" \in mishaps \/ \A p \in mounted : p[1] # Medium
    BY <1>1, MuxWritesSafely DEF IInv
  <1>3. kind = "cm3" /\ disk' # disk /\ exit = "running" => up = "service"
    BY <1>1, Cm3WritesSafely DEF IInv
  <1>4. home' = "formatted" => home # "mounted"
    <2>1. OemStep \/ UNCHANGED home
      <3>1. CASE ConnectorStep
        BY <3>1 DEF ConnectorStep
      <3>2. CASE NextJob
        BY <3>2 DEF NextJob
      <3>3. CASE OtherStep
        BY <3>3 DEF OtherStep
      <3> QED
        BY <3>1, <3>2, <3>3 DEF Next
    <2> QED
      BY <2>1, HomeFormattedSafely DEF IInv
  <1> QED
    BY <1>2, <1>3, <1>4 DEF SafeStep

\* Nobody else uses what a connector writes, unless umount has failed for it.
THEOREM NothingElseWrites == Spec => WrittenSafely
  <1>1. IInv /\ [Next]_vars => [SafeStep]_vars
    BY WrittenStep
  <1> QED
    BY <1>1, ConnectorsCorrect, PTL DEF Spec, WrittenSafely, SafeStep
=============================================================================
