----------------------------- MODULE OemImages ------------------------------
(***************************************************************************)
(* The connectors of machines that reinstall themselves from a recovery    *)
(* image (oemscript, also for hp, dell and lenovo; oemrecovery;            *)
(* oem_autoinstall), and of those that install nothing (noprovision,       *)
(* fake_connector).  The DUT has to be up to be provisioned.               *)
(*                                                                         *)
(* conf.after is "script" if there is something to install: an url, or     *)
(* recovery commands.                                                      *)
(***************************************************************************)
EXTENDS Connector

VARIABLE home    \* the partition of the test user's home (oem_autoinstall):
                 \* "unmounted", "mounted" or "formatted"

OemKinds == {"oemscript", "oemrecovery", "noprovision", "fake_connector"}
OemConf  == [hook : {"setup", "cycle"}, after : {"return", "script"}]

\* What only asks the machine
OemAsk == UNCHANGED <<mishaps, dut, host, home>>

\* ssh-copy-id, whose timeout is no CalledProcessError
CopySshId(copied, refused) ==
    \/ Booted /\ Goto(copied)
    \/ Goto(refused)
    \/ Raise

\* A command over ssh to the machine, which ends, fails, or is given up
RunOnControlHost(Done, Failed) == (Booted /\ Done) \/ Failed

-----------------------------------------------------------------------------
(***************************************************************************)
(* noprovision and fake_connector                                          *)
(***************************************************************************)
FakeProvision == Begin("fake_connector") /\ Return /\ OemAsk

NoProvision ==
    /\ Begin("noprovision")
    /\ \/ Booted /\ Return
       \/ Goto("oem-reset-none")
    /\ OemAsk

\* Only a script that takes too long is a RecoveryError.
NoReset ==
    /\ At("oem-reset-none")
    /\ HardReset("oem-wait-none", RaiseRecover \/ Raise)
    /\ UNCHANGED <<mishaps, host, home>>

NoWait ==
    /\ At("oem-wait-none")
    /\ \/ Booted /\ Return
       \/ Raise
    /\ OemAsk

-----------------------------------------------------------------------------
(***************************************************************************)
(* oemscript, also at the end of control_host_kvm: from "oem-reach"        *)
(***************************************************************************)
ScriptBegin == Begin("oemscript") /\ Goto("oem-reach") /\ OemAsk

ScriptReach ==
    /\ At("oem-reach")
    /\ CopySshId("oem-reboot", "oem-reset")
    /\ OemAsk

\* A machine that answers is told to reboot; nobody looks whether it does.
ScriptReboot ==
    /\ At("oem-reboot")
    /\ RunOnControlHost(falling' \in BOOLEAN /\ Goto("oem-check"),
                        UNCHANGED falling /\ (Goto("oem-check") \/ Raise))
    /\ UNCHANGED <<mishaps, power, up, attached, disk, host, home>>

ScriptReset ==
    /\ At("oem-reset")
    /\ HardReset("oem-check", RaiseRecover)
    /\ UNCHANGED <<mishaps, host, home>>

\* Without an url it ends only here, the machine rebooted.
ScriptCheck ==
    /\ At("oem-check")
    /\ \/ Booted /\ IF conf.after = "script" THEN Goto("oem-run") ELSE Raise
       \/ Raise
    /\ OemAsk

\* What an installation makes of the machine: it is "new" and started again, or
\* about to be; or it is left in the middle.
Reinstalled ==
    /\ Booted /\ Write("main", "new")
    /\ \/ up' = "new" /\ falling' = FALSE
       \/ falling' = TRUE /\ UNCHANGED up
LeftOver ==
    /\ \/ Booted /\ Write("main", "part") /\ up' = "none"
       \/ UNCHANGED <<disk, up>>
    /\ UNCHANGED falling

\* recovery-from-iso.sh waits a while before it looks whether the machine is
\* back, and may find it not yet gone.
RunRecoveryScript ==
    /\ At("oem-run")
    /\ \/ Reinstalled /\ Goto("oem-check-again")
       \/ LeftOver /\ Raise
    /\ UNCHANGED <<mishaps, power, attached, host, home>>

\* check_device_booted
OemCheck ==
    /\ At("oem-check-again")
    /\ \/ Booted /\ Return
       \/ Raise
    /\ OemAsk

ScriptStep ==
    \/ ScriptBegin \/ ScriptReach \/ ScriptReboot \/ ScriptReset \/ ScriptCheck
    \/ RunRecoveryScript \/ OemCheck

-----------------------------------------------------------------------------
(***************************************************************************)
(* oemrecovery: the machine counts as booted when it runs a classic image, *)
(* or has initialized itself, and takes the key.  It is looked at before   *)
(* (if it had to be reset) and after the commands.                         *)
(***************************************************************************)
ClassicAt     == <<"oem-classic", "oem-classic-again">>
InitializedAt == <<"oem-initialized", "oem-initialized-again">>
CopyAt        == <<"oem-copy", "oem-copy-again">>

RecoveryBegin == Begin("oemrecovery") /\ Goto("oem-recovery-reach") /\ OemAsk

RecoveryReach ==
    /\ At("oem-recovery-reach")
    /\ CopySshId("oem-recover", "oem-recovery-reset")
    /\ OemAsk

RecoveryReset ==
    /\ At("oem-recovery-reset")
    /\ HardReset(ClassicAt[1], RaiseRecover)
    /\ UNCHANGED <<mishaps, host, home>>

\* The next round of check_device_booted, for an hour
NextRound(i) ==
    \/ tries + 1 < MaxTries /\ tries' = tries + 1 /\ at' = ClassicAt[i] /\ UNCHANGED <<exit, serial>>
    \/ tries + 1 = MaxTries /\ Raise

CheckGenericClassic(i) ==
    /\ At(ClassicAt[i])
    /\ \/ Booted /\ (Step(CopyAt[i]) \/ Step(InitializedAt[i]))
       \/ NextRound(i)
    /\ OemAsk

CheckDeviceInitialized(i) ==
    /\ At(InitializedAt[i])
    /\ \/ Booted /\ Step(CopyAt[i])
       \/ NextRound(i)
    /\ OemAsk

RecoveryCopy(i) ==
    /\ At(CopyAt[i])
    /\ \/ Booted /\ IF i = 1 THEN Goto("oem-recover") ELSE Return
       \/ NextRound(i)
    /\ OemAsk

\* The commands end before the machine has gone; without any of them nothing
\* is done.
RecoveryCommands ==
    /\ At("oem-recover")
    /\ IF conf.after # "script" THEN Goto(ClassicAt[2]) /\ UNCHANGED <<disk, up, falling>>
       ELSE RunOnControlHost(
                /\ Write("main", "new") /\ Goto(ClassicAt[2])
                /\ \/ up' = "none" /\ falling' = FALSE
                   \/ falling' = TRUE /\ UNCHANGED up,
                LeftOver /\ Raise)
    /\ UNCHANGED <<mishaps, power, attached, host, home>>

RecoveryStep ==
    \/ RecoveryBegin \/ RecoveryReach \/ RecoveryReset \/ RecoveryCommands
    \/ \E i \in 1..2 : CheckGenericClassic(i) \/ CheckDeviceInitialized(i) \/ RecoveryCopy(i)

-----------------------------------------------------------------------------
(***************************************************************************)
(* oem_autoinstall, with or without the control host before it             *)
(***************************************************************************)
\* Nobody looks whether the control host still installs the machine, either.
AutoBegin ==
    /\ Begin("oem_autoinstall") /\ ~conf.iso
    /\ IF conf.after = "script" THEN Goto("oem-auto-reach") ELSE Return
    /\ NoteIf(remote # {}, "earlier")
    /\ UNCHANGED <<dut, host, home>>

AutoReach ==
    /\ At("oem-auto-reach")
    /\ CopySshId("oem-files", "oem-auto-reset")
    /\ OemAsk

AutoReset ==
    /\ At("oem-auto-reset")
    /\ HardReset("oem-auto-check", Raise)
    /\ UNCHANGED <<mishaps, host, home>>

AutoCheck ==
    /\ At("oem-auto-check")
    /\ \/ Booted /\ Goto("oem-files")
       \/ Raise
    /\ OemAsk

\* copy_to_deploy_path: files of the job that are not attached are an error.
AutoFiles ==
    /\ At("oem-files")
    /\ \/ Goto("oem-detect")
       \/ Raise
    /\ OemAsk

\* prepare_storage_when_bootstrap: every error is passed over, and the storage
\* left as it is.  A step asks the machine with _run_storage_ssh.
PassedOver == Goto("oem-deploy") /\ UNCHANGED home
StorageStep(point, Outcome) ==
    /\ At(point)
    /\ \/ PassedOver
       \/ Booted /\ Outcome
    /\ UNCHANGED <<mishaps, dut, host>>

\* Is it in its bootstrap stage, and home not yet mounted as it should be?
AutoDetect  == StorageStep("oem-detect", Goto("oem-mounted") /\ UNCHANGED home)
AutoMounted == StorageStep("oem-mounted", Goto("oem-find") /\ UNCHANGED home)

\* The one partition that there is is mounted; one that is mounted elsewhere is
\* an error.
AutoFind ==
    StorageStep("oem-find",
        /\ home # "mounted"
        /\ Goto("oem-mount") \/ Goto("oem-format")
        /\ UNCHANGED home)

AutoMount ==
    StorageStep("oem-mount",
        \/ Goto("oem-validate") /\ home' = "mounted"
        \/ Goto("oem-format") /\ UNCHANGED home)

\* A partition that does not pass is formatted, if it can be unmounted.
AutoValidate == StorageStep("oem-validate", Goto("oem-format") /\ home' = "unmounted")

\* The new home has no keys yet.
AutoFormat ==
    /\ At("oem-format")
    /\ home' \in {home, "formatted"}
    /\ Goto("oem-deploy")
    /\ UNCHANGED <<mishaps, dut, host>>

RunDeployScript ==
    /\ At("oem-deploy")
    /\ \/ Reinstalled /\ Goto("oem-auto-check-again")
       \/ LeftOver /\ Raise
    /\ UNCHANGED <<mishaps, power, attached, host, home>>

AutoCheckAgain ==
    /\ At("oem-auto-check-again")
    /\ \/ Booted /\ Return
       \/ Raise
    /\ OemAsk

AutoStep ==
    \/ AutoBegin \/ AutoReach \/ AutoReset \/ AutoCheck \/ AutoFiles \/ AutoDetect
    \/ AutoMounted \/ AutoFind \/ AutoMount \/ AutoValidate \/ AutoFormat
    \/ RunDeployScript \/ AutoCheckAgain

OemStep ==
    \/ FakeProvision \/ NoProvision \/ NoReset \/ NoWait
    \/ ScriptStep \/ RecoveryStep \/ AutoStep
=============================================================================
