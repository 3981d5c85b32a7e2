------------------------------- MODULE Muxpi --------------------------------
(***************************************************************************)
(* The connector of boards whose storage a multiplexer plugs either to the *)
(* control host ("test server") or to the DUT, and that of Compute Module  *)
(* 3 boards, whose storage the control host sees while a GPIO pin is high. *)
(*                                                                         *)
(* conf.media is what the job says of the medium; conf.cli, whether the    *)
(* switch command names mux devices.                                       *)
(***************************************************************************)
EXTENDS Connector, SequencesExt

CONSTANTS
    Parts,        \* the labelled partitions of an image, as lsblk lists them
    MuxHooks,     \* bound: what there is of the hook
    MuxMedia      \* bound: what jobs say of the medium

ASSUME MuxpiAssumption ==
    /\ MuxHooks \subseteq {"setup", "cycle", "manage"}
    /\ MuxMedia \subseteq {"none", "sd", "usb", "other"}

VARIABLES
    mountList,    \* what remote_mount goes through, and unmounts at the end
    mounted       \* <<medium, partition>> that are mounted on the control host

muxpi == <<mountList, mounted>>

Medium == IF conf.media = "usb" THEN "usb" ELSE "main"

MuxpiConf ==
    {c \in [hook : MuxHooks, media : MuxMedia,
            cli : BOOLEAN, serial : BOOLEAN] : c.serial = (c.hook = "setup")}

MuxProvision ==
    /\ Begin("muxpi")
    /\ StartSerial("mux-begin")
    /\ UNCHANGED <<mishaps, dut, host, muxpi>>

\* Without the switch command of a mux the control host and the DUT are reset.
MuxBegin ==
    /\ At("mux-begin")
    /\ Goto(IF conf.cli \/ conf.hook = "setup" THEN "mux-source" ELSE "mux-reboot-host")
    /\ UNCHANGED <<mishaps, dut, host, muxpi>>

MuxRebootHost ==
    /\ At("mux-reboot-host")
    /\ \/ RestartHost /\ HardReset("mux-wait", RaiseRecover)
       \/ Raise /\ answers' \in {answers, "nothing"} /\ UNCHANGED <<dut, remote>>
    /\ UNCHANGED <<mishaps, muxpi>>

MuxWaitHost ==
    /\ At("mux-wait")
    /\ IF SshAnswers THEN Goto("mux-source") ELSE Raise
    /\ UNCHANGED <<mishaps, dut, host, muxpi>>

\* The job names an image, or has attached one.
MuxSource ==
    /\ At("mux-source")
    /\ Goto("mux-plug") \/ Raise
    /\ UNCHANGED <<mishaps, dut, host, muxpi>>

\* _storage_plug_to_self of the one medium that control_switch_local_cmd is about;
\* a command that failed may have worked.
MuxPlug ==
    /\ At("mux-plug") /\ conf.media = "none"
    /\ \/ SetBoot(attached \ {Medium}) /\ Goto("mux-flash") /\ mishaps' = mishaps \ {"unplugged"}
       \/ attached' \in {attached, attached \ {Medium}} /\ Raise /\ NoteIf(TRUE, "switch")
    /\ UNCHANGED <<power, disk, up, falling, host, muxpi>>

\* Of two media both are plugged, and errors suppressed.  Only the node of the
\* medium that the job names is missed.
MuxPlugBoth ==
    /\ At("mux-plug") /\ conf.media # "none"
    /\ IF ~conf.cli THEN Raise /\ UNCHANGED <<attached, mishaps>> ELSE
       \E answered \in SUBSET Media :
          /\ attached' \in SUBSET (attached \ answered)
          /\ IF conf.media = "other" THEN Raise
             ELSE Goto(IF Medium \in answered THEN "mux-flash" ELSE "mux-unplug-and-raise")
          /\ mishaps' = mishaps \ {"unplugged"}
    /\ UNCHANGED <<power, disk, up, falling, host, muxpi>>

\* Mutant: what an earlier job has left mounted stays so.
MuxSkipUnmount ==
    /\ At("mux-flash")
    /\ Goto("mux-write")
    /\ UNCHANGED <<mishaps, dut, host, muxpi>>

\* unmount_writable_partition, which is allowed to fail: a partition that is
\* still used stays mounted.
MuxUnmountFirst ==
    /\ At("mux-flash")
    /\ Goto("mux-write")
    /\ \E used \in SUBSET {p \in mounted : p[1] = Medium} :
          /\ mounted' = {p \in mounted : p[1] # Medium} \cup used
          /\ NoteIf(used # {}, "unmount")
    /\ UNCHANGED <<dut, host, mountList>>

\* flash_test_image: the download may fail, the transfer, or the rescan.  With
\* a test user to be created the image is not yet what the job asks for.
MuxWrite ==
    /\ At("mux-write")
    /\ \/ Goto("mux-unplug-and-raise") /\ UNCHANGED disk
       \/ Goto("mux-unplug-and-raise") /\ Write(Medium, "part")
       \/ Goto("mux-unplug") /\ Write(Medium, "new")
       \/ Goto("mux-list") /\ Write(Medium, "part")
    /\ UNCHANGED <<mishaps, power, attached, up, falling, host, muxpi>>

\* _get_part_labels, which may be too early for some of the labels
MuxList ==
    /\ At("mux-list")
    /\ \/ Goto("mux-mount") /\ \E n \in 0..Len(Parts) : mountList' = SubSeq(Parts, 1, n)
       \/ Goto("mux-unplug-and-raise") /\ UNCHANGED mountList
    /\ UNCHANGED <<mishaps, dut, host, mounted>>

\* remote_mount removes what it cannot mount from the list it goes through,
\* so that it passes over the next one.
MuxMount ==
    /\ At("mux-mount")
    /\ IF tries >= Len(mountList) THEN Goto("mux-user") /\ UNCHANGED muxpi ELSE
       /\ Again
       /\ \/ mounted' = mounted \cup {<<Medium, mountList[tries + 1]>>} /\ UNCHANGED mountList
          \/ mountList' = RemoveAt(mountList, tries + 1) /\ UNCHANGED mounted
    /\ UNCHANGED <<mishaps, dut, host>>

MountedSome == \E i \in 1..Len(Parts) : <<Medium, Parts[i]>> \in mounted
MountedAll  == \A i \in 1..Len(Parts) : <<Medium, Parts[i]>> \in mounted

\* check_ce_oem_iot_image: a build stamp that is no number is not expected.
MuxStamp ==
    /\ At("mux-user")
    /\ \/ MountedSome /\ (Goto("mux-ce-oem") \/ Goto("mux-unmount-and-raise"))
       \/ Goto("mux-type")
    /\ UNCHANGED <<mishaps, dut, host, muxpi>>

\* get_image_type finds what is mounted; anything else counts as a classic image.
MuxType ==
    /\ At("mux-type")
    /\ \/ MountedSome /\ (Goto("mux-tegra") \/ Goto("mux-desktop") \/ Goto("mux-core20"))
       \/ Goto("mux-classic")
    /\ UNCHANGED <<mishaps, dut, host, muxpi>>

\* create_user: each command, and each copy to the control host, may fail.
UserStep(point, Created) ==
    /\ At(point)
    /\ \/ Created
       \/ Goto("mux-unmount-and-raise") /\ UNCHANGED disk
    /\ UNCHANGED <<mishaps, power, attached, up, falling, host, muxpi>>

\* The files of other images come in addition to those of an IoT image.
MuxCeOem == UserStep("mux-ce-oem", Goto("mux-classic") /\ UNCHANGED disk)

\* Files that these change are on the partition by which they were found.
MuxTegra   == UserStep("mux-tegra", MountedSome /\ Goto("mux-unmount") /\ Write(Medium, "new"))
MuxDesktop == UserStep("mux-desktop", MountedSome /\ Goto("mux-unmount") /\ Write(Medium, "new"))

\* Files for a partition that is not mounted are written to the control host.
MuxClassic ==
    \E point \in {"mux-core20", "mux-classic"} :
        UserStep(point, /\ Goto("mux-unmount")
                        /\ \/ Write(Medium, "new")
                           \/ ~MountedAll /\ UNCHANGED disk)

\* The end of remote_mount, which stops at the first error.
MuxUnmount ==
    /\ \/ At("mux-unmount")
       \/ At("mux-unmount-and-raise")
    /\ IF tries = Len(mountList)
       THEN /\ Goto(IF at = "mux-unmount" THEN "mux-unplug" ELSE "mux-unplug-and-raise")
            /\ mountList' = <<>> /\ UNCHANGED mounted
       ELSE LET part == <<Medium, mountList[tries + 1]>> IN
            \/ part \in mounted /\ Again /\ mounted' = mounted \ {part} /\ UNCHANGED mountList
            \/ /\ Goto("mux-unplug-and-raise") /\ mountList' = <<>>
               /\ mounted' \in {mounted, mounted \ {part}}
    /\ UNCHANGED <<mishaps, dut, host>>

\* Mutant: the storage is not plugged back after an error.
MuxUnplugAfterSuccess ==
    /\ \/ At("mux-unplug") /\ Goto("mux-reset") /\ attached' = attached \cup {Medium}
       \/ At("mux-unplug-and-raise") /\ Raise /\ UNCHANGED attached
    /\ UNCHANGED <<mishaps, power, disk, up, falling, host, muxpi>>

\* The end of _storage_plug_to_self, after the post provision script
MuxUnplug ==
    /\ \/ At("mux-unplug")
       \/ At("mux-unplug-and-raise")
    /\ \/ /\ attached' = attached \cup {Medium}
          /\ IF at = "mux-unplug" THEN Goto("mux-reset") ELSE Raise
          /\ UNCHANGED mishaps
       \/ /\ attached' \in {attached, attached \cup {Medium}}
          /\ Raise
          /\ NoteIf(TRUE, "switch")
    /\ UNCHANGED <<power, disk, up, falling, host, muxpi>>

MuxReset ==
    /\ At("mux-reset")
    /\ HardReset("mux-check", RaiseRecover)
    /\ UNCHANGED <<mishaps, host, muxpi>>

\* check_test_image_booted
MuxCheck ==
    /\ At("mux-check")
    /\ \/ Booted /\ Return
       \/ Raise
    /\ UNCHANGED <<mishaps, dut, host, muxpi>>

MuxStep ==
    \/ MuxProvision \/ MuxBegin \/ MuxRebootHost \/ MuxWaitHost \/ MuxSource \/ MuxPlug \/ MuxPlugBoth
    \/ MuxUnmountFirst \/ MuxWrite \/ MuxList \/ MuxMount \/ MuxStamp \/ MuxType
    \/ MuxCeOem \/ MuxTegra \/ MuxDesktop \/ MuxClassic \/ MuxUnmount \/ MuxUnplug
    \/ MuxReset \/ MuxCheck

-----------------------------------------------------------------------------
(***************************************************************************)
(* CM3: the installer runs on the control host, and while the pin is high  *)
(* the board offers its storage over USB instead of booting from it.       *)
(***************************************************************************)
Cm3Conf == [hook : {"setup", "cycle"}, media : {"none"}, serial : BOOLEAN]

\* Then the pin is set; each command may fail, or be executed and not answered.
Cm3Begin ==
    /\ Begin("cm3")
    /\ StartSerial("cm3-pin")
    /\ UNCHANGED <<mishaps, dut, host, muxpi>>

Cm3Pin ==
    /\ At("cm3-pin")
    /\ \/ SetBoot({"service"}) /\ Goto("cm3-reset")
       \/ attached' \in {attached, {"service"}} /\ Raise
    /\ UNCHANGED <<mishaps, power, disk, up, falling, host, muxpi>>

Cm3Reset ==
    /\ At("cm3-reset")
    /\ HardReset("cm3-install", RaiseRecover)
    /\ UNCHANGED <<mishaps, host, muxpi>>

\* cm3-installer, which writes the storage of a board that offers it
Cm3Install ==
    /\ At("cm3-install")
    /\ \/ up = "service" /\ Write("main", "part") /\ Goto("cm3-look")
       \/ up = "service" /\ Write("main", "part") /\ Raise
       \/ Raise /\ UNCHANGED disk
    /\ UNCHANGED <<mishaps, power, attached, up, falling, host, muxpi>>

\* get_image_type mounts each partition in turn and suppresses errors; if it
\* has found none the last partition is taken.
Cm3Look ==
    /\ At("cm3-look")
    /\ Goto("cm3-user") \/ Raise
    /\ UNCHANGED <<mishaps, dut, host, muxpi>>

\* On a partition that is not the one to be changed the image stays as it was.
Cm3User ==
    /\ At("cm3-user")
    /\ \/ Raise /\ UNCHANGED disk
       \/ Goto("cm3-release") /\ (Write("main", "new") \/ UNCHANGED disk)
    /\ UNCHANGED <<mishaps, power, attached, up, falling, host, muxpi>>

\* sync, power-off of the storage, and the pin
Cm3Release ==
    /\ At("cm3-release")
    /\ \/ SetBoot({"main"}) /\ Goto("cm3-boot")
       \/ attached' \in {attached, {"main"}} /\ Raise
    /\ UNCHANGED <<mishaps, power, disk, up, falling, host, muxpi>>

Cm3Boot ==
    /\ At("cm3-boot")
    /\ HardReset("cm3-check", RaiseRecover)
    /\ UNCHANGED <<mishaps, host, muxpi>>

Cm3Check ==
    /\ At("cm3-check")
    /\ \/ Booted /\ Return
       \/ Raise
    /\ UNCHANGED <<mishaps, dut, host, muxpi>>

Cm3Step ==
    \/ Cm3Begin \/ Cm3Pin \/ Cm3Reset \/ Cm3Install \/ Cm3Look \/ Cm3User \/ Cm3Release
    \/ Cm3Boot \/ Cm3Check
=============================================================================
