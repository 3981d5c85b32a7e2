---------------------------- MODULE MasterImage -----------------------------
(***************************************************************************)
(* The connectors of boards that write their own storage: a master image,  *)
(* which a script selects for the next boot, fetches the image of the job  *)
(* from a file server that the connector starts (dragonboard, netboot).    *)
(***************************************************************************)
EXTENDS Connector

\* setboot; a script that fails may have done its work.
Select(media, Done, Failed) ==
    \/ SetBoot(media) /\ Done
    \/ attached' \in {attached, media} /\ Failed

\* runcmd: what fails is its exit code, or its timeout, which is looked at between
\* two lines of output only.
RunCmd(Done) == Done \/ Raise

\* How an image is compressed, as its first bytes tell (filetype)
FileTypes == {"gz", "bz2", "xz", "qcow2", "unknown"}

\* compress_file: it is compressed again, if it is no xz file yet.
CompressFile(Done) == \E type \in FileTypes : Done \/ (type # "xz" /\ Raise)

-----------------------------------------------------------------------------
DragonConf == [hook : {"setup", "cycle"}, serial : BOOLEAN]

\* Python waits for the file server at its exit, and the server waits for a
\* client until it is terminated, which only happens after a flash.
EndWithServer(code) == at' = "over" /\ tries' = 0 /\ exit' \in {code, "hangs"} /\ StopSerial

\* The test image has snaps, and the master image, which is a Debian, has none.
TestImageBooted   == Booted
MasterImageBooted == up = "service"

\* An empty test device lets the board boot the master image.
Wipe == attached' \in {attached, {"service"}}

DragonBegin ==
    /\ Begin("dragonboard")
    /\ StartSerial("dragon-look")
    /\ UNCHANGED <<mishaps, dut, host>>

\* ensure_master_image: from a test image it is the selected image that
\* counts; from an unknown state the board is reset as it is.
DragonLook ==
    /\ At("dragon-look")
    /\ \/ /\ TestImageBooted
          /\ Select({"service"}, Goto("dragon-to-master"), Raise)
       \/ /\ MasterImageBooted /\ Goto("dragon-download") /\ UNCHANGED attached
       \/ /\ up = "none" /\ Goto("dragon-recover") /\ UNCHANGED attached
    /\ UNCHANGED <<mishaps, power, disk, up, falling, host>>

\* hardreset makes a RecoveryError of a timeout only.
DragonReset ==
    /\ \/ At("dragon-to-master") /\ HardReset("dragon-wait", Raise \/ RaiseRecover)
       \/ At("dragon-recover") /\ HardReset("dragon-wait-any", Raise \/ RaiseRecover)
    /\ UNCHANGED <<mishaps, host>>

DragonWait ==
    /\ \/ At("dragon-wait")
       \/ At("dragon-wait-any")
    /\ \/ MasterImageBooted /\ Goto("dragon-download")
       \/ TestImageBooted /\ at = "dragon-wait-any" /\ Goto("dragon-look")
       \/ RaiseRecover
    /\ UNCHANGED <<mishaps, dut, host>>

DragonDownload ==
    /\ At("dragon-download")
    /\ \/ Goto("dragon-compress")
       \/ Raise
    /\ UNCHANGED <<mishaps, dut, host>>

DragonCompress ==
    /\ At("dragon-compress")
    /\ CompressFile(Goto("dragon-flash"))
    /\ UNCHANGED <<mishaps, dut, host>>

\* flash_test_image; what is wiped are errors of commands, and not their
\* translations to ProvisioningError.
DragonFlash ==
    /\ At("dragon-flash")
    /\ \/ MasterImageBooted /\ Write("main", "part") /\ Goto("dragon-mount") /\ UNCHANGED attached
       \/ /\ EndWithServer("error")
          /\ UNCHANGED disk \/ (MasterImageBooted /\ Write("main", "part"))
          /\ UNCHANGED attached \/ Wipe
    /\ UNCHANGED <<mishaps, power, up, falling, host>>

\* A command on the master image; one that fails may only be translated.
OnMaster(Done) ==
    /\ \/ Done /\ UNCHANGED attached
       \/ Raise /\ UNCHANGED <<disk, attached>>
       \/ Raise /\ Wipe /\ UNCHANGED disk
    /\ UNCHANGED <<mishaps, power, up, falling, host>>

\* mount_writable_partition
DragonMount ==
    /\ At("dragon-mount")
    /\ OnMaster(Goto("dragon-user") /\ UNCHANGED disk)

\* create_user
DragonUser ==
    /\ At("dragon-user")
    /\ OnMaster(Goto("dragon-sudo") /\ UNCHANGED disk)

\* setup_sudo.  That the image was cut off was not noticed: the exit code of
\* the pipe is that of dd.
DragonSudo ==
    /\ At("dragon-sudo")
    /\ OnMaster(Goto("dragon-boot") /\ disk' \in {disk, [disk EXCEPT !["main"] = "new"]})

\* ensure_test_image
DragonBoot ==
    /\ At("dragon-boot")
    /\ \/ SetBoot({"main"}) /\ Goto("dragon-check") /\ falling' \in BOOLEAN
       \/ attached' \in {attached, {"main"}} /\ Raise /\ UNCHANGED falling
    /\ UNCHANGED <<mishaps, power, disk, up, host>>

\* Mutant: an answer of any system will do.
DragonCheckAny ==
    /\ At("dragon-check")
    /\ IF up # "none" THEN Return ELSE Raise
    /\ UNCHANGED <<mishaps, dut, host>>

DragonCheck ==
    /\ At("dragon-check")
    /\ \/ TestImageBooted /\ Return
       \/ Raise
    /\ UNCHANGED <<mishaps, dut, host>>

DragonStep ==
    \/ DragonBegin \/ DragonLook \/ DragonReset \/ DragonWait \/ DragonDownload
    \/ DragonCompress \/ DragonFlash \/ DragonMount \/ DragonUser \/ DragonSudo
    \/ DragonBoot \/ DragonCheck

-----------------------------------------------------------------------------
NetConf == [hook : {"setup", "cycle"}, serial : BOOLEAN]

\* get_image: without an url, or if it cannot be fetched, there is no image.
NetBegin ==
    /\ Begin("netboot")
    /\ \/ Goto("net-compress")
       \/ Raise
    /\ UNCHANGED <<mishaps, dut, host>>

\* The master image has a page of its own.
NetMasterBooted == up = "service"

NetCompress ==
    /\ At("net-compress")
    /\ CompressFile(Goto(IF NetMasterBooted THEN "net-serve" ELSE "net-test"))
    /\ UNCHANGED <<mishaps, dut, host>>

\* The test image is booted twice: to get from an unknown state to the master
\* image, where every error is a RecoveryError, and at the end.
First      == at \in {"net-test", "net-reboot", "net-wait"}
Failed     == IF First THEN RaiseRecover ELSE Raise
Then(a, b) == Goto(IF First THEN a ELSE b)
TestBooted == IF First THEN Goto("net-master") ELSE Return

NetTest ==
    /\ At("net-test") \/ At("net-test-again")
    /\ IF Booted THEN TestBooted /\ UNCHANGED attached
       ELSE Select({"main"}, Then("net-reboot", "net-reboot-again"), Failed)
    /\ UNCHANGED <<mishaps, power, disk, up, falling, host>>

NetReboot ==
    /\ At("net-reboot") \/ At("net-reboot-again")
    /\ IF Booted
       THEN falling' = TRUE /\ Then("net-wait", "net-wait-again") /\ UNCHANGED <<power, up, attached, disk>>
       ELSE HardReset(IF First THEN "net-wait" ELSE "net-wait-again", RaiseRecover)
    /\ UNCHANGED <<mishaps, host>>

NetWait ==
    /\ At("net-wait") \/ At("net-wait-again")
    /\ \/ Booted /\ TestBooted
       \/ Failed
    /\ UNCHANGED <<mishaps, dut, host>>

\* ensure_master_image
NetMaster ==
    /\ At("net-master")
    /\ IF NetMasterBooted THEN Goto("net-serve") /\ UNCHANGED attached
       ELSE Select({"service"}, Goto("net-reset"), RaiseRecover)
    /\ UNCHANGED <<mishaps, power, disk, up, falling, host>>

NetReset ==
    /\ At("net-reset")
    /\ HardReset("net-wait-master", RaiseRecover)
    /\ UNCHANGED <<mishaps, host>>

NetWaitMaster ==
    /\ At("net-wait-master")
    /\ \/ NetMasterBooted /\ Goto("net-serve")
       \/ RaiseRecover
    /\ UNCHANGED <<mishaps, dut, host>>

\* The file server, and the serial log
NetServe ==
    /\ At("net-serve")
    /\ StartSerial("net-flash")
    /\ UNCHANGED <<mishaps, dut, host>>

\* flash_test_image; the file server is terminated in any case.
NetFlash ==
    /\ At("net-flash")
    /\ \/ /\ NetMasterBooted /\ Write("main", "new") /\ Goto("net-after-flash")
       \/ /\ Raise
          /\ \/ NetMasterBooted /\ \E c \in {"part", "new"} : Write("main", c)
             \/ UNCHANGED disk
    /\ UNCHANGED <<mishaps, power, attached, up, falling, host>>

\* The commands after it, and the reboot that it asks for
NetAfterFlash ==
    /\ At("net-after-flash")
    /\ RunCmd(Goto("net-test-again"))
    /\ falling' \in IF at' = "net-test-again" THEN BOOLEAN ELSE {falling}
    /\ UNCHANGED <<mishaps, power, attached, up, disk, host>>

NetStep ==
    \/ NetBegin \/ NetCompress \/ NetTest \/ NetReboot \/ NetWait \/ NetMaster \/ NetReset
    \/ NetWaitMaster \/ NetServe \/ NetFlash \/ NetAfterFlash
=============================================================================
