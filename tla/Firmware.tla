------------------------------ MODULE Firmware ------------------------------
(***************************************************************************)
(* The stage that updates the firmware of the DUT: by fwupd over ssh       *)
(* (LVFS), or by the management processor of a server (HPE).  New firmware *)
(* is staged, lands while the machine starts again, and is looked at then. *)
(*                                                                         *)
(* conf.how is the kind of machine; conf.version, the version that the job *)
(* asks for; conf.ignore, whether it asks to ignore failures.              *)
(***************************************************************************)
EXTENDS Connector

CONSTANT Chips    \* the parts of the DUT that have firmware

VARIABLES
    unseen,     \* parts that the loop of this point has still to see
    targeted,   \* parts that are to get other firmware ("targetVersion")
    flashed,    \* parts whose command is taken for successful
    staged,     \* parts whose firmware lands at the next start
    landed      \* parts that have the other firmware

firmware == <<unseen, targeted, flashed, staged, landed>>

FirmwareConf ==
    [how : {"lvfs", "hpe", "other"}, version : {"latest", "given", "none"}, ignore : BOOLEAN]

FirmwareInit    == unseen = {} /\ targeted = {} /\ flashed = {} /\ staged = {} /\ landed = {}
FirmwareNextJob == /\ unseen' = {} /\ targeted' = {} /\ flashed' = {} /\ landed' = {}
                   /\ UNCHANGED staged

\* FirmwareUpdateError is caught, any other exception is not.
FirmwareEnd(code) == IF conf.ignore THEN Return ELSE End(code)
UpdateError       == FirmwareEnd("error")

\* The loops see the parts in the order in which they are listed.
Part   == CHOOSE chip \in unseen : TRUE
Passed == unseen' = unseen \ {Part}

\* _download_file
Fetch(Done) == Attempt(Done, UpdateError) \/ Raise

-----------------------------------------------------------------------------
\* The job may have no firmware_update_data.
FirmwareBegin ==
    /\ At("firmware_update")
    /\ Goto("firmware-detect") \/ Raise
    /\ UNCHANGED <<mishaps, dut, host, firmware>>

\* detect_device: vendor and type of the machine, which may be out of scope, or
\* of a number that is not in the table
Detect ==
    /\ At("firmware-detect")
    /\ \/ Booted /\ conf.how = "lvfs" /\ Goto("firmware-version")
       \/ Booted /\ conf.how = "hpe"  /\ Goto("firmware-bmc")
       \/ Booted /\ Raise
       \/ UpdateError
    /\ UNCHANGED <<mishaps, dut, host, firmware>>

\* How to reach the management processor, from MAAS
AskBmc ==
    /\ At("firmware-bmc")
    /\ Goto("firmware-ilorest") \/ UpdateError \/ Raise
    /\ UNCHANGED <<mishaps, dut, host, firmware>>

\* The constructor of HPEDevice: its tool, and the login; a timeout of a command
\* is not caught, here and in what follows.
Ilorest ==
    /\ At("firmware-ilorest")
    /\ Goto("firmware-version") \/ UpdateError \/ Raise
    /\ UNCHANGED <<mishaps, dut, host, firmware>>

\* Only the latest version is to be had for LVFS.
CheckVersion ==
    /\ At("firmware-version")
    /\ CASE conf.how = "hpe"                               -> Goto("firmware-inventory")
         [] conf.how = "lvfs" /\ conf.version = "latest" -> Goto("firmware-devices")
         [] OTHER                                          -> UpdateError
    /\ UNCHANGED <<mishaps, dut, host, firmware>>

-----------------------------------------------------------------------------
(***************************************************************************)
(* LVFS                                                                    *)
(***************************************************************************)
\* LVFSDevice.run_cmd: over ssh; without an answer in time it has failed.
OnDut(Done) == (Booted /\ Done) \/ UpdateError

\* get_fw_info, which installs fwupd, and _parse_fwupd_raw: what is updatable
LvfsInfo ==
    /\ At("firmware-devices")
    /\ \/ Booted /\ Goto("firmware-upgrade") /\ unseen' \in SUBSET Chips
       \/ (UpdateError \/ Raise) /\ UNCHANGED unseen
    /\ UNCHANGED <<mishaps, dut, host, targeted, flashed, staged, landed>>

\* upgrade: a part without a release, with the same version, or one that is no
\* upgrade is passed; a command that failed may have done its work.
Upgrade ==
    /\ At("firmware-upgrade") /\ unseen # {}
    /\ \/ /\ Step("firmware-upgrade") /\ Passed
          /\ \/ UNCHANGED <<targeted, flashed, staged>>
             \/ /\ targeted' = targeted \cup {Part}
                /\ \/ flashed' = flashed \cup {Part} /\ staged' = staged \cup {Part}
                   \/ UNCHANGED flashed /\ staged' \in {staged, staged \cup {Part}}
       \/ Raise /\ UNCHANGED <<unseen, targeted, flashed, staged>>
    /\ UNCHANGED <<mishaps, dut, host, landed>>

\* The machine is not started again when there was nothing to upgrade, or when
\* all that was tried has failed; of the command nothing is looked at.
LvfsReboot ==
    /\ At("firmware-upgrade") /\ unseen = {}
    /\ IF flashed = {} THEN FirmwareEnd("ok") /\ UNCHANGED falling
                       ELSE Goto("firmware-connect") /\ falling' \in {falling, TRUE}
    /\ UNCHANGED <<mishaps, power, attached, disk, up, host, firmware>>

\* check_connectable, which may meet the system that has not gone down yet
LvfsConnect ==
    /\ At("firmware-connect") /\ conf.how = "lvfs"
    /\ OnDut(Goto("firmware-check"))
    /\ UNCHANGED <<mishaps, dut, host, firmware>>

\* check_results: each part that was to get other firmware
LvfsCheck ==
    /\ At("firmware-check") /\ conf.how = "lvfs"
    /\ OnDut((targeted \subseteq landed /\ FirmwareEnd("ok")) \/ Raise)
    /\ UNCHANGED <<mishaps, dut, host, firmware>>

-----------------------------------------------------------------------------
(***************************************************************************)
(* HPE                                                                     *)
(***************************************************************************)
\* HPEDevice.run_cmd
OnIlo(Done) == Done \/ UpdateError \/ Raise

\* get_fw_info
Inventory ==
    /\ At("firmware-inventory")
    /\ OnIlo(Goto("firmware-repository"))
    /\ UNCHANGED <<mishaps, dut, host, firmware>>

\* _get_hpe_fw_repo: the model may have none.
Repository ==
    /\ At("firmware-repository")
    /\ Fetch(Goto("firmware-pack"))
    /\ UNCHANGED <<mishaps, dut, host, firmware>>

\* upgrade takes the first pack of the repository, which may have none;
\* downgrade, the one that the job names.
Pack ==
    /\ At("firmware-pack")
    /\ \/ conf.version # "none" /\ Goto("firmware-index")
       \/ conf.version = "given" /\ UpdateError
       \/ conf.version # "given" /\ Raise
    /\ UNCHANGED <<mishaps, dut, host, firmware>>

\* _repo_search: the parts for which the pack has a file of their class, with
\* one of their targets
RepoSearch == SUBSET Chips

\* _update_fw_info
Index ==
    /\ At("firmware-index")
    /\ Fetch(Goto("firmware-files"))
    /\ unseen' \in IF at' = "firmware-files" THEN RepoSearch ELSE {unseen}
    /\ UNCHANGED <<mishaps, dut, host, targeted, flashed, staged, landed>>

\* _download_fwpkg: a file of an earlier part, or of an earlier phase of the
\* job, is taken as it is.
FetchPackage(Done) == Done \/ Fetch(Done)

\* _flash_fwpkg: what has this version (_purify_ver), or is older than what the
\* file needs, is passed; for the others the file is fetched.
Files ==
    /\ At("firmware-files") /\ unseen # {}
    /\ \/ tries = 0 /\ Goto("firmware-files") /\ Passed /\ UNCHANGED targeted
       \/ /\ FetchPackage(Goto("firmware-files"))
          /\ IF at' = "firmware-files" /\ tries' = 0
             THEN Passed /\ targeted' = targeted \cup {Part}
             ELSE UNCHANGED <<unseen, targeted>>
    /\ UNCHANGED <<mishaps, dut, host, flashed, staged, landed>>

\* Without a file there is nothing to do.  Else the task queue is cleared, and
\* what is left in it is only warned of.
TaskQueue ==
    /\ At("firmware-files") /\ unseen = {}
    /\ IF targeted = {} THEN FirmwareEnd("ok") ELSE OnIlo(Goto("firmware-flash"))
    /\ unseen' = IF at' = "firmware-flash" THEN targeted ELSE unseen
    /\ UNCHANGED <<mishaps, dut, host, targeted, flashed, staged, landed>>

\* A file is flashed for good or bad; that of the management processor lands at
\* once, and it is waited for.
Flash ==
    /\ At("firmware-flash") /\ unseen # {}
    /\ \/ /\ Step("firmware-flash") /\ Passed
          /\ flashed' = flashed \cup {Part}
          /\ \/ staged' \in {staged, staged \cup {Part}} /\ UNCHANGED landed
             \/ landed' = landed \cup {Part} /\ UNCHANGED staged
       \/ UpdateError /\ UNCHANGED firmware
       \/ Raise /\ staged' \in {staged, staged \cup {Part}} /\ UNCHANGED <<unseen, flashed, landed>>
    /\ UNCHANGED <<mishaps, dut, host, targeted>>

\* reboot, when the management processor is there again
HpeReboot ==
    /\ At("firmware-flash") /\ unseen = {}
    /\ \/ Goto("firmware-post") /\ falling' = TRUE
       \/ (UpdateError \/ Raise) /\ falling' \in {falling, TRUE}
    /\ UNCHANGED <<mishaps, power, attached, disk, up, host, firmware>>

\* _monitor_poststate, which takes a timeout of the command
PostState ==
    /\ At("firmware-post")
    /\ Goto("firmware-connect") \/ UpdateError
    /\ UNCHANGED <<mishaps, dut, host, firmware>>

\* check_connectable of all devices: for HPE, too, the DUT has to answer to ssh.
HpeConnect ==
    /\ At("firmware-connect") /\ conf.how = "hpe"
    /\ OnDut(Goto("firmware-check"))
    /\ UNCHANGED <<mishaps, dut, host, firmware>>

\* check_results: the versions of the inventory
HpeCheck ==
    /\ At("firmware-check") /\ conf.how = "hpe"
    /\ OnIlo(targeted \subseteq landed /\ FirmwareEnd("ok"))
    /\ UNCHANGED <<mishaps, dut, host, firmware>>

-----------------------------------------------------------------------------
FirmwareLands ==
    /\ up = "none" /\ staged # {}
    /\ \E part \in SUBSET staged : landed' = landed \cup part
    /\ staged' = {}
    /\ UNCHANGED <<shared, unseen, targeted, flashed>>

LvfsStep == LvfsInfo \/ Upgrade \/ LvfsReboot \/ LvfsConnect \/ LvfsCheck
HpeStep  ==
    \/ AskBmc \/ Ilorest \/ Inventory \/ Repository \/ Pack \/ Index \/ Files \/ TaskQueue
    \/ Flash \/ HpeReboot \/ PostState \/ HpeConnect \/ HpeCheck

FirmwareStep ==
    FirmwareBegin \/ Detect \/ CheckVersion \/ LvfsStep \/ HpeStep
=============================================================================
