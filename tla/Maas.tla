-------------------------------- MODULE Maas --------------------------------
(***************************************************************************)
(* The connector of machines that MAAS deploys.  The status of the node,   *)
(* its power and its storage configuration are kept by MAAS; every command *)
(* may fail, and one that failed may have been executed.                   *)
(*                                                                         *)
(* conf.stage is the stage, provision or cleanup; conf.efi, whether the    *)
(* boot order is to be set; conf.tpm, whether the TPM is to be cleared;    *)
(* conf.disks, the disks that the job asks for (<<>> if it asks for none): *)
(* of each disk its partitions, with the size that is required and a       *)
(* percentage of the disk, 0 for none; conf.default, whether the           *)
(* configuration says what the storage is else.                            *)
(***************************************************************************)
EXTENDS Connector, SequencesExt

CONSTANTS
    Blocks,      \* sizes of the physical block devices of the node
    JobDisks,    \* the storage that jobs ask for
    BootEntries, \* the EFI entries, as the node lists them
    Nics         \* those of its network interfaces (IPv4)

ASSUME MaasAssumption == Blocks \in Seq(Nat) /\ Nics \subseteq Range(BootEntries)

VARIABLES
    node,       \* status of the node in MAAS, and "Starting" when it is installed
                \* and not yet reported as deployed
    order,      \* the order in which it tries its EFI entries
    layout,     \* its storage: as the "job" asks, "default", "flat" or "mixed"
    parts,      \* the ids of its partitions
    known,      \* the ids that there were when the connector has asked
    target      \* what the node is deployed for: to clear its "tpm", the "job", or
                \* the job in "ram" only

storage == <<layout, parts, known>>
maas    == <<node, order, storage, target>>

\* Bounds: the storage of a job counts for its deployment only, and the boot
\* order is set where there is nothing else; there is no serial console.
MaasConf ==
    {c \in [hook : {"none"}, stage : {"provision", "cleanup"}, efi : BOOLEAN, tpm : BOOLEAN,
            disks : JobDisks, default : BOOLEAN, serial : {FALSE}] :
        /\ c.stage = "cleanup" \/ c.efi => c.disks = <<>>
        /\ c.efi => ~c.tpm /\ ~c.default}

MaasInit ==
    /\ node = "Ready" /\ order = BootEntries /\ target = "job"
    /\ layout = "flat" /\ parts = {1} /\ known = {}

MaasNextJob ==
    /\ parts' = 1..Cardinality(parts) /\ known' = {} /\ target' = "job"
    /\ UNCHANGED <<node, order, layout>>

-----------------------------------------------------------------------------
(***************************************************************************)
(* MaasStorage: where the disks of a job are placed.                       *)
(***************************************************************************)
\* convert_size_to_bytes: a number and a unit, in any case of letters, or a
\* number of bytes.
Powers == [T |-> 4, G |-> 3, M |-> 2, K |-> 1, B |-> 0]
HasBytes(size) == size.unit \in DOMAIN Powers \cup {""}
Bytes(size)    == IF size.unit = "" THEN size.number ELSE size.number * 1000 ^ Powers[size.unit]

\* gather_partitions
Required(wanted) == SumFunction([p \in DOMAIN wanted |-> Bytes(wanted[p].size)])

\* parse_block_devices and _select_block_dev: the first one that is free and
\* large enough; 0 if there is none.
BlockOf ==
    LET place[i \in 0..Len(conf.disks)] ==
            IF i = 0 THEN <<>>
            ELSE LET used == {place[i - 1][j] : j \in 1..(i - 1)}
                     free == {b \in 1..Len(Blocks) :
                                 b \notin used /\ Required(conf.disks[i]) <= Blocks[b]}
                 IN Append(place[i - 1], IF free = {} THEN 0 ELSE Min(free))
    IN place[Len(conf.disks)]

\* create_partition_sizes: a percentage is rounded up.
Created(i) ==
    LET Size(p) == IF p.pct = 0 THEN Bytes(p.size) ELSE (Blocks[BlockOf[i]] * p.pct + 99) \div 100
    IN SumFunction([p \in DOMAIN conf.disks[i] |-> Size(conf.disks[i][p])])

\* _validate_alloc_pct_values
Percentage(wanted) == SumFunction([p \in DOMAIN wanted |-> wanted[p].pct])

Plannable ==
    /\ \A i \in 1..Len(conf.disks) : \A p \in DOMAIN conf.disks[i] : HasBytes(conf.disks[i][p].size)
    /\ \A i \in 1..Len(conf.disks) : BlockOf[i] # 0 /\ Percentage(conf.disks[i]) <= 100

\* MAAS does not create partitions that do not fit.
Fits == \A i \in 1..Len(conf.disks) : Created(i) <= Blocks[BlockOf[i]]

-----------------------------------------------------------------------------
(***************************************************************************)
(* MAAS.                                                                   *)
(***************************************************************************)
SwitchOff == power' = FALSE /\ up' = "none" /\ falling' = FALSE /\ UNCHANGED <<attached, disk>>
NextId    == 1 + Max({0} \cup parts \cup known)

MaasReleases ==
    /\ node = "Releasing"
    /\ \/ node' = "Ready" /\ SwitchOff
       \/ node' = "Failed-releasing" /\ UNCHANGED dut
    /\ UNCHANGED <<asked, process, mishaps, host, order, storage, target>>

\* The node starts into the installer, which writes and starts the system, and
\* may put it before the network; or it runs the system from memory.
MaasInstalls ==
    /\ node = "Deploying" /\ up = "service"
    /\ node' = "Starting"
    /\ IF target = "ram" THEN up' = "new" /\ UNCHANGED <<disk, attached, order>>
       ELSE /\ Write("main", IF target = "tpm" THEN "old" ELSE "new")
            /\ SetBoot({"main"}) /\ up' = "none"
            /\ order' \in {order, BootEntries}
    /\ UNCHANGED <<asked, process, mishaps, power, falling, host, storage, target>>

MaasDeploys ==
    /\ \/ node = "Starting" /\ Booted /\ node' = "Deployed"
       \/ node \in {"Deploying", "Starting"} /\ node' = "Failed-deployment"
    /\ UNCHANGED <<shared, order, storage, target>>

MaasWorks == MaasReleases \/ MaasInstalls \/ MaasDeploys

-----------------------------------------------------------------------------
(***************************************************************************)
(* The connector.                                                          *)
(***************************************************************************)
\* run_maas_cmd_with_retry
Command(Effect, Nothing, next) ==
    \/ Effect /\ Goto(next)
    \/ /\ Effect \/ Nothing
       /\ IF tries + 1 < MaxTries THEN Again ELSE Raise

Recover == Goto(IF conf.efi THEN "maas-efi-again" ELSE "maas-release")

\* The storage is read when the objects are made, also those for cleanup.
MaasBegin ==
    /\ Begin("maas2")
    /\ \/ /\ known' = parts
          /\ IF conf.stage = "cleanup" THEN Recover
             ELSE StartSerial(IF conf.efi THEN "maas-efi" ELSE IF conf.tpm THEN "maas-tpm" ELSE "maas-release")
       \/ Raise /\ UNCHANGED known
    /\ UNCHANGED <<mishaps, dut, host, node, order, layout, parts, target>>

\* reset_efi: the entry that was booted comes first if it is one of the network,
\* then the others of the network, and then what else was in the boot order.
NewBootOrder(current) ==
    LET head == IF current \in Nics THEN <<current>> ELSE <<>>
        nics == SelectSeq(BootEntries, LAMBDA e : e \in Nics /\ e \notin Range(head))
        rest == SelectSeq(order, LAMBDA e : e \notin Nics)
    IN head \o nics \o rest

\* It is done before anything else, and again before the node is released.  A
\* node that does not answer, or has not the tool, is left as it is.
MaasEfi ==
    /\ At("maas-efi") \/ At("maas-efi-again")
    /\ LET Next == Goto(IF at = "maas-efi-again" THEN "maas-release"
                        ELSE IF conf.tpm THEN "maas-tpm" ELSE "maas-efi-again") IN
       \/ Booted /\ Next /\ \E current \in Range(BootEntries) : order' = NewBootOrder(current)
       \/ Next /\ UNCHANGED order
       \/ Booted /\ Raise /\ UNCHANGED order
    /\ UNCHANGED <<mishaps, dut, host, node, storage, target>>

\* clear_tpm, on the system that is there, or else on one that is deployed for it
MaasTpm ==
    /\ \/ At("maas-tpm")
       \/ At("maas-tpm-again")
    /\ \/ Booted /\ target' = "job" /\ Recover
       \/ at = "maas-tpm" /\ target' = "tpm" /\ Recover
       \/ Raise /\ UNCHANGED target
    /\ UNCHANGED <<mishaps, dut, host, node, order, storage>>

MaasRelease ==
    /\ At("maas-release")
    /\ Command(node' = IF node \in {"Ready", "Releasing"} THEN node ELSE "Releasing",
               UNCHANGED node, "maas-ready")
    /\ UNCHANGED <<mishaps, dut, host, order, storage, target>>

Released == IF conf.stage = "cleanup" THEN Return ELSE Goto("maas-storage")

\* The status is polled after the release, after mark-fixed, and after power-off.
MaasPoll ==
    /\ At("maas-ready") \/ At("maas-ready-after-fix") \/ At("maas-ready-after-power-off")
    /\ \/ IF node = "Ready" THEN Released
          ELSE Attempt(FALSE, CASE at = "maas-ready"           -> Goto("maas-break")
                                [] at = "maas-ready-after-fix" -> Goto("maas-power-off")
                                [] OTHER                       -> RaiseRecover)
       \/ Raise
    /\ UNCHANGED <<mishaps, dut, host, maas>>

\* _recover_node_control: MAAS may keep a node that is marked fixed from use.
MaasBreak ==
    /\ At("maas-break")
    /\ Command(node' = "Broken", UNCHANGED node, "maas-fix")
    /\ UNCHANGED <<mishaps, dut, host, order, storage, target>>

MaasFix ==
    /\ At("maas-fix")
    /\ Command(node = "Broken" /\ node' \in {"Ready", "Failed-testing"}, UNCHANGED node,
               "maas-ready-after-fix")
    /\ UNCHANGED <<mishaps, dut, host, order, storage, target>>

MaasPowerOff ==
    /\ At("maas-power-off")
    /\ Command(SwitchOff, UNCHANGED dut, "maas-ready-after-power-off")
    /\ UNCHANGED <<mishaps, host, maas>>

\* configure_node_storage plans before it clears.
MaasStorage ==
    /\ At("maas-storage")
    /\ IF target = "job" /\ conf.disks # <<>> THEN IF Plannable THEN Goto("maas-clear") ELSE Raise
       ELSE Goto(IF conf.default THEN "maas-clear" ELSE "maas-flat")
    /\ UNCHANGED <<mishaps, dut, host, maas>>

\* set_flat_storage_layout, an error of which is passed over
MaasFlat ==
    /\ At("maas-flat")
    /\ Goto("maas-allocate")
    /\ \/ layout' = "flat" /\ parts' = {NextId} /\ UNCHANGED mishaps
       \/ NoteIf(TRUE, "layout") /\ UNCHANGED <<layout, parts>>
    /\ UNCHANGED <<dut, host, node, order, known, target>>

\* clear_storage_config deletes the partitions that there were at the beginning,
\* and stops at the first error.
MaasClear ==
    /\ At("maas-clear")
    /\ \/ known \subseteq parts /\ parts' = parts \ known /\ Goto("maas-disks")
       \/ parts' \in SUBSET parts /\ parts \ known \subseteq parts' /\ Raise
    /\ layout' = IF parts' = parts THEN layout ELSE "mixed"
    /\ UNCHANGED <<mishaps, dut, host, node, order, known, target>>

\* process_by_dev_type: all devices of a type before those of the next, and
\* nothing more after an error.
Process(point, Done) ==
    /\ At(point)
    /\ \/ Done
       \/ Raise /\ layout' = "mixed" /\ UNCHANGED parts
    /\ UNCHANGED <<mishaps, dut, host, node, order, known, target>>

AsksDisks == target = "job" /\ conf.disks # <<>>

\* process_disk: the disk with /boot is marked, and names are given.
MaasDisks == Process("maas-disks", Goto("maas-partitions") /\ layout' = "mixed" /\ UNCHANGED parts)

MaasPartitions ==
    Process("maas-partitions", /\ AsksDisks => Fits
                               /\ parts' = parts \cup {NextId}
                               /\ Goto("maas-format") /\ UNCHANGED layout)

\* process_format takes the id that MAAS has given to the new partition.
MaasFormat ==
    Process("maas-format", NextId - 1 \in parts /\ Goto("maas-mount") /\ UNCHANGED <<layout, parts>>)

\* The storage is as it is asked for if nothing of the old one is left.
MaasMount ==
    Process("maas-mount",
        /\ layout' = IF Cardinality(parts) > 1 THEN "mixed" ELSE IF AsksDisks THEN "job" ELSE "default"
        /\ Goto("maas-allocate") /\ UNCHANGED parts)

MaasAllocate ==
    /\ At("maas-allocate")
    /\ Command(node = "Ready" /\ node' = "Allocated", UNCHANGED node, "maas-snapshot")
    /\ UNCHANGED <<mishaps, dut, host, order, storage, target>>

\* get_current_installation_id, to know later whether there was another one
MaasSnapshot ==
    /\ At("maas-snapshot")
    /\ Command(TRUE, TRUE, "maas-version")
    /\ UNCHANGED <<mishaps, dut, host, maas>>

\* get_maas_version, if the job asks for a deployment to memory: an error only
\* means that it is not done.
MaasVersion ==
    /\ At("maas-version")
    /\ Goto("maas-deploy")
    /\ target' \in {target} \cup (IF target = "job" THEN {"ram"} ELSE {})
    /\ UNCHANGED <<mishaps, dut, host, node, order, storage>>

\* A node that tries its network first gets into the installer; any other may
\* start the system that it has.
MaasDeploy ==
    /\ At("maas-deploy")
    /\ Command(/\ node = "Allocated" /\ node' = "Deploying"
               /\ \/ SetBoot({"service"})
                  \/ Head(order) \notin Nics /\ SetBoot({"main"})
               /\ power' = TRUE /\ up' = "none" /\ falling' = FALSE /\ UNCHANGED disk,
               UNCHANGED <<node, dut>>, "maas-deploying")
    /\ UNCHANGED <<mishaps, host, order, storage, target>>

\* The status, the address and the answer of the node are looked at again and again.
MaasDeploying ==
    /\ At("maas-deploying")
    /\ \/ /\ node = "Deployed" /\ Booted
          /\ IF target = "tpm" THEN Goto("maas-tpm-again") ELSE Return
       \/ tries + 1 < MaxTries /\ node # "Failed-deployment" /\ Again
       \/ Goto("maas-failed")
       \/ Raise
    /\ UNCHANGED <<mishaps, dut, host, maas>>

\* get_deployment_information, for the log; whatever comes of it, it has failed.
MaasFailed ==
    /\ At("maas-failed")
    /\ Raise
    /\ UNCHANGED <<mishaps, dut, host, maas>>

MaasStep ==
    \/ MaasBegin \/ MaasEfi \/ MaasTpm \/ MaasRelease \/ MaasPoll \/ MaasBreak \/ MaasFix
    \/ MaasPowerOff \/ MaasStorage \/ MaasFlat \/ MaasClear \/ MaasDisks \/ MaasPartitions
    \/ MaasFormat \/ MaasMount \/ MaasAllocate \/ MaasSnapshot \/ MaasVersion \/ MaasDeploy
    \/ MaasDeploying \/ MaasFailed
=============================================================================
