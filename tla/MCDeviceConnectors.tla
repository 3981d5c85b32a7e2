------------------------- MODULE MCDeviceConnectors --------------------------
(* Small instances of DeviceConnectors *)
EXTENDS DeviceConnectors

TwoParts == <<"boot", "writable">>

\* The network comes behind the disk until it is put first.
DiskAndNics == <<"disk", "nic1", "nic2">>

\* The second disk fits on both block devices, and the first on one only: the
\* first one that is free is taken.  Halves of an odd disk are rounded up, and
\* a size may have a unit that there is not.
TwoBlocks == <<3001, 2001>>
Partition(s, p) == [size |-> [number |-> s, unit |-> "K"], pct |-> p]
DisksOfJobs ==
    {<<>>,
     << <<Partition(1, 0)>>, <<Partition(1, 50), Partition(1, 40)>> >>,
     << <<Partition(1, 50), Partition(1, 50)>> >>,
     << <<Partition(2, 0)>>, <<Partition(3, 0)>> >>,
     << << [size |-> [number |-> 1, unit |-> "P"], pct |-> 0] >> >>}
=============================================================================
