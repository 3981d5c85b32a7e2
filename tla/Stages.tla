------------------------------- MODULE Stages -------------------------------
(***************************************************************************)
(* The stages that DefaultDevice gives to all connectors: runtest and      *)
(* reserve.                                                                *)
(*                                                                         *)
(* conf.cmds is the form of the test commands; conf.serial whether there   *)
(* is a serial console to be logged; conf.keys the keys of a reservation.  *)
(***************************************************************************)
EXTENDS Connector

VARIABLES
    rc,          \* result of the test command that ran last
    todo,        \* keys of the reservation that were not yet tried
    keyfile,     \* the key in key.pub, "none" without that file
    authorized,  \* keys that give access to the DUT
    refused      \* keys that could not be imported or copied

stages == <<rc, todo, keyfile, authorized, refused>>
keys   == <<todo, keyfile, authorized, refused>>

TestConf    == [cmds : {"list", "empty", "string", "other"}, serial : BOOLEAN]
ReserveConf == [keys : SUBSET Keys]

StagesInit ==
    /\ rc = "none" /\ todo = {} /\ keyfile = "none"
    /\ authorized = {} /\ refused = {}

\* A job starts in a directory of its own.
StagesNextJob ==
    /\ rc' = "none" /\ keyfile' = "none" /\ authorized' = {} /\ refused' = {}
    /\ UNCHANGED todo

-----------------------------------------------------------------------------
(***************************************************************************)
(* runtest                                                                 *)
(***************************************************************************)
\* pre_test_hook, which never fails; a job without test_data does.
TestBegin ==
    /\ At("test")
    /\ \/ StartSerial("test-commands")
       \/ Raise
    /\ UNCHANGED <<mishaps, dut, host, rc, keys>>

\* The commands of a list are run one by one, whatever comes of each.  An empty
\* list has no result, and no other type is accepted.
TestCommands ==
    /\ At("test-commands")
    /\ CASE conf.cmds = "list" ->
              /\ rc' \in {"ok", "error"}
              /\ IF tries + 1 < MaxTries THEN Again ELSE Goto("test-end")
         [] conf.cmds = "string" -> Goto("test-end") /\ rc' \in {"ok", "error"}
         [] conf.cmds = "other"  -> Goto("test-end") /\ rc' = "error"
         [] conf.cmds = "empty"  -> Goto("test-raise") /\ UNCHANGED rc
    /\ UNCHANGED <<mishaps, dut, host, keys>>

\* The result of the commands is the exit code.
TestEnd ==
    /\ \/ At("test-end") /\ End(rc)
       \/ At("test-raise") /\ Raise
    /\ UNCHANGED <<mishaps, dut, host, rc, keys>>

-----------------------------------------------------------------------------
(***************************************************************************)
(* reserve                                                                 *)
(***************************************************************************)
ReserveBegin ==
    /\ At("reserve")
    /\ todo' = conf.keys /\ Goto("reserve-next")
    /\ UNCHANGED <<mishaps, dut, host, rc, keyfile, authorized, refused>>

\* What is left of the key before is removed.
ReserveNext ==
    /\ At("reserve-next")
    /\ keyfile' = "none"
    /\ IF todo = {} THEN Goto("reserved") ELSE Goto("reserve-import")
    /\ UNCHANGED <<mishaps, dut, host, rc, todo, authorized, refused>>

\* A key that cannot be had is logged, and the next one is taken.
GiveUp(key) == refused' = refused \cup {key} /\ todo' = todo \ {key} /\ Goto("reserve-next")

\* import_ssh_key: a user that does not exist is not asked for again.
ReserveImport ==
    /\ At("reserve-import")
    /\ LET key == CHOOSE k \in todo : TRUE IN
       \/ /\ keyfile' = key /\ Goto("reserve-copy")
          /\ UNCHANGED <<todo, refused>>
       \/ tries + 1 < MaxTries /\ Again /\ UNCHANGED <<keyfile, todo, refused>>
       \/ GiveUp(key) /\ UNCHANGED keyfile
    /\ UNCHANGED <<mishaps, dut, host, rc, authorized>>

\* Mutant: a key that could not be copied ends the reservation of the others.
ReserveCopyOrStop ==
    /\ At("reserve-copy")
    /\ \/ authorized' = authorized \cup {keyfile} /\ todo' = todo \ {keyfile}
          /\ Goto("reserve-next")
       \/ todo' = {} /\ Goto("reserve-next") /\ UNCHANGED authorized
    /\ UNCHANGED <<mishaps, dut, host, rc, keyfile, refused>>

\* copy_ssh_key; a command that failed may have done its work.
ReserveCopy ==
    /\ At("reserve-copy")
    /\ \/ /\ authorized' = authorized \cup {keyfile} /\ todo' = todo \ {keyfile}
          /\ Goto("reserve-next") /\ UNCHANGED refused
       \/ /\ authorized' \in {authorized, authorized \cup {keyfile}}
          /\ IF tries + 1 < MaxTries THEN Again /\ UNCHANGED <<todo, refused>>
             ELSE GiveUp(keyfile)
    /\ UNCHANGED <<mishaps, dut, host, rc, keyfile>>

\* The DUT is left to the user for the time of the reservation.
ReserveEnd ==
    /\ At("reserved")
    /\ Return
    /\ UNCHANGED <<mishaps, dut, host, stages>>

StageStep ==
    \/ TestBegin \/ TestCommands \/ TestEnd
    \/ ReserveBegin \/ ReserveNext \/ ReserveImport \/ ReserveCopy \/ ReserveEnd
=============================================================================
