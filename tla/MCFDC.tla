------------------------------- MODULE MCFDC -------------------------------
(* Disks of one track of two sectors in a drive of three tracks, and       *)
(* commands that use every path of the controller.                         *)
EXTENDS FDCSpec

Cmd(name, spin, delay, multi) ==
  [cmd |-> name, spin |-> spin, delay |-> delay, multi |-> multi, cond |-> {}]
Force(conditions) ==
  [cmd |-> "FORCE", spin |-> FALSE, delay |-> FALSE, multi |-> FALSE, cond |-> conditions]

TypeICommands ==
  { Cmd("RESTORE", TRUE, FALSE, FALSE), Cmd("SEEK", FALSE, TRUE, FALSE),
    Cmd("STEP", FALSE, FALSE, FALSE), Cmd("STEPIN", FALSE, TRUE, TRUE),
    Cmd("STEPOUT", FALSE, FALSE, TRUE) }
TransferCommands ==
  { Cmd("READSECTORS", TRUE, FALSE, TRUE), Cmd("READSECTORS", FALSE, TRUE, FALSE),
    Cmd("WRITESECTORS", FALSE, FALSE, TRUE), Cmd("WRITESECTORS", TRUE, TRUE, FALSE) }
TrackCommands ==
  { Cmd("READADDRESS", FALSE, TRUE, FALSE), Cmd("READTRACK", TRUE, TRUE, FALSE),
    Cmd("WRITETRACK", FALSE, FALSE, FALSE) }
ForceCommands == { Force({}), Force({"IMMEDIATE"}), Force({"IP"}) }

AllCommands == TypeICommands \cup TransferCommands \cup TrackCommands \cup ForceCommands
WriteCommands == { c \in AllCommands : c.cmd \in {"STEPIN", "WRITESECTORS"} }
=============================================================================
