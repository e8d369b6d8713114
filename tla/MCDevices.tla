----------------------------- MODULE MCDevices -----------------------------
(***************************************************************************)
(* Devices for TLC: `part' says which of the models a behaviour is of.     *)
(***************************************************************************)
EXTENDS Console, Disks, Keyboard

VARIABLE part

vars == <<consoleVars, diskVars, keyboardVars, part>>

Entry(type, offset, size) == [type |-> type, offset |-> offset, size |-> size]
Disk(kind, size, table) == [kind |-> kind, size |-> size, tables |-> [s \in {0} |-> table]]
Absent == Disk("none", 0, <<>>)
Pair(a, b) == [d \in 0..1 |-> IF d = 0 THEN a ELSE b]

First ==
  { Disk("ata", 5, <<Entry("filesys", 1, 2), Entry("empty", 0, 0), Entry("foreign", 3, 1)>>),
    Disk("ata", 5, <<Entry("swap", 1, 1), Entry("extended", 2, 3)>>),
    Disk("ata", 5, <<Entry("swap", 1, 1), Entry("extended", 3, 2)>>),
    Disk("alone", 0, <<>>),
    Disk("ata", 3, <<Entry("filesys", 1, 1), Entry("swap", 2, 2)>>) }

Second == {Absent, Disk("ata", 2, <<Entry("swap", 1, 1)>>), Disk("ata", 9, <<Entry("swap", 1, 1)>>)}

MCMachines == {m \in {Pair(a, b) : a \in First, b \in Second} : m[1] = Absent \/ m[0].size = 3}

Init ==
  /\ part \in {"console", "disks", "keyboard"}
  /\ ConsoleInit /\ DisksInit /\ KeyboardInit
  /\ part # "disks" => machine = CHOOSE m \in Machines : TRUE

ConsoleStep(A) == part = "console" /\ A /\ UNCHANGED <<diskVars, keyboardVars, part>>
DiskStep(A) == part = "disks" /\ A /\ UNCHANGED <<consoleVars, keyboardVars, part>>

Next ==
  \/ ConsoleStep(ConsoleNext)
  \/ DiskStep(DisksNext)
  \/ part = "keyboard" /\ KeyboardNext /\ UNCHANGED <<consoleVars, diskVars, part>>

(* Threads go on with what they have to do, and devices work.  One         *)
(* conjunct serves the models together, as a behaviour is of one of them;  *)
(* Writer and IoThread are the same set.                                   *)
Fairness ==
  /\ \A t \in Writer : WF_vars(\/ ConsoleStep(ThreadStep(t) \/ LockStep(t))
                              \/ DiskStep(DriverStep(t)))
  /\ WF_vars(\/ ConsoleStep(Hardware)
             \/ DiskStep(Controller \/ BootStep \/ DriverStep(BootThread)))

Spec == Init /\ [][Next]_vars /\ Fairness

(* Whoever prints or asks a disk for a sector gets an end. *)
DevicesServe == PrintsEnd /\ RequestsAnswered
=============================================================================
