------------------------------- MODULE Overlay -------------------------------
(***************************************************************************)
(* The overlay of one host: what tfnet start and tfnet stop do, command by *)
(* command, to the WireGuard interface, the VXLAN device, the bridge, FRR  *)
(* and the two configuration files (internal/runtime, internal/render,     *)
(* cmd/tfnet/cmd_run.go), from a ledger that others move meanwhile.        *)
(*                                                                         *)
(* A step is one external command or one write of a file.  Nothing keeps   *)
(* two of these processes apart.  Of a configuration only what depends on  *)
(* the ledger is kept: addresses and peers.                                *)
(***************************************************************************)
EXTENDS Naturals, Sequences, FiniteSets

CONSTANTS
    Node, WgKey, Host, Bits,
    Self,      \* -self: this host's node_id
    OwnKey,    \* the public part of the -wg-key file
    Ledgers,   \* what the ledger directory holds, one after the other
    Proc,      \* the start and stop processes
    Faults,    \* of "command", "vtysh", "crash", "reboot"
    Absent     \* no such device, file or configuration

Member == [node : Node, wg : WgKey, ip : [host : Host, bits : Bits]]

\* Its members, and whether its log replays.
Ledger == [members : SUBSET Member, verifies : BOOLEAN]

\* A ledger has one subject per node; Apply sees to that.  Nothing sees to it
\* that members have WireGuard keys of their own.
ASSUME LedgersAssumption ==
    /\ Ledgers \in Seq(Ledger)
    /\ Ledgers # << >>
    /\ \A i \in DOMAIN Ledgers : \A m, k \in Ledgers[i].members :
            m.node = k.node => m = k

VARIABLES
    version,    \* which of Ledgers the directory holds
    wgFile,     \* /etc/wireguard/<iface>.conf
    frrFile,    \* /etc/frr/frr.conf
    wg,         \* the WireGuard interface
    vxlan,      \* the VXLAN device
    bridge,     \* the bridge
    frr,        \* what FRR runs of tfnet's configuration
    cmd,        \* process |-> the start or stop it runs
    disturbed   \* since the last start that succeeded alone, the host was
                \* rebooted, vtysh failed or two processes overlapped

devices == <<wg, vxlan, bridge>>
files == <<wgFile, frrFile>>
vars == <<version, files, devices, frr, cmd, disturbed>>

-----------------------------------------------------------------------------
(* Rendering *)

Peer == [key : WgKey, host : Host]

WgConf == [addr : [host : Host, bits : Bits] \cup {Absent}, peers : SUBSET Peer]

FrrConf == [source : Host, peers : SUBSET Host]

Vxlan == [local : Host, master : BOOLEAN, knobs : BOOLEAN, up : BOOLEAN]

Bridge == [up : BOOLEAN]

ASSUME AbsentAssumption ==
    Absent \notin WgConf \cup FrrConf \cup Vxlan \cup Bridge

SelfIn(l) == CHOOSE m \in l.members : m.node = Self

Others(l) == {m \in l.members : m.node # Self}

\* AllowedIPs takes the host part of overlay_ip.
WireGuardConf(l) ==
    [addr |-> SelfIn(l).ip,
     peers |-> {[key |-> m.wg, host |-> m.ip.host] : m \in Others(l)}]

\* What an interface may come to have of the peers that it is given: it knows a
\* peer by its key, so that of several with one key one stays, and a peer that
\* has its own key is left out.
Installed(xs) ==
    {ys \in SUBSET xs :
        /\ \A x, y \in ys : x.key = y.key => x = y
        /\ {y.key : y \in ys} = {x.key : x \in xs} \ {OwnKey}}

\* Fault: the source address of BGP sessions keeps its prefix length.
FRRConf_Cidr(l) ==
    [source |-> SelfIn(l).ip, peers |-> {m.ip.host : m \in Others(l)}]

FRRConf(l) ==
    [source |-> SelfIn(l).ip.host, peers |-> {m.ip.host : m \in Others(l)}]

\* Fault: overlay addresses are compared with their prefix lengths.
EnsureUniqueOverlay_Cidr(l) ==
    \A m, k \in l.members : m.ip = k.ip => m = k

EnsureUniqueOverlay(l) ==
    \A m, k \in l.members : m.ip.host = k.ip.host => m = k

\* start refuses a ledger unless this holds.
Startable(l) ==
    /\ l.verifies
    /\ \E m \in l.members : m.node = Self /\ m.wg = OwnKey
    /\ EnsureUniqueOverlay(l)

-----------------------------------------------------------------------------
(* Processes.  pc names the command that comes next. *)

Starting == {"wg conf", "wg?", "wg up", "strip", "sync", "vxlan?", "vxlan add",
             "bridge?", "bridge add", "master", "knobs", "vxlan up",
             "bridge up", "frr conf", "reload"}
Stopping == {"vtysh", "vxlan del", "bridge del", "wg down"}

NoPeers == [addr |-> Absent, peers |-> {}]

\* wg, frr: what start has rendered; got: the stripped file; run: whether it
\* has logged a failure or another process ran since it began.
Command == [pc : {"idle"} \cup Starting \cup Stopping, wg : WgConf \cup {Absent},
            frr : FrrConf \cup {Absent}, got : SUBSET Peer, run : {"clean", "spoilt"}]

Idle == [pc |-> "idle", wg |-> Absent, frr |-> Absent, got |-> {},
         run |-> "clean"]

Active(p) == {q \in Proc \ {p} : cmd[q].pc # "idle"}

Spoilt(c) == [c EXCEPT !.run = "spoilt"]

\* p begins as the command c.
Begin(p, c) ==
    /\ cmd[p].pc = "idle"
    /\ cmd' = [q \in Proc |->
                  IF q = p THEN IF Active(p) = {} THEN c ELSE Spoilt(c)
                  ELSE IF q \in Active(p) THEN Spoilt(cmd[q]) ELSE cmd[q]]
    /\ disturbed' = (disturbed \/ Active(p) # {})

Goto(p, c) == cmd' = [cmd EXCEPT ![p] = c]

Move(p, pc) == Goto(p, [cmd[p] EXCEPT !.pc = pc, !.got = {}])

Warn(p, pc) == Goto(p, Spoilt([cmd[p] EXCEPT !.pc = pc, !.got = {}]))

End(p) == Goto(p, Idle)

\* What the next command of p needs of the devices.
Possible(p) ==
    /\ cmd[p].pc = "wg up" => wg = Absent
    /\ cmd[p].pc = "sync" => wg # Absent
    /\ cmd[p].pc = "vxlan add" => vxlan = Absent
    /\ cmd[p].pc = "bridge add" => bridge = Absent
    /\ cmd[p].pc \in {"master", "knobs", "vxlan up"} => vxlan # Absent
    /\ cmd[p].pc \in {"master", "bridge up"} => bridge # Absent
    /\ cmd[p].pc = "knobs" => vxlan.master

-----------------------------------------------------------------------------
(* tfnet start *)

\* Read the ledger and render both files.  A ledger that start refuses ends
\* it before it has changed anything.
Start(p) ==
    LET l == Ledgers[version] IN
    /\ Startable(l)
    /\ Begin(p, [Idle EXCEPT !.pc = "wg conf", !.wg = WireGuardConf(l),
                                      !.frr = FRRConf(l)])
    /\ UNCHANGED <<version, files, devices, frr>>

\* Fault: a file that is there is kept.
WriteWgConf_IfMissing(p) ==
    /\ cmd[p].pc = "wg conf"
    /\ wgFile' = IF wgFile = Absent THEN cmd[p].wg ELSE wgFile
    /\ Move(p, "wg?")
    /\ UNCHANGED <<version, frrFile, devices, frr, disturbed>>

WriteWgConf(p) ==
    /\ cmd[p].pc = "wg conf"
    /\ wgFile' = cmd[p].wg
    /\ Move(p, "wg?")
    /\ UNCHANGED <<version, frrFile, devices, frr, disturbed>>

ProbeWg(p) ==
    /\ cmd[p].pc = "wg?"
    /\ Move(p, IF wg = Absent THEN "wg up" ELSE "strip")
    /\ UNCHANGED <<version, files, devices, frr, disturbed>>

\* wg-quick up reads the file as it is by now.
WgUp(p) ==
    /\ cmd[p].pc = "wg up" /\ Possible(p)
    /\ \E xs \in Installed(wgFile.peers) : wg' = [wgFile EXCEPT !.peers = xs]
    /\ Move(p, "vxlan?")
    /\ UNCHANGED <<version, files, vxlan, bridge, frr, disturbed>>

\* So does wg-quick strip; an interface that is there keeps its address.
Strip(p) ==
    /\ cmd[p].pc = "strip"
    /\ Goto(p, [cmd[p] EXCEPT !.pc = "sync", !.got = wgFile.peers])
    /\ UNCHANGED <<version, files, devices, frr, disturbed>>

\* Fault: wg addconf, which leaves the peers that are there.
SyncConf_Adds(p) ==
    /\ cmd[p].pc = "sync" /\ Possible(p)
    /\ \E xs \in Installed(wg.peers \cup cmd[p].got) : wg' = [wg EXCEPT !.peers = xs]
    /\ Move(p, "vxlan?")
    /\ UNCHANGED <<version, files, vxlan, bridge, frr, disturbed>>

SyncConf(p) ==
    /\ cmd[p].pc = "sync" /\ Possible(p)
    /\ \E xs \in Installed(cmd[p].got) : wg' = [wg EXCEPT !.peers = xs]
    /\ Move(p, "vxlan?")
    /\ UNCHANGED <<version, files, vxlan, bridge, frr, disturbed>>

\* Hot reloading fails, which is only logged.
HotReloadFails(p) ==
    /\ cmd[p].pc \in {"strip", "sync"}
    /\ "command" \in Faults \/ ~ Possible(p)
    /\ Warn(p, "vxlan?")
    /\ UNCHANGED <<version, files, devices, frr, disturbed>>

ProbeVxlan(p) ==
    /\ cmd[p].pc = "vxlan?"
    /\ Move(p, IF vxlan = Absent THEN "vxlan add" ELSE "bridge?")
    /\ UNCHANGED <<version, files, devices, frr, disturbed>>

AddVxlan(p) ==
    /\ cmd[p].pc = "vxlan add" /\ Possible(p)
    /\ vxlan' = [local |-> cmd[p].frr.source, master |-> FALSE,
                 knobs |-> FALSE, up |-> FALSE]
    /\ Move(p, "bridge?")
    /\ UNCHANGED <<version, files, wg, bridge, frr, disturbed>>

\* Fault: a bridge that is there is taken to be set up.
ProbeBridge_Done(p) ==
    /\ cmd[p].pc = "bridge?"
    /\ Move(p, IF bridge = Absent THEN "bridge add" ELSE "frr conf")
    /\ UNCHANGED <<version, files, devices, frr, disturbed>>

ProbeBridge(p) ==
    /\ cmd[p].pc = "bridge?"
    /\ Move(p, IF bridge = Absent THEN "bridge add" ELSE "master")
    /\ UNCHANGED <<version, files, devices, frr, disturbed>>

AddBridge(p) ==
    /\ cmd[p].pc = "bridge add" /\ Possible(p)
    /\ bridge' = [up |-> FALSE]
    /\ Move(p, "master")
    /\ UNCHANGED <<version, files, wg, vxlan, frr, disturbed>>

SetMaster(p) ==
    /\ cmd[p].pc = "master" /\ Possible(p)
    /\ vxlan' = [vxlan EXCEPT !.master = TRUE]
    /\ Move(p, "knobs")
    /\ UNCHANGED <<version, files, wg, bridge, frr, disturbed>>

\* neigh_suppress on, learning off.
SetKnobs(p) ==
    /\ cmd[p].pc = "knobs" /\ Possible(p)
    /\ vxlan' = [vxlan EXCEPT !.knobs = TRUE]
    /\ Move(p, "vxlan up")
    /\ UNCHANGED <<version, files, wg, bridge, frr, disturbed>>

VxlanUp(p) ==
    /\ cmd[p].pc = "vxlan up" /\ Possible(p)
    /\ vxlan' = [vxlan EXCEPT !.up = TRUE]
    /\ Move(p, "bridge up")
    /\ UNCHANGED <<version, files, wg, bridge, frr, disturbed>>

BridgeUp(p) ==
    /\ cmd[p].pc = "bridge up" /\ Possible(p)
    /\ bridge' = [up |-> TRUE]
    /\ Move(p, "frr conf")
    /\ UNCHANGED <<version, files, wg, vxlan, frr, disturbed>>

WriteFrrConf(p) ==
    /\ cmd[p].pc = "frr conf"
    /\ frrFile' = cmd[p].frr
    /\ Move(p, "reload")
    /\ UNCHANGED <<version, wgFile, devices, frr, disturbed>>

\* systemctl reload-or-restart frr; start ends.
Reload(p) ==
    /\ cmd[p].pc = "reload"
    /\ frr' = frrFile
    /\ End(p)
    /\ disturbed' = (disturbed /\ cmd[p].run = "spoilt")
    /\ UNCHANGED <<version, files, devices>>

\* Any other command of start that fails ends it.
CommandFails(p) ==
    /\ cmd[p].pc \in {"wg up", "vxlan add", "bridge add", "master", "knobs",
                      "vxlan up", "bridge up", "reload"}
    /\ "command" \in Faults \/ ~ Possible(p)
    /\ End(p)
    /\ UNCHANGED <<version, files, devices, frr, disturbed>>

\* os.WriteFile truncates the file first.  Others may read what is there by
\* then, and the process may fail or die there.
WriteSome(p) ==
    /\ \/ /\ cmd[p].pc = "wg conf"
          /\ \E xs \in SUBSET cmd[p].wg.peers :
                wgFile' \in {NoPeers, [cmd[p].wg EXCEPT !.peers = xs]}
          /\ UNCHANGED frrFile
       \/ /\ cmd[p].pc = "frr conf"
          /\ \E xs \in SUBSET cmd[p].frr.peers :
                frrFile' \in {Absent, [cmd[p].frr EXCEPT !.peers = xs]}
          /\ UNCHANGED wgFile
    /\ \/ UNCHANGED cmd
       \/ "crash" \in Faults /\ End(p)
    /\ UNCHANGED <<version, devices, frr, disturbed>>

-----------------------------------------------------------------------------
(* tfnet stop goes on when a command fails. *)

\* Fault: the devices go first.
Stop_DevicesFirst(p) ==
    /\ Begin(p, [Idle EXCEPT !.pc = "vxlan del"])
    /\ UNCHANGED <<version, files, devices, frr>>

Stop(p) ==
    /\ Begin(p, [Idle EXCEPT !.pc = "vtysh"])
    /\ UNCHANGED <<version, files, devices, frr>>

\* no router bgp, no bfd, write memory.
Vtysh(p) ==
    /\ cmd[p].pc = "vtysh"
    /\ frr' = Absent
    /\ frrFile' = Absent
    /\ Move(p, "vxlan del")
    /\ UNCHANGED <<version, wgFile, devices, disturbed>>

\* It fails before or behind the first commands.
VtyshFails(p) ==
    /\ "vtysh" \in Faults
    /\ cmd[p].pc = "vtysh"
    /\ frr' \in {frr, Absent}
    /\ Move(p, "vxlan del")
    /\ disturbed' = TRUE
    /\ UNCHANGED <<version, files, devices>>

\* If it is there, set it down and delete it.
DelVxlan(p) ==
    /\ cmd[p].pc = "vxlan del"
    /\ vxlan' = Absent
    /\ Move(p, "bridge del")
    /\ UNCHANGED <<version, files, wg, bridge, frr, disturbed>>

\* A device that is no port any more has lost the settings of its port.
Unbridged ==
    IF vxlan = Absent THEN Absent
    ELSE [vxlan EXCEPT !.master = FALSE, !.knobs = FALSE]

DelBridge(p) ==
    /\ cmd[p].pc = "bridge del"
    /\ bridge' = Absent
    /\ vxlan' = IF bridge = Absent THEN vxlan ELSE Unbridged
    /\ Move(p, "wg down")
    /\ UNCHANGED <<version, files, wg, frr, disturbed>>

WgDown(p) ==
    /\ cmd[p].pc = "wg down"
    /\ wg' = Absent
    /\ End(p)
    /\ UNCHANGED <<version, files, vxlan, bridge, frr, disturbed>>

Down(d) == IF d = Absent THEN Absent ELSE [d EXCEPT !.up = FALSE]

\* A deletion fails, after the device was set down or before.
StopFails(p) ==
    /\ "command" \in Faults
    /\ \/ /\ cmd[p].pc = "vxlan del"
          /\ vxlan' \in {vxlan, Down(vxlan)}
          /\ UNCHANGED bridge
          /\ Move(p, "bridge del")
       \/ /\ cmd[p].pc = "bridge del"
          /\ bridge' \in {bridge, Down(bridge)}
          /\ UNCHANGED vxlan
          /\ Move(p, "wg down")
       \/ /\ cmd[p].pc = "wg down"
          /\ UNCHANGED <<vxlan, bridge>>
          /\ End(p)
    /\ UNCHANGED <<version, files, wg, frr, disturbed>>

-----------------------------------------------------------------------------
(* The host *)

\* A process dies between two commands.
Crash(p) ==
    /\ "crash" \in Faults
    /\ cmd[p].pc # "idle"
    /\ End(p)
    /\ UNCHANGED <<version, files, devices, frr, disturbed>>

\* Devices are gone, and FRR starts with its file.
Reboot ==
    /\ "reboot" \in Faults
    /\ wg' = Absent /\ vxlan' = Absent /\ bridge' = Absent
    /\ frr' = frrFile
    /\ cmd' = [p \in Proc |-> Idle]
    /\ disturbed' = TRUE
    /\ UNCHANGED <<version, files>>

\* A sync or an approve brings the next ledger.
LedgerMoves ==
    /\ version < Len(Ledgers)
    /\ version' = version + 1
    /\ UNCHANGED <<files, devices, frr, cmd, disturbed>>

-----------------------------------------------------------------------------

Init ==
    /\ version = 1
    /\ wgFile = Absent /\ frrFile = Absent
    /\ wg = Absent /\ vxlan = Absent /\ bridge = Absent
    /\ frr = Absent
    /\ cmd = [p \in Proc |-> Idle]
    /\ disturbed = FALSE

StartStep(p) ==
    \/ Start(p)
    \/ WriteWgConf(p) \/ ProbeWg(p) \/ WgUp(p) \/ Strip(p) \/ SyncConf(p)
    \/ ProbeVxlan(p) \/ AddVxlan(p) \/ ProbeBridge(p) \/ AddBridge(p)
    \/ SetMaster(p) \/ SetKnobs(p) \/ VxlanUp(p) \/ BridgeUp(p)
    \/ WriteFrrConf(p) \/ Reload(p)
    \/ HotReloadFails(p) \/ CommandFails(p) \/ WriteSome(p)

StopStep(p) ==
    \/ Stop(p)
    \/ Vtysh(p) \/ DelVxlan(p) \/ DelBridge(p) \/ WgDown(p)
    \/ VtyshFails(p) \/ StopFails(p)

Next ==
    \/ \E p \in Proc : StartStep(p) \/ StopStep(p) \/ Crash(p)
    \/ Reboot
    \/ LedgerMoves

Spec == Init /\ [][Next]_vars

-----------------------------------------------------------------------------
(* Properties *)

\* The type invariant of devices, files and processes.
TypeOK ==
    /\ version \in DOMAIN Ledgers
    /\ wgFile \in WgConf \cup {Absent} /\ wg \in WgConf \cup {Absent}
    /\ frrFile \in FrrConf \cup {Absent} /\ frr \in FrrConf \cup {Absent}
    /\ vxlan \in Vxlan \cup {Absent}
    /\ bridge \in Bridge \cup {Absent}
    /\ cmd \in [Proc -> Command]
    /\ disturbed \in BOOLEAN

\* p ends a start with success, without a warning and undisturbed.
Succeeds(p) == Reload(p) /\ cmd[p].run = "clean"

\* The next state has in both planes the peers that the start c has rendered,
\* as far as WireGuard tells them apart, and the VXLAN device as a port of the
\* bridge, up and with its knobs set.
Configures(c) ==
    /\ wg' # Absent /\ wg'.peers \in Installed(c.wg.peers)
    /\ frr' = c.frr /\ frrFile' = c.frr
    /\ vxlan' # Absent /\ vxlan'.master /\ vxlan'.knobs /\ vxlan'.up
    /\ bridge' # Absent /\ bridge'.up

\* A start that succeeds has repaired whatever earlier starts, stops, crashes
\* and reboots left behind.
SuccessConfigures ==
    [][\A p \in Proc : Succeeds(p) => Configures(cmd[p])]_vars

\* And its addresses are those of the ledger that it read.
SuccessReconciles ==
    [][\A p \in Proc : Succeeds(p) => /\ vxlan'.local = cmd[p].frr.source
                                      /\ wg'.addr = cmd[p].wg.addr]_vars

\* Peers are announced only while there is a data plane to reach them:
\* start configures FRR last and stop clears it first.
AnnouncesOverDataPlane ==
    frr # Absent /\ ~ disturbed =>
        wg # Absent /\ vxlan # Absent /\ vxlan.up /\ bridge # Absent /\ bridge.up

\* However starts overlap, an overlay address leads to one key.
OneKeyPerAddress ==
    wg # Absent => \A x, y \in wg.peers : x.host = y.host => x = y

\* However starts overlap and fail, the peers of the interface are other
\* members of one ledger that may be started, never of two.
PeersOfOneLedger ==
    wg # Absent =>
        \E i \in 1 .. version :
            /\ Startable(Ledgers[i])
            /\ \A x \in wg.peers : \E m \in Ledgers[i].members :
                  m.node # Self /\ x = [key |-> m.wg, host |-> m.ip.host]
-----------------------------------------------------------------------------
(* What it comes to *)

Promise == INSTANCE PeerConfig WITH
    Config <- SUBSET Peer,
    Effect <- Installed,
    offered <- IF Startable(Ledgers[version])
               THEN {WireGuardConf(Ledgers[version]).peers} ELSE {},
    taken <- {cmd[p].wg.peers : p \in {q \in Proc : cmd[q].pc \in Starting}},
    configured <- IF wg = Absent THEN {} ELSE {wg.peers}

\* With one process at a time.
Implements == Promise!Spec

\* A process is under way that has overlapped with another, or has warned.
Spoiling == \E p \in Proc : cmd[p].run = "spoilt"

\* As long as processes do not overlap, and again once those that did have
\* ended, the peers of the interface are replaced as a whole, by those that the
\* start under way has read when it began: neither what crashed writes and
\* overlapping starts have left of the file nor what earlier starts have left
\* of the interface gets into them.
ImplementsApart ==
    /\ Promise!Init
    /\ [][Spoiling \/ Spoiling' \/ [Promise!Next]_(Promise!vars)]_vars
=============================================================================
